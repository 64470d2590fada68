----------------------------- MODULE LegalHandle -----------------------------
(***************************************************************************)
(* The shared handle `Legal` (crates/terrace-legal/src/legal.rs): several  *)
(* callers of `replace`, each building the next catalog outside the lock   *)
(* and swapping it in under the lock, while readers take the `Arc` of      *)
(* whatever is served.                                                     *)
(***************************************************************************)
EXTENDS ServedCatalog

CONSTANTS
  Replacers,  \* concurrent callers of `replace`
  Readers     \* concurrent callers of `catalog`, `index`, `document`

VARIABLES
  next,      \* next[r]: what r has built and not yet swapped in
  outcome,   \* outcome[r]: how the last `replace` of r ended
  held       \* held[d]: the Arc<Catalog> the reader d took last

vars == <<catalog, next, outcome, held>>

NothingPending == [pending |-> FALSE, documents |-> << >>]
Pending(documents) == [pending |-> TRUE, documents |-> documents]

Init ==
  /\ \E config \in {c \in Configs : Valid(c)} :
       catalog = [generation |-> 0, documents |-> CatalogOf(config)]
  /\ next = [r \in Replacers |-> NothingPending]
  /\ outcome = [r \in Replacers |-> "none"]
  /\ held = [d \in Readers |-> catalog]

\* replace, before the lock: build the catalog, or return its issues.
ReplaceBuild(r, config) ==
  /\ ~ next[r].pending
  /\ IF Valid(config)
     THEN /\ next' = [next EXCEPT ![r] = Pending(CatalogOf(config))]
          /\ outcome' = [outcome EXCEPT ![r] = "pending"]
     ELSE /\ outcome' = [outcome EXCEPT ![r] = "refused"]
          /\ UNCHANGED next
  /\ UNCHANGED <<catalog, held>>

\* Mutants: the number does not wrap; the new catalog keeps the old number.
NextGenerationUnwrapped == catalog.generation + 1
NextGenerationKept == catalog.generation

\* generation().wrapping_add(1)
NextGeneration == (catalog.generation + 1) % GenerationModulus

\* replace, under the write lock: number the catalog and swap it in.
ReplaceSwap(r) ==
  /\ next[r].pending
  /\ catalog' = [generation |-> NextGeneration, documents |-> next[r].documents]
  /\ next' = [next EXCEPT ![r] = NothingPending]
  /\ outcome' = [outcome EXCEPT ![r] = "served"]
  /\ UNCHANGED held

\* catalog(): clone the Arc under the read lock.  What is held stays as it is.
Take(d) ==
  /\ held' = [held EXCEPT ![d] = catalog]
  /\ UNCHANGED <<catalog, next, outcome>>

Next ==
  \/ \E r \in Replacers :
       \/ \E config \in Configs : ReplaceBuild(r, config)
       \/ ReplaceSwap(r)
  \/ \E d \in Readers : Take(d)

Spec == Init /\ [][Next]_vars
------------------------------------------------------------------------------
(***************************************************************************)
(* Properties.                                                             *)
(***************************************************************************)
TypeOK ==
  /\ IsServed(catalog)
  /\ next \in [Replacers -> {next[r] : r \in Replacers}]
  /\ \A r \in Replacers :
       /\ IsCatalog(next[r].documents)
       /\ next[r] \in {NothingPending, Pending(next[r].documents)}
  /\ outcome \in [Replacers -> {"none", "pending", "refused", "served"}]
  /\ held \in [Readers -> {held[d] : d \in Readers}]
  /\ \A d \in Readers : IsServed(held[d])

\* No sequence of replacements, in whatever order their builds and swaps
\* interleave, serves or hands to a reader a catalog that validation would
\* refuse (Legal::replace: "The previous catalog keeps serving").
ServedIsWellFormed ==
  /\ WellFormed(catalog.documents)
  /\ \A d \in Readers : WellFormed(held[d].documents)

\* Interleaved replacements behave as single steps on one register: each swap
\* publishes one caller's whole configuration and takes the number after the
\* one it replaces, however long ago its build began (Legal::replace: "The swap
\* is atomic").
ImplementsRegister == Register!RegisterSpec
==============================================================================
