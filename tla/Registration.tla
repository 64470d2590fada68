----------------------------- MODULE Registration -----------------------------
(***************************************************************************)
(* Legal::verify_registration (crates/terrace-legal/src/consent.rs), run   *)
(* by hosts creating accounts while operators replace the catalog.         *)
(*                                                                         *)
(* The call is synchronous but holds no lock for its length: it takes the  *)
(* served catalog anew for every acceptance, in verify_acceptance, and     *)
(* once more in consent_policies.                                          *)
(***************************************************************************)
EXTENDS ServedCatalog, Sequences

CONSTANTS
  Calls,        \* the calls of verify_registration, each made once
  Submissions   \* the sequences of acceptances they are given

ASSUME RegistrationAssumption == Submissions \subseteq Seq(Acceptances)

VARIABLES
  given,     \* given[c]: the subject, acceptances and time of the call
  pc,        \* pc[c]: where the call is
  records,   \* records[c]: what it has built, and at the end returned
  outcome,   \* outcome[c]: how it ended
  loads      \* history: the documents of each catalog it took, in order

vars == <<catalog, given, pc, records, outcome, loads>>

Arguments == [subject : Subjects, acceptances : Submissions, now : Instants]
NotCalled == [acceptances |-> << >>]

Init ==
  /\ Register!InitCatalog
  /\ given = [c \in Calls |-> NotCalled]
  /\ pc = [c \in Calls |-> "ready"]
  /\ records = [c \in Calls |-> << >>]
  /\ outcome = [c \in Calls |-> "none"]
  /\ loads = [c \in Calls |-> << >>]

Call(c, arguments) ==
  /\ pc[c] = "ready"
  /\ pc' = [pc EXCEPT ![c] = "verify"]
  /\ given' = [given EXCEPT ![c] = arguments]
  /\ UNCHANGED <<catalog, records, outcome, loads>>

\* The acceptance whose turn it is, and whether there is one.
Position(c) == Len(records[c]) + 1
Remaining(c) == Position(c) <= Len(given[c].acceptances)

Load(c) == loads' = [loads EXCEPT ![c] = Append(@, catalog.documents)]

\* An error returns no records, whatever was built before it.
Fail(c, error) ==
  /\ pc' = [pc EXCEPT ![c] = "done"]
  /\ outcome' = [outcome EXCEPT ![c] = error]
  /\ records' = [records EXCEPT ![c] = << >>]

\* Mutant: a document may be accepted twice.
DuplicateAllowed(c, slug) == FALSE

Duplicate(c, slug) == \E i \in DOMAIN records[c] : records[c][i].slug = slug

\* The loop: verify one acceptance, refuse a repeated document, keep the record.
VerifyNext(c) ==
  /\ pc[c] = "verify"
  /\ Remaining(c)
  /\ Load(c)
  /\ LET acceptance == given[c].acceptances[Position(c)]
     IN  IF Refusal(catalog.documents, acceptance) # "none"
         THEN Fail(c, "rejected")
         ELSE IF Duplicate(c, acceptance.slug)
         THEN Fail(c, "duplicate")
         ELSE /\ records' = [records EXCEPT ![c] =
                   Append(@, AcceptanceRecord(catalog.documents, acceptance,
                               given[c].subject, "registration", given[c].now))]
              /\ UNCHANGED <<pc, outcome>>
  /\ UNCHANGED <<catalog, given>>

\* Documents that have to be accepted, whatever their grace period.
MustAccept(documents) ==
  {slug \in DOMAIN documents : documents[slug].policy.requirement = "accept"}

\* Mutant: any one acceptance is enough.
MissingUnlessAny(documents, made) ==
  IF made = << >> THEN MustAccept(documents) ELSE {}

Missing(documents, made) ==
  MustAccept(documents) \ {made[i].slug : i \in DOMAIN made}

\* After the loop: every such document of the catalog of this moment has a record.
CheckPolicies(c) ==
  /\ pc[c] = "verify"
  /\ ~ Remaining(c)
  /\ Load(c)
  /\ IF Missing(catalog.documents, records[c]) # {}
     THEN Fail(c, "missing")
     ELSE /\ pc' = [pc EXCEPT ![c] = "done"]
          /\ outcome' = [outcome EXCEPT ![c] = "registered"]
          /\ UNCHANGED records
  /\ UNCHANGED <<catalog, given>>

Replace(documents) ==
  /\ Register!Publish(documents)
  /\ UNCHANGED <<given, pc, records, outcome, loads>>

Next ==
  \/ \E c \in Calls :
       \/ \E arguments \in Arguments : Call(c, arguments)
       \/ VerifyNext(c)
       \/ CheckPolicies(c)
  \/ \E documents \in Built : Replace(documents)

Spec == Init /\ [][Next]_vars
------------------------------------------------------------------------------
(***************************************************************************)
(* Properties.                                                             *)
(***************************************************************************)
TypeOK ==
  /\ IsServed(catalog)
  /\ given \in [Calls -> Arguments \cup {NotCalled}]
  /\ pc \in [Calls -> {"ready", "verify", "done"}]
  /\ records \in [Calls -> Seq(Records)]
  /\ outcome \in [Calls -> {"none", "rejected", "duplicate", "missing", "registered"}]
  /\ loads \in [Calls -> {loads[c] : c \in Calls}]
  /\ \A c \in Calls : \A i \in DOMAIN loads[c] : IsCatalog(loads[c][i])

Registered(c) == outcome[c] = "registered"

\* The record an acceptance earns against one catalog, and all of a call's.
Earns(documents, c, i) ==
  /\ Refusal(documents, given[c].acceptances[i]) = "none"
  /\ records[c][i] = AcceptanceRecord(documents, given[c].acceptances[i],
                       given[c].subject, "registration", given[c].now)

\* A registration is all or nothing under concurrent replacement: it returns
\* one record per acceptance, each earned against the catalog taken for it and
\* no two for one document, and none missing of the catalog taken last; a
\* refused one returns no record (verify_registration: "Nothing is returned for
\* a partly valid submission").
AllOrNothing ==
  \A c \in Calls :
    /\ Registered(c) =>
         /\ Len(records[c]) = Len(given[c].acceptances)
         /\ \A i \in DOMAIN records[c] :
              /\ Earns(loads[c][i], c, i)
              /\ \A j \in DOMAIN records[c] :
                   records[c][i].slug = records[c][j].slug => i = j
         /\ Missing(loads[c][Len(loads[c])], records[c]) = {}
    /\ pc[c] = "done" /\ ~ Registered(c) => records[c] = << >>

\* A document was accepted under another policy than the catalog taken last has.
RevisedUnderway(c, slug) ==
  \E i \in DOMAIN records[c] :
    /\ records[c][i].slug = slug
    /\ loads[c][i][slug].policy # loads[c][Len(loads[c])][slug].policy

\* Whatever is replaced during a registration, its subject owes no acceptance at any
\* time under the catalog it took last, except of a document that was revised after
\* its acceptance was checked: what verify_registration insists on is what
\* `evaluate` asks for.
RegisteredOwesOnlyRevisions ==
  \A c \in Calls :
    Registered(c) =>
      \A now \in Instants :
        LET last   == loads[c][Len(loads[c])]
            status == ConsentStatus(last, records[c], now)
        IN  \A slug \in DOMAIN status :
              status[slug].blocking \/ (slug \in MustAccept(last) /\ status[slug].outstanding)
                => RevisedUnderway(c, slug)

\* What the records are worth as a whole is what one catalog alone would have
\* granted (Legal: "a request sees the old catalog or the new one, never a mix").
NeverAMix ==
  \A c \in Calls :
    Registered(c) =>
      \E k \in DOMAIN loads[c] :
        /\ \A i \in DOMAIN records[c] : Earns(loads[c][k], c, i)
        /\ Missing(loads[c][k], records[c]) = {}
==============================================================================
