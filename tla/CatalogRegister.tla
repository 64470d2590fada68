--------------------------- MODULE CatalogRegister ---------------------------
(***************************************************************************)
(* What Legal::replace promises (crates/terrace-legal/src/legal.rs): the   *)
(* served catalog is one register, and a catalog that can be built         *)
(* replaces it in a single step that takes the next generation number.     *)
(***************************************************************************)
EXTENDS Integers

CONSTANTS
  Buildable,          \* the catalogs that can be built
  GenerationModulus   \* 2^64 in the code: the generation is a wrapping u64

VARIABLE catalog      \* [generation, documents]

\* Legal::new
InitCatalog ==
  \E documents \in Buildable : catalog = [generation |-> 0, documents |-> documents]

\* Legal::replace
Publish(documents) ==
  catalog' = [generation |-> (catalog.generation + 1) % GenerationModulus,
              documents |-> documents]

RegisterSpec ==
  InitCatalog /\ [][\E documents \in Buildable : Publish(documents)]_catalog
==============================================================================
