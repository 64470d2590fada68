---------------------------- MODULE ServedCatalog ----------------------------
(***************************************************************************)
(* The catalog behind the handle `Legal`, and the configurations that      *)
(* operators load into it.  LegalHandle is the handle as it is written and *)
(* implements Register!RegisterSpec; the services are composed over the    *)
(* steps of Register.                                                      *)
(***************************************************************************)
EXTENDS Consent

CONSTANTS
  Configs,            \* the configurations operators load
  GenerationModulus   \* 2^64 in the code: the generation is a wrapping u64

ASSUME ServedAssumption ==
  /\ \A config \in Configs : IsConfig(config)
  /\ GenerationModulus \in Nat \ {0}

VARIABLE catalog      \* [generation, documents]

\* What CatalogBuilder::build returns for the configurations it does not refuse.
Built == {CatalogOf(config) : config \in {c \in Configs : Valid(c)}}

Register == INSTANCE CatalogRegister WITH Buildable <- Built

IsServed(served) ==
  /\ served \in [generation : 0..(GenerationModulus - 1),
                documents : {served.documents}]
  /\ IsCatalog(served.documents)

\* A document that asks for consent can prove what was shown: it is hosted in
\* at least one locale, names a revision, has a grace period only with a date
\* that starts it, and its policy knows the digest of every text it serves
\* (catalog.rs Builder::consent and Builder::document).
Demonstrable(document) ==
  HasPolicy(document) =>
    /\ document.kind = "inline"
    /\ DOMAIN document.bodies # {}
    /\ document.policy.version \in Versions
    /\ document.policy.grace_days > 0 => document.policy.effective # NoDate
    /\ document.policy.digests = document.bodies

WellFormed(documents) ==
  /\ Required \subseteq DOMAIN documents
  /\ \A slug \in DOMAIN documents :
       /\ Demonstrable(documents[slug])
       /\ documents[slug].kind = "external" => documents[slug].bodies = << >>
       /\ documents[slug].kind = "inline" => DOMAIN documents[slug].bodies # {}
==============================================================================
