---------------------------- MODULE MCDocumentCache ----------------------------
(***************************************************************************)
(* DocumentCache for TLC: one client that asks for the terms in German.    *)
(***************************************************************************)
EXTENDS DocumentCache

MCTagOf == [en |-> 1, de |-> 2]
MCWanted == [c \in Clients |-> [slug |-> "terms", lang |-> 2]]

Hosting(body, heading, requirement, version) ==
  [terms |-> [body |-> body, url |-> "absent", heading |-> heading,
              requirement |-> requirement, version |-> version,
              effective |-> NoDate, grace_days |-> 0]]

First == Hosting([en |-> 1, de |-> 2], 0, "accept", 1)
Retitled == Hosting([en |-> 1, de |-> 2], 1, "acknowledge", 1)
Untranslated == Hosting([en |-> 3], 0, "accept", 1)
Revised == Hosting([en |-> 2, de |-> 3], 0, "accept", 2)
Optional == Hosting([en |-> 2, de |-> 1], 1, "none", NoVersion)
Moved == [terms |-> [First.terms EXCEPT !.body = << >>, !.url = "usable",
                       !.requirement = "none", !.version = NoVersion]]

\* Every change of a revision or a requirement changes a text or a heading.
ChangedTogether == {First, Retitled, Untranslated, Revised, Optional, Moved}

\* One that does not.
RevisedAlone == {First, Hosting([en |-> 1, de |-> 2], 0, "accept", 2)}
==============================================================================
