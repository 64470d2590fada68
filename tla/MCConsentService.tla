--------------------------- MODULE MCConsentService ---------------------------
(***************************************************************************)
(* ConsentService for TLC: the terms of one operator, as they are revised  *)
(* and edited without a revision, and acceptances that quote them right    *)
(* and wrong.                                                              *)
(***************************************************************************)
EXTENDS ConsentService, TLC

MCTagOf == [en |-> 1, de |-> 2]

Source(body, requirement, version, effective, grace) ==
  [body |-> body, url |-> "absent", heading |-> 0, requirement |-> requirement,
   version |-> version, effective |-> effective, grace_days |-> grace]

First == [terms |-> Source([en |-> 1], "accept", 1, NoDate, 0)]
Edited == [terms |-> Source([en |-> 2, de |-> 1], "accept", 1, NoDate, 0)]
Revised == [terms |-> Source([en |-> 2], "accept", 2, 0, 1)]
Doubled ==
  [terms |-> Source([en |-> 1], "accept", 1, NoDate, 0),
   privacy |-> Source([en |-> 1], "accept", 1, NoDate, 0)]

Quote(slug, version, locale, digest) ==
  [slug |-> slug, version |-> version, locale |-> locale, digest |-> digest]

EditConfigs == {First, Edited}

ServiceConfigs == {Doubled, Revised}
ServiceQuotes ==
  {Quote("terms", 1, 1, 1), Quote("terms", 2, 1, 2), Quote("terms", 1, 2, 1),
   Quote("terms", 2, 1, 1), Quote("Terms", 1, 1, 1)}

Symmetry == Permutations(Requests)
==============================================================================
