---------------------------- MODULE MCRegistration ----------------------------
(***************************************************************************)
(* Registration for TLC: terms and a privacy policy, revised together.     *)
(***************************************************************************)
EXTENDS Registration, SequencesExt

MCTagOf == [en |-> 1]

Source(text, requirement, version) ==
  [body |-> [en |-> text], url |-> "absent", heading |-> 0,
   requirement |-> requirement, version |-> version, effective |-> NoDate,
   grace_days |-> 0]

Both(version, terms, privacy) ==
  [terms |-> Source(version, terms, version),
   privacy |-> Source(version, privacy, version)]

\* The first revision, the second, and one that drops a document.
MCConfigs ==
  {Both(1, "accept", "accept"), Both(2, "accept", "acknowledge"),
   [terms |-> Source(1, "accept", 1)]}

Quote(slug, version) ==
  [slug |-> slug, version |-> version, locale |-> 1, digest |-> version]

MCSubmissions ==
  BoundedSeq({Quote("terms", 1), Quote("terms", 2),
              Quote("privacy", 1), Quote("privacy", 2)}, 2)
    \cup {<<Quote("terms", 1), Quote("privacy", 1), Quote("terms", 1)>>}
==============================================================================
