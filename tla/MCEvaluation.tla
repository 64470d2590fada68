------------------------------ MODULE MCEvaluation ------------------------------
(***************************************************************************)
(* Evaluation for TLC: every kind, version and text of a record of two     *)
(* instants, and a record about another document.                          *)
(***************************************************************************)
EXTENDS Evaluation

MCTagOf == [en |-> 1, de |-> 2]

Policy(requirement, effective, grace, digests) ==
  [requirement |-> requirement, version |-> 2, effective |-> effective,
   grace_days |-> grace, digests |-> digests]

\* Blocking at once, after a grace period, and never; never asked.
MCPolicies ==
  {Policy("accept", NoDate, 0, <<1, 2>>), Policy("accept", 0, 1, <<2>>),
   Policy("accept", 2, 1, <<1, 2>>),
   Policy("acknowledge", NoDate, 0, <<1, 1>>), NoPolicy}

Record(slug, version, locale, digest, kind, at) ==
  [subject |-> "alice", slug |-> slug, version |-> version, locale |-> locale,
   digest |-> digest, kind |-> kind, channel |-> "prompt", at |-> at]

MCGiven ==
  {Record("terms", version, text, text, kind, at) :
     version \in Versions, text \in Texts, kind \in Kinds, at \in {0, 1}}
  \cup {Record("privacy", 2, 1, 1, "withdrawn", 2)}

\* Two acceptances of one instant whose texts were the same in both languages,
\* one of which has changed since.
TiedGiven ==
  {Record("terms", 2, locale, 1, "accepted", at) : locale \in Locales, at \in {0, 1}}
==============================================================================
