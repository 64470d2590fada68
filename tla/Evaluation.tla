------------------------------ MODULE Evaluation ------------------------------
(***************************************************************************)
(* The rule `evaluate` on its own                                          *)
(* (crates/terrace-legal-model/src/consent.rs): one document, a slice of   *)
(* records a host collects in any order, and time that passes.  The        *)
(* definitions of Consent are set against what its comments and tests say. *)
(***************************************************************************)
EXTENDS Consent, Sequences

CONSTANTS
  Document,    \* the slug of the document under consideration
  Policies,    \* the policies it may have
  Given,       \* the records a host may hold
  MaxRecords   \* bound on the length of a slice

ASSUME EvaluationAssumption ==
  /\ Document \in Slugs
  /\ \A policy \in Policies : IsPolicy(policy)
  /\ Given \subseteq Records
  /\ MaxRecords \in Nat

VARIABLES
  policy,  \* the document's policy
  slice,   \* the records passed to `evaluate`
  now      \* the time passed to `evaluate`

vars == <<policy, slice, now>>

Init ==
  /\ policy \in Policies
  /\ slice = << >>
  /\ now = 0

Collect(record) ==
  /\ Len(slice) < MaxRecords
  /\ slice' = Append(slice, record)
  /\ UNCHANGED <<policy, now>>

Tick ==
  /\ now < MaxInstant
  /\ now' = now + 1
  /\ UNCHANGED <<policy, slice>>

Next == (\E record \in Given : Collect(record)) \/ Tick

Spec == Init /\ [][Next]_vars

\* The result for the document, or no result when nothing is required of it.
Result(records, instant) ==
  Evaluate([slug \in {Document} |-> policy], records, instant)
------------------------------------------------------------------------------
(***************************************************************************)
(* Properties.                                                             *)
(***************************************************************************)
\* The rule as its documentation words it: the latest record by timestamp
\* decides, a withdrawal wins a tie, and an acceptance, an acknowledgement of
\* what need only be acknowledged, settles the revision it names.
About == {slice[i] : i \in {j \in DOMAIN slice : slice[j].slug = Document}}
LatestByTime == {record \in About : \A other \in About : other.at <= record.at}

Settles(record) ==
  /\ record.kind # "withdrawn"
  /\ record.version = policy.version
  /\ record.kind = "acknowledged" => policy.requirement # "accept"

EvaluatesAsStated ==
  LET owed == Result(slice, now)[Document].outstanding
      overdue == \/ policy.effective = NoDate
                 \/ now - policy.effective >= policy.grace_days
  IN  policy.requirement # "none" =>
        /\ (\A record \in LatestByTime : ~ Settles(record)) => owed
        /\ (\E record \in LatestByTime : record.kind = "withdrawn") => owed
        /\ LatestByTime # {} /\ (\A record \in LatestByTime : Settles(record)) => ~ owed
        /\ Result(slice, now)[Document].blocking
             <=> owed /\ policy.requirement = "accept" /\ overdue

Orders == {p \in [DOMAIN slice -> DOMAIN slice] :
             \A i, j \in DOMAIN slice : p[i] = p[j] => i = j}

\* What a subject owes, and whether that blocks, is the same for every order of
\* the same records, ties of all kinds included (evaluate: "any number of
\* records in any order").
VerdictIgnoresOrder ==
  policy.requirement # "none" =>
    \A p \in Orders :
      LET given == Result(slice, now)[Document]
          reordered == Result([i \in DOMAIN slice |-> slice[p[i]]], now)[Document]
      IN  /\ given.outstanding = reordered.outstanding
          /\ given.blocking = reordered.blocking

\* The whole result is (RecordKind::tie_break: "so the outcome does not depend on
\* their order in a slice"; the test the_result_does_not_depend_on_the_order_of_the_records).
ResultIgnoresOrder ==
  \A p \in Orders :
    Result([i \in DOMAIN slice |-> slice[p[i]]], now) = Result(slice, now)

\* A record that reaches the slice late, dated before one already there, or
\* about another document, changes nothing.
LateRecordsChangeNothing ==
  [][Len(slice') > Len(slice) =>
       LET late == slice'[Len(slice')]
       IN  late.slug # Document \/ (\E record \in About : late.at < record.at)
             => Result(slice', now) = Result(slice, now)]_vars

\* With nothing recorded, time alone never lifts a block and never changes what
\* is owed: it only ends the grace period.
TimeOnlyBlocks ==
  [][slice' = slice /\ policy.requirement # "none" =>
       LET before == Result(slice, now)[Document]
           after == Result(slice, now')[Document]
       IN  /\ after.outstanding = before.outstanding
           /\ before.blocking => after.blocking]_vars
==============================================================================
