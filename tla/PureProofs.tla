------------------------------ MODULE PureProofs ------------------------------
(***************************************************************************)
(* Proofs about code whose answer depends on nothing but its arguments,    *)
(* against what its documentation says of every argument: what `evaluate`  *)
(* makes of a slice (Evaluation), which paths a set of exemptions lets     *)
(* pass (Exemptions), and what is read of a text by Readers: which link    *)
(* targets are safe (Href), which If-None-Match headers name a tag         *)
(* (EntityTags) and where a sentence has its links (Template).             *)
(***************************************************************************)
EXTENDS Evaluation, Exemptions, Readers, CatalogProofs, FiniteSetTheorems, SequenceTheorems

SliceInv ==
  /\ policy \in Policies
  /\ slice \in Seq(Given)
  /\ now \in Instants

\* Hosts collect records that are given, and time passes.
LEMMA SliceInvariant == Spec => []SliceInv
<1>1. Init => SliceInv
  BY CatalogAssumption DEF Init, SliceInv, Instants
<1>2. SliceInv /\ [Next]_vars => SliceInv'
  <2> SUFFICES ASSUME SliceInv, [Next]_vars PROVE SliceInv'
    OBVIOUS
  <2>1. ASSUME NEW record \in Given, Collect(record) PROVE SliceInv'
    BY <2>1, AppendProperties DEF Collect, SliceInv
  <2>2. CASE Tick
    BY <2>2, CatalogAssumption DEF Tick, SliceInv, Instants
  <2>3. CASE UNCHANGED vars
    BY <2>3 DEF vars, SliceInv
  <2> QED
    BY <2>1, <2>2, <2>3 DEF Next
<1> QED
  BY <1>1, <1>2, PTL DEF Spec

(***************************************************************************)
(* The deciding record of a slice.                                         *)
(***************************************************************************)
\* The positions about a document.
AboutIn(records, slug) == {i \in DOMAIN records : records[i].slug = slug}

\* What max_by compares: the key, and then the position.
Yields(records, j, i) ==
  Precedes(records[j], records[i]) \/ (~ Precedes(records[i], records[j]) /\ j <= i)

\* What is yielded to is yielded to by all that yield.
LEMMA YieldsIsAnOrder ==
  ASSUME NEW records, NEW S \in SUBSET Nat, \A i \in S : records[i] \in Records
  PROVE  /\ \A i \in S : Yields(records, i, i)
         /\ \A i, j \in S : ~ Yields(records, i, j) => Yields(records, j, i)
         /\ \A i, j, k \in S :
              Yields(records, i, j) /\ Yields(records, j, k) => Yields(records, i, k)
<1>1. \A i \in S : Yields(records, i, i)
  BY PrecedesIsAnOrder DEF Yields
<1>2. ASSUME NEW i \in S, NEW j \in S, ~ Yields(records, i, j)
      PROVE  Yields(records, j, i)
  BY <1>2, PrecedesIsAnOrder DEF Yields
<1>3. ASSUME NEW i \in S, NEW j \in S, NEW k \in S,
             Yields(records, i, j), Yields(records, j, k)
      PROVE  Yields(records, i, k)
  <2> DEFINE a == records[i]
             b == records[j]
             c == records[k]
  <2>1. a \in Records /\ b \in Records /\ c \in Records
    OBVIOUS
  <2>2. /\ Precedes(a, b) \/ (~ Precedes(b, a) /\ i <= j)
        /\ Precedes(b, c) \/ (~ Precedes(c, b) /\ j <= k)
    BY <1>3 DEF Yields
  <2>3. ~ Precedes(a, b) /\ ~ Precedes(b, a) => SameKey(a, b)
    BY <2>1, PrecedesIsAnOrder DEF SameKey
  <2>4. ~ Precedes(b, c) /\ ~ Precedes(c, b) => SameKey(b, c)
    BY <2>1, PrecedesIsAnOrder DEF SameKey
  <2>5. /\ SameKey(a, b) => (Precedes(b, c) <=> Precedes(a, c)) /\ (Precedes(c, b) <=> Precedes(c, a))
        /\ SameKey(b, c) => (Precedes(a, b) <=> Precedes(a, c)) /\ (Precedes(b, a) <=> Precedes(c, a))
    BY DEF SameKey, Precedes
  <2>6. Precedes(a, b) /\ Precedes(b, c) => Precedes(a, c)
    BY <2>1, PrecedesIsAnOrder
  <2>7. i <= j /\ j <= k => i <= k
    OBVIOUS
  <2> HIDE DEF a, b, c
  <2>8. Precedes(a, c) \/ (~ Precedes(c, a) /\ i <= k)
    BY <2>2, <2>3, <2>4, <2>5, <2>6, <2>7
  <2> QED
    BY <2>8 DEF Yields, a, b, c
<1> QED
  BY <1>1, <1>2, <1>3

\* Of finitely many positions, one is yielded to by all.
LEMMA SomeoneDecides ==
  ASSUME NEW records, NEW S \in SUBSET Nat, NEW n \in Nat,
         \A i \in S : records[i] \in Records /\ i <= n, S # {}
  PROVE  \E i \in S : \A j \in S : Yields(records, j, i)
<1> DEFINE Upto(m) == {i \in S : i <= m}
           Chosen(m) == \E i \in Upto(m) : \A j \in Upto(m) : Yields(records, j, i)
           Without == {m \in Nat : Upto(m) # {} /\ ~ Chosen(m)}
<1>1. /\ \A i \in S : Yields(records, i, i)
      /\ \A i, j \in S : ~ Yields(records, i, j) => Yields(records, j, i)
      /\ \A i, j, k \in S :
           Yields(records, i, j) /\ Yields(records, j, k) => Yields(records, i, k)
  BY YieldsIsAnOrder
<1>2. ASSUME Without # {} PROVE FALSE
  <2>1. PICK m \in Without : \A other \in Without : m <= other
    BY <1>2, LeastExists
  <2>2. m \in Nat /\ Upto(m) # {} /\ ~ Chosen(m)
    BY <2>1
  <2>3. CASE m = 0
    <3>0. \A i \in S : i <= m <=> i = 0
      BY <2>3
    <3>1. Upto(m) = {i \in S : i = 0}
      BY <3>0
    <3>2. Chosen(m)
      BY <1>1, <2>2, <3>1
    <3> QED
      BY <2>2, <3>2
  <2>4. CASE m # 0
    <3>0. /\ m - 1 \in Nat /\ ~ (m <= m - 1)
          /\ \A i \in S : i <= m - 1 <=> i <= m /\ i # m
      BY <2>2, <2>4
    <3>1. /\ m - 1 \in Nat /\ m - 1 \notin Without
          /\ Upto(m - 1) = Upto(m) \ {m}
      BY <2>1, <3>0
    <3>2. Upto(m - 1) = {} \/ Chosen(m - 1)
      BY <3>1
    <3>3. CASE m \notin S
      <4>1. Upto(m - 1) = Upto(m)
        BY <3>1, <3>3
      <4> QED
        BY <2>2, <3>2, <4>1
    <3>4. CASE m \in S
      <4>1. m \in Upto(m)
        BY <2>2, <3>4
      <4>2. CASE Upto(m - 1) = {}
        BY <1>1, <2>2, <3>1, <3>4, <4>1, <4>2
      <4>3. CASE Chosen(m - 1)
        <5>1. PICK i \in Upto(m) \ {m} : \A j \in Upto(m) \ {m} : Yields(records, j, i)
          BY <3>1, <4>3
        <5>2. i \in S /\ \A j \in Upto(m) : j \in S
          BY <5>1
        <5>3. Upto(m) = (Upto(m) \ {m}) \cup {m}
          BY <4>1
        <5> HIDE DEF Upto
        <5>4. CASE Yields(records, m, i)
          <6>1. \A j \in Upto(m) : Yields(records, j, i)
            BY <5>1, <5>3, <5>4
          <6> QED
            BY <2>2, <5>1, <6>1
        <5>5. CASE Yields(records, i, m)
          <6>1. \A j \in Upto(m) : Yields(records, j, m)
            BY <1>1, <3>4, <5>1, <5>2, <5>3, <5>5
          <6> QED
            BY <2>2, <4>1, <6>1
        <5> QED
          BY <1>1, <3>4, <5>2, <5>4, <5>5
      <4> QED
        BY <3>2, <4>2, <4>3
    <3> QED
      BY <3>3, <3>4
  <2> QED
    BY <2>3, <2>4
<1>3. Upto(n) = S
  OBVIOUS
<1>4. n \notin Without
  BY <1>2
<1> HIDE DEF Upto
<1> QED
  BY <1>3, <1>4

\* What `evaluate` says of a slice, position by position: one position decides
\* when the document has a record, its record yields to none of the others, and
\* the verdict is what that record is worth.
LEMMA DecidingRecord ==
  ASSUME NEW records \in Seq(Records), NEW slug
  PROVE  /\ Deciding(records, slug) =
              {i \in AboutIn(records, slug) :
                 \A j \in AboutIn(records, slug) : Yields(records, j, i)}
         /\ AboutIn(records, slug) # {} => Deciding(records, slug) # {}
         /\ \A i \in Deciding(records, slug) :
              /\ i \in AboutIn(records, slug)
              /\ \A j \in AboutIn(records, slug) :
                   ~ Precedes(records[i], records[j])
<1> DEFINE about == AboutIn(records, slug)
<1>1. Deciding(records, slug) =
        {i \in about : \A j \in about : Yields(records, j, i)}
  BY DEF Deciding, AboutIn, Yields
<1>2. /\ about \in SUBSET Nat /\ Len(records) \in Nat
      /\ \A i \in about : records[i] \in Records /\ i <= Len(records)
  BY DEF AboutIn
<1>3. about # {} => \E i \in about : \A j \in about : Yields(records, j, i)
  BY <1>2, SomeoneDecides
<1>4. ASSUME NEW i \in about, NEW j \in about, Yields(records, j, i)
      PROVE  ~ Precedes(records[i], records[j])
  BY <1>2, <1>4, PrecedesIsAnOrder DEF Yields
<1> HIDE DEF about
<1> QED
  BY <1>1, <1>3, <1>4 DEF about

\* The value for the document is the verdict of Consent on it.
LEMMA ResultOfPolicy ==
  ASSUME NEW records, NEW instant, policy.requirement # "none"
  PROVE  /\ Result(records, instant)[Document].outstanding =
              Outstanding(policy, Document, records)
         /\ Result(records, instant)[Document].blocking =
              Blocking(policy, Document, records, instant)
<1> DEFINE policies == [slug \in {Document} |-> policy]
<1>1. Document \in {s \in DOMAIN policies : policies[s].requirement # "none"}
  OBVIOUS
<1>2. policies[Document] = policy
  OBVIOUS
<1> HIDE DEF policies
<1> QED
  BY <1>1, <1>2 DEF Result, Evaluate, policies

(***************************************************************************)
(* The order of the slice.                                                 *)
(***************************************************************************)
Values(records) == {records[i] : i \in DOMAIN records}

\* Slices of the same records are decided by records of the same key, which are
\* worth the same.
LEMMA SameRecordsSameVerdict ==
  ASSUME NEW one \in Seq(Records), NEW other \in Seq(Records),
         Values(one) = Values(other), NEW rule, NEW slug, NEW instant
  PROVE  /\ Outstanding(rule, slug, one) = Outstanding(rule, slug, other)
         /\ Blocking(rule, slug, one, instant) = Blocking(rule, slug, other, instant)
<1>1. ASSUME NEW a \in Seq(Records), NEW b \in Seq(Records), Values(a) = Values(b)
      PROVE  \A i \in AboutIn(a, slug) : \E j \in AboutIn(b, slug) : a[i] = b[j]
  <2> SUFFICES ASSUME NEW i \in AboutIn(a, slug) PROVE \E j \in AboutIn(b, slug) : a[i] = b[j]
    OBVIOUS
  <2>1. i \in DOMAIN a /\ a[i].slug = slug
    BY DEF AboutIn
  <2>2. a[i] \in Values(b)
    BY <1>1, <2>1 DEF Values
  <2>3. PICK j \in DOMAIN b : b[j] = a[i]
    BY <2>2 DEF Values
  <2>4. j \in AboutIn(b, slug)
    BY <2>1, <2>3 DEF AboutIn
  <2> QED
    BY <2>3, <2>4
<1>2. \A i \in AboutIn(one, slug) : \E j \in AboutIn(other, slug) : one[i] = other[j]
  BY <1>1
<1>3. \A j \in AboutIn(other, slug) : \E i \in AboutIn(one, slug) : other[j] = one[i]
  BY <1>1
<1>4. /\ AboutIn(one, slug) # {} => Deciding(one, slug) # {}
      /\ \A i \in Deciding(one, slug) :
           /\ i \in AboutIn(one, slug)
           /\ \A j \in AboutIn(one, slug) : ~ Precedes(one[i], one[j])
  BY DecidingRecord
<1>5. /\ AboutIn(other, slug) # {} => Deciding(other, slug) # {}
      /\ \A i \in Deciding(other, slug) :
           /\ i \in AboutIn(other, slug)
           /\ \A j \in AboutIn(other, slug) : ~ Precedes(other[i], other[j])
  BY DecidingRecord
<1>6. /\ \A i \in AboutIn(one, slug) : one[i] \in Records
      /\ \A i \in AboutIn(other, slug) : other[i] \in Records
  BY DEF AboutIn
<1>7. \A i \in Deciding(one, slug), k \in Deciding(other, slug) :
         SameKey(one[i], other[k])
  <2> SUFFICES ASSUME NEW i \in Deciding(one, slug), NEW k \in Deciding(other, slug)
               PROVE  SameKey(one[i], other[k])
    OBVIOUS
  <2>1. ~ Precedes(one[i], other[k]) /\ ~ Precedes(other[k], one[i])
    BY <1>2, <1>3, <1>4, <1>5, Zenon
  <2>2. one[i] \in Records /\ other[k] \in Records
    BY <1>4, <1>5, <1>6
  <2> QED
    BY <2>1, <2>2, PrecedesIsAnOrder
<1>8. \A i \in Deciding(one, slug), k \in Deciding(other, slug) :
         Satisfies(rule, one[i]) <=> Satisfies(rule, other[k])
  BY <1>7 DEF SameKey, Satisfies
<1>9. Deciding(one, slug) = {} <=> Deciding(other, slug) = {}
  BY <1>2, <1>3, <1>4, <1>5
<1>10. Outstanding(rule, slug, one) = Outstanding(rule, slug, other)
  BY <1>8, <1>9 DEF Outstanding
<1> QED
  BY <1>10 DEF Blocking

\* A reordering holds every record of the slice.
LEMMA ReorderingKeepsRecords ==
  ASSUME NEW records \in Seq(Records), NEW p \in [DOMAIN records -> DOMAIN records],
         \A i, j \in DOMAIN records : p[i] = p[j] => i = j
  PROVE  /\ [i \in DOMAIN records |-> records[p[i]]] \in Seq(Records)
         /\ Values([i \in DOMAIN records |-> records[p[i]]]) = Values(records)
<1> DEFINE places == DOMAIN records
           reordered == [i \in places |-> records[p[i]]]
<1>1. places = 1..Len(records) /\ Len(records) \in Nat
  OBVIOUS
<1>2. IsFiniteSet(places)
  BY <1>1, FS_Interval
<1>3. p \in Injection(places, places)
  BY DEF Injection, IsInjective
<1>4. p \in Surjection(places, places)
  BY <1>2, <1>3, FS_Injection
<1>5. \A i \in places : p[i] \in places
  OBVIOUS
<1>6. \A k \in places : \E i \in places : p[i] = k
  BY <1>4 DEF Surjection
<1>7. DOMAIN reordered = places /\ \A i \in places : reordered[i] = records[p[i]]
  OBVIOUS
<1>8. \A i \in places : records[i] \in Records
  OBVIOUS
<1>9. reordered \in Seq(Records)
  BY <1>1, <1>5, <1>8
<1> HIDE DEF reordered, places
<1>10. Values(reordered) = {records[i] : i \in places}
  BY <1>5, <1>6, <1>7 DEF Values
<1> QED
  BY <1>9, <1>10 DEF Values, reordered, places

\* What a subject owes and whether it blocks are the same for every order in
\* which a host hands over the records, for slices of any length (evaluate).
THEOREM OrderIsIgnored == Spec => []VerdictIgnoresOrder
<1>1. ASSUME SliceInv PROVE VerdictIgnoresOrder
  <2> SUFFICES ASSUME policy.requirement # "none", NEW p \in Orders
               PROVE  /\ Result(slice, now)[Document].outstanding =
                           Result([i \in DOMAIN slice |-> slice[p[i]]], now)[Document].outstanding
                      /\ Result(slice, now)[Document].blocking =
                           Result([i \in DOMAIN slice |-> slice[p[i]]], now)[Document].blocking
    BY DEF VerdictIgnoresOrder
  <2>1. slice \in Seq(Records)
    BY <1>1, EvaluationAssumption DEF SliceInv
  <2>2. PICK reordered : reordered = [i \in DOMAIN slice |-> slice[p[i]]]
    OBVIOUS
  <2>3. reordered \in Seq(Records) /\ Values(reordered) = Values(slice)
    BY <2>1, <2>2, ReorderingKeepsRecords DEF Orders
  <2>4. /\ Outstanding(policy, Document, slice) = Outstanding(policy, Document, reordered)
        /\ Blocking(policy, Document, slice, now) =
             Blocking(policy, Document, reordered, now)
    BY <2>1, <2>3, SameRecordsSameVerdict
  <2>5. /\ Result(slice, now)[Document].outstanding =
             Result(reordered, now)[Document].outstanding
        /\ Result(slice, now)[Document].blocking =
             Result(reordered, now)[Document].blocking
    BY <2>4, ResultOfPolicy
  <2> QED
    BY <2>2, <2>5
<1> QED
  BY <1>1, SliceInvariant, PTL

(***************************************************************************)
(* The rule as its documentation words it.                                 *)
(***************************************************************************)
\* The deciding record is one of the latest, and a withdrawal when one of the
\* latest is.
LEMMA DecidingIsLatest ==
  ASSUME slice \in Seq(Records)
  PROVE  /\ About = {slice[i] : i \in AboutIn(slice, Document)}
         /\ About # {} => Deciding(slice, Document) # {}
         /\ \A i \in Deciding(slice, Document) :
              /\ slice[i] \in LatestByTime
              /\ (\E record \in LatestByTime : record.kind = "withdrawn") =>
                   slice[i].kind = "withdrawn"
<1>1. About = {slice[i] : i \in AboutIn(slice, Document)}
  BY DEF About, AboutIn
<1>2. /\ AboutIn(slice, Document) # {} => Deciding(slice, Document) # {}
      /\ \A i \in Deciding(slice, Document) :
           /\ i \in AboutIn(slice, Document)
           /\ \A j \in AboutIn(slice, Document) : ~ Precedes(slice[i], slice[j])
  BY DecidingRecord
<1>3. \A record \in About : record \in Records
  BY DEF About
<1>4. ASSUME NEW i \in Deciding(slice, Document)
      PROVE  /\ slice[i] \in LatestByTime
             /\ (\E record \in LatestByTime : record.kind = "withdrawn") =>
                  slice[i].kind = "withdrawn"
  <2>1. slice[i] \in About /\ \A record \in About : ~ Precedes(slice[i], record)
    BY <1>1, <1>2, <1>4
  <2>2. PICK decided : decided = slice[i]
    OBVIOUS
  <2>3. decided \in Records /\ decided.at \in Nat /\ decided.kind \in Kinds
    BY <1>3, <2>1, <2>2, RecordKeys
  <2>4. ASSUME NEW record \in About
        PROVE  record.at <= decided.at
    <3>1. record.at \in Nat
      BY <1>3, RecordKeys
    <3>2. ~ (decided.at < record.at)
      BY <2>1, <2>2 DEF Precedes
    <3> QED
      BY <2>3, <3>1, <3>2
  <2>5. decided \in LatestByTime
    BY <2>1, <2>2, <2>4 DEF LatestByTime
  <2>6. ASSUME NEW record \in LatestByTime, record.kind = "withdrawn"
        PROVE  decided.kind = "withdrawn"
    <3>1. record \in About /\ decided.at <= record.at /\ record.at <= decided.at
      BY <2>1, <2>2, <2>4 DEF LatestByTime
    <3>2. record.at \in Nat
      BY <1>3, <3>1, RecordKeys
    <3>3. decided.at = record.at
      BY <2>3, <3>1, <3>2
    <3>4. ~ (TieBreak[decided.kind] < TieBreak["withdrawn"])
      BY <2>1, <2>2, <2>6, <3>1, <3>3 DEF Precedes
    <3> QED
      BY <2>3, <3>4 DEF Kinds, TieBreak
  <2> QED
    BY <2>2, <2>5, <2>6
<1> QED
  BY <1>1, <1>2, <1>4

\* What satisfies a policy settles it.
LEMMA SatisfiesIsSettles ==
  ASSUME IsPolicy(policy), policy.requirement # "none", NEW record \in Records
  PROVE  Satisfies(policy, record) <=> Settles(record)
<1>1. policy.requirement \in {"acknowledge", "accept"}
  BY DEF IsPolicy, Requirements
<1>2. record.kind \in Kinds
  BY DEF Records
<1> QED
  BY <1>1, <1>2 DEF Satisfies, Settles, Kinds

\* The end of the grace period, computed without leaving the range of the date
\* type, is the day that many days after the effective date.
LEMMA GraceEnds ==
  ASSUME IsPolicy(policy), NEW instant \in Instants
  PROVE  GraceOver(policy, instant) <=>
           \/ policy.effective = NoDate
           \/ instant - policy.effective >= policy.grace_days
<1>1. /\ policy.effective \in Dates \cup {NoDate}
      /\ policy.grace_days \in 0..365
  BY DEF IsPolicy
<1>2. CASE policy.effective = NoDate
  BY <1>2 DEF GraceOver
<1>3. CASE policy.effective # NoDate
  <2>1. /\ policy.effective \in Nat /\ policy.grace_days \in Nat
        /\ instant \in Nat /\ instant <= MaxInstant
    BY <1>1, <1>3, CatalogAssumption DEF Dates, Instants
  <2>2. PICK effective \in Nat, grace \in Nat :
          effective = policy.effective /\ grace = policy.grace_days
    BY <2>1
  <2>3. effective + grace <= MaxInstant /\ instant >= effective + grace
          <=> instant - effective >= grace
    BY <2>1, CatalogAssumption
  <2> QED
    BY <1>3, <2>2, <2>3 DEF GraceOver
<1> QED
  BY <1>2, <1>3

\* Whatever records a host collected, in whatever order, and however late it is:
\* the latest record decides, a withdrawal wins a tie, and a block begins when the
\* grace period has passed (evaluate, Policy::blocks_from).
THEOREM EvaluationIsAsStated == Spec => []EvaluatesAsStated
<1>1. ASSUME SliceInv PROVE EvaluatesAsStated
  <2> SUFFICES ASSUME policy.requirement # "none" PROVE EvaluatesAsStated
    BY DEF EvaluatesAsStated
  <2> DEFINE owed == Outstanding(policy, Document, slice)
             overdue == \/ policy.effective = NoDate
                        \/ now - policy.effective >= policy.grace_days
  <2>1. IsPolicy(policy) /\ slice \in Seq(Records) /\ now \in Instants
    BY <1>1, EvaluationAssumption DEF SliceInv
  <2>2. /\ Result(slice, now)[Document].outstanding = owed
        /\ Result(slice, now)[Document].blocking = Blocking(policy, Document, slice, now)
    BY ResultOfPolicy
  <2>3. /\ About = {slice[i] : i \in AboutIn(slice, Document)}
        /\ About # {} => Deciding(slice, Document) # {}
        /\ \A i \in Deciding(slice, Document) :
             /\ slice[i] \in LatestByTime
             /\ (\E record \in LatestByTime : record.kind = "withdrawn") =>
                  slice[i].kind = "withdrawn"
    BY <2>1, DecidingIsLatest
  <2>4. LatestByTime \subseteq About /\ About \subseteq Records
    BY <2>1 DEF LatestByTime, About
  <2>5. \A record \in LatestByTime : Satisfies(policy, record) <=> Settles(record)
    BY <2>1, <2>4, SatisfiesIsSettles
  <2>6. (\A record \in LatestByTime : ~ Settles(record)) => owed
    BY <2>3, <2>5 DEF Outstanding
  <2>7. (\E record \in LatestByTime : record.kind = "withdrawn") => owed
    BY <2>3 DEF Outstanding, Satisfies
  <2>8. LatestByTime # {} /\ (\A record \in LatestByTime : Settles(record)) => ~ owed
    BY <2>3, <2>4, <2>5 DEF Outstanding
  <2>9. Blocking(policy, Document, slice, now) <=>
          owed /\ policy.requirement = "accept" /\ overdue
    BY <2>1, GraceEnds DEF Blocking
  <2> HIDE DEF owed
  <2> QED
    BY <2>2, <2>6, <2>7, <2>8, <2>9 DEF EvaluatesAsStated
<1> QED
  BY <1>1, SliceInvariant, PTL

\* Time changes nothing of what is owed and never lifts a block.
THEOREM TimeNeverLifts == Spec => TimeOnlyBlocks
<1> DEFINE Held ==
      slice' = slice /\ policy.requirement # "none" =>
        /\ Result(slice, now')[Document].outstanding = Result(slice, now)[Document].outstanding
        /\ Result(slice, now)[Document].blocking => Result(slice, now')[Document].blocking
<1>1. ASSUME SliceInv, SliceInv', [Next]_vars PROVE Held
  <2> SUFFICES ASSUME policy.requirement # "none" PROVE Held
    OBVIOUS
  <2>1. IsPolicy(policy) /\ now \in Instants /\ now' \in Instants
    BY <1>1, EvaluationAssumption DEF SliceInv
  <2>2. now' = now \/ now' = now + 1
    BY <1>1 DEF Next, Collect, Tick, vars
  <2>3. GraceOver(policy, now) => GraceOver(policy, now')
    BY <2>1, <2>2, CatalogAssumption DEF GraceOver, IsPolicy, Dates, Instants
  <2>4. \A instant :
          /\ Result(slice, instant)[Document].outstanding =
               Outstanding(policy, Document, slice)
          /\ Result(slice, instant)[Document].blocking =
               Blocking(policy, Document, slice, instant)
    BY ResultOfPolicy
  <2>5. Blocking(policy, Document, slice, now) => Blocking(policy, Document, slice, now')
    BY <2>3 DEF Blocking
  <2> QED
    BY <2>4, <2>5
<1>2. SliceInv /\ SliceInv' /\ [Next]_vars => [Held]_vars
  BY <1>1
<1> QED
  BY <1>2, SliceInvariant, PTL DEF Spec, TimeOnlyBlocks

\* A record dated before one that is there, or about another document, does not
\* decide.
LEMMA LateDoesNotDecide ==
  ASSUME slice \in Seq(Records), NEW late \in Records,
         late.slug # Document \/ \E record \in About : late.at < record.at
  PROVE  /\ Deciding(Append(slice, late), Document) = Deciding(slice, Document)
         /\ \A i \in Deciding(slice, Document) : Append(slice, late)[i] = slice[i]
<1> DEFINE longer == Append(slice, late)
           about == AboutIn(slice, Document)
           last == Len(slice) + 1
<1>1. /\ longer \in Seq(Records)
      /\ DOMAIN longer = DOMAIN slice \cup {last}
      /\ last \notin DOMAIN slice
      /\ longer[last] = late
      /\ \A i \in DOMAIN slice : longer[i] = slice[i]
  <2>1. /\ longer \in Seq(Records)
        /\ Len(longer) = last
        /\ \A i \in 1..Len(slice) : longer[i] = slice[i]
        /\ longer[last] = late
    BY AppendProperties
  <2>2. DOMAIN longer = 1..last /\ DOMAIN slice = 1..Len(slice) /\ Len(slice) \in Nat
    BY <2>1
  <2> QED
    BY <2>1, <2>2
<1>2. /\ Deciding(longer, Document) =
           {i \in AboutIn(longer, Document) :
              \A j \in AboutIn(longer, Document) : Yields(longer, j, i)}
      /\ Deciding(slice, Document) = {i \in about : \A j \in about : Yields(slice, j, i)}
  BY <1>1, DecidingRecord
<1> HIDE DEF longer, last
<1>3. /\ about \subseteq DOMAIN slice
      /\ \A i \in about : longer[i] = slice[i] /\ slice[i] \in Records
      /\ \A i, j \in about : Yields(longer, i, j) = Yields(slice, i, j)
  BY <1>1 DEF AboutIn, Yields
<1>4. CASE late.slug # Document
  <2>1. AboutIn(longer, Document) = about
    BY <1>1, <1>4 DEF AboutIn
  <2> QED
    BY <1>2, <1>3, <2>1 DEF longer
<1>5. CASE late.slug = Document /\ \E record \in About : late.at < record.at
  <2>1. AboutIn(longer, Document) = about \cup {last} /\ last \notin about
    BY <1>1, <1>5 DEF AboutIn
  <2>2. PICK k \in about : late.at < slice[k].at
    BY <1>5 DEF About, AboutIn
  <2>3. late.at \in Nat /\ \A i \in about : slice[i].at \in Nat
    BY <1>3, RecordKeys
  <2>4. ~ Yields(longer, k, last)
    <3>1. Precedes(longer[last], longer[k])
      BY <1>1, <1>3, <2>2 DEF Precedes
    <3>2. longer[last] \in Records /\ longer[k] \in Records
      BY <1>1, <1>3, <2>2
    <3>3. ~ Precedes(longer[k], longer[last])
      BY <3>1, <3>2, PrecedesIsAnOrder
    <3> QED
      BY <3>1, <3>3 DEF Yields
  <2>5. ASSUME NEW i \in about, \A j \in about : Yields(slice, j, i)
        PROVE  Yields(longer, last, i)
    <3>1. slice[k].at <= slice[i].at
      BY <2>2, <2>3, <2>5 DEF Yields, Precedes
    <3>2. late.at < slice[i].at
      BY <2>2, <2>3, <2>5, <3>1
    <3> QED
      BY <1>1, <1>3, <2>5, <3>2 DEF Yields, Precedes
  <2>6. Deciding(longer, Document) = Deciding(slice, Document)
    <3> HIDE DEF about
    <3> QED
      BY <1>2, <1>3, <2>1, <2>2, <2>4, <2>5
  <2> QED
    BY <1>2, <1>3, <2>6 DEF longer
<1> QED
  BY <1>4, <1>5

\* A host that learns late of a record dated before one it has, or of another
\* document, gets the result it had (evaluate).
THEOREM LateRecordsAreHarmless == Spec => LateRecordsChangeNothing
<1> DEFINE Harmless ==
      Len(slice') > Len(slice) =>
        LET late == slice'[Len(slice')]
        IN  late.slug # Document \/ (\E record \in About : late.at < record.at)
              => Result(slice', now) = Result(slice, now)
<1>1. ASSUME SliceInv, [Next]_vars PROVE Harmless
  <2>1. slice \in Seq(Records) /\ Given \subseteq Records
    BY <1>1, EvaluationAssumption DEF SliceInv
  <2>2. ASSUME NEW record \in Given, Collect(record)
        PROVE  Harmless
    <3>1. slice' = Append(slice, record) /\ record \in Records
      BY <2>1, <2>2 DEF Collect
    <3>2. slice'[Len(slice')] = record
      BY <2>1, <3>1, AppendProperties
    <3>3. ASSUME record.slug # Document \/ \E other \in About : record.at < other.at
          PROVE  Result(Append(slice, record), now) = Result(slice, now)
      <4>1. PICK longer : longer = Append(slice, record)
        OBVIOUS
      <4>2. /\ Deciding(slice, Document) = Deciding(longer, Document)
            /\ \A i \in Deciding(slice, Document) : slice[i] = longer[i]
        BY <2>1, <3>1, <3>3, <4>1, LateDoesNotDecide
      <4>3. /\ Outstanding(policy, Document, slice) = Outstanding(policy, Document, longer)
            /\ Blocking(policy, Document, slice, now) =
                 Blocking(policy, Document, longer, now)
            /\ ContentChangedSince(policy, Document, slice) =
                 ContentChangedSince(policy, Document, longer)
        BY <4>2, VerdictOfDeciding
      <4>4. Result(longer, now) = Result(slice, now)
        BY <4>3 DEF Result, Evaluate
      <4> QED
        BY <4>1, <4>4
    <3> QED
      BY <3>1, <3>2, <3>3
  <2>3. CASE Tick
    BY <2>1, <2>3 DEF Tick
  <2>4. CASE UNCHANGED vars
    BY <2>1, <2>4 DEF vars
  <2> QED
    BY <1>1, <2>2, <2>3, <2>4 DEF Next
<1>2. SliceInv /\ [Next]_vars => [Harmless]_vars
  BY <1>1
<1> QED
  BY <1>2, SliceInvariant, PTL DEF Spec, LateRecordsChangeNothing

------------------------------------------------------------------------------
(***************************************************************************)
(* The exempt routes.  A path is split at its slashes: by the list of the  *)
(* edges of its segments, which for a prefix up to a slash is the          *)
(* beginning of the list for the whole.                                    *)
(***************************************************************************)
\* The list of the lower numbers of a set is the beginning of its list.
LEMMA AscendingBegins ==
  ASSUME NEW S \in SUBSET Nat, IsFiniteSet(S), NEW T \in SUBSET S,
         \A i \in S, j \in T : i < j => i \in T
  PROVE  /\ Cardinality(T) <= Cardinality(S)
         /\ \A n \in 1..Cardinality(T) : Ascending(T)[n] = Ascending(S)[n]
<1>1. IsFiniteSet(T) /\ Cardinality(T) <= Cardinality(S)
  BY FS_Subset
<1>2. /\ Cardinality(S) \in Nat
      /\ \A i \in S : \E n \in 1..Cardinality(S) : Ascending(S)[n] = i
      /\ \A n \in 1..Cardinality(S) : Cardinality({j \in S : j < Ascending(S)[n]}) = n - 1
  BY AscendingEnumerates
<1>3. /\ Cardinality(T) \in Nat
      /\ Ascending(T) \in [1..Cardinality(T) -> T]
      /\ \A n \in 1..Cardinality(T) : Cardinality({j \in T : j < Ascending(T)[n]}) = n - 1
  BY <1>1, AscendingEnumerates
<1>4. ASSUME NEW n \in 1..Cardinality(T) PROVE Ascending(T)[n] = Ascending(S)[n]
  <2>1. PICK i \in T : i = Ascending(T)[n]
    BY <1>3
  <2>2. PICK k \in 1..Cardinality(S) : Ascending(S)[k] = i
    BY <1>2, <2>1
  <2>3. {j \in T : j < i} = {j \in S : j < i}
    OBVIOUS
  <2>4. Cardinality({j \in T : j < i}) = n - 1 /\ Cardinality({j \in S : j < i}) = k - 1
    BY <1>2, <1>3, <2>1, <2>2
  <2>5. n - 1 = k - 1
    BY <2>3, <2>4
  <2>6. n = k
    BY <2>5
  <2> QED
    BY <2>1, <2>2, <2>6
<1> QED
  BY <1>1, <1>4

\* The edges of the segments of a text: before it, at each slash and behind it.
Edge(tokens) == Ascending(Edges(tokens))
Parts(tokens) == Cardinality(Edges(tokens)) - 1

\* There are finitely many, from 0 to the place behind the text.
LEMMA EdgesAreFinite ==
  ASSUME NEW S, NEW tokens \in Seq(S)
  PROVE  /\ Edges(tokens) \in SUBSET (0..(Len(tokens) + 1))
         /\ Edges(tokens) \in SUBSET Nat /\ IsFiniteSet(Edges(tokens))
         /\ Edges(tokens) =
              {0, Len(tokens) + 1} \cup {i \in 1..Len(tokens) : tokens[i] = "/"}
<1>1. Len(tokens) \in Nat /\ DOMAIN tokens = 1..Len(tokens)
  BY LenProperties
<1>2. Edges(tokens) = {0, Len(tokens) + 1} \cup {i \in 1..Len(tokens) : tokens[i] = "/"}
  BY <1>1 DEF Edges
<1>3. Edges(tokens) \in SUBSET (0..(Len(tokens) + 1))
  BY <1>1, <1>2
<1>4. IsFiniteSet(0..(Len(tokens) + 1))
  BY <1>1, FS_Interval
<1>5. IsFiniteSet(Edges(tokens))
  BY <1>3, <1>4, FS_Subset
<1>6. 0..(Len(tokens) + 1) \in SUBSET Nat
  BY <1>1
<1> QED
  BY <1>2, <1>3, <1>5, <1>6

\* They are listed from the first to the last, and there are at least these two.
LEMMA EdgesAreListed ==
  ASSUME NEW S, NEW tokens \in Seq(S)
  PROVE  /\ Parts(tokens) \in Nat \ {0}
         /\ Edge(tokens) \in [1..(Parts(tokens) + 1) -> Edges(tokens)]
         /\ Edge(tokens)[1] = 0 /\ Edge(tokens)[Parts(tokens) + 1] = Len(tokens) + 1
         /\ \A m, n \in 1..(Parts(tokens) + 1) : m < n => Edge(tokens)[m] < Edge(tokens)[n]
         /\ \A i \in Edges(tokens) : \E n \in 1..(Parts(tokens) + 1) : Edge(tokens)[n] = i
<1>1. PICK E, size, list :
        E = Edges(tokens) /\ size = Cardinality(E) /\ list = Ascending(E)
  OBVIOUS
<1>2. /\ E \in SUBSET Nat /\ IsFiniteSet(E) /\ Len(tokens) \in Nat
      /\ 0 \in E /\ Len(tokens) + 1 \in E /\ \A i \in E : 0 <= i /\ i <= Len(tokens) + 1
  <2>1. E \in SUBSET (0..(Len(tokens) + 1)) /\ E \in SUBSET Nat /\ IsFiniteSet(E)
    BY <1>1, EdgesAreFinite
  <2>2. 0 \in E /\ Len(tokens) + 1 \in E
    BY <1>1 DEF Edges
  <2>3. Len(tokens) \in Nat
    BY LenProperties
  <2> QED
    BY <2>1, <2>2, <2>3
<1>3. /\ size \in Nat /\ list \in [1..size -> E]
      /\ \A i \in E : \E n \in 1..size : list[n] = i
      /\ \A m, n \in 1..size : m < n => list[m] < list[n]
  BY <1>1, <1>2, AscendingEnumerates
<1>4. PICK first \in 1..size : list[first] = 0
  BY <1>2, <1>3
<1>5. PICK last \in 1..size : list[last] = Len(tokens) + 1
  BY <1>2, <1>3
<1>6. 1 \in 1..size /\ size \in 1..size
  <2> first \in 1..size /\ size \in Nat
    BY <1>3
  <2> QED
    OBVIOUS
<1>7. list[1] \in E /\ list[size] \in E
  BY <1>3, <1>6
<1>8. first = 1
  <2>1. list[1] \in Nat
    BY <1>2, <1>7
  <2>2. 1 < first => list[1] < 0
    BY <1>3, <1>4, <1>6
  <2>3. ~ (1 < first)
    BY <2>1, <2>2
  <2> QED
    BY <1>4, <2>3
<1>9. last = size
  <2>1. list[size] \in Nat /\ list[size] <= Len(tokens) + 1
    BY <1>2, <1>7
  <2>2. last < size => Len(tokens) + 1 < list[size]
    BY <1>3, <1>5, <1>6
  <2>3. ~ (last < size)
    BY <1>2, <2>1, <2>2
  <2> QED
    BY <1>3, <1>5, <2>3
<1>10. first # last
  BY <1>2, <1>4, <1>5
<1>11. size - 1 \in Nat \ {0} /\ (size - 1) + 1 = size
  BY <1>3, <1>8, <1>9, <1>10
<1> QED
  BY <1>1, <1>3, <1>4, <1>5, <1>8, <1>9, <1>11 DEF Edge, Parts

\* Between two edges in a row there is none.
LEMMA EdgesAreApart ==
  ASSUME NEW S, NEW tokens \in Seq(S), NEW n \in 1..Parts(tokens)
  PROVE  /\ n + 1 \in 1..(Parts(tokens) + 1) /\ n \in 1..(Parts(tokens) + 1)
         /\ Edge(tokens)[n] \in Nat /\ Edge(tokens)[n + 1] \in Nat
         /\ Edge(tokens)[n] < Edge(tokens)[n + 1]
         /\ Edge(tokens)[n + 1] <= Len(tokens) + 1
         /\ \A i \in Edges(tokens) : i <= Edge(tokens)[n] \/ Edge(tokens)[n + 1] <= i
<1>1. PICK list, last : list = Edge(tokens) /\ last = Parts(tokens) + 1
  OBVIOUS
<1>2. /\ last \in Nat /\ list \in [1..last -> Edges(tokens)]
      /\ \A i, j \in 1..last : i < j => list[i] < list[j]
      /\ \A i \in Edges(tokens) : \E j \in 1..last : list[j] = i
      /\ n + 1 \in 1..last /\ n \in 1..last
  <2>1. Parts(tokens) \in Nat \ {0}
    BY EdgesAreListed
  <2>2. last \in Nat /\ n + 1 \in 1..last /\ n \in 1..last
    BY <1>1, <2>1
  <2> QED
    BY <1>1, <2>2, EdgesAreListed
<1>3. Edges(tokens) \in SUBSET (0..(Len(tokens) + 1)) /\ Len(tokens) \in Nat
  BY EdgesAreFinite, LenProperties
<1>4. ASSUME NEW i \in Edges(tokens) PROVE i <= list[n] \/ list[n + 1] <= i
  <2>1. PICK j \in 1..last : list[j] = i
    BY <1>2
  <2>2. j < n \/ j = n \/ j = n + 1 \/ n + 1 < j
    BY <1>2
  <2>3. list[n] \in Int /\ list[n + 1] \in Int /\ list[j] \in Int
    BY <1>2, <1>3
  <2> QED
    BY <1>2, <2>1, <2>2, <2>3
<1>5. list[n] \in 0..(Len(tokens) + 1) /\ list[n + 1] \in 0..(Len(tokens) + 1)
  BY <1>2, <1>3
<1>6. list[n] < list[n + 1]
  BY <1>2
<1> QED
  BY <1>1, <1>2, <1>3, <1>4, <1>5, <1>6

\* The tokens that stand between two places.
IsPart(segment, tokens, lower, upper) ==
  /\ Len(segment) = upper - lower - 1
  /\ \A k \in 1..(upper - lower - 1) :
       lower + k \in 1..Len(tokens) /\ segment[k] = tokens[lower + k]

\* They are what SubSeq takes between the two.
LEMMA BetweenIsPart ==
  ASSUME NEW S, NEW tokens \in Seq(S), NEW lower \in Nat, NEW upper \in Nat,
         lower < upper, upper <= Len(tokens) + 1
  PROVE  /\ SubSeq(tokens, lower + 1, upper - 1) \in Seq(S)
         /\ IsPart(SubSeq(tokens, lower + 1, upper - 1), tokens, lower, upper)
<1>1. PICK a, b : a = lower + 1 /\ b = upper - 1
  OBVIOUS
<1>2. Len(tokens) \in Nat /\ \A i \in 1..Len(tokens) : tokens[i] \in S
  BY LenProperties, ElementOfSeq
<1>3. a \in Int /\ b \in Int /\ 1 <= a /\ b <= Len(tokens)
  BY <1>1, <1>2
<1>4. \A i \in a..b : i \in 1..Len(tokens)
  BY <1>2, <1>3
<1>5. b - a + 1 = upper - lower - 1 /\ (~ (a <= b) => b - a + 1 = 0)
  BY <1>1
<1>6. \A k \in 1..(b - a + 1) : a + k - 1 = lower + k /\ lower + k \in 1..Len(tokens)
  BY <1>1, <1>2
<1>7. /\ SubSeq(tokens, a, b) \in Seq(S)
      /\ Len(SubSeq(tokens, a, b)) = IF a <= b THEN b - a + 1 ELSE 0
      /\ \A k \in 1..(b - a + 1) : SubSeq(tokens, a, b)[k] = tokens[a + k - 1]
  <2>1. \A i \in a..b : tokens[i] \in S
    BY <1>2, <1>4
  <2> QED
    BY <1>3, <2>1, SubSeqProperties
<1>8. Len(SubSeq(tokens, a, b)) = b - a + 1
  BY <1>5, <1>7
<1>9. \A k \in 1..(b - a + 1) :
        lower + k \in 1..Len(tokens) /\ SubSeq(tokens, a, b)[k] = tokens[lower + k]
  BY <1>6, <1>7
<1>10. IsPart(SubSeq(tokens, a, b), tokens, lower, upper)
  BY <1>5, <1>8, <1>9 DEF IsPart
<1> QED
  BY <1>1, <1>7, <1>10

\* A segment is what stands between two edges.
LEMMA SplitByEdges ==
  ASSUME NEW S, NEW tokens \in Seq(S)
  PROVE  /\ Split(tokens) \in Seq(Seq(S)) /\ Len(Split(tokens)) = Parts(tokens)
         /\ \A n \in 1..Parts(tokens) :
              IsPart(Split(tokens)[n], tokens, Edge(tokens)[n], Edge(tokens)[n + 1])
<1>1. PICK list, last : list = Edge(tokens) /\ last = Parts(tokens)
  OBVIOUS
<1>2. last \in Nat \ {0} /\ list \in [1..(last + 1) -> Edges(tokens)]
  BY <1>1, EdgesAreListed
<1>3. Len(list) = last + 1 /\ Len(list) - 1 = last
  BY <1>2
<1>4. PICK segments : segments = Split(tokens)
  OBVIOUS
<1>5. segments = [n \in 1..last |-> SubSeq(tokens, list[n] + 1, list[n + 1] - 1)]
  BY <1>1, <1>3, <1>4 DEF Split, Edge
<1>6. ASSUME NEW n \in 1..last
      PROVE  segments[n] \in Seq(S) /\ IsPart(segments[n], tokens, list[n], list[n + 1])
  <2>1. /\ list[n] \in Nat /\ list[n + 1] \in Nat /\ list[n] < list[n + 1]
        /\ list[n + 1] <= Len(tokens) + 1
    BY <1>1, EdgesAreApart
  <2>2. segments[n] = SubSeq(tokens, list[n] + 1, list[n + 1] - 1)
    BY <1>5
  <2> QED
    BY <2>1, <2>2, BetweenIsPart
<1>7. segments \in Seq(Seq(S)) /\ Len(segments) = last
  <2>1. segments = [n \in 1..last |-> segments[n]]
    BY <1>5
  <2>2. \A n \in 1..last : segments[n] \in Seq(S)
    BY <1>6
  <2>3. last \in Nat
    BY <1>2
  <2> QED
    BY <2>1, <2>2, <2>3
<1> QED
  BY <1>1, <1>4, <1>6, <1>7

\* What one sequence begins with, element by element.
Begins(s, t) == Len(s) <= Len(t) /\ \A i \in 1..Len(s) : s[i] = t[i]

\* It is what the library calls a prefix.
LEMMA PrefixBegins ==
  ASSUME NEW S, NEW s \in Seq(S), NEW t \in Seq(S)
  PROVE  IsPrefix(s, t) <=> Begins(s, t)
<1>1. PICK n : n = Len(s)
  OBVIOUS
<1>2. n \in Nat /\ Len(t) \in Nat /\ s = SubSeq(s, 1, n)
  BY <1>1, LenProperties, SubSeqFull
<1>3. ASSUME n <= Len(t)
      PROVE  /\ SubSeq(t, 1, n) \in Seq(S) /\ Len(SubSeq(t, 1, n)) = n
             /\ \A i \in 1..n : SubSeq(t, 1, n)[i] = t[i]
  <2>1. \A i \in 1..n : t[i] \in S
    BY <1>2, <1>3, ElementOfSeq
  <2>2. /\ SubSeq(t, 1, n) \in Seq(S)
        /\ Len(SubSeq(t, 1, n)) = IF 1 <= n THEN n - 1 + 1 ELSE 0
        /\ \A i \in 1..(n - 1 + 1) : SubSeq(t, 1, n)[i] = t[1 + i - 1]
    BY <1>2, <2>1, SubSeqProperties
  <2>3. n - 1 + 1 = n /\ (~ (1 <= n) => n = 0) /\ \A i \in 1..n : 1 + i - 1 = i
    BY <1>2
  <2> QED
    BY <2>2, <2>3
<1>4. ASSUME n <= Len(t) PROVE s = SubSeq(t, 1, n) <=> \A i \in 1..n : s[i] = t[i]
  <2>1. PICK u : u = SubSeq(t, 1, n)
    OBVIOUS
  <2>2. u \in Seq(S) /\ Len(u) = n /\ \A i \in 1..n : u[i] = t[i]
    BY <1>3, <1>4, <2>1
  <2>3. s = u <=> \A i \in 1..n : s[i] = u[i]
    BY <1>1, <2>2, SeqEqual
  <2> QED
    BY <2>1, <2>2, <2>3
<1> QED
  BY <1>1, <1>2, <1>4 DEF IsPrefix, Begins

\* A text that another begins with, up to a slash, is split as the beginning of the other.
LEMMA SplitBegins ==
  ASSUME NEW S, NEW prefix \in Seq(S), NEW full \in Seq(S), Begins(prefix, full),
         Len(full) > Len(prefix) => full[Len(prefix) + 1] = "/"
  PROVE  /\ Parts(prefix) <= Parts(full)
         /\ \A n \in 1..(Parts(prefix) + 1) : Edge(prefix)[n] = Edge(full)[n]
         /\ \A n \in 1..Parts(prefix) : Split(prefix)[n] = Split(full)[n]
<1>1. PICK E, F : E = Edges(prefix) /\ F = Edges(full)
  OBVIOUS
<1>2. PICK k, l : k = Len(prefix) /\ l = Len(full)
  OBVIOUS
<1>3. /\ k \in Nat /\ l \in Nat /\ k <= l /\ \A i \in 1..k : prefix[i] = full[i]
      /\ k < l => full[k + 1] = "/"
  BY <1>2, LenProperties DEF Begins
<1>4. /\ E = {0, k + 1} \cup {i \in 1..k : prefix[i] = "/"}
      /\ F = {0, l + 1} \cup {i \in 1..l : full[i] = "/"}
      /\ F \in SUBSET Nat /\ IsFiniteSet(F) /\ E \in SUBSET (0..(k + 1))
  BY <1>1, <1>2, EdgesAreFinite
<1>5. E \in SUBSET F
  <2>1. k + 1 \in F
    BY <1>3, <1>4
  <2>2. \A i \in 1..k : prefix[i] = "/" => i \in F
    BY <1>3, <1>4
  <2> QED
    BY <1>4, <2>1, <2>2
<1>6. ASSUME NEW i \in F, NEW j \in E, i < j PROVE i \in E
  <2>1. i \in Nat /\ i <= k
    BY <1>3, <1>4, <1>6
  <2>2. CASE i = 0
    BY <1>4, <2>2
  <2>3. CASE i # 0
    <3>1. i \in 1..k /\ i # l + 1
      BY <1>3, <2>1, <2>3
    <3>2. full[i] = "/"
      BY <1>4, <2>3, <3>1
    <3> QED
      BY <1>3, <1>4, <3>1, <3>2
  <2> QED
    BY <2>2, <2>3
<1>7. /\ Cardinality(E) <= Cardinality(F)
      /\ \A n \in 1..Cardinality(E) : Ascending(E)[n] = Ascending(F)[n]
  BY <1>4, <1>5, <1>6, AscendingBegins
<1>8. PICK p, q : p = Parts(prefix) /\ q = Parts(full)
  OBVIOUS
<1>9. p \in Nat /\ q \in Nat
  BY <1>8, EdgesAreListed
<1>10. p + 1 = Cardinality(E) /\ q + 1 = Cardinality(F)
  <2>1. Cardinality(E) \in Int /\ Cardinality(F) \in Int
    <3>1. IsFiniteSet(E)
      BY <1>4, <1>5, FS_Subset
    <3> QED
      BY <1>4, <3>1, FS_CardinalityType
  <2>2. p = Cardinality(E) - 1 /\ q = Cardinality(F) - 1
    BY <1>1, <1>8 DEF Parts
  <2> QED
    BY <2>1, <2>2
<1>11. p <= q /\ \A n \in 1..(p + 1) : Edge(prefix)[n] = Edge(full)[n]
  <2>1. p <= q
    BY <1>7, <1>9, <1>10
  <2> QED
    BY <1>1, <1>7, <1>10, <2>1 DEF Edge
<1>12. ASSUME NEW n \in 1..p PROVE Split(prefix)[n] = Split(full)[n]
  <2>1. n \in 1..q /\ n \in 1..(p + 1) /\ n + 1 \in 1..(p + 1)
    BY <1>9, <1>11
  <2>2. PICK a, b : a = Edge(prefix)[n] /\ b = Edge(prefix)[n + 1]
    OBVIOUS
  <2>3. a = Edge(full)[n] /\ b = Edge(full)[n + 1]
    BY <1>11, <2>1, <2>2
  <2>4. PICK u, v : u = Split(prefix)[n] /\ v = Split(full)[n]
    OBVIOUS
  <2>5. u \in Seq(S) /\ v \in Seq(S)
    <3>1. /\ Split(prefix) \in Seq(Seq(S)) /\ Len(Split(prefix)) = p
          /\ Split(full) \in Seq(Seq(S)) /\ Len(Split(full)) = q
      BY <1>8, SplitByEdges
    <3> QED
      BY <2>1, <2>4, <3>1, ElementOfSeq
  <2>6. IsPart(u, prefix, a, b) /\ IsPart(v, full, a, b)
    BY <1>8, <2>1, <2>2, <2>3, <2>4, SplitByEdges
  <2>7. \A i \in 1..(b - a - 1) : u[i] = v[i]
    BY <1>2, <1>3, <2>6 DEF IsPart
  <2>8. Len(u) = Len(v) /\ \A i \in 1..Len(u) : u[i] = v[i]
    BY <2>6, <2>7 DEF IsPart
  <2> QED
    BY <2>4, <2>5, <2>8, SeqEqual
<1> QED
  BY <1>8, <1>11, <1>12

\* Each place of a text is an edge or in a segment.
LEMMA PlaceIsInSegment ==
  ASSUME NEW S, NEW tokens \in Seq(S), NEW i \in 1..Len(tokens), tokens[i] # "/"
  PROVE  \E n \in 1..Parts(tokens) : Edge(tokens)[n] < i /\ i < Edge(tokens)[n + 1]
<1>1. PICK list, last : list = Edge(tokens) /\ last = Parts(tokens) + 1
  OBVIOUS
<1>2. /\ Parts(tokens) \in Nat \ {0} /\ list \in [1..last -> Edges(tokens)]
      /\ list[1] = 0 /\ list[last] = Len(tokens) + 1
  BY <1>1, EdgesAreListed
<1>3. last \in Nat /\ last \in 1..last /\ 1 \in 1..last /\ Len(tokens) \in Nat
  BY <1>1, <1>2, LenProperties
<1>4. /\ Edges(tokens) = {0, Len(tokens) + 1} \cup {j \in 1..Len(tokens) : tokens[j] = "/"}
      /\ Edges(tokens) \in SUBSET Nat
  BY EdgesAreFinite
<1>5. i \notin Edges(tokens) /\ i \in Nat /\ 0 < i /\ i < Len(tokens) + 1
  BY <1>3, <1>4
<1> DEFINE Behind == {m \in 1..last : i < list[m]}
<1>6. last \in Behind /\ Behind \in SUBSET Nat
  BY <1>2, <1>3, <1>5
<1>7. PICK m \in Behind : \A other \in Behind : m <= other
  <2> HIDE DEF Behind
  <2> QED
    BY <1>6, LeastExists
<1>8. m \in 1..last /\ i < list[m]
  OBVIOUS
<1>9. m # 1
  BY <1>2, <1>5, <1>8
<1>10. PICK n : n = m - 1
  OBVIOUS
<1>11. n \in 1..Parts(tokens) /\ n \in 1..last /\ n + 1 = m /\ ~ (m <= n)
  BY <1>1, <1>2, <1>8, <1>9, <1>10
<1>12. n \notin Behind
  <2> HIDE DEF Behind
  <2> QED
    BY <1>7, <1>11
<1>13. ~ (i < list[n]) /\ list[n] \in Edges(tokens)
  BY <1>2, <1>11, <1>12
<1>14. list[n] < i
  <2>1. list[n] \in Nat /\ list[n] # i
    BY <1>4, <1>5, <1>13
  <2> QED
    BY <1>5, <1>13, <2>1
<1> QED
  BY <1>1, <1>8, <1>11, <1>14

\* A text is the beginning of another, up to a slash, if it is split so.
LEMMA SplitAgrees ==
  ASSUME NEW S, NEW prefix \in Seq(S), NEW full \in Seq(S), Parts(prefix) <= Parts(full),
         \A n \in 1..Parts(prefix) : Split(prefix)[n] = Split(full)[n]
  PROVE  /\ Begins(prefix, full)
         /\ Len(full) > Len(prefix) => full[Len(prefix) + 1] = "/"
<1>1. PICK k, l, p, q : /\ k = Len(prefix) /\ l = Len(full)
                        /\ p = Parts(prefix) /\ q = Parts(full)
  OBVIOUS
<1>2. PICK e, f : e = Edge(prefix) /\ f = Edge(full)
  OBVIOUS
<1>3. k \in Nat /\ l \in Nat /\ p \in Nat \ {0} /\ q \in Nat \ {0} /\ p <= q
  BY <1>1, LenProperties, EdgesAreListed
<1>4. /\ e \in [1..(p + 1) -> Edges(prefix)] /\ e[1] = 0 /\ e[p + 1] = k + 1
      /\ f \in [1..(q + 1) -> Edges(full)] /\ f[1] = 0
  BY <1>1, <1>2, EdgesAreListed
<1>5. /\ Edges(prefix) = {0, k + 1} \cup {i \in 1..k : prefix[i] = "/"}
      /\ Edges(full) = {0, l + 1} \cup {i \in 1..l : full[i] = "/"}
      /\ Edges(prefix) \in SUBSET Nat /\ Edges(full) \in SUBSET Nat
  BY <1>1, EdgesAreFinite
<1>6. \A n \in 1..p : /\ IsPart(Split(prefix)[n], prefix, e[n], e[n + 1])
                      /\ IsPart(Split(prefix)[n], full, f[n], f[n + 1])
  <2> TAKE n \in 1..p
  <2>1. n \in 1..q
    BY <1>3
  <2>2. Split(prefix)[n] = Split(full)[n]
    BY <1>1
  <2> QED
    BY <1>1, <1>2, <2>1, <2>2, SplitByEdges
<1>7. ASSUME NEW n \in 1..p, e[n] = f[n] PROVE e[n + 1] = f[n + 1]
  <2>1. n \in 1..(p + 1) /\ n + 1 \in 1..(p + 1) /\ n \in 1..(q + 1) /\ n + 1 \in 1..(q + 1)
    BY <1>3
  <2>2. e[n] \in Nat /\ e[n + 1] \in Nat /\ f[n + 1] \in Nat
    BY <1>4, <1>5, <2>1
  <2>3. e[n + 1] - e[n] - 1 = f[n + 1] - f[n] - 1
    BY <1>6 DEF IsPart
  <2> QED
    BY <1>7, <2>2, <2>3
<1> DEFINE Missing == {n \in 1..(p + 1) : e[n] # f[n]}
<1>8. Missing = {}
  <2> SUFFICES ASSUME Missing # {} PROVE FALSE
    OBVIOUS
  <2>1. PICK n \in Missing : \A other \in Missing : n <= other
    <3>1. Missing \in SUBSET Nat
      BY <1>3
    <3> HIDE DEF Missing
    <3> QED
      BY <3>1, LeastExists
  <2>2. n \in 1..(p + 1) /\ e[n] # f[n]
    OBVIOUS
  <2>3. n # 1
    BY <1>4, <2>2
  <2>4. PICK m : m = n - 1
    OBVIOUS
  <2>5. m \in 1..p /\ m \in 1..(p + 1) /\ m + 1 = n /\ ~ (n <= m)
    BY <1>3, <2>2, <2>3, <2>4
  <2>6. m \notin Missing
    <3> HIDE DEF Missing
    <3> QED
      BY <2>1, <2>5
  <2>7. e[m] = f[m]
    BY <2>5, <2>6
  <2>8. e[m + 1] = f[m + 1]
    BY <1>7, <2>5, <2>7
  <2> QED
    BY <2>2, <2>5, <2>8
<1>9. \A n \in 1..(p + 1) : e[n] = f[n]
  BY <1>8
<1> HIDE DEF Missing
<1>10. k + 1 \in Edges(full)
  <2>1. p + 1 \in 1..(p + 1) /\ p + 1 \in 1..(q + 1)
    BY <1>3
  <2> QED
    BY <1>4, <1>9, <2>1
<1>11. k <= l /\ (k < l => full[k + 1] = "/")
  <2>1. k + 1 # 0
    BY <1>3
  <2>2. CASE k + 1 = l + 1
    BY <1>3, <2>2
  <2>3. CASE k + 1 \in {i \in 1..l : full[i] = "/"}
    BY <1>3, <2>3
  <2> QED
    BY <1>5, <1>10, <2>1, <2>2, <2>3
<1>12. ASSUME NEW i \in 1..k PROVE prefix[i] = full[i]
  <2>1. CASE prefix[i] = "/"
    <3>1. i \in Edges(prefix)
      BY <1>5, <2>1
    <3>2. PICK n \in 1..(p + 1) : e[n] = i
      BY <1>1, <1>2, <3>1, EdgesAreListed
    <3>3. f[n] = i /\ n \in 1..(q + 1)
      BY <1>3, <1>9, <3>2
    <3>4. i \in Edges(full) /\ i # 0 /\ i # l + 1
      BY <1>3, <1>4, <1>11, <3>3
    <3> QED
      BY <1>5, <2>1, <3>4
  <2>2. CASE prefix[i] # "/"
    <3>1. PICK n \in 1..p : e[n] < i /\ i < e[n + 1]
      BY <1>1, <1>2, <2>2, PlaceIsInSegment
    <3>2. n \in 1..(p + 1) /\ n + 1 \in 1..(p + 1)
      BY <1>3
    <3>3. e[n] = f[n] /\ e[n + 1] = f[n + 1] /\ e[n] \in Nat /\ e[n + 1] \in Nat
      BY <1>4, <1>5, <1>9, <3>2
    <3>4. PICK j : j = i - e[n]
      OBVIOUS
    <3>5. j \in 1..(e[n + 1] - e[n] - 1) /\ e[n] + j = i
      BY <3>1, <3>3, <3>4
    <3>6. IsPart(Split(prefix)[n], prefix, e[n], e[n + 1])
          /\ IsPart(Split(prefix)[n], full, e[n], e[n + 1])
      BY <1>6, <3>3
    <3>7. Split(prefix)[n][j] = prefix[e[n] + j] /\ Split(prefix)[n][j] = full[e[n] + j]
      BY <3>5, <3>6 DEF IsPart
    <3> QED
      BY <3>5, <3>7
  <2> QED
    BY <2>1, <2>2
<1> QED
  BY <1>1, <1>3, <1>11, <1>12 DEF Begins

\* Before a leading slash there is an empty segment, and behind it another.
LEMMA RootedSplit ==
  ASSUME NEW S, NEW tokens \in Seq(S), Len(tokens) > 0, tokens[1] = "/"
  PROVE  Parts(tokens) > 1 /\ Split(tokens)[1] = << >>
<1>1. PICK list, last : list = Edge(tokens) /\ last = Parts(tokens)
  OBVIOUS
<1>2. last \in Nat \ {0} /\ list[1] = 0 /\ list[last + 1] = Len(tokens) + 1
  BY <1>1, EdgesAreListed
<1>3. 1 \in 1..last /\ 1 + 1 = 2
  BY <1>2
<1>4. /\ list[2] \in Nat /\ list[1] < list[2]
      /\ \A i \in Edges(tokens) : i <= list[1] \/ list[2] <= i
  BY <1>1, <1>3, EdgesAreApart
<1>5. Len(tokens) \in Nat /\ 1 \in 1..Len(tokens)
  BY LenProperties
<1>6. 1 \in Edges(tokens)
  BY <1>5, EdgesAreFinite
<1>7. list[2] = 1
  BY <1>2, <1>4, <1>6
<1>8. last # 1
  BY <1>2, <1>3, <1>5, <1>7
<1>9. Split(tokens)[1] \in Seq(S) /\ Len(Split(tokens)[1]) = 0
  <2>1. IsPart(Split(tokens)[1], tokens, list[1], list[2])
    BY <1>1, <1>3, SplitByEdges
  <2>2. Len(Split(tokens)[1]) = 1 - 0 - 1
    BY <1>2, <1>7, <2>1 DEF IsPart
  <2>3. Split(tokens) \in Seq(Seq(S)) /\ Len(Split(tokens)) = last
    BY <1>1, SplitByEdges
  <2> QED
    BY <1>3, <2>2, <2>3, ElementOfSeq
<1> QED
  BY <1>1, <1>2, <1>8, <1>9, EmptySeq

\* A segment without dots, however they are written, is no dot segment.
LEMMA DotsAreWritten ==
  ASSUME NEW S, NEW segment \in Seq(S), \A i \in 1..Len(segment) : segment[i] \notin {".", "%2e"}
  PROVE  ~ IsDotSegment(segment)
<1>1. DOMAIN segment = 1..Len(segment) /\ Len(segment) \in Nat
  BY LenProperties
<1>2. PICK decoded : decoded = Decoded(segment)
  OBVIOUS
<1>3. DOMAIN decoded = 1..Len(segment) /\ \A i \in 1..Len(segment) : decoded[i] # "."
  BY <1>1, <1>2 DEF Decoded
<1>4. decoded # <<".">> /\ decoded # <<".", ".">>
  <2>1. /\ 1 \in DOMAIN <<".">> /\ <<".">>[1] = "."
        /\ 1 \in DOMAIN <<".", ".">> /\ <<".", ".">>[1] = "."
    OBVIOUS
  <2> QED
    BY <1>3, <2>1
<1> QED
  BY <1>2, <1>4 DEF IsDotSegment

\* A text without dots has no dot segments.
LEMMA PlainHasNoDots ==
  ASSUME NEW S, NEW tokens \in Seq(S), {".", "%2e"} \cap ToSet(tokens) = {},
         NEW n \in 1..Parts(tokens)
  PROVE  ~ IsDotSegment(Split(tokens)[n])
<1>1. PICK segment, lower, upper :
        segment = Split(tokens)[n] /\ lower = Edge(tokens)[n] /\ upper = Edge(tokens)[n + 1]
  OBVIOUS
<1>2. segment \in Seq(S)
  <2>1. Split(tokens) \in Seq(Seq(S)) /\ Len(Split(tokens)) = Parts(tokens)
    BY SplitByEdges
  <2> QED
    BY <1>1, <2>1, ElementOfSeq
<1>3. IsPart(segment, tokens, lower, upper)
  BY <1>1, SplitByEdges
<1>4. \A i \in 1..Len(tokens) : tokens[i] \notin {".", "%2e"}
  BY LenProperties DEF ToSet
<1>5. \A i \in 1..Len(segment) : segment[i] \notin {".", "%2e"}
  BY <1>3, <1>4 DEF IsPart
<1> QED
  BY <1>1, <1>2, <1>5, DotsAreWritten

\* What a path without dot segments names are its segments.
LEMMA ResolvedAsWritten ==
  ASSUME NEW S, NEW full \in Seq(S), Parts(full) > 1,
         \A n \in 1..Parts(full) : ~ IsDotSegment(Split(full)[n])
  PROVE  /\ Resolved(full) = Tail(Split(full))
         /\ Tail(Split(full)) \in Seq(Seq(S)) /\ Len(Tail(Split(full))) = Parts(full) - 1
         /\ \A n \in 1..(Parts(full) - 1) : Tail(Split(full))[n] = Split(full)[n + 1]
<1>1. PICK segments, size : segments = Tail(Split(full)) /\ size = Parts(full) - 1
  OBVIOUS
<1>2. /\ Split(full) \in Seq(Seq(S)) /\ Len(Split(full)) = Parts(full)
      /\ Parts(full) \in Nat
  BY SplitByEdges, EdgesAreListed
<1>3. /\ segments \in Seq(Seq(S)) /\ Len(segments) = size
      /\ \A n \in 1..size : segments[n] = Split(full)[n + 1]
  <2>1. Split(full) # << >>
    BY <1>2
  <2> QED
    BY <1>1, <1>2, <2>1, HeadTailProperties
<1>4. size \in Nat /\ \A n \in 1..size : segments[n] \in Seq(S) /\ ~ IsDotSegment(segments[n])
  <2>1. size \in Nat /\ \A n \in 1..size : n + 1 \in 1..Parts(full)
    BY <1>1, <1>2
  <2>2. \A n \in 1..size : segments[n] \in Seq(S)
    BY <1>3, ElementOfSeq
  <2> QED
    BY <1>3, <2>1, <2>2
<1>5. ASSUME NEW n \in 1..size, NEW parts
      PROVE  Entered(parts, segments[n]) = Append(parts, segments[n])
  BY <1>4 DEF Entered, IsDotSegment
<1> DEFINE Step(g) == [n \in 0..size |-> IF n = 0 THEN << >> ELSE Entered(g[n - 1], segments[n])]
           Names(g) == g = Step(g)
           named == CHOOSE g : Names(g)
<1>6. PICK front : front = [n \in 0..size |-> SubSeq(segments, 1, n)]
  OBVIOUS
<1>7. front[0] = << >> /\ front[size] = segments
  <2>1. SubSeq(segments, 1, 0) = << >>
    BY SubSeqEmpty
  <2>2. SubSeq(segments, 1, size) = segments
    BY <1>3, SubSeqFull
  <2>3. 0 \in 0..size /\ size \in 0..size
    BY <1>4
  <2> QED
    BY <1>6, <2>1, <2>2, <2>3
<1>8. ASSUME NEW n \in 1..size PROVE front[n] = Append(front[n - 1], segments[n])
  <2>1. n \in 0..size /\ n - 1 \in 0..size /\ 1 \in 1..Len(segments) /\ n \in 1..Len(segments)
    BY <1>3, <1>4
  <2>2. SubSeq(segments, 1, n) = SubSeq(segments, 1, n - 1) \o <<segments[n]>>
    BY <1>3, <2>1, SubSeqRecursiveSecond
  <2>3. SubSeq(segments, 1, n - 1) \in Seq(Seq(S))
    <3>1. \A i \in 1..(n - 1) : segments[i] \in Seq(S)
      BY <1>4
    <3>2. n - 1 \in Int
      OBVIOUS
    <3> QED
      BY <3>1, <3>2, SubSeqProperties
  <2>4. Append(SubSeq(segments, 1, n - 1), segments[n])
          = SubSeq(segments, 1, n - 1) \o <<segments[n]>>
    BY <1>4, <2>3, AppendIsConcat
  <2> QED
    BY <1>6, <2>1, <2>2, <2>4
<1>9. Names(front)
  <2>1. \A n \in 0..size : n # 0 => n \in 1..size
    BY <1>4
  <2>2. \A n \in 0..size : front[n] = IF n = 0 THEN << >> ELSE Entered(front[n - 1], segments[n])
    BY <1>5, <1>7, <1>8, <2>1
  <2>3. front = [n \in 0..size |-> front[n]]
    BY <1>6
  <2> QED
    BY <2>2, <2>3
<1>10. Names(named)
  <2> HIDE DEF Names
  <2> QED
    BY <1>9
<1>11. Resolved(full) = named[size]
  BY <1>1, <1>3 DEF Resolved
<1>12. PICK g : g = named
  OBVIOUS
<1>13. Names(g) /\ Resolved(full) = g[size]
  BY <1>10, <1>11, <1>12
<1> HIDE DEF named
<1>14. /\ g[0] = << >>
       /\ \A n \in 1..size : g[n] = Append(g[n - 1], segments[n])
  <2>1. \A n \in 0..size : g[n] = IF n = 0 THEN << >> ELSE Entered(g[n - 1], segments[n])
    BY <1>13
  <2>2. 0 \in 0..size /\ \A n \in 1..size : n \in 0..size /\ n # 0
    BY <1>4
  <2> QED
    BY <1>5, <2>1, <2>2
<1> DEFINE Other == {n \in 0..size : g[n] # front[n]}
<1>15. Other = {}
  <2> HIDE DEF Names
  <2> SUFFICES ASSUME Other # {} PROVE FALSE
    OBVIOUS
  <2>1. PICK n \in Other : \A m \in Other : n <= m
    <3>1. Other \in SUBSET Nat
      BY <1>4
    <3> HIDE DEF Other
    <3> QED
      BY <3>1, LeastExists
  <2>2. n \in 0..size /\ g[n] # front[n]
    OBVIOUS
  <2>3. n # 0
    BY <1>7, <1>14, <2>2
  <2>4. PICK m : m = n - 1
    OBVIOUS
  <2>5. n \in 1..size /\ m \in 0..size /\ ~ (n <= m)
    BY <1>4, <2>2, <2>3, <2>4
  <2>6. m \notin Other
    <3> HIDE DEF Other
    <3> QED
      BY <2>1, <2>5
  <2>7. g[m] = front[m]
    BY <2>5, <2>6
  <2>8. g[n] = Append(g[m], segments[n]) /\ front[n] = Append(front[m], segments[n])
    BY <1>8, <1>14, <2>4, <2>5
  <2> QED
    BY <2>2, <2>7, <2>8
<1>16. g[size] = front[size]
  <2>1. size \in 0..size
    BY <1>4
  <2> QED
    BY <1>15, <2>1
<1> QED
  BY <1>1, <1>3, <1>7, <1>13, <1>16

Tokens == Pieces \cup Separators

\* A trimmed prefix is still a text.
LEMMA TrimmedIsText ==
  ASSUME NEW S, NEW prefix \in Seq(S)
  PROVE  TrimEnd(prefix) \in Seq(S)
<1>1. PICK end : TrimEnd(prefix) = SubSeq(prefix, 1, end)
                   /\ end = SelectLastInSeq(prefix, LAMBDA token : token # "/")
  BY DEF TrimEnd
<1> DEFINE places == {i \in 1..Len(prefix) : prefix[i] # "/"}
<1>2. end = IF places # {} THEN Max(places) ELSE 0
  BY <1>1 DEF SelectLastInSeq
<1>3. Len(prefix) \in Nat /\ \A i \in 1..Len(prefix) : prefix[i] \in S
  BY LenProperties, ElementOfSeq
<1>4. CASE places = {}
  <2>1. SubSeq(prefix, 1, 0) = << >>
    BY SubSeqEmpty
  <2> QED
    BY <1>1, <1>2, <1>4, <2>1
<1>5. CASE places # {}
  <2>1. PICK m \in places : \A i \in places : i <= m
    <3> DEFINE Left == {Len(prefix) - i : i \in places}
    <3>1. Left \in SUBSET Nat /\ Left # {}
      BY <1>3, <1>5
    <3>2. PICK d \in Left : \A other \in Left : d <= other
      <4> HIDE DEF Left
      <4> QED
        BY <3>1, LeastExists
    <3>3. PICK m \in places : d = Len(prefix) - m
      BY <3>2
    <3>4. ASSUME NEW i \in places PROVE i <= m
      <4>1. d <= Len(prefix) - i
        BY <3>2
      <4> QED
        BY <1>3, <3>3, <4>1
    <3> QED
      BY <3>4
  <2>2. Max(places) \in places
    <3> HIDE DEF places
    <3>1. \A i \in places : m >= i
      <4>1. places \in SUBSET Int
        BY DEF places
      <4> QED
        BY <2>1, <4>1
    <3> QED
      BY <3>1 DEF Max
  <2>3. end \in 1..Len(prefix)
    BY <1>2, <1>5, <2>2
  <2>4. \A i \in 1..end : prefix[i] \in S
    BY <1>3, <2>3
  <2> QED
    BY <1>1, <2>3, <2>4, SubSeqProperties
<1> QED
  BY <1>4, <1>5

\* A text that may be a prefix starts with a slash, and each segment behind it has a name.
LEMMA UsableIsRooted ==
  ASSUME NEW S, NEW trimmed \in Seq(S), Usable(trimmed)
  PROVE  /\ Len(trimmed) > 1 /\ trimmed[1] = "/"
         /\ Parts(trimmed) > 1 /\ Split(trimmed)[1] = << >>
         /\ \A n \in 1..Parts(trimmed) : ~ IsDotSegment(Split(trimmed)[n])
<1>1. Len(trimmed) > 1 /\ trimmed[1] = "/"
  <2>1. Len(trimmed) > 1 /\ Head(trimmed) = "/"
    BY Zenon DEF Usable
  <2> QED
    BY <2>1
<1>2. Len(trimmed) \in Nat
  BY LenProperties
<1>3. Parts(trimmed) > 1 /\ Split(trimmed)[1] = << >>
  BY <1>1, <1>2, RootedSplit
<1>4. /\ Split(trimmed) \in Seq(Seq(S)) /\ Len(Split(trimmed)) = Parts(trimmed)
      /\ Parts(trimmed) \in Nat
  BY SplitByEdges, EdgesAreListed
<1>5. PICK tail : tail = Tail(Split(trimmed))
  OBVIOUS
<1>6. /\ tail \in Seq(Seq(S)) /\ Len(tail) = Parts(trimmed) - 1
      /\ \A n \in 1..(Parts(trimmed) - 1) : tail[n] = Split(trimmed)[n + 1]
  <2>1. Split(trimmed) # << >>
    BY <1>3, <1>4
  <2> QED
    BY <1>4, <1>5, <2>1, HeadTailProperties
<1>7. \A n \in 1..Len(tail) : ~ IsDotSegment(tail[n])
  <2>1. DOMAIN tail = 1..Len(tail)
    BY <1>6, LenProperties
  <2> QED
    BY <1>5, <2>1 DEF Usable, ToSet
<1>8. ASSUME NEW n \in 1..Parts(trimmed) PROVE ~ IsDotSegment(Split(trimmed)[n])
  <2>1. CASE n = 1
    <3>1. ~ IsDotSegment(<< >>)
      <4>1. << >> \in Seq(S) /\ Len(<< >>) = 0
        OBVIOUS
      <4>2. \A i \in 1..Len(<< >>) : << >>[i] \notin {".", "%2e"}
        BY <4>1
      <4> QED
        BY <4>1, <4>2, DotsAreWritten
    <3> QED
      BY <1>3, <2>1, <3>1
  <2>2. CASE n # 1
    <3>1. PICK m : m = n - 1
      OBVIOUS
    <3>2. m \in 1..(Parts(trimmed) - 1) /\ m + 1 = n
      BY <1>4, <2>2, <3>1
    <3> QED
      BY <1>6, <1>7, <3>2
  <2> QED
    BY <2>1, <2>2
<1> QED
  BY <1>1, <1>3, <1>8

\* Up to a slash.
Reaches(prefix, full) ==
  Begins(prefix, full) /\ (Len(full) > Len(prefix) => full[Len(prefix) + 1] = "/")

\* Segment by segment is token by token, up to a slash.
LEMMA BelowIsReached ==
  ASSUME NEW S, NEW prefix \in Seq(S), Usable(TrimEnd(prefix)),
         NEW full \in Seq(S), Len(full) > 0, full[1] = "/",
         \A n \in 1..Parts(full) : ~ IsDotSegment(Split(full)[n])
  PROVE  Below(prefix, Resolved(full)) <=> Reaches(TrimEnd(prefix), full)
<1>1. PICK trimmed \in Seq(S) : trimmed = TrimEnd(prefix)
  BY TrimmedIsText
<1>2. PICK p, q : p = Parts(trimmed) /\ q = Parts(full)
  OBVIOUS
<1>3. /\ p \in Nat /\ q \in Nat /\ p > 1 /\ q > 1
      /\ Split(trimmed)[1] = << >> /\ Split(full)[1] = << >>
  BY <1>1, <1>2, EdgesAreListed, UsableIsRooted, RootedSplit
<1>4. PICK u, v : u = Tail(Split(trimmed)) /\ v = Tail(Split(full))
  OBVIOUS
<1>5. /\ Resolved(full) = v /\ v \in Seq(Seq(S)) /\ Len(v) = q - 1
      /\ \A n \in 1..(q - 1) : v[n] = Split(full)[n + 1]
  BY <1>2, <1>3, <1>4, ResolvedAsWritten
<1>6. /\ u \in Seq(Seq(S)) /\ Len(u) = p - 1
      /\ \A n \in 1..(p - 1) : u[n] = Split(trimmed)[n + 1]
  <2>1. \A n \in 1..Parts(trimmed) : ~ IsDotSegment(Split(trimmed)[n])
    BY <1>1, UsableIsRooted
  <2> QED
    BY <1>2, <1>3, <1>4, <2>1, ResolvedAsWritten
<1>7. Below(prefix, Resolved(full)) <=> Begins(u, v)
  BY <1>1, <1>4, <1>5, <1>6, PrefixBegins DEF Below
<1>8. Begins(u, v) <=> p <= q /\ \A n \in 1..p : Split(trimmed)[n] = Split(full)[n]
  <2>1. p - 1 <= q - 1 <=> p <= q
    BY <1>3
  <2>2. ASSUME p <= q, \A n \in 1..(p - 1) : u[n] = v[n], NEW n \in 1..p
        PROVE  Split(trimmed)[n] = Split(full)[n]
    <3>1. CASE n = 1
      BY <1>3, <3>1
    <3>2. CASE n # 1
      <4>1. PICK m : m = n - 1
        OBVIOUS
      <4>2. m \in 1..(p - 1) /\ m \in 1..(q - 1) /\ m + 1 = n
        BY <1>3, <2>2, <3>2, <4>1
      <4> QED
        BY <1>5, <1>6, <2>2, <4>2
    <3> QED
      BY <3>1, <3>2
  <2>3. ASSUME p <= q, \A n \in 1..p : Split(trimmed)[n] = Split(full)[n], NEW m \in 1..(p - 1)
        PROVE  u[m] = v[m]
    <3>1. m + 1 \in 1..p /\ m \in 1..(q - 1)
      BY <1>3, <2>3
    <3> QED
      BY <1>5, <1>6, <2>3, <3>1
  <2> QED
    BY <1>5, <1>6, <2>1, <2>2, <2>3 DEF Begins
<1>9. p <= q /\ (\A n \in 1..p : Split(trimmed)[n] = Split(full)[n]) <=> Reaches(trimmed, full)
  <2>1. ASSUME p <= q, \A n \in 1..p : Split(trimmed)[n] = Split(full)[n]
        PROVE  Reaches(trimmed, full)
    BY <1>2, <2>1, SplitAgrees DEF Reaches
  <2>2. ASSUME Reaches(trimmed, full)
        PROVE  p <= q /\ \A n \in 1..p : Split(trimmed)[n] = Split(full)[n]
    BY <1>2, <2>2, SplitBegins DEF Reaches
  <2> QED
    BY <2>1, <2>2
<1> QED
  BY <1>1, <1>7, <1>8, <1>9

\* What the set covers is reached by one of its prefixes.
LEMMA CoversIsReached ==
  ASSUME NEW S, NEW kept \in Seq(Seq(S)), NEW full \in Seq(S)
  PROVE  Covers(kept, full) <=>
           /\ \A n \in 1..Parts(full) : ~ IsDotSegment(Split(full)[n])
           /\ \E prefix \in ToSet(kept) : Reaches(prefix, full)
<1>1. DOMAIN Split(full) = 1..Parts(full)
  BY SplitByEdges, LenProperties
<1>2. (\A segment \in ToSet(Split(full)) : ~ IsDotSegment(segment))
        <=> \A n \in 1..Parts(full) : ~ IsDotSegment(Split(full)[n])
  BY <1>1 DEF ToSet
<1>3. ASSUME NEW prefix \in ToSet(kept)
      PROVE  Reaches(prefix, full) <=>
               /\ IsPrefix(prefix, full)
               /\ Len(full) > Len(prefix) => full[Len(prefix) + 1] = "/"
  <2>1. prefix \in Seq(S)
    BY LenProperties, ElementOfSeq DEF ToSet
  <2> QED
    BY <2>1, PrefixBegins DEF Reaches
<1> QED
  BY <1>2, <1>3 DEF Covers

\* A document's path below a prefix is reached by the prefix and has no dot segments.
LEMMA SlugIsReached ==
  ASSUME NEW S, "/" \in S, NEW trimmed \in Seq(S), Usable(trimmed), NEW slug \in Seq(S),
         \A i \in 1..Len(slug) : slug[i] \notin Separators
  PROVE  /\ trimmed \o <<"/">> \o slug \in Seq(S)
         /\ Reaches(trimmed, trimmed \o <<"/">> \o slug)
         /\ \A n \in 1..Parts(trimmed \o <<"/">> \o slug) :
              ~ IsDotSegment(Split(trimmed \o <<"/">> \o slug)[n])
<1>1. PICK k, p : k = Len(trimmed) /\ p = Parts(trimmed)
  OBVIOUS
<1>2. PICK closed : closed = trimmed \o <<"/">>
  OBVIOUS
<1>3. PICK full : full = closed \o slug
  OBVIOUS
<1>4. k \in Nat /\ p \in Nat /\ Len(slug) \in Nat
  BY <1>1, LenProperties, EdgesAreListed
<1>5. /\ closed \in Seq(S) /\ Len(closed) = k + 1 /\ closed[k + 1] = "/"
      /\ \A i \in 1..k : closed[i] = trimmed[i]
  <2>1. closed = Append(trimmed, "/")
    BY <1>2, AppendIsConcat
  <2> QED
    BY <1>1, <2>1, AppendProperties
<1>6. /\ full \in Seq(S) /\ Len(full) = (k + 1) + Len(slug)
      /\ \A i \in 1..((k + 1) + Len(slug)) :
           full[i] = IF i <= k + 1 THEN closed[i] ELSE slug[i - (k + 1)]
  BY <1>3, <1>5, ConcatProperties
<1>7. (\A i \in 1..k : full[i] = trimmed[i]) /\ full[k + 1] = "/" /\ k <= Len(full)
  <2>1. \A i \in 1..(k + 1) : i \in 1..((k + 1) + Len(slug)) /\ i <= k + 1
    BY <1>4
  <2>2. k + 1 \in 1..(k + 1) /\ \A i \in 1..k : i \in 1..(k + 1)
    BY <1>4
  <2> QED
    BY <1>4, <1>5, <1>6, <2>1, <2>2
<1>8. Reaches(trimmed, full)
  BY <1>1, <1>7 DEF Reaches, Begins
<1>9. /\ p <= Parts(full)
      /\ \A n \in 1..(p + 1) : Edge(trimmed)[n] = Edge(full)[n]
      /\ \A n \in 1..p : Split(trimmed)[n] = Split(full)[n]
  BY <1>1, <1>6, <1>8, SplitBegins DEF Reaches
<1>10. ASSUME NEW n \in 1..Parts(full) PROVE ~ IsDotSegment(Split(full)[n])
  <2>1. CASE n <= p
    <3>1. n \in 1..p
      BY <1>4, <2>1
    <3> QED
      BY <1>1, <1>9, <3>1, UsableIsRooted
  <2>2. CASE ~ (n <= p)
    <3>1. PICK list, last : list = Edge(full) /\ last = Parts(full)
      OBVIOUS
    <3>2. /\ last \in Nat /\ list[n] \in Nat
          /\ \A i, j \in 1..(last + 1) : i < j => list[i] < list[j]
      BY <1>6, <3>1, EdgesAreListed, EdgesAreApart
    <3>3. list[p + 1] = k + 1
      <4>1. p + 1 \in 1..(p + 1)
        BY <1>4
      <4> QED
        BY <1>1, <1>9, <3>1, <4>1, EdgesAreListed
    <3>4. k + 1 <= list[n]
      <4>1. p + 1 \in 1..(last + 1) /\ n \in 1..(last + 1) /\ (p + 1 = n \/ p + 1 < n)
        BY <1>4, <1>9, <2>2, <3>1, <3>2
      <4>2. k + 1 = list[n] \/ k + 1 < list[n]
        BY <3>2, <3>3, <4>1
      <4> QED
        BY <1>4, <3>2, <4>2
    <3>5. PICK segment, upper : segment = Split(full)[n] /\ upper = list[n + 1]
      OBVIOUS
    <3>6. IsPart(segment, full, list[n], upper)
      BY <1>6, <3>1, <3>5, SplitByEdges
    <3>7. segment \in Seq(S)
      <4>1. Split(full) \in Seq(Seq(S)) /\ Len(Split(full)) = Parts(full)
        BY <1>6, SplitByEdges
      <4> QED
        BY <3>5, <4>1, ElementOfSeq
    <3>8. ASSUME NEW i \in 1..Len(segment) PROVE segment[i] \notin {".", "%2e"}
      <4>1. PICK place : place = list[n] + i
        OBVIOUS
      <4>2. place \in 1..Len(full) /\ segment[i] = full[place]
        BY <3>6, <4>1 DEF IsPart
      <4>3. /\ place \in 1..((k + 1) + Len(slug)) /\ ~ (place <= k + 1)
            /\ place - (k + 1) \in 1..Len(slug)
        <5>1. PICK at, size : at = list[n] /\ size = Len(slug)
          OBVIOUS
        <5>2. /\ at \in Nat /\ i \in Nat /\ 0 < i /\ k \in Nat /\ size \in Nat
              /\ k + 1 <= at
          BY <1>4, <3>2, <3>4, <5>1
        <5>3. place = at + i /\ place <= (k + 1) + size
          BY <1>6, <4>1, <4>2, <5>1
        <5>4. place \in 1..((k + 1) + size) /\ ~ (place <= k + 1) /\ place - (k + 1) \in 1..size
          BY <5>2, <5>3
        <5> QED
          BY <5>1, <5>4
      <4>4. full[place] = slug[place - (k + 1)]
        BY <1>6, <4>3
      <4> QED
        BY <4>2, <4>3, <4>4 DEF Separators
    <3> QED
      BY <3>5, <3>7, <3>8, DotsAreWritten
  <2> QED
    BY <2>1, <2>2
<1> QED
  BY <1>2, <1>3, <1>6, <1>8, <1>10

\* One prefix more is kept, without its slashes.
LEMMA AddKeeps ==
  ASSUME NEW S, NEW kept \in Seq(Seq(S)), NEW prefix \in Seq(S)
  PROVE  /\ Add(kept, prefix) \in Seq(Seq(S))
         /\ ToSet(Add(kept, prefix)) = ToSet(kept) \cup {TrimEnd(prefix)}
<1>1. PICK trimmed \in Seq(S) : trimmed = TrimEnd(prefix)
  BY TrimmedIsText
<1>2. DOMAIN kept = 1..Len(kept) /\ Len(kept) \in Nat
  BY LenProperties
<1>3. CASE Contains(kept, trimmed)
  <2>1. Add(kept, prefix) = kept
    BY <1>1, <1>3 DEF Add
  <2>2. trimmed \in ToSet(kept)
    BY <1>2, <1>3 DEF Contains, ToSet
  <2> QED
    BY <1>1, <2>1, <2>2
<1>4. CASE ~ Contains(kept, trimmed)
  <2>1. PICK more : more = Append(kept, trimmed)
    OBVIOUS
  <2>2. Add(kept, prefix) = more
    BY <1>1, <1>4, <2>1 DEF Add
  <2>3. /\ more \in Seq(Seq(S)) /\ Len(more) = Len(kept) + 1
        /\ \A i \in 1..Len(kept) : more[i] = kept[i]
        /\ more[Len(kept) + 1] = trimmed
    BY <2>1, AppendProperties
  <2>4. DOMAIN more = 1..(Len(kept) + 1)
    BY <2>3, LenProperties
  <2>5. \A i \in 1..(Len(kept) + 1) : i \in 1..Len(kept) \/ i = Len(kept) + 1
    BY <1>2
  <2>6. \A i \in 1..Len(kept) : i \in 1..(Len(kept) + 1)
    BY <1>2
  <2>7. Len(kept) + 1 \in 1..(Len(kept) + 1)
    BY <1>2
  <2>8. ToSet(more) = ToSet(kept) \cup {trimmed}
    BY <1>2, <2>3, <2>4, <2>5, <2>6, <2>7 DEF ToSet
  <2> QED
    BY <1>1, <2>2, <2>3, <2>8
<1> QED
  BY <1>3, <1>4

\* What a host writes is usable and is what is kept.
IsKept(written, kept) ==
  /\ Len(written) >= 5 /\ written \in Seq(Seq(Tokens)) /\ kept \in Seq(Seq(Tokens))
  /\ \A i \in 1..Len(written) : Usable(TrimEnd(written[i]))
  /\ ToSet(kept) = {TrimEnd(written[i]) : i \in 1..Len(written)}

\* It is so from the moment the host has its set, and a path starts with a slash.
ExemptInv ==
  /\ path \in Seq(Tokens) /\ Len(path) > 0 /\ path[1] = "/"
  /\ host = "ready" => IsKept(given, prefixes)

\* The five mounts, in turn.
LEMMA NewKeepsFive ==
  ASSUME NEW mounts \in MountChoices, New(mounts)
  PROVE  host' = "ready" => IsKept(given', prefixes')
<1>1. /\ mounts \in Seq(Seq(Tokens)) /\ Len(mounts) = 5 /\ DOMAIN mounts = 1..5
      /\ 1..5 = {1, 2, 3, 4, 5}
  <2>1. mounts \in Seq(Seq(Tokens)) /\ Len(mounts) = 5
    BY ExemptionsAssumption DEF Tokens
  <2> QED
    BY <2>1, LenProperties
<1>2. \A i \in 1..5 : mounts[i] \in Seq(Tokens)
  BY <1>1, ElementOfSeq
<1>3. /\ mounts[1] \in Seq(Tokens) /\ mounts[2] \in Seq(Tokens) /\ mounts[3] \in Seq(Tokens)
       /\ mounts[4] \in Seq(Tokens) /\ mounts[5] \in Seq(Tokens)
  BY <1>2
<1>4. PICK a, b, c, d, e :
        /\ a = Add(<< >>, mounts[1]) /\ b = Add(a, mounts[2]) /\ c = Add(b, mounts[3])
        /\ d = Add(c, mounts[4]) /\ e = Add(d, mounts[5])
  OBVIOUS
<1>5. << >> \in Seq(Seq(Tokens)) /\ ToSet(<< >>) = {}
  BY DEF ToSet
<1>6. a \in Seq(Seq(Tokens)) /\ ToSet(a) = ToSet(<< >>) \cup {TrimEnd(mounts[1])}
  <2>1. a = Add(<< >>, mounts[1]) /\ << >> \in Seq(Seq(Tokens)) /\ mounts[1] \in Seq(Tokens)
    BY <1>4, <1>5, <1>3
  <2> QED
    BY <2>1, AddKeeps
<1>7. b \in Seq(Seq(Tokens)) /\ ToSet(b) = ToSet(a) \cup {TrimEnd(mounts[2])}
  <2>1. b = Add(a, mounts[2]) /\ a \in Seq(Seq(Tokens)) /\ mounts[2] \in Seq(Tokens)
    BY <1>4, <1>6, <1>3
  <2> QED
    BY <2>1, AddKeeps
<1>8. c \in Seq(Seq(Tokens)) /\ ToSet(c) = ToSet(b) \cup {TrimEnd(mounts[3])}
  <2>1. c = Add(b, mounts[3]) /\ b \in Seq(Seq(Tokens)) /\ mounts[3] \in Seq(Tokens)
    BY <1>4, <1>7, <1>3
  <2> QED
    BY <2>1, AddKeeps
<1>9. d \in Seq(Seq(Tokens)) /\ ToSet(d) = ToSet(c) \cup {TrimEnd(mounts[4])}
  <2>1. d = Add(c, mounts[4]) /\ c \in Seq(Seq(Tokens)) /\ mounts[4] \in Seq(Tokens)
    BY <1>4, <1>8, <1>3
  <2> QED
    BY <2>1, AddKeeps
<1>10. e \in Seq(Seq(Tokens)) /\ ToSet(e) = ToSet(d) \cup {TrimEnd(mounts[5])}
  <2>1. e = Add(d, mounts[5]) /\ d \in Seq(Seq(Tokens)) /\ mounts[5] \in Seq(Tokens)
    BY <1>4, <1>9, <1>3
  <2> QED
    BY <2>1, AddKeeps
<1>11. ToSet(e) = {TrimEnd(mounts[i]) : i \in 1..5}
  BY <1>1, <1>5, <1>6, <1>7, <1>8, <1>9, <1>10
<1>12. ASSUME host' = "ready"
       PROVE  given' = mounts /\ prefixes' = e /\ \A i \in 1..5 : Usable(TrimEnd(mounts[i]))
  BY <1>1, <1>4, <1>12 DEF New, Accepted
<1>13. (\A i \in 1..5 : Usable(TrimEnd(mounts[i]))) => IsKept(mounts, e)
  <2>1. mounts \in Seq(Seq(Tokens)) /\ Len(mounts) = 5 /\ Len(mounts) >= 5
    BY <1>1
  <2> QED
    BY <1>10, <1>11, <2>1 DEF IsKept
<1> QED
  BY <1>12, <1>13

\* One prefix more.
LEMMA ExtendKeepsAll ==
  ASSUME IsKept(given, prefixes), NEW prefix \in Extensions, Extend(prefix)
  PROVE  host' = "ready" => IsKept(given', prefixes')
<1>1. prefix \in Seq(Tokens)
  BY ExemptionsAssumption DEF Tokens
<1>2. PICK n : n = Len(given)
  OBVIOUS
<1>3. n \in Nat /\ n >= 5 /\ given \in Seq(Seq(Tokens))
  BY <1>2, LenProperties DEF IsKept
<1>4. PICK more : more = Append(given, prefix)
  OBVIOUS
<1>5. /\ more \in Seq(Seq(Tokens)) /\ Len(more) = n + 1
      /\ \A i \in 1..n : more[i] = given[i]
      /\ more[n + 1] = prefix
  BY <1>1, <1>2, <1>3, <1>4, AppendProperties
<1>6. \A i \in 1..(n + 1) : i \in 1..n \/ i = n + 1
  BY <1>3
<1>7. /\ \A i \in 1..n : i \in 1..(n + 1)
      /\ n + 1 \in 1..(n + 1) /\ n + 1 >= 5
  BY <1>3
<1>8. ASSUME host' = "ready"
      PROVE  given' = more /\ prefixes' = Add(prefixes, prefix) /\ Usable(TrimEnd(prefix))
  BY <1>4, <1>8 DEF Extend
<1>9. {TrimEnd(more[i]) : i \in 1..(n + 1)}
        = {TrimEnd(given[i]) : i \in 1..n} \cup {TrimEnd(prefix)}
  BY <1>5, <1>6, <1>7
<1>10. \A i \in 1..n : Usable(TrimEnd(given[i]))
  BY <1>2 DEF IsKept
<1>11. Usable(TrimEnd(prefix)) => \A i \in 1..(n + 1) : Usable(TrimEnd(more[i]))
  BY <1>5, <1>6, <1>10
<1>12. /\ Add(prefixes, prefix) \in Seq(Seq(Tokens))
       /\ ToSet(Add(prefixes, prefix)) = {TrimEnd(given[i]) : i \in 1..n} \cup {TrimEnd(prefix)}
  BY <1>1, <1>2, AddKeeps DEF IsKept
<1>13. Usable(TrimEnd(prefix)) => IsKept(more, Add(prefixes, prefix))
  BY <1>5, <1>7, <1>9, <1>11, <1>12 DEF IsKept
<1> QED
  BY <1>8, <1>13

\* The host and its requests keep to this.
LEMMA ExemptInvariant == ExemptionsSpec => []ExemptInv
<1>1. "/" \in Tokens /\ PathTokens \in SUBSET Tokens
  BY DEF Tokens, PathTokens, Separators
<1>2. StartHost => ExemptInv
  <2>1. <<"/">> \in Seq(Tokens) /\ Len(<<"/">>) = 1 /\ <<"/">>[1] = "/"
    BY <1>1
  <2> QED
    BY <2>1 DEF StartHost, ExemptInv
<1>3. ExemptInv /\ [ExemptionsNext]_exemptionVars => ExemptInv'
  <2> SUFFICES ASSUME ExemptInv, [ExemptionsNext]_exemptionVars PROVE ExemptInv'
    OBVIOUS
  <2>1. ASSUME NEW mounts \in MountChoices, New(mounts) PROVE ExemptInv'
    <3>1. path' = path
      BY <2>1 DEF New
    <3> QED
      BY <2>1, <3>1, NewKeepsFive DEF ExemptInv
  <2>2. ASSUME NEW prefix \in Extensions, Extend(prefix) PROVE ExemptInv'
    <3>1. path' = path /\ host = "ready"
      BY <2>2 DEF Extend
    <3> QED
      BY <2>2, <3>1, ExtendKeepsAll DEF ExemptInv
  <2>3. ASSUME NEW token \in PathTokens, Request(token) PROVE ExemptInv'
    <3>1. /\ path' = Append(path, token) /\ host' = host /\ given' = given
          /\ prefixes' = prefixes /\ token \in Tokens
      BY <1>1, <2>3 DEF Request
    <3>2. Len(path) \in Nat /\ path \in Seq(Tokens)
      BY LenProperties DEF ExemptInv
    <3>3. 1 \in 1..Len(path)
      BY <3>2 DEF ExemptInv
    <3>4. path' \in Seq(Tokens) /\ Len(path') = Len(path) + 1 /\ path'[1] = path[1]
      BY <3>1, <3>2, <3>3, AppendProperties
    <3>5. Len(path') > 0
      BY <3>2, <3>4
    <3> QED
      BY <3>1, <3>4, <3>5 DEF ExemptInv
  <2>4. CASE UNCHANGED exemptionVars
    BY <2>4 DEF ExemptInv, exemptionVars
  <2> QED
    BY <2>1, <2>2, <2>3, <2>4 DEF ExemptionsNext
<1> QED
  BY <1>2, <1>3, PTL DEF ExemptionsSpec

\* However many routers have stripped the path, the layer reads what the client sent.
LEMMA OriginalIsSeen ==
  ASSUME NEW S, NEW full \in Seq(S), Len(full) > 0, NEW depth
  PROVE  PathSeen(Nested(full, depth)) = full
<1>1. full # << >>
  OBVIOUS
<1>2. CASE depth = 0
  <2>1. SubSeq(full, 0 + 1, Len(full)) = full
    BY SubSeqFull
  <2> QED
    BY <1>2, <2>1 DEF PathSeen, Nested, NoOriginal
<1>3. CASE depth # 0
  BY <1>1, <1>3 DEF PathSeen, Nested, NoOriginal
<1> QED
  BY <1>2, <1>3

\* For any mounts, extensions and paths: what the layer lets pass is what is below a
\* prefix that the host wrote, once dots are resolved, and nobody exempts everything
\* (Exemptions::covers, require.rs).
THEOREM ExemptRoutes == ExemptionsSpec => []ExemptIsBelowAMount
<1>1. ExemptInv => ExemptIsBelowAMount
  <2> SUFFICES ASSUME ExemptInv, host = "ready" PROVE ExemptIsBelowAMount
    BY DEF ExemptIsBelowAMount
  <2>1. /\ path \in Seq(Tokens) /\ Len(path) > 0 /\ path[1] = "/"
        /\ given \in Seq(Seq(Tokens)) /\ prefixes \in Seq(Seq(Tokens))
        /\ DOMAIN given = 1..Len(given)
        /\ \A i \in DOMAIN given : given[i] \in Seq(Tokens) /\ Usable(TrimEnd(given[i]))
        /\ ToSet(prefixes) = {TrimEnd(given[i]) : i \in DOMAIN given}
    BY LenProperties, ElementOfSeq DEF ExemptInv, IsKept
  <2> DEFINE below == \E i \in DOMAIN given : Below(given[i], Resolved(path))
             plain == {".", "%2e"} \cap ToSet(path) = {}
             dotless == \A n \in 1..Parts(path) : ~ IsDotSegment(Split(path)[n])
             reached == \E i \in DOMAIN given : Reaches(TrimEnd(given[i]), path)
  <2>2. plain => dotless
    BY <2>1, PlainHasNoDots
  <2>3. dotless => (below <=> reached)
    <3> SUFFICES ASSUME dotless PROVE below <=> reached
      OBVIOUS
    <3>1. \A i \in DOMAIN given :
            Below(given[i], Resolved(path)) <=> Reaches(TrimEnd(given[i]), path)
      BY <2>1, BelowIsReached
    <3> QED
      BY <3>1
  <2>4. Covers(prefixes, path) <=> dotless /\ reached
    <3>1. Covers(prefixes, path) <=>
            dotless /\ \E prefix \in ToSet(prefixes) : Reaches(prefix, path)
      BY <2>1, CoversIsReached
    <3>2. (\E prefix \in ToSet(prefixes) : Reaches(prefix, path)) <=> reached
      BY <2>1
    <3> QED
      BY <3>1, <3>2
  <2>5. ASSUME path = <<"/">> PROVE plain /\ ~ reached
    <3>1. Len(path) = 1 /\ ToSet(path) = {"/"}
      BY <2>5 DEF ToSet
    <3>2. ASSUME NEW i \in DOMAIN given, Reaches(TrimEnd(given[i]), path) PROVE FALSE
      <4>1. TrimEnd(given[i]) \in Seq(Tokens)
        BY <2>1, TrimmedIsText
      <4>2. Len(TrimEnd(given[i])) > 1 /\ Len(TrimEnd(given[i])) \in Nat
        BY <2>1, <4>1, UsableIsRooted, LenProperties
      <4>3. Len(TrimEnd(given[i])) <= 1
        BY <3>1, <3>2 DEF Reaches, Begins
      <4> QED
        BY <4>2, <4>3
    <3> QED
      BY <3>1, <3>2
  <2>6. \A depth \in NestPoints(path) : PathSeen(Nested(path, depth)) = path
    BY <2>1, OriginalIsSeen
  <2> HIDE DEF below, plain, dotless, reached
  <2>7. /\ path = <<"/">> => ~ below
        /\ \A depth \in NestPoints(path) :
             /\ Covers(prefixes, PathSeen(Nested(path, depth))) => below
             /\ below /\ plain => Covers(prefixes, PathSeen(Nested(path, depth)))
    BY <2>2, <2>3, <2>4, <2>5, <2>6
  <2> QED
    BY <2>7 DEF ExemptIsBelowAMount, below, plain
<1> QED
  BY <1>1, ExemptInvariant, PTL

\* For any mounts: what must never be blocked is not, however the mounts are spelt
\* (Exemptions::new, Exemptions::add).
THEOREM MandatoryRoutes == ExemptionsSpec => []MandatoryRoutesAreOpen
<1>1. ExemptInv => MandatoryRoutesAreOpen
  <2> SUFFICES ASSUME ExemptInv, host = "ready" PROVE MandatoryRoutesAreOpen
    BY DEF MandatoryRoutesAreOpen
  <2>1. /\ given \in Seq(Seq(Tokens)) /\ prefixes \in Seq(Seq(Tokens))
        /\ \A i \in 1..5 : i \in 1..Len(given)
        /\ ToSet(prefixes) = {TrimEnd(given[i]) : i \in 1..Len(given)}
        /\ \A i \in 1..Len(given) : Usable(TrimEnd(given[i]))
    <3>1. Len(given) \in Nat
      BY LenProperties DEF ExemptInv, IsKept
    <3> QED
      BY <3>1 DEF ExemptInv, IsKept
  <2>2. ASSUME NEW i \in 1..5
        PROVE  /\ TrimEnd(given[i]) \in Seq(Tokens) /\ Usable(TrimEnd(given[i]))
               /\ TrimEnd(given[i]) \in ToSet(prefixes)
    <3>1. i \in 1..Len(given) /\ given[i] \in Seq(Tokens)
      BY <2>1, ElementOfSeq
    <3> QED
      BY <2>1, <3>1, TrimmedIsText
  <2>3. ASSUME NEW i \in 1..5 PROVE Covers(prefixes, TrimEnd(given[i]))
    <3>1. PICK trimmed : trimmed = TrimEnd(given[i])
      OBVIOUS
    <3>2. trimmed \in Seq(Tokens) /\ Usable(trimmed) /\ trimmed \in ToSet(prefixes)
      BY <2>2, <3>1
    <3>3. Len(trimmed) \in Nat
      BY <3>2, LenProperties
    <3>4. Reaches(trimmed, trimmed)
      BY <3>3 DEF Reaches, Begins
    <3>5. \A n \in 1..Parts(trimmed) : ~ IsDotSegment(Split(trimmed)[n])
      BY <3>2, UsableIsRooted
    <3> QED
      BY <2>1, <3>1, <3>2, <3>4, <3>5, CoversIsReached
  <2>4. ASSUME NEW slug \in DocumentSlugs
        PROVE  Covers(prefixes, TrimEnd(given[1]) \o <<"/">> \o slug)
    <3>1. PICK trimmed, full : trimmed = TrimEnd(given[1]) /\ full = trimmed \o <<"/">> \o slug
      OBVIOUS
    <3>2. trimmed \in Seq(Tokens) /\ Usable(trimmed) /\ trimmed \in ToSet(prefixes)
      <4>1. 1 \in 1..5
        OBVIOUS
      <4> QED
        BY <2>2, <3>1, <4>1
    <3>3. slug \in Seq(Pieces) /\ Pieces \in SUBSET Tokens /\ "/" \in Tokens
      BY ExemptionsAssumption DEF Tokens, Separators
    <3>4. slug \in Seq(Tokens) /\ \A j \in 1..Len(slug) : slug[j] \notin Separators
      <4>1. \A j \in 1..Len(slug) : slug[j] \in Pieces
        BY <3>3, ElementOfSeq
      <4>2. slug \in Seq(Tokens)
        BY <3>3, SeqMonotonic
      <4> QED
        BY <4>1, <4>2, ExemptionsAssumption
    <3>5. /\ full \in Seq(Tokens) /\ Reaches(trimmed, full)
          /\ \A n \in 1..Parts(full) : ~ IsDotSegment(Split(full)[n])
      BY <3>1, <3>2, <3>3, <3>4, SlugIsReached
    <3> QED
      BY <2>1, <3>1, <3>2, <3>5, CoversIsReached
  <2> QED
    BY <2>3, <2>4 DEF MandatoryRoutesAreOpen
<1> QED
  BY <1>1, ExemptInvariant, PTL

------------------------------------------------------------------------------
(***************************************************************************)
(* Link targets.  A browser's reading, token by token, is followed through *)
(* the cleaned reference, in which a target has no tabs and no leading     *)
(* spaces: what it has read is known from the first token that cannot be   *)
(* of a scheme.                                                            *)
(***************************************************************************)
\* What of a reference is left of its tokens after the first few.
LEMMA TrimmedText ==
  ASSUME NEW href \in Seq(HrefTokens)
  PROVE  \E skipped \in 0..Len(href) :
           /\ \A n \in 1..skipped : href[n] \in {"space", "tab"}
           /\ TrimStart(href) \in Seq(HrefTokens)
           /\ Len(TrimStart(href)) = Len(href) - skipped
           /\ \A i \in 1..(Len(href) - skipped) : TrimStart(href)[i] = href[i + skipped]
           /\ skipped < Len(href) => href[skipped + 1] \notin {"space", "tab"}
<1> DEFINE starts == {i \in 1..Len(href) : href[i] \notin {"space", "tab"}}
<1>1. Len(href) \in Nat /\ \A i \in 1..Len(href) : href[i] \in HrefTokens
  BY LenProperties, ElementOfSeq
<1>2. SelectInSeq(href, LAMBDA token : token \notin {"space", "tab"})
        = IF starts # {} THEN Min(starts) ELSE 0
  BY DEF SelectInSeq
<1>3. CASE starts = {}
  <2>1. TrimStart(href) = << >>
    BY <1>2, <1>3 DEF TrimStart
  <2>2. PICK skipped \in 0..Len(href) : skipped = Len(href) /\ Len(href) - skipped = 0
    BY <1>1
  <2>3. \A n \in 1..skipped : href[n] \in {"space", "tab"}
    BY <1>3, <2>2
  <2>4. TrimStart(href) \in Seq(HrefTokens) /\ Len(TrimStart(href)) = 0
    BY <2>1
  <2>5. ~ (skipped < Len(href)) /\ 1..(Len(href) - skipped) = {}
    BY <1>1, <2>2
  <2> QED
    BY <2>2, <2>3, <2>4, <2>5
<1>4. CASE starts # {}
  <2>1. PICK first : first = Min(starts)
    OBVIOUS
  <2>2. \E i \in starts : \A j \in starts : i <= j
    <3>1. starts \in SUBSET Nat
      BY <1>1
    <3> HIDE DEF starts
    <3> QED
      BY <1>4, <3>1, LeastExists
  <2>3. first \in starts /\ \A j \in starts : first <= j
    <3> HIDE DEF starts
    <3> QED
      BY <2>1, <2>2 DEF Min
  <2>4. TrimStart(href) = SubSeq(href, first, Len(href))
    <3>1. first # 0
      BY <2>3
    <3> HIDE DEF starts
    <3> QED
      BY <1>2, <1>4, <2>1, <3>1 DEF TrimStart
  <2>5. PICK skipped : skipped = first - 1
    OBVIOUS
  <2>6. /\ skipped \in 0..Len(href) /\ skipped + 1 = first /\ skipped < Len(href)
        /\ first \in 1..Len(href) /\ first \in Int /\ Len(href) \in Int
        /\ Len(href) - first + 1 = Len(href) - skipped
        /\ first <= Len(href) + 1
    BY <1>1, <2>3, <2>5
  <2>7. \A n \in 1..skipped : href[n] \in {"space", "tab"}
    <3>1. \A n \in 1..skipped : n \in 1..Len(href) /\ ~ (first <= n)
      BY <1>1, <2>6
    <3> QED
      BY <2>3, <3>1
  <2>8. /\ SubSeq(href, first, Len(href)) \in Seq(HrefTokens)
        /\ Len(SubSeq(href, first, Len(href))) = Len(href) - skipped
        /\ \A i \in 1..(Len(href) - skipped) :
             SubSeq(href, first, Len(href))[i] = href[i + skipped]
    <3>1. \A i \in first..Len(href) : href[i] \in HrefTokens
      BY <1>1, <2>6
    <3>2. /\ SubSeq(href, first, Len(href)) \in Seq(HrefTokens)
          /\ Len(SubSeq(href, first, Len(href)))
               = (IF first <= Len(href) THEN Len(href) - first + 1 ELSE 0)
          /\ \A i \in 1..(Len(href) - first + 1) :
               SubSeq(href, first, Len(href))[i] = href[first + i - 1]
      BY <2>6, <3>1, SubSeqProperties
    <3>3. \A i \in 1..(Len(href) - skipped) : first + i - 1 = i + skipped
      BY <2>6
    <3> QED
      BY <2>6, <3>2, <3>3
  <2>9. href[skipped + 1] \notin {"space", "tab"}
    BY <2>3, <2>6
  <2> QED
    BY <2>4, <2>6, <2>7, <2>8, <2>9
<1> QED
  BY <1>3, <1>4

\* A cleaned reference holds the tokens of the reference in their order: `rank` is how
\* many of them the first n leave, and those that are dropped are tabs and leading spaces.
Ranked(rank, href, cleaned) ==
  /\ rank \in [0..Len(href) -> Nat]
  /\ rank[0] = 0 /\ rank[Len(href)] = Len(cleaned)
  /\ \A n \in 1..Len(href) :
       \/ /\ rank[n] = rank[n - 1] + 1 /\ rank[n] <= Len(cleaned)
          /\ cleaned[rank[n]] = href[n]
       \/ /\ rank[n] = rank[n - 1]
          /\ href[n] = "tab" \/ (href[n] = "space" /\ rank[n] = 0)

LEMMA CleanedText ==
  ASSUME NEW href \in Seq(HrefTokens)
  PROVE  /\ Cleaned(href) \in Seq(HrefTokens \ {"tab"})
         /\ Cleaned(href) # << >> => Cleaned(href)[1] # "space"
         /\ \A m \in 1..Len(Cleaned(href)) : \E n \in 1..Len(href) : Cleaned(href)[m] = href[n]
         /\ \E rank : Ranked(rank, href, Cleaned(href))
<1>1. PICK trimmed, skipped, size, last :
        /\ trimmed = TrimStart(href) /\ last = Len(href) /\ size = last - skipped
        /\ skipped \in 0..Len(href)
        /\ \A n \in 1..skipped : href[n] \in {"space", "tab"}
        /\ trimmed \in Seq(HrefTokens) /\ Len(trimmed) = size
        /\ \A i \in 1..size : trimmed[i] = href[i + skipped]
        /\ skipped < Len(href) => href[skipped + 1] \notin {"space", "tab"}
  BY TrimmedText
<1>2. /\ last \in Nat /\ size \in Nat /\ DOMAIN trimmed = 1..size
      /\ \A i \in 1..size : i + skipped \in 1..last /\ trimmed[i] \in HrefTokens
      /\ skipped \in Nat /\ skipped <= last
  <2>1. last \in Nat /\ size \in Nat /\ DOMAIN trimmed = 1..size
    BY <1>1, LenProperties
  <2>2. \A i \in 1..size : trimmed[i] \in HrefTokens
    BY <1>1, ElementOfSeq
  <2> QED
    BY <1>1, <2>1, <2>2
<1>3. PICK K, kept, count :
        /\ K = {i \in 1..size : trimmed[i] # "tab"}
        /\ kept = Ascending(K) /\ count = Cardinality(K)
  OBVIOUS
<1>4. K \in SUBSET Nat /\ IsFiniteSet(K) /\ K \in SUBSET (1..size)
  <2>1. K \in SUBSET (1..size)
    BY <1>3
  <2>2. IsFiniteSet(1..size)
    BY <1>2, FS_Interval
  <2>3. IsFiniteSet(K)
    BY <2>1, <2>2, FS_Subset
  <2> QED
    BY <2>1, <2>3
<1>5. /\ count \in Nat /\ kept \in [1..count -> K]
      /\ \A i \in K : \E m \in 1..count : kept[m] = i
      /\ \A m \in 1..count : Cardinality({j \in K : j < kept[m]}) = m - 1
  <2>1. /\ Cardinality(K) \in Nat /\ Ascending(K) \in [1..Cardinality(K) -> K]
        /\ \A i \in K : \E m \in 1..Cardinality(K) : Ascending(K)[m] = i
        /\ \A m \in 1..Cardinality(K) : Cardinality({j \in K : j < Ascending(K)[m]}) = m - 1
    BY <1>4, AscendingEnumerates
  <2> QED
    BY <1>3, <2>1
<1>6. PICK cleaned : cleaned = Cleaned(href)
  OBVIOUS
<1>7. cleaned = [m \in 1..count |-> trimmed[kept[m]]]
  <2>1. Cleaned(href) = [m \in DOMAIN kept |-> trimmed[kept[m]]]
    BY <1>1, <1>2, <1>3 DEF Cleaned
  <2>2. DOMAIN kept = 1..count
    BY <1>5
  <2> QED
    BY <1>6, <2>1, <2>2
<1>8. cleaned \in Seq(HrefTokens \ {"tab"}) /\ Len(cleaned) = count
  <2>1. \A m \in 1..count : trimmed[kept[m]] \in HrefTokens \ {"tab"}
    BY <1>2, <1>3, <1>4, <1>5
  <2>2. \A m \in 1..count : cleaned[m] \in HrefTokens \ {"tab"}
    BY <1>7, <2>1
  <2>3. cleaned \in [1..count -> HrefTokens \ {"tab"}]
    BY <1>7, <2>2
  <2> QED
    BY <1>5, <2>3, SeqDef, LenProperties
<1>9. \A m \in 1..count : \E n \in 1..last : cleaned[m] = href[n]
  <2> TAKE m \in 1..count
  <2>1. kept[m] \in 1..size
    BY <1>4, <1>5
  <2>2. cleaned[m] = href[kept[m] + skipped] /\ kept[m] + skipped \in 1..last
    BY <1>1, <1>2, <1>7, <2>1
  <2> QED
    BY <2>2
<1>. /\ skipped \in Nat /\ last \in Nat
     /\ \A i \in K : i \in Nat /\ 1 <= i /\ i + skipped <= last
  BY <1>1, <1>2, <1>4
<1> DEFINE Upto(n) == {i \in K : i + skipped <= n}
<1>10. PICK rank : rank = [n \in 0..last |-> Cardinality(Upto(n))]
  OBVIOUS
<1>11. \A n \in 0..last : IsFiniteSet(Upto(n)) /\ rank[n] \in Nat /\ rank[n] <= count
  <2> TAKE n \in 0..last
  <2>1. Upto(n) \in SUBSET K
    OBVIOUS
  <2>2. IsFiniteSet(Upto(n)) /\ Cardinality(Upto(n)) <= count
    BY <1>3, <1>4, <2>1, FS_Subset
  <2>3. Cardinality(Upto(n)) \in Nat
    BY <2>2, FS_CardinalityType
  <2> HIDE DEF Upto
  <2> QED
    BY <1>10, <2>2, <2>3
<1>12. rank[0] = 0 /\ rank[last] = count
  <2>1. Upto(0) = {}
    <3>1. \A i \in K : ~ (i + skipped <= 0)
      OBVIOUS
    <3> QED
      BY <3>1
  <2>2. Upto(last) = K
    OBVIOUS
  <2>3. rank[0] = Cardinality(Upto(0)) /\ rank[last] = Cardinality(Upto(last))
    <3> HIDE DEF Upto
    <3> QED
      BY <1>2, <1>10
  <2>4. Cardinality({}) = 0
    BY FS_EmptySet
  <2> QED
    BY <1>3, <2>1, <2>2, <2>3, <2>4
<1>13. ASSUME NEW n \in 1..last
       PROVE  \/ /\ rank[n] = rank[n - 1] + 1 /\ rank[n] <= count
                 /\ cleaned[rank[n]] = href[n]
              \/ /\ rank[n] = rank[n - 1]
                 /\ href[n] = "tab" \/ (href[n] = "space" /\ rank[n] = 0)
  <2>1. PICK before : before = n - 1
    OBVIOUS
  <2>2. n \in 0..last /\ before \in 0..last /\ before + 1 = n
    BY <1>2, <2>1
  <2>3. rank[n] = Cardinality(Upto(n)) /\ rank[before] = Cardinality(Upto(before))
    <3> HIDE DEF Upto
    <3> QED
      BY <1>10, <2>2
  <2>4. CASE n <= skipped
    <3>1. Upto(n) = {} /\ Upto(before) = {}
      <4>1. \A i \in K : ~ (i + skipped <= n) /\ ~ (i + skipped <= before)
        BY <2>2, <2>4
      <4> QED
        BY <4>1
    <3>2. rank[n] = 0 /\ rank[before] = 0
      BY <2>3, <3>1, FS_EmptySet
    <3>3. href[n] \in {"space", "tab"}
      BY <1>1, <2>4
    <3> QED
      BY <2>1, <3>2, <3>3
  <2>5. CASE skipped < n
    <3>1. PICK i : i = n - skipped
      OBVIOUS
    <3>2. i \in 1..size /\ i + skipped = n /\ trimmed[i] = href[n]
      BY <1>1, <1>2, <2>5, <3>1
    <3>3. CASE i \notin K
      <4>1. Upto(n) = Upto(before)
        <5>1. \A j \in K : j # i
          BY <3>3
        <5>2. \A j \in K : j + skipped <= n <=> j + skipped <= before
          BY <2>2, <3>2, <5>1
        <5> QED
          BY <5>2
      <4>2. href[n] = "tab"
        BY <1>3, <3>2, <3>3
      <4> QED
        BY <2>1, <2>3, <4>1, <4>2
    <3>4. CASE i \in K
      <4>1. PICK m \in 1..count : kept[m] = i
        BY <1>5, <3>4
      <4>2. Upto(before) = {j \in K : j < kept[m]}
        <5>1. \A j \in K : j + skipped <= before <=> j < i
          BY <2>2, <3>2
        <5> QED
          BY <4>1, <5>1
      <4>3. rank[before] = m - 1
        BY <1>5, <2>3, <4>1, <4>2
      <4>4. Upto(n) = Upto(before) \cup {i} /\ i \notin Upto(before)
        <5>1. \A j \in K : j + skipped <= n <=> j + skipped <= before \/ j = i
          BY <2>2, <3>2
        <5>2. i + skipped <= n /\ ~ (i + skipped <= before)
          BY <2>2, <3>2
        <5> QED
          BY <3>4, <5>1, <5>2
      <4>5. rank[n] = rank[before] + 1
        <5> HIDE DEF Upto
        <5>1. IsFiniteSet(Upto(before))
          BY <1>11, <2>2
        <5>2. Cardinality(Upto(before) \cup {i}) = Cardinality(Upto(before)) + 1
          BY <4>4, <5>1, FS_AddElement
        <5> QED
          BY <2>3, <4>4, <5>2
      <4>6. rank[n] = m
        BY <4>3, <4>5
      <4>7. cleaned[m] = href[n]
        BY <1>7, <3>2, <4>1
      <4>8. m <= count
        BY <1>5
      <4> QED
        BY <2>1, <4>5, <4>6, <4>7, <4>8
    <3> QED
      BY <3>3, <3>4
  <2> QED
    BY <1>2, <2>4, <2>5
<1>14. cleaned # << >> => cleaned[1] # "space"
  <2> SUFFICES ASSUME cleaned # << >> PROVE cleaned[1] # "space"
    OBVIOUS
  <2>1. count # 0
    BY <1>7
  <2>2. PICK i \in K : i = kept[1]
    BY <1>5, <2>1
  <2>3. 1 \in 1..size /\ skipped < last /\ trimmed[1] = href[skipped + 1]
    <3>1. i \in 1..size
      BY <1>4, <2>2
    <3> QED
      BY <1>1, <1>2, <3>1
  <2>4. trimmed[1] \notin {"space", "tab"} /\ 1 \in K
    BY <1>1, <1>3, <2>3
  <2>5. PICK m \in 1..count : kept[m] = 1
    BY <1>5, <2>4
  <2>6. {j \in K : j < kept[m]} = {}
    <3>1. \A j \in K : ~ (j < 1)
      BY <1>4
    <3> QED
      BY <2>5, <3>1
  <2>7. m - 1 = 0
    BY <1>5, <2>5, <2>6, FS_EmptySet
  <2>8. m = 1
    BY <2>7
  <2> QED
    BY <1>5, <1>7, <2>4, <2>5, <2>8
<1>15. Ranked(rank, href, cleaned)
  <2>1. rank \in [0..last -> Nat]
    BY <1>10, <1>11
  <2> QED
    BY <1>1, <1>8, <1>12, <1>13, <2>1 DEF Ranked
<1> QED
  BY <1>1, <1>6, <1>8, <1>9, <1>14, <1>15

\* The characters of a scheme, and how many tokens a text starts with that are such.
NameTokens == Letters \cup {"1"}

HeadEnds(h, cleaned) ==
  /\ h \in 1..(Len(cleaned) + 1)
  /\ \A j \in 1..(h - 1) : cleaned[j] \in NameTokens
  /\ h <= Len(cleaned) => cleaned[h] \notin NameTokens

LEMMA HeadEndExists ==
  ASSUME NEW S, NEW cleaned \in Seq(S)
  PROVE  \E h : HeadEnds(h, cleaned)
<1> DEFINE others == {j \in Nat \ {0} : j = Len(cleaned) + 1 \/ cleaned[j] \notin NameTokens}
<1>1. Len(cleaned) \in Nat
  BY LenProperties
<1>2. others \in SUBSET Nat /\ Len(cleaned) + 1 \in others
  BY <1>1
<1>3. PICK h \in others : \A j \in others : h <= j
  <2> HIDE DEF others
  <2> QED
    BY <1>2, LeastExists
<1>4. h \in Nat /\ 1 <= h /\ h <= Len(cleaned) + 1
  BY <1>2, <1>3
<1>5. h <= Len(cleaned) => cleaned[h] \notin NameTokens
  BY <1>1, <1>3, <1>4
<1>6. \A j \in 1..(h - 1) : cleaned[j] \in NameTokens
  <2>1. \A j \in 1..(h - 1) : j \in Nat \ {0} /\ ~ (h <= j)
    BY <1>4
  <2> QED
    BY <1>3, <2>1
<1> QED
  BY <1>1, <1>4, <1>5, <1>6 DEF HeadEnds

\* What a browser has read after the first r tokens of a cleaned reference.
ReadAt(cleaned, h, r) ==
  IF r = 0 THEN [state |-> "start", scheme |-> NoScheme]
  ELSE IF cleaned[1] \notin Letters THEN [state |-> "relative", scheme |-> NoScheme]
  ELSE IF r < h THEN [state |-> "scheme", scheme |-> SubSeq(cleaned, 1, r)]
  ELSE IF cleaned[h] = ":" THEN [state |-> "found", scheme |-> SubSeq(cleaned, 1, h - 1)]
  ELSE [state |-> "relative", scheme |-> NoScheme]

\* A browser passes over tabs everywhere, and over spaces before the first character.
LEMMA PassedOver ==
  /\ \A seen : SchemeStep(seen, "tab") = seen
  /\ \A cleaned, h : SchemeStep(ReadAt(cleaned, h, 0), "space") = ReadAt(cleaned, h, 0)
<1>1. \A seen : SchemeStep(seen, "tab") = seen
  BY DEF SchemeStep, Letters
<1>2. \A cleaned, h : SchemeStep(ReadAt(cleaned, h, 0), "space") = ReadAt(cleaned, h, 0)
  BY DEF SchemeStep, ReadAt, Letters
<1> QED
  BY <1>1, <1>2

LEMMA ReadSteps ==
  ASSUME NEW cleaned \in Seq(HrefTokens \ {"tab"}), NEW h, HeadEnds(h, cleaned),
         NEW r \in Nat, r < Len(cleaned), r = 0 => cleaned[1] # "space"
  PROVE  SchemeStep(ReadAt(cleaned, h, r), cleaned[r + 1]) = ReadAt(cleaned, h, r + 1)
<1>1. PICK next, token : next = r + 1 /\ token = cleaned[next]
  OBVIOUS
<1>2. /\ Len(cleaned) \in Nat /\ next \in 1..Len(cleaned) /\ h \in Nat /\ next # 0
      /\ token \in HrefTokens /\ token # "tab" /\ cleaned[1] \in HrefTokens
      /\ 1 <= h /\ h <= Len(cleaned) + 1
  <2>1. Len(cleaned) \in Nat /\ \A j \in 1..Len(cleaned) : cleaned[j] \in HrefTokens \ {"tab"}
    BY LenProperties, ElementOfSeq
  <2>2. next \in 1..Len(cleaned) /\ 1 \in 1..Len(cleaned)
    BY <1>1, <2>1
  <2> QED
    BY <1>1, <2>1, <2>2 DEF HeadEnds
<1>3. next < h => token \in NameTokens
  BY <1>1, <1>2 DEF HeadEnds
<1>4. next = h => token \notin NameTokens /\ token = cleaned[h]
  BY <1>1, <1>2 DEF HeadEnds
<1>5. SubSeq(cleaned, 1, next) = Append(SubSeq(cleaned, 1, r), token)
  <2>1. SubSeq(cleaned, 1, next) = SubSeq(cleaned, 1, next - 1) \o <<token>>
    <3>1. 1 \in 1..Len(cleaned) /\ next \in 1..Len(cleaned) /\ next - 1 = r
      BY <1>1, <1>2
    <3> QED
      BY <1>1, <3>1, SubSeqRecursiveSecond
  <2>2. SubSeq(cleaned, 1, r) \in Seq(HrefTokens)
    <3>1. \A j \in 1..r : cleaned[j] \in HrefTokens
      <4>1. \A j \in 1..r : j \in 1..Len(cleaned)
        BY <1>2
      <4> QED
        BY <4>1, ElementOfSeq
    <3> QED
      BY <3>1, SubSeqProperties
  <2>3. Append(SubSeq(cleaned, 1, r), token) = SubSeq(cleaned, 1, r) \o <<token>>
    BY <1>2, <2>2, AppendIsConcat
  <2>4. next - 1 = r
    BY <1>1
  <2> QED
    BY <2>1, <2>3, <2>4
<1>6. r = 0 => SubSeq(cleaned, 1, next) = <<token>> /\ Append(NoScheme, token) = <<token>>
  <2>1. r = 0 => SubSeq(cleaned, 1, r) = << >>
    BY SubSeqEmpty
  <2>2. Append(<< >>, token) = <<token>>
    OBVIOUS
  <2> QED
    BY <1>5, <2>1, <2>2 DEF NoScheme
<1>7. CASE r = 0
  <2>1. next = 1 /\ token = cleaned[1] /\ token # "space"
    BY <1>1, <1>7
  <2>2. CASE token \in Letters
    <3>1. 1 < h
      BY <1>2, <1>4, <2>1, <2>2 DEF NameTokens
    <3>2. ReadAt(cleaned, h, next) = [state |-> "scheme", scheme |-> <<token>>]
      BY <1>6, <1>7, <2>1, <2>2, <3>1 DEF ReadAt
    <3>3. SchemeStep([state |-> "start", scheme |-> NoScheme], token)
            = [state |-> "scheme", scheme |-> Append(NoScheme, token)]
      BY <1>2, <2>1, <2>2 DEF SchemeStep
    <3> QED
      BY <1>1, <1>6, <1>7, <3>2, <3>3 DEF ReadAt
  <2>3. CASE token \notin Letters
    <3>1. ReadAt(cleaned, h, next) = [state |-> "relative", scheme |-> NoScheme]
      BY <2>1, <2>3 DEF ReadAt
    <3>2. SchemeStep([state |-> "start", scheme |-> NoScheme], token)
            = [state |-> "relative", scheme |-> NoScheme]
      BY <1>2, <2>1, <2>3 DEF SchemeStep
    <3> QED
      BY <1>1, <1>7, <3>1, <3>2 DEF ReadAt
  <2> QED
    BY <2>2, <2>3
<1>8. CASE r # 0 /\ cleaned[1] \notin Letters
  <2>1. SchemeStep([state |-> "relative", scheme |-> NoScheme], token)
          = [state |-> "relative", scheme |-> NoScheme]
    BY <1>2 DEF SchemeStep
  <2> QED
    BY <1>1, <1>2, <1>8, <2>1 DEF ReadAt
<1>9. CASE r # 0 /\ cleaned[1] \in Letters /\ r < h
  <2>1. PICK scheme : scheme = SubSeq(cleaned, 1, r)
    OBVIOUS
  <2>2. ReadAt(cleaned, h, r) = [state |-> "scheme", scheme |-> scheme]
    BY <1>9, <2>1 DEF ReadAt
  <2>3. CASE next < h
    <3>1. ReadAt(cleaned, h, next) = [state |-> "scheme", scheme |-> Append(scheme, token)]
      BY <1>2, <1>5, <1>9, <2>1, <2>3 DEF ReadAt
    <3>2. token \in Letters \/ token = "1"
      BY <1>3, <2>3 DEF NameTokens
    <3>3. SchemeStep([state |-> "scheme", scheme |-> scheme], token)
            = [state |-> "scheme", scheme |-> Append(scheme, token)]
      BY <1>2, <3>2 DEF SchemeStep, Letters
    <3> QED
      BY <1>1, <2>2, <3>1, <3>3
  <2>4. CASE next = h
    <3>1. token \notin Letters /\ token # "1" /\ token = cleaned[h]
      BY <1>4, <2>4 DEF NameTokens
    <3>2. h - 1 = r /\ ~ (next < h)
      BY <1>1, <1>2, <2>4
    <3>3. CASE token = ":"
      <4>1. ReadAt(cleaned, h, next) = [state |-> "found", scheme |-> scheme]
        BY <1>2, <1>9, <2>1, <3>1, <3>2, <3>3 DEF ReadAt
      <4>2. SchemeStep([state |-> "scheme", scheme |-> scheme], token)
              = [state |-> "found", scheme |-> scheme]
        BY <3>1, <3>3 DEF SchemeStep
      <4> QED
        BY <1>1, <2>2, <4>1, <4>2
    <3>4. CASE token # ":"
      <4>1. ReadAt(cleaned, h, next) = [state |-> "relative", scheme |-> NoScheme]
        BY <1>2, <1>9, <3>1, <3>2, <3>4 DEF ReadAt
      <4>2. SchemeStep([state |-> "scheme", scheme |-> scheme], token)
              = [state |-> "relative", scheme |-> NoScheme]
        BY <1>2, <3>1, <3>4 DEF SchemeStep
      <4> QED
        BY <1>1, <2>2, <4>1, <4>2
    <3> QED
      BY <3>3, <3>4
  <2> QED
    BY <1>1, <1>2, <1>9, <2>3, <2>4
<1>10. CASE r # 0 /\ cleaned[1] \in Letters /\ ~ (r < h)
  <2>1. ~ (next < h)
    BY <1>1, <1>2, <1>10
  <2>2. PICK scheme : scheme = SubSeq(cleaned, 1, h - 1)
    OBVIOUS
  <2>3. SchemeStep([state |-> "found", scheme |-> scheme], token)
          = [state |-> "found", scheme |-> scheme]
    BY <1>2 DEF SchemeStep
  <2>4. SchemeStep([state |-> "relative", scheme |-> NoScheme], token)
          = [state |-> "relative", scheme |-> NoScheme]
    BY <1>2 DEF SchemeStep
  <2> QED
    BY <1>1, <1>2, <1>10, <2>1, <2>2, <2>3, <2>4 DEF ReadAt
<1> QED
  BY <1>7, <1>8, <1>9, <1>10

\* What a browser reads of a whole reference: the tokens before the first that cannot
\* be of a scheme, if the first is a letter and that one is the colon.
LEMMA SchemeIsTheHead ==
  ASSUME NEW href \in Seq(HrefTokens), NEW cleaned, cleaned = Cleaned(href),
         NEW h, HeadEnds(h, cleaned)
  PROVE  SchemeRead(href) =
           IF cleaned # << >> /\ cleaned[1] \in Letters /\ h <= Len(cleaned) /\ cleaned[h] = ":"
           THEN Lower(SubSeq(cleaned, 1, h - 1)) ELSE NoScheme
<1>1. PICK rank : Ranked(rank, href, cleaned)
  BY CleanedText
<1>2. /\ cleaned \in Seq(HrefTokens \ {"tab"}) /\ Len(cleaned) \in Nat
      /\ cleaned # << >> => cleaned[1] # "space"
  BY CleanedText, LenProperties
<1>3. PICK size : size = Len(href) /\ size \in Nat
  BY LenProperties
<1>4. /\ rank[0] = 0 /\ rank[size] = Len(cleaned) /\ \A n \in 0..size : rank[n] \in Nat
      /\ \A n \in 1..size :
           \/ /\ rank[n] = rank[n - 1] + 1 /\ rank[n] <= Len(cleaned)
              /\ cleaned[rank[n]] = href[n]
           \/ /\ rank[n] = rank[n - 1]
              /\ href[n] = "tab" \/ (href[n] = "space" /\ rank[n] = 0)
  BY <1>1, <1>3 DEF Ranked
<1> DEFINE Start == [state |-> "start", scheme |-> NoScheme]
           Step(g) == [n \in 0..size |-> IF n = 0 THEN Start ELSE SchemeStep(g[n - 1], href[n])]
           Reads(g) == g = Step(g)
           read == CHOOSE g : Reads(g)
<1>5. PICK front : front = [n \in 0..size |-> ReadAt(cleaned, h, rank[n])]
  OBVIOUS
<1>6. front[0] = Start
  <2>1. 0 \in 0..size
    BY <1>3
  <2> QED
    BY <1>4, <1>5, <2>1 DEF ReadAt
<1>7. ASSUME NEW n \in 1..size PROVE front[n] = SchemeStep(front[n - 1], href[n])
  <2>1. PICK before : before = n - 1 /\ before \in 0..size /\ n \in 0..size
    BY <1>3
  <2>2. front[n] = ReadAt(cleaned, h, rank[n]) /\ front[before] = ReadAt(cleaned, h, rank[before])
    BY <1>5, <2>1
  <2>3. PICK r : r = rank[before] /\ r \in Nat
    BY <1>4, <2>1
  <2>4. \/ rank[n] = r + 1 /\ r + 1 <= Len(cleaned) /\ cleaned[r + 1] = href[n]
        \/ rank[n] = r /\ (href[n] = "tab" \/ (href[n] = "space" /\ r = 0))
    BY <1>4, <2>1, <2>3
  <2>5. CASE rank[n] = r + 1 /\ r + 1 <= Len(cleaned) /\ cleaned[r + 1] = href[n]
    <3>1. r < Len(cleaned) /\ cleaned # << >>
      BY <1>2, <2>3, <2>5
    <3>2. r = 0 => cleaned[1] # "space"
      BY <1>2, <3>1
    <3>3. SchemeStep(ReadAt(cleaned, h, r), cleaned[r + 1]) = ReadAt(cleaned, h, r + 1)
      BY <1>2, <2>3, <3>1, <3>2, ReadSteps
    <3> QED
      BY <2>1, <2>2, <2>3, <2>5, <3>3
  <2>6. CASE rank[n] = r /\ (href[n] = "tab" \/ (href[n] = "space" /\ r = 0))
    BY <2>1, <2>2, <2>3, <2>6, PassedOver
  <2> QED
    BY <2>4, <2>5, <2>6
<1>8. Reads(front)
  <2>1. \A n \in 0..size : n # 0 => n \in 1..size
    BY <1>3
  <2>2. \A n \in 0..size : front[n] = IF n = 0 THEN Start ELSE SchemeStep(front[n - 1], href[n])
    BY <1>6, <1>7, <2>1
  <2>3. front = [n \in 0..size |-> front[n]]
    BY <1>5
  <2> QED
    BY <2>2, <2>3
<1>9. Reads(read)
  <2> HIDE DEF Reads
  <2> QED
    BY <1>8
<1>10. SchemeRead(href) =
         IF read[size].state = "found" THEN Lower(read[size].scheme) ELSE NoScheme
  BY <1>3 DEF SchemeRead
<1>11. PICK g : g = read
  OBVIOUS
<1>12. Reads(g) /\ SchemeRead(href) = IF g[size].state = "found" THEN Lower(g[size].scheme) ELSE NoScheme
  BY <1>9, <1>10, <1>11
<1> HIDE DEF read
<1>13. g[0] = Start /\ \A n \in 1..size : g[n] = SchemeStep(g[n - 1], href[n])
  <2>1. \A n \in 0..size : g[n] = IF n = 0 THEN Start ELSE SchemeStep(g[n - 1], href[n])
    BY <1>12
  <2>2. 0 \in 0..size /\ \A n \in 1..size : n \in 0..size /\ n # 0
    BY <1>3
  <2> QED
    BY <2>1, <2>2
<1> DEFINE Other == {n \in 0..size : g[n] # front[n]}
<1>14. Other = {}
  <2> HIDE DEF Reads
  <2> SUFFICES ASSUME Other # {} PROVE FALSE
    OBVIOUS
  <2>1. PICK n \in Other : \A m \in Other : n <= m
    <3>1. Other \in SUBSET Nat
      BY <1>3
    <3> HIDE DEF Other
    <3> QED
      BY <3>1, LeastExists
  <2>2. n \in 0..size /\ g[n] # front[n]
    OBVIOUS
  <2>3. n # 0
    BY <1>6, <1>13, <2>2
  <2>4. PICK m : m = n - 1
    OBVIOUS
  <2>5. n \in 1..size /\ m \in 0..size /\ ~ (n <= m)
    BY <1>3, <2>2, <2>3, <2>4
  <2>6. m \notin Other
    <3> HIDE DEF Other
    <3> QED
      BY <2>1, <2>5
  <2>7. g[m] = front[m]
    BY <2>5, <2>6
  <2>8. g[n] = SchemeStep(g[m], href[n]) /\ front[n] = SchemeStep(front[m], href[n])
    BY <1>7, <1>13, <2>4, <2>5
  <2> QED
    BY <2>2, <2>7, <2>8
<1>15. g[size] = ReadAt(cleaned, h, Len(cleaned))
  <2>1. size \in 0..size
    BY <1>3
  <2> QED
    BY <1>4, <1>5, <1>14, <2>1
<1>16. /\ h \in Nat /\ h <= Len(cleaned) + 1
       /\ Len(cleaned) = 0 <=> cleaned = << >>
  BY <1>2 DEF HeadEnds
<1>17. PICK last, end, scheme :
         last = Len(cleaned) /\ end = g[size] /\ scheme = SubSeq(cleaned, 1, h - 1)
  OBVIOUS
<1>18. SchemeRead(href) = IF end.state = "found" THEN Lower(end.scheme) ELSE NoScheme
  BY <1>12, <1>17
<1>19. CASE cleaned = << >> \/ cleaned[1] \notin Letters \/ last < h \/ cleaned[h] # ":"
  <2>1. end.state \in {"start", "relative", "scheme"}
    BY <1>2, <1>15, <1>16, <1>17, <1>19 DEF ReadAt
  <2>2. SchemeRead(href) = NoScheme
    BY <1>18, <2>1
  <2> QED
    BY <1>2, <1>16, <1>17, <1>19, <2>2
<1>20. CASE cleaned # << >> /\ cleaned[1] \in Letters /\ h <= last /\ cleaned[h] = ":"
  <2>1. end = [state |-> "found", scheme |-> scheme]
    BY <1>2, <1>15, <1>16, <1>17, <1>20 DEF ReadAt
  <2>2. SchemeRead(href) = Lower(scheme)
    BY <1>18, <2>1
  <2> QED
    BY <1>17, <1>20, <2>2
<1> QED
  BY <1>2, <1>16, <1>17, <1>19, <1>20

\* The head of a reference that names a scheme is the scheme.
LEMMA HeadIsBeforeTheColon ==
  ASSUME NEW cleaned \in Seq(HrefTokens), NEW h, HeadEnds(h, cleaned),
         cleaned # << >>, cleaned[1] \in Letters, h <= Len(cleaned), cleaned[h] = ":"
  PROVE  /\ HeadOf(cleaned) = SubSeq(cleaned, 1, h - 1)
         /\ Contains(cleaned, ":") /\ h - 1 \in Nat \ {0}
         /\ HeadOf(cleaned) \in Seq(NameTokens) /\ Len(HeadOf(cleaned)) = h - 1
         /\ \A j \in 1..(h - 1) : HeadOf(cleaned)[j] = cleaned[j]
<1> DEFINE colons == {j \in 1..Len(cleaned) : cleaned[j] = ":"}
<1>1. /\ Len(cleaned) \in Nat /\ h \in 1..Len(cleaned) /\ h \in colons
      /\ \A j \in 1..(h - 1) : cleaned[j] \in NameTokens
  BY LenProperties DEF HeadEnds
<1>2. \A j \in colons : h <= j
  <2>1. \A j \in colons : j < h => j \in 1..(h - 1)
    BY <1>1
  <2>2. ":" \notin NameTokens
    BY DEF NameTokens, Letters
  <2>3. \A j \in colons : ~ (j < h)
    BY <1>1, <2>1, <2>2
  <2> QED
    BY <1>1, <2>3
<1>3. Min(colons) = h
  <2>1. PICK least : least = Min(colons)
    OBVIOUS
  <2>2. least \in colons /\ \A j \in colons : least <= j
    <3> HIDE DEF colons
    <3> QED
      BY <1>1, <1>2, <2>1 DEF Min
  <2>3. least \in Nat /\ least <= h /\ h <= least
    BY <1>1, <1>2, <2>2
  <2> QED
    BY <1>1, <2>1, <2>3
<1>4. SelectInSeq(cleaned, LAMBDA token : token = ":") = h
  BY <1>1, <1>3 DEF SelectInSeq
<1>5. HeadOf(cleaned) = SubSeq(cleaned, 1, h - 1)
  BY <1>4 DEF HeadOf
<1>6. h - 1 \in Nat \ {0}
  <2>1. h # 1
    BY <1>1 DEF NameTokens, Letters
  <2> QED
    BY <1>1, <2>1
<1>7. /\ HeadOf(cleaned) \in Seq(NameTokens) /\ Len(HeadOf(cleaned)) = h - 1
      /\ \A j \in 1..(h - 1) : HeadOf(cleaned)[j] = cleaned[j]
  <2>1. /\ SubSeq(cleaned, 1, h - 1) \in Seq(NameTokens)
        /\ Len(SubSeq(cleaned, 1, h - 1)) = (IF 1 <= h - 1 THEN (h - 1) - 1 + 1 ELSE 0)
        /\ \A j \in 1..((h - 1) - 1 + 1) : SubSeq(cleaned, 1, h - 1)[j] = cleaned[1 + j - 1]
    BY <1>1, <1>6, SubSeqProperties
  <2>2. (h - 1) - 1 + 1 = h - 1 /\ 1 <= h - 1 /\ \A j \in 1..(h - 1) : 1 + j - 1 = j
    BY <1>1, <1>6
  <2> QED
    BY <1>5, <2>1, <2>2
<1>8. Contains(cleaned, ":")
  BY <1>1 DEF Contains
<1> QED
  BY <1>5, <1>6, <1>7, <1>8

\* What the code makes of a link target of any length is what a browser makes of it.
LEMMA ReadAsABrowserDoes ==
  ASSUME NEW href \in Seq(HrefTokens), NEW scheme, scheme = SchemeRead(href)
  PROVE  /\ IsSafeHref(href) => scheme \in AllowedSchemes \cup {NoScheme}
         /\ scheme \in AllowedSchemes \/ ~ Contains(href, ":") => IsSafeHref(href)
         /\ IsExternal(href) <=> scheme \in HttpSchemes
<1>1. PICK cleaned : cleaned = Cleaned(href)
  OBVIOUS
<1>2. /\ cleaned \in Seq(HrefTokens) /\ Len(cleaned) \in Nat
      /\ \A m \in 1..Len(cleaned) : \E n \in 1..Len(href) : cleaned[m] = href[n]
      /\ \A m \in 1..Len(cleaned) : cleaned[m] \in HrefTokens
  <2>1. cleaned \in Seq(HrefTokens \ {"tab"})
    BY <1>1, CleanedText
  <2>2. cleaned \in Seq(HrefTokens)
    BY <2>1, SeqDef
  <2> QED
    BY <1>1, <2>2, CleanedText, LenProperties, ElementOfSeq
<1>3. PICK h : HeadEnds(h, cleaned)
  BY <1>2, HeadEndExists
<1> DEFINE Named == cleaned # << >> /\ cleaned[1] \in Letters /\ h <= Len(cleaned) /\ cleaned[h] = ":"
<1>4. PICK head : head = SubSeq(cleaned, 1, h - 1)
  OBVIOUS
<1>5. scheme = IF Named THEN Lower(head) ELSE NoScheme
  BY <1>1, <1>3, <1>4, SchemeIsTheHead
<1>6. ASSUME Named
      PROVE  /\ HeadOf(cleaned) = head /\ Contains(cleaned, ":")
             /\ head \in Seq(NameTokens) /\ Len(head) = h - 1 /\ h - 1 \in Nat \ {0}
             /\ \A j \in 1..(h - 1) : head[j] = cleaned[j] /\ head[j] \in NameTokens
  <2>1. cleaned # << >> /\ cleaned[1] \in Letters /\ h <= Len(cleaned) /\ cleaned[h] = ":"
    BY <1>6
  <2>2. /\ HeadOf(cleaned) = SubSeq(cleaned, 1, h - 1)
        /\ Contains(cleaned, ":") /\ h - 1 \in Nat \ {0}
        /\ HeadOf(cleaned) \in Seq(NameTokens) /\ Len(HeadOf(cleaned)) = h - 1
        /\ \A j \in 1..(h - 1) : HeadOf(cleaned)[j] = cleaned[j]
    BY <1>2, <1>3, <2>1, HeadIsBeforeTheColon
  <2>3. HeadOf(cleaned) = head
    BY <1>4, <2>2
  <2>4. \A j \in 1..(h - 1) : head[j] \in NameTokens
    BY <2>2, <2>3, ElementOfSeq
  <2> QED
    BY <2>2, <2>3, <2>4
<1>7. \A s \in AllowedSchemes : s # NoScheme
  BY DEF AllowedSchemes, NoScheme
<1>8. IsSafeHref(href) => scheme \in AllowedSchemes \cup {NoScheme}
  <2> SUFFICES ASSUME IsSafeHref(href), Named PROVE Lower(head) \in AllowedSchemes
    BY <1>5
  <2>1. /\ HeadOf(cleaned) = head /\ Contains(cleaned, ":")
        /\ Len(head) = h - 1 /\ \A j \in 1..(h - 1) : head[j] \in NameTokens
    BY <1>6
  <2>2. ~ Contains(head, "/")
    BY <2>1 DEF Contains, NameTokens, Letters
  <2> HIDE DEF Named
  <2> QED
    BY <1>1, <2>1, <2>2 DEF IsSafeHref
<1>9. ~ Contains(href, ":") => IsSafeHref(href)
  <2>1. Contains(cleaned, ":") => Contains(href, ":")
    BY <1>2 DEF Contains
  <2> QED
    BY <1>1, <2>1 DEF IsSafeHref
<1>10. scheme \in AllowedSchemes => IsSafeHref(href)
  <2> SUFFICES ASSUME scheme \in AllowedSchemes PROVE IsSafeHref(href)
    OBVIOUS
  <2>1. Named /\ Lower(head) \in AllowedSchemes
    BY <1>5, <1>7
  <2>2. /\ HeadOf(cleaned) = head /\ head \in Seq(NameTokens) /\ Len(head) = h - 1
        /\ h - 1 \in Nat \ {0}
        /\ \A j \in 1..(h - 1) : head[j] = cleaned[j] /\ head[j] \in NameTokens
    BY <1>6, <2>1
  <2>3. head # << >> /\ head[1] \in Letters
    <3>1. PICK size : size = h - 1
      OBVIOUS
    <3>2. size \in Nat \ {0} /\ Len(head) = size
      BY <2>2, <3>1
    <3>3. 1 \in 1..size /\ Len(head) # 0
      BY <3>2
    <3> QED
      BY <2>1, <2>2, <3>1, <3>3
  <2>4. ToSet(head) \subseteq Letters \cup {"1"}
    BY <2>2 DEF ToSet, NameTokens
  <2> HIDE DEF Named
  <2> QED
    BY <1>1, <2>1, <2>2, <2>3, <2>4 DEF IsSafeHref
<1>11. \A s \in HttpSchemes :
         /\ s \in Seq({"http", "s"}) /\ Len(s) \in {1, 2} /\ Append(s, ":") \in Seq(HrefTokens)
         /\ Len(Append(s, ":")) = Len(s) + 1 /\ Append(s, ":")[Len(s) + 1] = ":"
         /\ \A i \in 1..Len(s) : Append(s, ":")[i] = s[i] /\ s[i] \in {"http", "s"}
  <2>1. HttpSchemes = {<<"http">>, <<"http", "s">>}
    BY DEF HttpSchemes
  <2>2. \A s \in HttpSchemes : s \in Seq({"http", "s"}) /\ Len(s) \in {1, 2}
    <3>1. <<"http">> \in Seq({"http", "s"}) /\ Len(<<"http">>) = 1
      OBVIOUS
    <3>2. <<"http", "s">> \in Seq({"http", "s"}) /\ Len(<<"http", "s">>) = 2
      OBVIOUS
    <3> QED
      BY <2>1, <3>1, <3>2
  <2>3. ASSUME NEW s \in HttpSchemes PROVE s \in Seq(HrefTokens)
    <3>1. {"http", "s"} \subseteq HrefTokens
      BY DEF HrefTokens, Letters
    <3> QED
      BY <2>2, <3>1, SeqDef
  <2>4. \A s \in HttpSchemes : Append(s, ":") \in Seq(HrefTokens)
    <3>1. ":" \in HrefTokens
      BY DEF HrefTokens
    <3> QED
      BY <2>3, <3>1, AppendProperties
  <2> QED
    BY <2>2, <2>4, ElementOfSeq, AppendProperties
<1>12. \A i \in 1..Len(cleaned) :
         /\ Lower(cleaned)[i] = IF cleaned[i] = "HTTP" THEN "http" ELSE cleaned[i]
         /\ Lower(cleaned)[i] = ":" <=> cleaned[i] = ":"
         /\ Lower(cleaned)[i] \in {"http", "s"} => cleaned[i] \in Letters
  <2>1. \A i \in 1..Len(cleaned) :
          Lower(cleaned)[i] = IF cleaned[i] = "HTTP" THEN "http" ELSE cleaned[i]
    BY <1>2 DEF Lower
  <2> QED
    BY <2>1 DEF Letters
<1>13. Lower(cleaned) \in Seq(HrefTokens) /\ Len(Lower(cleaned)) = Len(cleaned)
  <2>1. DOMAIN Lower(cleaned) = 1..Len(cleaned)
    BY <1>2 DEF Lower
  <2>2. \A i \in 1..Len(cleaned) : Lower(cleaned)[i] \in HrefTokens
    BY <1>2, <1>12 DEF HrefTokens, Letters
  <2>3. Lower(cleaned) \in Seq(HrefTokens)
    <3>1. Lower(cleaned) = [i \in 1..Len(cleaned) |-> Lower(cleaned)[i]]
      BY <1>2, <2>1 DEF Lower
    <3>2. Lower(cleaned) \in [1..Len(cleaned) -> HrefTokens]
      BY <2>2, <3>1
    <3> QED
      BY <1>2, <3>2, SeqDef
  <2> QED
    BY <1>2, <2>1, <2>3, LenProperties
<1>14. ASSUME NEW s \in HttpSchemes, IsPrefix(Append(s, ":"), Lower(cleaned))
       PROVE  scheme = s
  <2>1. PICK k : k = Len(s) + 1
    OBVIOUS
  <2>2. /\ k \in 2..Len(cleaned) /\ Lower(cleaned)[k] = ":"
        /\ \A i \in 1..(k - 1) : Lower(cleaned)[i] = s[i] /\ s[i] \in {"http", "s"}
    <3>1. PICK named : named = Append(s, ":")
      OBVIOUS
    <3>2. /\ Len(named) = k /\ named[k] = ":" /\ k \in {2, 3}
          /\ \A i \in 1..(k - 1) : named[i] = s[i] /\ s[i] \in {"http", "s"}
      BY <1>11, <2>1, <3>1
    <3>3. k <= Len(cleaned) /\ \A i \in 1..k : named[i] = Lower(cleaned)[i]
      <4>1. named \in Seq(HrefTokens) /\ IsPrefix(named, Lower(cleaned))
        BY <1>11, <1>14, <3>1
      <4>2. Begins(named, Lower(cleaned))
        BY <1>13, <4>1, PrefixBegins
      <4> QED
        BY <1>13, <3>2, <4>2 DEF Begins
    <3> QED
      BY <1>2, <3>2, <3>3
  <2>3. /\ cleaned[k] = ":"
        /\ \A i \in 1..(k - 1) : cleaned[i] \in Letters /\ i \in 1..Len(cleaned)
    <3>1. k \in 1..Len(cleaned) /\ \A i \in 1..(k - 1) : i \in 1..Len(cleaned)
      BY <1>2, <2>2
    <3>2. \A i \in 1..(k - 1) : Lower(cleaned)[i] \in {"http", "s"}
      BY <2>2
    <3>3. \A i \in 1..(k - 1) : cleaned[i] \in Letters
      BY <1>12, <3>1, <3>2
    <3>4. cleaned[k] = ":"
      BY <1>12, <2>2, <3>1
    <3> QED
      BY <3>1, <3>3, <3>4
  <2>4. h = k
    <3>1. /\ h \in Nat /\ 1 <= h /\ k \in Nat /\ 1 <= k /\ k <= Len(cleaned)
          /\ \A j \in 1..(h - 1) : cleaned[j] \in NameTokens
          /\ h <= Len(cleaned) => cleaned[h] \notin NameTokens
      BY <1>2, <1>3, <2>2 DEF HeadEnds
    <3>2. ASSUME h < k PROVE FALSE
      <4>1. h \in 1..(k - 1) /\ h <= Len(cleaned)
        BY <1>2, <3>1, <3>2
      <4>2. cleaned[h] \in NameTokens
        BY <2>3, <4>1 DEF NameTokens
      <4> QED
        BY <3>1, <4>1, <4>2
    <3>3. ASSUME k < h PROVE FALSE
      <4>1. k \in 1..(h - 1)
        BY <3>1, <3>3
      <4>2. ":" \in NameTokens
        BY <2>3, <3>1, <4>1
      <4> QED
        BY <4>2 DEF NameTokens, Letters
    <3> QED
      BY <3>1, <3>2, <3>3
  <2>5. Named
    BY <1>2, <2>2, <2>3, <2>4
  <2>6. head \in Seq(NameTokens) /\ Len(head) = k - 1 /\ \A j \in 1..(k - 1) : head[j] = cleaned[j]
    BY <1>6, <2>4, <2>5
  <2>7. Lower(head) = [i \in 1..(k - 1) |-> Lower(cleaned)[i]]
    BY <1>12, <2>3, <2>6 DEF Lower
  <2>8. s = [i \in 1..(k - 1) |-> s[i]]
    BY <1>11, <2>1
  <2>9. Lower(head) = s
    BY <2>2, <2>7, <2>8
  <2> HIDE DEF Named
  <2> QED
    BY <1>5, <2>5, <2>9
<1>15. ASSUME scheme \in HttpSchemes PROVE IsPrefix(Append(scheme, ":"), Lower(cleaned))
  <2>1. HttpSchemes \subseteq AllowedSchemes
    BY DEF HttpSchemes, AllowedSchemes
  <2>2. Named /\ scheme = Lower(head)
    BY <1>5, <1>7, <1>15, <2>1
  <2>3. /\ head \in Seq(NameTokens) /\ Len(head) = h - 1 /\ h - 1 \in Nat \ {0}
        /\ \A j \in 1..(h - 1) : head[j] = cleaned[j]
        /\ h <= Len(cleaned) /\ cleaned[h] = ":" /\ h \in Nat
    BY <1>2, <1>3, <1>6, <2>2 DEF HeadEnds
  <2>4. Len(scheme) = h - 1
    <3>1. DOMAIN Lower(head) = 1..(h - 1)
      BY <2>3 DEF Lower
    <3> QED
      BY <1>11, <1>15, <2>2, <2>3, <3>1, LenProperties
  <2>5. \A i \in 1..(h - 1) : scheme[i] = Lower(cleaned)[i] /\ i \in 1..Len(cleaned)
    BY <1>2, <1>12, <2>2, <2>3 DEF Lower
  <2>6. Lower(cleaned)[h] = ":"
    BY <1>2, <1>12, <2>3
  <2>7. /\ Len(Append(scheme, ":")) = h /\ Append(scheme, ":")[h] = ":"
        /\ \A i \in 1..(h - 1) : Append(scheme, ":")[i] = scheme[i]
    BY <1>11, <1>15, <2>3, <2>4
  <2>8. \A i \in 1..h : Append(scheme, ":")[i] = Lower(cleaned)[i]
    BY <2>3, <2>5, <2>6, <2>7
  <2> QED
    BY <1>11, <1>13, <1>15, <2>3, <2>7, <2>8, PrefixBegins DEF Begins
<1>16. IsExternal(href) <=> scheme \in HttpSchemes
  BY <1>1, <1>14, <1>15 DEF IsExternal
<1> QED
  BY <1>8, <1>9, <1>10, <1>16

\* A text holds only the tokens its pieces are made of.
TextInv ==
  /\ reader \in TextKinds
  /\ reader = "href" => text \in Seq(HrefTokens)
  /\ reader = "template" => text \in Seq(TemplateTokens)
  /\ reader = "if-none-match" => text \in Seq(TagTokens)

LEMMA TextInvariant == ReadersSpec => []TextInv
<1>1. (\E kind \in TextKinds : StartText(kind)) => TextInv
  BY DEF StartText, TextInv
<1>2. TextInv /\ [ReadersNext]_readerVars => TextInv'
  <2> SUFFICES ASSUME TextInv, [ReadersNext]_readerVars PROVE TextInv'
    OBVIOUS
  <2>1. ASSUME NEW piece \in PiecesOf[reader], Read(piece) PROVE TextInv'
    <3>1. reader' = reader /\ text' = text \o piece
      BY <2>1 DEF Read
    <3>2. reader = "href" => text' \in Seq(HrefTokens)
      <4>1. reader = "href" => text \in Seq(HrefTokens) /\ piece \in Seq(HrefTokens)
        BY <2>1, ReadersAssumption DEF TextInv
      <4> QED
        BY <3>1, <4>1, ConcatProperties
    <3>3. reader = "template" => text' \in Seq(TemplateTokens)
      <4>1. reader = "template" => text \in Seq(TemplateTokens) /\ piece \in Seq(TemplateTokens)
        BY <2>1, ReadersAssumption DEF TextInv
      <4> QED
        BY <3>1, <4>1, ConcatProperties
    <3>4. reader = "if-none-match" => text' \in Seq(TagTokens)
      <4>1. reader = "if-none-match" => text \in Seq(TagTokens) /\ piece \in Seq(TagTokens)
        BY <2>1, ReadersAssumption DEF TextInv
      <4> QED
        BY <3>1, <4>1, ConcatProperties
    <3> QED
      BY <3>1, <3>2, <3>3, <3>4 DEF TextInv
  <2>2. CASE UNCHANGED readerVars
    BY <2>2 DEF readerVars, TextInv
  <2> QED
    BY <2>1, <2>2 DEF ReadersNext
<1> QED
  BY <1>1, <1>2, PTL DEF ReadersSpec

\* Whatever a document links to, and however long the target is: a link that is
\* rendered has, to a browser, no scheme or an allowed one, none with an allowed
\* scheme is lost, and those that open in a new tab are those that leave over http
\* (is_safe_href, is_external).
THEOREM SafeLinks == ReadersSpec => []LinksAreReadAsBrowsersDo
<1>1. TextInv => LinksAreReadAsBrowsersDo
  <2> SUFFICES ASSUME TextInv, reader = "href" PROVE LinksAreReadAsBrowsersDo
    BY DEF LinksAreReadAsBrowsersDo
  <2>1. text \in Seq(HrefTokens)
    BY DEF TextInv
  <2>2. PICK scheme : scheme = SchemeRead(text)
    OBVIOUS
  <2>3. /\ IsSafeHref(text) => scheme \in AllowedSchemes \cup {NoScheme}
        /\ scheme \in AllowedSchemes \/ ~ Contains(text, ":") => IsSafeHref(text)
        /\ IsExternal(text) <=> scheme \in HttpSchemes
    BY <2>1, <2>2, ReadAsABrowserDoes
  <2> QED
    BY <2>2, <2>3 DEF LinksAreReadAsBrowsersDo
<1> QED
  BY <1>1, TextInvariant, PTL
------------------------------------------------------------------------------
(***************************************************************************)
(* If-None-Match headers.  The code looks for tags and jumps from one to   *)
(* the next; the grammar reads token by token.  Where a list has a next    *)
(* element, both stand behind the same quote.                              *)
(***************************************************************************)
\* Induction over an interval, with a set of numbers for the claim.
LEMMA UpwardsFrom ==
  ASSUME NEW a \in Int, NEW b \in Int, NEW Good, a <= b => a \in Good,
         \A k \in a..(b - 1) : k \in Good => k + 1 \in Good
  PROVE  \A k \in a..b : k \in Good
<1> DEFINE Bad == {d \in Nat : a + d <= b /\ a + d \notin Good}
<1> SUFFICES ASSUME NEW k \in a..b, k \notin Good PROVE FALSE
  OBVIOUS
<1>1. k - a \in Bad
  <2>1. k - a \in Nat /\ a + (k - a) = k /\ k <= b
    OBVIOUS
  <2> QED
    BY <2>1
<1>2. PICK d \in Bad : \A e \in Bad : d <= e
  <2>1. Bad \in SUBSET Nat /\ Bad # {}
    BY <1>1
  <2> HIDE DEF Bad
  <2> QED
    BY <2>1, LeastExists
<1>3. d \in Nat /\ a + d <= b /\ a + d \notin Good
  OBVIOUS
<1>4. d # 0
  BY <1>3
<1>5. PICK before : before = a + (d - 1)
  OBVIOUS
<1>6. d - 1 \in Nat /\ ~ (d <= d - 1) /\ before \in a..(b - 1) /\ before + 1 = a + d
  BY <1>3, <1>4, <1>5
<1>7. d - 1 \notin Bad
  <2> HIDE DEF Bad
  <2> QED
    BY <1>2, <1>6
<1>8. before \in Good
  BY <1>5, <1>6, <1>7
<1> QED
  BY <1>3, <1>6, <1>8

LEMMA DownwardsFrom ==
  ASSUME NEW a \in Int, NEW b \in Int, NEW Good, a <= b => b \in Good,
         \A k \in a..(b - 1) : k + 1 \in Good => k \in Good
  PROVE  \A k \in a..b : k \in Good
<1> DEFINE Mirrored == {k \in a..b : a + b - k \in Good}
<1>1. a <= b => a \in Mirrored
  BY a + b - a = b
<1>2. ASSUME NEW k \in a..(b - 1), k \in Mirrored PROVE k + 1 \in Mirrored
  <2>1. PICK other : other = a + b - (k + 1)
    OBVIOUS
  <2>2. other \in a..(b - 1) /\ other + 1 = a + b - k /\ k + 1 \in a..b
    BY <2>1
  <2>3. other \in Good
    BY <1>2, <2>2
  <2> QED
    BY <2>1, <2>2, <2>3
<1>3. \A k \in a..b : k \in Mirrored
  <2> HIDE DEF Mirrored
  <2> QED
    BY <1>1, <1>2, UpwardsFrom
<1>4. ASSUME NEW k \in a..b PROVE k \in Good
  <2>1. PICK other : other = a + b - k
    OBVIOUS
  <2>2. other \in a..b /\ a + b - other = k
    BY <2>1
  <2> QED
    BY <1>3, <2>2
<1> QED
  BY <1>4

\* What the library selects is the least place that passes, if there is one.
LEMMA LeastOrNone ==
  ASSUME NEW places \in SUBSET Nat, NEW least, 0 \notin places,
         least = IF places # {} THEN Min(places) ELSE 0
  PROVE  /\ least = 0 <=> places = {}
         /\ places # {} => least \in places /\ \A i \in places : least <= i
<1>1. places # {} => \E m \in places : \A i \in places : m <= i
  BY LeastExists
<1>2. places # {} => Min(places) \in places /\ \A i \in places : Min(places) <= i
  BY <1>1 DEF Min
<1> QED
  BY <1>2

\* The next tag of a header from a place on: behind spaces and commas, and a `W/` if
\* there is one, the text from a quote to the next.
Skips == {"space", ","}

NextTag(header, from, open, end) ==
  \E start \in from..Len(header) :
    /\ \A j \in from..(start - 1) : header[j] \in Skips
    /\ header[start] \notin Skips
    /\ open = IF header[start] = "W/" THEN start + 1 ELSE start
    /\ open \in 1..Len(header) /\ header[open] = Quote
    /\ end \in (open + 1)..Len(header) /\ header[end] = Quote
    /\ \A j \in (open + 1)..(end - 1) : header[j] # Quote

\* One round of the loop, with what the rounds from later places on answer.
Listed(later, header, from) ==
  LET start == Skipped(header, from, {"space", ","})
      open  == Opening(header, start)
      end   == SelectInSubSeq(header, open + 1, Len(header), LAMBDA token : token = Quote)
  IN  /\ start # 0
      /\ open <= Len(header) /\ header[open] = Quote
      /\ end # 0
      /\ SubSeq(header, open, end) = Self \/ later[end + 1]

LEMMA ListedIsNext ==
  ASSUME NEW header \in Seq(TagTokens), NEW from \in 1..(Len(header) + 1), NEW later
  PROVE  Listed(later, header, from) <=>
           \E open, end \in 1..Len(header) :
             /\ NextTag(header, from, open, end)
             /\ SubSeq(header, open, end) = Self \/ later[end + 1]
<1>1. PICK n : n = Len(header) /\ n \in Nat
  BY LenProperties
<1>2. PICK start, open, end :
        /\ start = Skipped(header, from, {"space", ","})
        /\ open = Opening(header, start)
        /\ end = SelectInSubSeq(header, open + 1, Len(header), LAMBDA token : token = Quote)
  OBVIOUS
<1>3. Listed(later, header, from) <=>
        /\ start # 0 /\ open <= n /\ header[open] = Quote /\ end # 0
        /\ SubSeq(header, open, end) = Self \/ later[end + 1]
  BY <1>1, <1>2 DEF Listed
<1>4. PICK starts : starts = {i \in from..n : header[i] \notin Skips}
  OBVIOUS
<1>5. /\ start = 0 <=> starts = {}
      /\ starts # {} => start \in starts /\ \A i \in starts : start <= i
  <2>1. start = IF starts # {} THEN Min(starts) ELSE 0
    BY <1>1, <1>2, <1>4 DEF Skipped, SelectInSubSeq, Skips
  <2>2. starts \in SUBSET Nat /\ 0 \notin starts
    BY <1>1, <1>4
  <2> QED
    BY <2>1, <2>2, LeastOrNone
<1>6. start # 0 => /\ start \in from..n /\ header[start] \notin Skips
                   /\ \A j \in from..(start - 1) : header[j] \in Skips
                   /\ open = IF header[start] = "W/" THEN start + 1 ELSE start
  <2> SUFFICES ASSUME start # 0
               PROVE  /\ start \in from..n /\ header[start] \notin Skips
                      /\ \A j \in from..(start - 1) : header[j] \in Skips
                      /\ open = IF header[start] = "W/" THEN start + 1 ELSE start
    OBVIOUS
  <2>1. start \in starts /\ \A i \in starts : start <= i
    BY <1>5
  <2>2. start \in from..n /\ header[start] \notin Skips
    BY <1>4, <2>1
  <2>3. \A j \in from..(start - 1) : j \in from..n /\ ~ (start <= j)
    BY <1>1, <2>2
  <2>4. \A j \in from..(start - 1) : header[j] \in Skips
    BY <1>4, <2>1, <2>3
  <2> QED
    BY <1>2, <2>2, <2>4 DEF Opening
<1>7. ASSUME NEW place \in 1..n, open = place
      PROVE  /\ end # 0 => /\ end \in (open + 1)..n /\ header[end] = Quote
                           /\ \A j \in (open + 1)..(end - 1) : header[j] # Quote
             /\ end = 0 => \A j \in (open + 1)..n : header[j] # Quote
  <2>1. PICK ends : ends = {i \in (place + 1)..n : header[i] = Quote}
    OBVIOUS
  <2>2. end = IF ends # {} THEN Min(ends) ELSE 0
    BY <1>1, <1>2, <1>7, <2>1 DEF SelectInSubSeq
  <2>3. ends \in SUBSET Nat /\ 0 \notin ends
    BY <1>1, <2>1
  <2>4. /\ end = 0 <=> ends = {}
        /\ ends # {} => end \in ends /\ \A i \in ends : end <= i
    BY <2>2, <2>3, LeastOrNone
  <2>5. end = 0 => \A j \in (open + 1)..n : header[j] # Quote
    BY <1>7, <2>1, <2>4
  <2>6. end # 0 => end \in (open + 1)..n /\ header[end] = Quote
    BY <1>7, <2>1, <2>4
  <2>7. ASSUME end # 0, NEW j \in (open + 1)..(end - 1) PROVE header[j] # Quote
    <3>1. j \in (place + 1)..n /\ ~ (end <= j)
      BY <1>1, <1>7, <2>6, <2>7
    <3> QED
      BY <2>1, <2>4, <2>7, <3>1
  <2> QED
    BY <2>5, <2>6, <2>7
<1>8. ASSUME Listed(later, header, from)
      PROVE  /\ open \in 1..n /\ end \in 1..n /\ NextTag(header, from, open, end)
             /\ SubSeq(header, open, end) = Self \/ later[end + 1]
  <2>1. /\ start # 0 /\ open <= n /\ header[open] = Quote /\ end # 0
        /\ SubSeq(header, open, end) = Self \/ later[end + 1]
    BY <1>3, <1>8
  <2>2. open \in 1..n
    BY <1>1, <1>6, <2>1
  <2>3. /\ end \in (open + 1)..n /\ header[end] = Quote
        /\ \A j \in (open + 1)..(end - 1) : header[j] # Quote
    BY <1>7, <2>1, <2>2
  <2>4. end \in 1..n
    BY <1>1, <2>2, <2>3
  <2>5. NextTag(header, from, open, end)
    BY <1>1, <1>6, <2>1, <2>2, <2>3 DEF NextTag
  <2> QED
    BY <2>1, <2>2, <2>4, <2>5
<1>9. ASSUME NEW o \in 1..n, NEW e \in 1..n, NextTag(header, from, o, e),
             SubSeq(header, o, e) = Self \/ later[e + 1]
      PROVE  Listed(later, header, from)
  <2>1. PICK first \in from..n :
          /\ \A j \in from..(first - 1) : header[j] \in Skips
          /\ header[first] \notin Skips
          /\ o = IF header[first] = "W/" THEN first + 1 ELSE first
          /\ header[o] = Quote /\ e \in (o + 1)..n /\ header[e] = Quote
          /\ \A j \in (o + 1)..(e - 1) : header[j] # Quote
    BY <1>1, <1>9 DEF NextTag
  <2>2. start # 0
    BY <1>4, <1>5, <2>1
  <2>3. start = first
    <3>1. ~ (start < first)
      BY <1>1, <1>6, <2>1, <2>2
    <3>2. ~ (first < start)
      BY <1>1, <1>6, <2>1, <2>2
    <3> QED
      BY <1>1, <1>6, <2>1, <2>2, <3>1, <3>2
  <2>4. open = o
    BY <1>6, <2>1, <2>2, <2>3
  <2>5. end = e
    <3>1. end # 0
      BY <1>7, <2>1, <2>4
    <3>2. /\ end \in (o + 1)..n /\ header[end] = Quote
          /\ \A j \in (o + 1)..(end - 1) : header[j] # Quote
      BY <1>7, <2>4, <3>1
    <3>3. ~ (end < e) /\ ~ (e < end)
      BY <1>1, <2>1, <3>2
    <3> QED
      BY <1>1, <2>1, <3>2, <3>3
  <2> QED
    BY <1>1, <1>3, <1>9, <2>1, <2>2, <2>4, <2>5
<1> QED
  BY <1>1, <1>8, <1>9

\* The loop ends: what it answers from each place on is well defined.
LEMMA LoopEnds ==
  ASSUME NEW header \in Seq(TagTokens)
  PROVE  \E listed :
           /\ MatchesIfNoneMatch(header) <=> IsStar(header) \/ listed[1]
           /\ \A from \in 1..(Len(header) + 1) : listed[from] <=> Listed(listed, header, from)
<1>1. PICK n : n = Len(header) /\ n \in Nat
  BY LenProperties
<1> DEFINE Answers(l, a) == l = [from \in a..(n + 1) |-> Listed(l, header, from)]
           Answered == {a \in 1..(n + 2) : \E l : Answers(l, a)}
           listed == CHOOSE l : Answers(l, 1)
<1>2. n + 2 \in Answered
  <2>1. (n + 2)..(n + 1) = {} /\ n + 2 \in 1..(n + 2)
    BY <1>1
  <2>2. Answers([from \in {} |-> FALSE], n + 2)
    BY <2>1
  <2> HIDE DEF Answers
  <2> QED
    BY <2>1, <2>2
<1>3. ASSUME NEW a \in 1..(n + 1), a + 1 \in Answered PROVE a \in Answered
  <2>1. PICK l : l = [from \in (a + 1)..(n + 1) |-> Listed(l, header, from)]
    BY <1>3
  <2>2. PICK h : h = [from \in a..(n + 1) |-> Listed(l, header, from)]
    OBVIOUS
  <2>3. ASSUME NEW from \in a..(n + 1)
        PROVE  Listed(h, header, from) <=> Listed(l, header, from)
    <3>1. from \in 1..(Len(header) + 1)
      BY <1>1
    <3>2. ASSUME NEW open \in 1..n, NEW end \in 1..n, NextTag(header, from, open, end)
          PROVE  h[end + 1] = l[end + 1]
      <4>1. open >= from /\ end \in (open + 1)..n
        BY <1>1, <3>2 DEF NextTag
      <4>2. end + 1 \in a..(n + 1) /\ end + 1 \in (a + 1)..(n + 1)
        BY <1>1, <4>1
      <4> QED
        BY <2>1, <2>2, <4>2
    <3>3. Listed(h, header, from) <=>
            \E open, end \in 1..n :
              /\ NextTag(header, from, open, end)
              /\ SubSeq(header, open, end) = Self \/ h[end + 1]
      BY <1>1, <3>1, ListedIsNext
    <3>4. Listed(l, header, from) <=>
            \E open, end \in 1..n :
              /\ NextTag(header, from, open, end)
              /\ SubSeq(header, open, end) = Self \/ l[end + 1]
      BY <1>1, <3>1, ListedIsNext
    <3> QED
      BY <3>2, <3>3, <3>4
  <2>4. \A from \in a..(n + 1) : Listed(h, header, from) = Listed(l, header, from)
    <3>1. \A from \in a..(n + 1) :
            Listed(h, header, from) \in BOOLEAN /\ Listed(l, header, from) \in BOOLEAN
      BY DEF Listed
    <3> QED
      BY <2>3, <3>1
  <2>5. Answers(h, a)
    BY <2>2, <2>4
  <2>6. a \in 1..(n + 2)
    BY <1>1
  <2> HIDE DEF Answers
  <2> QED
    BY <2>5, <2>6
<1>4. 1 \in Answered
  <2>1. \A a \in 1..(n + 2) : a \in Answered
    <3>1. \A a \in 1..((n + 2) - 1) : a \in 1..(n + 1)
      BY <1>1
    <3> HIDE DEF Answered
    <3>2. \A a \in 1..((n + 2) - 1) : a + 1 \in Answered => a \in Answered
      BY <1>3, <3>1
    <3>3. 1 \in Int /\ n + 2 \in Int
      BY <1>1
    <3> QED
      BY <1>2, <3>2, <3>3, DownwardsFrom
  <2>2. 1 \in 1..(n + 2)
    BY <1>1
  <2> HIDE DEF Answered
  <2> QED
    BY <2>1, <2>2
<1>5. Answers(listed, 1)
  <2> HIDE DEF Answers
  <2> QED
    BY <1>4
<1>6. MatchesIfNoneMatch(header) <=> IsStar(header) \/ listed[1]
  BY <1>1 DEF MatchesIfNoneMatch, Listed
<1>7. PICK l : l = listed
  OBVIOUS
<1>8. l = [from \in 1..(n + 1) |-> Listed(l, header, from)]
  BY <1>5, <1>7
<1>9. MatchesIfNoneMatch(header) <=> IsStar(header) \/ l[1]
  BY <1>6, <1>7
<1> HIDE DEF listed
<1>10. \A from \in 1..(n + 1) : l[from] = Listed(l, header, from)
  BY <1>8
<1> QED
  BY <1>1, <1>9, <1>10

\* What has been read of a header.
Reading ==
  [at : {"element", "weak", "tag", "after", "junk"}, text : Seq(TagTokens),
   tags : SUBSET Seq(TagTokens)]

FirstReading == [at |-> "element", text |-> << >>, tags |-> {}]

Follows(readings, header) ==
  /\ readings \in [0..Len(header) -> Reading]
  /\ readings[0] = FirstReading
  /\ \A n \in 1..Len(header) : readings[n] = ListStep(readings[n - 1], header[n])

\* What a token does to what has been read, at each place of the grammar.
LEMMA ListSteps ==
  ASSUME NEW read \in Reading, NEW token \in TagTokens, NEW next, next = ListStep(read, token)
  PROVE  /\ next \in Reading
         /\ read.at = "junk" => next.at = "junk"
         /\ read.at = "tag" /\ token # Quote =>
              next.at = "tag" /\ next.text = Append(read.text, token) /\ next.tags = read.tags
         /\ read.at = "tag" /\ token = Quote =>
              next.at = "after" /\ next.text = << >> /\ next.tags = read.tags \cup {read.text}
         /\ read.at \in {"element", "after"} /\ token \in Skips =>
              /\ next.at \in {"element", "after"}
              /\ next.text = read.text /\ next.tags = read.tags
         /\ read.at = "element" /\ token = "W/" =>
              next.at = "weak" /\ next.text = read.text /\ next.tags = read.tags
         /\ read.at \in {"element", "weak"} /\ token = Quote =>
              next.at = "tag" /\ next.text = read.text /\ next.tags = read.tags
         /\ read.at = "element" /\ token \notin Skips \cup {"W/", Quote} => next.at = "junk"
         /\ read.at = "after" /\ token \notin Skips => next.at = "junk"
         /\ read.at = "weak" /\ token # Quote => next.at = "junk"
<1>1. PICK at, text_, tags :
        /\ read = [at |-> at, text |-> text_, tags |-> tags]
        /\ at \in {"element", "weak", "tag", "after", "junk"}
        /\ text_ \in Seq(TagTokens) /\ tags \in SUBSET Seq(TagTokens)
  BY DEF Reading
<1>2. read.at = at /\ read.text = text_ /\ read.tags = tags
  BY <1>1
<1>3. Quote = "quote" /\ Skips = {"space", ","}
  BY DEF Quote, Skips
<1>4. ASSUME NEW other PROVE [read EXCEPT !.at = other] = [at |-> other, text |-> text_, tags |-> tags]
  BY <1>1
<1>5. CASE at = "junk"
  <2>1. next = read
    BY <1>2, <1>5 DEF ListStep
  <2> QED
    BY <1>2, <1>5, <2>1
<1>6. CASE at = "tag" /\ token # Quote
  <2>1. next = [at |-> at, text |-> Append(text_, token), tags |-> tags]
    <3>1. PICK longer : longer = Append(text_, token)
      OBVIOUS
    <3>2. next = [read EXCEPT !.text = longer]
      <4>1. read.at = "tag" /\ read.at # "junk" /\ token # Quote
        BY <1>2, <1>6
      <4>2. next = [read EXCEPT !.text = Append(@, token)]
        BY <4>1 DEF ListStep
      <4> QED
        BY <1>2, <3>1, <4>2
    <3>3. [read EXCEPT !.text = longer] = [at |-> at, text |-> longer, tags |-> tags]
      BY <1>1
    <3> QED
      BY <3>1, <3>2, <3>3
  <2>2. Append(text_, token) \in Seq(TagTokens)
    BY <1>1, AppendProperties
  <2>3. next \in Reading
    BY <1>1, <2>1, <2>2 DEF Reading
  <2>4. next.at = "tag" /\ next.text = Append(text_, token) /\ next.tags = tags
    BY <1>6, <2>1
  <2> QED
    BY <1>2, <1>6, <2>3, <2>4
<1>7. CASE at = "tag" /\ token = Quote
  <2>1. next = [at |-> "after", text |-> << >>, tags |-> tags \cup {text_}]
    BY <1>2, <1>3, <1>7 DEF ListStep
  <2>2. next \in Reading
    <3>1. << >> \in Seq(TagTokens) /\ tags \cup {text_} \in SUBSET Seq(TagTokens)
      BY <1>1
    <3> QED
      BY <2>1, <3>1 DEF Reading
  <2>3. next.at = "after" /\ next.text = << >> /\ next.tags = tags \cup {text_}
    BY <2>1
  <2> QED
    BY <1>2, <1>3, <1>7, <2>2, <2>3
<1>8. CASE at \in {"element", "after"} /\ token = "space"
  <2>1. next = read
    BY <1>2, <1>3, <1>8 DEF ListStep
  <2> QED
    BY <1>2, <1>3, <1>8, <2>1
<1>9. CASE at \in {"element", "after"} /\ token = ","
  <2>1. next = [at |-> "element", text |-> text_, tags |-> tags]
    BY <1>2, <1>3, <1>4, <1>9 DEF ListStep
  <2>2. next \in Reading
    BY <1>1, <2>1 DEF Reading
  <2>3. next.at = "element" /\ next.text = text_ /\ next.tags = tags
    BY <2>1
  <2> QED
    BY <1>2, <1>3, <1>9, <2>2, <2>3
<1>10. CASE at = "element" /\ token = "W/"
  <2>1. next = [at |-> "weak", text |-> text_, tags |-> tags]
    BY <1>2, <1>3, <1>4, <1>10 DEF ListStep
  <2>2. next \in Reading
    BY <1>1, <2>1 DEF Reading
  <2>3. next.at = "weak" /\ next.text = text_ /\ next.tags = tags
    BY <2>1
  <2> QED
    BY <1>2, <1>3, <1>10, <2>2, <2>3
<1>11. CASE at \in {"element", "weak"} /\ token = Quote
  <2>1. next = [at |-> "tag", text |-> text_, tags |-> tags]
    BY <1>2, <1>3, <1>4, <1>11 DEF ListStep
  <2>2. next \in Reading
    BY <1>1, <2>1 DEF Reading
  <2>3. next.at = "tag" /\ next.text = text_ /\ next.tags = tags
    BY <2>1
  <2> QED
    BY <1>2, <1>3, <1>11, <2>2, <2>3
<1>12. CASE \/ at = "element" /\ token \notin Skips \cup {"W/", Quote}
            \/ at = "after" /\ token \notin Skips
            \/ at = "weak" /\ token # Quote
  <2>1. next = [at |-> "junk", text |-> text_, tags |-> tags]
    BY <1>2, <1>3, <1>4, <1>12 DEF ListStep
  <2>2. next \in Reading
    BY <1>1, <2>1 DEF Reading
  <2>3. next.at = "junk" /\ next.text = text_ /\ next.tags = tags
    BY <2>1
  <2> QED
    BY <1>2, <1>3, <1>12, <2>2, <2>3
<1> QED
  BY <1>1, <1>3, <1>5, <1>6, <1>7, <1>8, <1>9, <1>10, <1>11, <1>12

\* A header is read from its first token to its last.
LEMMA HeaderIsRead ==
  ASSUME NEW header \in Seq(TagTokens)
  PROVE  \E readings :
           Follows(readings, header) /\ ListRead(header) = readings[Len(header)]
<1>1. PICK size : size = Len(header) /\ size \in Nat
  BY LenProperties
<1>2. \A n \in 1..size : header[n] \in TagTokens
  BY <1>1, ElementOfSeq
<1> DEFINE Step(g, last) ==
             [n \in 0..last |-> IF n = 0 THEN FirstReading ELSE ListStep(g[n - 1], header[n])]
           Reads(g, last) == g = Step(g, last)
           Read_ == {last \in 0..size : \E g : Reads(g, last)}
           read == CHOOSE g : Reads(g, size)
<1>3. 0 \in Read_
  <2>1. PICK g : g = [n \in 0..0 |-> FirstReading]
    OBVIOUS
  <2>2. \A n \in 0..0 : n = 0
    OBVIOUS
  <2>3. Reads(g, 0)
    BY <2>1, <2>2
  <2>4. 0 \in 0..size
    BY <1>1
  <2> HIDE DEF Reads
  <2> QED
    BY <2>3, <2>4
<1>4. ASSUME NEW last \in 0..(size - 1), last \in Read_ PROVE last + 1 \in Read_
  <2>1. PICK g : g = [n \in 0..last |-> IF n = 0 THEN FirstReading ELSE ListStep(g[n - 1], header[n])]
    BY <1>4
  <2>2. PICK next, v : next = last + 1 /\ v = ListStep(g[last], header[next])
    OBVIOUS
  <2>3. PICK h : h = [n \in 0..next |-> IF n = next THEN v ELSE g[n]]
    OBVIOUS
  <2>4. /\ next \in 0..size /\ next # 0 /\ next - 1 = last /\ last # next
        /\ last \in 0..last /\ last \in 0..next
    BY <1>1, <2>2
  <2>5. ASSUME NEW n \in 0..next
        PROVE  h[n] = IF n = 0 THEN FirstReading ELSE ListStep(h[n - 1], header[n])
    <3>1. CASE n = next
      <4>1. h[n] = v /\ h[last] = g[last]
        BY <2>3, <2>4, <3>1
      <4> QED
        BY <2>2, <2>4, <3>1, <4>1
    <3>2. CASE n # next
      <4>1. n \in 0..last
        BY <1>1, <2>2, <3>2
      <4>2. h[n] = g[n]
        BY <2>3, <3>2
      <4>3. n # 0 => h[n - 1] = g[n - 1]
        <5>1. n # 0 => n - 1 \in 0..next /\ n - 1 # next
          BY <1>1, <2>2, <4>1
        <5> QED
          BY <2>3, <5>1
      <4>4. g[n] = IF n = 0 THEN FirstReading ELSE ListStep(g[n - 1], header[n])
        BY <2>1, <4>1
      <4> QED
        BY <4>2, <4>3, <4>4
    <3> QED
      BY <3>1, <3>2
  <2>6. h = [n \in 0..next |-> h[n]]
    BY <2>3
  <2>7. Reads(h, next)
    BY <2>5, <2>6
  <2> HIDE DEF Reads
  <2> QED
    BY <2>2, <2>4, <2>7
<1>5. \E g : Reads(g, size)
  <2> HIDE DEF Reads
  <2>1. \A last \in 0..size : last \in Read_
    <3> HIDE DEF Read_
    <3>1. \A last \in 0..(size - 1) : last \in Read_ => last + 1 \in Read_
      BY <1>4
    <3>2. 0 \in Int /\ size \in Int
      BY <1>1
    <3> QED
      BY <1>3, <3>1, <3>2, UpwardsFrom
  <2>2. size \in 0..size
    BY <1>1
  <2> QED
    BY <2>1, <2>2
<1>6. Reads(read, size)
  <2> HIDE DEF Reads
  <2> QED
    BY <1>5
<1>7. ListRead(header) = read[size]
  BY <1>1 DEF ListRead, FirstReading
<1>8. PICK g : g = read
  OBVIOUS
<1>9. Reads(g, size) /\ ListRead(header) = g[size]
  BY <1>6, <1>7, <1>8
<1> HIDE DEF read
<1>10. g[0] = FirstReading /\ \A n \in 1..size : g[n] = ListStep(g[n - 1], header[n])
  <2>1. \A n \in 0..size : g[n] = IF n = 0 THEN FirstReading ELSE ListStep(g[n - 1], header[n])
    BY <1>9
  <2>2. 0 \in 0..size /\ \A n \in 1..size : n \in 0..size /\ n # 0
    BY <1>1
  <2> QED
    BY <2>1, <2>2
<1> DEFINE Typed == {n \in 0..size : g[n] \in Reading}
<1>11. \A n \in 0..size : n \in Typed
  <2>1. 0 \in Typed
    <3>1. FirstReading \in Reading /\ 0 \in 0..size
      BY <1>1 DEF FirstReading, Reading
    <3> QED
      BY <1>10, <3>1
  <2>2. ASSUME NEW n \in 0..(size - 1), n \in Typed PROVE n + 1 \in Typed
    <3>1. PICK next : next = n + 1 /\ next \in 1..size /\ next \in 0..size /\ next - 1 = n
      BY <1>1
    <3>2. g[next] = ListStep(g[n], header[next])
      BY <1>10, <3>1
    <3>3. g[next] \in Reading
      BY <1>2, <2>2, <3>1, <3>2, ListSteps
    <3> QED
      BY <3>1, <3>3
  <2> HIDE DEF Typed
  <2>3. \A n \in 0..(size - 1) : n \in Typed => n + 1 \in Typed
    BY <2>2
  <2>4. 0 \in Int /\ size \in Int
    BY <1>1
  <2> QED
    BY <2>1, <2>3, <2>4, UpwardsFrom
<1>12. g \in [0..size -> Reading]
  <2>1. \A n \in 0..size : g[n] \in Reading
    BY <1>11
  <2>2. g = [n \in 0..size |-> g[n]]
    BY <1>9
  <2> QED
    BY <2>1, <2>2
<1>13. Follows(g, header)
  BY <1>1, <1>10, <1>12 DEF Follows
<1> QED
  BY <1>1, <1>9, <1>13

\* What a header is read as from a place on.
LEMMA HeaderSteps ==
  ASSUME NEW header \in Seq(TagTokens), NEW readings, Follows(readings, header),
         NEW n \in 1..Len(header)
  PROVE  /\ readings[n - 1] \in Reading /\ readings[n] \in Reading /\ header[n] \in TagTokens
         /\ readings[n] = ListStep(readings[n - 1], header[n])
<1>1. n - 1 \in 0..Len(header) /\ n \in 0..Len(header) /\ header[n] \in TagTokens
  BY LenProperties, ElementOfSeq
<1> QED
  BY <1>1 DEF Follows

\* Once it is no list any more, it never is.
LEMMA JunkStays ==
  ASSUME NEW header \in Seq(TagTokens), NEW readings, Follows(readings, header),
         NEW from \in 0..Len(header), readings[from].at = "junk"
  PROVE  readings[Len(header)].at = "junk"
<1> DEFINE Good == {k \in from..Len(header) : readings[k].at = "junk"}
<1>1. PICK n : n = Len(header) /\ n \in Nat
  BY LenProperties
<1>2. from \in Good
  BY <1>1
<1>3. ASSUME NEW k \in from..(n - 1), k \in Good PROVE k + 1 \in Good
  <2>1. PICK next : next = k + 1 /\ next \in 1..n /\ next - 1 = k /\ next \in from..n
    BY <1>1
  <2>2. /\ readings[k] \in Reading /\ header[next] \in TagTokens
        /\ readings[next] = ListStep(readings[k], header[next])
    BY <1>1, <2>1, HeaderSteps
  <2>3. readings[k].at = "junk"
    BY <1>3
  <2>4. readings[next].at = "junk"
    BY <2>2, <2>3, ListSteps
  <2> QED
    BY <1>1, <2>1, <2>4
<1>4. \A k \in from..n : k \in Good
  <2> HIDE DEF Good
  <2>1. \A k \in from..(n - 1) : k \in Good => k + 1 \in Good
    BY <1>3
  <2>2. from \in Int /\ n \in Int
    BY <1>1
  <2> QED
    BY <1>2, <2>1, <2>2, UpwardsFrom
<1> QED
  BY <1>1, <1>4

\* Between the elements of a list stand commas and spaces.
Between(readings, place, tags) ==
  /\ readings[place].at \in {"element", "after"}
  /\ readings[place].text = << >> /\ readings[place].tags = tags

LEMMA SkipsStay ==
  ASSUME NEW header \in Seq(TagTokens), NEW readings, Follows(readings, header),
         NEW from \in 0..Len(header), NEW to \in from..Len(header), NEW tags,
         Between(readings, from, tags),
         \A j \in (from + 1)..to : header[j] \in Skips
  PROVE  Between(readings, to, tags)
<1> DEFINE Good == {k \in from..to : Between(readings, k, tags)}
<1>1. PICK n : n = Len(header) /\ n \in Nat
  BY LenProperties
<1>2. from \in Good
  BY <1>1
<1>3. ASSUME NEW k \in from..(to - 1), k \in Good PROVE k + 1 \in Good
  <2>1. PICK next : /\ next = k + 1 /\ next \in 1..n /\ next - 1 = k
                    /\ next \in from..to /\ next \in (from + 1)..to
    BY <1>1
  <2>2. /\ readings[k] \in Reading /\ header[next] \in TagTokens
        /\ readings[next] = ListStep(readings[k], header[next])
    BY <1>1, <2>1, HeaderSteps
  <2>3. header[next] \in Skips /\ Between(readings, k, tags)
    BY <1>3, <2>1
  <2>4. Between(readings, next, tags)
    BY <2>2, <2>3, ListSteps DEF Between
  <2> QED
    BY <1>1, <2>1, <2>4
<1>4. \A k \in from..to : k \in Good
  <2> HIDE DEF Good
  <2>1. \A k \in from..(to - 1) : k \in Good => k + 1 \in Good
    BY <1>3
  <2>2. from \in Int /\ to \in Int
    BY <1>1
  <2> QED
    BY <1>2, <2>1, <2>2, UpwardsFrom
<1> QED
  BY <1>1, <1>4

\* Between quotes stands the text of a tag.
Within(readings, place, text_, tags) ==
  /\ readings[place].at = "tag"
  /\ readings[place].text = text_ /\ readings[place].tags = tags

LEMMA TextIsRead ==
  ASSUME NEW header \in Seq(TagTokens), NEW readings, Follows(readings, header),
         NEW open \in 1..Len(header), NEW to \in open..Len(header), NEW tags,
         Within(readings, open, << >>, tags),
         \A j \in (open + 1)..to : header[j] # Quote
  PROVE  Within(readings, to, SubSeq(header, open + 1, to), tags)
<1> DEFINE Good == {k \in open..to : Within(readings, k, SubSeq(header, open + 1, k), tags)}
<1>1. PICK n : n = Len(header) /\ n \in Nat
  BY LenProperties
<1>2. open \in Good
  <2>1. SubSeq(header, open + 1, open) = << >>
    BY SubSeqEmpty
  <2>2. Within(readings, open, SubSeq(header, open + 1, open), tags)
    BY <2>1
  <2>3. open \in open..to
    OBVIOUS
  <2> QED
    BY <2>2, <2>3
<1>3. ASSUME NEW k \in open..(to - 1), k \in Good PROVE k + 1 \in Good
  <2>1. PICK next : /\ next = k + 1 /\ next \in 1..n /\ next - 1 = k
                    /\ next \in open..to /\ next \in (open + 1)..to
                    /\ open + 1 \in 1..n /\ next \in (open + 1)..n
    BY <1>1
  <2>2. /\ readings[k] \in Reading /\ header[next] \in TagTokens
        /\ readings[next] = ListStep(readings[k], header[next])
    BY <1>1, <2>1, HeaderSteps
  <2>3. header[next] # Quote /\ Within(readings, k, SubSeq(header, open + 1, k), tags)
    BY <1>3, <2>1
  <2>4. SubSeq(header, open + 1, next) = Append(SubSeq(header, open + 1, k), header[next])
    <3>1. SubSeq(header, open + 1, next) = SubSeq(header, open + 1, next - 1) \o <<header[next]>>
      BY <1>1, <2>1, SubSeqRecursiveSecond
    <3>2. SubSeq(header, open + 1, k) \in Seq(TagTokens)
      <4>1. \A j \in (open + 1)..k : header[j] \in TagTokens
        <5>1. \A j \in (open + 1)..k : j \in 1..n
          BY <1>1
        <5> QED
          BY <1>1, <5>1, ElementOfSeq
      <4> QED
        BY <4>1, SubSeqProperties
    <3>3. Append(SubSeq(header, open + 1, k), header[next])
            = SubSeq(header, open + 1, k) \o <<header[next]>>
      BY <2>2, <3>2, AppendIsConcat
    <3> QED
      BY <2>1, <3>1, <3>3
  <2>5. Within(readings, next, SubSeq(header, open + 1, next), tags)
    <3>1. PICK sofar : sofar = SubSeq(header, open + 1, k)
      OBVIOUS
    <3>2. readings[k].at = "tag" /\ readings[k].text = sofar /\ readings[k].tags = tags
      BY <2>3, <3>1 DEF Within
    <3>3. PICK before, token, after :
            before = readings[k] /\ token = header[next] /\ after = readings[next]
      OBVIOUS
    <3>4. before \in Reading /\ token \in TagTokens /\ after = ListStep(before, token)
      BY <2>2, <3>3
    <3>5. before.at = "tag" /\ token # Quote
      BY <2>3, <3>2, <3>3
    <3>6. after.at = "tag" /\ after.text = Append(before.text, token) /\ after.tags = before.tags
      BY <3>4, <3>5, ListSteps
    <3> QED
      BY <2>4, <3>1, <3>2, <3>3, <3>6 DEF Within
  <2> QED
    BY <1>1, <2>1, <2>5
<1>4. \A k \in open..to : k \in Good
  <2> HIDE DEF Good
  <2>1. \A k \in open..(to - 1) : k \in Good => k + 1 \in Good
    BY <1>3
  <2>2. open \in Int /\ to \in Int
    BY <1>1
  <2> QED
    BY <1>2, <2>1, <2>2, UpwardsFrom
<1> QED
  BY <1>1, <1>4

\* Behind any element of a list stand only commas and spaces, or its next tag.
LEMMA NextOfAList ==
  ASSUME NEW header \in Seq(TagTokens), NEW readings, Follows(readings, header),
         readings[Len(header)].at \in {"element", "after"},
         NEW from \in 1..(Len(header) + 1), NEW tags, Between(readings, from - 1, tags)
  PROVE  \/ /\ \A j \in from..Len(header) : header[j] \in Skips
            /\ readings[Len(header)].tags = tags
         \/ \E open, end \in 1..Len(header) :
              /\ NextTag(header, from, open, end) /\ from <= open /\ open < end
              /\ Between(readings, end, tags \cup {SubSeq(header, open + 1, end - 1)})
<1>1. PICK n : n = Len(header) /\ n \in Nat
  BY LenProperties
<1>2. PICK behind : behind = from - 1 /\ behind \in 0..n /\ behind + 1 = from
  BY <1>1
<1>3. \A k \in 0..n : readings[k].at # "junk"
  BY <1>1, JunkStays
<1>4. CASE \A j \in from..n : header[j] \in Skips
  <2>1. Between(readings, n, tags)
    <3>1. n \in behind..n
      BY <1>1, <1>2
    <3> QED
      BY <1>1, <1>2, <1>4, <3>1, SkipsStay
  <2> QED
    BY <1>1, <1>4, <2>1 DEF Between
<1>5. CASE \E j \in from..n : header[j] \notin Skips
  <2>1. PICK start \in from..n :
          header[start] \notin Skips /\ \A j \in from..(start - 1) : header[j] \in Skips
    <3>1. PICK places : places = {j \in from..n : header[j] \notin Skips}
      OBVIOUS
    <3>2. places \in SUBSET Nat /\ places # {}
      BY <1>1, <1>5, <3>1
    <3>3. PICK start \in places : \A j \in places : start <= j
      BY <3>2, LeastExists
    <3>4. \A j \in from..(start - 1) : j \in from..n /\ ~ (start <= j)
      BY <1>1, <3>1, <3>3
    <3> QED
      BY <3>1, <3>3, <3>4
  <2>2. PICK before : /\ before = start - 1 /\ before \in behind..n /\ before + 1 = start
                      /\ before \in 0..n /\ start \in 1..n
    BY <1>1, <1>2, <2>1
  <2>3. Between(readings, before, tags)
    <3>1. \A j \in (behind + 1)..before : header[j] \in Skips
      BY <1>2, <2>1, <2>2
    <3> QED
      BY <1>1, <1>2, <2>2, <3>1, SkipsStay
  <2>4. PICK read, token, next :
          /\ read = readings[before] /\ token = header[start] /\ next = readings[start]
          /\ read \in Reading /\ token \in TagTokens /\ next = ListStep(read, token)
    BY <1>1, <2>2, HeaderSteps
  <2>5. /\ read.at \in {"element", "after"} /\ read.text = << >> /\ read.tags = tags
        /\ token \notin Skips /\ next.at # "junk"
    <3>1. read.at \in {"element", "after"} /\ read.text = << >> /\ read.tags = tags
      BY <2>3, <2>4 DEF Between
    <3>2. next.at # "junk"
      <4>1. start \in 0..n
        BY <2>2
      <4> QED
        BY <1>3, <2>4, <4>1
    <3> QED
      BY <2>1, <2>4, <3>1, <3>2
  <2>6. read.at = "element" /\ token \in {"W/", Quote}
    BY <2>4, <2>5, ListSteps
  <2>7. PICK open \in 1..n :
          /\ open = IF header[start] = "W/" THEN start + 1 ELSE start
          /\ header[open] = Quote /\ Within(readings, open, << >>, tags)
    <3>1. CASE token = Quote
      <4>1. next.at = "tag" /\ next.text = << >> /\ next.tags = tags
        BY <2>4, <2>5, <2>6, <3>1, ListSteps
      <4>2. Within(readings, start, << >>, tags) /\ header[start] = Quote
        BY <2>4, <3>1, <4>1 DEF Within
      <4>3. header[start] # "W/"
        BY <4>2 DEF Quote
      <4> QED
        BY <2>2, <4>2, <4>3
    <3>2. CASE token = "W/"
      <4>1. next.at = "weak" /\ next.text = << >> /\ next.tags = tags
        BY <2>4, <2>5, <2>6, <3>2, ListSteps
      <4>2. start # n
        BY <1>1, <2>4, <4>1
      <4>3. PICK open : open = start + 1 /\ open \in 1..n /\ open - 1 = start
        BY <1>1, <2>2, <4>2
      <4>4. PICK quote, opened :
              /\ quote = header[open] /\ opened = readings[open]
              /\ next \in Reading /\ quote \in TagTokens /\ opened = ListStep(next, quote)
        <5>1. /\ readings[open - 1] \in Reading /\ header[open] \in TagTokens
              /\ readings[open] = ListStep(readings[open - 1], header[open])
          BY <1>1, <4>3, HeaderSteps
        <5>2. readings[open - 1] = next
          BY <2>4, <4>3
        <5> QED
          BY <5>1, <5>2
      <4>5. opened.at # "junk"
        <5>1. open \in 0..n
          BY <4>3
        <5> QED
          BY <1>3, <4>4, <5>1
      <4>6. quote = Quote
        BY <4>1, <4>4, <4>5, ListSteps
      <4>7. opened.at = "tag" /\ opened.text = << >> /\ opened.tags = tags
        BY <4>1, <4>4, <4>6, ListSteps
      <4>8. Within(readings, open, << >>, tags)
        BY <4>4, <4>7 DEF Within
      <4> QED
        BY <2>4, <3>2, <4>3, <4>4, <4>6, <4>8
    <3> QED
      BY <2>6, <3>1, <3>2
  <2>8. \E j \in (open + 1)..n : header[j] = Quote
    <3> SUFFICES ASSUME \A j \in (open + 1)..n : header[j] # Quote PROVE FALSE
      OBVIOUS
    <3>1. n \in open..n
      BY <1>1
    <3>2. Within(readings, n, SubSeq(header, open + 1, n), tags)
      BY <1>1, <2>7, <3>1, TextIsRead
    <3> QED
      BY <1>1, <3>2 DEF Within
  <2>9. PICK end \in (open + 1)..n :
          header[end] = Quote /\ \A j \in (open + 1)..(end - 1) : header[j] # Quote
    <3>1. PICK places : places = {j \in (open + 1)..n : header[j] = Quote}
      OBVIOUS
    <3>2. places \in SUBSET Nat /\ places # {}
      BY <1>1, <2>8, <3>1
    <3>3. PICK end \in places : \A j \in places : end <= j
      BY <3>2, LeastExists
    <3>4. \A j \in (open + 1)..(end - 1) : j \in (open + 1)..n /\ ~ (end <= j)
      BY <1>1, <3>1, <3>3
    <3> QED
      BY <3>1, <3>3, <3>4
  <2>10. PICK last : /\ last = end - 1 /\ last \in open..n /\ end \in 1..n /\ open < end
                     /\ from <= open
    BY <1>1, <2>1, <2>7, <2>9
  <2>11. Within(readings, last, SubSeq(header, open + 1, last), tags)
    BY <1>1, <2>7, <2>9, <2>10, TextIsRead
  <2>12. Between(readings, end, tags \cup {SubSeq(header, open + 1, last)})
    <3>1. PICK text_, inside, closed :
            /\ text_ = SubSeq(header, open + 1, last)
            /\ inside = readings[last] /\ closed = readings[end]
      OBVIOUS
    <3>2. inside \in Reading /\ Quote \in TagTokens /\ closed = ListStep(inside, Quote)
      BY <1>1, <2>9, <2>10, <3>1, HeaderSteps
    <3>3. inside.at = "tag" /\ inside.text = text_ /\ inside.tags = tags
      BY <2>11, <3>1 DEF Within
    <3>4. closed.at = "after" /\ closed.text = << >> /\ closed.tags = inside.tags \cup {inside.text}
      BY <3>2, <3>3, ListSteps
    <3> QED
      BY <3>1, <3>3, <3>4 DEF Between
  <2>13. NextTag(header, from, open, end)
    BY <1>1, <2>1, <2>7, <2>9 DEF NextTag
  <2> QED
    BY <1>1, <2>10, <2>12, <2>13
<1> QED
  BY <1>4, <1>5

\* A tag is the one asked about if the text between its quotes is.
LEMMA SelfByItsText ==
  ASSUME NEW header \in Seq(TagTokens), NEW open \in 1..Len(header), NEW end \in 1..Len(header),
         open < end, header[open] = Quote, header[end] = Quote
  PROVE  SubSeq(header, open, end) = Self <=> SubSeq(header, open + 1, end - 1) = <<"x">>
<1>1. PICK whole, inner, n :
        /\ whole = SubSeq(header, open, end) /\ inner = SubSeq(header, open + 1, end - 1)
        /\ n = Len(header)
  OBVIOUS
<1>2. n \in Nat /\ \A j \in 1..n : header[j] \in TagTokens
  BY <1>1, LenProperties, ElementOfSeq
<1>3. /\ whole \in Seq(TagTokens) /\ Len(whole) = end - open + 1
      /\ \A i \in 1..(end - open + 1) : whole[i] = header[open + i - 1]
  <2>1. \A j \in open..end : header[j] \in TagTokens
    BY <1>1, <1>2
  <2>2. open \in Int /\ end \in Int
    OBVIOUS
  <2>3. /\ SubSeq(header, open, end) \in Seq(TagTokens)
        /\ Len(SubSeq(header, open, end)) = IF open <= end THEN end - open + 1 ELSE 0
        /\ \A i \in 1..(end - open + 1) : SubSeq(header, open, end)[i] = header[open + i - 1]
    BY <2>1, <2>2, SubSeqProperties
  <2> QED
    BY <1>1, <2>3
<1>4. /\ inner \in Seq(TagTokens) /\ Len(inner) = end - open - 1
      /\ \A i \in 1..(end - open - 1) : inner[i] = header[open + i]
  <2>1. \A j \in (open + 1)..(end - 1) : header[j] \in TagTokens
    BY <1>1, <1>2
  <2>2. PICK a \in Int, b \in Int : a = open + 1 /\ b = end - 1
    OBVIOUS
  <2>3. \A j \in a..b : header[j] \in TagTokens
    BY <2>1, <2>2
  <2>4. /\ SubSeq(header, a, b) \in Seq(TagTokens)
        /\ Len(SubSeq(header, a, b)) = IF a <= b THEN b - a + 1 ELSE 0
        /\ \A i \in 1..(b - a + 1) : SubSeq(header, a, b)[i] = header[a + i - 1]
    BY <2>3, SubSeqProperties
  <2>5. inner = SubSeq(header, a, b)
    BY <1>1, <2>2
  <2>6. /\ b - a + 1 = end - open - 1 /\ (~ (a <= b) => end - open - 1 = 0)
        /\ \A i \in 1..(end - open - 1) : a + i - 1 = open + i
    BY <2>2
  <2> QED
    BY <2>4, <2>5, <2>6
<1>5. Self = <<Quote, "x", Quote>> /\ "x" \in TagTokens /\ Quote \in TagTokens
  BY DEF Self, TagTokens
<1>6. inner = <<"x">> <=> end = open + 2 /\ header[open + 1] = "x"
  <2>1. <<"x">> \in Seq(TagTokens) /\ Len(<<"x">>) = 1 /\ <<"x">>[1] = "x"
    BY <1>5
  <2>2. inner = <<"x">> <=> Len(inner) = 1 /\ \A i \in 1..1 : inner[i] = <<"x">>[i]
    BY <1>4, <2>1, SeqEqual
  <2>3. Len(inner) = 1 <=> end = open + 2
    BY <1>4
  <2>4. end = open + 2 => inner[1] = header[open + 1]
    BY <1>4
  <2> QED
    BY <2>1, <2>2, <2>3, <2>4
<1>7. whole = Self <=> end = open + 2 /\ header[open + 1] = "x"
  <2>1. /\ Self \in Seq(TagTokens) /\ Len(Self) = 3
        /\ Self[1] = Quote /\ Self[2] = "x" /\ Self[3] = Quote
    BY <1>5
  <2>2. whole = Self <=> Len(whole) = 3 /\ \A i \in 1..3 : whole[i] = Self[i]
    BY <1>3, <2>1, SeqEqual
  <2>3. Len(whole) = 3 <=> end = open + 2
    BY <1>3
  <2>4. end = open + 2 => whole[1] = header[open] /\ whole[2] = header[open + 1] /\ whole[3] = header[end]
    <3> SUFFICES ASSUME end = open + 2
                 PROVE  whole[1] = header[open] /\ whole[2] = header[open + 1] /\ whole[3] = header[end]
      OBVIOUS
    <3>1. end - open + 1 = 3 /\ open + 1 - 1 = open /\ open + 2 - 1 = open + 1 /\ open + 3 - 1 = end
      OBVIOUS
    <3>2. \A i \in 1..3 : whole[i] = header[open + i - 1]
      BY <1>3, <3>1
    <3> QED
      BY <3>1, <3>2
  <2>5. (\A i \in 1..3 : whole[i] = Self[i])
          <=> whole[1] = Quote /\ whole[2] = "x" /\ whole[3] = Quote
    BY <2>1
  <2> QED
    BY <2>2, <2>3, <2>4, <2>5
<1> QED
  BY <1>1, <1>6, <1>7

\* Whatever a header matches, it is a star or spells the tag out.
LEMMA MatchesAreSpelt ==
  ASSUME NEW header \in Seq(TagTokens), MatchesIfNoneMatch(header)
  PROVE  IsStar(header) \/ Self \in SubSeqs(header)
<1>1. PICK n : n = Len(header) /\ n \in Nat
  BY LenProperties
<1>2. PICK listed :
        /\ IsStar(header) \/ listed[1]
        /\ \A from \in 1..(n + 1) : listed[from] <=> Listed(listed, header, from)
  BY <1>1, LoopEnds
<1>3. ASSUME NEW open \in 1..n, NEW end \in 1..n, SubSeq(header, open, end) = Self
      PROVE  Self \in SubSeqs(header)
  <2>1. PICK i \in 0..Len(header), j \in 0..Len(header) : i + 1 = open /\ j = end
    <3>1. open - 1 \in 0..n /\ end \in 0..n /\ (open - 1) + 1 = open
      BY <1>1
    <3> QED
      BY <1>1, <3>1
  <2>2. SubSeq(header, i + 1, j) = Self
    BY <1>3, <2>1
  <2>3. SubSeq(header, i + 1, j) \in SubSeqs(header)
    BY DEF SubSeqs
  <2> QED
    BY <2>2, <2>3
<1>4. ASSUME listed[1] PROVE Self \in SubSeqs(header)
  <2> DEFINE True == {from \in 1..(n + 1) : listed[from]}
             Left == {n + 1 - from : from \in True}
  <2>1. PICK d \in Left : \A e \in Left : d <= e
    <3>1. Left \in SUBSET Nat
      BY <1>1
    <3>2. n + 1 - 1 \in Left
      <4>1. 1 \in True
        BY <1>1, <1>4
      <4> QED
        BY <4>1
    <3> HIDE DEF Left
    <3> QED
      BY <3>1, <3>2, LeastExists
  <2>2. PICK from \in 1..(n + 1) : listed[from] /\ d = n + 1 - from
    BY <2>1
  <2>3. \A other \in 1..(n + 1) : listed[other] => other <= from
    <3> TAKE other \in 1..(n + 1)
    <3>1. listed[other] => n + 1 - other \in Left
      OBVIOUS
    <3>2. listed[other] => d <= n + 1 - other
      <4> HIDE DEF Left
      <4> QED
        BY <2>1, <3>1
    <3> QED
      BY <1>1, <2>2, <3>2
  <2>4. PICK open \in 1..n, end \in 1..n :
          /\ NextTag(header, from, open, end)
          /\ SubSeq(header, open, end) = Self \/ listed[end + 1]
    BY <1>1, <1>2, <2>2, ListedIsNext
  <2>5. end + 1 \in 1..(n + 1) /\ ~ (end + 1 <= from)
    BY <1>1, <2>4 DEF NextTag
  <2>6. ~ listed[end + 1]
    BY <2>3, <2>5
  <2> QED
    BY <1>3, <2>4, <2>6
<1> QED
  BY <1>2, <1>4

\* From a place on there is one next tag.
LEMMA NextTagIsOne ==
  ASSUME NEW header \in Seq(TagTokens), NEW from \in 1..(Len(header) + 1),
         NEW open \in 1..Len(header), NEW end \in 1..Len(header),
         NEW o \in 1..Len(header), NEW e \in 1..Len(header),
         NextTag(header, from, open, end), NextTag(header, from, o, e)
  PROVE  o = open /\ e = end
<1>1. PICK n : n = Len(header) /\ n \in Nat
  BY LenProperties
<1>2. PICK start \in from..n :
        /\ \A j \in from..(start - 1) : header[j] \in Skips
        /\ header[start] \notin Skips
        /\ open = IF header[start] = "W/" THEN start + 1 ELSE start
        /\ end \in (open + 1)..n /\ header[end] = Quote
        /\ \A j \in (open + 1)..(end - 1) : header[j] # Quote
  BY <1>1 DEF NextTag
<1>3. PICK s \in from..n :
        /\ \A j \in from..(s - 1) : header[j] \in Skips
        /\ header[s] \notin Skips
        /\ o = IF header[s] = "W/" THEN s + 1 ELSE s
        /\ e \in (o + 1)..n /\ header[e] = Quote
        /\ \A j \in (o + 1)..(e - 1) : header[j] # Quote
  BY <1>1 DEF NextTag
<1>4. s = start
  <2>1. ~ (s < start) /\ ~ (start < s)
    BY <1>1, <1>2, <1>3
  <2> QED
    BY <1>1, <2>1
<1>5. o = open
  BY <1>2, <1>3, <1>4
<1>6. ~ (e < end) /\ ~ (end < e)
  BY <1>1, <1>2, <1>3, <1>5
<1> QED
  BY <1>1, <1>2, <1>3, <1>5, <1>6

\* A list holds quotes, commas and spaces outside its tags, and no star.
LEMMA NoListIsAStar ==
  ASSUME NEW header \in Seq(TagTokens), NEW readings, Follows(readings, header),
         readings[Len(header)].at \in {"element", "after"}
  PROVE  ~ IsStar(header)
<1> SUFFICES ASSUME IsStar(header) PROVE FALSE
  OBVIOUS
<1>1. PICK n : n = Len(header) /\ n \in Nat /\ DOMAIN header = 1..n
  BY LenProperties
<1>2. PICK i \in 1..n : header[i] = "*" /\ \A j \in 1..n \ {i} : header[j] = "space"
  BY <1>1 DEF IsStar
<1>3. PICK from : from = 1 /\ from \in 1..(Len(header) + 1) /\ from - 1 = 0
  BY <1>1
<1>4. Between(readings, from - 1, {})
  BY <1>3 DEF Between, Follows, FirstReading
<1>5. \/ \A j \in from..n : header[j] \in Skips
      \/ \E open, end \in 1..n : NextTag(header, from, open, end)
  BY <1>1, <1>3, <1>4, NextOfAList
<1>6. CASE \A j \in from..n : header[j] \in Skips
  BY <1>2, <1>3, <1>6 DEF Skips
<1>7. CASE \E open, end \in 1..n : NextTag(header, from, open, end)
  <2>1. PICK open \in 1..n : header[open] = Quote
    BY <1>7 DEF NextTag
  <2> QED
    BY <1>2, <2>1 DEF Quote
<1> QED
  BY <1>5, <1>6, <1>7

\* A list names the tag exactly when one of its elements is the tag.
LEMMA ListsName ==
  ASSUME NEW header \in Seq(TagTokens), IsList(header)
  PROVE  MatchesIfNoneMatch(header) <=> <<"x">> \in ListRead(header).tags
<1>1. PICK n : n = Len(header) /\ n \in Nat
  BY LenProperties
<1>2. PICK listed :
        /\ MatchesIfNoneMatch(header) <=> IsStar(header) \/ listed[1]
        /\ \A from \in 1..(n + 1) : listed[from] <=> Listed(listed, header, from)
  BY <1>1, LoopEnds
<1>3. PICK readings : Follows(readings, header) /\ ListRead(header) = readings[n]
  BY <1>1, HeaderIsRead
<1>4. readings[Len(header)].at \in {"element", "after"}
  BY <1>1, <1>3 DEF IsList
<1>5. PICK named : named = readings[n].tags
  OBVIOUS
<1>6. PICK asked : asked = <<"x">>
  OBVIOUS
<1> DEFINE Told(from) ==
             \A tags : Between(readings, from - 1, tags) =>
                         (listed[from] \/ asked \in tags <=> asked \in named)
           Good == {a \in 1..(n + 2) : \A from \in a..(n + 1) : Told(from)}
<1>7. ASSUME NEW from \in 1..(n + 1), \A later \in (from + 1)..(n + 1) : Told(later)
      PROVE  Told(from)
  <2> SUFFICES ASSUME NEW tags, Between(readings, from - 1, tags)
               PROVE  listed[from] \/ asked \in tags <=> asked \in named
    OBVIOUS
  <2>1. listed[from] <=>
          \E open, end \in 1..n :
            /\ NextTag(header, from, open, end)
            /\ SubSeq(header, open, end) = Self \/ listed[end + 1]
    BY <1>1, <1>2, ListedIsNext
  <2>2. \/ (\A j \in from..n : header[j] \in Skips) /\ named = tags
        \/ \E open, end \in 1..n :
             /\ NextTag(header, from, open, end) /\ from <= open /\ open < end
             /\ Between(readings, end, tags \cup {SubSeq(header, open + 1, end - 1)})
    BY <1>1, <1>3, <1>4, <1>5, NextOfAList
  <2>3. CASE (\A j \in from..n : header[j] \in Skips) /\ named = tags
    <3>1. \A open, end \in 1..n : ~ NextTag(header, from, open, end)
      BY <1>1, <2>3 DEF NextTag
    <3> QED
      BY <2>1, <2>3, <3>1
  <2>4. CASE \E open, end \in 1..n :
               /\ NextTag(header, from, open, end) /\ from <= open /\ open < end
               /\ Between(readings, end, tags \cup {SubSeq(header, open + 1, end - 1)})
    <3>1. PICK open \in 1..n, end \in 1..n :
            /\ NextTag(header, from, open, end) /\ from <= open /\ open < end
            /\ Between(readings, end, tags \cup {SubSeq(header, open + 1, end - 1)})
      BY <2>4
    <3>2. PICK text_ : text_ = SubSeq(header, open + 1, end - 1)
      OBVIOUS
    <3>3. listed[from] <=> SubSeq(header, open, end) = Self \/ listed[end + 1]
      <4>1. \A o, e \in 1..n : NextTag(header, from, o, e) => o = open /\ e = end
        BY <1>1, <3>1, NextTagIsOne
      <4> QED
        BY <2>1, <3>1, <4>1
    <3>4. SubSeq(header, open, end) = Self <=> text_ = asked
      <4>1. header[open] = Quote /\ header[end] = Quote
        BY <3>1 DEF NextTag
      <4> QED
        BY <1>1, <1>6, <3>1, <3>2, <4>1, SelfByItsText
    <3>5. listed[end + 1] \/ asked \in tags \cup {text_} <=> asked \in named
      <4>1. PICK later : /\ later = end + 1 /\ later - 1 = end
                         /\ later \in (from + 1)..(n + 1)
        BY <1>1, <3>1
      <4>2. Told(later)
        BY <1>7, <4>1
      <4>3. Between(readings, later - 1, tags \cup {text_})
        BY <3>1, <3>2, <4>1
      <4> QED
        BY <4>1, <4>2, <4>3
    <3> QED
      BY <3>3, <3>4, <3>5
  <2> QED
    BY <2>2, <2>3, <2>4
<1>8. 1 \in Good
  <2>1. n + 2 \in Good
    <3>1. (n + 2)..(n + 1) = {} /\ n + 2 \in 1..(n + 2)
      BY <1>1
    <3> HIDE DEF Told
    <3> QED
      BY <3>1
  <2>2. ASSUME NEW a \in 1..((n + 2) - 1), a + 1 \in Good PROVE a \in Good
    <3>1. a \in 1..(n + 1) /\ a \in 1..(n + 2)
      BY <1>1
    <3>2. \A from \in (a + 1)..(n + 1) : Told(from)
      BY <2>2
    <3>3. Told(a)
      BY <1>7, <3>1, <3>2
    <3> HIDE DEF Told
    <3>4. \A from \in a..(n + 1) : from = a \/ from \in (a + 1)..(n + 1)
      BY <1>1, <3>1
    <3>5. \A from \in a..(n + 1) : Told(from)
      BY <3>2, <3>3, <3>4
    <3> QED
      BY <3>1, <3>5
  <2> HIDE DEF Good
  <2>3. \A a \in 1..((n + 2) - 1) : a + 1 \in Good => a \in Good
    BY <2>2
  <2>4. 1 \in Int /\ n + 2 \in Int /\ 1 \in 1..(n + 2)
    BY <1>1
  <2> QED
    BY <2>1, <2>3, <2>4, DownwardsFrom
<1>9. Told(1)
  <2>1. 1 \in 1..(n + 1)
    BY <1>1
  <2> HIDE DEF Told
  <2> QED
    BY <1>8, <2>1
<1>10. Between(readings, 1 - 1, {})
  <2>1. 1 - 1 = 0
    OBVIOUS
  <2> QED
    BY <1>3, <2>1 DEF Between, Follows, FirstReading
<1>11. listed[1] <=> asked \in named
  BY <1>9, <1>10
<1>12. ~ IsStar(header)
  BY <1>3, <1>4, NoListIsAStar
<1> QED
  BY <1>2, <1>3, <1>5, <1>6, <1>11, <1>12

\* Whatever a client sends to revalidate, and however long the list is: a list names
\* the tag exactly when one of its elements is the tag, weak or strong, `*` names every
\* tag, and anything else names it only where it spells the tag out (ETag::matches_if_none_match).
THEOREM RevalidationLists == ReadersSpec => []ListsNameTheirTags
<1>1. TextInv => ListsNameTheirTags
  <2> SUFFICES ASSUME TextInv, reader = "if-none-match" PROVE ListsNameTheirTags
    BY DEF ListsNameTheirTags
  <2>1. text \in Seq(TagTokens)
    BY DEF TextInv
  <2>2. IsList(text) => (MatchesIfNoneMatch(text) <=> <<"x">> \in ListRead(text).tags)
    BY <2>1, ListsName
  <2>3. MatchesIfNoneMatch(text) => IsStar(text) \/ Self \in SubSeqs(text)
    BY <2>1, MatchesAreSpelt
  <2>4. IsStar(text) => MatchesIfNoneMatch(text)
    BY DEF MatchesIfNoneMatch
  <2> QED
    BY <2>2, <2>3, <2>4 DEF ListsNameTheirTags
<1> QED
  BY <1>1, TextInvariant, PTL
------------------------------------------------------------------------------
(***************************************************************************)
(* Sentence templates.  The code searches for an opening brace and for the *)
(* next closing one; where its segments end is followed from the last to   *)
(* the first, and what is written of them from the first to the last.      *)
(***************************************************************************)
\* What is found is the first one, if there is one.
LEMMA FindsFirst ==
  ASSUME NEW template \in Seq(TemplateTokens), NEW wanted,
         NEW from \in 1..(Len(template) + 1), NEW found, found = Find(template, wanted, from)
  PROVE  \/ found = 0 /\ \A j \in from..Len(template) : template[j] # wanted
         \/ /\ found \in from..Len(template) /\ template[found] = wanted
            /\ \A j \in from..(found - 1) : template[j] # wanted
<1>1. PICK n : n = Len(template) /\ n \in Nat
  BY LenProperties
<1>2. PICK places : places = {i \in from..n : template[i] = wanted}
  OBVIOUS
<1>3. found = IF places # {} THEN Min(places) ELSE 0
  BY <1>1, <1>2 DEF Find, SelectInSubSeq
<1>4. places \in SUBSET Nat /\ 0 \notin places
  BY <1>1, <1>2
<1>5. /\ found = 0 <=> places = {}
      /\ places # {} => found \in places /\ \A i \in places : found <= i
  BY <1>3, <1>4, LeastOrNone
<1>6. CASE places = {}
  BY <1>1, <1>2, <1>5, <1>6
<1>7. CASE places # {}
  <2>1. found \in from..n /\ template[found] = wanted /\ \A i \in places : found <= i
    BY <1>2, <1>5, <1>7
  <2>2. ASSUME NEW j \in from..(found - 1) PROVE template[j] # wanted
    <3>1. j \in from..n /\ ~ (found <= j)
      BY <1>1, <2>1
    <3> QED
      BY <1>2, <2>1, <3>1
  <2> QED
    BY <1>1, <2>1, <2>2
<1> QED
  BY <1>6, <1>7

\* One round of the loop, with what the later ones make of the rest.
Round(later, template, at, from) ==
  LET open  == Find(template, "lbrace", at)
      close == Find(template, "rbrace", open + 1)
      name  == SubSeq(template, open + 1, close - 1)
  IN  IF open = 0
      THEN TextIfAny(SubSeq(template, from, Len(template)))
      ELSE IF close # 0 /\ IsSlotName(name)
           THEN TextIfAny(SubSeq(template, from, open - 1))
                  \o <<Slot(name)>> \o later[close + 1][close + 1]
           ELSE later[Resume(open, close)][from]

LEMMA RoundsLookAhead ==
  ASSUME NEW template \in Seq(TemplateTokens), NEW at \in 1..(Len(template) + 1),
         NEW g, NEW h, \A k \in (at + 1)..(Len(template) + 1) : g[k] = h[k]
  PROVE  \A from \in 1..at : Round(g, template, at, from) = Round(h, template, at, from)
<1>1. PICK n : n = Len(template) /\ n \in Nat
  BY LenProperties
<1>2. PICK open, close :
        open = Find(template, "lbrace", at) /\ close = Find(template, "rbrace", open + 1)
  OBVIOUS
<1>3. open = 0 \/ open \in at..n
  BY <1>1, <1>2, FindsFirst
<1>4. ASSUME open \in at..n, close # 0 PROVE g[close + 1] = h[close + 1]
  <2>1. PICK next : next = open + 1 /\ next \in 1..(n + 1)
    BY <1>1, <1>4
  <2>2. close \in next..n
    BY <1>1, <1>2, <1>4, <2>1, FindsFirst
  <2>3. close + 1 \in (at + 1)..(n + 1)
    BY <1>1, <1>4, <2>1, <2>2
  <2> QED
    BY <1>1, <2>3
<1>5. ASSUME open \in at..n PROVE g[open + 1] = h[open + 1]
  BY <1>1, <1>5
<1> QED
  BY <1>2, <1>3, <1>4, <1>5 DEF Round, Resume

\* The loop ends: what it makes of the template is well defined.
LEMMA RoundsEnd ==
  ASSUME NEW template \in Seq(TemplateTokens)
  PROVE  \E split :
           /\ SplitTemplate(template) = split[1][1]
           /\ \A at \in 1..(Len(template) + 1) : \A from \in 1..at :
                split[at][from] = Round(split, template, at, from)
<1>1. PICK n : n = Len(template) /\ n \in Nat
  BY LenProperties
<1> DEFINE Answers(s, a) ==
             s = [at \in a..(n + 1) |-> [from \in 1..at |-> Round(s, template, at, from)]]
           Answered == {a \in 1..(n + 2) : \E s : Answers(s, a)}
           split == CHOOSE s : s = [at \in 1..(Len(template) + 1) |->
                                      [from \in 1..at |-> Round(s, template, at, from)]]
<1>2. n + 2 \in Answered
  <2>1. (n + 2)..(n + 1) = {} /\ n + 2 \in 1..(n + 2)
    BY <1>1
  <2>2. Answers([at \in {} |-> FALSE], n + 2)
    BY <2>1
  <2> HIDE DEF Answers
  <2> QED
    BY <2>1, <2>2
<1>3. ASSUME NEW a \in 1..(n + 1), a + 1 \in Answered PROVE a \in Answered
  <2>1. PICK g : g = [at \in (a + 1)..(n + 1) |-> [from \in 1..at |-> Round(g, template, at, from)]]
    BY <1>3
  <2>2. PICK h : h = [at \in a..(n + 1) |-> [from \in 1..at |-> Round(g, template, at, from)]]
    OBVIOUS
  <2>3. \A k \in (a + 1)..(n + 1) : g[k] = h[k]
    <3>1. \A k \in (a + 1)..(n + 1) : k \in a..(n + 1)
      BY <1>1
    <3>2. \A k \in (a + 1)..(n + 1) : g[k] = [from \in 1..k |-> Round(g, template, k, from)]
      BY <2>1
    <3> QED
      BY <2>2, <3>1, <3>2
  <2>4. ASSUME NEW at \in a..(n + 1)
        PROVE  \A from \in 1..at : Round(g, template, at, from) = Round(h, template, at, from)
    <3>1. at \in 1..(n + 1) /\ \A k \in (at + 1)..(n + 1) : k \in (a + 1)..(n + 1)
      BY <1>1
    <3> QED
      BY <1>1, <2>3, <3>1, RoundsLookAhead
  <2>5. h = [at \in a..(n + 1) |-> [from \in 1..at |-> Round(h, template, at, from)]]
    <3>1. \A at \in a..(n + 1) : [from \in 1..at |-> Round(g, template, at, from)]
                                   = [from \in 1..at |-> Round(h, template, at, from)]
      BY <2>4
    <3> QED
      BY <2>2, <3>1
  <2>6. Answers(h, a)
    BY <2>5
  <2>7. a \in 1..(n + 2)
    BY <1>1
  <2> HIDE DEF Answers
  <2> QED
    BY <2>6, <2>7
<1>4. 1 \in Answered
  <2>1. \A a \in 1..((n + 2) - 1) : a \in 1..(n + 1)
    BY <1>1
  <2> HIDE DEF Answered
  <2>2. \A a \in 1..((n + 2) - 1) : a + 1 \in Answered => a \in Answered
    BY <1>3, <2>1
  <2>3. 1 \in Int /\ n + 2 \in Int /\ 1 \in 1..(n + 2)
    BY <1>1
  <2> QED
    BY <1>2, <2>2, <2>3, DownwardsFrom
<1>5. split = [at \in 1..(Len(template) + 1) |->
                [from \in 1..at |-> Round(split, template, at, from)]]
  <2>1. \E s : s = [at \in 1..(Len(template) + 1) |->
                     [from \in 1..at |-> Round(s, template, at, from)]]
    BY <1>1, <1>4
  <2> QED
    BY <2>1, Zenon
<1>6. SplitTemplate(template) = split[1][1]
  BY Zenon DEF SplitTemplate, Round
<1> HIDE DEF split
<1>7. \A at \in 1..(n + 1) : split[at] = [from \in 1..at |-> Round(split, template, at, from)]
  BY <1>1, <1>5
<1>8. \A at \in 1..(n + 1) : \A from \in 1..at :
        split[at][from] = Round(split, template, at, from)
  BY <1>7
<1> QED
  BY <1>1, <1>6, <1>8

\* What a part of a template is split into: text as it is, or a placeholder.
Segments == [segment : {"text", "slot", "link"}, text : Seq(TemplateTokens)]

PartOf(template, part, from, to) ==
  \/ part = TextSegment(SubSeq(template, from, to))
  \/ /\ <<from, to>> \in Placeholders(template)
     /\ part = Slot(SubSeq(template, from + 1, to - 1))

LEMMA TextIsSegments ==
  ASSUME NEW text_ \in Seq(TemplateTokens)
  PROVE  TextIfAny(text_) \in Seq(Segments)
<1>1. PICK part : part = TextSegment(text_)
  OBVIOUS
<1>2. part \in Segments
  BY <1>1 DEF TextSegment, Segments
<1>3. TextIfAny(text_) = << >> \/ TextIfAny(text_) = <<part>>
  BY <1>1 DEF TextIfAny
<1>4. << >> \in Seq(Segments) /\ <<part>> \in Seq(Segments)
  BY <1>2
<1> QED
  BY <1>3, <1>4

\* The segments of a template from a place on, and where each of them ends.
Ends(template, parts, from, ends) ==
  /\ parts \in Seq(Segments)
  /\ ends \in [0..Len(parts) -> 0..Len(template)]
  /\ ends[0] = from - 1 /\ ends[Len(parts)] = Len(template)
  /\ \A i \in 1..Len(parts) :
       ends[i - 1] < ends[i] /\ PartOf(template, parts[i], ends[i - 1] + 1, ends[i])
  /\ \A place \in Placeholders(template) :
       place[1] >= from =>
         \E i \in 1..Len(parts) :
           parts[i].segment = "slot" /\ place = <<ends[i - 1] + 1, ends[i]>>

SplitFrom(template, parts, from) == \E ends : Ends(template, parts, from, ends)

LEMMA PartIsSegment ==
  ASSUME NEW template \in Seq(TemplateTokens),
         NEW from \in 1..Len(template), NEW to \in 1..Len(template), NEW part,
         PartOf(template, part, from, to)
  PROVE  part \in Segments
<1>1. PICK n : n = Len(template) /\ n \in Nat /\ \A i \in 1..n : template[i] \in TemplateTokens
  BY LenProperties, ElementOfSeq
<1>2. \A a, b \in 1..n : SubSeq(template, a, b) \in Seq(TemplateTokens)
  <2> TAKE a, b \in 1..n
  <2>1. a \in Int /\ b \in Int /\ \A i \in a..b : template[i] \in TemplateTokens
    BY <1>1
  <2> QED
    BY <2>1, SubSeqProperties
<1>3. CASE part = TextSegment(SubSeq(template, from, to))
  BY <1>1, <1>2, <1>3 DEF TextSegment, Segments
<1>4. CASE <<from, to>> \in Placeholders(template) /\ part = Slot(SubSeq(template, from + 1, to - 1))
  <2>1. from + 1 < to
    BY <1>4 DEF Placeholders
  <2>2. from + 1 \in 1..n /\ to - 1 \in 1..n
    BY <1>1, <2>1
  <2>3. SubSeq(template, from + 1, to - 1) \in Seq(TemplateTokens)
    BY <1>2, <2>2
  <2> QED
    BY <1>4, <2>3 DEF Slot, Segments
<1> QED
  BY <1>3, <1>4 DEF PartOf

\* One more segment in front, which takes up the placeholders before the others.
LEMMA OneMorePart ==
  ASSUME NEW template \in Seq(TemplateTokens),
         NEW from \in 1..Len(template), NEW to \in from..Len(template),
         NEW parts, SplitFrom(template, parts, to + 1),
         NEW part, PartOf(template, part, from, to),
         \A place \in Placeholders(template) :
           place[1] \in from..to => place = <<from, to>> /\ part.segment = "slot"
  PROVE  SplitFrom(template, <<part>> \o parts, from)
<1>1. PICK n : n = Len(template) /\ n \in Nat
  BY LenProperties
<1>2. PICK ends : Ends(template, parts, to + 1, ends)
  BY DEF SplitFrom
<1>3. PICK m : m = Len(parts) /\ m \in Nat
  BY <1>2, LenProperties DEF Ends
<1>4. part \in Segments /\ <<part>> \in Seq(Segments) /\ Len(<<part>>) = 1
  BY <1>1, PartIsSegment
<1>5. PICK more : more = <<part>> \o parts
  OBVIOUS
<1>6. /\ more \in Seq(Segments) /\ Len(more) = m + 1 /\ more[1] = part
      /\ \A i \in 1..m : more[i + 1] = parts[i]
  <2>1. parts \in Seq(Segments)
    BY <1>2 DEF Ends
  <2>2. /\ more \in Seq(Segments) /\ Len(more) = 1 + m
        /\ \A i \in 1..(1 + m) : more[i] = IF i <= 1 THEN <<part>>[i] ELSE parts[i - 1]
    BY <1>3, <1>4, <1>5, <2>1, ConcatProperties
  <2>3. 1 \in 1..(1 + m) /\ \A i \in 1..m : i + 1 \in 1..(1 + m) /\ ~ (i + 1 <= 1) /\ i + 1 - 1 = i
    BY <1>3
  <2>4. more[1] = part
    BY <2>2, <2>3
  <2>5. \A i \in 1..m : more[i + 1] = parts[i]
    BY <2>2, <2>3
  <2> QED
    BY <1>3, <2>2, <2>4, <2>5
<1>7. PICK stops : stops = [i \in 0..(m + 1) |-> IF i = 0 THEN from - 1 ELSE ends[i - 1]]
  OBVIOUS
<1>8. /\ ends \in [0..m -> 0..n] /\ ends[0] = to /\ ends[m] = n
      /\ \A i \in 1..m :
           ends[i - 1] < ends[i] /\ PartOf(template, parts[i], ends[i - 1] + 1, ends[i])
      /\ \A place \in Placeholders(template) :
           place[1] >= to + 1 =>
             \E i \in 1..m :
               parts[i].segment = "slot" /\ place = <<ends[i - 1] + 1, ends[i]>>
  BY <1>1, <1>2, <1>3 DEF Ends
<1>9. /\ stops[0] = from - 1 /\ stops[1] = to /\ stops[m + 1] = n
      /\ \A i \in 0..m : stops[i + 1] = ends[i]
      /\ \A i \in 1..m : stops[i] = ends[i - 1]
  <2>1. \A i \in 0..m : i + 1 \in 0..(m + 1) /\ i + 1 # 0 /\ i + 1 - 1 = i
    BY <1>3
  <2>2. \A i \in 0..m : stops[i + 1] = ends[i]
    BY <1>7, <2>1
  <2>3. \A i \in 1..m : i \in 0..(m + 1) /\ i # 0
    BY <1>3
  <2>4. \A i \in 1..m : stops[i] = ends[i - 1]
    BY <1>7, <2>3
  <2>5. stops[0] = from - 1
    BY <1>3, <1>7
  <2>6. stops[1] = to /\ stops[m + 1] = n
    BY <1>3, <1>8, <2>2
  <2> QED
    BY <2>2, <2>4, <2>5, <2>6
<1>10. stops \in [0..(m + 1) -> 0..n]
  <2>1. ASSUME NEW i \in 0..(m + 1) PROVE stops[i] \in 0..n
    <3>1. CASE i = 0
      BY <1>1, <1>9, <3>1
    <3>2. CASE i # 0
      <4>1. PICK k \in 0..m : i = k + 1
        BY <1>3, <3>2, i - 1 \in 0..m
      <4> QED
        BY <1>8, <1>9, <4>1
    <3> QED
      BY <3>1, <3>2
  <2>2. stops = [i \in 0..(m + 1) |-> stops[i]]
    BY <1>7
  <2> QED
    BY <2>1, <2>2
<1>11. ASSUME NEW i \in 1..(m + 1)
       PROVE  stops[i - 1] < stops[i] /\ PartOf(template, more[i], stops[i - 1] + 1, stops[i])
  <2>1. CASE i = 1
    <3>1. i - 1 = 0 /\ from - 1 + 1 = from /\ from - 1 < to
      BY <1>1, <2>1
    <3> QED
      BY <1>6, <1>9, <2>1, <3>1
  <2>2. CASE i # 1
    <3>1. PICK k \in 1..m : i = k + 1 /\ i - 1 = k
      BY <1>3, <2>2, i - 1 \in 1..m
    <3>2. stops[i - 1] = ends[k - 1] /\ stops[i] = ends[k] /\ more[i] = parts[k]
      <4>1. k \in 0..m
        BY <1>3
      <4> QED
        BY <1>6, <1>9, <3>1, <4>1
    <3> QED
      BY <1>8, <3>1, <3>2
  <2> QED
    BY <2>1, <2>2
<1>12. ASSUME NEW place \in Placeholders(template), place[1] >= from
       PROVE  \E i \in 1..(m + 1) :
                more[i].segment = "slot" /\ place = <<stops[i - 1] + 1, stops[i]>>
  <2>1. place[1] \in 1..n
    BY <1>1 DEF Placeholders
  <2>2. CASE place[1] \in from..to
    <3>1. place = <<from, to>> /\ part.segment = "slot"
      BY <2>2
    <3>2. 1 \in 1..(m + 1) /\ 1 - 1 = 0 /\ from - 1 + 1 = from
      BY <1>1, <1>3
    <3>3. more[1].segment = "slot" /\ place = <<stops[1 - 1] + 1, stops[1]>>
      BY <1>6, <1>9, <3>1, <3>2
    <3> QED
      BY <3>2, <3>3
  <2>3. CASE place[1] \notin from..to
    <3>1. place[1] >= to + 1
      BY <1>1, <1>12, <2>1, <2>3
    <3>2. PICK k \in 1..m : parts[k].segment = "slot" /\ place = <<ends[k - 1] + 1, ends[k]>>
      BY <1>8, <3>1
    <3>3. PICK i : i = k + 1 /\ i \in 1..(m + 1) /\ i - 1 = k /\ k \in 0..m
      BY <1>3
    <3>4. stops[i - 1] = ends[k - 1] /\ stops[i] = ends[k] /\ more[i] = parts[k]
      BY <1>6, <1>9, <3>3
    <3> QED
      BY <3>2, <3>3, <3>4
  <2> QED
    BY <2>2, <2>3
<1>13. Ends(template, more, from, stops)
  BY <1>1, <1>6, <1>9, <1>10, <1>11, <1>12 DEF Ends
<1> QED
  BY <1>5, <1>13 DEF SplitFrom

\* The text that stands before, if there is any, and holds no placeholder.
LEMMA TextBefore ==
  ASSUME NEW template \in Seq(TemplateTokens),
         NEW from \in 1..(Len(template) + 1), NEW to \in (from - 1)..Len(template),
         NEW parts, SplitFrom(template, parts, to + 1),
         \A place \in Placeholders(template) : place[1] \notin from..to
  PROVE  SplitFrom(template, TextIfAny(SubSeq(template, from, to)) \o parts, from)
<1>1. PICK n : n = Len(template) /\ n \in Nat /\ \A i \in 1..n : template[i] \in TemplateTokens
  BY LenProperties, ElementOfSeq
<1>2. PICK text_ : text_ = SubSeq(template, from, to)
  OBVIOUS
<1>3. CASE to < from
  <2>1. text_ = << >>
    BY <1>1, <1>2, <1>3, SubSeqEmpty
  <2>2. parts \in Seq(Segments)
    BY DEF SplitFrom, Ends
  <2>3. TextIfAny(text_) \o parts = parts
    BY <2>1, <2>2, ConcatEmptySeq DEF TextIfAny
  <2>4. to + 1 = from
    BY <1>1, <1>3
  <2> QED
    BY <1>2, <2>3, <2>4
<1>4. CASE from <= to
  <2>1. from \in 1..Len(template) /\ to \in from..Len(template)
    BY <1>1, <1>4
  <2>2. text_ # << >>
    <3>1. from \in Int /\ to \in Int /\ \A i \in from..to : template[i] \in TemplateTokens
      BY <1>1, <2>1
    <3>2. Len(SubSeq(template, from, to)) = IF from <= to THEN to - from + 1 ELSE 0
      BY <3>1, SubSeqProperties
    <3>3. Len(text_) # 0
      BY <1>1, <1>2, <1>4, <3>2
    <3> QED
      BY <3>3, EmptySeq
  <2>3. TextIfAny(text_) = <<TextSegment(text_)>>
    BY <2>2 DEF TextIfAny
  <2>4. PartOf(template, TextSegment(text_), from, to)
    BY <1>2 DEF PartOf
  <2>5. SplitFrom(template, <<TextSegment(text_)>> \o parts, from)
    BY <2>1, <2>4, OneMorePart
  <2> QED
    BY <1>2, <2>3, <2>5
<1> QED
  BY <1>1, <1>3, <1>4

\* Nothing is left of a template behind its end.
LEMMA NothingLeft ==
  ASSUME NEW template \in Seq(TemplateTokens)
  PROVE  SplitFrom(template, << >>, Len(template) + 1)
<1>1. PICK n : n = Len(template) /\ n \in Nat
  BY LenProperties
<1>2. << >> \in Seq(Segments) /\ Len(<< >>) = 0
  BY EmptySeq
<1>3. PICK ends : ends = [i \in 0..0 |-> n]
  OBVIOUS
<1>4. ends \in [0..0 -> 0..n] /\ ends[0] = n /\ n + 1 - 1 = n
  BY <1>1, <1>3
<1>5. \A place \in Placeholders(template) : ~ (place[1] >= n + 1)
  <2>1. \A place \in Placeholders(template) : place[1] \in 1..n
    BY <1>1 DEF Placeholders
  <2> QED
    BY <1>1, <2>1
<1>6. Ends(template, << >>, n + 1, ends)
  BY <1>1, <1>2, <1>4, <1>5 DEF Ends
<1> QED
  BY <1>1, <1>6 DEF SplitFrom

\* Between a brace and the next closing one stands a name, or no placeholder begins.
LEMMA NamesAndPlaceholders ==
  ASSUME NEW template \in Seq(TemplateTokens), NEW open \in 1..Len(template),
         template[open] = "lbrace", NEW close \in (open + 1)..Len(template), template[close] = "rbrace",
         \A j \in (open + 1)..(close - 1) : template[j] # "rbrace"
  PROVE  /\ IsSlotName(SubSeq(template, open + 1, close - 1))
              <=> <<open, close>> \in Placeholders(template)
         /\ \A place \in Placeholders(template) : place[1] = open => place = <<open, close>>
         /\ <<open, close>> \in Placeholders(template) =>
              \A place \in Placeholders(template) :
                place[1] \in open..close => place = <<open, close>>
<1>1. PICK n : n = Len(template) /\ n \in Nat /\ \A i \in 1..n : template[i] \in TemplateTokens
  BY LenProperties, ElementOfSeq
<1>2. PICK name : name = SubSeq(template, open + 1, close - 1)
  OBVIOUS
<1>3. \A place \in Placeholders(template) :
        /\ place[1] \in 1..n /\ place[2] \in 1..n /\ place = <<place[1], place[2]>>
        /\ place[1] + 1 < place[2]
        /\ template[place[1]] = "lbrace" /\ template[place[2]] = "rbrace"
        /\ \A k \in (place[1] + 1)..(place[2] - 1) : template[k] \in SlugTokens
  BY <1>1 DEF Placeholders
<1>4. <<open, close>> \in Placeholders(template) <=>
        open + 1 < close /\ \A k \in (open + 1)..(close - 1) : template[k] \in SlugTokens
  <2>1. close \in 1..n
    BY <1>1
  <2> QED
    BY <1>1, <2>1 DEF Placeholders
<1>5. IsSlotName(name) <=>
        open + 1 < close /\ \A k \in (open + 1)..(close - 1) : template[k] \in SlugTokens
  <2>1. PICK a \in Int, b \in Int : a = open + 1 /\ b = close - 1
    BY <1>1
  <2>2. \A i \in a..b : template[i] \in TemplateTokens
    BY <1>1, <2>1
  <2>3. /\ SubSeq(template, a, b) \in Seq(TemplateTokens)
        /\ Len(SubSeq(template, a, b)) = IF a <= b THEN b - a + 1 ELSE 0
        /\ \A i \in 1..(b - a + 1) : SubSeq(template, a, b)[i] = template[a + i - 1]
    BY <2>2, SubSeqProperties
  <2>4. PICK size : size = b - a + 1 /\ size \in Nat /\ (~ (a <= b) => size = 0)
    BY <1>1, <2>1
  <2>5. name \in Seq(TemplateTokens) /\ Len(name) = size
        /\ \A i \in 1..size : name[i] = template[a + i - 1]
    BY <1>2, <2>1, <2>3, <2>4
  <2>6. name # << >> <=> open + 1 < close
    <3>1. name # << >> <=> size # 0
      BY <2>5, EmptySeq
    <3>2. size # 0 <=> open + 1 < close
      BY <1>1, <2>1, <2>4
    <3> QED
      BY <3>1, <3>2
  <2>7. ToSet(name) \subseteq SlugTokens <=> \A i \in 1..size : name[i] \in SlugTokens
    <3>1. DOMAIN name = 1..size
      BY <2>5, LenProperties
    <3> QED
      BY <3>1 DEF ToSet
  <2>8. (\A i \in 1..size : name[i] \in SlugTokens)
          <=> \A k \in a..b : template[k] \in SlugTokens
    <3>1. ASSUME \A i \in 1..size : name[i] \in SlugTokens, NEW k \in a..b
          PROVE  template[k] \in SlugTokens
      <4>1. PICK i : i = k - a + 1 /\ i \in 1..size /\ a + i - 1 = k
        BY <2>1, <2>4
      <4> QED
        BY <2>5, <3>1, <4>1
    <3>2. ASSUME \A k \in a..b : template[k] \in SlugTokens, NEW i \in 1..size
          PROVE  name[i] \in SlugTokens
      <4>1. a + i - 1 \in a..b
        BY <2>1, <2>4
      <4> QED
        BY <2>5, <3>2, <4>1
    <3> QED
      BY <3>1, <3>2
  <2> QED
    BY <2>1, <2>6, <2>7, <2>8 DEF IsSlotName
<1>6. ASSUME NEW place \in Placeholders(template), place[1] = open PROVE place = <<open, close>>
  <2>1. PICK end : end = place[2] /\ end \in 1..n /\ open + 1 < end /\ template[end] = "rbrace"
                   /\ place = <<open, end>>
                   /\ \A k \in (open + 1)..(end - 1) : template[k] \in SlugTokens
    BY <1>3, <1>6
  <2>2. ~ (end < close)
    <3>1. end < close => end \in (open + 1)..(close - 1)
      BY <1>1, <2>1
    <3> QED
      BY <2>1, <3>1
  <2>3. ~ (close < end)
    <3>1. close < end => close \in (open + 1)..(end - 1)
      BY <1>1, <2>1
    <3>2. "rbrace" \notin SlugTokens
      BY DEF SlugTokens, SlugStarts
    <3> QED
      BY <2>1, <3>1, <3>2
  <2> QED
    BY <1>1, <2>1, <2>2, <2>3
<1>7. ASSUME <<open, close>> \in Placeholders(template),
             NEW place \in Placeholders(template), place[1] \in open..close
      PROVE  place = <<open, close>>
  <2>1. "lbrace" \notin SlugTokens \cup {"rbrace"}
    BY DEF SlugTokens, SlugStarts
  <2>2. place[1] = open \/ place[1] = close \/ place[1] \in (open + 1)..(close - 1)
    BY <1>1, <1>7
  <2>3. place[1] = open
    BY <1>3, <1>4, <1>7, <2>1, <2>2
  <2> QED
    BY <1>6, <2>3
<1> QED
  BY <1>2, <1>4, <1>5, <1>6, <1>7

\* No placeholder without a brace that closes it.
LEMMA NoneUnclosed ==
  ASSUME NEW template \in Seq(TemplateTokens), NEW place \in Placeholders(template)
  PROVE  /\ place[1] \in 1..Len(template) /\ template[place[1]] = "lbrace"
         /\ \E j \in (place[1] + 1)..Len(template) : template[j] = "rbrace"
<1>1. PICK n : n = Len(template) /\ n \in Nat
  BY LenProperties
<1>2. PICK from, to : /\ from = place[1] /\ to = place[2] /\ from \in 1..n /\ to \in 1..n
                      /\ from + 1 < to /\ template[from] = "lbrace" /\ template[to] = "rbrace"
  BY <1>1 DEF Placeholders
<1>3. to \in (from + 1)..n
  BY <1>1, <1>2
<1> QED
  BY <1>1, <1>2, <1>3

\* split_template finds every placeholder, and nothing is lost around them.
LEMMA SplitIsRight ==
  ASSUME NEW template \in Seq(TemplateTokens)
  PROVE  SplitFrom(template, SplitTemplate(template), 1)
<1>1. PICK n : n = Len(template) /\ n \in Nat
  BY LenProperties
<1>2. PICK split :
        /\ SplitTemplate(template) = split[1][1]
        /\ \A at \in 1..(n + 1) : \A from \in 1..at :
             split[at][from] = Round(split, template, at, from)
  BY <1>1, RoundsEnd
<1> DEFINE Splits(at) ==
             \A from \in 1..at :
               (\A place \in Placeholders(template) : place[1] \notin from..(at - 1))
                 => SplitFrom(template, split[at][from], from)
           Good == {a \in 1..(n + 2) : \A at \in a..(n + 1) : Splits(at)}
<1>3. ASSUME NEW at \in 1..(n + 1), \A later \in (at + 1)..(n + 1) : Splits(later)
      PROVE  Splits(at)
  <2> SUFFICES ASSUME NEW from \in 1..at,
                      \A place \in Placeholders(template) : place[1] \notin from..(at - 1)
               PROVE  SplitFrom(template, split[at][from], from)
    OBVIOUS
  <2>1. PICK open, close :
          open = Find(template, "lbrace", at) /\ close = Find(template, "rbrace", open + 1)
    OBVIOUS
  <2>2. PICK parts : parts = split[at][from]
    OBVIOUS
  <2>3. parts = IF open = 0
                THEN TextIfAny(SubSeq(template, from, n))
                ELSE IF close # 0 /\ IsSlotName(SubSeq(template, open + 1, close - 1))
                     THEN TextIfAny(SubSeq(template, from, open - 1))
                            \o <<Slot(SubSeq(template, open + 1, close - 1))>>
                            \o split[close + 1][close + 1]
                     ELSE split[open + 1][from]
    BY <1>1, <1>2, <2>1, <2>2 DEF Round, Resume
  <2>4. \/ open = 0 /\ \A j \in at..n : template[j] # "lbrace"
        \/ /\ open \in at..n /\ template[open] = "lbrace"
           /\ \A j \in at..(open - 1) : template[j] # "lbrace"
    BY <1>1, <2>1, FindsFirst
  <2>5. \A place \in Placeholders(template) :
          place[1] \in 1..n /\ template[place[1]] = "lbrace" /\ place[1] \notin from..(at - 1)
    BY <1>1, NoneUnclosed
  <2>6. CASE open = 0
    <3>1. \A j \in at..n : template[j] # "lbrace"
      BY <1>1, <2>4, <2>6
    <3>2. \A place \in Placeholders(template) : place[1] \notin from..n
      BY <1>1, <2>5, <3>1
    <3>3. /\ from \in 1..(Len(template) + 1) /\ n \in (from - 1)..Len(template)
          /\ SplitFrom(template, << >>, n + 1)
      BY <1>1, NothingLeft
    <3>4. SplitFrom(template, TextIfAny(SubSeq(template, from, n)) \o << >>, from)
      BY <3>2, <3>3, TextBefore
    <3>5. TextIfAny(SubSeq(template, from, n)) \in Seq(Segments)
      <4>1. PICK text_ : text_ = SubSeq(template, from, n)
        OBVIOUS
      <4>2. text_ \in Seq(TemplateTokens)
        <5>1. from \in Int /\ n \in Int /\ \A i \in from..n : template[i] \in TemplateTokens
          BY <1>1, ElementOfSeq
        <5> QED
          BY <4>1, <5>1, SubSeqProperties
      <4> QED
        BY <4>1, <4>2, TextIsSegments
    <3> QED
      BY <2>2, <2>3, <2>6, <3>4, <3>5, ConcatEmptySeq
  <2>7. CASE open # 0
    <3>1. open \in at..n /\ template[open] = "lbrace" /\ \A j \in at..(open - 1) : template[j] # "lbrace"
      BY <2>4, <2>7
    <3>2. open \in 1..n /\ open + 1 \in 1..(n + 1) /\ open + 1 \in (at + 1)..(n + 1)
      BY <1>1, <3>1
    <3>3. \/ close = 0 /\ \A j \in (open + 1)..n : template[j] # "rbrace"
          \/ /\ close \in (open + 1)..n /\ template[close] = "rbrace"
             /\ \A j \in (open + 1)..(close - 1) : template[j] # "rbrace"
      <4>1. PICK next : next = open + 1 /\ next \in 1..(n + 1)
        BY <3>2
      <4>2. close = Find(template, "rbrace", next)
        BY <2>1, <4>1
      <4>3. \/ close = 0 /\ \A j \in next..n : template[j] # "rbrace"
            \/ /\ close \in next..n /\ template[close] = "rbrace"
               /\ \A j \in next..(close - 1) : template[j] # "rbrace"
        BY <1>1, <4>1, <4>2, FindsFirst
      <4> QED
        BY <4>1, <4>3
    <3>4. \A place \in Placeholders(template) : place[1] \notin from..(open - 1)
      BY <1>1, <2>5, <3>1
    <3>5. CASE close # 0 /\ IsSlotName(SubSeq(template, open + 1, close - 1))
      <4>1. /\ close \in (open + 1)..n /\ template[close] = "rbrace"
            /\ \A j \in (open + 1)..(close - 1) : template[j] # "rbrace"
        BY <3>3, <3>5
      <4>2. PICK slot, rest, text_ :
              /\ slot = Slot(SubSeq(template, open + 1, close - 1))
              /\ rest = split[close + 1][close + 1]
              /\ text_ = TextIfAny(SubSeq(template, from, open - 1))
        OBVIOUS
      <4>3. SplitFrom(template, rest, close + 1)
        <5>1. PICK later : /\ later = close + 1 /\ later \in (at + 1)..(n + 1)
                           /\ later \in 1..later /\ later..(later - 1) = {}
          BY <1>1, <3>1, <4>1
        <5>2. Splits(later)
          BY <1>3, <5>1
        <5>3. SplitFrom(template, split[later][later], later)
          BY <5>1, <5>2
        <5> QED
          BY <4>2, <5>1, <5>3
      <4>4. /\ <<open, close>> \in Placeholders(template)
            /\ \A place \in Placeholders(template) :
                 place[1] \in open..close => place = <<open, close>>
        BY <1>1, <3>1, <3>2, <3>5, <4>1, NamesAndPlaceholders
      <4>5. PartOf(template, slot, open, close) /\ slot.segment = "slot"
        BY <4>2, <4>4 DEF PartOf, Slot
      <4>6. open \in 1..Len(template) /\ close \in open..Len(template)
        BY <1>1, <3>2, <4>1
      <4>7. SplitFrom(template, <<slot>> \o rest, open)
        BY <4>3, <4>4, <4>5, <4>6, OneMorePart
      <4>8. SplitFrom(template, text_ \o (<<slot>> \o rest), from)
        <5>1. PICK last : /\ last = open - 1 /\ last + 1 = open
                          /\ from \in 1..(Len(template) + 1)
                          /\ last \in (from - 1)..Len(template)
          BY <1>1, <3>1
        <5>2. SplitFrom(template, <<slot>> \o rest, last + 1)
          BY <4>7, <5>1
        <5>3. \A place \in Placeholders(template) : place[1] \notin from..last
          BY <3>4, <5>1
        <5>4. SplitFrom(template, TextIfAny(SubSeq(template, from, last)) \o (<<slot>> \o rest), from)
          BY <5>1, <5>2, <5>3, TextBefore
        <5> QED
          BY <4>2, <5>1, <5>4
      <4>9. (text_ \o <<slot>>) \o rest = text_ \o (<<slot>> \o rest)
        <5>1. rest \in Seq(Segments)
          BY <4>3 DEF SplitFrom, Ends
        <5>2. <<slot>> \in Seq(Segments)
          <6>1. close \in 1..Len(template)
            BY <1>1, <3>2, <4>1
          <6>2. slot \in Segments
            BY <4>5, <4>6, <6>1, PartIsSegment
          <6> QED
            BY <6>2
        <5>3. text_ \in Seq(Segments)
          <6>1. PICK a \in Int, b \in Int : a = from /\ b = open - 1
            BY <1>1, <3>1
          <6>2. \A i \in a..b : template[i] \in TemplateTokens
            <7>1. \A i \in a..b : i \in 1..Len(template)
              BY <1>1, <3>1, <6>1
            <7> QED
              BY <7>1, ElementOfSeq
          <6>3. SubSeq(template, a, b) \in Seq(TemplateTokens)
            BY <6>2, SubSeqProperties
          <6>4. PICK before : before = SubSeq(template, a, b) /\ text_ = TextIfAny(before)
            BY <4>2, <6>1
          <6> QED
            BY <6>3, <6>4, TextIsSegments
        <5> QED
          BY <5>1, <5>2, <5>3, ConcatAssociative
      <4>10. parts = (text_ \o <<slot>>) \o rest
        BY <2>3, <2>7, <3>5, <4>2
      <4> QED
        BY <2>2, <4>8, <4>9, <4>10
    <3>6. CASE ~ (close # 0 /\ IsSlotName(SubSeq(template, open + 1, close - 1)))
      <4>1. \A place \in Placeholders(template) : place[1] # open
        <5>1. CASE close = 0
          <6>1. \A j \in (open + 1)..n : template[j] # "rbrace"
            BY <1>1, <3>2, <3>3, <5>1
          <6>2. ASSUME NEW place \in Placeholders(template), place[1] = open PROVE FALSE
            <7>1. \E j \in (place[1] + 1)..n : template[j] = "rbrace"
              BY <1>1, NoneUnclosed
            <7> QED
              BY <6>1, <6>2, <7>1
          <6> QED
            BY <6>2
        <5>2. CASE close # 0
          <6>1. /\ close \in (open + 1)..n /\ template[close] = "rbrace"
                /\ \A j \in (open + 1)..(close - 1) : template[j] # "rbrace"
            BY <3>3, <5>2
          <6>2. <<open, close>> \notin Placeholders(template)
            BY <1>1, <3>1, <3>2, <3>6, <5>2, <6>1, NamesAndPlaceholders
          <6>3. \A place \in Placeholders(template) : place[1] = open => place = <<open, close>>
            BY <1>1, <3>1, <3>2, <6>1, NamesAndPlaceholders
          <6> QED
            BY <6>2, <6>3
        <5> QED
          BY <5>1, <5>2
      <4>2. PICK later : /\ later = open + 1 /\ later \in (at + 1)..(n + 1) /\ later - 1 = open
                         /\ from \in 1..later
        BY <1>1, <3>1, <3>2
      <4>3. \A place \in Placeholders(template) : place[1] \notin from..(later - 1)
        <5>1. \A k \in from..(later - 1) : k = open \/ k \in from..(open - 1)
          BY <1>1, <3>1, <4>2
        <5> QED
          BY <3>4, <4>1, <5>1
      <4>4. Splits(later)
        BY <1>3, <4>2
      <4>5. SplitFrom(template, split[later][from], from)
        BY <4>2, <4>3, <4>4
      <4> QED
        BY <2>2, <2>3, <2>7, <3>6, <4>2, <4>5
    <3> QED
      BY <3>5, <3>6
  <2> QED
    BY <2>6, <2>7
<1>4. 1 \in Good
  <2>1. n + 2 \in Good
    <3>1. (n + 2)..(n + 1) = {} /\ n + 2 \in 1..(n + 2)
      BY <1>1
    <3> HIDE DEF Splits
    <3> QED
      BY <3>1
  <2>2. ASSUME NEW a \in 1..((n + 2) - 1), a + 1 \in Good PROVE a \in Good
    <3>1. a \in 1..(n + 1) /\ a \in 1..(n + 2)
      BY <1>1
    <3>2. \A at \in (a + 1)..(n + 1) : Splits(at)
      BY <2>2
    <3>3. Splits(a)
      BY <1>3, <3>1, <3>2
    <3> HIDE DEF Splits
    <3>4. \A at \in a..(n + 1) : at = a \/ at \in (a + 1)..(n + 1)
      BY <1>1, <3>1
    <3>5. \A at \in a..(n + 1) : Splits(at)
      BY <3>2, <3>3, <3>4
    <3> QED
      BY <3>1, <3>5
  <2> HIDE DEF Good
  <2>3. \A a \in 1..((n + 2) - 1) : a + 1 \in Good => a \in Good
    BY <2>2
  <2>4. 1 \in Int /\ n + 2 \in Int /\ 1 \in 1..(n + 2)
    BY <1>1
  <2> QED
    BY <2>1, <2>3, <2>4, DownwardsFrom
<1>5. Splits(1)
  <2>1. 1 \in 1..(n + 1)
    BY <1>1
  <2> HIDE DEF Splits
  <2> QED
    BY <1>4, <2>1
<1>6. 1 \in 1..1 /\ 1..(1 - 1) = {}
  OBVIOUS
<1> QED
  BY <1>2, <1>5, <1>6

\* What is written of the segments up to each of them.
LEMMA WritingGrows ==
  ASSUME NEW parts \in Seq(Segments)
  PROVE  /\ Writing(parts)[0] = << >>
         /\ \A i \in 1..Len(parts) :
              Writing(parts)[i] = Writing(parts)[i - 1] \o Written(parts[i])
<1> DEFINE Writes(g, last) ==
             g = [i \in 0..last |-> IF i = 0 THEN << >> ELSE g[i - 1] \o Written(parts[i])]
           Written_ == {last \in Nat : \E g : Writes(g, last)}
           written == CHOOSE g : Writes(g, Len(parts))
<1>1. PICK m : m = Len(parts) /\ m \in Nat
  BY LenProperties
<1>2. 0 \in Written_
  <2>1. Writes([i \in 0..0 |-> << >>], 0)
    <3>1. \A i \in 0..0 : i = 0
      OBVIOUS
    <3> QED
      BY <3>1
  <2> HIDE DEF Writes
  <2> QED
    BY <2>1
<1>3. ASSUME NEW last \in 0..(m - 1), last \in Written_ PROVE last + 1 \in Written_
  <2>1. PICK g : g = [i \in 0..last |-> IF i = 0 THEN << >> ELSE g[i - 1] \o Written(parts[i])]
    BY <1>3
  <2>2. PICK next, v : next = last + 1 /\ v = g[last] \o Written(parts[next])
    OBVIOUS
  <2>3. PICK h : h = [i \in 0..next |-> IF i = next THEN v ELSE g[i]]
    OBVIOUS
  <2>4. /\ next # 0 /\ next - 1 = last /\ last # next /\ last \in 0..last /\ last \in 0..next
        /\ next \in 0..next /\ next \in Nat
    BY <1>1, <2>2
  <2>5. ASSUME NEW i \in 0..next
        PROVE  h[i] = IF i = 0 THEN << >> ELSE h[i - 1] \o Written(parts[i])
    <3>1. CASE i = next
      <4>1. h[i] = v /\ h[last] = g[last]
        BY <2>3, <2>4, <3>1
      <4> QED
        BY <2>2, <2>4, <3>1, <4>1
    <3>2. CASE i # next
      <4>1. i \in 0..last
        BY <1>1, <2>2, <3>2
      <4>2. h[i] = g[i]
        BY <2>3, <3>2
      <4>3. i # 0 => h[i - 1] = g[i - 1]
        <5>1. i # 0 => i - 1 \in 0..next /\ i - 1 # next
          BY <1>1, <2>2, <4>1
        <5> QED
          BY <2>3, <5>1
      <4>4. g[i] = IF i = 0 THEN << >> ELSE g[i - 1] \o Written(parts[i])
        BY <2>1, <4>1
      <4> QED
        BY <4>2, <4>3, <4>4
    <3> QED
      BY <3>1, <3>2
  <2>6. h = [i \in 0..next |-> h[i]]
    BY <2>3
  <2>7. Writes(h, next)
    BY <2>5, <2>6
  <2> HIDE DEF Writes
  <2> QED
    BY <2>2, <2>4, <2>7
<1>4. m \in Written_
  <2> HIDE DEF Written_
  <2>1. \A last \in 0..(m - 1) : last \in Written_ => last + 1 \in Written_
    BY <1>3
  <2>2. 0 \in Int /\ m \in Int /\ m \in 0..m
    BY <1>1
  <2> QED
    BY <1>2, <2>1, <2>2, UpwardsFrom
<1>5. Writes(written, m)
  <2> HIDE DEF Writes
  <2> QED
    BY <1>1, <1>4
<1>6. Writing(parts) = written
  BY Zenon DEF Writing
<1> HIDE DEF written
<1>7. \A i \in 0..m : written[i] = IF i = 0 THEN << >> ELSE written[i - 1] \o Written(parts[i])
  BY <1>5
<1>8. 0 \in 0..m /\ \A i \in 1..m : i \in 0..m /\ i # 0
  BY <1>1
<1> QED
  BY <1>1, <1>6, <1>7, <1>8

\* A placeholder with its braces is the part of the template that it was.
LEMMA PartIsWritten ==
  ASSUME NEW template \in Seq(TemplateTokens),
         NEW from \in 1..Len(template), NEW to \in 1..Len(template), NEW part,
         PartOf(template, part, from, to)
  PROVE  /\ Written(part) = SubSeq(template, from, to)
         /\ part.segment \in {"text", "slot"}
         /\ part.segment = "slot" =>
              /\ <<from, to>> \in Placeholders(template)
              /\ part.text = SubSeq(template, from + 1, to - 1)
<1>1. PICK n : n = Len(template) /\ n \in Nat
  BY LenProperties
<1>2. CASE part = TextSegment(SubSeq(template, from, to))
  BY <1>2 DEF TextSegment, Written
<1>3. CASE <<from, to>> \in Placeholders(template) /\ part = Slot(SubSeq(template, from + 1, to - 1))
  <2>1. from + 1 < to /\ template[from] = "lbrace" /\ template[to] = "rbrace"
    BY <1>3 DEF Placeholders
  <2>2. PICK name : name = SubSeq(template, from + 1, to - 1)
    OBVIOUS
  <2>3. SubSeq(template, from, to) = SubSeq(template, from, to - 1) \o <<template[to]>>
    BY <1>1, <2>1, SubSeqRecursiveSecond
  <2>4. SubSeq(template, from, to - 1) = <<template[from]>> \o name
    <3>1. PICK last : last = to - 1 /\ last \in from..Len(template)
      BY <1>1, <2>1
    <3> QED
      BY <2>2, <3>1, SubSeqRecursiveFirst
  <2>5. Braced(name) = SubSeq(template, from, to)
    BY <2>1, <2>3, <2>4 DEF Braced
  <2>6. part.segment = "slot" /\ part.text = name
    BY <1>3, <2>2 DEF Slot
  <2> QED
    BY <1>3, <2>2, <2>5, <2>6 DEF Written
<1> QED
  BY <1>2, <1>3 DEF PartOf

\* Segments that are written as the parts of the template are written out as it.
WrittenAs(template, parts, ends, others) ==
  /\ Ends(template, parts, 1, ends)
  /\ others \in Seq(Segments) /\ Len(others) = Len(parts)
  /\ \A i \in 1..Len(parts) :
       Written(others[i]) = SubSeq(template, ends[i - 1] + 1, ends[i])

LEMMA WritingIsTemplate ==
  ASSUME NEW template \in Seq(TemplateTokens), NEW parts, NEW ends, NEW others,
         WrittenAs(template, parts, ends, others)
  PROVE  \A i \in 0..Len(parts) :
           /\ Writing(others)[i] = SubSeq(template, 1, ends[i])
           /\ Len(Writing(others)[i]) = ends[i]
<1>1. PICK n : n = Len(template) /\ n \in Nat /\ \A i \in 1..n : template[i] \in TemplateTokens
  BY LenProperties, ElementOfSeq
<1>2. PICK m : /\ m = Len(parts) /\ m \in Nat
               /\ others \in Seq(Segments) /\ Len(others) = m
  <2>1. parts \in Seq(Segments) /\ others \in Seq(Segments) /\ Len(others) = Len(parts)
    BY DEF WrittenAs, Ends
  <2> QED
    BY <2>1, LenProperties
<1>3. /\ ends[0] = 0 /\ \A i \in 0..m : ends[i] \in 0..n
      /\ \A i \in 1..m : ends[i - 1] < ends[i]
  <2>1. ends \in [0..m -> 0..n] /\ ends[0] = 1 - 1
    BY <1>1, <1>2 DEF WrittenAs, Ends
  <2>2. \A i \in 1..m : ends[i - 1] < ends[i]
    BY <1>2 DEF WrittenAs, Ends
  <2> QED
    BY <2>1, <2>2
<1>4. PICK w : w = Writing(others)
  OBVIOUS
<1>5. w[0] = << >> /\ \A i \in 1..m : w[i] = w[i - 1] \o Written(others[i])
  BY <1>2, <1>4, WritingGrows
<1> DEFINE Good == {i \in 0..m : w[i] = SubSeq(template, 1, ends[i])}
<1>6. 0 \in Good
  <2>1. SubSeq(template, 1, 0) = << >>
    BY SubSeqEmpty
  <2>2. 0 \in 0..m
    BY <1>2
  <2> QED
    BY <1>3, <1>5, <2>1, <2>2
<1>7. ASSUME NEW i \in 0..(m - 1), i \in Good PROVE i + 1 \in Good
  <2>1. PICK next : next = i + 1 /\ next \in 1..m /\ next \in 0..m /\ next - 1 = i /\ i \in 0..m
    BY <1>2
  <2>2. PICK a, b : a = ends[i] /\ b = ends[next] /\ a \in 0..n /\ b \in 0..n /\ a < b
    BY <1>3, <2>1
  <2>3. w[next] = SubSeq(template, 1, a) \o SubSeq(template, a + 1, b)
    BY <1>2, <1>5, <1>7, <2>1, <2>2 DEF WrittenAs
  <2>4. /\ 1 \in 1..(Len(template) + 1) /\ a \in (1 - 1)..Len(template) /\ b \in a..Len(template)
    BY <1>1, <2>2
  <2>5. SubSeq(template, 1, a) \o SubSeq(template, a + 1, b) = SubSeq(template, 1, b)
    BY <2>4, ConcatAdjacentSubSeq
  <2> QED
    BY <2>1, <2>2, <2>3, <2>5
<1>8. \A i \in 0..m : i \in Good
  <2> HIDE DEF Good
  <2>1. \A i \in 0..(m - 1) : i \in Good => i + 1 \in Good
    BY <1>7
  <2>2. 0 \in Int /\ m \in Int
    BY <1>2
  <2> QED
    BY <1>6, <2>1, <2>2, UpwardsFrom
<1>9. ASSUME NEW i \in 0..m PROVE Len(SubSeq(template, 1, ends[i])) = ends[i]
  <2>1. PICK b : b = ends[i] /\ b \in 0..n
    BY <1>3
  <2>2. b \in Int /\ 1 \in Int /\ \A k \in 1..b : template[k] \in TemplateTokens
    BY <1>1, <2>1
  <2>3. Len(SubSeq(template, 1, b)) = IF 1 <= b THEN b - 1 + 1 ELSE 0
    BY <2>2, SubSeqProperties
  <2> QED
    BY <2>1, <2>3
<1> QED
  BY <1>2, <1>4, <1>8, <1>9

\* The parts of a template stand where its segments are written.
LEMMA PlacesAreEnds ==
  ASSUME NEW template \in Seq(TemplateTokens), NEW parts, NEW ends, NEW others, NEW kinds,
         WrittenAs(template, parts, ends, others)
  PROVE  \A place : place \in Places(others, kinds) <=>
           \E i \in 1..Len(parts) :
             others[i].segment \in kinds /\ place = <<ends[i - 1] + 1, ends[i]>>
<1>1. PICK m : /\ m = Len(parts) /\ m \in Nat
               /\ others \in Seq(Segments) /\ Len(others) = m
  <2>1. parts \in Seq(Segments) /\ others \in Seq(Segments) /\ Len(others) = Len(parts)
    BY DEF WrittenAs, Ends
  <2> QED
    BY <2>1, LenProperties
<1>2. PICK w : w = Writing(others)
  OBVIOUS
<1>3. \A i \in 0..m : Len(w[i]) = ends[i]
  BY <1>1, <1>2, WritingIsTemplate
<1>4. \A i \in 1..m : Len(w[i]) = ends[i] /\ Len(w[i - 1]) = ends[i - 1]
  <2>1. \A i \in 1..m : i \in 0..m /\ i - 1 \in 0..m
    BY <1>1
  <2> QED
    BY <1>3, <2>1
<1>5. DOMAIN others = 1..m
  BY <1>1, LenProperties
<1>6. Places(others, kinds) =
        {<<Len(w[i - 1]) + 1, Len(w[i])>> : i \in {k \in 1..m : others[k].segment \in kinds}}
  BY <1>2, <1>5 DEF Places
<1> QED
  BY <1>1, <1>4, <1>6

\* What the segments of a template are, part by part.
IsSlotAt(template, part, from, to) ==
  /\ part.segment \in {"text", "slot"}
  /\ part.segment = "slot" =>
       <<from, to>> \in Placeholders(template) /\ part.text = SubSeq(template, from + 1, to - 1)

LEMMA SegmentsOfTemplate ==
  ASSUME NEW template \in Seq(TemplateTokens), NEW parts, NEW ends,
         Ends(template, parts, 1, ends)
  PROVE  \A i \in 1..Len(parts) :
           /\ parts[i] \in Segments
           /\ Written(parts[i]) = SubSeq(template, ends[i - 1] + 1, ends[i])
           /\ IsSlotAt(template, parts[i], ends[i - 1] + 1, ends[i])
<1> TAKE i \in 1..Len(parts)
<1>1. PICK n : n = Len(template) /\ n \in Nat
  BY LenProperties
<1>2. PICK m : m = Len(parts) /\ m \in Nat /\ i \in 1..m /\ i \in 0..m /\ i - 1 \in 0..m
  <2>1. parts \in Seq(Segments)
    BY DEF Ends
  <2> QED
    BY <2>1, LenProperties
<1>3. PICK from, to : from = ends[i - 1] + 1 /\ to = ends[i]
  OBVIOUS
<1>4. ends[i - 1] \in 0..n /\ ends[i] \in 0..n /\ ends[i - 1] < ends[i]
  <2>1. ends \in [0..m -> 0..n]
    BY <1>1, <1>2 DEF Ends
  <2>2. ends[i - 1] < ends[i]
    BY <1>2 DEF Ends
  <2> QED
    BY <1>2, <2>1, <2>2
<1>5. from \in 1..n /\ to \in 1..n
  BY <1>1, <1>3, <1>4
<1>6. PartOf(template, parts[i], from, to)
  BY <1>2, <1>3 DEF Ends
<1>7. PICK part : part = parts[i] /\ PartOf(template, part, from, to)
  BY <1>6
<1>8. part \in Segments
  BY <1>1, <1>5, <1>7, PartIsSegment
<1>9. Written(part) = SubSeq(template, from, to) /\ IsSlotAt(template, part, from, to)
  BY <1>1, <1>5, <1>7, PartIsWritten DEF IsSlotAt
<1> QED
  BY <1>3, <1>7, <1>8, <1>9

\* The segments say the template again, with a slot at every placeholder.
LEMMA SlotsFound ==
  ASSUME NEW template \in Seq(TemplateTokens), NEW parts, parts = SplitTemplate(template)
  PROVE  WrittenOut(parts) = template /\ Places(parts, {"slot"}) = Placeholders(template)
<1>1. PICK n : n = Len(template) /\ n \in Nat
  BY LenProperties
<1>2. PICK ends : Ends(template, parts, 1, ends)
  BY SplitIsRight DEF SplitFrom
<1>3. PICK m : m = Len(parts) /\ m \in Nat /\ m \in 0..m
  <2>1. parts \in Seq(Segments)
    BY <1>2 DEF Ends
  <2> QED
    BY <2>1, LenProperties
<1>4. parts \in Seq(Segments) /\ ends[m] = n
  BY <1>1, <1>2, <1>3 DEF Ends
<1>5. \A i \in 1..Len(parts) :
        /\ parts[i] \in Segments
        /\ Written(parts[i]) = SubSeq(template, ends[i - 1] + 1, ends[i])
        /\ IsSlotAt(template, parts[i], ends[i - 1] + 1, ends[i])
  BY <1>2, SegmentsOfTemplate
<1>6. WrittenAs(template, parts, ends, parts)
  BY <1>2, <1>4, <1>5 DEF WrittenAs
<1>7. WrittenOut(parts) = template
  <2>1. Writing(parts)[m] = SubSeq(template, 1, ends[m])
    BY <1>3, <1>6, WritingIsTemplate
  <2>2. SubSeq(template, 1, n) = template
    BY <1>1, SubSeqFull
  <2> QED
    BY <1>3, <1>4, <2>1, <2>2 DEF WrittenOut
<1>8. \A place : place \in Places(parts, {"slot"}) <=>
        \E i \in 1..m : parts[i].segment = "slot" /\ place = <<ends[i - 1] + 1, ends[i]>>
  <2>1. PICK kinds : kinds = {"slot"}
    OBVIOUS
  <2>2. \A place : place \in Places(parts, kinds) <=>
          \E i \in 1..Len(parts) :
            parts[i].segment \in kinds /\ place = <<ends[i - 1] + 1, ends[i]>>
    BY <1>6, PlacesAreEnds
  <2> QED
    BY <1>3, <2>1, <2>2
<1>9. \A i \in 1..m : parts[i].segment = "slot" =>
        <<ends[i - 1] + 1, ends[i]>> \in Placeholders(template)
  BY <1>3, <1>5 DEF IsSlotAt
<1>10. \A place \in Placeholders(template) :
         \E i \in 1..m : parts[i].segment = "slot" /\ place = <<ends[i - 1] + 1, ends[i]>>
  <2>1. \A place \in Placeholders(template) : place[1] >= 1
    BY <1>1, NoneUnclosed
  <2>2. \A place \in Placeholders(template) : place[1] >= 1 =>
          \E i \in 1..m : parts[i].segment = "slot" /\ place = <<ends[i - 1] + 1, ends[i]>>
    BY <1>2, <1>3 DEF Ends
  <2> QED
    BY <2>1, <2>2
<1>11. Places(parts, {"slot"}) = Placeholders(template)
  BY <1>8, <1>9, <1>10
<1> QED
  BY <1>7, <1>11

\* A sentence links the slugs it names, where the template has them.
LEMMA LinksFound ==
  ASSUME NEW template \in Seq(TemplateTokens), NEW published, NEW slugs,
         NEW sentence, sentence = AcceptanceSentence(published, slugs, template)
  PROVE  /\ sentence = << >> <=> (template = << >> \/ ~ slugs \subseteq published)
         /\ sentence # << >> =>
              Places(sentence, {"link"}) =
                {place \in Placeholders(template) :
                   SubSeq(template, place[1] + 1, place[2] - 1) \in slugs}
<1>1. PICK n : n = Len(template) /\ n \in Nat
  BY LenProperties
<1>2. PICK parts : parts = SplitTemplate(template)
  OBVIOUS
<1>3. PICK ends : Ends(template, parts, 1, ends)
  BY <1>2, SplitIsRight DEF SplitFrom
<1>4. PICK m : /\ m = Len(parts) /\ m \in Nat /\ DOMAIN parts = 1..m
               /\ parts \in Seq(Segments)
               /\ \A i \in 1..m :
                    /\ parts[i] \in Segments
                    /\ Written(parts[i]) = SubSeq(template, ends[i - 1] + 1, ends[i])
                    /\ IsSlotAt(template, parts[i], ends[i - 1] + 1, ends[i])
  <2>1. parts \in Seq(Segments)
    BY <1>3 DEF Ends
  <2>2. \A i \in 1..Len(parts) :
          /\ parts[i] \in Segments
          /\ Written(parts[i]) = SubSeq(template, ends[i - 1] + 1, ends[i])
          /\ IsSlotAt(template, parts[i], ends[i - 1] + 1, ends[i])
    BY <1>3, SegmentsOfTemplate
  <2> QED
    BY <2>1, <2>2, LenProperties
<1>5. CASE ~ slugs \subseteq published
  BY <1>5 DEF AcceptanceSentence
<1>6. CASE slugs \subseteq published
  <2>1. sentence = [i \in 1..m |-> IF parts[i].segment = "slot" /\ parts[i].text \in slugs
                                   THEN Link(parts[i].text) ELSE parts[i]]
    BY <1>2, <1>4, <1>6 DEF AcceptanceSentence
  <2>2. \A i \in 1..m :
          sentence[i] = IF parts[i].segment = "slot" /\ parts[i].text \in slugs
                        THEN Link(parts[i].text) ELSE parts[i]
    BY <2>1
  <2>3. ASSUME NEW i \in 1..m
        PROVE  /\ sentence[i] \in Segments
               /\ Written(sentence[i]) = SubSeq(template, ends[i - 1] + 1, ends[i])
               /\ sentence[i].segment = "link"
                    <=> parts[i].segment = "slot" /\ parts[i].text \in slugs
    <3>1. PICK part, name : part = parts[i] /\ name = parts[i].text
      OBVIOUS
    <3>2. /\ part \in Segments /\ name \in Seq(TemplateTokens)
          /\ Written(part) = SubSeq(template, ends[i - 1] + 1, ends[i])
          /\ part.segment \in {"text", "slot"}
          /\ part.segment = "slot" =>
               Braced(name) = SubSeq(template, ends[i - 1] + 1, ends[i])
      <4>1. /\ part \in Segments /\ part.segment \in {"text", "slot"} /\ name = part.text
            /\ Written(part) = SubSeq(template, ends[i - 1] + 1, ends[i])
        BY <1>4, <3>1 DEF IsSlotAt
      <4>2. name \in Seq(TemplateTokens)
        BY <4>1 DEF Segments
      <4>3. part.segment = "slot" => Written(part) = Braced(name)
        BY <4>1 DEF Written
      <4> QED
        BY <4>1, <4>2, <4>3
    <3>3. /\ Link(name) \in Segments /\ Link(name).segment = "link"
          /\ Written(Link(name)) = Braced(name)
      BY <3>2 DEF Link, Segments, Written
    <3>4. CASE part.segment = "slot" /\ name \in slugs
      <4>1. sentence[i] = Link(name)
        BY <2>2, <3>1, <3>4
      <4> QED
        BY <3>1, <3>2, <3>3, <3>4, <4>1
    <3>5. CASE ~ (part.segment = "slot" /\ name \in slugs)
      <4>1. sentence[i] = part /\ part.segment # "link"
        BY <2>2, <3>1, <3>2, <3>5
      <4> QED
        BY <3>1, <3>2, <3>5, <4>1
    <3> QED
      BY <3>4, <3>5
  <2>4. sentence \in Seq(Segments) /\ Len(sentence) = m
    <3>1. sentence \in [1..m -> Segments]
      <4>1. \A i \in 1..m : sentence[i] \in Segments
        BY <2>3
      <4>2. DOMAIN sentence = 1..m /\ sentence = [i \in 1..m |-> sentence[i]]
        BY <2>1
      <4> QED
        BY <4>1, <4>2
    <3>2. sentence \in Seq(Segments)
      BY <1>4, <3>1, SeqDef
    <3>3. Len(sentence) \in Nat /\ 1..Len(sentence) = 1..m
      BY <2>1, <3>2, LenProperties
    <3>4. Len(sentence) = m
      BY <1>4, <3>3
    <3> QED
      BY <3>2, <3>4
  <2>5. \A place : place \in Places(sentence, {"link"}) <=>
          \E i \in 1..m :
            sentence[i].segment = "link" /\ place = <<ends[i - 1] + 1, ends[i]>>
    <3>1. WrittenAs(template, parts, ends, sentence)
      BY <1>3, <1>4, <2>3, <2>4 DEF WrittenAs
    <3>2. PICK kinds : kinds = {"link"}
      OBVIOUS
    <3>3. \A place : place \in Places(sentence, kinds) <=>
            \E i \in 1..Len(parts) :
              sentence[i].segment \in kinds /\ place = <<ends[i - 1] + 1, ends[i]>>
      BY <3>1, PlacesAreEnds
    <3> QED
      BY <1>4, <3>2, <3>3
  <2>6. \A i \in 1..m : sentence[i].segment = "link" =>
          /\ <<ends[i - 1] + 1, ends[i]>> \in Placeholders(template)
          /\ SubSeq(template, (ends[i - 1] + 1) + 1, ends[i] - 1) \in slugs
    BY <1>4, <2>3 DEF IsSlotAt
  <2>7. \A place \in Placeholders(template) :
          SubSeq(template, place[1] + 1, place[2] - 1) \in slugs =>
            \E i \in 1..m : /\ sentence[i].segment = "link"
                            /\ place = <<ends[i - 1] + 1, ends[i]>>
    <3> SUFFICES ASSUME NEW place \in Placeholders(template),
                        SubSeq(template, place[1] + 1, place[2] - 1) \in slugs
                 PROVE  \E i \in 1..m : /\ sentence[i].segment = "link"
                                        /\ place = <<ends[i - 1] + 1, ends[i]>>
      OBVIOUS
    <3>1. place[1] >= 1
      BY <1>1, NoneUnclosed
    <3>2. PICK i \in 1..m : parts[i].segment = "slot" /\ place = <<ends[i - 1] + 1, ends[i]>>
      BY <1>3, <1>4, <3>1 DEF Ends
    <3>3. parts[i].text = SubSeq(template, (ends[i - 1] + 1) + 1, ends[i] - 1)
      BY <1>4, <3>2 DEF IsSlotAt
    <3>4. place[1] = ends[i - 1] + 1 /\ place[2] = ends[i]
      BY <3>2
    <3>5. parts[i].text \in slugs
      BY <3>3, <3>4
    <3> QED
      BY <2>3, <3>2, <3>5
  <2>8. Places(sentence, {"link"}) =
          {place \in Placeholders(template) :
             SubSeq(template, place[1] + 1, place[2] - 1) \in slugs}
    <3>1. ASSUME NEW place \in Places(sentence, {"link"})
          PROVE  /\ place \in Placeholders(template)
                 /\ SubSeq(template, place[1] + 1, place[2] - 1) \in slugs
      <4>1. PICK i \in 1..m :
              sentence[i].segment = "link" /\ place = <<ends[i - 1] + 1, ends[i]>>
        BY <2>5, <3>1
      <4>2. place[1] = ends[i - 1] + 1 /\ place[2] = ends[i]
        BY <4>1
      <4> QED
        BY <2>6, <4>1, <4>2
    <3>2. ASSUME NEW place \in Placeholders(template),
                 SubSeq(template, place[1] + 1, place[2] - 1) \in slugs
          PROVE  place \in Places(sentence, {"link"})
      BY <2>5, <2>7, <3>2
    <3> QED
      BY <3>1, <3>2
  <2>9. sentence = << >> <=> template = << >>
    <3>1. sentence = << >> <=> m = 0
      BY <1>4, <2>4, EmptySeq
    <3>2. template = << >> <=> n = 0
      BY <1>1, EmptySeq
    <3>3. ends[0] = 0 /\ ends[m] = n /\ ends \in [0..m -> 0..n]
      <4>1. ends[0] = 1 - 1 /\ ends[m] = n /\ ends \in [0..m -> 0..n]
        BY <1>1, <1>3, <1>4 DEF Ends
      <4> QED
        BY <4>1
    <3>4. m # 0 => n # 0
      <4> SUFFICES ASSUME m # 0 PROVE n # 0
        OBVIOUS
      <4>1. m \in 1..m /\ m - 1 \in 0..m
        BY <1>4
      <4>2. ends[m - 1] < ends[m]
        BY <1>3, <1>4, <4>1 DEF Ends
      <4>3. ends[m - 1] \in 0..n
        BY <3>3, <4>1
      <4> QED
        BY <1>1, <3>3, <4>2, <4>3
    <3> QED
      BY <3>1, <3>2, <3>3, <3>4
  <2> QED
    BY <1>6, <2>8, <2>9
<1> QED
  BY <1>5, <1>6

\* A slug in braces is a placeholder and nothing else.
LEMMA SlugsFit ==
  ASSUME NEW slug \in Seq(TemplateTokens), IsSlug(slug)
  PROVE  SplitTemplate(Braced(slug)) = <<Slot(slug)>>
<1>1. PICK m : m = Len(slug) /\ m \in Nat /\ m >= 1 /\ DOMAIN slug = 1..m
  <2>1. Len(slug) \in Nat /\ DOMAIN slug = 1..Len(slug)
    BY LenProperties
  <2>2. Len(slug) \in 1..MaxSlugLen /\ MaxSlugLen \in Nat
    BY ReadersAssumption DEF IsSlug
  <2> QED
    BY <2>1, <2>2
<1>2. \A k \in 1..m : slug[k] \in SlugTokens
  BY <1>1 DEF IsSlug, ToSet
<1>3. PICK n, template : n = m + 2 /\ template = Braced(slug)
  OBVIOUS
<1>4. /\ template \in Seq(TemplateTokens) /\ Len(template) = n
      /\ template[1] = "lbrace" /\ template[n] = "rbrace"
      /\ \A k \in 1..m : template[k + 1] = slug[k]
  <2>1. PICK left, right, front :
          left = <<"lbrace">> /\ right = <<"rbrace">> /\ front = left \o slug
    OBVIOUS
  <2>2. /\ left \in Seq(TemplateTokens) /\ Len(left) = 1 /\ left[1] = "lbrace"
        /\ right \in Seq(TemplateTokens) /\ Len(right) = 1 /\ right[1] = "rbrace"
    BY <2>1 DEF TemplateTokens
  <2>3. /\ front \in Seq(TemplateTokens) /\ Len(front) = 1 + m
        /\ \A k \in 1..(1 + m) : front[k] = IF k <= 1 THEN left[k] ELSE slug[k - 1]
    BY <1>1, <2>1, <2>2, ConcatProperties
  <2>4. template = front \o right
    BY <1>3, <2>1 DEF Braced
  <2>5. /\ template \in Seq(TemplateTokens) /\ Len(template) = (1 + m) + 1
        /\ \A k \in 1..((1 + m) + 1) :
             template[k] = IF k <= 1 + m THEN front[k] ELSE right[k - (1 + m)]
    <3>1. /\ front \o right \in Seq(TemplateTokens)
          /\ Len(front \o right) = Len(front) + Len(right)
          /\ \A k \in 1..(Len(front) + Len(right)) :
               (front \o right)[k] = IF k <= Len(front) THEN front[k] ELSE right[k - Len(front)]
      BY <2>2, <2>3, ConcatProperties
    <3> QED
      BY <2>2, <2>3, <2>4, <3>1
  <2>6. /\ 1 \in 1..(1 + m) /\ 1 \in 1..((1 + m) + 1) /\ 1 <= 1 + m
        /\ n = (1 + m) + 1 /\ n \in 1..((1 + m) + 1) /\ ~ (n <= 1 + m) /\ n - (1 + m) = 1
    BY <1>1, <1>3
  <2>7. template[1] = "lbrace"
    BY <2>2, <2>3, <2>5, <2>6
  <2>8. template[n] = "rbrace"
    BY <2>2, <2>5, <2>6
  <2>9. ASSUME NEW k \in 1..m PROVE template[k + 1] = slug[k]
    <3>1. PICK i : /\ i = k + 1 /\ i \in 1..(1 + m) /\ i \in 1..((1 + m) + 1)
                   /\ i <= 1 + m /\ ~ (i <= 1) /\ i - 1 = k
      BY <1>1
    <3> QED
      BY <2>3, <2>5, <3>1
  <2> QED
    BY <2>5, <2>6, <2>7, <2>8, <2>9
<1>5. <<1, n>> \in Placeholders(template)
  <2>1. 1 \in 1..n /\ n \in 1..n /\ 1 + 1 < n
    BY <1>1, <1>3
  <2>2. ASSUME NEW k \in (1 + 1)..(n - 1) PROVE template[k] \in SlugTokens
    <3>1. PICK i : i = k - 1 /\ i \in 1..m /\ i + 1 = k
      BY <1>1, <1>3
    <3> QED
      BY <1>2, <1>4, <3>1
  <2> QED
    BY <1>4, <2>1, <2>2 DEF Placeholders
<1>6. PICK parts, ends : parts = SplitTemplate(template) /\ Ends(template, parts, 1, ends)
  BY <1>4, SplitIsRight DEF SplitFrom
<1>7. PICK size : size = Len(parts) /\ size \in Nat /\ DOMAIN parts = 1..size
  BY <1>6, LenProperties DEF Ends
<1>8. /\ parts \in Seq(Segments) /\ ends \in [0..size -> 0..n] /\ ends[size] = n
      /\ \A i \in 1..size : ends[i - 1] < ends[i]
  BY <1>4, <1>6, <1>7 DEF Ends
<1>9. PICK i \in 1..size : parts[i].segment = "slot" /\ <<1, n>> = <<ends[i - 1] + 1, ends[i]>>
  <2>1. \A place \in Placeholders(template) : place[1] >= 1 =>
          \E i \in 1..size : parts[i].segment = "slot" /\ place = <<ends[i - 1] + 1, ends[i]>>
    BY <1>6, <1>7 DEF Ends
  <2>2. <<1, n>>[1] >= 1
    OBVIOUS
  <2> QED
    BY <1>5, <2>1, <2>2
<1>10. ends[i - 1] + 1 = 1 /\ ends[i] = n
  BY <1>9
<1>11. ends[i - 1] = 0
  <2>1. i - 1 \in 0..size
    BY <1>7
  <2>2. ends[i - 1] \in 0..n
    BY <1>8, <2>1
  <2> QED
    BY <1>10, <2>2
<1>12. i = 1
  <2> SUFFICES ASSUME i # 1 PROVE FALSE
    OBVIOUS
  <2>1. PICK before : before = i - 1 /\ before \in 1..size /\ before - 1 \in 0..size
    BY <1>7
  <2>2. ends[before - 1] < ends[before] /\ ends[before - 1] \in 0..n
    BY <1>8, <2>1
  <2> QED
    BY <1>11, <2>1, <2>2
<1>13. size = 1
  <2> SUFFICES ASSUME size # 1 PROVE FALSE
    OBVIOUS
  <2>1. 2 \in 1..size /\ 2 - 1 = 1 /\ 2 \in 0..size
    BY <1>7, <1>12
  <2>2. ends[1] < ends[2] /\ ends[2] \in 0..n
    BY <1>8, <2>1
  <2> QED
    BY <1>3, <1>1, <1>10, <1>12, <2>2
<1>14. parts[1] = Slot(slug)
  <2>1. SubSeq(template, (ends[1 - 1] + 1) + 1, ends[1] - 1) = slug
    <3>1. PICK inner : inner = SubSeq(template, 2, n - 1)
      OBVIOUS
    <3>2. 2 \in Int /\ n - 1 \in Int /\ \A k \in 2..(n - 1) : template[k] \in TemplateTokens
      <4>1. \A k \in 2..(n - 1) : k \in 1..n
        BY <1>1, <1>3
      <4> QED
        BY <1>1, <1>3, <1>4, <4>1, ElementOfSeq
    <3>3. PICK a \in Int, b \in Int : /\ a = 2 /\ b = n - 1
                                      /\ \A k \in a..b : template[k] \in TemplateTokens
      BY <3>2
    <3>4. /\ SubSeq(template, a, b) \in Seq(TemplateTokens)
          /\ Len(SubSeq(template, a, b)) = IF a <= b THEN b - a + 1 ELSE 0
          /\ \A k \in 1..(b - a + 1) : SubSeq(template, a, b)[k] = template[a + k - 1]
      BY <3>3, SubSeqProperties
    <3>5. inner \in Seq(TemplateTokens) /\ Len(inner) = m /\ \A k \in 1..m : inner[k] = slug[k]
      <4>1. a <= b /\ b - a + 1 = m /\ \A k \in 1..m : a + k - 1 = k + 1
        BY <1>1, <1>3, <3>3
      <4>2. inner = SubSeq(template, a, b)
        BY <3>1, <3>3
      <4> QED
        BY <1>4, <3>4, <4>1, <4>2
    <3>6. inner = slug
      BY <1>1, <3>5, SeqEqual
    <3>7. (ends[1 - 1] + 1) + 1 = 2 /\ ends[1] - 1 = n - 1
      BY <1>10, <1>12
    <3> QED
      BY <3>1, <3>6, <3>7
  <2>2. PartOf(template, parts[1], ends[1 - 1] + 1, ends[1])
    BY <1>6, <1>7, <1>13 DEF Ends
  <2>3. parts[1].segment = "slot"
    BY <1>9, <1>12
  <2>4. PICK from, to, part : from = ends[1 - 1] + 1 /\ to = ends[1] /\ part = parts[1]
    OBVIOUS
  <2>5. /\ PartOf(template, part, from, to) /\ part.segment = "slot"
        /\ SubSeq(template, from + 1, to - 1) = slug
    BY <2>1, <2>2, <2>3, <2>4
  <2>6. PICK whole, inner :
          whole = SubSeq(template, from, to) /\ inner = SubSeq(template, from + 1, to - 1)
    OBVIOUS
  <2>7. part = TextSegment(whole) \/ part = Slot(inner)
    BY <2>5, <2>6 DEF PartOf
  <2>8. TextSegment(whole).segment # "slot"
    BY DEF TextSegment
  <2> QED
    BY <2>4, <2>5, <2>6, <2>7, <2>8
<1>15. parts = <<Slot(slug)>>
  <2>1. PICK slot : slot = Slot(slug)
    OBVIOUS
  <2>2. slot \in Segments /\ <<slot>> \in Seq(Segments) /\ Len(<<slot>>) = 1 /\ <<slot>>[1] = slot
    <3>1. parts[1] \in Segments
      BY <1>7, <1>8, <1>13, ElementOfSeq
    <3> QED
      BY <1>14, <2>1, <3>1
  <2>3. Len(parts) = Len(<<slot>>) /\ \A k \in 1..Len(parts) : parts[k] = <<slot>>[k]
    BY <1>7, <1>13, <1>14, <2>1, <2>2
  <2> QED
    BY <1>8, <2>1, <2>2, <2>3, SeqEqual
<1> QED
  BY <1>3, <1>6, <1>15

\* Whatever sentence an application gives, and however long it is: its segments say it
\* again with a slot at every placeholder, every slug can be placed, and a sentence that
\* is shown links its slugs and nothing else (split_template, AcceptanceSentence).
THEOREM SentenceSlots == ReadersSpec => []SlotsAreThePlaceholders
<1>1. TextInv => SlotsAreThePlaceholders
  <2> SUFFICES ASSUME TextInv, reader = "template" PROVE SlotsAreThePlaceholders
    BY DEF SlotsAreThePlaceholders
  <2>1. text \in Seq(TemplateTokens)
    BY DEF TextInv
  <2>2. PICK segments : segments = SplitTemplate(text)
    OBVIOUS
  <2>3. WrittenOut(segments) = text /\ Places(segments, {"slot"}) = Placeholders(text)
    BY <2>1, <2>2, SlotsFound
  <2>4. IsSlug(text) => SplitTemplate(Braced(text)) = <<Slot(text)>>
    BY <2>1, SlugsFit
  <2>5. ASSUME NEW published \in SlugChoices, NEW slugs \in SlugChoices, NEW sentence,
               sentence = AcceptanceSentence(published, slugs, text)
        PROVE  /\ sentence = << >> <=> (text = << >> \/ ~ slugs \subseteq published)
               /\ sentence # << >> =>
                    Places(sentence, {"link"}) =
                      {place \in Placeholders(text) :
                         SubSeq(text, place[1] + 1, place[2] - 1) \in slugs}
    BY <2>1, <2>5, LinksFound
  <2> QED
    BY <2>2, <2>3, <2>4, <2>5 DEF SlotsAreThePlaceholders
<1> QED
  BY <1>1, TextInvariant, PTL
==============================================================================
