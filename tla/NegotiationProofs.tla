-------------------------- MODULE NegotiationProofs --------------------------
(***************************************************************************)
(* Proofs about Negotiation: what a reader is served, for every set of     *)
(* locales and every header.                                               *)
(***************************************************************************)
EXTENDS Negotiation, CatalogProofs, FiniteSetTheorems, SequenceTheorems

(***************************************************************************)
(* Tags.                                                                   *)
(***************************************************************************)
Subtags == Languages \cup Scripts \cup Regions

\* What is asked for: a tag, or none.
IsWanted(tag) == tag = NoTag \/ IsTag(tag)

\* A tag is a sequence with a language in front.
LEMMA TagIsSequence ==
  ASSUME NEW tag, IsTag(tag)
  PROVE  tag \in Seq(Subtags) /\ tag # NoTag /\ Len(tag) \in Nat \ {0}
<1>1. CASE tag \in {<<language>> : language \in Languages}
  <2>1. PICK language \in Languages : tag = <<language>>
    BY <1>1
  <2>2. <<language>> \in Seq(Subtags) /\ Len(<<language>>) = 1
    BY DEF Subtags
  <2> QED
    BY <2>1, <2>2 DEF NoTag
<1>2. CASE tag \in Languages \X (Scripts \cup Regions)
  <2>1. PICK language \in Languages, second \in Scripts \cup Regions :
          tag = <<language, second>>
    BY <1>2
  <2>2. <<language, second>> \in Seq(Subtags) /\ Len(<<language, second>>) = 2
    BY DEF Subtags
  <2> QED
    BY <2>1, <2>2 DEF NoTag
<1>3. CASE tag \in Languages \X Scripts \X Regions
  <2>1. PICK language \in Languages, script \in Scripts, region \in Regions :
          tag = <<language, script, region>>
    BY <1>3
  <2>2. /\ <<language, script, region>> \in Seq(Subtags)
        /\ Len(<<language, script, region>>) = 3
    BY DEF Subtags
  <2> QED
    BY <2>1, <2>2 DEF NoTag
<1> QED
  BY <1>1, <1>2, <1>3 DEF IsTag

\* The first of some locales is one of them, and the only one that comes first.
LEMMA FirstIsFirst ==
  ASSUME NEW tags \in SUBSET Tags
  PROVE  /\ tags = {} => First(tags) = NoTag
         /\ tags # {} => First(tags) \in tags
         /\ \A tag \in tags : (\A other \in tags : TextOrder[tag] <= TextOrder[other])
                                <=> tag = First(tags)
<1> DEFINE Leads(tag) == \A other \in tags : TextOrder[tag] <= TextOrder[other]
           chosen == CHOOSE tag \in tags : Leads(tag)
<1>1. \A tag \in tags : TextOrder[tag] \in Nat
  BY NegotiationAssumption
<1>2. tags # {} => \E tag \in tags : Leads(tag)
  <2> SUFFICES ASSUME tags # {} PROVE \E tag \in tags : Leads(tag)
    OBVIOUS
  <2> DEFINE places == {TextOrder[tag] : tag \in tags}
  <2>1. places \in SUBSET Nat /\ places # {}
    BY <1>1
  <2>2. PICK least \in places : \A place \in places : least <= place
    BY <2>1, LeastExists
  <2>3. PICK tag \in tags : TextOrder[tag] = least
    OBVIOUS
  <2> QED
    BY <2>2, <2>3
<1>3. tags # {} => chosen \in tags /\ Leads(chosen)
  BY <1>2
<1>4. ASSUME NEW tag \in tags, Leads(tag) PROVE tag = chosen
  <2>1. TextOrder[tag] = TextOrder[chosen]
    BY <1>1, <1>3, <1>4
  <2> QED
    BY <1>3, <2>1, NegotiationAssumption
<1> HIDE DEF chosen
<1>5. First(tags) = IF tags = {} THEN NoTag ELSE chosen
  BY DEF First, chosen
<1> QED
  BY <1>3, <1>4, <1>5

\* One more locale comes first, or the same one still does.
LEMMA FirstIsConservative ==
  ASSUME NEW tags \in SUBSET Tags, NEW new \in Tags
  PROVE  First(tags \cup {new}) \in {First(tags), new} \ {NoTag}
<1> DEFINE more == tags \cup {new}
           chosen == First(more)
<1>1. chosen \in more /\ \A other \in more : TextOrder[chosen] <= TextOrder[other]
  BY FirstIsFirst
<1>2. chosen \in tags => chosen = First(tags)
  BY <1>1, FirstIsFirst
<1>3. chosen # NoTag
  BY <1>1, TagIsSequence, NegotiationAssumption
<1> QED
  BY <1>1, <1>2, <1>3

(***************************************************************************)
(* Lookup.                                                                 *)
(***************************************************************************)
LEMMA GreatestExists ==
  ASSUME NEW n \in Nat, NEW S \in SUBSET (0..n), S # {}
  PROVE  Max(S) \in S /\ \A x \in S : x <= Max(S)
<1> DEFINE distances == {n - x : x \in S}
<1>1. \A x \in S : x \in Int /\ n - x \in Nat
  OBVIOUS
<1>2. PICK least \in distances : \A y \in distances : least <= y
  <2>1. distances \in SUBSET Nat /\ distances # {}
    BY <1>1
  <2> QED
    BY <2>1, LeastExists
<1>3. \E greatest \in S : \A x \in S : greatest >= x
  <2>1. PICK greatest \in S : least = n - greatest
    BY <1>2
  <2>2. ASSUME NEW x \in S PROVE greatest >= x
    <3>1. least <= n - x
      BY <1>2
    <3> QED
      BY <1>1, <2>1, <3>1
  <2> QED
    BY <2>2
<1>4. Max(S) \in S /\ \A x \in S : Max(S) >= x
  BY <1>3 DEF Max
<1> QED
  BY <1>1, <1>4

\* The truncations that are hosted: the longest of them is one, and each keeps the
\* language.
LEMMA HitsAreHosted ==
  ASSUME NEW tags \in SUBSET Tags, NEW wanted, IsWanted(wanted)
  PROVE  /\ Hits(tags, wanted) # {} =>
              /\ Max(Hits(tags, wanted)) \in Hits(tags, wanted)
              /\ \A n \in Hits(tags, wanted) : n <= Max(Hits(tags, wanted))
         /\ \A n \in Hits(tags, wanted) :
              /\ n \in Nat
              /\ wanted # NoTag
              /\ Truncated(wanted, n) \in tags
              /\ Truncated(wanted, n)[1] = wanted[1]
<1> DEFINE hits == Hits(tags, wanted)
<1>1. wanted \in Seq(Subtags) /\ Len(wanted) \in Nat
  <2>1. NoTag \in Seq(Subtags) /\ Len(NoTag) = 0
    BY DEF NoTag
  <2>2. CASE wanted = NoTag
    BY <2>1, <2>2
  <2>3. CASE IsTag(wanted)
    BY <2>3, TagIsSequence
  <2> QED
    BY <2>2, <2>3 DEF IsWanted
<1>2. hits \in SUBSET (0..Len(wanted))
  BY <1>1 DEF Hits
<1>3. hits # {} => Max(hits) \in hits /\ \A n \in hits : n <= Max(hits)
  <2> HIDE DEF hits
  <2> QED
    BY <1>1, <1>2, GreatestExists
<1>4. ASSUME NEW n \in hits
      PROVE  /\ n \in Nat
             /\ wanted # NoTag
             /\ Truncated(wanted, n) \in tags
             /\ Truncated(wanted, n)[1] = wanted[1]
  <2>1. n \in 1..Len(wanted) /\ Truncated(wanted, n) \in tags
    BY DEF Hits
  <2>2. wanted # NoTag
    BY <2>1 DEF NoTag
  <2>3. \A i \in 1..n : wanted[i] \in Subtags
    BY <1>1, <2>1
  <2>4. Truncated(wanted, n)[1] = wanted[1]
    BY <1>1, <2>1, <2>3, SubSeqProperties DEF Truncated
  <2> QED
    BY <1>1, <2>1, <2>2, <2>4
<1> QED
  BY <1>3, <1>4

\* The locales in the language of what is wanted.
Related(tags, wanted) == {have \in tags : SameLanguage(have, wanted)}

\* They are those with the same first subtag.
LEMMA RelatedShareLanguage ==
  ASSUME NEW tags \in SUBSET Tags, NEW wanted, IsWanted(wanted)
  PROVE  Related(tags, wanted) =
           {have \in tags : wanted # NoTag /\ have[1] = wanted[1]}
<1>1. \A have \in tags : have # NoTag /\ Head(have) = have[1]
  BY TagIsSequence, NegotiationAssumption
<1>2. wanted # NoTag => Head(wanted) = wanted[1]
  BY TagIsSequence DEF IsWanted
<1> QED
  BY <1>1, <1>2 DEF Related, SameLanguage

\* A locale is found exactly when the language is hosted, and is in that language.
LEMMA LookupAnswers ==
  ASSUME NEW tags \in SUBSET Tags, NEW wanted, IsWanted(wanted)
  PROVE  /\ Lookup(tags, wanted) \in tags \cup {NoTag}
         /\ Lookup(tags, wanted) # NoTag
              <=> wanted # NoTag /\ \E have \in tags : have[1] = wanted[1]
         /\ Lookup(tags, wanted) # NoTag => Lookup(tags, wanted)[1] = wanted[1]
<1> DEFINE hits == Hits(tags, wanted)
           related == Related(tags, wanted)
<1>1. Lookup(tags, wanted) =
        IF hits # {} THEN Truncated(wanted, Max(hits)) ELSE First(related)
  BY DEF Lookup, Fallback, Related
<1>2. NoTag \notin tags
  BY TagIsSequence, NegotiationAssumption
<1>3. related = {have \in tags : wanted # NoTag /\ have[1] = wanted[1]}
  BY RelatedShareLanguage
<1>4. CASE hits # {}
  <2>1. Max(hits) \in hits
    BY <1>4, HitsAreHosted
  <2>2. PICK n \in hits : n = Max(hits)
    BY <2>1
  <2>3. /\ wanted # NoTag
        /\ Truncated(wanted, n) \in tags
        /\ Truncated(wanted, n)[1] = wanted[1]
    BY HitsAreHosted
  <2>4. Lookup(tags, wanted) = Truncated(wanted, n)
    BY <1>1, <1>4, <2>2, Zenon
  <2>5. /\ wanted # NoTag
        /\ Lookup(tags, wanted) \in tags
        /\ Lookup(tags, wanted)[1] = wanted[1]
    BY <2>3, <2>4
  <2> QED
    BY <1>2, <2>5
<1>5. CASE hits = {}
  <2>1. Lookup(tags, wanted) = First(related) /\ related \in SUBSET Tags
    BY <1>1, <1>3, <1>5
  <2>2. /\ related = {} => First(related) = NoTag
        /\ related # {} => First(related) \in related
    BY <2>1, FirstIsFirst
  <2> HIDE DEF related
  <2> QED
    BY <1>2, <1>3, <2>1, <2>2
<1> QED
  BY <1>4, <1>5

\* With one more locale, what was found is found still, or the new one is.
LEMMA LookupIsConservative ==
  ASSUME NEW tags \in SUBSET Tags, NEW new \in Tags, NEW wanted, IsWanted(wanted)
  PROVE  /\ Lookup(tags \cup {new}, wanted) \in {Lookup(tags, wanted), new}
         /\ Lookup(tags, wanted) # NoTag => Lookup(tags \cup {new}, wanted) # NoTag
<1> DEFINE more == tags \cup {new}
           hits == Hits(tags, wanted)
           later == Hits(more, wanted)
<1>1. more \in SUBSET Tags
  OBVIOUS
<1>2. Lookup(tags, wanted) # NoTag => Lookup(more, wanted) # NoTag
  BY <1>1, LookupAnswers
<1>3. /\ Lookup(tags, wanted) =
           IF hits # {} THEN Truncated(wanted, Max(hits)) ELSE First(Related(tags, wanted))
      /\ Lookup(more, wanted) =
           IF later # {} THEN Truncated(wanted, Max(later)) ELSE First(Related(more, wanted))
  BY DEF Lookup, Fallback, Related
<1>4. /\ hits \subseteq later
      /\ \A n \in later \ hits : Truncated(wanted, n) = new
  BY DEF Hits
<1>5. /\ hits # {} => Max(hits) \in hits /\ \A n \in hits : n <= Max(hits)
      /\ later # {} => Max(later) \in later /\ \A n \in later : n <= Max(later)
      /\ \A n \in later : n \in Nat
  BY <1>1, HitsAreHosted
<1> HIDE DEF hits, later
<1>6. CASE later # {} /\ Max(later) \in hits
  <2>1. Max(later) = Max(hits)
    BY <1>4, <1>5, <1>6
  <2> QED
    BY <1>2, <1>3, <1>6, <2>1
<1>7. CASE later # {} /\ Max(later) \notin hits
  BY <1>2, <1>3, <1>4, <1>5, <1>7
<1>8. CASE later = {}
  <2>1. Lookup(tags, wanted) = First(Related(tags, wanted))
    BY <1>3, <1>4, <1>8
  <2>2. Lookup(more, wanted) = First(Related(more, wanted))
    BY <1>3, <1>8
  <2>3. \/ Related(more, wanted) = Related(tags, wanted)
        \/ Related(more, wanted) = Related(tags, wanted) \cup {new}
    BY DEF Related
  <2>4. Related(tags, wanted) \in SUBSET Tags
    BY DEF Related
  <2> QED
    BY <1>2, <2>1, <2>2, <2>3, <2>4, FirstIsConservative
<1> QED
  BY <1>6, <1>7, <1>8

(***************************************************************************)
(* What is read of a header.  The sort gives every place to exactly one of *)
(* the ranges that are kept (EveryRankIsTaken).                            *)
(***************************************************************************)
\* Weights are numbers.
LEMMA WeightIsNumber ==
  ASSUME NEW q, q = NoWeight \/ IsWeight(q)
  PROVE  Weight(q) \in Int
<1>1. CASE q = NoWeight
  BY <1>1 DEF Weight
<1>2. CASE q # NoWeight
  <2>1. q.fraction \in Seq(0..9)
    BY <1>2 DEF IsWeight
  <2> DEFINE Digit(i) == IF i \in DOMAIN q.fraction THEN q.fraction[i] ELSE 0
  <2>2. Thousandths(q.fraction) = 100 * Digit(1) + 10 * Digit(2) + Digit(3)
    BY DEF Thousandths
  <2>3. \A i : Digit(i) \in Int
    BY <2>1
  <2> HIDE DEF Digit
  <2>4. Thousandths(q.fraction) \in Int
    BY <2>2, <2>3
  <2> QED
    BY <1>2, <2>4 DEF Weight, Malformed
<1> QED
  BY <1>1, <1>2

\* A range counts exactly when its weight is a number above 0 and up to 1, written
\* with at most three digits, and then weighs that number.
LEMMA WeightIsValue ==
  ASSUME NEW q, q = NoWeight \/ IsWeight(q)
  PROVE  /\ Value(q) \in Int
         /\ Weight(q) > 0 <=> /\ q # NoWeight => Len(q.fraction) <= 3
                              /\ Value(q) \in 1..1000
         /\ Weight(q) > 0 => Weight(q) = Value(q)
<1>1. CASE q = NoWeight
  BY <1>1 DEF Weight, Value
<1>2. CASE q # NoWeight
  <2>1. q.fraction \in Seq(0..9) /\ q.whole \in 0..2
    BY <1>2 DEF IsWeight
  <2> DEFINE Digit(i) == IF i \in DOMAIN q.fraction THEN q.fraction[i] ELSE 0
  <2>2. Thousandths(q.fraction) = 100 * Digit(1) + 10 * Digit(2) + Digit(3)
    BY DEF Thousandths
  <2>3. \A i : Digit(i) \in 0..9
    BY <2>1
  <2> HIDE DEF Digit
  <2>4. PICK rest \in 0..999 : rest = Thousandths(q.fraction)
    BY <2>2, <2>3
  <2>5. Value(q) = 1000 * q.whole + rest
    BY <1>2, <2>4 DEF Value
  <2>6. Weight(q) = IF Len(q.fraction) <= 3 /\ q.whole = 0 THEN rest
                    ELSE IF Len(q.fraction) <= 3 /\ q.whole = 1 /\ rest = 0 THEN 1000
                    ELSE -1
    BY <1>2, <2>1, <2>4 DEF Weight, Malformed
  <2>7. CASE ~ (Len(q.fraction) <= 3)
    <3>1. Weight(q) = -1 /\ Value(q) \in Int
      BY <2>1, <2>5, <2>6, <2>7
    <3> QED
      BY <1>2, <2>7, <3>1
  <2>8. CASE Len(q.fraction) <= 3 /\ q.whole = 0
    <3>1. Weight(q) = rest /\ Value(q) = rest
      BY <2>5, <2>6, <2>8
    <3> QED
      BY <2>8, <3>1
  <2>9. CASE Len(q.fraction) <= 3 /\ q.whole = 1 /\ rest = 0
    <3>1. Weight(q) = 1000 /\ Value(q) = 1000
      BY <2>5, <2>6, <2>9
    <3> QED
      BY <2>9, <3>1
  <2>10. CASE Len(q.fraction) <= 3 /\ q.whole = 1 /\ rest # 0
    <3>1. Weight(q) = -1 /\ Value(q) = 1000 + rest
      BY <2>5, <2>6, <2>10
    <3>2. PICK over \in 1001..1999 : over = 1000 + rest
      BY <2>10
    <3>3. Value(q) = over
      BY <3>1, <3>2
    <3> QED
      BY <3>1, <3>3
  <2>11. CASE Len(q.fraction) <= 3 /\ q.whole = 2
    <3>1. Weight(q) = -1 /\ Value(q) = 2000 + rest
      BY <2>5, <2>6, <2>11
    <3>2. PICK over \in 2000..2999 : over = 2000 + rest
      OBVIOUS
    <3>3. Value(q) = over
      BY <3>1, <3>2
    <3> QED
      BY <3>1, <3>3
  <2> QED
    BY <2>1, <2>7, <2>8, <2>9, <2>10, <2>11
<1> QED
  BY <1>1, <1>2

\* The positions that count, which of two goes first, and which are kept.
UsableIn(ranges) == {i \in DOMAIN ranges : i <= MaxRanges /\ Usable(ranges[i])}

Ahead(ranges, i, j) ==
  \/ Weight(ranges[i].q) > Weight(ranges[j].q)
  \/ Weight(ranges[i].q) = Weight(ranges[j].q) /\ i < j

KeptIn(ranges) ==
  {i \in UsableIn(ranges) :
     ~ \E j \in UsableIn(ranges) : ranges[j].tag = ranges[i].tag /\ Ahead(ranges, j, i)}

\* A range that is used has a tag and a weight.
LEMMA UsableHasTag ==
  ASSUME NEW ranges \in Seq(Ranges)
  PROVE  \A i \in DOMAIN ranges :
           /\ i \in Nat
           /\ Weight(ranges[i].q) \in Int
           /\ i \in UsableIn(ranges) => IsTag(ranges[i].tag)
<1> SUFFICES ASSUME NEW i \in DOMAIN ranges
             PROVE  /\ i \in Nat
                    /\ Weight(ranges[i].q) \in Int
                    /\ i \in UsableIn(ranges) => IsTag(ranges[i].tag)
  OBVIOUS
<1>1. ranges[i] \in Ranges /\ i \in Nat
  OBVIOUS
<1>2. Weight(ranges[i].q) \in Int /\ (ranges[i].tag = NoTag \/ IsTag(ranges[i].tag))
  BY <1>1, WeightIsNumber, NegotiationAssumption
<1> QED
  BY <1>1, <1>2 DEF UsableIn, Usable

\* Some positions of a header in the order of the sort: it is strict and total, and
\* there are finitely many.
LEMMA AheadIsAnOrder ==
  ASSUME NEW ranges \in Seq(Ranges), NEW S \in SUBSET DOMAIN ranges
  PROVE  LET order == {p \in S \X S : Ahead(ranges, p[1], p[2])}
         IN  /\ IsFiniteSet(S)
             /\ \A i, j \in S : <<i, j>> \in order <=> Ahead(ranges, i, j)
             /\ \A i \in S : <<i, i>> \notin order
             /\ \A i, j \in S : i # j => <<i, j>> \in order \/ <<j, i>> \in order
             /\ \A i, j, k \in S :
                  <<i, j>> \in order /\ <<j, k>> \in order => <<i, k>> \in order
<1> DEFINE order == {p \in S \X S : Ahead(ranges, p[1], p[2])}
<1>1. \A i \in S : i \in Nat /\ Weight(ranges[i].q) \in Int
  BY UsableHasTag
<1>2. IsFiniteSet(S)
  <2>1. DOMAIN ranges = 1..Len(ranges) /\ Len(ranges) \in Nat
    OBVIOUS
  <2>2. IsFiniteSet(DOMAIN ranges)
    BY <2>1, FS_Interval
  <2> QED
    BY <2>2, FS_Subset
<1>3. \A i, j \in S : <<i, j>> \in order <=> Ahead(ranges, i, j)
  OBVIOUS
<1>4. /\ \A i \in S : ~ Ahead(ranges, i, i)
      /\ \A i, j \in S : i # j => Ahead(ranges, i, j) \/ Ahead(ranges, j, i)
      /\ \A i, j, k \in S :
           Ahead(ranges, i, j) /\ Ahead(ranges, j, k) => Ahead(ranges, i, k)
  BY <1>1 DEF Ahead
<1> HIDE DEF order
<1>5. /\ \A i \in S : <<i, i>> \notin order
      /\ \A i, j \in S : i # j => <<i, j>> \in order \/ <<j, i>> \in order
      /\ \A i, j, k \in S :
           <<i, j>> \in order /\ <<j, k>> \in order => <<i, k>> \in order
  BY <1>3, <1>4
<1> QED
  BY <1>2, <1>3, <1>5 DEF order

\* Of any positions that there are one is ahead of all others.
LEMMA AheadHasFirst ==
  ASSUME NEW ranges \in Seq(Ranges), NEW S \in SUBSET DOMAIN ranges, S # {}
  PROVE  \E i \in S : \A j \in S : j = i \/ Ahead(ranges, i, j)
<1>1. PICK order : order = {p \in S \X S : Ahead(ranges, p[1], p[2])}
  OBVIOUS
<1>2. /\ IsFiniteSet(S)
      /\ \A i, j \in S : <<i, j>> \in order <=> Ahead(ranges, i, j)
      /\ \A i \in S : <<i, i>> \notin order
      /\ \A i, j \in S : i # j => <<i, j>> \in order \/ <<j, i>> \in order
      /\ \A i, j, k \in S :
           <<i, j>> \in order /\ <<j, k>> \in order => <<i, k>> \in order
  BY <1>1, AheadIsAnOrder
<1>3. Cardinality(S) \in Nat /\ Cardinality(S) # 0
  BY <1>2, FS_CardinalityType, FS_EmptySet
<1>4. \A n \in 1..Cardinality(S) : \E i \in S : Cardinality(Predecessors(S, order, i)) = n - 1
  BY <1>2, EveryRankIsTaken
<1>5. PICK i \in S : Cardinality(Predecessors(S, order, i)) = 0
  <2>1. 1 \in 1..Cardinality(S)
    BY <1>3
  <2>2. PICK i \in S : Cardinality(Predecessors(S, order, i)) = 1 - 1
    BY <1>4, <2>1
  <2> QED
    BY <2>2
<1>6. Predecessors(S, order, i) = {}
  <2>1. IsFiniteSet(Predecessors(S, order, i))
    BY <1>2, FS_Subset DEF Predecessors
  <2> QED
    BY <1>5, <2>1, FS_EmptySet
<1> QED
  BY <1>2, <1>6 DEF Predecessors

\* The list that is read has the tags of the kept positions, each once, and a
\* position that is ahead of another comes before it.
LEMMA ParsedInOrder ==
  ASSUME NEW ranges \in Seq(Ranges)
  PROVE  \E at :
           /\ at \in [1..Cardinality(KeptIn(ranges)) -> KeptIn(ranges)]
           /\ \A i \in KeptIn(ranges) : \E n \in DOMAIN at : at[n] = i
           /\ \A m, n \in DOMAIN at : Ahead(ranges, at[m], at[n]) => m < n
           /\ ParseRanges(ranges) = [n \in DOMAIN at |-> ranges[at[n]].tag]
<1> DEFINE kept == KeptIn(ranges)
           order == {p \in kept \X kept : Ahead(ranges, p[1], p[2])}
           rank(i) == Cardinality({j \in kept : Ahead(ranges, j, i)})
           At(n) == CHOOSE i \in kept : rank(i) = n - 1
           size == Cardinality(kept)
<1>1. ParseRanges(ranges) = [n \in 1..size |-> ranges[At(n)].tag]
  <2> DEFINE weight == [i \in DOMAIN ranges |-> Weight(ranges[i].q)]
             usable == UsableIn(ranges)
             Before(i, j) == weight[i] > weight[j] \/ (weight[i] = weight[j] /\ i < j)
             others == {i \in usable : ~ \E j \in usable : ranges[j].tag = ranges[i].tag /\ Before(j, i)}
             Place(n) == CHOOSE i \in others : Cardinality({j \in others : Before(j, i)}) = n - 1
  <2>1. ParseRanges(ranges) = [n \in 1..Cardinality(others) |-> ranges[Place(n)].tag]
    BY DEF ParseRanges, UsableIn
  <2>2. \A i, j \in DOMAIN ranges : Before(i, j) <=> Ahead(ranges, i, j)
    BY DEF Ahead
  <2>3. usable \subseteq DOMAIN ranges
    BY DEF UsableIn
  <2> HIDE DEF Before, usable
  <2>4. others = kept
    BY <2>2, <2>3 DEF KeptIn, usable
  <2>5. kept \subseteq DOMAIN ranges
    BY DEF KeptIn, UsableIn
  <2> HIDE DEF others, kept
  <2>6. \A i \in kept : {j \in others : Before(j, i)} = {j \in kept : Ahead(ranges, j, i)}
    BY <2>2, <2>4, <2>5
  <2>7. \A n : Place(n) = At(n)
    BY <2>4, <2>6
  <2> HIDE DEF Place, At
  <2> QED
    BY <2>1, <2>4, <2>7
<1>2. kept \in SUBSET DOMAIN ranges
  BY DEF KeptIn, UsableIn
<1> HIDE DEF kept
<1>3. /\ IsFiniteSet(kept)
      /\ \A i, j \in kept : <<i, j>> \in order <=> Ahead(ranges, i, j)
      /\ \A i \in kept : <<i, i>> \notin order
      /\ \A i, j \in kept : i # j => <<i, j>> \in order \/ <<j, i>> \in order
      /\ \A i, j, k \in kept :
           <<i, j>> \in order /\ <<j, k>> \in order => <<i, k>> \in order
  BY <1>2, AheadIsAnOrder
<1> HIDE DEF order
<1>4. \A i \in kept : Predecessors(kept, order, i) = {j \in kept : Ahead(ranges, j, i)}
  BY <1>3 DEF Predecessors
<1>5. /\ size \in Nat
      /\ \A i \in kept : rank(i) \in 0..(size - 1)
      /\ \A i, k \in kept : Ahead(ranges, i, k) => rank(i) < rank(k)
      /\ \A n \in 1..size : \E i \in kept : rank(i) = n - 1
  <2>1. /\ size \in Nat
        /\ \A i \in kept : Cardinality(Predecessors(kept, order, i)) \in 0..(size - 1)
        /\ \A i, k \in kept : <<i, k>> \in order =>
             Cardinality(Predecessors(kept, order, i)) < Cardinality(Predecessors(kept, order, k))
        /\ \A n \in 1..size : \E i \in kept : Cardinality(Predecessors(kept, order, i)) = n - 1
    BY <1>3, EveryRankIsTaken
  <2> HIDE DEF size
  <2> QED
    BY <1>3, <1>4, <2>1
<1> HIDE DEF rank, size
<1>6. \A n \in 1..size : At(n) \in kept /\ rank(At(n)) = n - 1
  BY <1>5
<1> HIDE DEF At
<1>7. PICK at : at = [n \in 1..size |-> At(n)]
  OBVIOUS
<1>8. at \in [1..size -> kept]
  BY <1>6, <1>7
<1>9. ASSUME NEW i \in kept PROVE \E n \in 1..size : at[n] = i
  <2>1. rank(i) + 1 \in 1..size
    BY <1>5
  <2>2. PICK n \in 1..size : n = rank(i) + 1
    BY <2>1
  <2>3. at[n] \in kept /\ rank(at[n]) = n - 1
    BY <1>6, <1>7
  <2>4. rank(i) \in Int /\ rank(at[n]) = rank(i)
    BY <1>5, <2>2, <2>3
  <2>5. ~ Ahead(ranges, i, at[n]) /\ ~ Ahead(ranges, at[n], i)
    BY <1>5, <2>3, <2>4
  <2> QED
    BY <1>3, <2>3, <2>5
<1>10. ASSUME NEW m \in 1..size, NEW n \in 1..size, Ahead(ranges, at[m], at[n])
       PROVE  m < n
  <2>1. rank(at[m]) = m - 1 /\ rank(at[n]) = n - 1 /\ at[m] \in kept /\ at[n] \in kept
    BY <1>6, <1>7
  <2>2. rank(at[m]) < rank(at[n])
    BY <1>5, <1>10, <2>1
  <2> QED
    BY <2>1, <2>2
<1>11. ParseRanges(ranges) = [n \in 1..size |-> ranges[at[n]].tag]
  BY <1>1, <1>7
<1>12. DOMAIN at = 1..size
  BY <1>7
<1>13. /\ at \in [1..size -> kept]
       /\ \A i \in kept : \E n \in DOMAIN at : at[n] = i
       /\ \A m, n \in DOMAIN at : Ahead(ranges, at[m], at[n]) => m < n
       /\ ParseRanges(ranges) = [n \in DOMAIN at |-> ranges[at[n]].tag]
  BY <1>8, <1>9, <1>10, <1>11, <1>12
<1>14. size = Cardinality(KeptIn(ranges)) /\ kept = KeptIn(ranges)
  BY DEF kept, size
<1> QED
  BY <1>13, <1>14

\* Whatever is read is a list of tags.
LEMMA RangesAreTags ==
  ASSUME NEW ranges \in Seq(Ranges)
  PROVE  /\ DOMAIN ParseRanges(ranges) \in SUBSET Nat
         /\ \A n \in DOMAIN ParseRanges(ranges) : IsTag(ParseRanges(ranges)[n])
<1>1. PICK at :
        /\ at \in [1..Cardinality(KeptIn(ranges)) -> KeptIn(ranges)]
        /\ ParseRanges(ranges) = [n \in DOMAIN at |-> ranges[at[n]].tag]
  BY ParsedInOrder
<1>2. \A i \in KeptIn(ranges) : IsTag(ranges[i].tag)
  BY UsableHasTag DEF KeptIn, UsableIn
<1>3. IsFiniteSet(KeptIn(ranges))
  <2>1. KeptIn(ranges) \in SUBSET DOMAIN ranges
    BY DEF KeptIn, UsableIn
  <2> QED
    BY <2>1, AheadIsAnOrder
<1>4. Cardinality(KeptIn(ranges)) \in Nat
  BY <1>3, FS_CardinalityType
<1> QED
  BY <1>1, <1>2, <1>4

\* A list of tags, as it is read of a header.
IsAccept(list) ==
  DOMAIN list \in SUBSET Nat /\ \A n \in DOMAIN list : IsTag(list[n])

\* Whatever is sent, cut or not, a list of tags is read of it.
LEMMA HeaderIsRead ==
  ASSUME NEW ranges \in Seq(Ranges)
  PROVE  IsAccept(Parse(ranges))
<1> DEFINE whole == WholeRanges(ranges)
           cut == SubSeq(ranges, 1, Cardinality(whole))
<1>1. IsAccept(ParseRanges(ranges))
  BY RangesAreTags DEF IsAccept
<1>2. DOMAIN ranges = 1..Len(ranges) /\ Len(ranges) \in Nat
  OBVIOUS
<1>3. IsFiniteSet(1..Len(ranges)) /\ Cardinality(1..Len(ranges)) = Len(ranges)
  BY <1>2, FS_Interval
<1>4. whole \in SUBSET (1..Len(ranges))
  BY <1>2 DEF WholeRanges
<1> HIDE DEF whole
<1>5. IsFiniteSet(whole) /\ Cardinality(whole) <= Len(ranges)
  BY <1>3, <1>4, FS_Subset
<1>6. Cardinality(whole) \in Nat
  BY <1>5, FS_CardinalityType
<1>7. \A i \in 1..Cardinality(whole) : ranges[i] \in Ranges
  BY <1>2, <1>5, <1>6
<1>8. cut \in Seq(Ranges)
  BY <1>6, <1>7, SubSeqProperties
<1>9. IsAccept(ParseRanges(cut))
  <2> HIDE DEF cut
  <2> QED
    BY <1>8, RangesAreTags DEF IsAccept
<1> QED
  BY <1>1, <1>9 DEF Parse, ParseCut, whole

(***************************************************************************)
(* Where ranges end.  EndOf is a function by recursion; that there is one  *)
(* is shown from its beginnings, which exist for every length and agree.   *)
(***************************************************************************)
Begins(g, m, u) == g = [k \in 0..m |-> IF k = 0 THEN -1 ELSE g[k - 1] + 1 + u[k]]

\* There is a beginning of every length.
LEMMA BeginningsExist ==
  ASSUME NEW u
  PROVE  \A m \in Nat : \E g : Begins(g, m, u)
<1> DEFINE Without == {m \in Nat : ~ \E g : Begins(g, m, u)}
<1> SUFFICES ASSUME Without # {} PROVE FALSE
  OBVIOUS
<1>1. PICK m \in Without : \A other \in Without : m <= other
  BY LeastExists
<1>2. m \in Nat /\ ~ \E g : Begins(g, m, u)
  OBVIOUS
<1>3. CASE m = 0
  <2> DEFINE g == [k \in 0..0 |-> -1]
  <2>1. g = [k \in 0..0 |-> IF k = 0 THEN -1 ELSE g[k - 1] + 1 + u[k]]
    OBVIOUS
  <2>2. Begins(g, m, u)
    BY <1>3, <2>1 DEF Begins
  <2> QED
    BY <1>2, <2>2
<1>4. CASE m # 0
  <2>1. m - 1 \in Nat /\ ~ (m <= m - 1)
    BY <1>2, <1>4
  <2>2. PICK g : Begins(g, m - 1, u)
    BY <1>1, <2>1
  <2>3. PICK total : total = g[m - 1] + 1 + u[m]
    OBVIOUS
  <2>4. /\ \A k \in 0..(m - 1) : g[k] = IF k = 0 THEN -1 ELSE g[k - 1] + 1 + u[k]
    BY <2>2 DEF Begins
  <2>5. PICK h : h = [k \in 0..m |-> IF k = m THEN total ELSE g[k]]
    OBVIOUS
  <2>6. ASSUME NEW k \in 0..m
        PROVE  h[k] = IF k = 0 THEN -1 ELSE h[k - 1] + 1 + u[k]
    <3>1. CASE k = m
      <4>1. h[k] = total /\ k # 0
        BY <1>4, <2>5, <3>1
      <4>2. k - 1 \in 0..m /\ k - 1 # m
        BY <1>2, <1>4, <3>1
      <4>3. h[k - 1] = g[k - 1]
        BY <2>5, <4>2
      <4> QED
        BY <2>3, <3>1, <4>1, <4>3
    <3>2. CASE k # m
      <4>1. k \in 0..(m - 1)
        BY <1>2, <3>2
      <4>2. h[k] = g[k]
        BY <2>5, <3>2
      <4>3. CASE k = 0
        BY <2>4, <4>1, <4>2, <4>3
      <4>4. CASE k # 0
        <5>1. k - 1 \in 0..m /\ k - 1 # m
          BY <1>2, <4>1, <4>4
        <5>2. h[k - 1] = g[k - 1]
          BY <2>5, <5>1
        <5> QED
          BY <2>4, <4>1, <4>2, <4>4, <5>2
      <4> QED
        BY <4>3, <4>4
    <3> QED
      BY <3>1, <3>2
  <2>7. Begins(h, m, u)
    BY <2>5, <2>6 DEF Begins
  <2> QED
    BY <1>2, <2>7
<1> QED
  BY <1>3, <1>4

\* A longer one says what a shorter one says, where both say something.
LEMMA BeginningsAgree ==
  ASSUME NEW u, NEW m \in Nat, NEW n \in Nat, m <= n,
         NEW g, Begins(g, m, u), NEW h, Begins(h, n, u)
  PROVE  \A k \in 0..m : g[k] = h[k]
<1> DEFINE Apart == {k \in 0..m : g[k] # h[k]}
<1> SUFFICES ASSUME Apart # {} PROVE FALSE
  OBVIOUS
<1>1. PICK k \in Apart : \A other \in Apart : k <= other
  <2>1. Apart \in SUBSET Nat
    OBVIOUS
  <2> QED
    BY <2>1, LeastExists
<1>2. k \in 0..m /\ k \in 0..n /\ g[k] # h[k]
  OBVIOUS
<1>3. /\ g[k] = IF k = 0 THEN -1 ELSE g[k - 1] + 1 + u[k]
      /\ h[k] = IF k = 0 THEN -1 ELSE h[k - 1] + 1 + u[k]
  BY <1>2 DEF Begins
<1>4. k # 0
  BY <1>2, <1>3
<1>5. k - 1 \in 0..m /\ ~ (k <= k - 1)
  BY <1>2, <1>4
<1>6. g[k - 1] = h[k - 1]
  BY <1>1, <1>5
<1> QED
  BY <1>2, <1>3, <1>4, <1>6

\* The recursion of EndOf.
LEMMA EndOfRecursion ==
  ASSUME NEW ranges
  PROVE  /\ EndOf(ranges, 0) = -1
         /\ \A n \in Nat :
              EndOf(ranges, n + 1) = EndOf(ranges, n) + 1 + Units(ranges[n + 1])
<1> DEFINE u == [k \in Nat |-> Units(ranges[k])]
           Beginning(m) == CHOOSE g : Begins(g, m, u)
           Recursive(f) == f = [k \in Nat |-> IF k = 0 THEN -1 ELSE f[k - 1] + 1 + Units(ranges[k])]
           end == CHOOSE f : Recursive(f)
<1>1. \A k \in Nat : u[k] = Units(ranges[k])
  OBVIOUS
<1> HIDE DEF u
<1>2. ASSUME NEW m \in Nat PROVE Begins(Beginning(m), m, u)
  BY BeginningsExist
<1> HIDE DEF Beginning
<1>3. PICK f : f = [k \in Nat |-> Beginning(k)[k]]
  OBVIOUS
<1>4. ASSUME NEW k \in Nat
      PROVE  f[k] = IF k = 0 THEN -1 ELSE f[k - 1] + 1 + Units(ranges[k])
  <2>1. f[k] = Beginning(k)[k]
    BY <1>3
  <2>2. \A j \in 0..k :
          Beginning(k)[j] = IF j = 0 THEN -1 ELSE Beginning(k)[j - 1] + 1 + u[j]
    BY <1>2 DEF Begins
  <2>3. CASE k = 0
    BY <2>1, <2>2, <2>3
  <2>4. CASE k # 0
    <3>1. k - 1 \in Nat /\ k - 1 <= k /\ k - 1 \in 0..(k - 1) /\ k \in 0..k
      BY <2>4
    <3>2. Beginning(k - 1)[k - 1] = Beginning(k)[k - 1]
      BY <1>2, <3>1, BeginningsAgree
    <3>3. f[k - 1] = Beginning(k - 1)[k - 1]
      BY <1>3, <3>1
    <3>4. Beginning(k)[k] = Beginning(k)[k - 1] + 1 + u[k]
      BY <2>2, <2>4, <3>1
    <3> QED
      BY <1>1, <2>1, <2>4, <3>2, <3>3, <3>4
  <2> QED
    BY <2>3, <2>4
<1>5. Recursive(f)
  BY <1>3, <1>4
<1>6. Recursive(end)
  <2> HIDE DEF Recursive
  <2> QED
    BY <1>5
<1>7. \A n : EndOf(ranges, n) = end[n]
  BY DEF EndOf
<1> HIDE DEF end
<1>8. \A k \in Nat : end[k] = IF k = 0 THEN -1 ELSE end[k - 1] + 1 + Units(ranges[k])
  BY <1>6
<1>9. end[0] = -1
  BY <1>8
<1>10. ASSUME NEW n \in Nat PROVE end[n + 1] = end[n] + 1 + Units(ranges[n + 1])
  <2>1. n + 1 \in Nat /\ n + 1 # 0 /\ (n + 1) - 1 = n
    OBVIOUS
  <2>2. end[n + 1] = end[(n + 1) - 1] + 1 + Units(ranges[n + 1])
    BY <1>8, <2>1
  <2> QED
    BY <2>1, <2>2
<1> QED
  BY <1>7, <1>9, <1>10

\* Every range takes room, so that each ends after those before it.
LEMMA EndsIncrease ==
  ASSUME NEW ranges \in Seq(Ranges)
  PROVE  /\ \A n \in 0..Len(ranges) : EndOf(ranges, n) \in Int
         /\ \A m, n \in 0..Len(ranges) : m < n => EndOf(ranges, m) < EndOf(ranges, n)
<1>1. ASSUME NEW n \in 1..Len(ranges) PROVE Units(ranges[n]) \in Nat
  <2>1. ranges[n] \in Ranges
    OBVIOUS
  <2>2. ranges[n].tag = NoTag \/ IsTag(ranges[n].tag)
    BY <2>1, NegotiationAssumption
  <2>3. ranges[n].tag = NoTag \/ Len(ranges[n].tag) \in Nat
    BY <2>2, TagIsSequence
  <2> DEFINE ofTag == IF ranges[n].tag = NoTag THEN 1 ELSE Len(ranges[n].tag)
             ofWeight == IF ranges[n].q = NoWeight THEN 0 ELSE 1
  <2>4. ofTag \in Nat /\ ofWeight \in Nat
    BY <2>3
  <2>5. Units(ranges[n]) = ofTag + ofWeight
    BY DEF Units
  <2> HIDE DEF ofTag, ofWeight
  <2> QED
    BY <2>4, <2>5
<1> DEFINE Bad == {n \in 0..Len(ranges) :
                     ~ /\ EndOf(ranges, n) \in Int
                       /\ \A m \in 0..Len(ranges) : m < n => EndOf(ranges, m) < EndOf(ranges, n)}
<1>2. ASSUME Bad # {} PROVE FALSE
  <2>1. PICK n \in Bad : \A other \in Bad : n <= other
    <3>1. Bad \in SUBSET Nat
      OBVIOUS
    <3> QED
      BY <1>2, <3>1, LeastExists
  <2>2. n \in 0..Len(ranges)
    OBVIOUS
  <2>3. n # 0
    BY EndOfRecursion
  <2>4. /\ n - 1 \in 0..Len(ranges) /\ n - 1 \in Nat /\ ~ (n <= n - 1)
        /\ n \in 1..Len(ranges) /\ (n - 1) + 1 = n
    BY <2>2, <2>3
  <2>5. /\ EndOf(ranges, n - 1) \in Int
        /\ \A m \in 0..Len(ranges) : m < n - 1 => EndOf(ranges, m) < EndOf(ranges, n - 1)
    BY <2>1, <2>4
  <2>6. EndOf(ranges, n) = EndOf(ranges, n - 1) + 1 + Units(ranges[n])
    <3>1. EndOf(ranges, (n - 1) + 1) = EndOf(ranges, n - 1) + 1 + Units(ranges[(n - 1) + 1])
      BY <2>4, EndOfRecursion
    <3> QED
      BY <2>4, <3>1
  <2>7. EndOf(ranges, n) \in Int /\ EndOf(ranges, n - 1) < EndOf(ranges, n)
    BY <1>1, <2>4, <2>5, <2>6
  <2>8. ASSUME NEW m \in 0..Len(ranges), m < n
        PROVE  EndOf(ranges, m) < EndOf(ranges, n)
    <3>1. CASE m = n - 1
      BY <2>7, <3>1
    <3>2. CASE m < n - 1
      <4>1. EndOf(ranges, m) < EndOf(ranges, n - 1)
        BY <2>5, <3>2
      <4>2. EndOf(ranges, m) \in Int
        <5>1. m \in Nat /\ m \notin Bad
          BY <2>1, <2>8
        <5> QED
          BY <5>1
      <4> QED
        BY <2>5, <2>7, <4>1, <4>2
    <3> QED
      BY <2>2, <2>8, <3>1, <3>2
  <2> QED
    BY <2>7, <2>8
<1> QED
  BY <1>2

\* A header is read up to its last whole range within the bound: exactly the first
\* ranges, and of those exactly the ones that end in time.
LEMMA ReadIsPrefix ==
  ASSUME NEW ranges \in Seq(Ranges)
  PROVE  \E k \in 0..Len(ranges), read \in Seq(Ranges) :
           /\ Parse(ranges) = ParseRanges(read)
           /\ Len(read) = k
           /\ \A n \in 1..k : read[n] = ranges[n]
           /\ \A n \in 1..Len(ranges) :
                n <= k <=> /\ n < Len(ranges) => EndOf(ranges, n) + 1 <= MaxHeaderUnits
                           /\ n = Len(ranges) => EndOf(ranges, n) <= MaxHeaderUnits
<1>1. Len(ranges) \in Nat /\ DOMAIN ranges = 1..Len(ranges) /\ MaxHeaderUnits \in Nat
  BY NegotiationAssumption
<1>2. \A n \in 1..Len(ranges) :
        /\ EndOf(ranges, n) \in Int
        /\ \A m \in 1..Len(ranges) : m < n => EndOf(ranges, m) < EndOf(ranges, n)
  BY <1>1, EndsIncrease
<1>3. CASE EndOf(ranges, Len(ranges)) <= MaxHeaderUnits
  <2>1. Parse(ranges) = ParseRanges(ranges)
    BY <1>3 DEF Parse
  <2>2. ASSUME NEW n \in 1..Len(ranges)
        PROVE  /\ n < Len(ranges) => EndOf(ranges, n) + 1 <= MaxHeaderUnits
               /\ n = Len(ranges) => EndOf(ranges, n) <= MaxHeaderUnits
    <3>1. PICK size, end, total :
            size = Len(ranges) /\ end = EndOf(ranges, n) /\ total = EndOf(ranges, size)
      OBVIOUS
    <3>2. size \in 1..size /\ n \in 1..size
      BY <1>1, <3>1
    <3>3. end \in Int /\ total \in Int /\ (n < size => end < total)
      BY <1>2, <3>1, <3>2
    <3>4. total <= MaxHeaderUnits /\ (n = size => end = total)
      BY <1>3, <3>1
    <3>5. /\ n < size => end + 1 <= MaxHeaderUnits
          /\ n = size => end <= MaxHeaderUnits
      BY <1>1, <3>3, <3>4
    <3> QED
      BY <3>1, <3>5
  <2>3. Len(ranges) \in 0..Len(ranges) /\ \A n \in 1..Len(ranges) : n <= Len(ranges)
    BY <1>1
  <2> QED
    BY <2>1, <2>2, <2>3
<1>4. CASE ~ (EndOf(ranges, Len(ranges)) <= MaxHeaderUnits)
  <2>1. PICK whole : whole = WholeRanges(ranges)
    OBVIOUS
  <2>2. \A n : n \in whole <=> n \in 1..Len(ranges) /\ EndOf(ranges, n) < MaxHeaderUnits
    BY <1>1, <2>1 DEF WholeRanges
  <2>3. PICK k \in 0..Len(ranges) : whole = 1..k /\ Cardinality(whole) = k
    <3>1. CASE whole = {}
      <4>1. whole = 1..0 /\ Cardinality(whole) = 0 /\ 0 \in 0..Len(ranges)
        BY <1>1, <3>1, FS_EmptySet
      <4> QED
        BY <4>1
    <3>2. CASE whole # {}
      <4>1. whole \in SUBSET (0..Len(ranges))
        BY <1>1, <2>2
      <4>2. PICK last \in whole : \A n \in whole : n <= last
        BY <1>1, <3>2, <4>1, GreatestExists
      <4>3. last \in 1..Len(ranges) /\ EndOf(ranges, last) < MaxHeaderUnits
        BY <2>2, <4>2
      <4>4. ASSUME NEW n \in 1..last PROVE n \in whole
        <5>1. n \in 1..Len(ranges) /\ (n = last \/ n < last)
          BY <1>1, <4>3
        <5>2. EndOf(ranges, n) = EndOf(ranges, last) \/ EndOf(ranges, n) < EndOf(ranges, last)
          BY <1>2, <4>3, <5>1
        <5>3. EndOf(ranges, n) < MaxHeaderUnits
          BY <1>1, <1>2, <4>3, <5>1, <5>2
        <5> QED
          BY <2>2, <5>1, <5>3
      <4>5. whole = 1..last
        <5>1. ASSUME NEW n \in whole PROVE n \in 1..last
          <6>1. n \in 1..Len(ranges) /\ n <= last
            BY <2>2, <4>2
          <6> QED
            BY <1>1, <4>3, <6>1
        <5> QED
          BY <4>4, <5>1
      <4>6. Cardinality(1..last) = last
        BY <1>1, <4>3, FS_Interval
      <4> QED
        BY <1>1, <4>3, <4>5, <4>6
    <3> QED
      BY <3>1, <3>2
  <2>4. PICK read : read = SubSeq(ranges, 1, k)
    OBVIOUS
  <2>5. /\ read \in Seq(Ranges) /\ Len(read) = k
        /\ \A n \in 1..k : read[n] = ranges[n]
    <3>1. \A n \in 1..k : ranges[n] \in Ranges
      BY <1>1
    <3> QED
      BY <1>1, <2>4, <3>1, SubSeqProperties
  <2>6. Parse(ranges) = ParseRanges(read)
    BY <1>4, <2>1, <2>3, <2>4 DEF Parse, ParseCut
  <2>7. ASSUME NEW n \in 1..Len(ranges)
        PROVE  n <= k <=> /\ n < Len(ranges) => EndOf(ranges, n) + 1 <= MaxHeaderUnits
                          /\ n = Len(ranges) => EndOf(ranges, n) <= MaxHeaderUnits
    <3>1. PICK size, end : size = Len(ranges) /\ end = EndOf(ranges, n)
      OBVIOUS
    <3>2. n <= k <=> end < MaxHeaderUnits
      BY <1>1, <2>2, <2>3, <3>1
    <3>3. end \in Int /\ n \in 1..size /\ size \in Nat /\ k \in 0..size
      BY <1>1, <1>2, <3>1
    <3>4. n = size => ~ (end <= MaxHeaderUnits)
      BY <1>4, <3>1
    <3>5. n <= k <=> /\ n < size => end + 1 <= MaxHeaderUnits
                     /\ n = size => end <= MaxHeaderUnits
      BY <1>1, <3>2, <3>3, <3>4
    <3> QED
      BY <3>1, <3>5
  <2> QED
    BY <2>5, <2>6, <2>7
<1> QED
  BY <1>3, <1>4

(***************************************************************************)
(* The answer.                                                             *)
(***************************************************************************)
\* The header decides for a locale that is hosted, or for none.
LEMMA HeaderAnswers ==
  ASSUME NEW tags \in SUBSET Tags, NEW list, IsAccept(list)
  PROVE  LET answered == {i \in DOMAIN list : Lookup(tags, list[i]) # NoTag}
         IN  /\ HeaderChoice(tags, list) \in tags \cup {NoTag}
             /\ answered = {} => HeaderChoice(tags, list) = NoTag
             /\ answered # {} =>
                  \E least \in answered :
                    /\ \A i \in answered : least <= i
                    /\ HeaderChoice(tags, list) = Lookup(tags, list[least])
<1> DEFINE answered == {i \in DOMAIN list : Lookup(tags, list[i]) # NoTag}
<1>1. HeaderChoice(tags, list) =
        IF answered = {} THEN NoTag ELSE Lookup(tags, list[Min(answered)])
  BY DEF HeaderChoice
<1>2. answered \in SUBSET Nat
  BY DEF IsAccept
<1>3. ASSUME answered # {}
      PROVE  Min(answered) \in answered /\ \A i \in answered : Min(answered) <= i
  <2>1. \E least \in answered : \A i \in answered : least <= i
    BY <1>2, <1>3, LeastExists
  <2> HIDE DEF answered
  <2> QED
    BY <2>1 DEF Min
<1>4. \A i \in DOMAIN list : Lookup(tags, list[i]) \in tags \cup {NoTag}
  BY LookupAnswers DEF IsAccept, IsWanted
<1>5. answered \subseteq DOMAIN list
  OBVIOUS
<1> HIDE DEF answered
<1>6. /\ HeaderChoice(tags, list) \in tags \cup {NoTag}
      /\ answered = {} => HeaderChoice(tags, list) = NoTag
      /\ answered # {} =>
           \E least \in answered :
             /\ \A i \in answered : least <= i
             /\ HeaderChoice(tags, list) = Lookup(tags, list[least])
  BY <1>1, <1>3, <1>4, <1>5
<1> QED
  BY <1>6 DEF answered

\* Of the ranges that are usable and hosted the one that is ahead of all others
\* decides: the sort puts it first of them, and none of its repetitions replaces it.
LEMMA HeaderPreference ==
  ASSUME NEW tags \in SUBSET Tags, NEW read \in Seq(Ranges)
  PROVE  LET hosted == {i \in UsableIn(read) : \E have \in tags : have[1] = read[i].tag[1]}
             choice == HeaderChoice(tags, ParseRanges(read))
         IN  /\ choice # NoTag <=> hosted # {}
             /\ \A best \in hosted :
                  (\A i \in hosted : i = best \/ Ahead(read, best, i))
                    => choice = Lookup(tags, read[best].tag)
<1> DEFINE hosted == {i \in UsableIn(read) : \E have \in tags : have[1] = read[i].tag[1]}
<1>1. PICK list : list = ParseRanges(read)
  OBVIOUS
<1>2. PICK at :
        /\ at \in [1..Cardinality(KeptIn(read)) -> KeptIn(read)]
        /\ \A i \in KeptIn(read) : \E n \in DOMAIN at : at[n] = i
        /\ \A m, n \in DOMAIN at : Ahead(read, at[m], at[n]) => m < n
        /\ list = [n \in DOMAIN at |-> read[at[n]].tag]
  BY <1>1, ParsedInOrder
<1>3. DOMAIN list = DOMAIN at /\ \A n \in DOMAIN at : at[n] \in KeptIn(read)
  BY <1>2
<1>4. IsAccept(list)
  BY <1>1, RangesAreTags DEF IsAccept
<1>5. PICK answered : answered = {n \in DOMAIN list : Lookup(tags, list[n]) # NoTag}
  OBVIOUS
<1>6. /\ answered = {} => HeaderChoice(tags, list) = NoTag
      /\ answered # {} =>
           \E least \in answered :
             /\ \A n \in answered : least <= n
             /\ HeaderChoice(tags, list) = Lookup(tags, list[least])
  BY <1>4, <1>5, HeaderAnswers
<1>7. \A i \in UsableIn(read) : i \in DOMAIN read /\ IsTag(read[i].tag)
  BY UsableHasTag DEF UsableIn
<1>8. \A i \in UsableIn(read) : Lookup(tags, read[i].tag) # NoTag <=> i \in hosted
  <2> TAKE i \in UsableIn(read)
  <2>1. IsWanted(read[i].tag) /\ read[i].tag # NoTag
    BY <1>7, TagIsSequence DEF IsWanted
  <2> QED
    BY <2>1, LookupAnswers
<1>9. KeptIn(read) \subseteq UsableIn(read)
  BY DEF KeptIn
<1>10. \A n \in DOMAIN at : n \in answered <=> at[n] \in hosted
  BY <1>2, <1>3, <1>5, <1>8, <1>9
<1>11. hosted \subseteq UsableIn(read) /\ hosted \in SUBSET DOMAIN read
  BY <1>7
<1>12. ASSUME NEW i \in UsableIn(read), NEW j \in UsableIn(read),
              read[i].tag = read[j].tag, j \in hosted
       PROVE  i \in hosted
  BY <1>12
<1> HIDE DEF hosted
<1>13. ASSUME NEW best \in hosted, \A i \in hosted : i = best \/ Ahead(read, best, i)
       PROVE  \E n \in DOMAIN at : at[n] = best /\ n \in answered
  <2>1. best \in KeptIn(read)
    <3> SUFFICES ASSUME NEW j \in UsableIn(read), read[j].tag = read[best].tag,
                        Ahead(read, j, best)
                 PROVE  FALSE
      BY <1>11 DEF KeptIn
    <3>1. j \in hosted
      BY <1>11, <1>12
    <3>2. /\ Weight(read[j].q) \in Int /\ Weight(read[best].q) \in Int
          /\ j \in Nat /\ best \in Nat
      BY <1>7, <1>11, UsableHasTag
    <3> QED
      BY <1>13, <3>1, <3>2 DEF Ahead
  <2> QED
    BY <1>2, <1>10, <2>1
<1>14. ASSUME NEW best \in hosted, \A i \in hosted : i = best \/ Ahead(read, best, i)
       PROVE  HeaderChoice(tags, list) = Lookup(tags, read[best].tag)
  <2>1. PICK n \in DOMAIN at : at[n] = best /\ n \in answered
    BY <1>13, <1>14
  <2>2. PICK least \in answered :
          /\ \A m \in answered : least <= m
          /\ HeaderChoice(tags, list) = Lookup(tags, list[least])
    BY <1>6, <2>1
  <2>3. least \in DOMAIN at /\ at[least] \in hosted
    BY <1>3, <1>5, <1>10
  <2>4. least <= n /\ least \in Int /\ n \in Int
    BY <1>3, <1>4, <2>1, <2>2, <2>3 DEF IsAccept
  <2>5. at[least] = best
    BY <1>2, <1>14, <2>1, <2>3, <2>4
  <2> QED
    BY <1>2, <2>2, <2>3, <2>5
<1>15. hosted # {} => \E best \in hosted : \A i \in hosted : i = best \/ Ahead(read, best, i)
  BY <1>11, AheadHasFirst
<1>16. hosted # {} => answered # {}
  BY <1>13, <1>15
<1>17. answered # {} => hosted # {}
  BY <1>3, <1>5, <1>10
<1>18. HeaderChoice(tags, list) # NoTag <=> answered # {}
  BY <1>5, <1>6
<1> QED
  BY <1>1, <1>14, <1>16, <1>17, <1>18 DEF hosted

\* With one more locale, the header decides as before, or for the new one.
LEMMA HeaderIsConservative ==
  ASSUME NEW tags \in SUBSET Tags, NEW new \in Tags, NEW list, IsAccept(list)
  PROVE  /\ HeaderChoice(tags \cup {new}, list) \in {HeaderChoice(tags, list), new}
         /\ HeaderChoice(tags, list) # NoTag =>
              HeaderChoice(tags \cup {new}, list) # NoTag
<1> DEFINE more == tags \cup {new}
           answered == {i \in DOMAIN list : Lookup(tags, list[i]) # NoTag}
           later == {i \in DOMAIN list : Lookup(more, list[i]) # NoTag}
<1>1. /\ answered = {} => HeaderChoice(tags, list) = NoTag
      /\ answered # {} =>
           \E least \in answered :
             /\ \A i \in answered : least <= i
             /\ HeaderChoice(tags, list) = Lookup(tags, list[least])
  BY HeaderAnswers
<1>2. more \in SUBSET Tags
  OBVIOUS
<1>3. /\ later = {} => HeaderChoice(more, list) = NoTag
      /\ later # {} =>
           \E least \in later :
             /\ \A i \in later : least <= i
             /\ HeaderChoice(more, list) = Lookup(more, list[least])
  <2> HIDE DEF more
  <2> QED
    BY <1>2, HeaderAnswers
<1>4. \A i \in DOMAIN list :
        /\ Lookup(more, list[i]) \in {Lookup(tags, list[i]), new}
        /\ Lookup(tags, list[i]) # NoTag => Lookup(more, list[i]) # NoTag
  BY LookupIsConservative DEF IsAccept, IsWanted
<1>5. /\ answered \subseteq later /\ later \in SUBSET Nat
      /\ \A i \in later : Lookup(more, list[i]) # NoTag
      /\ \A i \in later \ answered : Lookup(more, list[i]) = new
      /\ later \subseteq DOMAIN list
  BY <1>4 DEF IsAccept
<1> HIDE DEF more, answered, later
<1>6. CASE later = {}
  BY <1>1, <1>3, <1>5, <1>6 DEF more
<1>7. CASE later # {}
  <2>1. PICK least \in later :
          /\ \A i \in later : least <= i
          /\ HeaderChoice(more, list) = Lookup(more, list[least])
    BY <1>3, <1>7
  <2>2. CASE least \notin answered
    BY <1>5, <2>1, <2>2 DEF more
  <2>3. CASE least \in answered
    <3>1. PICK former \in answered :
            /\ \A i \in answered : former <= i
            /\ HeaderChoice(tags, list) = Lookup(tags, list[former])
      BY <1>1, <2>3
    <3>2. former = least
      BY <1>5, <2>1, <2>3, <3>1
    <3> QED
      BY <1>4, <1>5, <2>1, <3>1, <3>2 DEF more
  <2> QED
    BY <2>2, <2>3
<1> QED
  BY <1>6, <1>7

\* What `negotiate` answers with, source by source.
LEMMA AnswerOfSources ==
  ASSUME NEW tags, NEW asked, NEW list, NEW default
  PROVE  LET of_request == Lookup(tags, asked)
             of_header == HeaderChoice(tags, list)
             of_default == Lookup(tags, default)
             answer == Negotiate(tags, asked, list, default)
         IN  /\ of_request # NoTag => answer = Negotiated(of_request, "request")
             /\ of_request = NoTag /\ of_header # NoTag =>
                  answer = Negotiated(of_header, "header")
             /\ of_request = NoTag /\ of_header = NoTag /\ of_default # NoTag =>
                  answer = Negotiated(of_default, "default")
             /\ of_request = NoTag /\ of_header = NoTag /\ of_default = NoTag =>
                  answer = Negotiated(First(tags), "first_available")
BY DEF Negotiate, DefaultChoice

\* Each source decides as before, or for the new locale, and so does the answer: a
\* source that decided still does.
LEMMA AnswerIsConservative ==
  ASSUME NEW tags \in SUBSET Tags, NEW new \in Tags, NEW asked, IsWanted(asked),
         NEW list, IsAccept(list), NEW default, IsWanted(default)
  PROVE  \/ Negotiate(tags \cup {new}, asked, list, default) =
              Negotiate(tags, asked, list, default)
         \/ Negotiate(tags \cup {new}, asked, list, default).locale = new
<1>1. PICK more \in SUBSET Tags : more = tags \cup {new}
  OBVIOUS
<1>2. /\ Lookup(more, asked) \in {Lookup(tags, asked), new}
      /\ Lookup(tags, asked) # NoTag => Lookup(more, asked) # NoTag
  BY <1>1, LookupIsConservative
<1>3. /\ HeaderChoice(more, list) \in {HeaderChoice(tags, list), new}
      /\ HeaderChoice(tags, list) # NoTag => HeaderChoice(more, list) # NoTag
  BY <1>1, HeaderIsConservative
<1>4. /\ Lookup(more, default) \in {Lookup(tags, default), new}
      /\ Lookup(tags, default) # NoTag => Lookup(more, default) # NoTag
  BY <1>1, LookupIsConservative
<1>5. First(more) \in {First(tags), new}
  BY <1>1, FirstIsConservative
<1>6. \A locale, matched_by : Negotiated(locale, matched_by).locale = locale
  BY DEF Negotiated
<1>7. \/ Negotiate(more, asked, list, default) = Negotiate(tags, asked, list, default)
      \/ Negotiate(more, asked, list, default).locale = new
  BY <1>2, <1>3, <1>4, <1>5, <1>6, AnswerOfSources
<1> QED
  BY <1>1, <1>7
------------------------------------------------------------------------------
\* A client that sends no header has none read.
LEMMA NothingIsRead == Parse(<< >>) = << >>
<1>1. PICK none \in Seq(Ranges) : none = << >> /\ Len(none) = 0
  BY EmptySeq
<1>2. Parse(none) = ParseRanges(none)
  BY <1>1, EndOfRecursion, NegotiationAssumption DEF Parse
<1>3. KeptIn(none) = {}
  BY <1>1 DEF KeptIn, UsableIn
<1>4. Cardinality(KeptIn(none)) = 0
  BY <1>3, FS_EmptySet
<1>5. PICK at :
        /\ at \in [1..Cardinality(KeptIn(none)) -> KeptIn(none)]
        /\ ParseRanges(none) = [n \in DOMAIN at |-> none[at[n]].tag]
  BY ParsedInOrder
<1>6. DOMAIN at = {}
  BY <1>4, <1>5
<1>7. ParseRanges(none) = << >>
  BY <1>5, <1>6
<1> QED
  BY <1>1, <1>2, <1>7

\* What is asked for are tags, and the header is what is read of the ranges sent:
\* tags.
NegotiationInv ==
  /\ available \in SUBSET Tags
  /\ IsWanted(requested)
  /\ header \in Seq(Ranges)
  /\ accept = Parse(header)
  /\ IsAccept(accept)
  /\ IsWanted(default_locale)

\* Operators host tags, and each range makes a header that is read anew.
LEMMA NegotiationInvariant == Spec => []NegotiationInv
<1>1. Init => NegotiationInv
  BY NegotiationAssumption, NothingIsRead DEF Init, NegotiationInv, IsWanted, IsAccept
<1>2. NegotiationInv /\ [Next]_vars => NegotiationInv'
  <2> SUFFICES ASSUME NegotiationInv, [Next]_vars PROVE NegotiationInv'
    OBVIOUS
  <2>1. ASSUME NEW tag \in Tags, Host(tag) PROVE NegotiationInv'
    BY <2>1 DEF Host, NegotiationInv, IsAccept
  <2>2. ASSUME NEW range \in Ranges, Send(range) PROVE NegotiationInv'
    <3>1. header' \in Seq(Ranges) /\ accept' = Parse(header')
      BY <2>2, AppendProperties DEF Send, NegotiationInv
    <3>2. IsAccept(accept')
      BY <3>1, HeaderIsRead
    <3> QED
      BY <2>2, <3>1, <3>2 DEF Send, NegotiationInv, IsAccept
  <2>3. CASE UNCHANGED vars
    BY <2>3 DEF vars, NegotiationInv, IsAccept
  <2> QED
    BY <2>1, <2>2, <2>3 DEF Next
<1> QED
  BY <1>1, <1>2, PTL DEF Spec

\* For every set of tags, every header and every default: a document that is hosted
\* in some locale is served in one of them (negotiate, Legal::document).
THEOREM HostedIsServed == Spec => []AnswersAreHosted
<1>1. NegotiationInv => AnswersAreHosted
  <2> SUFFICES ASSUME NegotiationInv PROVE AnswersAreHosted
    OBVIOUS
  <2>1. /\ Lookup(available, requested) \in available \cup {NoTag}
        /\ HeaderChoice(available, accept) \in available \cup {NoTag}
        /\ Lookup(available, default_locale) \in available \cup {NoTag}
    BY LookupAnswers, HeaderAnswers DEF NegotiationInv
  <2>2. /\ available = {} => First(available) = NoTag
        /\ available # {} => First(available) \in available
    BY FirstIsFirst DEF NegotiationInv
  <2>3. NoTag \notin available
    BY TagIsSequence, NegotiationAssumption DEF NegotiationInv
  <2>4. \A locale, matched_by : Negotiated(locale, matched_by).locale = locale
    BY DEF Negotiated
  <2> QED
    BY <2>1, <2>2, <2>3, <2>4, AnswerOfSources DEF AnswersAreHosted, Answer
<1> QED
  BY <1>1, NegotiationInvariant, PTL

\* However a header ranks it: the request decides when its language is hosted in
\* any form, only then, and the answer is in that language (lookup).
THEOREM RequestDecides == Spec => []RequestedLanguageIsServed
<1>1. NegotiationInv => RequestedLanguageIsServed
  <2> SUFFICES ASSUME NegotiationInv PROVE RequestedLanguageIsServed
    OBVIOUS
  <2> DEFINE found == Lookup(available, requested)
  <2>1. /\ found # NoTag <=> requested # NoTag /\ HasLanguageOf(requested)
        /\ found # NoTag => found[1] = requested[1]
    BY LookupAnswers DEF NegotiationInv, HasLanguageOf
  <2>2. \A locale, matched_by :
          /\ Negotiated(locale, matched_by).locale = locale
          /\ Negotiated(locale, matched_by).matched_by = matched_by
    BY DEF Negotiated
  <2>3. /\ found # NoTag => Answer = Negotiated(found, "request")
        /\ found = NoTag => Answer.matched_by # "request"
    BY <2>2, AnswerOfSources DEF Answer
  <2> HIDE DEF found
  <2> QED
    BY <2>1, <2>2, <2>3 DEF RequestedLanguageIsServed
<1> QED
  BY <1>1, NegotiationInvariant, PTL

\* One more translation moves nobody from one of the others to another (negotiate).
THEOREM TranslationsAreConservative == Spec => HostingIsConservative
<1> DEFINE Conserved == \A tag \in available' \ available :
                          Answer' = Answer \/ Answer'.locale = tag
<1>1. ASSUME NegotiationInv, [Next]_vars PROVE Conserved
  <2>1. ASSUME NEW tag \in Tags, Host(tag) PROVE Conserved
    <3>1. /\ available' = available \cup {tag}
          /\ UNCHANGED <<requested, accept, default_locale>>
      BY <2>1 DEF Host
    <3>2. Answer' = Negotiate(available \cup {tag}, requested, accept, default_locale)
      BY <3>1 DEF Answer
    <3>3. Answer' = Answer \/ Answer'.locale = tag
      BY <1>1, <3>2, AnswerIsConservative DEF NegotiationInv, Answer
    <3> QED
      BY <3>1, <3>3
  <2>2. ASSUME NEW range \in Ranges, Send(range) PROVE Conserved
    BY <2>2 DEF Send
  <2>3. CASE UNCHANGED vars
    BY <2>3 DEF vars
  <2> QED
    BY <1>1, <2>1, <2>2, <2>3 DEF Next
<1>2. NegotiationInv /\ [Next]_vars => [Conserved]_vars
  BY <1>1
<1> QED
  BY <1>2, NegotiationInvariant, PTL DEF Spec, HostingIsConservative

\* However often a tag is repeated and wherever the header is cut: when the request
\* does not decide, the heaviest of the ranges that are accepted and hosted does,
\* the earliest of equals, and without one the header does not (parse, negotiate).
THEOREM PreferenceDecides == Spec => []HeaderPreferenceDecides
<1>1. ASSUME NegotiationInv PROVE HeaderPreferenceDecides
  <2>1. PICK k \in 0..Len(header), read \in Seq(Ranges) :
          /\ Parse(header) = ParseRanges(read)
          /\ Len(read) = k
          /\ \A n \in 1..k : read[n] = header[n]
          /\ \A n \in 1..Len(header) :
               n <= k <=> /\ n < Len(header) => EndOf(header, n) + 1 <= MaxHeaderUnits
                          /\ n = Len(header) => EndOf(header, n) <= MaxHeaderUnits
    BY <1>1, ReadIsPrefix DEF NegotiationInv
  <2>2. /\ header \in Seq(Ranges) /\ Len(header) \in Nat
        /\ DOMAIN header = 1..Len(header) /\ DOMAIN read = 1..k
    BY <1>1, <2>1 DEF NegotiationInv
  <2>3. PICK hosted :
          hosted = {i \in UsableIn(read) : \E have \in available : have[1] = read[i].tag[1]}
    OBVIOUS
  <2>4. /\ HeaderChoice(available, accept) # NoTag <=> hosted # {}
        /\ \A best \in hosted :
             (\A i \in hosted : i = best \/ Ahead(read, best, i))
               => HeaderChoice(available, accept) = Lookup(available, read[best].tag)
    <3>1. available \in SUBSET Tags /\ accept = ParseRanges(read)
      BY <1>1, <2>1 DEF NegotiationInv
    <3> QED
      BY <2>3, <3>1, HeaderPreference
  <2>5. ASSUME NEW n \in DOMAIN header
        PROVE  /\ Value(header[n].q) \in Int
               /\ Usable(header[n]) <=>
                    /\ header[n].tag # NoTag
                    /\ header[n].q # NoWeight => Len(header[n].q.fraction) <= 3
                    /\ Value(header[n].q) \in 1..1000
               /\ Usable(header[n]) => Weight(header[n].q) = Value(header[n].q)
    <3>1. header[n].q = NoWeight \/ IsWeight(header[n].q)
      <4>1. PICK range \in Ranges : range = header[n]
        BY <2>2
      <4>2. range.q = NoWeight \/ IsWeight(range.q)
        BY NegotiationAssumption
      <4> QED
        BY <4>1, <4>2
    <3>2. /\ Value(header[n].q) \in Int
          /\ Weight(header[n].q) > 0 <=>
               /\ header[n].q # NoWeight => Len(header[n].q.fraction) <= 3
               /\ Value(header[n].q) \in 1..1000
          /\ Weight(header[n].q) > 0 => Weight(header[n].q) = Value(header[n].q)
      BY <3>1, WeightIsValue
    <3>3. Usable(header[n]) <=> header[n].tag # NoTag /\ Weight(header[n].q) > 0
      BY DEF Usable
    <3> QED
      BY <3>2, <3>3
  <2>6. \A n : n \in 1..k <=> n \in 1..Len(header) /\ n <= k
    <3>1. PICK size \in Nat : size = Len(header)
      BY <2>2
    <3>2. k \in 0..size
      BY <3>1
    <3>3. \A n : n \in 1..k <=> n \in 1..size /\ n <= k
      BY <3>2
    <3> QED
      BY <3>1, <3>3
  <2>7. \A n : n \in UsableIn(read) <=>
          /\ n \in DOMAIN header /\ n <= MaxRanges /\ Usable(header[n])
          /\ n < Len(header) => EndOf(header, n) + 1 <= MaxHeaderUnits
          /\ n = Len(header) => EndOf(header, n) <= MaxHeaderUnits
    <3>1. \A n : n \in DOMAIN read <=> n \in DOMAIN header /\ n <= k
      BY <2>2, <2>6
    <3>2. \A n \in DOMAIN read : read[n] = header[n]
      BY <2>1, <2>2
    <3> QED
      BY <2>1, <2>2, <3>1, <3>2 DEF UsableIn
  <2>8. \A n \in UsableIn(read) : n \in DOMAIN header /\ read[n] = header[n]
    BY <2>1, <2>2, <2>7 DEF UsableIn
  <2>9. hosted = Acceptable
    <3>1. ASSUME NEW n \in hosted PROVE n \in Acceptable
      <4>1. n \in UsableIn(read) /\ \E have \in available : have[1] = read[n].tag[1]
        BY <2>3
      <4>2. n \in DOMAIN header /\ read[n] = header[n] /\ Usable(header[n])
        BY <2>7, <2>8, <4>1
      <4>3. HasLanguageOf(header[n].tag)
        BY <4>1, <4>2 DEF HasLanguageOf
      <4>4. /\ n <= MaxRanges
            /\ n < Len(header) => EndOf(header, n) + 1 <= MaxHeaderUnits
            /\ n = Len(header) => EndOf(header, n) <= MaxHeaderUnits
        BY <2>7, <4>1
      <4>5. /\ header[n].tag # NoTag
            /\ header[n].q # NoWeight => Len(header[n].q.fraction) <= 3
            /\ Value(header[n].q) \in 1..1000
        BY <2>5, <4>2
      <4> QED
        BY <4>2, <4>3, <4>4, <4>5 DEF Acceptable
    <3>2. ASSUME NEW n \in Acceptable PROVE n \in hosted
      <4>1. n \in DOMAIN header /\ Usable(header[n])
        <5>1. /\ n \in DOMAIN header /\ header[n].tag # NoTag
              /\ header[n].q # NoWeight => Len(header[n].q.fraction) <= 3
              /\ Value(header[n].q) \in 1..1000
          BY <3>2 DEF Acceptable
        <5>2. Usable(header[n]) <=>
                /\ header[n].tag # NoTag
                /\ header[n].q # NoWeight => Len(header[n].q.fraction) <= 3
                /\ Value(header[n].q) \in 1..1000
          BY <2>5, <5>1, Zenon
        <5> QED
          BY <5>1, <5>2
      <4>2. n \in UsableIn(read)
        <5>1. /\ n <= MaxRanges
              /\ n < Len(header) => EndOf(header, n) + 1 <= MaxHeaderUnits
              /\ n = Len(header) => EndOf(header, n) <= MaxHeaderUnits
          BY <3>2 DEF Acceptable
        <5> QED
          BY <2>7, <4>1, <5>1
      <4>3. \E have \in available : have[1] = header[n].tag[1]
        BY <3>2 DEF Acceptable, HasLanguageOf
      <4> QED
        BY <2>3, <2>8, <4>2, <4>3
    <3> QED
      BY <3>1, <3>2
  <2>10. \A n \in hosted :
          /\ n \in Int /\ read[n] = header[n]
          /\ Weight(read[n].q) = Value(header[n].q) /\ Value(header[n].q) \in Int
    BY <2>2, <2>3, <2>5, <2>7, <2>8
  <2>11. ASSUME NEW best \in Acceptable,
                \A n \in Acceptable :
                  \/ Value(header[n].q) < Value(header[best].q)
                  \/ Value(header[n].q) = Value(header[best].q) /\ best <= n
         PROVE  HeaderChoice(available, accept) = Lookup(available, header[best].tag)
    <3>1. \A n \in hosted : n = best \/ Ahead(read, best, n)
      BY <2>9, <2>10, <2>11 DEF Ahead
    <3> QED
      BY <2>4, <2>9, <2>10, <3>1
  <2>12. \A locale, matched_by :
           /\ Negotiated(locale, matched_by).locale = locale
           /\ Negotiated(locale, matched_by).matched_by = matched_by
    BY DEF Negotiated
  <2>13. Answer.matched_by # "request" =>
           /\ Answer.matched_by = "header" <=> HeaderChoice(available, accept) # NoTag
           /\ Answer.matched_by = "header" =>
                Answer.locale = HeaderChoice(available, accept)
    BY <2>12, AnswerOfSources DEF Answer
  <2> QED
    BY <2>4, <2>9, <2>11, <2>13 DEF HeaderPreferenceDecides
<1> QED
  BY <1>1, NegotiationInvariant, PTL
==============================================================================
