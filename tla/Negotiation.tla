------------------------------ MODULE Negotiation ------------------------------
(***************************************************************************)
(* Which of a document's locales a reader is served                        *)
(* (crates/terrace-legal-model/src/negotiate.rs, accept.rs, locale.rs):    *)
(* operators host translations, a client's header grows range by range,    *)
(* and every state asks for the answer `negotiate` would give.             *)
(*                                                                         *)
(* A tag is the sequence of its subtags in canonical case.  A range of the *)
(* header is a tag, or none where the text is not one, and a weight, or    *)
(* none.  Bytes are counted in units: one per subtag, weight and comma.    *)
(***************************************************************************)
EXTENDS Sequences, FiniteSetsExt, Integers

CONSTANTS
  Languages, Scripts, Regions,  \* the subtags in use, in canonical case
  Tags,           \* the locales a document can have
  TextOrder,      \* the position of each tag in the order of canonical texts
  Ranges,         \* the ranges clients send
  Requested,      \* the values of the `lang` parameter, NoTag for none
  Defaults,       \* the default locales operators configure, NoTag for none
  MaxRanges,      \* AcceptLanguage::MAX_RANGES
  MaxHeaderUnits, \* AcceptLanguage::MAX_HEADER_BYTES, in units
  MaxSent         \* bound on the number of ranges of a header

NoTag == << >>
NoWeight == << >>
Malformed == -1

\* What `from_str` accepts: a language, a script or none, a region or none.
IsTag(tag) ==
  \/ tag \in {<<language>> : language \in Languages}
  \/ tag \in Languages \X (Scripts \cup Regions)
  \/ tag \in Languages \X Scripts \X Regions

\* A weight as written: `1.25` is [whole |-> 1, fraction |-> <<2, 5>>].  Anything
\* but a 0 or a 1 before the point stands as 2.
IsWeight(q) ==
  /\ DOMAIN q = {"whole", "fraction"}
  /\ q.whole \in 0..2
  /\ q.fraction \in Seq(0..9)

ASSUME NegotiationAssumption ==
  /\ Scripts \cap Regions = {}
  /\ \A tag \in Tags : IsTag(tag)
  /\ TextOrder \in [Tags -> Nat]
  /\ \A one, other \in Tags : TextOrder[one] = TextOrder[other] => one = other
  /\ \A tag \in Requested \cup Defaults \cup {range.tag : range \in Ranges} :
       tag = NoTag \/ IsTag(tag)
  /\ \A range \in Ranges : range.q = NoWeight \/ IsWeight(range.q)
  /\ {MaxRanges, MaxHeaderUnits, MaxSent} \subseteq Nat

VARIABLES
  available,       \* the locales of the document
  requested,       \* the `lang` parameter
  header,          \* the ranges of the Accept-Language header, as sent
  accept,          \* what is read of them
  default_locale   \* the operator's default

vars == <<available, requested, header, accept, default_locale>>
------------------------------------------------------------------------------
(***************************************************************************)
(* Lookup.                                                                 *)
(***************************************************************************)
\* As SameLanguage, were a tag to answer only what it begins with.
SameLanguageOfRange(have, wanted) ==
  wanted # NoTag /\ Len(wanted) <= Len(have) /\ SubSeq(have, 1, Len(wanted)) = wanted

\* `same_language`.  NoTag has no language.
SameLanguage(one, other) ==
  one # NoTag /\ other # NoTag /\ Head(one) = Head(other)

\* `min` in the order of canonical texts, NoTag of nothing.
First(tags) ==
  IF tags = {} THEN NoTag
  ELSE CHOOSE tag \in tags : \A other \in tags : TextOrder[tag] <= TextOrder[other]

\* The first available tag that shares its language with `wanted`.
Fallback(tags, wanted) == First({have \in tags : SameLanguage(have, wanted)})

\* What is left of a tag when its last subtags are dropped.
Truncated(wanted, n) == SubSeq(wanted, 1, n)

\* The lengths to which `wanted` can be truncated to reach an available tag.
Hits(tags, wanted) == {n \in 1..Len(wanted) : Truncated(wanted, n) \in tags}

\* As Lookup, were the fallback meant for a language that is hosted once.
LookupUnambiguous(tags, wanted) ==
  LET hits == Hits(tags, wanted)
      related == {have \in tags : SameLanguage(have, wanted)}
  IN  IF hits # {} THEN Truncated(wanted, Max(hits))
      ELSE IF \E have \in related : related = {have} THEN First(related) ELSE NoTag

\* `lookup`: the longest truncation that is hosted, or else the language.
Lookup(tags, wanted) ==
  LET hits == Hits(tags, wanted)
  IN  IF hits # {} THEN Truncated(wanted, Max(hits)) ELSE Fallback(tags, wanted)
------------------------------------------------------------------------------
(***************************************************************************)
(* The header.                                                             *)
(***************************************************************************)
\* The digits after the point by their places, up to three of them.
Thousandths(fraction) ==
  LET Digit(i) == IF i \in DOMAIN fraction THEN fraction[i] ELSE 0
  IN  100 * Digit(1) + 10 * Digit(2) + Digit(3)

\* `parse_qvalue`, in thousandths; a range without a weight has the largest.
Weight(q) ==
  CASE q = NoWeight -> 1000
    [] q # NoWeight /\ Len(q.fraction) <= 3 /\ q.whole = 0 -> Thousandths(q.fraction)
    [] q # NoWeight /\ Len(q.fraction) <= 3 /\ q.whole = 1 /\ Thousandths(q.fraction) = 0 -> 1000
    [] OTHER -> Malformed

\* What `parse_range` and the filter on the weight keep.
Usable(range) == range.tag # NoTag /\ Weight(range.q) > 0

\* The tags of a text, most preferred first (the sort is stable), each at its best
\* position.
ParseRanges(ranges) ==
  LET weight == [i \in DOMAIN ranges |-> Weight(ranges[i].q)]
      usable == {i \in DOMAIN ranges : i <= MaxRanges /\ Usable(ranges[i])}
      Before(i, j) == weight[i] > weight[j] \/ (weight[i] = weight[j] /\ i < j)
      kept == {i \in usable : ~ \E j \in usable : ranges[j].tag = ranges[i].tag /\ Before(j, i)}
      At(n) == CHOOSE i \in kept : Cardinality({j \in kept : Before(j, i)}) = n - 1
  IN  [n \in 1..Cardinality(kept) |-> ranges[At(n)].tag]

Units(range) ==
  (IF range.tag = NoTag THEN 1 ELSE Len(range.tag)) + (IF range.q = NoWeight THEN 0 ELSE 1)

\* Where the n-th range ends, the commas before it counted.
EndOf(ranges, n) ==
  LET end[k \in Nat] == IF k = 0 THEN -1 ELSE end[k - 1] + 1 + Units(ranges[k])
  IN  end[n]

\* What is left of a range of which `room` units are read.
Cropped(range, room) ==
  IF room < Len(range.tag) THEN [tag |-> SubSeq(range.tag, 1, room), q |-> NoWeight]
  ELSE [range EXCEPT !.q = NoWeight]

\* The ranges whose comma is among the units read.
WholeRanges(ranges) == {n \in DOMAIN ranges : EndOf(ranges, n) < MaxHeaderUnits}

\* As ParseCut, were the last range read as far as it goes.
ParseCutShort(ranges) ==
  LET last == Cardinality(WholeRanges(ranges)) + 1
      room == MaxHeaderUnits - EndOf(ranges, last - 1) - 1
  IN  ParseRanges(Append(SubSeq(ranges, 1, last - 1), Cropped(ranges[last], room)))

\* What follows the last comma is dropped, be it whole or not.
ParseCut(ranges) == ParseRanges(SubSeq(ranges, 1, Cardinality(WholeRanges(ranges))))

Parse(ranges) ==
  IF EndOf(ranges, Len(ranges)) <= MaxHeaderUnits THEN ParseRanges(ranges)
  ELSE ParseCut(ranges)
------------------------------------------------------------------------------
(***************************************************************************)
(* The answer.                                                             *)
(***************************************************************************)
Negotiated(locale, matched_by) == [locale |-> locale, matched_by |-> matched_by]

\* As DefaultChoice, were the default taken as configured.
DefaultVerbatim(tags, default) == default

\* The default locale, looked up like any other tag.
DefaultChoice(tags, default) == Lookup(tags, default)

\* The first of the reader's ranges that is answered.
HeaderChoice(tags, wanted) ==
  LET answered == {i \in DOMAIN wanted : Lookup(tags, wanted[i]) # NoTag}
  IN  IF answered = {} THEN NoTag ELSE Lookup(tags, wanted[Min(answered)])

Negotiate(tags, asked, wanted, default) ==
  LET of_request == Lookup(tags, asked)
      of_header == HeaderChoice(tags, wanted)
      of_default == DefaultChoice(tags, default)
  IN  CASE of_request # NoTag -> Negotiated(of_request, "request")
        [] of_request = NoTag /\ of_header # NoTag -> Negotiated(of_header, "header")
        [] of_request = NoTag /\ of_header = NoTag /\ of_default # NoTag ->
             Negotiated(of_default, "default")
        [] OTHER -> Negotiated(First(tags), "first_available")

\* What `document` serves and `index` titles the document for.
Answer == Negotiate(available, requested, accept, default_locale)
------------------------------------------------------------------------------
Init ==
  /\ available = {}
  /\ requested \in Requested
  /\ header = << >>
  /\ accept = << >>
  /\ default_locale \in Defaults

\* Operators add a translation.
Host(tag) ==
  /\ tag \notin available
  /\ available' = available \cup {tag}
  /\ UNCHANGED <<requested, header, accept, default_locale>>

\* The client names one more range, in the same header or in another that is
\* joined to it, and `from_request` reads the whole anew.
Send(range) ==
  /\ Len(header) < MaxSent
  /\ header' = Append(header, range)
  /\ accept' = Parse(header')
  /\ UNCHANGED <<available, requested, default_locale>>

Next == (\E tag \in Tags : Host(tag)) \/ (\E range \in Ranges : Send(range))

Spec == Init /\ [][Next]_vars
------------------------------------------------------------------------------
(***************************************************************************)
(* Properties.                                                             *)
(***************************************************************************)
\* Whoever asks is served a locale the document has, as long as it has one:
\* `document` never takes the branch for a variant that is missing.
AnswersAreHosted ==
  IF available = {} THEN Answer.locale = NoTag ELSE Answer.locale \in available

HasLanguageOf(tag) == \E have \in available : have[1] = tag[1]

\* The request decides exactly when its language is hosted in any script or
\* region, and is then answered in that language, however the header ranks it.
RequestedLanguageIsServed ==
  /\ Answer.matched_by = "request" <=> requested # NoTag /\ HasLanguageOf(requested)
  /\ Answer.matched_by = "request" => Answer.locale[1] = requested[1]

\* The number a weight stands for, in thousandths.
Value(q) == IF q = NoWeight THEN 1000 ELSE 1000 * q.whole + Thousandths(q.fraction)

\* The positions of the ranges the reader accepts that have an answer: sent
\* whole, within the bounds, with a number above 0 and up to 1 for a weight.
Acceptable ==
  {n \in DOMAIN header :
     /\ n <= MaxRanges
     /\ n < Len(header) => EndOf(header, n) + 1 <= MaxHeaderUnits
     /\ n = Len(header) => EndOf(header, n) <= MaxHeaderUnits
     /\ header[n].tag # NoTag /\ HasLanguageOf(header[n].tag)
     /\ header[n].q # NoWeight => Len(header[n].q.fraction) <= 3
     /\ Value(header[n].q) \in 1..1000}

\* Of the ranges the reader accepts the heaviest that is hosted decides, the
\* earliest of equals, whatever the others are, how often a tag is repeated and
\* wherever the header is cut; without one, the header decides nothing.
HeaderPreferenceDecides ==
  Answer.matched_by # "request" =>
    /\ Answer.matched_by = "header" <=> Acceptable # {}
    /\ \A best \in Acceptable :
         (\A n \in Acceptable :
            \/ Value(header[n].q) < Value(header[best].q)
            \/ Value(header[n].q) = Value(header[best].q) /\ best <= n)
         => Answer.locale = Lookup(available, header[best].tag)

\* A further translation changes nobody's locale but to itself: a reader is not
\* sent from one language to another because a third appeared.
HostingIsConservative ==
  [][\A tag \in available' \ available :
       Answer' = Answer \/ Answer'.locale = tag]_vars
==============================================================================
