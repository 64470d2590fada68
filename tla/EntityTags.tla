------------------------------ MODULE EntityTags ------------------------------
(***************************************************************************)
(* The If-None-Match comparison (crates/terrace-legal/src/etag.rs).        *)
(*                                                                         *)
(* A header is a sequence of tokens: a quote, "W/", ",", "space", "*", and *)
(* other characters; the tag is what stands between its quotes.            *)
(***************************************************************************)
EXTENDS Integers, SequencesExt

Quote == "quote"
TagTokens == {Quote, "W/", ",", "space", "*", "x", "y"}

\* ETag::as_str, of a tag with the opaque text `x`.
Self == <<Quote, "x", Quote>>

Skipped(header, from, drop) ==
  SelectInSubSeq(header, from, Len(header), LAMBDA token : token \notin drop)

\* `*` alone, with whitespace around it.
IsStar(header) ==
  \E i \in DOMAIN header :
    /\ header[i] = "*"
    /\ \A j \in DOMAIN header \ {i} : header[j] = "space"

\* Mutant: the comparison is strong.
OpeningStrong(header, start) == start

\* The opening quote of the tag at `start`, after a `W/` if there is one.
Opening(header, start) ==
  IF start # 0 /\ header[start] = "W/" THEN start + 1 ELSE start

\* ETag::matches_if_none_match.
MatchesIfNoneMatch(header) ==
  LET n == Len(header)
      listed[from \in 1..(n + 1)] ==
        LET start == Skipped(header, from, {"space", ","})
            open  == Opening(header, start)
            end   == SelectInSubSeq(header, open + 1, n, LAMBDA token : token = Quote)
        IN  /\ start # 0
            /\ open <= n /\ header[open] = Quote
            /\ end # 0
            /\ SubSeq(header, open, end) = Self \/ listed[end + 1]
  IN  IsStar(header) \/ listed[1]
------------------------------------------------------------------------------
(***************************************************************************)
(* The grammar (RFC 9110, 13.1.2): `*`, or a list whose elements are       *)
(* entity tags or empty, separated by commas and optional whitespace; read *)
(* one character at a time.                                                *)
(***************************************************************************)
ListStep(read, token) ==
  CASE read.at = "junk" -> read
    [] read.at = "tag" /\ token # Quote -> [read EXCEPT !.text = Append(@, token)]
    [] read.at = "tag" /\ token = Quote ->
         [at |-> "after", text |-> << >>, tags |-> read.tags \cup {read.text}]
    [] read.at \in {"element", "after"} /\ token = "space" -> read
    [] read.at \in {"element", "after"} /\ token = "," -> [read EXCEPT !.at = "element"]
    [] read.at = "element" /\ token = "W/" -> [read EXCEPT !.at = "weak"]
    [] read.at \in {"element", "weak"} /\ token = Quote -> [read EXCEPT !.at = "tag"]
    [] OTHER -> [read EXCEPT !.at = "junk"]

ListRead(header) ==
  LET read[n \in 0..Len(header)] ==
        IF n = 0 THEN [at |-> "element", text |-> << >>, tags |-> {}]
        ELSE ListStep(read[n - 1], header[n])
  IN  read[Len(header)]

IsList(header) == ListRead(header).at \in {"element", "after"}
==============================================================================
