--------------------------------- MODULE Href ---------------------------------
(***************************************************************************)
(* Which link targets a document may carry                                 *)
(* (crates/terrace-legal-markdown/src/href.rs).                            *)
(*                                                                         *)
(* A reference is a sequence of tokens: runs of letters, "1" for a digit,  *)
(* "+", "-" or ".", "space" for a space or a control character, "tab" for  *)
(* a tab or a line break, ":", and "/" for "/", "?" or "#".                *)
(***************************************************************************)
EXTENDS Ranks, SequencesExt

\* The runs of letters that matter, "mailto" for "tel" too and "x" for any other.
Letters == {"http", "HTTP", "s", "mailto", "x"}
HrefTokens == Letters \cup {"1", "space", "tab", ":", "/"}

AllowedSchemes == {<<"http">>, <<"http", "s">>, <<"mailto">>}
HttpSchemes == {<<"http">>, <<"http", "s">>}

Lower(tokens) == [i \in DOMAIN tokens |->
                    IF tokens[i] = "HTTP" THEN "http" ELSE tokens[i]]

\* trim_start_matches of all up to the space.
TrimStart(tokens) ==
  LET first == SelectInSeq(tokens, LAMBDA token : token \notin {"space", "tab"})
  IN  IF first = 0 THEN << >> ELSE SubSeq(tokens, first, Len(tokens))

\* Mutant: tabs and line breaks are kept.
CleanedOfSpaces(href) == TrimStart(href)

\* What a browser reads: no leading spaces, no tabs or line breaks anywhere.
Cleaned(href) ==
  LET trimmed == TrimStart(href)
      kept    == Ascending({i \in DOMAIN trimmed : trimmed[i] # "tab"})
  IN  [n \in DOMAIN kept |-> trimmed[kept[n]]]

HeadOf(cleaned) ==
  SubSeq(cleaned, 1, SelectInSeq(cleaned, LAMBDA token : token = ":") - 1)

\* is_safe_href: no colon, a colon after the path has begun, or a known scheme.
IsSafeHref(href) ==
  LET head == HeadOf(Cleaned(href))
  IN  \/ ~ Contains(Cleaned(href), ":")
      \/ Contains(head, "/")
      \/ /\ head # << >>
         /\ head[1] \in Letters
         /\ ToSet(head) \subseteq Letters \cup {"1"}
         /\ Lower(head) \in AllowedSchemes

IsExternal(href) ==
  \E scheme \in HttpSchemes :
    IsPrefix(Append(scheme, ":"), Lower(Cleaned(href)))
------------------------------------------------------------------------------
(***************************************************************************)
(* The reading of a browser, character by character: the scheme start and  *)
(* scheme states of the URL standard's parser.                             *)
(***************************************************************************)
NoScheme == << >>

SchemeStep(seen, token) ==
  CASE token = "tab" -> seen
    [] seen.state = "start" /\ token = "space" -> seen
    [] seen.state \in {"start", "scheme"} /\ token \in Letters ->
         [state |-> "scheme", scheme |-> Append(seen.scheme, token)]
    [] seen.state = "scheme" /\ token = "1" ->
         [seen EXCEPT !.scheme = Append(@, token)]
    [] seen.state = "scheme" /\ token = ":" -> [seen EXCEPT !.state = "found"]
    [] seen.state = "found" -> seen
    [] OTHER -> [state |-> "relative", scheme |-> NoScheme]

SchemeRead(href) ==
  LET read[n \in 0..Len(href)] ==
        IF n = 0 THEN [state |-> "start", scheme |-> NoScheme]
        ELSE SchemeStep(read[n - 1], href[n])
      end == read[Len(href)]
  IN  IF end.state = "found" THEN Lower(end.scheme) ELSE NoScheme
==============================================================================
