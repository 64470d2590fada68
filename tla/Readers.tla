------------------------------- MODULE Readers --------------------------------
(***************************************************************************)
(* Texts that arrive from outside and the code that reads them: link       *)
(* targets of a document, an application's sentence templates, slugs and   *)
(* If-None-Match headers.  A text grows by one piece in each step, and     *)
(* every state asks what is read of it.                                    *)
(***************************************************************************)
EXTENDS Href, Template, EntityTags

CONSTANTS
  PiecesOf,    \* PiecesOf[r]: the pieces texts for the reader r are made of
  MaxPieces,   \* MaxPieces[r]: bound on the pieces of a text
  SlugChoices  \* the documents sentences name, as sets of slugs

TextKinds == {"href", "template", "if-none-match"}

ASSUME ReadersAssumption ==
  /\ MaxSlugLen \in Nat \ {0}
  /\ PiecesOf["href"] \subseteq Seq(HrefTokens)
  /\ PiecesOf["template"] \subseteq Seq(TemplateTokens)
  /\ PiecesOf["if-none-match"] \subseteq Seq(TagTokens)
  /\ MaxPieces \in [TextKinds -> Nat]
  /\ \A slugs \in SlugChoices : \A slug \in slugs : IsSlug(slug)

VARIABLES
  reader,   \* which text it is
  text,     \* the text so far
  pieces    \* the number of its pieces

readerVars == <<reader, text, pieces>>

StartText(kind) == reader = kind /\ text = << >> /\ pieces = 0

Read(piece) ==
  /\ pieces < MaxPieces[reader]
  /\ text' = text \o piece
  /\ pieces' = pieces + 1
  /\ UNCHANGED reader

ReadersNext == reader \in TextKinds /\ \E piece \in PiecesOf[reader] : Read(piece)

ReadersSpec == (\E kind \in TextKinds : StartText(kind)) /\ [][ReadersNext]_readerVars
------------------------------------------------------------------------------
(***************************************************************************)
(* Properties.                                                             *)
(***************************************************************************)
\* A rendered link has, to a browser, no scheme or an allowed one, no link with
\* an allowed scheme and no reference without a colon is lost, and exactly the
\* ones that leave over http open in a new tab (is_safe_href: "The check reads
\* the reference the way a browser does").
LinksAreReadAsBrowsersDo ==
  reader = "href" =>
    LET scheme == SchemeRead(text)
    IN  /\ IsSafeHref(text) => scheme \in AllowedSchemes \cup {NoScheme}
        /\ scheme \in AllowedSchemes \/ ~ Contains(text, ":") => IsSafeHref(text)
        /\ IsSafeHref(text) => (IsExternal(text) <=> scheme \in HttpSchemes)

\* The segments say the template again, word for word, with a slot exactly at
\* every placeholder, whatever stray braces stand around it; every slug can be
\* placed; and a sentence that is shown links its slugs and nothing else
\* (split_template, AcceptanceSentence: "is shown as written").
SlotsAreThePlaceholders ==
  reader = "template" =>
    LET segments == SplitTemplate(text)
    IN  /\ WrittenOut(segments) = text
        /\ Places(segments, {"slot"}) = Placeholders(text)
        /\ IsSlug(text) => SplitTemplate(Braced(text)) = <<Slot(text)>>
        /\ \A published, slugs \in SlugChoices :
             LET sentence == AcceptanceSentence(published, slugs, text)
             IN  /\ sentence = << >> <=> (text = << >> \/ ~ slugs \subseteq published)
                 /\ sentence # << >> =>
                      Places(sentence, {"link"}) =
                        {place \in Placeholders(text) :
                           SubSeq(text, place[1] + 1, place[2] - 1) \in slugs}

\* A header that is a list names the tag exactly when one of its elements is the
\* tag, weak or strong, whatever the other elements hold between their quotes; `*`
\* names every tag; and anything else names the tag only where it spells it out
\* (ETag::matches_if_none_match, RFC 9110 13.1.2).
ListsNameTheirTags ==
  reader = "if-none-match" =>
    /\ IsList(text) =>
         (MatchesIfNoneMatch(text) <=> <<"x">> \in ListRead(text).tags)
    /\ IsStar(text) => MatchesIfNoneMatch(text)
    /\ ~ IsList(text) /\ MatchesIfNoneMatch(text) => IsStar(text) \/ Self \in SubSeqs(text)
==============================================================================
