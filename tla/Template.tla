------------------------------- MODULE Template -------------------------------
(***************************************************************************)
(* The sentence that links to the documents a reader agrees to             *)
(* (crates/terrace-legal-dioxus/src/acceptance.rs), and the slugs it names *)
(* (crates/terrace-legal-model/src/slug.rs).                               *)
(*                                                                         *)
(* Text is a sequence of tokens: the two braces, "a" and "b" for lowercase *)
(* letters and digits, "-" for "_" too, and "A" for any other character.   *)
(***************************************************************************)
EXTENDS Integers, SequencesExt

CONSTANT MaxSlugLen   \* MAX_SLUG_LEN

SlugStarts == {"a", "b"}
SlugTokens == SlugStarts \cup {"-"}
TemplateTokens == SlugTokens \cup {"lbrace", "rbrace", "A"}

\* Slug::from_str.
IsSlug(name) ==
  /\ Len(name) \in 1..MaxSlugLen
  /\ Head(name) \in SlugStarts
  /\ ToSet(name) \subseteq SlugTokens

IsSlotName(name) == name # << >> /\ ToSet(name) \subseteq SlugTokens

TextSegment(text) == [segment |-> "text", text |-> text]
Slot(name) == [segment |-> "slot", text |-> name]
TextIfAny(text) == IF text = << >> THEN << >> ELSE <<TextSegment(text)>>

\* Where the search goes on after a `{` that opens no placeholder.
\* Mutant: after the `}` that closed it.
ResumeAfterClose(open, close) == IF close = 0 THEN open + 1 ELSE close + 1
Resume(open, close) == open + 1

\* str::find: the place of the first such token from a place on, 0 if there is none.
Find(text, wanted, from) ==
  SelectInSubSeq(text, from, Len(text), LAMBDA token : token = wanted)

\* split_template: split[at][from] is made of what is left from `at` on and of the
\* literal text since `from`.
SplitTemplate(template) ==
  LET n == Len(template)
      split[at \in 1..(n + 1)] ==
        LET open  == Find(template, "lbrace", at)
            close == Find(template, "rbrace", open + 1)
            name  == SubSeq(template, open + 1, close - 1)
        IN  [from \in 1..at |->
               IF open = 0
               THEN TextIfAny(SubSeq(template, from, n))
               ELSE IF close # 0 /\ IsSlotName(name)
                    THEN TextIfAny(SubSeq(template, from, open - 1))
                           \o <<Slot(name)>> \o split[close + 1][close + 1]
                    ELSE split[Resume(open, close)][from]]
  IN  split[1][1]

\* AcceptanceSentence: nothing unless every slug is published; a placeholder
\* links when the sentence names its slug, and is shown as written otherwise.
Link(name) == [segment |-> "link", text |-> name]

AcceptanceSentence(published, slugs, template) ==
  IF slugs \subseteq published
  THEN [i \in DOMAIN SplitTemplate(template) |->
          LET part == SplitTemplate(template)[i]
          IN  IF part.segment = "slot" /\ part.text \in slugs
              THEN Link(part.text) ELSE part]
  ELSE << >>
------------------------------------------------------------------------------
(***************************************************************************)
(* What a template says.                                                   *)
(***************************************************************************)
Braced(name) == <<"lbrace">> \o name \o <<"rbrace">>

\* A segment as it was written, with the braces of a placeholder.
Written(part) ==
  IF part.segment = "text" THEN part.text ELSE Braced(part.text)

Writing(parts) ==
  LET written[i \in 0..Len(parts)] ==
        IF i = 0 THEN << >> ELSE written[i - 1] \o Written(parts[i])
  IN  written

WrittenOut(parts) == Writing(parts)[Len(parts)]

\* Where the placeholders of a template are: from a `{` to the next brace, a `}`,
\* with nothing but name characters between.
Placeholders(template) ==
  {place \in (1..Len(template)) \X (1..Len(template)) :
     /\ place[1] + 1 < place[2]
     /\ template[place[1]] = "lbrace" /\ template[place[2]] = "rbrace"
     /\ \A k \in (place[1] + 1)..(place[2] - 1) : template[k] \in SlugTokens}

\* Where segments of some kinds stand in what is written out.
Places(parts, kinds) ==
  {<<Len(Writing(parts)[i - 1]) + 1, Len(Writing(parts)[i])>> :
     i \in {k \in DOMAIN parts : parts[k].segment \in kinds}}
==============================================================================
