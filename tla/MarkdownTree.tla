----------------------------- MODULE MarkdownTree -----------------------------
(***************************************************************************)
(* The tree of a document and its rendering                                *)
(* (crates/terrace-legal-markdown/src/tree.rs and render.rs): `parse`      *)
(* keeps a stack of open containers and takes one parser event per step.   *)
(*                                                                         *)
(* The parser is a library.  Its events are those of a well-nested stream, *)
(* in the order the content model `MayHold` allows; that the stream ends   *)
(* while containers are open, or closes one too many, is what `parse`      *)
(* guards against and is allowed too.  Literal texts are numbered.         *)
(***************************************************************************)
EXTENDS Href

CONSTANTS
  Destinations,  \* the link targets of documents
  Profiles       \* what a document may hold: its tags, and bounds on their
                 \* number and on the number of its texts

VARIABLES
  profile,  \* the kind of document that is read
  stack,    \* the open containers, with the nodes each collected
  root,     \* the nodes outside of any
  written,  \* the texts and spaces of the events so far
  started,  \* the number of containers
  parsed    \* the events have ended

treeVars == <<profile, stack, root, written, started, parsed>>

Space == 0        \* what a line break reads as
Marker == -1      \* a task list marker

BlockTags == {"Paragraph", "Heading", "BlockQuote", "CodeBlock", "HtmlBlock",
              "List", "Table"}
InlineTags == {"Emphasis", "Link", "Autolink", "Image"}
OtherTags == {"Item", "TableHead", "TableRow", "TableCell"}

NoHref == << >>
LinkTags == {"Link", "Autolink"}
Tags == [tag : (BlockTags \cup InlineTags \cup OtherTags) \ LinkTags, dest : {NoHref}]
          \cup [tag : LinkTags, dest : Destinations]

ASSUME MarkdownAssumption ==
  /\ Destinations \subseteq Seq(HrefTokens)
  /\ \A p \in Profiles :
       /\ p.tags \subseteq BlockTags \cup InlineTags \cup OtherTags
       /\ {p.containers, p.texts} \subseteq Nat
------------------------------------------------------------------------------
(***************************************************************************)
(* Nodes and frames.                                                       *)
(***************************************************************************)
Text(texts) == [node |-> "Text", texts |-> texts]
Break == [node |-> "Break"]
Rule == [node |-> "Rule"]
Element(kind, children) == [node |-> "Element", kind |-> kind, children |-> children]
LinkTo(href, children) ==
  [node |-> "Link", href |-> href, external |-> IsExternal(href), children |-> children]

IsElement(node, kind) == node.node = "Element" /\ node.kind = kind

\* Frame: a cell's kind is settled when its row closes, and of a link the
\* target alone is kept, whatever the author wrote it as.
FrameFor(start) ==
  [frame |-> CASE start.tag \in LinkTags -> "Link"
               [] start.tag \in {"Image", "HtmlBlock"} -> start.tag
               [] OTHER -> "Element",
   kind |-> IF start.tag = "TableCell" THEN "Cell" ELSE start.tag,
   href |-> start.dest, children |-> << >>]

RECURSIVE PlainText(_)
PlainText(nodes) ==
  FlattenSeq([i \in DOMAIN nodes |->
    CASE nodes[i].node = "Text"  -> nodes[i].texts
      [] nodes[i].node = "Break" -> <<Space>>
      [] nodes[i].node = "Rule"  -> << >>
      [] OTHER                   -> PlainText(nodes[i].children)])

\* push_text merges into a text just before.
PushText(nodes, texts) ==
  IF nodes # << >> /\ Last(nodes).node = "Text"
  THEN Append(Front(nodes), Text(Last(nodes).texts \o texts))
  ELSE Append(nodes, Text(texts))
------------------------------------------------------------------------------
(***************************************************************************)
(* close: what a container leaves in its parent.                           *)
(***************************************************************************)
TableHead(children) ==
  Element("TableHead",
    <<Element("TableRow",
        [i \in DOMAIN children |->
           IF IsElement(children[i], "Cell")
           THEN [children[i] EXCEPT !.kind = "HeaderCell"] ELSE children[i]])>>)

\* Mutant: a table has a body even if no row is left for it.
TableAlwaysWithBody(children) ==
  Element("Table",
    Append(SelectSeq(children, LAMBDA node : IsElement(node, "TableHead")),
           Element("TableBody", SelectSeq(children, LAMBDA node : ~ IsElement(node, "TableHead")))))

Table(children) ==
  LET head == SelectSeq(children, LAMBDA node : IsElement(node, "TableHead"))
      body == SelectSeq(children, LAMBDA node : ~ IsElement(node, "TableHead"))
  IN  Element("Table", IF body = << >> THEN head ELSE Append(head, Element("TableBody", body)))

\* Mutant: a link that may not be followed is left out.
LinkOrNothing(frame) ==
  IF IsSafeHref(frame.href) THEN <<LinkTo(frame.href, frame.children)>> ELSE << >>

LinkOrChildren(frame) ==
  IF IsSafeHref(frame.href) THEN <<LinkTo(frame.href, frame.children)>> ELSE frame.children

Close(frame, parent) ==
  LET children == frame.children
  IN  CASE frame.frame = "Link" -> parent \o LinkOrChildren(frame)
        [] frame.frame = "Image" ->
             IF PlainText(children) = << >> THEN parent
             ELSE PushText(parent, PlainText(children))
        [] frame.frame = "HtmlBlock" -> Append(parent, Element("Paragraph", children))
        [] frame.kind = "TableHead" -> Append(parent, TableHead(children))
        [] frame.kind = "Table" -> Append(parent, Table(children))
        [] OTHER -> Append(parent, Element(frame.kind, children))
------------------------------------------------------------------------------
(***************************************************************************)
(* The stream of events.                                                   *)
(***************************************************************************)
Holder == IF stack = << >> THEN "Root" ELSE Last(stack).kind
IsFirst == stack # << >> /\ Last(stack).children = << >>
InLink == \E i \in DOMAIN stack : stack[i].kind = "Link"

\* CommonMark 6.3: "Links may not contain other links, at any level of nesting",
\* by which `[` and `]` pair; but `<` binds closer, so that an autolink may stand
\* in the text of a link.  An autolink has nothing but text in it.
MayHold(tag) ==
  /\ tag = "Link" => ~ InLink
  /\ CASE Holder \in {"Root", "BlockQuote"} -> tag \in BlockTags
       [] Holder = "Item" -> tag \in BlockTags \cup InlineTags
       [] Holder = "List" -> tag = "Item"
       [] Holder = "Table" -> tag = IF IsFirst THEN "TableHead" ELSE "TableRow"
       [] Holder \in {"TableHead", "TableRow"} -> tag = "TableCell"
       [] Holder \in {"Paragraph", "Heading", "Cell", "Emphasis", "Link", "Image"} ->
            tag \in InlineTags
       [] OTHER -> FALSE

MayHoldText ==
  Holder \in {"Paragraph", "Heading", "Cell", "Item", "CodeBlock", "HtmlBlock"} \cup InlineTags
MayHoldMarkup == MayHoldText /\ Holder \notin {"CodeBlock", "HtmlBlock", "Autolink"}

NextText == <<Len(written) + 1>>

StartDocument(p) ==
  /\ profile = p
  /\ stack = << >> /\ root = << >> /\ written = << >> /\ started = 0 /\ parsed = FALSE

\* What the innermost of some open containers holds, or the root.
Collected(open) == IF open = << >> THEN root ELSE Last(open).children

\* Its nodes replaced.
Sink(open, nodes) ==
  IF open = << >>
  THEN root' = nodes /\ stack' = open
  ELSE stack' = [open EXCEPT ![Len(open)].children = nodes] /\ UNCHANGED root

Start(start) ==
  /\ start.tag \in profile.tags
  /\ MayHold(start.tag)
  /\ started < profile.containers
  /\ started' = started + 1
  /\ stack' = Append(stack, FrameFor(start))
  /\ UNCHANGED <<root, written>>

\* An end without a container is passed over.  A table has its head by then.
End ==
  /\ ~ (Holder = "Table" /\ IsFirst)
  /\ IF stack = << >>
     THEN UNCHANGED <<stack, root>>
     ELSE Sink(Front(stack), Close(Last(stack), Collected(Front(stack))))
  /\ UNCHANGED <<written, started>>

\* Event::Text and Html, a task list marker, and the two kinds of line break.
Say(texts, nodes) ==
  /\ Len(written) < profile.texts
  /\ written' = written \o texts
  /\ Sink(stack, nodes)
  /\ UNCHANGED started

SayText(texts) == Say(texts, PushText(Collected(stack), texts))
Literal == MayHoldText /\ SayText(NextText)
TaskListMarker == Holder = "Item" /\ IsFirst /\ SayText(<<Marker>>)
SoftBreak == MayHoldMarkup /\ SayText(<<Space>>)
HardBreak == MayHoldMarkup /\ Say(<<Space>>, Append(Collected(stack), Break))
Code ==
  /\ MayHoldMarkup
  /\ Say(NextText, Append(Collected(stack), Element("Code", <<Text(NextText)>>)))

ThematicBreak ==
  /\ Holder \in {"Root", "BlockQuote", "Item"}
  /\ started < profile.containers
  /\ started' = started + 1
  /\ Sink(stack, Append(Collected(stack), Rule))
  /\ UNCHANGED written

Event ==
  \/ \E start \in Tags : Start(start)
  \/ End \/ Literal \/ TaskListMarker \/ SoftBreak \/ HardBreak \/ Code \/ ThematicBreak

\* What is still open is folded into the root.
Finish ==
  /\ parsed' = TRUE
  /\ stack' = << >>
  /\ root' = root \o FlattenSeq([i \in DOMAIN stack |-> stack[i].children])
  /\ UNCHANGED <<written, started>>

MarkdownNext ==
  /\ ~ parsed
  /\ \/ Event /\ UNCHANGED parsed
     \/ Finish
  /\ UNCHANGED profile
------------------------------------------------------------------------------
(***************************************************************************)
(* render: the HTML element of each kind.                                  *)
(***************************************************************************)
ElementOf ==
  [Heading |-> "h", Paragraph |-> "p", BlockQuote |-> "blockquote", CodeBlock |-> "pre",
   Code |-> "code", Emphasis |-> "em", List |-> "list", Item |-> "li",
   Table |-> "table", TableHead |-> "thead", TableBody |-> "tbody",
   TableRow |-> "tr", HeaderCell |-> "th", Cell |-> "td"]

RECURSIVE Render(_)
Render(node) ==
  CASE node.node = "Text"  -> [html |-> "text", inner |-> << >>]
    [] node.node = "Break" -> [html |-> "br", inner |-> << >>]
    [] node.node = "Rule"  -> [html |-> "hr", inner |-> << >>]
    [] node.node = "Link"  ->
         [html |-> "a", new_tab |-> node.external, href |-> node.href,
          inner |-> [i \in DOMAIN node.children |-> Render(node.children[i])]]
    [] OTHER ->
         [html |-> ElementOf[node.kind],
          inner |-> [i \in DOMAIN node.children |-> Render(node.children[i])]]

Markdown(nodes) == [i \in DOMAIN nodes |-> Render(nodes[i])]
------------------------------------------------------------------------------
(***************************************************************************)
(* Properties.                                                             *)
(***************************************************************************)
OpenNodes == FlattenSeq([i \in DOMAIN stack |-> stack[i].children])

RECURSIVE Said(_)
Said(nodes) ==
  FlattenSeq([i \in DOMAIN nodes |->
    CASE nodes[i].node = "Text"  -> nodes[i].texts
      [] nodes[i].node = "Break" -> <<Space>>
      [] nodes[i].node = "Rule"  -> << >>
      [] OTHER                   -> Said(nodes[i].children)])

\* Through every nesting of containers, links that may not be followed, images,
\* HTML and streams that end early, what a document says is said once and in
\* order (parse: "An image becomes its alt text, and a link with an unsafe target
\* becomes its own text").
NoTextIsLost == Said(root \o OpenNodes) = written

Htmls(elements) == [i \in DOMAIN elements |-> elements[i].html]
All(elements, names) == ToSet(Htmls(elements)) \subseteq names

\* What HTML lets an element hold, of the elements that are rendered.
Blocks == {"p", "h", "blockquote", "pre", "list", "table", "hr"}
Phrasing == {"text", "br", "code", "em", "a"}
Holds ==
  [text |-> {}, br |-> {}, hr |-> {}, code |-> {"text"}, pre |-> {"text"},
   p |-> Phrasing, h |-> Phrasing, em |-> Phrasing, a |-> Phrasing,
   blockquote |-> Blocks, list |-> {"li"}, li |-> Blocks \cup Phrasing,
   table |-> {"thead", "tbody"}, thead |-> {"tr"}, tbody |-> {"tr"},
   tr |-> {"th", "td"}, th |-> Phrasing, td |-> Phrasing]

IsTable(parts) ==
  /\ Htmls(parts) \in {<<"thead">>, <<"thead", "tbody">>}
  /\ Len(parts[1].inner) = 1
  /\ Len(parts) = 2 => parts[2].inner # << >>
  /\ \A i \in DOMAIN parts : \A row \in ToSet(parts[i].inner) :
       All(row.inner, IF i = 1 THEN {"th"} ELSE {"td"})

\* An anchor, in the text of another one or not.
IsAnchor(element, linked) ==
  /\ SchemeRead(element.href) \in AllowedSchemes \cup {NoScheme}
  /\ element.new_tab <=> SchemeRead(element.href) \in HttpSchemes
  /\ linked => All(element.inner, {"text"})

RECURSIVE IsHtml(_, _)
IsHtml(element, linked) ==
  /\ All(element.inner, Holds[element.html])
  /\ element.html = "table" => IsTable(element.inner)
  /\ element.html = "a" => IsAnchor(element, linked)
  /\ \A i \in DOMAIN element.inner :
       IsHtml(element.inner[i], linked \/ element.html = "a")

\* However containers nest, and whichever links dissolve and images turn to text,
\* what was closed renders with each element where HTML allows it: only blocks in
\* a document and a quote, only inline content in a paragraph, a heading, a cell
\* and a link, tables of one head row of header cells and a body only of rows
\* (tree.rs tests: "a_table_has_a_head_row_of_header_cells_and_a_body"); and a
\* link leads where an anchor may.  HTML has no anchor in an anchor, and this is
\* not claimed: an autolink in the text of a link becomes one, but it is the only
\* thing that does, and it holds nothing but text.
RenderedAsHtml ==
  stack = << >> /\ ~ parsed =>
    /\ All(Markdown(root), Blocks)
    /\ \A i \in DOMAIN root : IsHtml(Render(root[i]), FALSE)
==============================================================================
