-------------------------------- MODULE Pages ---------------------------------
(***************************************************************************)
(* The index and the page of a document in a client                        *)
(* (crates/terrace-legal-dioxus/src/provider.rs, page.rs, links.rs and     *)
(* context.rs): the reader changes the language and follows links, answers *)
(* come late or not at all, and operators replace the catalog meanwhile.   *)
(***************************************************************************)
EXTENDS Indexes, Resource

CONSTANT
  MaxChanges   \* bound: reader and operators change something this often

ASSUME PagesAssumption == MaxChanges \in Nat

VARIABLES
  language,  \* LegalProviderProps::language
  slug,      \* LegalDocumentPageProps::slug
  index,     \* the fetch of LegalProvider; its value is LegalContext::index
  page,      \* the fetch of LegalDocumentPage
  changes    \* how often something changed

pageVars == <<language, slug, index, page, changes>>
------------------------------------------------------------------------------
\* What the transport answers, with the catalog that it came from.
IndexBody(lang) ==
  [generation |-> catalog.generation, entries |-> Index(catalog.documents, lang)]

DocumentBody(name, lang) ==
  LET document == catalog.documents[name]
  IN  [generation |-> catalog.generation,
       view |-> ViewOf(name, Negotiate(DOMAIN document.bodies, lang), document)]

\* The page's fetch reads the slug (use_reactive) and the language; the
\* provider's reads the language.  Mutant: the page's reads the language alone.
PageReadsLanguage == {"language"}
PageReads == {"slug", "language"}
IndexReads == {"language"}

Touched(resource, what, reads) ==
  [resource EXCEPT !.dirty = resource.dirty \/ what \in reads]

StartPages ==
  /\ \E l \in Locales, name \in Slugs :
       language = l /\ slug = name /\ page = Mounted(<<name, l>>) /\ index = Mounted(l)
  /\ changes = 0

Change(what) ==
  /\ changes < MaxChanges
  /\ changes' = changes + 1
  /\ page' = Touched(page, what, PageReads)
  /\ index' = Touched(index, what, IndexReads)
  /\ UNCHANGED catalog

SwitchLanguage(l) == l # language /\ language' = l /\ Change("language") /\ UNCHANGED slug

\* A link of the index leads to another page of the same component.
Links == IF index.value.state = "ok" THEN index.value.body.entries ELSE << >>

FollowLink(i) ==
  /\ Links[i].kind = "inline"
  /\ Links[i].slug # slug
  /\ slug' = Links[i].slug
  /\ Change("slug")
  /\ UNCHANGED language

Restart ==
  \/ index.dirty /\ index' = Restarted(index, language) /\ UNCHANGED page
  \/ page.dirty /\ page' = Restarted(page, <<slug, language>>) /\ UNCHANGED index

ServeIndex ==
  /\ index.fetch.at = "asked"
  /\ index' = Served(index, IndexBody(index.fetch.key))
  /\ UNCHANGED page

ServePage ==
  /\ page.fetch.at = "asked"
  /\ LET name == page.fetch.key[1]
         lang == page.fetch.key[2]
     IN  page' = IF Hosts(catalog.documents, name)
                 THEN Served(page, DocumentBody(name, lang)) ELSE Refused(page)
  /\ UNCHANGED index

Deliver ==
  \/ index.fetch.at = "answered" /\ index' = Delivered(index) /\ UNCHANGED page
  \/ page.fetch.at = "answered" /\ page' = Delivered(page) /\ UNCHANGED index

Drop ==
  \/ InFlight(index) /\ index' = Lost(index) /\ UNCHANGED page
  \/ InFlight(page) /\ page' = Lost(page) /\ UNCHANGED index

Fetching ==
  /\ Restart \/ ServeIndex \/ ServePage \/ Deliver \/ Drop
  /\ UNCHANGED <<catalog, language, slug, changes>>

Replacing(documents) ==
  /\ changes < MaxChanges
  /\ changes' = changes + 1
  /\ Register!Publish(documents)
  /\ UNCHANGED <<language, slug, index, page>>

PagesNext ==
  \/ \E l \in Locales : SwitchLanguage(l)
  \/ \E i \in DOMAIN Links : FollowLink(i)
  \/ Fetching
  \/ \E documents \in Built : Replacing(documents)

PagesInit == Register!InitCatalog /\ StartPages
PagesSpec == PagesInit /\ [][PagesNext]_<<catalog, pageVars>>
------------------------------------------------------------------------------
(***************************************************************************)
(* What is rendered.                                                       *)
(***************************************************************************)
\* legal_title and view_title: the operator's, or the application's own.
ShownTitle(title, name) == IF title = NoText THEN name ELSE title[1]

\* Mutant: the page of a document says the application's own title.
ContentByName(view) ==
  [shows |-> "document", title |-> view.slug, locale_note |-> view.locale # language]

\* LegalDocumentContent, with a note when the text is in another language.
Content(view) ==
  [shows |-> "document", title |-> ShownTitle(ViewTitle(view), view.slug),
   locale_note |-> view.locale # language]

\* LegalDocumentPage.
Rendered ==
  CASE page.value.state = "pending" -> [shows |-> "loading"]
    [] page.value.state = "err"     -> [shows |-> "error"]
    [] OTHER -> Content(page.value.body.view)
------------------------------------------------------------------------------
(***************************************************************************)
(* Properties.                                                             *)
(***************************************************************************)
\* Whatever the order in which answers of several languages and documents come
\* in, what stays on the screen is the answer to the last question: the page is
\* the one under this slug and in this language, and so are the links, or a fetch
\* is on its way (LegalDocumentPage: "The document is fetched again when `slug` or
\* the provider's language changes").
NoOlderAnswerStays ==
  /\ Quiet(page) => page.value.key = <<slug, language>>
  /\ Quiet(index) => index.value.key = language

\* A link that came from the catalog a page came from leads there: the page it
\* opens is no error, and it has the title the link had, in every language and
\* with or without a title from the operator.
LinksLeadToTheirPages ==
  \A i \in DOMAIN Links :
    Links[i].kind = "inline" =>
      /\ index.value.body.generation = catalog.generation =>
           Hosts(catalog.documents, Links[i].slug)
      /\ /\ Rendered.shows = "document"
         /\ page.value.body.generation = index.value.body.generation
         /\ page.value.key = <<Links[i].slug, index.value.key>>
         => Rendered.title = ShownTitle(Links[i].title, Links[i].slug)
==============================================================================
