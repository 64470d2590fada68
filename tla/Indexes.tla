------------------------------- MODULE Indexes --------------------------------
(***************************************************************************)
(* The index of the published documents: Legal::index                      *)
(* (crates/terrace-legal/src/legal.rs), and the entry it is made of        *)
(* (crates/terrace-legal-model/src/wire.rs).                               *)
(***************************************************************************)
EXTENDS Views, Ranks, SequencesExt

CONSTANTS
  CatalogOrder,  \* the slugs in the order of the documents
  TitlesOf,      \* TitlesOf[h]: the titles that the heading h has, by locale
  UpdatedOf      \* UpdatedOf[h]: its `updated` line, or NoText

NoText == << >>
Text(string) == <<string>>

ASSUME IndexAssumption ==
  /\ CatalogOrder \in Seq(Slugs) /\ ToSet(CatalogOrder) = Slugs
  /\ \A h \in Headings :
       /\ IsPartial(TitlesOf[h], Locales, {TitlesOf[h][l] : l \in DOMAIN TitlesOf[h]})
       /\ UpdatedOf[h] = NoText \/ UpdatedOf[h] = Text(UpdatedOf[h][1])
------------------------------------------------------------------------------
\* Document::locales: of the bodies, or of the titles of a document elsewhere.
LocalesOf(document) ==
  IF document.kind = "inline" THEN DOMAIN document.bodies
  ELSE DOMAIN TitlesOf[document.heading]

\* Mutant: the title is negotiated among the titles.
TitleOfTitles(document, lang) ==
  LET titles == TitlesOf[document.heading]
  IN  IF DOMAIN titles = {} THEN NoText ELSE Text(titles[Negotiate(DOMAIN titles, lang)])

Title(document, lang) ==
  LET titles == TitlesOf[document.heading]
      locales == LocalesOf(document)
  IN  IF locales # {} /\ Negotiate(locales, lang) \in DOMAIN titles
      THEN Text(titles[Negotiate(locales, lang)])
      ELSE NoText

LegalIndexEntry(slug, document, lang) ==
  [slug |-> slug, kind |-> document.kind, title |-> Title(document, lang),
   updated |-> UpdatedOf[document.heading],
   url |-> IF document.kind = "external" THEN Text("url") ELSE NoText,
   locales |-> IF document.kind = "inline" THEN DOMAIN document.bodies ELSE {},
   consent |-> IF HasPolicy(document) THEN <<ConsentSummary(document)>> ELSE << >>]

\* Builder::document: the title of a view is the one of its own locale.
ViewTitle(view) ==
  LET titles == TitlesOf[view.heading]
  IN  IF view.locale \in DOMAIN titles THEN Text(titles[view.locale]) ELSE NoText

\* The documents that are published, in their order.
Index(documents, lang) ==
  LET published == Ascending({i \in DOMAIN CatalogOrder : CatalogOrder[i] \in DOMAIN documents})
      Slug(n) == CatalogOrder[published[n]]
  IN  [n \in DOMAIN published |-> LegalIndexEntry(Slug(n), documents[Slug(n)], lang)]
==============================================================================
