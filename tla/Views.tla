-------------------------------- MODULE Views ---------------------------------
(***************************************************************************)
(* What a reader is sent (crates/terrace-legal/src/legal.rs and catalog.rs,*)
(* crates/terrace-legal-model/src/wire.rs): the view of a document in one  *)
(* locale, its entity tag, and the acceptance that quotes it.  The servers *)
(* and clients of the other modules are built from these.                  *)
(***************************************************************************)
EXTENDS ServedCatalog

\* negotiate, for locales of different languages, no header and no default.
Negotiate(locales, lang) ==
  IF lang \in locales THEN lang
  ELSE CHOOSE first \in locales : \A other \in locales : first <= other

ConsentSummary(document) ==
  [requirement |-> document.policy.requirement, version |-> document.policy.version]

\* Builder::document: the view of one variant, and its tag.
ViewOf(slug, locale, document) ==
  [slug |-> slug, locale |-> locale, heading |-> document.heading,
   text |-> document.bodies[locale], consent |-> ConsentSummary(document)]

\* Mutant: a tag over the body alone.
EntityTagOfBody(slug, locale, document) ==
  [slug |-> slug, locale |-> locale, heading |-> 0,
   digest |-> document.bodies[locale]]

\* Mutant: a tag over the name of the variant.
EntityTagOfName(slug, locale, document) ==
  [slug |-> slug, locale |-> locale, heading |-> 0, digest |-> CHOOSE text \in Texts : TRUE]

EntityTag(slug, locale, document) ==
  [slug |-> slug, locale |-> locale, heading |-> document.heading,
   digest |-> document.bodies[locale]]

\* Legal::document finds the slug, and a body under it.
Hosts(documents, slug) ==
  slug \in DOMAIN documents /\ documents[slug].kind = "inline"

\* acceptance_for: quote the view itself.
AcceptanceFor(shown) ==
  [slug |-> shown.slug, version |-> shown.consent.version,
   locale |-> shown.locale, digest |-> shown.text]

ViewsOfAnything ==
  [slug : Slugs, locale : Locales, heading : Headings, text : Texts,
   consent : [requirement : Requirements, version : Versions \cup {NoVersion}]]
==============================================================================
