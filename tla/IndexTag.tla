------------------------------- MODULE IndexTag -------------------------------
(***************************************************************************)
(* The entity tag of the index (index_etag,                                *)
(* crates/terrace-legal/src/legal.rs): readers of the handle ask for the   *)
(* index in a language and revalidate what they hold                       *)
(* (HttpPolicy::respond_index, crates/terrace-legal-axum/src/respond.rs),  *)
(* while callers of `replace` swap catalogs and generations come round.    *)
(*                                                                         *)
(* A tag is the sequence of fields that is hashed, each with its length;   *)
(* hashing is injective.                                                  *)
(***************************************************************************)
EXTENDS LegalHandle, Indexes

CONSTANTS
  LocaleText,   \* LocaleText[l]: how the locale l is written
  VersionText   \* VersionText[v]: how the revision v is written

ASSUME TagAssumption ==
  /\ \A one, other \in Locales : LocaleText[one] = LocaleText[other] => one = other
  /\ \A one, other \in Versions : VersionText[one] = VersionText[other] => one = other

VARIABLES
  shown,  \* shown[d]: the index the reader holds, and its tag
  due     \* due[d]: the index the answer stood for, for the properties only

indexVars == <<shown, due>>
------------------------------------------------------------------------------
(***************************************************************************)
(* index_etag.                                                             *)
(***************************************************************************)
Number(n) == <<"number", n>>
Word(text) == <<"text", text>>

\* Mutant: nothing stands for an absent text.
OptionalUnmarked(text) == IF text = NoText THEN << >> ELSE <<Word(text[1])>>
Optional(text) == IF text = NoText THEN <<Word("0")>> ELSE <<Word("1"), Word(text[1])>>

\* The locales are a list in canonical order.
LocaleFields(locales) ==
  LET list == Ascending(locales)
  IN  <<Number(Len(list))>> \o [n \in DOMAIN list |-> Word(LocaleText[list[n]])]

ConsentFields(consent) ==
  IF consent = << >> THEN <<Word("-")>>
  ELSE <<Word(consent[1].requirement), Word(VersionText[consent[1].version])>>

EntryFields(entry) ==
  <<Word(entry.slug), Word(entry.kind)>>
    \o Optional(entry.title) \o Optional(entry.url) \o Optional(entry.updated)
    \o LocaleFields(entry.locales) \o ConsentFields(entry.consent)

IndexETag(generation, entries) ==
  <<Number(generation)>> \o FlattenSeq([i \in DOMAIN entries |-> EntryFields(entries[i])])
------------------------------------------------------------------------------
NoIndex == [tag |-> << >>, entries |-> << >>]

IndexInit ==
  /\ Init
  /\ shown = [d \in Readers |-> NoIndex]
  /\ due = [d \in Readers |-> << >>]

\* respond_index with the tag of what the reader holds: 304 leaves that, 200
\* replaces it.  The catalog is the one `index` took before it built the entries.
Answer(d, lang) ==
  LET entries == Index(held[d].documents, lang)
      tag == IndexETag(held[d].generation, entries)
  IN  /\ due' = [due EXCEPT ![d] = entries]
      /\ IF shown[d].tag = tag
         THEN UNCHANGED shown
         ELSE shown' = [shown EXCEPT ![d] = [tag |-> tag, entries |-> entries]]
      /\ UNCHANGED vars

IndexNext ==
  \/ Next /\ UNCHANGED indexVars
  \/ \E d \in Readers, lang \in Locales : Answer(d, lang)

IndexSpec == IndexInit /\ [][IndexNext]_<<vars, indexVars>>
------------------------------------------------------------------------------
(***************************************************************************)
(* Properties.                                                             *)
(***************************************************************************)
\* A reader whose conditional request was answered "not modified" holds the very
\* index a full answer would have carried: the tags of two different indexes
\* differ in every language, for every pair of catalogs, even if both have the
\* number the generation has come round to (index_etag: "It covers the generation
\* and every entry field").
RevalidatedIndexIsCurrent == \A d \in Readers : shown[d].entries = due[d]

\* The index and the document agree on the title: a hosted document is listed
\* under the title of the very variant that is served for the same request
\* (Legal::index: "so the two never disagree").
IndexAgreesWithDocuments ==
  \A d \in Readers, lang \in Locales :
    LET documents == held[d].documents
    IN  \A i \in DOMAIN Index(documents, lang) :
          LET entry == Index(documents, lang)[i]
          IN  Hosts(documents, entry.slug) =>
                LET document == documents[entry.slug]
                    view == ViewOf(entry.slug, Negotiate(DOMAIN document.bodies, lang), document)
                IN  /\ entry.title = ViewTitle(view)
                    /\ view.locale \in entry.locales
                    /\ entry.consent # << >> => entry.consent[1] = view.consent
==============================================================================
