------------------------------- MODULE Catalog -------------------------------
(***************************************************************************)
(* Validation of an operator's configuration into what can be served       *)
(* (crates/terrace-legal/src/catalog.rs and rules.rs).                     *)
(*                                                                         *)
(* A configuration is only what was deserialised: document keys that may   *)
(* not be slugs, locale keys that may not be locales or may normalise to   *)
(* the same tag, bodies that may be blank or too large.  `Issues` is every *)
(* problem the build reports; a configuration with none is `Valid`, and    *)
(* `CatalogOf` is what it publishes.  Texts stand for their SHA-256        *)
(* digests: two texts have one digest exactly when they are the same text. *)
(***************************************************************************)
EXTENDS Integers, FiniteSets

CONSTANTS
  Slugs,       \* keys of `documents` that are valid slugs
  BadKeys,     \* keys of `documents` that are not
  Locales,     \* locale tags, as numbers in canonical (alphabetical) order
  Spellings,   \* locale keys an operator writes
  TagOf,       \* TagOf[k] is the tag the key k normalises to, or NoLocale
  Texts,       \* body texts within the size limit, ordered as their digests
  Versions,    \* operator revisions, in the order of their spelling
  Headings,    \* what is shown beside a body: its titles and `updated` line
  Required,    \* the slugs a RequiredDocuments rule insists on
  MaxInstant   \* the last day the date type can represent

NoLocale == 0
NoVersion == 0          \* absent or blank
BlankText == 0
OversizedText == -1
BadHeading == -1        \* a title map with a blank title or a refused key
NoDate == -1            \* `effective` is not configured
BadDate == -2           \* `effective` is no day written YYYY-MM-DD
Dates == 0..MaxInstant

ASSUME CatalogAssumption ==
  /\ Slugs \cap BadKeys = {}
  /\ Locales \subseteq Nat \ {NoLocale}
  /\ TagOf \in [Spellings -> Locales \cup {NoLocale}]
  /\ Texts \subseteq Nat \ {BlankText}
  /\ Versions \subseteq Nat \ {NoVersion}
  /\ Headings \subseteq Nat
  /\ Required \subseteq Slugs
  /\ MaxInstant \in Nat

Requirements == {"none", "acknowledge", "accept"}

(***************************************************************************)
(* The input.                                                              *)
(***************************************************************************)
\* Builder::url refuses what is not absolute, not http or https, without a host
\* or with credentials.
Urls == {"absent", "usable", "refused"}

IsPartial(f, S, T) == DOMAIN f \subseteq S /\ f \in [DOMAIN f -> T]

IsSource(source) ==
  /\ IsFiniteSet(DOMAIN source.body)
  /\ IsPartial(source.body, Spellings, Texts \cup {BlankText, OversizedText})
  /\ source \in
       [body        : {source.body},
        url         : Urls,
        heading     : Headings \cup {BadHeading},
        requirement : Requirements,
        version     : Versions \cup {NoVersion},
        effective   : Dates \cup {NoDate, BadDate},
        grace_days  : Nat]

IsConfig(config) ==
  /\ IsPartial(config, Slugs \cup BadKeys, {config[key] : key \in DOMAIN config})
  /\ \A key \in DOMAIN config : IsSource(config[key])

(***************************************************************************)
(* The output: documents by slug.  A document whose requirement is `none`  *)
(* has no policy in the code; NoPolicy is that absence.                    *)
(***************************************************************************)
NoPolicy ==
  [requirement |-> "none", version |-> NoVersion, effective |-> NoDate,
   grace_days |-> 0, digests |-> << >>]

IsPolicy(policy) ==
  /\ IsPartial(policy.digests, Locales, Texts)
  /\ policy \in
       [requirement : Requirements, version : Versions \cup {NoVersion},
        effective : Dates \cup {NoDate}, grace_days : 0..365,
        digests : {policy.digests}]

IsDocument(document) ==
  /\ IsPartial(document.bodies, Locales, Texts)
  /\ IsPolicy(document.policy)
  /\ document \in
       [kind : {"inline", "external"}, heading : Headings,
        bodies : {document.bodies}, policy : {document.policy}]

IsCatalog(documents) ==
  /\ IsPartial(documents, Slugs, {documents[slug] : slug \in DOMAIN documents})
  /\ \A slug \in DOMAIN documents : IsDocument(documents[slug])
------------------------------------------------------------------------------
(***************************************************************************)
(* The built-in checks, each as the set of fields it reports.              *)
(***************************************************************************)
Report(field, broken) == IF broken THEN {field} ELSE {}

Hosted(source) == DOMAIN source.body # {}

\* Builder::locale_map and Builder::bodies: run only for a body without a url.
BodyIssues(body) ==
  Report("body", \/ \E k \in DOMAIN body : TagOf[k] = NoLocale
                 \/ \E j, k \in DOMAIN body : j # k /\ TagOf[j] = TagOf[k]
                 \/ \E k \in DOMAIN body : body[k] \in {BlankText, OversizedText})

\* Builder::consent.  The grace period is bounded whatever the requirement, and
\* the rest is checked only when something is asked of the reader.
Asks(source) == source.requirement # "none"

GraceIssues(source) ==
  Report("grace_days.range", source.grace_days > 365)
    \cup Report("grace_days.effective",
                Asks(source) /\ source.grace_days > 0 /\ source.effective = NoDate)

\* Mutant: only a link that is refused anyway.
HostingIssuesOfBadLinks(source) ==
  Report("requirement", Asks(source) /\ source.url = "refused")

HostingIssues(source) == Report("requirement", Asks(source) /\ source.url # "absent")

ConsentIssues(source) ==
  GraceIssues(source)
    \cup Report("version", Asks(source) /\ source.version = NoVersion)
    \cup HostingIssues(source)
    \cup Report("effective", Asks(source) /\ source.effective = BadDate)

\* Builder::document.
DocumentIssues(key, source) ==
  Report("slug", key \in BadKeys)
    \cup Report("title", source.heading = BadHeading)
    \cup Report("body-or-url", Hosted(source) <=> source.url # "absent")
    \cup (IF source.url = "absent" THEN BodyIssues(source.body) ELSE {})
    \cup Report("url", source.url = "refused")
    \cup ConsentIssues(source)

\* RequiredDocuments: each slug it names is published.
RuleIssues(config) == {<<slug, "required">> : slug \in Required \ DOMAIN config}

\* CatalogBuilder::build collects the issues of every document and every rule.
Issues(config) ==
  RuleIssues(config)
    \cup UNION {{<<key, field>> : field \in DocumentIssues(key, config[key])} :
                  key \in DOMAIN config}

Valid(config) == Issues(config) = {}
------------------------------------------------------------------------------
(***************************************************************************)
(* What a valid configuration publishes.                                   *)
(***************************************************************************)
Bodies(source) ==
  IF source.url = "absent"
  THEN [tag \in {TagOf[k] : k \in DOMAIN source.body} |->
          source.body[CHOOSE k \in DOMAIN source.body : TagOf[k] = tag]]
  ELSE << >>

PolicyOf(source) ==
  IF source.requirement = "none"
  THEN NoPolicy
  ELSE [requirement |-> source.requirement, version |-> source.version,
        effective |-> source.effective, grace_days |-> source.grace_days,
        digests |-> Bodies(source)]

DocumentOf(source) ==
  [kind |-> IF Hosted(source) THEN "inline" ELSE "external",
   heading |-> source.heading, bodies |-> Bodies(source),
   policy |-> PolicyOf(source)]

CatalogOf(config) == [slug \in DOMAIN config |-> DocumentOf(config[slug])]

\* Document::consent is present only when the requirement is not `none`.
HasPolicy(document) == document.policy.requirement # "none"
==============================================================================
