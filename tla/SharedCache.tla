----------------------------- MODULE SharedCache ------------------------------
(***************************************************************************)
(* Documents behind a shared cache (crates/terrace-legal-axum/src/respond.rs):*)
(* readers ask in the language of a `lang` parameter or of their           *)
(* Accept-Language header, HttpPolicy says what a response varies on and   *)
(* how long it may be kept, and operators replace the catalog meanwhile.   *)
(*                                                                         *)
(* The cache is not in the repository.  It follows RFC 9111: it keys on the*)
(* URL and on what Vary names, counts a response's age from its request,   *)
(* revalidates with the tags it holds for the URL, whichever language they *)
(* were stored for, and takes from a 304 which of them to serve.           *)
(***************************************************************************)
EXTENDS Views, FiniteSetsExt, Sequences

CONSTANTS
  Visitors,        \* readers, each with one request at a time
  Asked,           \* Asked[v]: a slug, `lang` and the locales of the header
  DefaultLocale,   \* Catalog::default_locale: a sequence of at most one
  MaxAge,          \* max-age in ticks; a request is given up after as many
  MaxSwaps         \* bound: operators replace the catalog this often, if the
                   \* modulus is greater

ASSUME SharedCacheAssumption ==
  /\ \A v \in Visitors :
       /\ Asked[v].slug \in Slugs
       /\ Asked[v].lang \in Seq(Locales) /\ Len(Asked[v].lang) <= 1
       /\ Asked[v].header \in Seq(Locales)
  /\ DefaultLocale \in Seq(Locales) /\ Len(DefaultLocale) <= 1
  /\ MaxAge \in Nat \ {0}
  /\ MaxSwaps \in Nat

VARIABLES
  stored,  \* the responses the cache holds
  visit,   \* visit[v]: where the reader's request is
  given,   \* the view handed to a reader in the last step, and to whom
  recent   \* recent[d]: the ticks since the documents d were served, up to MaxAge;
           \* for the properties only

sharedVars == <<stored, visit, given, recent>>

NoVisit == [at |-> "none"]
Nothing == << >>

ColdCache ==
  /\ stored = {}
  /\ visit = [v \in Visitors |-> NoVisit]
  /\ given = Nothing

SharedInit ==
  /\ Register!InitCatalog
  /\ ColdCache
  /\ recent = [documents \in {catalog.documents} |-> 0]
------------------------------------------------------------------------------
(***************************************************************************)
(* The server.                                                             *)
(***************************************************************************)
\* negotiate, for locales of different languages: the first of the request, the
\* header and the default that is hosted, or else the first locale.
NegotiateAll(locales, question) ==
  LET wanted == question.lang \o question.header \o DefaultLocale
      found == {i \in DOMAIN wanted : wanted[i] \in locales}
  IN  IF found # {} THEN wanted[Min(found)] ELSE Min(locales)

\* The URL of a request.
Url(question) == [slug |-> question.slug, lang |-> question.lang]

\* Mutant: Vary names no header.
VaryNothing(question) == << >>

\* HttpPolicy::conditional: the headers of the request that Vary names.
Vary(question) == question.header

\* Legal::document.
Response(question) ==
  LET document == catalog.documents[question.slug]
      locale == NegotiateAll(DOMAIN document.bodies, question)
  IN  [view |-> ViewOf(question.slug, locale, document),
       tag |-> EntityTag(question.slug, locale, document)]
------------------------------------------------------------------------------
(***************************************************************************)
(* The cache and its readers.                                              *)
(***************************************************************************)
Keyed(entry, question) == entry.url = Url(question) /\ entry.varies = Vary(question)

\* The stored responses of a URL, in every language.
OfUrl(question) ==
  {[view |-> entry.view, tag |-> entry.tag] :
     entry \in {e \in stored : e.url = Url(question)}}

Fresh(question) == {entry \in stored : Keyed(entry, question) /\ entry.age < MaxAge}

Goes(v, place) == visit' = [visit EXCEPT ![v] = place]
Give(v, view) == given' = [to |-> v, view |-> view]

\* A fresh response answers; otherwise the server is asked, with the tags of what is
\* stored for the URL.
Ask(v) ==
  /\ visit[v].at = "none"
  /\ \/ \E entry \in Fresh(Asked[v]) : Give(v, entry.view) /\ UNCHANGED visit
     \/ /\ Fresh(Asked[v]) = {}
        /\ Goes(v, [at |-> "asking", since |-> 0, offered |-> OfUrl(Asked[v])])
        /\ given' = Nothing
  /\ UNCHANGED stored

\* respond_document and conditional: 304, when a response that was offered has the
\* tag, which is then the one the cache serves; or 200.
Serve(v) ==
  /\ visit[v].at = "asking"
  /\ Hosts(catalog.documents, Asked[v].slug)
  /\ LET response == Response(Asked[v])
         same == {offer \in visit[v].offered : offer.tag = response.tag}
     IN  \E answer \in IF same = {} THEN {response} ELSE same :
           Goes(v, [at |-> "answered", since |-> visit[v].since, with |-> answer])
  /\ given' = Nothing
  /\ UNCHANGED stored

\* What the server sent, or confirmed, is handed on and kept for this request.
Arrive(v) ==
  /\ visit[v].at = "answered"
  /\ Give(v, visit[v].with.view)
  /\ stored' = {entry \in stored : ~ Keyed(entry, Asked[v])}
                 \cup {[url |-> Url(Asked[v]), varies |-> Vary(Asked[v]),
                        tag |-> visit[v].with.tag, view |-> visit[v].with.view,
                        age |-> visit[v].since]}
  /\ Goes(v, NoVisit)

\* The request or its answer is lost, or no document is hosted under the slug.
Miss(v) ==
  /\ visit[v].at # "none"
  /\ Goes(v, NoVisit)
  /\ given' = Nothing
  /\ UNCHANGED stored

Older(n) == IF n < MaxAge THEN n + 1 ELSE n

\* Responses and requests grow old; what takes too long is given up.
Tick ==
  /\ stored' = {[entry EXCEPT !.age = Older(@)] : entry \in stored}
  /\ visit' = [v \in Visitors |->
       IF visit[v].at # "none" /\ visit[v].since < MaxAge
       THEN [visit[v] EXCEPT !.since = @ + 1] ELSE NoVisit]
  /\ given' = Nothing
  /\ recent' = [documents \in {d \in DOMAIN recent :
                                 d = catalog.documents \/ recent[d] < MaxAge} |->
                  IF documents = catalog.documents THEN 0 ELSE recent[documents] + 1]

Swap(documents) ==
  /\ catalog.generation < MaxSwaps
  /\ Register!Publish(documents)
  /\ recent' = [d \in DOMAIN recent \cup {documents} |->
                  IF d = documents THEN 0 ELSE recent[d]]
  /\ given' = Nothing
  /\ UNCHANGED <<stored, visit>>

SharedNext ==
  \/ /\ \E v \in Visitors : Ask(v) \/ Serve(v) \/ Arrive(v) \/ Miss(v)
     /\ UNCHANGED <<catalog, recent>>
  \/ Tick /\ UNCHANGED catalog
  \/ \E documents \in Built : Swap(documents)

SharedSpec == SharedInit /\ [][SharedNext]_<<catalog, sharedVars>>
------------------------------------------------------------------------------
(***************************************************************************)
(* Properties.                                                             *)
(***************************************************************************)
\* The catalogs, served within max-age, that what was given may come from.
Sources == {documents \in DOMAIN recent : Hosts(documents, Asked[given.to].slug)}

\* Nobody is given a text or a heading that was retired for longer than max-age,
\* however often the cache had it confirmed, for whom it was stored and however
\* answers overtake each other (HttpPolicy: "The bound is what limits how long a
\* cache serves a retired text").
RetiredTextIsGone ==
  given # Nothing =>
    LET view == given.view
    IN  \E documents \in Sources :
          LET document == documents[view.slug]
          IN  /\ view.locale \in DOMAIN document.bodies
              /\ document.bodies[view.locale] = view.text
              /\ document.heading = view.heading

\* Everybody is given the language that the server, some time within max-age, would
\* have chosen for them, although the cache answers one reader with what another
\* asked for (HttpPolicy::conditional: "a shared cache has to key on it").
OwnLanguageIsServed ==
  given # Nothing =>
    \E documents \in Sources :
      given.view.locale =
        NegotiateAll(DOMAIN documents[given.view.slug].bodies, Asked[given.to])
==============================================================================
