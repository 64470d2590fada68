----------------------------- MODULE CacheProofs -----------------------------
(***************************************************************************)
(* Proofs about the caches in front of Legal::document: the one of each    *)
(* client (DocumentCache) and the one that readers share (SharedCache).    *)
(* Both rest on what the tag of a response says about its view.            *)
(***************************************************************************)
EXTENDS DocumentCache, SharedCache, CatalogProofs

(***************************************************************************)
(* What is answered for a slug.                                            *)
(***************************************************************************)
\* The tag names everything of a view but its consent summary.
TagFits(seen, tag) ==
  tag = [slug |-> seen.slug, locale |-> seen.locale, heading |-> seen.heading,
         digest |-> seen.text]

\* Some locale is answered with whenever there is one.
LEMMA NegotiatedIsHosted ==
  ASSUME NEW locales \in SUBSET Nat, locales # {}, NEW lang
  PROVE  Negotiate(locales, lang) \in locales
<1>1. \E first \in locales : \A other \in locales : first <= other
  BY LeastExists
<1> QED
  BY <1>1 DEF Negotiate

\* A view of a hosted text, and the tag that goes with it.
LEMMA ViewIsTyped ==
  ASSUME NEW documents \in Built, NEW slug, Hosts(documents, slug),
         NEW locale \in DOMAIN documents[slug].bodies
  PROVE  LET seen == ViewOf(slug, locale, documents[slug])
             tag == EntityTag(slug, locale, documents[slug])
         IN  /\ seen \in ViewsOfAnything
             /\ tag \in Tags
             /\ TagFits(seen, tag)
             /\ seen.slug = slug /\ seen.locale = locale
             /\ seen.heading = documents[slug].heading
             /\ seen.text = documents[slug].bodies[locale]
             /\ seen.consent.requirement = documents[slug].policy.requirement
             /\ seen.consent.version = documents[slug].policy.version
<1> DEFINE document == documents[slug]
<1>1. /\ slug \in Slugs
      /\ document.heading \in Headings
      /\ document.policy.requirement \in Requirements
      /\ document.policy.version \in Versions \cup {NoVersion}
      /\ locale \in Locales
      /\ document.bodies[locale] \in Texts
  BY HostedDocument DEF Hosts
<1>2. ViewOf(slug, locale, document) =
        [slug |-> slug, locale |-> locale, heading |-> document.heading,
         text |-> document.bodies[locale],
         consent |-> [requirement |-> document.policy.requirement,
                      version |-> document.policy.version]]
  BY DEF ViewOf, ConsentSummary
<1>3. EntityTag(slug, locale, document) =
        [slug |-> slug, locale |-> locale, heading |-> document.heading,
         digest |-> document.bodies[locale]]
  BY DEF EntityTag
<1> HIDE DEF document
<1> QED
  BY <1>1, <1>2, <1>3 DEF document, ViewsOfAnything, Tags, TagFits

\* A tag is not the absence of one.
LEMMA TagIsPresent == \A tag \in Tags : tag # << >>
<1> SUFFICES ASSUME << >> \in Tags PROVE FALSE
  OBVIOUS
<1>1. "slug" \in DOMAIN << >>
  BY DEF Tags
<1> QED
  BY <1>1, EmptyIsPartial

\* Views with one tag differ at most in their consent summary.
LEMMA SameTagSameText ==
  ASSUME NEW one \in ViewsOfAnything, NEW other \in ViewsOfAnything, NEW tag,
         TagFits(one, tag), TagFits(other, tag)
  PROVE  /\ one.slug = other.slug /\ one.locale = other.locale
         /\ one.heading = other.heading /\ one.text = other.text
         /\ Shown(one) = Shown(other)
<1>1. /\ one.slug = other.slug /\ one.locale = other.locale
      /\ one.heading = other.heading /\ one.text = other.text
  BY DEF TagFits
<1>2. \A seen \in ViewsOfAnything :
        Shown(seen) = [slug |-> seen.slug, locale |-> seen.locale,
                       heading |-> seen.heading, text |-> seen.text, consent |-> NoView]
  BY DEF ViewsOfAnything, Shown
<1> QED
  BY <1>1, <1>2

------------------------------------------------------------------------------
(***************************************************************************)
(* DocumentCache.  A 304 is right about the stored response only because   *)
(* nothing is stored without the tag of its own view, and the tag that a   *)
(* request named is still the one of the stored response when the answer   *)
(* arrives.                                                                *)
(***************************************************************************)
Fits(c, seen, tag) ==
  /\ seen \in ViewsOfAnything
  /\ seen.slug = Wanted[c].slug
  /\ TagFits(seen, tag)

StoresWhatFits(c) ==
  IF cache[c].tag = NoTag
  THEN cache[c].view = NoView /\ ~ cache[c].fresh
  ELSE Fits(c, cache[c].view, cache[c].tag)

AnswersWhatFits(c) ==
  /\ answer[c].status # "none" => pc[c] = "answered"
  /\ answer[c].status \in {"200", "304"} => Fits(c, answer[c].view, answer[c].tag)
  /\ answer[c].status = "304" => answer[c].tag = cache[c].tag

ClientInv(c) ==
  /\ StoresWhatFits(c)
  /\ pc[c] = "asking" => condition[c] = cache[c].tag
  /\ AnswersWhatFits(c)
  /\ pc[c] = "shown" => view[c] \in ViewsOfAnything /\ view[c].slug = Wanted[c].slug

CacheInv ==
  /\ TypeOK
  /\ catalog.documents \in Built
  /\ \A c \in Clients : ClientInv(c)

\* What the server publishes fits, whatever the client asks for.
LEMMA PublishedFits ==
  ASSUME CacheInv, NEW c \in Clients, Hosts(catalog.documents, Wanted[c].slug)
  PROVE  /\ Fits(c, Published(c).view, Published(c).tag)
         /\ Published(c).tag \in Tags
<1> DEFINE slug == Wanted[c].slug
           document == catalog.documents[slug]
           locale == Negotiate(DOMAIN document.bodies, Wanted[c].lang)
<1>1. catalog.documents \in Built
  BY DEF CacheInv
<1>2. DOMAIN document.bodies \subseteq Locales /\ DOMAIN document.bodies # {}
  BY <1>1, HostedDocument DEF Hosts
<1>3. locale \in DOMAIN document.bodies
  BY <1>2, NegotiatedIsHosted, CatalogAssumption
<1>4. Published(c) = [view |-> ViewOf(slug, locale, document),
                      tag |-> EntityTag(slug, locale, document)]
  BY DEF Published
<1> HIDE DEF locale
<1> QED
  BY <1>1, <1>3, <1>4, ViewIsTyped DEF Fits

\* Nothing is stored, under way or shown at first.
LEMMA InitCacheInv == Init => CacheInv
<1> SUFFICES ASSUME Init PROVE CacheInv
  OBVIOUS
<1>1. PICK documents \in Built : catalog = [generation |-> 0, documents |-> documents]
  BY DEF Init, Register!InitCatalog
<1>2. IsServed(catalog) /\ catalog.documents \in Built
  BY <1>1, BuiltIsWellFormed, ServedAssumption DEF IsServed
<1>3. TypeOK
  BY <1>2 DEF Init, TypeOK, NoEntry, NoAnswer
<1>4. \A c \in Clients : ClientInv(c)
  BY DEF Init, ClientInv, StoresWhatFits, AnswersWhatFits, NoEntry, NoAnswer
<1> QED
  BY <1>2, <1>3, <1>4 DEF CacheInv

\* A step of one client is no concern of another.
LEMMA OtherClients ==
  ASSUME NEW c \in Clients, ClientInv(c),
         cache'[c] = cache[c], pc'[c] = pc[c], condition'[c] = condition[c],
         answer'[c] = answer[c], view'[c] = view[c]
  PROVE  ClientInv(c)'
BY DEF ClientInv, StoresWhatFits, AnswersWhatFits, Fits, TagFits

\* Where accept_document starts again, or shows a view, nothing is under way.
LEMMA ResetTypes ==
  ASSUME TypeOK, NEW c \in Clients, NEW place \in {"idle", "shown"}, Reset(c, place)
  PROVE  /\ pc' \in [Clients -> {"idle", "asking", "answered", "shown"}]
         /\ condition' \in [Clients -> Tags \cup {NoTag}]
         /\ answer' \in [Clients -> [status : {"none", "200", "304", "404"},
                                    view : ViewsOfAnything \cup {NoView},
                                    tag : Tags \cup {NoTag}]]
         /\ pc'[c] = place /\ answer'[c].status = "none"
         /\ \A d \in Clients : d # c =>
              pc'[d] = pc[d] /\ condition'[d] = condition[d] /\ answer'[d] = answer[d]
<1>1. NoAnswer \in [status : {"none", "200", "304", "404"},
                    view : ViewsOfAnything \cup {NoView}, tag : Tags \cup {NoTag}]
      /\ NoAnswer.status = "none"
  BY DEF NoAnswer
<1> QED
  BY <1>1 DEF TypeOK, Reset

\* Whether a stored response is fresh is no part of what is stored.
LEMMA FreshIsTyped ==
  ASSUME TypeOK, NEW c \in Clients, NEW fresh \in BOOLEAN,
         cache' = [cache EXCEPT ![c].fresh = fresh]
  PROVE  cache' \in [Clients -> [view : ViewsOfAnything \cup {NoView},
                               tag : Tags \cup {NoTag}, fresh : BOOLEAN]]
<1> DEFINE Entry == [view : ViewsOfAnything \cup {NoView}, tag : Tags \cup {NoTag},
                     fresh : BOOLEAN]
<1>1. cache \in [Clients -> Entry]
  BY DEF TypeOK
<1>2. [cache[c] EXCEPT !.fresh = fresh] \in Entry
  BY <1>1
<1>3. cache' = [cache EXCEPT ![c] = [cache[c] EXCEPT !.fresh = fresh]]
  BY <1>1, Zenon
<1> HIDE DEF Entry
<1>4. cache' \in [Clients -> Entry]
  BY <1>1, <1>2, <1>3
<1> QED
  BY <1>4 DEF Entry

\* A view from the cache, while it is fresh, is one that was stored with its tag.
LEMMA FetchCachedKeeps ==
  ASSUME CacheInv, NEW c \in Clients, FetchCached(c)
  PROVE  CacheInv'
<1>1. /\ view' = [view EXCEPT ![c] = cache[c].view] /\ pc' = [pc EXCEPT ![c] = "shown"]
      /\ pc[c] = "idle" /\ cache[c].fresh
      /\ UNCHANGED <<catalog, cache, condition, answer, record>>
  BY DEF FetchCached
<1>2. Fits(c, cache[c].view, cache[c].tag)
  BY <1>1 DEF CacheInv, ClientInv, StoresWhatFits
<1>3. TypeOK'
  BY <1>1, <1>2 DEF CacheInv, TypeOK, IsServed, Fits
<1>4. ClientInv(c)'
  BY <1>1, <1>2 DEF CacheInv, TypeOK, ClientInv, StoresWhatFits, AnswersWhatFits, Fits, TagFits
<1>5. ASSUME NEW d \in Clients, d # c PROVE ClientInv(d)'
  BY <1>1, <1>5, OtherClients DEF CacheInv, TypeOK
<1> QED
  BY <1>1, <1>3, <1>4, <1>5 DEF CacheInv

\* A request names the tag of what is stored.
LEMMA FetchRemoteKeeps ==
  ASSUME CacheInv, NEW c \in Clients, FetchRemote(c)
  PROVE  CacheInv'
<1>1. /\ condition' = [condition EXCEPT ![c] = cache[c].tag]
      /\ pc' = [pc EXCEPT ![c] = "asking"] /\ pc[c] = "idle"
      /\ UNCHANGED <<catalog, cache, answer, view, record>>
  BY DEF FetchRemote
<1>2. cache[c].tag \in Tags \cup {NoTag}
  BY DEF CacheInv, TypeOK
<1>3. TypeOK'
  BY <1>1, <1>2 DEF CacheInv, TypeOK, IsServed
<1>4. ClientInv(c)'
  BY <1>1 DEF CacheInv, TypeOK, ClientInv, StoresWhatFits, AnswersWhatFits, Fits, TagFits
<1>5. ASSUME NEW d \in Clients, d # c PROVE ClientInv(d)'
  BY <1>1, <1>5, OtherClients DEF CacheInv, TypeOK
<1> QED
  BY <1>1, <1>3, <1>4, <1>5 DEF CacheInv

\* The answer carries what is published now, and is a 304 only for its own tag.
LEMMA ServeDocumentKeeps ==
  ASSUME CacheInv, NEW c \in Clients, ServeDocument(c)
  PROVE  CacheInv'
<1> DEFINE sent == IF ~ Hosts(catalog.documents, Wanted[c].slug)
                   THEN [status |-> "404", view |-> NoView, tag |-> NoTag]
                   ELSE [status |-> IF condition[c] = Published(c).tag THEN "304" ELSE "200",
                         view |-> Published(c).view, tag |-> Published(c).tag]
<1>1. /\ answer' = [answer EXCEPT ![c] = sent] /\ pc' = [pc EXCEPT ![c] = "answered"]
      /\ pc[c] = "asking"
      /\ UNCHANGED <<catalog, cache, condition, view, record>>
  BY DEF ServeDocument
<1>2. condition[c] = cache[c].tag
  BY <1>1 DEF CacheInv, ClientInv
<1>3. /\ sent \in [status : {"none", "200", "304", "404"},
                   view : ViewsOfAnything \cup {NoView}, tag : Tags \cup {NoTag}]
      /\ sent.status \in {"200", "304"} => Fits(c, sent.view, sent.tag)
      /\ sent.status = "304" => sent.tag = cache[c].tag
  <2>1. CASE Hosts(catalog.documents, Wanted[c].slug)
    BY <1>2, <2>1, PublishedFits DEF Fits
  <2>2. CASE ~ Hosts(catalog.documents, Wanted[c].slug)
    BY <2>2
  <2> QED
    BY <2>1, <2>2
<1> HIDE DEF sent
<1>4. TypeOK'
  BY <1>1, <1>3 DEF CacheInv, TypeOK, IsServed
<1>5. answer'[c] = sent /\ pc'[c] = "answered"
  BY <1>1 DEF CacheInv, TypeOK
<1>6. ClientInv(c)'
  BY <1>1, <1>3, <1>5 DEF CacheInv, ClientInv, StoresWhatFits, AnswersWhatFits, Fits, TagFits
<1>7. ASSUME NEW d \in Clients, d # c PROVE ClientInv(d)'
  BY <1>1, <1>7, OtherClients DEF CacheInv, TypeOK
<1> QED
  BY <1>1, <1>4, <1>6, <1>7 DEF CacheInv

\* What arrives is stored with its tag; a 304 refreshes what has that tag already.
LEMMA ReceiveKeeps ==
  ASSUME CacheInv, NEW c \in Clients, Receive(c)
  PROVE  CacheInv'
<1>1. pc[c] = "answered" /\ UNCHANGED <<catalog, record>> /\ TypeOK
  BY DEF CacheInv, Receive
<1>2. StoresWhatFits(c) /\ AnswersWhatFits(c)
  BY DEF CacheInv, ClientInv
<1>3. CASE answer[c].status = "404" /\ Reset(c, "idle") /\ UNCHANGED <<cache, view>>
  <2>1. TypeOK'
    BY <1>1, <1>3, ResetTypes DEF TypeOK, IsServed
  <2>2. ClientInv(c)'
    BY <1>1, <1>2, <1>3, ResetTypes
    DEF ClientInv, StoresWhatFits, AnswersWhatFits, Fits, TagFits
  <2>3. ASSUME NEW d \in Clients, d # c PROVE ClientInv(d)'
    BY <1>1, <1>3, <2>3, ResetTypes, OtherClients DEF CacheInv
  <2> QED
    BY <1>1, <2>1, <2>2, <2>3 DEF CacheInv
<1>4. CASE /\ answer[c].status = "304" /\ Reset(c, "shown")
           /\ cache' = [cache EXCEPT ![c].fresh = TRUE]
           /\ view' = [view EXCEPT ![c] = cache[c].view]
  <2>1. answer[c].tag = cache[c].tag /\ Fits(c, answer[c].view, answer[c].tag)
    BY <1>2, <1>4 DEF AnswersWhatFits
  <2>2. cache[c].tag # NoTag
    <3>1. answer[c].tag = [slug |-> answer[c].view.slug, locale |-> answer[c].view.locale,
                           heading |-> answer[c].view.heading, digest |-> answer[c].view.text]
      BY <2>1 DEF Fits, TagFits
    <3>2. answer[c].tag \in Tags
      BY <2>1, <3>1 DEF Fits, ViewsOfAnything, Tags
    <3> QED
      BY <2>1, <3>2, TagIsPresent DEF NoTag
  <2>3. Fits(c, cache[c].view, cache[c].tag)
    BY <1>2, <2>2 DEF StoresWhatFits
  <2>4. /\ cache'[c].view = cache[c].view /\ cache'[c].tag = cache[c].tag
        /\ view'[c] = cache[c].view
        /\ \A d \in Clients : d # c => cache'[d] = cache[d] /\ view'[d] = view[d]
    BY <1>1, <1>4 DEF TypeOK
  <2>5. TypeOK'
    <3>1. cache' \in [Clients -> [view : ViewsOfAnything \cup {NoView},
                                 tag : Tags \cup {NoTag}, fresh : BOOLEAN]]
      BY <1>1, <1>4, FreshIsTyped
    <3>2. view' \in [Clients -> ViewsOfAnything \cup {NoView}]
      BY <1>1, <1>4, <2>3 DEF TypeOK, Fits
    <3> QED
      BY <1>1, <1>4, <3>1, <3>2, ResetTypes DEF TypeOK, IsServed
  <2>6. ClientInv(c)'
    BY <1>1, <1>4, <2>2, <2>3, <2>4, ResetTypes
    DEF ClientInv, StoresWhatFits, AnswersWhatFits, Fits, TagFits, NoTag
  <2>7. ASSUME NEW d \in Clients, d # c PROVE ClientInv(d)'
    BY <1>1, <1>4, <2>4, <2>7, ResetTypes, OtherClients DEF CacheInv
  <2> QED
    BY <1>1, <2>5, <2>6, <2>7 DEF CacheInv
<1>5. CASE /\ answer[c].status = "200" /\ Reset(c, "shown")
           /\ cache' = [cache EXCEPT ![c] = [view |-> answer[c].view,
                                             tag |-> answer[c].tag, fresh |-> TRUE]]
           /\ view' = [view EXCEPT ![c] = answer[c].view]
  <2>1. Fits(c, answer[c].view, answer[c].tag)
    BY <1>2, <1>5 DEF AnswersWhatFits
  <2>2. answer[c].tag \in Tags
    BY <2>1 DEF Fits, TagFits, ViewsOfAnything, Tags
  <2>3. /\ cache'[c] = [view |-> answer[c].view, tag |-> answer[c].tag, fresh |-> TRUE]
        /\ view'[c] = answer[c].view
        /\ \A d \in Clients : d # c => cache'[d] = cache[d] /\ view'[d] = view[d]
    BY <1>1, <1>5 DEF TypeOK
  <2>4. TypeOK'
    BY <1>1, <1>5, <2>1, <2>2, ResetTypes DEF TypeOK, IsServed, Fits
  <2>5. ClientInv(c)'
    BY <1>5, <2>1, <2>2, <2>3, TagIsPresent, ResetTypes, <1>1
    DEF ClientInv, StoresWhatFits, AnswersWhatFits, Fits, TagFits, NoTag
  <2>6. ASSUME NEW d \in Clients, d # c PROVE ClientInv(d)'
    BY <1>1, <1>5, <2>3, <2>6, ResetTypes, OtherClients DEF CacheInv
  <2> QED
    BY <1>1, <2>4, <2>5, <2>6 DEF CacheInv
<1> QED
  BY <1>3, <1>4, <1>5 DEF Receive

\* A view that can be accepted has been quoted, when the acceptance arrives, from
\* what is served then.
LEMMA AcceptedIsRecord ==
  ASSUME CacheInv, NEW c \in Clients, PostAcceptance(c), record' # record
  PROVE  \E subject \in Subjects :
           LET made == AcceptanceRecord(catalog.documents, AcceptanceFor(view[c]),
                                        subject, "api", 0)
               document == catalog.documents[Wanted[c].slug]
           IN  /\ record' = [record EXCEPT ![c] = made]
               /\ made \in Records
               /\ made.version = document.policy.version
               /\ made.version = view[c].consent.version
               /\ made.digest = view[c].text
               /\ made.digest = document.bodies[view[c].locale]
               /\ made.kind = KindFor(document.policy.requirement)
               /\ document.policy.requirement \in {"acknowledge", "accept"}
<1>1. view[c] \in ViewsOfAnything /\ view[c].slug = Wanted[c].slug
  BY DEF PostAcceptance, CacheInv, ClientInv
<1>2. PICK subject \in Subjects :
        record' = [record EXCEPT ![c] =
          AcceptanceRecord(catalog.documents, AcceptanceFor(view[c]), subject, "api", 0)]
  BY DEF PostAcceptance
<1>3. Refusal(catalog.documents, AcceptanceFor(view[c])) = "none"
  BY DEF PostAcceptance
<1> DEFINE quote == AcceptanceFor(view[c])
           made == AcceptanceRecord(catalog.documents, quote, subject, "api", 0)
<1>4. quote = [slug |-> Wanted[c].slug, version |-> view[c].consent.version,
               locale |-> view[c].locale, digest |-> view[c].text]
  BY <1>1 DEF AcceptanceFor
<1>5. quote \in Acceptances
  BY <1>1, <1>4 DEF ViewsOfAnything, Acceptances
<1>6. catalog.documents \in Built /\ "api" \in Channels /\ 0 \in Instants
  BY CatalogAssumption DEF CacheInv, Channels, Instants
<1>7. /\ made \in Records
      /\ Consentable(catalog.documents, quote.slug)
      /\ made.version = catalog.documents[quote.slug].policy.version
      /\ made.locale \in DOMAIN catalog.documents[quote.slug].bodies
      /\ made.digest = catalog.documents[quote.slug].bodies[made.locale]
      /\ made.kind = KindFor(catalog.documents[quote.slug].policy.requirement)
  <2> HIDE DEF quote
  <2> QED
    BY <1>3, <1>5, <1>6, AcceptanceIsQuoted DEF quote
<1>8. /\ made.version = view[c].consent.version /\ made.digest = view[c].text
      /\ made.locale = view[c].locale /\ quote.slug = Wanted[c].slug
  BY <1>4 DEF AcceptanceRecord
<1>9. catalog.documents[Wanted[c].slug].policy.requirement \in {"acknowledge", "accept"}
  BY <1>6, <1>7, <1>8, ConsentableDocument DEF Consentable, HasPolicy, Requirements
<1> HIDE DEF quote, made
<1> QED
  BY <1>2, <1>7, <1>8, <1>9 DEF quote, made

\* An acceptance that is recorded quotes the view that was shown.
LEMMA PostAcceptanceKeeps ==
  ASSUME CacheInv, NEW c \in Clients, PostAcceptance(c)
  PROVE  CacheInv'
<1>1. /\ pc[c] = "shown" /\ Reset(c, "idle") /\ view' = [view EXCEPT ![c] = NoView]
      /\ UNCHANGED <<catalog, cache>> /\ TypeOK
  BY DEF CacheInv, PostAcceptance
<1>2. record' \in [Clients -> Records \cup {NoRecord}]
  <2>1. CASE UNCHANGED record
    BY <1>1, <2>1 DEF TypeOK
  <2>2. CASE record' # record
    <3>1. PICK made \in Records : record' = [record EXCEPT ![c] = made]
      BY <2>2, AcceptedIsRecord
    <3> QED
      BY <1>1, <3>1 DEF TypeOK
  <2> QED
    BY <2>1, <2>2
<1>3. TypeOK'
  BY <1>1, <1>2, ResetTypes DEF TypeOK, IsServed
<1>4. ClientInv(c)'
  BY <1>1, ResetTypes DEF CacheInv, ClientInv, StoresWhatFits, AnswersWhatFits, Fits, TagFits
<1>5. ASSUME NEW d \in Clients, d # c PROVE ClientInv(d)'
  BY <1>1, <1>5, ResetTypes, OtherClients DEF CacheInv, TypeOK
<1> QED
  BY <1>1, <1>3, <1>4, <1>5 DEF CacheInv

\* What is lost leaves what is stored.
LEMMA LoseKeeps ==
  ASSUME CacheInv, NEW c \in Clients, Lose(c)
  PROVE  CacheInv'
<1>1. /\ Reset(c, "idle") /\ view' = [view EXCEPT ![c] = NoView]
      /\ UNCHANGED <<catalog, cache, record>> /\ TypeOK
  BY DEF CacheInv, Lose
<1>2. TypeOK'
  BY <1>1, ResetTypes DEF TypeOK, IsServed
<1>3. ClientInv(c)'
  BY <1>1, ResetTypes DEF CacheInv, ClientInv, StoresWhatFits, AnswersWhatFits, Fits, TagFits
<1>4. ASSUME NEW d \in Clients, d # c PROVE ClientInv(d)'
  BY <1>1, <1>4, ResetTypes, OtherClients DEF CacheInv, TypeOK
<1> QED
  BY <1>1, <1>2, <1>3, <1>4 DEF CacheInv

\* What is stale keeps its tag.
LEMMA ExpireKeeps ==
  ASSUME CacheInv, NEW c \in Clients, Expire(c)
  PROVE  CacheInv'
<1>1. /\ cache' = [cache EXCEPT ![c].fresh = FALSE]
      /\ UNCHANGED <<catalog, pc, condition, answer, view, record>> /\ TypeOK
  BY DEF CacheInv, Expire
<1>2. cache' \in [Clients -> [view : ViewsOfAnything \cup {NoView},
                             tag : Tags \cup {NoTag}, fresh : BOOLEAN]]
  BY <1>1, FreshIsTyped
<1>3. TypeOK'
  BY <1>1, <1>2 DEF TypeOK, IsServed
<1>4. /\ cache'[c].view = cache[c].view /\ cache'[c].tag = cache[c].tag
      /\ ~ cache'[c].fresh
      /\ \A d \in Clients : d # c => cache'[d] = cache[d]
  BY <1>1 DEF TypeOK
<1>5. ClientInv(c)'
  BY <1>1, <1>4 DEF CacheInv, ClientInv, StoresWhatFits, AnswersWhatFits, Fits, TagFits
<1>6. ASSUME NEW d \in Clients, d # c PROVE ClientInv(d)'
  BY <1>1, <1>4, <1>6, OtherClients DEF CacheInv
<1> QED
  BY <1>1, <1>3, <1>5, <1>6 DEF CacheInv

\* A replacement is a catalog that can be built, and reaches no client.
LEMMA ReplaceKeeps ==
  ASSUME CacheInv, NEW documents \in Built, Replace(documents)
  PROVE  CacheInv'
<1>1. /\ catalog' = [generation |-> (catalog.generation + 1) % GenerationModulus,
                     documents |-> documents]
      /\ UNCHANGED clientVars
  BY DEF Replace, Register!Publish
<1>2. IsServed(catalog)'
  BY <1>1, BuiltIsWellFormed, ServedAssumption DEF CacheInv, TypeOK, IsServed
<1>3. TypeOK'
  BY <1>1, <1>2 DEF CacheInv, TypeOK, clientVars
<1>4. \A c \in Clients : ClientInv(c)'
  BY <1>1, OtherClients DEF CacheInv, clientVars
<1> QED
  BY <1>1, <1>3, <1>4 DEF CacheInv

\* Together.
LEMMA CacheInvariant == Spec => []CacheInv
<1>1. ASSUME CacheInv, [Next]_vars PROVE CacheInv'
  <2>1. CASE UNCHANGED vars
    <3>1. TypeOK' /\ (catalog.documents \in Built)'
      BY <1>1, <2>1 DEF CacheInv, TypeOK, vars, clientVars, IsServed
    <3>2. \A c \in Clients : ClientInv(c)'
      BY <1>1, <2>1, OtherClients DEF CacheInv, vars, clientVars
    <3> QED
      BY <3>1, <3>2 DEF CacheInv
  <2>2. ASSUME NEW c \in Clients, Step(c) PROVE CacheInv'
    BY <1>1, <2>2, FetchCachedKeeps, FetchRemoteKeeps, ServeDocumentKeeps, ReceiveKeeps,
       PostAcceptanceKeeps, LoseKeeps, ExpireKeeps DEF Step
  <2>3. ASSUME NEW documents \in Built, Replace(documents) PROVE CacheInv'
    BY <1>1, <2>3, ReplaceKeeps
  <2> QED
    BY <1>1, <2>1, <2>2, <2>3 DEF Next
<1> QED
  BY <1>1, InitCacheInv, PTL DEF Spec

\* Every client's cache, request and record have their types.
THEOREM CacheTypeCorrect == Spec => []TypeOK
<1>1. CacheInv => TypeOK
  BY DEF CacheInv
<1> QED
  BY <1>1, CacheInvariant, PTL

\* A client told "not modified" holds the text and the heading that the server
\* published when it answered (HttpPolicy::conditional).
THEOREM RevalidatedIsCurrent == Spec => []RevalidatedTextIsCurrent
<1>1. CacheInv => RevalidatedTextIsCurrent
  <2> SUFFICES ASSUME CacheInv, NEW c \in Clients, answer[c].status = "304"
               PROVE  Shown(cache[c].view) = Shown(answer[c].view)
    BY DEF RevalidatedTextIsCurrent
  <2>1. answer[c].tag = cache[c].tag /\ Fits(c, answer[c].view, answer[c].tag)
    BY DEF CacheInv, ClientInv, AnswersWhatFits
  <2>2. answer[c].tag # NoTag
    BY <2>1, TagIsPresent DEF Fits, TagFits, ViewsOfAnything, Tags, NoTag
  <2>3. Fits(c, cache[c].view, cache[c].tag)
    BY <2>1, <2>2 DEF CacheInv, ClientInv, StoresWhatFits
  <2> QED
    BY <2>1, <2>3, SameTagSameText DEF Fits
<1> QED
  BY <1>1, CacheInvariant, PTL

\* An acceptance is recorded only of the text and the revision that its reader was
\* given, while the server asks for them (accept_document, verify_acceptance).
THEOREM RecordedWasShown == Spec => RecordsOnlyWhatWasShown
<1> DEFINE Recorded(c) ==
      LET document == catalog.documents[Wanted[c].slug]
      IN  /\ record'[c].version = document.policy.version
          /\ record'[c].version = view[c].consent.version
          /\ record'[c].digest = view[c].text
          /\ record'[c].digest = document.bodies[view[c].locale]
          /\ record'[c].kind = "accepted" <=> document.policy.requirement = "accept"
<1>1. ASSUME CacheInv, Next
      PROVE  \A c \in Clients : record'[c] # record[c] => Recorded(c)
  <2> SUFFICES ASSUME NEW c \in Clients, record'[c] # record[c] PROVE Recorded(c)
    OBVIOUS
  <2>1. PICK d \in Clients : PostAcceptance(d) /\ record' # record
    BY <1>1 DEF Next, Step, FetchCached, FetchRemote, ServeDocument, Receive, Lose, Expire,
       Replace, clientVars
  <2>2. record \in [Clients -> Records \cup {NoRecord}]
    BY <1>1 DEF CacheInv, TypeOK
  <2>3. d = c
    BY <1>1, <2>1, <2>2, AcceptedIsRecord
  <2> DEFINE document == catalog.documents[Wanted[c].slug]
  <2>4. PICK made : /\ record' = [record EXCEPT ![c] = made]
                    /\ made.version = document.policy.version
                    /\ made.version = view[c].consent.version
                    /\ made.digest = view[c].text
                    /\ made.digest = document.bodies[view[c].locale]
                    /\ made.kind = KindFor(document.policy.requirement)
                    /\ document.policy.requirement \in {"acknowledge", "accept"}
    BY <1>1, <2>1, <2>3, AcceptedIsRecord
  <2>5. record'[c] = made
    BY <2>2, <2>4
  <2>6. made.kind = "accepted" <=> document.policy.requirement = "accept"
    BY <2>4 DEF KindFor
  <2> QED
    BY <2>4, <2>5, <2>6
<1>2. ASSUME CacheInv, [Next]_vars
      PROVE  [\A c \in Clients : record'[c] # record[c] => Recorded(c)]_vars
  BY <1>1, <1>2
<1> QED
  BY <1>2, CacheInvariant, PTL DEF Spec, RecordsOnlyWhatWasShown

------------------------------------------------------------------------------
(***************************************************************************)
(* SharedCache.  A view that is given, stored or under way came from a     *)
(* catalog that was served no longer ago than the age that is counted for  *)
(* it; a confirmed one has the tag of what is served, and so comes from    *)
(* there as well, for whomever it was stored.                              *)
(***************************************************************************)
\* The documents would have answered the question with what is seen.
Answers(documents, question, seen) ==
  /\ Hosts(documents, question.slug)
  /\ LET document == documents[question.slug]
     IN  /\ seen.slug = question.slug
         /\ seen.locale = NegotiateAll(DOMAIN document.bodies, question)
         /\ seen.locale \in DOMAIN document.bodies
         /\ seen.text = document.bodies[seen.locale]
         /\ seen.heading = document.heading

ServedWithin(age, question, seen) ==
  \E documents \in DOMAIN recent :
    recent[documents] <= age /\ Answers(documents, question, seen)

Ages == 0..MaxAge
QuestionOf(entry) ==
  [slug |-> entry.url.slug, lang |-> entry.url.lang, header |-> entry.varies]

RecentIsServed ==
  /\ catalog.documents \in DOMAIN recent
  /\ recent[catalog.documents] = 0
  /\ DOMAIN recent \subseteq Built
  /\ recent \in [DOMAIN recent -> Ages]

EntryIsSound(entry) ==
  /\ entry \in [url : {entry.url}, varies : {entry.varies}, tag : {entry.tag},
                view : {entry.view}, age : Ages]
  /\ TagFits(entry.view, entry.tag)
  /\ entry.age < MaxAge => ServedWithin(entry.age, QuestionOf(entry), entry.view)

VisitIsSound(v) ==
  /\ visit[v].at \in {"none", "asking", "answered"}
  /\ visit[v].at = "asking" =>
       /\ visit[v] \in [at : {"asking"}, since : Ages, offered : {visit[v].offered}]
       /\ \A offer \in visit[v].offered : TagFits(offer.view, offer.tag)
  /\ visit[v].at = "answered" =>
       /\ visit[v] \in [at : {"answered"}, since : Ages, with : {visit[v].with}]
       /\ TagFits(visit[v].with.view, visit[v].with.tag)
       /\ ServedWithin(visit[v].since, Asked[v], visit[v].with.view)

GivenIsSound ==
  given # Nothing =>
    given.to \in Visitors /\ ServedWithin(MaxAge, Asked[given.to], given.view)

SharedInv ==
  /\ RecentIsServed
  /\ \A entry \in stored : EntryIsSound(entry)
  /\ visit \in [Visitors -> {visit[v] : v \in Visitors}]
  /\ \A v \in Visitors : VisitIsSound(v)
  /\ GivenIsSound

\* Some locale is negotiated whenever there is one, whatever is asked for.
LEMMA NegotiateAllIsHosted ==
  ASSUME NEW locales \in SUBSET Nat, locales # {}, NEW v \in Visitors
  PROVE  NegotiateAll(locales, Asked[v]) \in locales
<1> DEFINE wanted == Asked[v].lang \o Asked[v].header \o DefaultLocale
           found == {i \in DOMAIN wanted : wanted[i] \in locales}
<1>1. wanted \in Seq(Locales)
  <2>1. /\ Asked[v].lang \in Seq(Locales) /\ Asked[v].header \in Seq(Locales)
        /\ DefaultLocale \in Seq(Locales)
    BY SharedCacheAssumption
  <2> QED
    BY <2>1
<1>2. NegotiateAll(locales, Asked[v]) =
        IF found # {} THEN wanted[Min(found)] ELSE Min(locales)
  BY DEF NegotiateAll
<1> HIDE DEF wanted
<1>3. found \in SUBSET Nat
  BY <1>1
<1>4. \A S \in SUBSET Nat : S # {} => Min(S) \in S
  BY LeastExists DEF Min
<1> HIDE DEF found
<1>5. found # {} => wanted[Min(found)] \in locales
  BY <1>3, <1>4 DEF found
<1> QED
  BY <1>2, <1>4, <1>5

\* What the server sends is tagged as it is seen, and answers the question.
LEMMA ResponseAnswers ==
  ASSUME catalog.documents \in Built, NEW v \in Visitors,
         Hosts(catalog.documents, Asked[v].slug)
  PROVE  /\ TagFits(Response(Asked[v]).view, Response(Asked[v]).tag)
         /\ Answers(catalog.documents, Asked[v], Response(Asked[v]).view)
<1> DEFINE slug == Asked[v].slug
           document == catalog.documents[slug]
           locale == NegotiateAll(DOMAIN document.bodies, Asked[v])
<1>1. DOMAIN document.bodies \subseteq Locales /\ DOMAIN document.bodies # {}
  BY HostedDocument DEF Hosts
<1>2. locale \in DOMAIN document.bodies
  BY <1>1, NegotiateAllIsHosted, CatalogAssumption
<1>3. Response(Asked[v]) = [view |-> ViewOf(slug, locale, document),
                           tag |-> EntityTag(slug, locale, document)]
  BY DEF Response
<1>4. locale = NegotiateAll(DOMAIN document.bodies, Asked[v])
  OBVIOUS
<1>5. PICK seen, tag : /\ seen = ViewOf(slug, locale, document)
                       /\ tag = EntityTag(slug, locale, document)
  OBVIOUS
<1> HIDE DEF locale
<1>6. /\ TagFits(seen, tag)
      /\ seen.slug = slug /\ seen.locale = locale
      /\ seen.heading = document.heading
      /\ seen.text = document.bodies[locale]
  BY <1>2, <1>5, ViewIsTyped
<1>7. Answers(catalog.documents, Asked[v], seen)
  BY <1>2, <1>4, <1>6 DEF Answers
<1>8. Response(Asked[v]) = [view |-> seen, tag |-> tag]
  BY <1>3, <1>5
<1> QED
  BY <1>6, <1>7, <1>8

\* The answer to a question depends on its slug, its `lang` and its header, and on
\* nothing of a view that its tag does not name.
LEMMA SameAnswer ==
  ASSUME NEW documents, NEW one, NEW other, NEW seen, NEW same, NEW tag,
         Answers(documents, one, seen), TagFits(seen, tag), TagFits(same, tag),
         one.slug = other.slug, one.lang = other.lang, one.header = other.header
  PROVE  Answers(documents, other, same)
<1>1. /\ seen.slug = same.slug /\ seen.locale = same.locale
      /\ seen.heading = same.heading /\ seen.text = same.text
  BY DEF TagFits
<1>2. \A locales : NegotiateAll(locales, one) = NegotiateAll(locales, other)
  BY DEF NegotiateAll
<1> QED
  BY <1>1, <1>2 DEF Answers

\* What the cache keeps under a key was an answer to the questions with that key.
LEMMA KeyedAnswers ==
  ASSUME NEW entry, NEW v \in Visitors, Keyed(entry, Asked[v]),
         TagFits(entry.view, entry.tag)
  PROVE  \A documents :
           Answers(documents, QuestionOf(entry), entry.view)
             <=> Answers(documents, Asked[v], entry.view)
<1>1. /\ QuestionOf(entry).slug = Asked[v].slug
      /\ QuestionOf(entry).lang = Asked[v].lang
      /\ QuestionOf(entry).header = Asked[v].header
  BY DEF QuestionOf, Keyed, Url, Vary
<1> QED
  BY <1>1, SameAnswer

\* The cache is cold, and the first catalog has just been served.
LEMMA InitSharedInv == SharedInit => SharedInv
<1> SUFFICES ASSUME SharedInit PROVE SharedInv
  OBVIOUS
<1>1. catalog.documents \in Built
  BY DEF SharedInit, Register!InitCatalog
<1>2. RecentIsServed
  BY <1>1, SharedCacheAssumption DEF SharedInit, RecentIsServed, Ages
<1> QED
  BY <1>2 DEF SharedInit, ColdCache, SharedInv, NoVisit, VisitIsSound, GivenIsSound

\* What a step leaves alone stays sound while the same catalogs count as recent.
LEMMA SoundnessLasts ==
  ASSUME SharedInv, UNCHANGED <<catalog, recent>>
  PROVE  /\ RecentIsServed'
         /\ \A age, question, seen :
              ServedWithin(age, question, seen) <=> ServedWithin(age, question, seen)'
         /\ \A entry \in stored : EntryIsSound(entry)'
         /\ \A v \in Visitors : visit'[v] = visit[v] => VisitIsSound(v)'
<1>1. RecentIsServed'
  BY DEF SharedInv, RecentIsServed
<1>2. \A age, question, seen :
        ServedWithin(age, question, seen) <=> ServedWithin(age, question, seen)'
  BY DEF ServedWithin
<1>3. \A entry \in stored : EntryIsSound(entry)'
  BY <1>2 DEF SharedInv, EntryIsSound
<1>4. ASSUME NEW v \in Visitors, visit'[v] = visit[v] PROVE VisitIsSound(v)'
  BY <1>2, <1>4 DEF SharedInv, VisitIsSound
<1> QED
  BY <1>1, <1>2, <1>3, <1>4

\* A visit of one reader is no concern of another.
LEMMA OtherVisits ==
  ASSUME SharedInv, NEW v \in Visitors, NEW place, Goes(v, place)
  PROVE  /\ visit' \in [Visitors -> {visit'[w] : w \in Visitors}]
         /\ visit'[v] = place
         /\ \A w \in Visitors : w # v => visit'[w] = visit[w]
<1>1. visit \in [Visitors -> {visit[w] : w \in Visitors}]
  BY DEF SharedInv
<1>2. visit' = [visit EXCEPT ![v] = place]
  BY DEF Goes
<1>3. /\ DOMAIN visit' = Visitors
      /\ visit'[v] = place
      /\ \A w \in Visitors : w # v => visit'[w] = visit[w]
  BY <1>1, <1>2
<1>4. visit' = [w \in Visitors |-> visit'[w]]
  BY <1>1, <1>2
<1>5. visit' \in [Visitors -> {visit'[w] : w \in Visitors}]
  BY <1>4
<1> QED
  BY <1>3, <1>5

\* A reader is given what is fresh, or asks with what is stored.
LEMMA AskKeeps ==
  ASSUME SharedInv, UNCHANGED <<catalog, recent>>, NEW v \in Visitors, Ask(v)
  PROVE  SharedInv'
<1>1. stored' = stored
  BY DEF Ask
<1>2. CASE \E entry \in Fresh(Asked[v]) : Give(v, entry.view) /\ UNCHANGED visit
  <2>1. PICK entry \in stored : /\ Keyed(entry, Asked[v]) /\ entry.age < MaxAge
                               /\ Give(v, entry.view) /\ UNCHANGED visit
    BY <1>2 DEF Fresh
  <2>2. EntryIsSound(entry)
    BY DEF SharedInv
  <2>3. PICK documents \in DOMAIN recent :
          recent[documents] <= entry.age /\ Answers(documents, QuestionOf(entry), entry.view)
    BY <2>1, <2>2 DEF EntryIsSound, ServedWithin
  <2>4. Answers(documents, Asked[v], entry.view)
    BY <2>1, <2>2, <2>3, KeyedAnswers DEF EntryIsSound
  <2>5. recent[documents] <= MaxAge
    BY <2>3, SharedCacheAssumption DEF SharedInv, RecentIsServed, Ages
  <2>6. ServedWithin(MaxAge, Asked[v], entry.view)'
    BY <2>3, <2>4, <2>5 DEF ServedWithin
  <2>7. given' = [to |-> v, view |-> entry.view]
    BY <2>1 DEF Give
  <2>8. GivenIsSound'
    BY <2>6, <2>7 DEF GivenIsSound
  <2> QED
    BY <1>1, <2>1, <2>8, SoundnessLasts DEF SharedInv
<1>3. CASE /\ Goes(v, [at |-> "asking", since |-> 0, offered |-> OfUrl(Asked[v])])
           /\ given' = Nothing
  <2>1. \A offer \in OfUrl(Asked[v]) : TagFits(offer.view, offer.tag)
    BY DEF OfUrl, SharedInv, EntryIsSound
  <2>2. VisitIsSound(v)'
    <3>1. visit'[v] = [at |-> "asking", since |-> 0, offered |-> OfUrl(Asked[v])]
      BY <1>3, OtherVisits
    <3>2. 0 \in Ages
      BY SharedCacheAssumption DEF Ages
    <3> QED
      BY <2>1, <3>1, <3>2 DEF VisitIsSound, TagFits, Ages
  <2>3. ASSUME NEW w \in Visitors, w # v PROVE VisitIsSound(w)'
    BY <1>3, <2>3, OtherVisits, SoundnessLasts
  <2>4. GivenIsSound'
    BY <1>3 DEF GivenIsSound
  <2>5. visit' \in [Visitors -> {visit'[w] : w \in Visitors}]
    BY <1>3, OtherVisits
  <2> QED
    BY <1>1, <2>2, <2>3, <2>4, <2>5, SoundnessLasts DEF SharedInv
<1> QED
  BY <1>2, <1>3 DEF Ask

\* Whether the server sends its response or has an offered one confirmed, what it
\* answers with is what it would send now.
LEMMA ServeKeeps ==
  ASSUME SharedInv, UNCHANGED <<catalog, recent>>, NEW v \in Visitors, Serve(v)
  PROVE  SharedInv'
<1> DEFINE response == Response(Asked[v])
           same == {offer \in visit[v].offered : offer.tag = response.tag}
<1>1. /\ visit[v].at = "asking" /\ Hosts(catalog.documents, Asked[v].slug)
      /\ stored' = stored /\ given' = Nothing
  BY DEF Serve
<1>2. PICK chosen \in IF same = {} THEN {response} ELSE same :
        Goes(v, [at |-> "answered", since |-> visit[v].since, with |-> chosen])
  BY DEF Serve
<1>3. /\ TagFits(response.view, response.tag)
      /\ Answers(catalog.documents, Asked[v], response.view)
  BY <1>1, ResponseAnswers DEF SharedInv, RecentIsServed
<1>4. visit[v].since \in Ages /\ \A offer \in same : TagFits(offer.view, response.tag)
  BY <1>1 DEF SharedInv, VisitIsSound
<1> HIDE DEF response
<1>5. TagFits(chosen.view, chosen.tag) /\ Answers(catalog.documents, Asked[v], chosen.view)
  <2>1. CASE same = {}
    BY <1>2, <1>3, <2>1
  <2>2. CASE same # {}
    <3>1. TagFits(chosen.view, response.tag) /\ chosen.tag = response.tag
      BY <1>2, <1>4, <2>2
    <3> QED
      BY <1>3, <3>1, SameAnswer
  <2> QED
    BY <2>1, <2>2
<1>6. ServedWithin(visit[v].since, Asked[v], chosen.view)
  BY <1>4, <1>5 DEF ServedWithin, SharedInv, RecentIsServed, Ages
<1>7. VisitIsSound(v)'
  <2>1. visit'[v] = [at |-> "answered", since |-> visit[v].since, with |-> chosen]
    BY <1>2, OtherVisits
  <2>2. ServedWithin(visit[v].since, Asked[v], chosen.view)'
    BY <1>6, <2>1 DEF ServedWithin
  <2> QED
    BY <1>4, <1>5, <2>1, <2>2 DEF VisitIsSound, TagFits, Ages, ServedWithin
<1>8. ASSUME NEW w \in Visitors, w # v PROVE VisitIsSound(w)'
  BY <1>2, <1>8, OtherVisits, SoundnessLasts
<1>9. GivenIsSound' /\ visit' \in [Visitors -> {visit'[w] : w \in Visitors}]
  BY <1>1, <1>2, OtherVisits DEF GivenIsSound
<1> QED
  BY <1>1, <1>7, <1>8, <1>9, SoundnessLasts DEF SharedInv

\* What arrives is kept under the key of its question, as old as the request.
LEMMA ArriveKeeps ==
  ASSUME SharedInv, UNCHANGED <<catalog, recent>>, NEW v \in Visitors, Arrive(v)
  PROVE  SharedInv'
<1>0. PICK seen, kept :
        /\ seen = visit[v].with.view
        /\ kept = [url |-> Url(Asked[v]), varies |-> Vary(Asked[v]),
                   tag |-> visit[v].with.tag, view |-> seen, age |-> visit[v].since]
  OBVIOUS
<1>1. /\ visit[v].at = "answered" /\ Give(v, seen) /\ Goes(v, NoVisit)
      /\ \A entry \in stored' : entry \in stored \/ entry = kept
  BY <1>0 DEF Arrive
<1>2. /\ TagFits(seen, visit[v].with.tag)
      /\ visit[v].since \in Ages
      /\ ServedWithin(visit[v].since, Asked[v], seen)
  BY <1>0, <1>1 DEF SharedInv, VisitIsSound
<1>3. PICK documents \in DOMAIN recent :
        recent[documents] <= visit[v].since /\ Answers(documents, Asked[v], seen)
  BY <1>2 DEF ServedWithin
<1>4. /\ kept.url = Url(Asked[v]) /\ kept.varies = Vary(Asked[v])
      /\ kept.tag = visit[v].with.tag /\ kept.view = seen /\ kept.age = visit[v].since
      /\ kept \in [url : {kept.url}, varies : {kept.varies}, tag : {kept.tag},
                   view : {kept.view}, age : Ages]
  BY <1>0, <1>2
<1>5. Answers(documents, QuestionOf(kept), kept.view)
  BY <1>2, <1>3, <1>4, KeyedAnswers DEF Keyed
<1>6. EntryIsSound(kept)
  BY <1>2, <1>3, <1>4, <1>5 DEF EntryIsSound, ServedWithin
<1>7. \A entry \in stored' : EntryIsSound(entry)'
  <2>1. EntryIsSound(kept)'
    BY <1>6 DEF EntryIsSound, ServedWithin
  <2> QED
    BY <1>1, <2>1, SoundnessLasts
<1>8. VisitIsSound(v)'
  BY <1>1, OtherVisits DEF NoVisit, VisitIsSound
<1>9. ASSUME NEW w \in Visitors, w # v PROVE VisitIsSound(w)'
  BY <1>1, <1>9, OtherVisits, SoundnessLasts
<1>10. GivenIsSound'
  <2>1. recent[documents] <= MaxAge
    BY <1>2, <1>3, SharedCacheAssumption DEF SharedInv, RecentIsServed, Ages
  <2>2. given' = [to |-> v, view |-> seen]
    BY <1>1 DEF Give
  <2>3. given'.to = v /\ given'.view = seen
    BY <2>2
  <2>4. DOMAIN recent' = DOMAIN recent /\ recent'[documents] <= MaxAge
    BY <2>1
  <2> QED
    BY <1>3, <2>3, <2>4 DEF GivenIsSound, ServedWithin
<1>11. visit' \in [Visitors -> {visit'[w] : w \in Visitors}]
  BY <1>1, OtherVisits
<1> QED
  BY <1>7, <1>8, <1>9, <1>10, <1>11, SoundnessLasts DEF SharedInv

\* What is lost leaves what is stored.
LEMMA MissKeeps ==
  ASSUME SharedInv, UNCHANGED <<catalog, recent>>, NEW v \in Visitors, Miss(v)
  PROVE  SharedInv'
<1>1. Goes(v, NoVisit) /\ given' = Nothing /\ stored' = stored
  BY DEF Miss
<1>2. VisitIsSound(v)'
  BY <1>1, OtherVisits DEF NoVisit, VisitIsSound
<1>3. ASSUME NEW w \in Visitors, w # v PROVE VisitIsSound(w)'
  BY <1>1, <1>3, OtherVisits, SoundnessLasts
<1>4. GivenIsSound' /\ visit' \in [Visitors -> {visit'[w] : w \in Visitors}]
  BY <1>1, OtherVisits DEF GivenIsSound
<1> QED
  BY <1>1, <1>2, <1>3, <1>4, SoundnessLasts DEF SharedInv

\* A replacement makes one more catalog recent.
LEMMA SwapKeeps ==
  ASSUME SharedInv, NEW published \in Built, Swap(published)
  PROVE  SharedInv'
<1>1. /\ catalog'.documents = published
      /\ recent' = [d \in DOMAIN recent \cup {published} |->
                      IF d = published THEN 0 ELSE recent[d]]
      /\ given' = Nothing /\ stored' = stored /\ visit' = visit
  BY DEF Swap, Register!Publish
<1>2. RecentIsServed'
  BY <1>1, SharedCacheAssumption DEF SharedInv, RecentIsServed, Ages
<1>3. ASSUME NEW age \in Ages, NEW question, NEW seen, ServedWithin(age, question, seen)
      PROVE  \E documents \in DOMAIN recent' :
               recent'[documents] <= age /\ Answers(documents, question, seen)
  <2>1. PICK documents \in DOMAIN recent :
          recent[documents] <= age /\ Answers(documents, question, seen)
    BY <1>3 DEF ServedWithin
  <2>2. documents \in DOMAIN recent' /\ recent'[documents] <= age
    BY <1>1, <2>1 DEF Ages
  <2> QED
    BY <2>1, <2>2
<1>4. \A entry \in stored' : EntryIsSound(entry)'
  <2> SUFFICES ASSUME NEW entry \in stored PROVE EntryIsSound(entry)'
    BY <1>1
  <2>1. EntryIsSound(entry) /\ entry.age \in Ages
    BY DEF SharedInv, EntryIsSound
  <2> QED
    BY <1>3, <2>1 DEF EntryIsSound, ServedWithin
<1>5. \A v \in Visitors : VisitIsSound(v)'
  <2> SUFFICES ASSUME NEW v \in Visitors PROVE VisitIsSound(v)'
    OBVIOUS
  <2>1. VisitIsSound(v) /\ visit'[v] = visit[v]
    BY <1>1 DEF SharedInv
  <2>2. CASE visit[v].at = "answered"
    <3>1. visit[v].since \in Ages /\ ServedWithin(visit[v].since, Asked[v], visit[v].with.view)
      BY <2>1, <2>2 DEF VisitIsSound
    <3> QED
      BY <1>3, <2>1, <2>2, <3>1 DEF VisitIsSound, ServedWithin
  <2>3. CASE visit[v].at # "answered"
    BY <2>1, <2>3 DEF VisitIsSound
  <2> QED
    BY <2>2, <2>3
<1> QED
  BY <1>1, <1>2, <1>4, <1>5 DEF SharedInv, GivenIsSound

\* Catalogs, responses and requests grow old together.
LEMMA TickKeeps ==
  ASSUME SharedInv, UNCHANGED catalog, Tick
  PROVE  SharedInv'
<1> DEFINE young == {d \in DOMAIN recent : d = catalog.documents \/ recent[d] < MaxAge}
<1>1. /\ stored' = {[entry EXCEPT !.age = Older(@)] : entry \in stored}
      /\ visit' = [v \in Visitors |->
           IF visit[v].at # "none" /\ visit[v].since < MaxAge
           THEN [visit[v] EXCEPT !.since = @ + 1] ELSE NoVisit]
      /\ given' = Nothing
      /\ recent' = [documents \in young |->
           IF documents = catalog.documents THEN 0 ELSE recent[documents] + 1]
  BY DEF Tick
<1>2. MaxAge \in Nat \ {0} /\ RecentIsServed
  BY SharedCacheAssumption DEF SharedInv
<1>3. RecentIsServed'
  BY <1>1, <1>2 DEF RecentIsServed, Ages
<1>4. ASSUME NEW age \in Ages, age < MaxAge, NEW question, NEW seen,
             ServedWithin(age, question, seen)
      PROVE  \E documents \in DOMAIN recent' :
               recent'[documents] <= age + 1 /\ Answers(documents, question, seen)
  <2>1. PICK documents \in DOMAIN recent :
          recent[documents] <= age /\ Answers(documents, question, seen)
    BY <1>4 DEF ServedWithin
  <2>2. recent[documents] \in Ages
    BY <1>2 DEF RecentIsServed
  <2>3. documents \in young
    BY <1>2, <1>4, <2>1, <2>2 DEF Ages
  <2>4. documents \in DOMAIN recent' /\ recent'[documents] <= age + 1
    BY <1>1, <1>4, <2>1, <2>2, <2>3 DEF Ages
  <2> QED
    BY <2>1, <2>4
<1>5. \A entry \in stored' : EntryIsSound(entry)'
  <2> SUFFICES ASSUME NEW old \in stored, NEW entry,
                      entry = [old EXCEPT !.age = Older(@)]
               PROVE  EntryIsSound(entry)'
    BY <1>1
  <2>1. EntryIsSound(old) /\ old.age \in Ages
    BY DEF SharedInv, EntryIsSound
  <2>2. /\ entry.url = old.url /\ entry.varies = old.varies /\ entry.tag = old.tag
        /\ entry.view = old.view /\ entry.age = Older(old.age)
        /\ entry \in [url : {entry.url}, varies : {entry.varies}, tag : {entry.tag},
                      view : {entry.view}, age : {entry.age}]
    BY <2>1 DEF EntryIsSound
  <2>3. entry.age \in Ages
    BY <1>2, <2>1, <2>2 DEF Older, Ages
  <2>4. QuestionOf(entry) = QuestionOf(old)
    BY <2>2 DEF QuestionOf
  <2>5. ASSUME entry.age < MaxAge
        PROVE  \E documents \in DOMAIN recent' :
                 recent'[documents] <= entry.age
                   /\ Answers(documents, QuestionOf(entry), entry.view)
    <3>1. old.age < MaxAge /\ entry.age = old.age + 1
      BY <1>2, <2>1, <2>2, <2>5 DEF Older, Ages
    <3> QED
      BY <1>4, <2>1, <2>2, <2>4, <3>1 DEF EntryIsSound
  <2>6. TagFits(entry.view, entry.tag)
    BY <2>1, <2>2 DEF EntryIsSound
  <2> QED
    BY <2>2, <2>3, <2>5, <2>6 DEF EntryIsSound, ServedWithin, Ages
<1>6. \A v \in Visitors : VisitIsSound(v)'
  <2> SUFFICES ASSUME NEW v \in Visitors PROVE VisitIsSound(v)'
    OBVIOUS
  <2>1. VisitIsSound(v)
    BY DEF SharedInv
  <2>2. CASE visit[v].at = "asking" /\ visit[v].since < MaxAge
    <3>1. visit[v] \in [at : {"asking"}, since : Ages, offered : {visit[v].offered}]
      BY <2>1, <2>2 DEF VisitIsSound
    <3>2. visit'[v] = [visit[v] EXCEPT !.since = @ + 1]
      BY <1>1, <2>2
    <3>3. visit[v].since + 1 \in Ages
      BY <1>2, <2>2, <3>1 DEF Ages
    <3>4. visit'[v] = [at |-> "asking", since |-> visit[v].since + 1,
                       offered |-> visit[v].offered]
      BY <3>1, <3>2
    <3> QED
      BY <2>1, <2>2, <3>3, <3>4 DEF VisitIsSound, Ages, TagFits
  <2>3. CASE visit[v].at = "answered" /\ visit[v].since < MaxAge
    <3>1. /\ visit[v] \in [at : {"answered"}, since : Ages, with : {visit[v].with}]
          /\ TagFits(visit[v].with.view, visit[v].with.tag)
          /\ ServedWithin(visit[v].since, Asked[v], visit[v].with.view)
      BY <2>1, <2>3 DEF VisitIsSound
    <3>2. visit'[v] = [visit[v] EXCEPT !.since = @ + 1]
      BY <1>1, <2>3
    <3>3. visit[v].since + 1 \in Ages
      BY <1>2, <2>3, <3>1 DEF Ages
    <3>4. visit'[v] = [at |-> "answered", since |-> visit[v].since + 1,
                       with |-> visit[v].with]
      BY <3>1, <3>2
    <3>5. \E documents \in DOMAIN recent' :
            recent'[documents] <= visit[v].since + 1
              /\ Answers(documents, Asked[v], visit[v].with.view)
      BY <1>4, <2>3, <3>1
    <3>6. visit'[v].at = "answered" /\ visit'[v].since = visit[v].since + 1
          /\ visit'[v].with = visit[v].with
      BY <3>4
    <3>7. visit'[v] \in [at : {"answered"}, since : Ages, with : {visit'[v].with}]
      BY <3>3, <3>4
    <3> QED
      BY <3>1, <3>5, <3>6, <3>7 DEF VisitIsSound, Ages, ServedWithin
  <2>4. CASE ~ (visit[v].at # "none" /\ visit[v].since < MaxAge)
    <3>1. visit'[v] = NoVisit
      BY <1>1, <2>4
    <3> QED
      BY <3>1 DEF NoVisit, VisitIsSound
  <2> QED
    BY <2>1, <2>2, <2>3, <2>4 DEF VisitIsSound
<1>7. visit' \in [Visitors -> {visit'[v] : v \in Visitors}]
  <2>1. visit' = [v \in Visitors |-> visit'[v]]
    BY <1>1
  <2> QED
    BY <2>1
<1> QED
  BY <1>1, <1>3, <1>5, <1>6, <1>7 DEF SharedInv, GivenIsSound

\* Together.
LEMMA SharedInvariant == SharedSpec => []SharedInv
<1>1. ASSUME SharedInv, [SharedNext]_<<catalog, sharedVars>> PROVE SharedInv'
  <2>1. CASE UNCHANGED <<catalog, sharedVars>>
    BY <1>1, <2>1, SoundnessLasts
    DEF SharedInv, GivenIsSound, ServedWithin, sharedVars
  <2>2. ASSUME NEW v \in Visitors, Ask(v) \/ Serve(v) \/ Arrive(v) \/ Miss(v),
               UNCHANGED <<catalog, recent>>
        PROVE  SharedInv'
    BY <1>1, <2>2, AskKeeps, ServeKeeps, ArriveKeeps, MissKeeps
  <2>3. CASE Tick /\ UNCHANGED catalog
    BY <1>1, <2>3, TickKeeps
  <2>4. ASSUME NEW documents \in Built, Swap(documents) PROVE SharedInv'
    BY <1>1, <2>4, SwapKeeps
  <2> QED
    BY <1>1, <2>1, <2>2, <2>3, <2>4 DEF SharedNext
<1> QED
  BY <1>1, InitSharedInv, PTL DEF SharedSpec

\* Nobody is given a text or a heading that was retired for longer than max-age
\* (HttpPolicy, crates/terrace-legal-axum/src/respond.rs).
THEOREM RetiredIsGone == SharedSpec => []RetiredTextIsGone
<1>1. SharedInv => RetiredTextIsGone
  BY DEF SharedInv, GivenIsSound, ServedWithin, Answers, RetiredTextIsGone, Sources
<1> QED
  BY <1>1, SharedInvariant, PTL

\* Everybody is given the language the server, within max-age, would have chosen for
\* them, for whomever the cache got it (HttpPolicy::conditional).
THEOREM OwnLanguage == SharedSpec => []OwnLanguageIsServed
<1>1. SharedInv => OwnLanguageIsServed
  BY DEF SharedInv, GivenIsSound, ServedWithin, Answers, OwnLanguageIsServed, Sources
<1> QED
  BY <1>1, SharedInvariant, PTL

==============================================================================
