---------------------------- MODULE DocumentCache ----------------------------
(***************************************************************************)
(* Accepting a document through an HTTP cache: accept_document and         *)
(* acceptance_for (crates/terrace-legal-dioxus/src/consent.rs) fetch the   *)
(* text and quote it back, Legal::document and HttpPolicy answer the fetch *)
(* with an entity tag, and operators replace the catalog meanwhile.        *)
(*                                                                         *)
(* The cache and the network are not in the repository.  The cache is one  *)
(* private cache per client that follows the headers it is sent: it serves *)
(* a fresh response, revalidates a stale one with If-None-Match and keeps  *)
(* it on a 304.  The network may lose any message.                         *)
(***************************************************************************)
EXTENDS Views

CONSTANTS
  Clients,
  Wanted,           \* Wanted[c]: the slug and the `lang` the client asks for
  MaxReplacements   \* bound: operators replace the catalog this often, if the
                    \* modulus is greater

ASSUME CacheAssumption ==
  /\ Wanted \in [Clients -> [slug : Slugs, lang : Locales]]
  /\ MaxReplacements \in Nat

VARIABLES
  cache,      \* cache[c]: the stored response, with its tag and its freshness
  pc,         \* pc[c]: where accept_document is
  condition,  \* condition[c]: the If-None-Match of the request under way
  answer,     \* answer[c]: the response under way
  view,       \* view[c]: the document view the client was given
  record      \* record[c]: the store's last record of the client's subject

clientVars == <<cache, pc, condition, answer, view, record>>
vars == <<catalog, clientVars>>

NoTag == << >>
NoView == << >>
NoEntry == [view |-> NoView, tag |-> NoTag, fresh |-> FALSE]
NoAnswer == [status |-> "none", view |-> NoView, tag |-> NoTag]
NoRecord == << >>

Init ==
  /\ Register!InitCatalog
  /\ cache = [c \in Clients |-> NoEntry]
  /\ pc = [c \in Clients |-> "idle"]
  /\ condition = [c \in Clients |-> NoTag]
  /\ answer = [c \in Clients |-> NoAnswer]
  /\ view = [c \in Clients |-> NoView]
  /\ record = [c \in Clients |-> NoRecord]
------------------------------------------------------------------------------
\* What the server publishes for a client, and the tag it puts on it.
Published(c) ==
  LET slug == Wanted[c].slug
      document == catalog.documents[slug]
      locale == Negotiate(DOMAIN document.bodies, Wanted[c].lang)
  IN  [view |-> ViewOf(slug, locale, document),
       tag |-> EntityTag(slug, locale, document)]
------------------------------------------------------------------------------
(***************************************************************************)
(* The client.  Its consent list offers a document while it is owed.       *)
(***************************************************************************)
Slice(c) == IF record[c] = NoRecord THEN << >> ELSE <<record[c]>>

Owes(c) ==
  LET slug == Wanted[c].slug
  IN  /\ Consentable(catalog.documents, slug)
      /\ Outstanding(catalog.documents[slug].policy, slug, Slice(c))

\* accept_document, transport.document: from the cache while that is fresh.
FetchCached(c) ==
  /\ pc[c] = "idle"
  /\ Owes(c)
  /\ cache[c].fresh
  /\ view' = [view EXCEPT ![c] = cache[c].view]
  /\ pc' = [pc EXCEPT ![c] = "shown"]
  /\ UNCHANGED <<catalog, cache, condition, answer, record>>

\* Otherwise from the server, naming the stored response's tag if there is one.
FetchRemote(c) ==
  /\ pc[c] = "idle"
  /\ Owes(c)
  /\ ~ cache[c].fresh
  /\ condition' = [condition EXCEPT ![c] = cache[c].tag]
  /\ pc' = [pc EXCEPT ![c] = "asking"]
  /\ UNCHANGED <<catalog, cache, answer, view, record>>

\* respond_document: not found, 304 when the tag is named, or 200.  A 304 has
\* no body: its `view` is what a 200 would have sent, for the properties only.
ServeDocument(c) ==
  /\ pc[c] = "asking"
  /\ pc' = [pc EXCEPT ![c] = "answered"]
  /\ answer' = [answer EXCEPT ![c] =
       IF ~ Hosts(catalog.documents, Wanted[c].slug)
       THEN [status |-> "404", view |-> NoView, tag |-> NoTag]
       ELSE [status |-> IF condition[c] = Published(c).tag THEN "304" ELSE "200",
             view |-> Published(c).view, tag |-> Published(c).tag]]
  /\ UNCHANGED <<catalog, cache, condition, view, record>>

Reset(c, place) ==
  /\ pc' = [pc EXCEPT ![c] = place]
  /\ condition' = [condition EXCEPT ![c] = NoTag]
  /\ answer' = [answer EXCEPT ![c] = NoAnswer]

\* The cache stores or refreshes the response and hands the view on.
Receive(c) ==
  /\ pc[c] = "answered"
  /\ \/ /\ answer[c].status = "404"
        /\ Reset(c, "idle")
        /\ UNCHANGED <<cache, view>>
     \/ /\ answer[c].status = "304"
        /\ cache' = [cache EXCEPT ![c].fresh = TRUE]
        /\ view' = [view EXCEPT ![c] = cache[c].view]
        /\ Reset(c, "shown")
     \/ /\ answer[c].status = "200"
        /\ cache' = [cache EXCEPT ![c] = [view |-> answer[c].view,
                                          tag |-> answer[c].tag, fresh |-> TRUE]]
        /\ view' = [view EXCEPT ![c] = answer[c].view]
        /\ Reset(c, "shown")
  /\ UNCHANGED <<catalog, record>>

\* transport.accept: the accept route, whose answer may come back or be lost.
\* A view without a consent policy is an error before anything is sent.
PostAcceptance(c) ==
  /\ pc[c] = "shown"
  /\ Reset(c, "idle")
  /\ view' = [view EXCEPT ![c] = NoView]
  /\ IF /\ view[c].consent.requirement # "none"
        /\ Refusal(catalog.documents, AcceptanceFor(view[c])) = "none"
     THEN \E subject \in Subjects : record' = [record EXCEPT ![c] =
            AcceptanceRecord(catalog.documents, AcceptanceFor(view[c]),
                             subject, "api", 0)]
     ELSE UNCHANGED record
  /\ UNCHANGED <<catalog, cache>>

\* A lost request, response or acceptance ends accept_document with an error.
Lose(c) ==
  /\ pc[c] # "idle"
  /\ Reset(c, "idle")
  /\ view' = [view EXCEPT ![c] = NoView]
  /\ UNCHANGED <<catalog, cache, record>>

\* max-age has passed.
Expire(c) ==
  /\ cache[c].fresh
  /\ cache' = [cache EXCEPT ![c].fresh = FALSE]
  /\ UNCHANGED <<catalog, pc, condition, answer, view, record>>

Replace(documents) ==
  /\ catalog.generation < MaxReplacements
  /\ Register!Publish(documents)
  /\ UNCHANGED clientVars

Step(c) ==
  \/ FetchCached(c) \/ FetchRemote(c) \/ ServeDocument(c) \/ Receive(c)
  \/ PostAcceptance(c) \/ Lose(c) \/ Expire(c)

Next ==
  \/ \E c \in Clients : Step(c)
  \/ \E documents \in Built : Replace(documents)

\* The user presses the button again while it is offered, max-age passes, and
\* the network, which may lose any message, does not lose every one.
Fairness ==
  \A c \in Clients :
    /\ WF_vars(FetchCached(c) \/ FetchRemote(c))
    /\ WF_vars(Expire(c))
    /\ SF_vars(ServeDocument(c))
    /\ SF_vars(Receive(c))
    /\ SF_vars(PostAcceptance(c))

Spec == Init /\ [][Next]_vars
FairSpec == Spec /\ Fairness
------------------------------------------------------------------------------
(***************************************************************************)
(* Properties.                                                             *)
(***************************************************************************)
Tags == [slug : Slugs, locale : Locales, heading : Headings, digest : Texts]

TypeOK ==
  /\ IsServed(catalog)
  /\ cache \in [Clients -> [view : ViewsOfAnything \cup {NoView}, tag : Tags \cup {NoTag},
                            fresh : BOOLEAN]]
  /\ pc \in [Clients -> {"idle", "asking", "answered", "shown"}]
  /\ condition \in [Clients -> Tags \cup {NoTag}]
  /\ answer \in [Clients -> [status : {"none", "200", "304", "404"},
                             view : ViewsOfAnything \cup {NoView}, tag : Tags \cup {NoTag}]]
  /\ view \in [Clients -> ViewsOfAnything \cup {NoView}]
  /\ record \in [Clients -> Records \cup {NoRecord}]

Shown(seen) == [seen EXCEPT !.consent = NoView]

\* A cache told "not modified" holds the very text and heading the server
\* published when it answered, however many replacements the stored response
\* has outlived and however late the answer arrives (HttpPolicy::conditional).
RevalidatedTextIsCurrent ==
  \A c \in Clients :
    answer[c].status = "304" =>
      Shown(cache[c].view) = Shown(answer[c].view)

\* Whatever the cache held and whenever the catalog was replaced, an acceptance
\* is recorded only of the text and the revision that its reader was given and
\* that is still what the server asks for (accept_document: "a subject never
\* accepts text that was not the text fetched").
RecordsOnlyWhatWasShown ==
  [][\A c \in Clients :
       record'[c] # record[c] =>
         LET document == catalog.documents[Wanted[c].slug]
         IN  /\ record'[c].version = document.policy.version
             /\ record'[c].version = view[c].consent.version
             /\ record'[c].digest = view[c].text
             /\ record'[c].digest = document.bodies[view[c].locale]
             /\ record'[c].kind = "accepted"
                  <=> document.policy.requirement = "accept"]_vars

\* Once the operators stop, a user who keeps trying ends up owing nothing: no
\* cached text keeps them quoting a revision the server refuses.
EventuallySettled == <>[](\A c \in Clients : ~ Owes(c))
==============================================================================
