---------------------------- MODULE ConsentService ----------------------------
(***************************************************************************)
(* The consent routes and the RequireConsent layer over a shared handle,   *)
(* a shared store and a clock (crates/terrace-legal-axum/src/consent and   *)
(* the MemoryConsentStore of crates/terrace-legal/src/consent.rs).         *)
(*                                                                         *)
(* Every request runs once.  Its handler is cut where another task or      *)
(* thread can run in between: at each `await` on the store, and between    *)
(* reading the clock and reading the catalog.  The resolver is the host's  *)
(* authentication: a request's subject is what it answered, and a request  *)
(* it rejects touches nothing and is left out.                             *)
(***************************************************************************)
EXTENDS ServedCatalog

CONSTANTS
  Requests,     \* the requests that are made, each once
  Quotes,       \* the acceptances clients send
  Paths,        \* the paths behind the layer
  ExemptPaths,  \* those that Exemptions::covers
  LastInstant   \* bound: the clock stops here

ASSUME ServiceAssumption ==
  /\ Quotes \subseteq Acceptances
  /\ ExemptPaths \subseteq Paths
  /\ LastInstant \in Instants

VARIABLES
  log,       \* the store's records, by append position
  appended,  \* the number of positions used
  now,       \* the clock
  job,       \* job[r]: what the request asks
  pc,        \* pc[r]: where its handler is
  seen,      \* seen[r]: what store.latest answered
  stamp,     \* stamp[r]: what clock.now answered
  draft,     \* draft[r]: the record about to be appended
  reply,     \* reply[r]: the response
  served,    \* history: the documents of every catalog served so far
  watch      \* history: what r's subject owed and had settled all the while

storeVars == <<log, appended>>
handlerVars == <<job, pc, seen, stamp, draft, reply>>
vars == <<catalog, storeVars, now, handlerVars, served, watch>>

WithdrawJobs == [op : {"withdraw"}, subject : Subjects, slug : Slugs \cup BadKeys]
StatusJobs == [op : {"status"}, subject : Subjects]
LayerJobs == [op : {"layer"}, subject : Subjects]
AcceptJob(subject) == [op |-> "accept", subject |-> subject]

NoJob == [op |-> "none"]
NoRecord == << >>
NoWatch == [since |-> 0, owed |-> {}, settled |-> {}]

Init ==
  /\ Register!InitCatalog
  /\ log = << >>
  /\ appended = 0
  /\ now = 0
  /\ job = [r \in Requests |-> NoJob]
  /\ pc = [r \in Requests |-> "ready"]
  /\ seen = [r \in Requests |-> << >>]
  /\ stamp = [r \in Requests |-> 0]
  /\ draft = [r \in Requests |-> NoRecord]
  /\ reply = [r \in Requests |-> "none"]
  /\ served = {catalog.documents}
  /\ watch = [r \in Requests |-> NoWatch]
------------------------------------------------------------------------------
(***************************************************************************)
(* The store.                                                              *)
(***************************************************************************)
AppendRecord(record) ==
  /\ appended' = appended + 1
  /\ log' = [i \in DOMAIN log \cup {appended + 1} |->
               IF i = appended + 1 THEN record ELSE log[i]]

\* What follows an append: stored, refused, or stored with its answer lost.
AppendOutcome(record, answer) ==
  \/ AppendRecord(record) /\ answer = "204"
  \/ UNCHANGED storeVars /\ answer = "500"
  \/ AppendRecord(record) /\ answer = "500"

\* ConsentStore::erase, called by the host's account erasure.
Erase(subject) ==
  /\ DOMAIN History(log, subject) # {}
  /\ log' = Erased(log, subject)
  /\ UNCHANGED <<catalog, appended, now, handlerVars, served>>
------------------------------------------------------------------------------
(***************************************************************************)
(* The handlers.                                                           *)
(***************************************************************************)
Finish(r, answer) ==
  /\ pc' = [pc EXCEPT ![r] = "done"]
  /\ reply' = [reply EXCEPT ![r] = answer]
  /\ job' = [job EXCEPT ![r] = NoJob]
  /\ seen' = [seen EXCEPT ![r] = << >>]
  /\ stamp' = [stamp EXCEPT ![r] = 0]
  /\ draft' = [draft EXCEPT ![r] = NoRecord]

StatusCode(refusal) ==
  CASE refusal = "unknown-document" -> "404"
    [] refusal = "unpublished-locale" -> "422"
    [] refusal = "consent-stale" -> "409"

\* accept: verify_acceptance against the catalog of this moment.
AcceptVerify(r, subject, quote) ==
  /\ pc[r] = "ready"
  /\ LET refusal == Refusal(catalog.documents, quote)
     IN  IF refusal # "none"
         THEN Finish(r, StatusCode(refusal))
         ELSE /\ pc' = [pc EXCEPT ![r] = "date"]
              /\ job' = [job EXCEPT ![r] = AcceptJob(subject)]
              /\ draft' = [draft EXCEPT ![r] =
                   AcceptanceRecord(catalog.documents, quote, subject, "api", 0)]
              /\ UNCHANGED <<seen, stamp, reply>>
  /\ UNCHANGED <<catalog, storeVars, now, served>>

\* accept: into_record takes the clock's time.
AcceptDate(r) ==
  /\ pc[r] = "date"
  /\ draft' = [draft EXCEPT ![r].at = now]
  /\ pc' = [pc EXCEPT ![r] = "append"]
  /\ UNCHANGED <<catalog, storeVars, now, job, seen, stamp, reply, served>>

\* accept and withdraw: await store.append and answer.
AppendDraft(r) ==
  /\ pc[r] = "append"
  /\ \E answer \in {"204", "500"} :
       /\ AppendOutcome(draft[r], answer)
       /\ Finish(r, answer)
  /\ UNCHANGED <<catalog, now, served>>

\* withdraw, status, and the layer on a path it covers: await store.latest.
ReadLatest(r, request) ==
  /\ pc[r] = "ready"
  /\ pc' = [pc EXCEPT ![r] = "clock"]
  /\ job' = [job EXCEPT ![r] = request]
  /\ seen' = [seen EXCEPT ![r] = Latest(log, request.subject)]
  /\ UNCHANGED <<catalog, storeVars, now, stamp, draft, reply, served>>

LatestFails(r) ==
  /\ pc[r] = "ready"
  /\ Finish(r, "500")
  /\ UNCHANGED <<catalog, storeVars, now, served>>

\* The layer on an exempt path: no lookup, straight to the inner service.
PassExempt(r, path) ==
  /\ pc[r] = "ready"
  /\ path \in ExemptPaths
  /\ Finish(r, "inner")
  /\ UNCHANGED <<catalog, storeVars, now, served>>

\* state.clock.now() is an argument, so it is read before the catalog is.
ReadClock(r) ==
  /\ pc[r] = "clock"
  /\ stamp' = [stamp EXCEPT ![r] = now]
  /\ pc' = [pc EXCEPT ![r] = "decide"]
  /\ UNCHANGED <<catalog, storeVars, now, job, seen, draft, reply, served>>

\* withdraw: withdrawal_record against the catalog of this moment.
WithdrawBuild(r) ==
  /\ pc[r] = "decide"
  /\ job[r].op = "withdraw"
  /\ IF Consentable(catalog.documents, job[r].slug)
     THEN /\ pc' = [pc EXCEPT ![r] = "append"]
          /\ draft' = [draft EXCEPT ![r] =
               WithdrawalRecord(catalog.documents, job[r].slug, job[r].subject,
                                seen[r], stamp[r])]
          /\ UNCHANGED <<job, seen, stamp, reply>>
     ELSE Finish(r, "404")
  /\ UNCHANGED <<catalog, storeVars, now, served>>

Blocked(r) == IsBlocked(ConsentStatus(catalog.documents, seen[r], stamp[r]))

\* status: consent_status against the catalog of this moment.
StatusAnswer(r) ==
  /\ pc[r] = "decide"
  /\ job[r].op = "status"
  /\ Finish(r, IF Blocked(r) THEN "200-blocked" ELSE "200-clear")
  /\ UNCHANGED <<catalog, storeVars, now, served>>

\* The layer: 403 consent-required, or on to the inner service.
LayerDecide(r) ==
  /\ pc[r] = "decide"
  /\ job[r].op = "layer"
  /\ Finish(r, IF Blocked(r) THEN "403" ELSE "inner")
  /\ UNCHANGED <<catalog, storeVars, now, served>>

Handle(r) ==
  \/ \E subject \in Subjects, quote \in Quotes : AcceptVerify(r, subject, quote)
  \/ AcceptDate(r)
  \/ AppendDraft(r)
  \/ \E request \in WithdrawJobs \cup StatusJobs \cup LayerJobs : ReadLatest(r, request)
  \/ LatestFails(r)
  \/ \E path \in Paths : PassExempt(r, path)
  \/ ReadClock(r)
  \/ WithdrawBuild(r)
  \/ StatusAnswer(r)
  \/ LayerDecide(r)
------------------------------------------------------------------------------
(***************************************************************************)
(* The environment.                                                        *)
(***************************************************************************)
Replace(documents) ==
  /\ Register!Publish(documents)
  /\ served' = served \cup {catalog'.documents}
  /\ UNCHANGED <<storeVars, now, handlerVars>>

\* The clock does not go backwards.
Tick ==
  /\ now < LastInstant
  /\ now' = now + 1
  /\ UNCHANGED <<catalog, storeVars, handlerVars, served>>

(***************************************************************************)
(* The observer: while a status or layer request is under way, what its    *)
(* subject has owed, and had settled, in every state since the store       *)
(* answered it.  It reads the other variables and none of them reads it.   *)
(***************************************************************************)
AcceptedIn(records, subject, slug, version) ==
  \E i \in DOMAIN Latest(records, subject) :
    /\ records[i].slug = slug
    /\ records[i].kind = "accepted"
    /\ records[i].version = version

Insists(documents, slug, version) ==
  /\ slug \in DOMAIN documents
  /\ documents[slug].policy.requirement = "accept"
  /\ documents[slug].policy.version = version

\* Revisions that had to be accepted by `since` already, and are not.
Owed(documents, records, subject, since) ==
  {p \in Slugs \X Versions :
     /\ Insists(documents, p[1], p[2])
     /\ GraceOver(documents[p[1]].policy, since)
     /\ ~ AcceptedIn(records, subject, p[1], p[2])}

Settled(records, subject) ==
  {p \in Slugs \X Versions : AcceptedIn(records, subject, p[1], p[2])}

Awaits(place, request) == place \in {"clock", "decide"} /\ request.op # "withdraw"

Observe ==
  watch' = [r \in Requests |->
    LET subject == job'[r].subject
    IN  IF ~ Awaits(pc'[r], job'[r]) THEN NoWatch
        ELSE IF ~ Awaits(pc[r], job[r])
        THEN [since |-> now,
              owed |-> Owed(catalog.documents, log, subject, now),
              settled |-> Settled(log, subject)]
        ELSE [watch[r] EXCEPT
                !.owed = @ \cap Owed(catalog'.documents, log', subject, watch[r].since),
                !.settled = @ \cap Settled(log', subject)]]

Next ==
  /\ \/ \E r \in Requests : Handle(r)
     \/ \E documents \in Built : Replace(documents)
     \/ \E subject \in Subjects : Erase(subject)
     \/ Tick
  /\ Observe

Spec == Init /\ [][Next]_vars
------------------------------------------------------------------------------
(***************************************************************************)
(* Properties.                                                             *)
(***************************************************************************)
Replies == {"none", "204", "404", "409", "422", "500", "inner", "403",
            "200-clear", "200-blocked"}

StoreTypes ==
  /\ appended \in Nat
  /\ IsPartial(log, 1..appended, Records)

HandlerTypes ==
  /\ job \in [Requests -> WithdrawJobs \cup StatusJobs \cup LayerJobs
                           \cup {AcceptJob(subject) : subject \in Subjects} \cup {NoJob}]
  /\ pc \in [Requests -> {"ready", "date", "append", "clock", "decide", "done"}]
  /\ seen \in [Requests -> {seen[r] : r \in Requests}]
  /\ \A r \in Requests : IsPartial(seen[r], 1..appended, Records)
  /\ stamp \in [Requests -> 0..LastInstant]
  /\ draft \in [Requests -> Records \cup {NoRecord}]
  /\ reply \in [Requests -> Replies]

ObserverTypes ==
  /\ \A documents \in served : IsCatalog(documents)
  /\ watch \in [Requests -> [since : 0..LastInstant,
                             owed : SUBSET (Slugs \X Versions),
                             settled : SUBSET (Slugs \X Versions)]]

TypeOK ==
  /\ IsServed(catalog)
  /\ now \in 0..LastInstant
  /\ StoreTypes
  /\ HandlerTypes
  /\ ObserverTypes

\* One of these catalogs holds all a record claims: the revision, the
\* text in that locale, and what was asked of the subject.
Quoted(catalogs, record) ==
  \E documents \in catalogs :
    /\ Consentable(documents, record.slug)
    /\ LET document == documents[record.slug]
       IN  /\ record.version = document.policy.version
           /\ record.locale \in DOMAIN document.bodies
           /\ record.digest = document.bodies[record.locale]
           /\ record.kind \in {KindFor(document.policy.requirement), "withdrawn"}

\* Whatever replacements, clock ticks and erasures run between the check of an
\* acceptance or withdrawal and its append, no stored record mixes the revision
\* of one catalog with the text or the requirement of another
\* (Legal::verify_acceptance, withdrawal_record and the accept and withdraw routes).
RecordsQuoteServedText == \A i \in DOMAIN log : Quoted(served, log[i])

Answers(r, replies) == pc[r] = "decide" /\ pc'[r] = "done" /\ reply'[r] \in replies

\* Nobody passes the layer, or is told they owe nothing urgent, who owed one
\* same overdue revision in every state between the store's answer and the
\* decision: reading the records, the clock and the catalog at three moments
\* loses no block that stood all along (RequireConsent::call, status).
ContinuouslyOwedNeverPasses ==
  [][\A r \in Requests : Answers(r, {"inner", "200-clear"}) => watch[r].owed = {}]_vars

\* Nobody is turned away who had, in all of those states, accepted every
\* revision the deciding catalog insists on (RequireConsent::call, status).
ContinuouslySettledNeverBlocked ==
  [][\A r \in Requests : Answers(r, {"403", "200-blocked"}) =>
       \E slug \in Slugs, version \in Versions :
         Insists(catalog.documents, slug, version) /\ <<slug, version>> \notin watch[r].settled]_vars

\* The store answers by append order and `evaluate` decides by timestamp.  The
\* two agree for every subject whose appends kept the order of their clock
\* readings, so the whole history and its last words give one verdict
\* (ConsentStore::latest, ConsentStore::history, evaluate).
InClockOrder(slice) ==
  \A i, j \in DOMAIN slice :
    i < j /\ slice[i].slug = slice[j].slug => slice[i].at < slice[j].at

HistoryDecidesAsLatest ==
  \A subject \in Subjects :
    InClockOrder(History(log, subject)) =>
      ConsentStatus(catalog.documents, History(log, subject), now) =
        ConsentStatus(catalog.documents, Latest(log, subject), now)

\* What the reference store answers by scanning its log is what the contract
\* keeps record by record: appends of overlapping requests, failed and lost ones
\* too, never lose, reorder or mix up records, an erasure takes one subject's and
\* no other's, and the last word on a document is the last one appended
\* (ConsentStore: "defined by the order records were appended in"; the rules of
\* consent_conformance).
Contract ==
  INSTANCE ConsentStore
    WITH history <- [subject \in Subjects |-> History(log, subject)],
         latest  <- [subject \in Subjects |-> Latest(log, subject)]

ImplementsStore == Contract!StoreSpec

\* A withdrawal names the text of the record its subject made last
\* (withdrawal_record: "the locale and digest of the text the subject last
\* recorded against"; the test
\* a_withdrawal_names_the_current_revision_and_the_text_last_recorded).
WithdrawalNamesTheTextLastRecorded ==
  \A r \in Requests :
    pc[r] = "append" /\ job[r].op = "withdraw" =>
      \A i \in Newest(seen[r], job[r].slug) :
        draft[r].locale = seen[r][i].locale /\ draft[r].digest = seen[r][i].digest
==============================================================================
