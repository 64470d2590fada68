------------------------- MODULE ConsentServiceProofs -------------------------
(***************************************************************************)
(* Proofs about ConsentService: what its store holds and what its layer    *)
(* decides, for every number of requests and however replacements fall     *)
(* between their steps.                                                    *)
(***************************************************************************)
EXTENDS ConsentService, CatalogProofs

(***************************************************************************)
(* Types of what the steps are made of.                                    *)
(***************************************************************************)
LEMMA PartialOfMore ==
  ASSUME NEW m \in Nat, NEW n \in Nat, m <= n, NEW f, NEW T, IsPartial(f, 1..m, T)
  PROVE  IsPartial(f, 1..n, T)
BY DEF IsPartial

\* An append adds one record and keeps the others.
LEMMA AppendKeepsRecords ==
  ASSUME StoreTypes, NEW record \in Records, AppendRecord(record)
  PROVE  /\ StoreTypes'
         /\ appended' \in Nat /\ appended <= appended'
         /\ \A i \in DOMAIN log' :
              log'[i] = record \/ (i \in DOMAIN log /\ log'[i] = log[i])
<1>1. /\ appended \in Nat
      /\ DOMAIN log \subseteq 1..appended
      /\ \A i \in DOMAIN log : log[i] \in Records
  BY DEF StoreTypes, IsPartial
<1>2. /\ appended' = appended + 1
      /\ log' = [i \in DOMAIN log \cup {appended + 1} |->
                  IF i = appended + 1 THEN record ELSE log[i]]
  BY DEF AppendRecord
<1>3. DOMAIN log' = DOMAIN log \cup {appended + 1}
  BY <1>2
<1>4. \A i \in DOMAIN log' :
        /\ log'[i] = record \/ (i \in DOMAIN log /\ log'[i] = log[i])
        /\ log'[i] \in Records
  BY <1>1, <1>2, <1>3
<1>5. log' \in [DOMAIN log' -> Records]
  BY <1>2, <1>3, <1>4
<1> QED
  BY <1>1, <1>2, <1>3, <1>4, <1>5 DEF StoreTypes, IsPartial

\* What the store answers is part of what it holds, and so is what an erasure
\* leaves.
LEMMA PartsOfTheStore ==
  ASSUME NEW S, NEW records, IsPartial(records, S, Records), NEW subject
  PROVE  /\ IsPartial(Latest(records, subject), S, Records)
         /\ IsPartial(Erased(records, subject), S, Records)
         /\ \A i \in DOMAIN Erased(records, subject) :
              i \in DOMAIN records /\ Erased(records, subject)[i] = records[i]
BY DEF IsPartial, Latest, Erased

\* A finished request forgets what it worked on.
LEMMA FinishTypes ==
  ASSUME appended \in Nat, appended' \in Nat, appended <= appended', HandlerTypes,
         NEW r \in Requests, NEW answer \in Replies, Finish(r, answer), LastInstant \in Nat
  PROVE  /\ HandlerTypes'
         /\ \A q \in Requests :
              IF q = r THEN pc'[q] = "done" ELSE pc'[q] = pc[q] /\ draft'[q] = draft[q]
<1>1. /\ pc' = [pc EXCEPT ![r] = "done"]
      /\ reply' = [reply EXCEPT ![r] = answer]
      /\ job' = [job EXCEPT ![r] = NoJob]
      /\ seen' = [seen EXCEPT ![r] = << >>]
      /\ stamp' = [stamp EXCEPT ![r] = 0]
      /\ draft' = [draft EXCEPT ![r] = NoRecord]
  BY DEF Finish
<1>2. \A q \in Requests : IsPartial(seen'[q], 1..appended', Records)
  <2>1. \A q \in Requests : IsPartial(seen[q], 1..appended', Records)
    BY PartialOfMore DEF HandlerTypes
  <2>2. IsPartial(<< >>, 1..appended', Records)
    BY EmptyIsPartial
  <2> QED
    BY <1>1, <2>1, <2>2 DEF HandlerTypes
<1>3. seen' \in [Requests -> {seen'[q] : q \in Requests}]
  BY <1>1 DEF HandlerTypes
<1>4. /\ pc' \in [Requests -> {"ready", "date", "append", "clock", "decide", "done"}]
      /\ reply' \in [Requests -> Replies]
      /\ stamp' \in [Requests -> 0..LastInstant]
  BY <1>1 DEF HandlerTypes
<1>5. draft' \in [Requests -> Records \cup {NoRecord}]
  BY <1>1 DEF HandlerTypes
<1>6. job' \in [Requests -> WithdrawJobs \cup StatusJobs \cup LayerJobs
                  \cup {AcceptJob(subject) : subject \in Subjects} \cup {NoJob}]
  BY <1>1 DEF HandlerTypes
<1>7. \A q \in Requests :
        IF q = r THEN pc'[q] = "done" ELSE pc'[q] = pc[q] /\ draft'[q] = draft[q]
  BY <1>1 DEF HandlerTypes
<1> QED
  BY <1>2, <1>3, <1>4, <1>5, <1>6, <1>7 DEF HandlerTypes

(***************************************************************************)
(* The invariant.  What is stored was a draft, and a draft is quoted from  *)
(* the catalog of an earlier moment: so every catalog since the start must *)
(* be one that can be relied on, and every draft a quotation.              *)
(***************************************************************************)
ServedWereBuilt == catalog.documents \in served /\ served \subseteq Built

DraftsAreQuoted ==
  \A r \in Requests :
    pc[r] \in {"date", "append"} => draft[r] \in Records /\ Quoted(served, draft[r])

ServiceInv ==
  /\ TypeOK
  /\ ServedWereBuilt
  /\ DraftsAreQuoted
  /\ RecordsQuoteServedText

\* The clock is read in range.
LEMMA ClockInRange ==
  LastInstant \in Nat /\ 0..LastInstant \subseteq Instants /\ 0 \in 0..LastInstant
BY ServiceAssumption, CatalogAssumption DEF Instants

\* The invariant holds before any request.
LEMMA InitServiceInv == Init => ServiceInv
<1> SUFFICES ASSUME Init PROVE ServiceInv
  OBVIOUS
<1>1. PICK documents \in Built : catalog = [generation |-> 0, documents |-> documents]
  BY DEF Init, Register!InitCatalog
<1>2. IsCatalog(documents)
  BY BuiltIsWellFormed
<1>3. IsServed(catalog)
  BY <1>1, <1>2, ServedAssumption DEF IsServed
<1>4. served = {documents}
  BY <1>1 DEF Init
<1>5. StoreTypes
  BY EmptyIsPartial DEF Init, StoreTypes
<1>6. HandlerTypes
  BY EmptyIsPartial, ClockInRange DEF Init, HandlerTypes, Replies
<1>7. ObserverTypes
  <2>1. NoWatch \in [since : 0..LastInstant, owed : SUBSET (Slugs \X Versions),
                     settled : SUBSET (Slugs \X Versions)]
    BY ClockInRange DEF NoWatch
  <2> QED
    BY <1>2, <1>4, <2>1 DEF Init, ObserverTypes
<1>8. DraftsAreQuoted /\ RecordsQuoteServedText
  <2>1. \A r \in Requests : pc[r] = "ready"
    BY DEF Init
  <2>2. DOMAIN log = {}
    BY EmptyIsPartial DEF Init
  <2> QED
    BY <2>1, <2>2 DEF DraftsAreQuoted, RecordsQuoteServedText
<1> QED
  BY <1>1, <1>3, <1>4, <1>5, <1>6, <1>7, <1>8, ClockInRange
     DEF ServiceInv, TypeOK, ServedWereBuilt, Init

(***************************************************************************)
(* Every step of a handler keeps the types, the quotations in the store,   *)
(* and those in the drafts: only AcceptVerify and WithdrawBuild make one.  *)
(***************************************************************************)
HandlerKeeps ==
  StoreTypes' /\ HandlerTypes' /\ DraftsAreQuoted' /\ RecordsQuoteServedText'

\* A request that ends, without a change to the store.
LEMMA EndKeeps ==
  ASSUME ServiceInv, NEW r \in Requests, NEW answer \in Replies,
         Finish(r, answer), UNCHANGED <<storeVars, served>>
  PROVE  HandlerKeeps
<1>1. appended \in Nat /\ appended' = appended /\ log' = log /\ served' = served
  BY DEF ServiceInv, TypeOK, StoreTypes, storeVars
<1>2. HandlerTypes /\ StoreTypes
  BY DEF ServiceInv, TypeOK
<1>3. /\ HandlerTypes'
      /\ \A q \in Requests :
           IF q = r THEN pc'[q] = "done" ELSE pc'[q] = pc[q] /\ draft'[q] = draft[q]
  BY <1>1, <1>2, FinishTypes, ClockInRange
<1>4. StoreTypes'
  BY <1>1, <1>2 DEF StoreTypes
<1>5. DraftsAreQuoted' /\ RecordsQuoteServedText'
  BY <1>1, <1>3 DEF ServiceInv, DraftsAreQuoted, RecordsQuoteServedText
<1> QED
  BY <1>3, <1>4, <1>5 DEF HandlerKeeps

\* A request that moves on, with a quoted draft if it has one to append.
LEMMA MoveKeeps ==
  ASSUME ServiceInv, UNCHANGED <<storeVars, reply, served>>,
         NEW r \in Requests, NEW place \in {"date", "append", "clock", "decide"},
         pc' = [pc EXCEPT ![r] = place],
         NEW job1 \in WithdrawJobs \cup StatusJobs \cup LayerJobs
                        \cup {AcceptJob(subject) : subject \in Subjects} \cup {NoJob},
         job' = [job EXCEPT ![r] = job1],
         NEW seen1, IsPartial(seen1, 1..appended, Records),
         seen' = [seen EXCEPT ![r] = seen1],
         NEW stamp1 \in 0..LastInstant, stamp' = [stamp EXCEPT ![r] = stamp1],
         NEW draft1 \in Records \cup {NoRecord}, draft' = [draft EXCEPT ![r] = draft1],
         place \in {"date", "append"} => draft1 \in Records /\ Quoted(served, draft1)
  PROVE  HandlerKeeps
<1>1. HandlerTypes /\ StoreTypes
  BY DEF ServiceInv, TypeOK
<1>2. log' = log /\ appended' = appended /\ served' = served /\ reply' = reply
  BY DEF storeVars
<1>3. StoreTypes'
  BY <1>1, <1>2 DEF StoreTypes
<1>4. /\ \A q \in Requests : IsPartial(seen'[q], 1..appended', Records)
      /\ seen' \in [Requests -> {seen'[q] : q \in Requests}]
  BY <1>1, <1>2 DEF HandlerTypes
<1>5. /\ pc' \in [Requests -> {"ready", "date", "append", "clock", "decide", "done"}]
      /\ reply' \in [Requests -> Replies]
      /\ stamp' \in [Requests -> 0..LastInstant]
  BY <1>1, <1>2 DEF HandlerTypes
<1>6. draft' \in [Requests -> Records \cup {NoRecord}]
  BY <1>1 DEF HandlerTypes
<1>7. job' \in [Requests -> WithdrawJobs \cup StatusJobs \cup LayerJobs
                  \cup {AcceptJob(subject) : subject \in Subjects} \cup {NoJob}]
  BY <1>1 DEF HandlerTypes
<1>8. HandlerTypes'
  BY <1>4, <1>5, <1>6, <1>7 DEF HandlerTypes
<1>9. \A q \in Requests :
        IF q = r THEN pc'[q] = place /\ draft'[q] = draft1
        ELSE pc'[q] = pc[q] /\ draft'[q] = draft[q]
  BY <1>1 DEF HandlerTypes
<1>10. DraftsAreQuoted' /\ RecordsQuoteServedText'
  BY <1>2, <1>9 DEF ServiceInv, DraftsAreQuoted, RecordsQuoteServedText
<1> QED
  BY <1>3, <1>8, <1>10 DEF HandlerKeeps

\* Verifying an acceptance refuses it or drafts a quotation of the catalog.
LEMMA AcceptVerifyKeeps ==
  ASSUME ServiceInv, NEW r \in Requests, NEW subject \in Subjects,
         NEW quote \in Quotes, AcceptVerify(r, subject, quote)
  PROVE  HandlerKeeps
<1>1. quote \in Acceptances
  BY ServiceAssumption
<1>2. UNCHANGED <<storeVars, served>>
  BY DEF AcceptVerify
<1>3. CASE Refusal(catalog.documents, quote) # "none"
  <2>1. StatusCode(Refusal(catalog.documents, quote)) \in Replies
    BY <1>3 DEF StatusCode, Refusal, Replies
  <2>2. Finish(r, StatusCode(Refusal(catalog.documents, quote)))
    BY <1>3 DEF AcceptVerify
  <2> QED
    BY <1>2, <2>1, <2>2, EndKeeps
<1>4. CASE Refusal(catalog.documents, quote) = "none"
  <2> DEFINE record == AcceptanceRecord(catalog.documents, quote, subject, "api", 0)
             request == AcceptJob(subject)
  <2>1. /\ pc' = [pc EXCEPT ![r] = "date"]
        /\ job' = [job EXCEPT ![r] = request]
        /\ draft' = [draft EXCEPT ![r] = record]
        /\ UNCHANGED <<seen, stamp, reply>>
    BY <1>4 DEF AcceptVerify
  <2>2. catalog.documents \in Built /\ catalog.documents \in served
    BY DEF ServiceInv, ServedWereBuilt
  <2>3. "api" \in Channels /\ 0 \in Instants
    BY ClockInRange DEF Channels
  <2>4. /\ record \in Records
        /\ record.slug = quote.slug
        /\ Consentable(catalog.documents, record.slug)
        /\ record.version = catalog.documents[quote.slug].policy.version
        /\ record.locale \in DOMAIN catalog.documents[quote.slug].bodies
        /\ record.digest = catalog.documents[quote.slug].bodies[record.locale]
        /\ record.kind = KindFor(catalog.documents[quote.slug].policy.requirement)
    BY <1>1, <1>4, <2>2, <2>3, AcceptanceIsQuoted
  <2> HIDE DEF record
  <2>5. Quoted(served, record)
    BY <2>2, <2>4 DEF Quoted
  <2>6. request \in {AcceptJob(other) : other \in Subjects}
    OBVIOUS
  <2> HIDE DEF request
  <2>7. /\ seen' = [seen EXCEPT ![r] = seen[r]]
        /\ stamp' = [stamp EXCEPT ![r] = stamp[r]]
        /\ IsPartial(seen[r], 1..appended, Records)
        /\ stamp[r] \in 0..LastInstant
    BY <2>1 DEF ServiceInv, TypeOK, HandlerTypes
  <2> QED
    BY <1>2, <2>1, <2>4, <2>5, <2>6, <2>7, MoveKeeps
<1> QED
  BY <1>3, <1>4

\* Dating a draft changes nothing that it quotes.
LEMMA AcceptDateKeeps ==
  ASSUME ServiceInv, NEW r \in Requests, AcceptDate(r)
  PROVE  HandlerKeeps
<1> DEFINE record == [draft[r] EXCEPT !.at = now]
<1>1. draft[r] \in Records /\ Quoted(served, draft[r])
  BY DEF ServiceInv, DraftsAreQuoted, AcceptDate
<1>2. now \in Instants
  BY ClockInRange DEF ServiceInv, TypeOK
<1>3. /\ record \in Records
      /\ record.slug = draft[r].slug
      /\ record.version = draft[r].version
      /\ record.locale = draft[r].locale
      /\ record.digest = draft[r].digest
      /\ record.kind = draft[r].kind
  BY <1>1, <1>2 DEF Records
<1>4. pc' = [pc EXCEPT ![r] = "append"] /\ draft' = [draft EXCEPT ![r] = record]
  BY DEF AcceptDate
<1> HIDE DEF record
<1>5. Quoted(served, record)
  BY <1>1, <1>3 DEF Quoted
<1>6. /\ UNCHANGED <<storeVars, reply, served>>
      /\ UNCHANGED <<job, seen, stamp>>
  BY DEF AcceptDate
<1>7. /\ job' = [job EXCEPT ![r] = job[r]]
      /\ seen' = [seen EXCEPT ![r] = seen[r]]
      /\ stamp' = [stamp EXCEPT ![r] = stamp[r]]
      /\ IsPartial(seen[r], 1..appended, Records)
      /\ stamp[r] \in 0..LastInstant
      /\ job[r] \in WithdrawJobs \cup StatusJobs \cup LayerJobs
                      \cup {AcceptJob(subject) : subject \in Subjects} \cup {NoJob}
  BY <1>6 DEF ServiceInv, TypeOK, HandlerTypes
<1> QED
  BY <1>3, <1>4, <1>5, <1>6, <1>7, MoveKeeps

\* An append stores the draft, or nothing, whatever its answer says.
LEMMA AppendDraftKeeps ==
  ASSUME ServiceInv, NEW r \in Requests, AppendDraft(r)
  PROVE  HandlerKeeps
<1>1. PICK answer \in {"204", "500"} :
        /\ Finish(r, answer)
        /\ AppendRecord(draft[r]) \/ UNCHANGED storeVars
  BY DEF AppendDraft, AppendOutcome
<1>2. answer \in Replies /\ served' = served
  BY DEF Replies, AppendDraft
<1>3. CASE UNCHANGED storeVars
  BY <1>1, <1>2, <1>3, EndKeeps
<1>4. CASE AppendRecord(draft[r])
  <2>1. draft[r] \in Records /\ Quoted(served, draft[r])
    BY DEF ServiceInv, DraftsAreQuoted, AppendDraft
  <2>2. HandlerTypes /\ StoreTypes /\ appended \in Nat
    BY DEF ServiceInv, TypeOK, StoreTypes
  <2>3. /\ StoreTypes'
        /\ appended' \in Nat /\ appended <= appended'
        /\ \A i \in DOMAIN log' :
             log'[i] = draft[r] \/ (i \in DOMAIN log /\ log'[i] = log[i])
    BY <1>4, <2>1, <2>2, AppendKeepsRecords
  <2>4. /\ HandlerTypes'
        /\ \A q \in Requests :
             IF q = r THEN pc'[q] = "done" ELSE pc'[q] = pc[q] /\ draft'[q] = draft[q]
    BY <1>1, <1>2, <2>2, <2>3, FinishTypes, ClockInRange
  <2>5. RecordsQuoteServedText'
    BY <1>2, <2>1, <2>3 DEF ServiceInv, RecordsQuoteServedText
  <2>6. DraftsAreQuoted'
    BY <1>2, <2>4 DEF ServiceInv, DraftsAreQuoted
  <2> QED
    BY <2>3, <2>4, <2>5, <2>6 DEF HandlerKeeps
<1> QED
  BY <1>1, <1>3, <1>4

\* Reading the store keeps a part of it.
LEMMA ReadLatestKeeps ==
  ASSUME ServiceInv, NEW r \in Requests,
         NEW request \in WithdrawJobs \cup StatusJobs \cup LayerJobs, ReadLatest(r, request)
  PROVE  HandlerKeeps
<1> DEFINE answer == Latest(log, request.subject)
<1>1. IsPartial(answer, 1..appended, Records)
  BY PartsOfTheStore DEF ServiceInv, TypeOK, StoreTypes
<1>2. seen' = [seen EXCEPT ![r] = answer]
  BY DEF ReadLatest
<1> HIDE DEF answer
<1>3. /\ pc' = [pc EXCEPT ![r] = "clock"]
      /\ job' = [job EXCEPT ![r] = request]
      /\ UNCHANGED <<storeVars, reply, served>>
      /\ UNCHANGED <<stamp, draft>>
  BY DEF ReadLatest
<1>4. /\ stamp' = [stamp EXCEPT ![r] = stamp[r]]
      /\ draft' = [draft EXCEPT ![r] = draft[r]]
      /\ stamp[r] \in 0..LastInstant
      /\ draft[r] \in Records \cup {NoRecord}
  BY <1>3 DEF ServiceInv, TypeOK, HandlerTypes
<1> QED
  BY <1>1, <1>2, <1>3, <1>4, MoveKeeps

\* Reading the clock changes neither the store nor a draft.
LEMMA ReadClockKeeps ==
  ASSUME ServiceInv, NEW r \in Requests, ReadClock(r)
  PROVE  HandlerKeeps
<1>1. /\ pc' = [pc EXCEPT ![r] = "decide"]
      /\ stamp' = [stamp EXCEPT ![r] = now]
      /\ UNCHANGED <<storeVars, reply, served>>
      /\ UNCHANGED <<job, seen, draft>>
  BY DEF ReadClock
<1>2. /\ job' = [job EXCEPT ![r] = job[r]]
      /\ seen' = [seen EXCEPT ![r] = seen[r]]
      /\ draft' = [draft EXCEPT ![r] = draft[r]]
      /\ IsPartial(seen[r], 1..appended, Records)
      /\ draft[r] \in Records \cup {NoRecord}
      /\ now \in 0..LastInstant
      /\ job[r] \in WithdrawJobs \cup StatusJobs \cup LayerJobs
                      \cup {AcceptJob(subject) : subject \in Subjects} \cup {NoJob}
  BY <1>1 DEF ServiceInv, TypeOK, HandlerTypes
<1> QED
  BY <1>1, <1>2, MoveKeeps

\* A withdrawal is refused, or drafts a quotation of the catalog.
LEMMA WithdrawBuildKeeps ==
  ASSUME ServiceInv, NEW r \in Requests, WithdrawBuild(r)
  PROVE  HandlerKeeps
<1>1. UNCHANGED <<storeVars, served>>
  BY DEF WithdrawBuild
<1>2. CASE ~ Consentable(catalog.documents, job[r].slug)
  <2>1. Finish(r, "404") /\ "404" \in Replies
    BY <1>2 DEF WithdrawBuild, Replies
  <2> QED
    BY <1>1, <2>1, EndKeeps
<1>3. CASE Consentable(catalog.documents, job[r].slug)
  <2> DEFINE document == catalog.documents[job[r].slug]
             record == WithdrawalRecord(catalog.documents, job[r].slug, job[r].subject,
                                        seen[r], stamp[r])
  <2>1. /\ pc' = [pc EXCEPT ![r] = "append"]
        /\ draft' = [draft EXCEPT ![r] = record]
        /\ UNCHANGED <<job, seen, stamp, reply>>
    BY <1>3 DEF WithdrawBuild
  <2>2. catalog.documents \in Built /\ catalog.documents \in served
    BY DEF ServiceInv, ServedWereBuilt
  <2>3. /\ job[r] \in WithdrawJobs \cup StatusJobs \cup LayerJobs
                      \cup {AcceptJob(subject) : subject \in Subjects} \cup {NoJob}
        /\ stamp[r] \in 0..LastInstant
        /\ IsPartial(seen[r], 1..appended, Records)
        /\ job' = [job EXCEPT ![r] = job[r]]
        /\ seen' = [seen EXCEPT ![r] = seen[r]]
        /\ stamp' = [stamp EXCEPT ![r] = stamp[r]]
    BY <2>1 DEF ServiceInv, TypeOK, HandlerTypes
  <2>4. job[r].subject \in Subjects
    <3>1. job[r].op = "withdraw"
      BY DEF WithdrawBuild
    <3>2. job[r] \in WithdrawJobs
      BY <2>3, <3>1 DEF StatusJobs, LayerJobs, AcceptJob, NoJob
    <3> QED
      BY <3>2 DEF WithdrawJobs
  <2>5. stamp[r] \in Instants
    BY <2>3, ClockInRange
  <2>6. /\ record \in Records
        /\ record.slug = job[r].slug
        /\ record.version = document.policy.version
        /\ record.locale \in DOMAIN document.bodies
        /\ record.digest = document.bodies[record.locale]
        /\ record.kind = "withdrawn"
    BY <1>3, <2>2, <2>4, <2>5, WithdrawalIsQuoted
  <2> HIDE DEF record
  <2>7. Quoted(served, record)
    BY <1>3, <2>2, <2>6 DEF Quoted
  <2> QED
    BY <1>1, <2>1, <2>3, <2>6, <2>7, MoveKeeps
<1> QED
  BY <1>2, <1>3

\* Every step of a handler.
LEMMA HandleKeeps ==
  ASSUME ServiceInv, NEW r \in Requests, Handle(r)
  PROVE  HandlerKeeps /\ UNCHANGED <<catalog, now, served>>
<1>1. UNCHANGED <<catalog, now, served>>
  BY DEF Handle, AcceptVerify, AcceptDate, AppendDraft, ReadLatest, LatestFails,
         PassExempt, ReadClock, WithdrawBuild, StatusAnswer, LayerDecide
<1>2. ASSUME NEW subject \in Subjects, NEW quote \in Quotes,
             AcceptVerify(r, subject, quote)
      PROVE  HandlerKeeps
  BY <1>2, AcceptVerifyKeeps
<1>3. ASSUME NEW request \in WithdrawJobs \cup StatusJobs \cup LayerJobs,
             ReadLatest(r, request)
      PROVE  HandlerKeeps
  BY <1>3, ReadLatestKeeps
<1>4. CASE LatestFails(r)
  <2>1. Finish(r, "500") /\ "500" \in Replies /\ UNCHANGED <<storeVars, served>>
    BY <1>4 DEF LatestFails, Replies
  <2> QED
    BY <1>1, <2>1, EndKeeps
<1>5. ASSUME NEW path \in Paths, PassExempt(r, path)
      PROVE  HandlerKeeps
  <2>1. Finish(r, "inner") /\ "inner" \in Replies /\ UNCHANGED <<storeVars, served>>
    BY <1>5 DEF PassExempt, Replies
  <2> QED
    BY <2>1, EndKeeps
<1>6. CASE StatusAnswer(r)
  <2> DEFINE answer == IF Blocked(r) THEN "200-blocked" ELSE "200-clear"
  <2>1. answer \in Replies
    BY DEF Replies
  <2>2. Finish(r, answer) /\ UNCHANGED <<storeVars, served>>
    BY <1>6 DEF StatusAnswer
  <2> HIDE DEF answer
  <2> QED
    BY <1>1, <2>1, <2>2, EndKeeps
<1>7. CASE LayerDecide(r)
  <2> DEFINE answer == IF Blocked(r) THEN "403" ELSE "inner"
  <2>1. answer \in Replies
    BY DEF Replies
  <2>2. Finish(r, answer) /\ UNCHANGED <<storeVars, served>>
    BY <1>7 DEF LayerDecide
  <2> HIDE DEF answer
  <2> QED
    BY <1>1, <2>1, <2>2, EndKeeps
<1> QED
  BY <1>1, <1>2, <1>3, <1>4, <1>5, <1>6, <1>7, AcceptDateKeeps, AppendDraftKeeps, ReadClockKeeps,
     WithdrawBuildKeeps DEF Handle

\* The observer stays within its types.
LEMMA ObserveTypes ==
  ASSUME ServiceInv, Observe
  PROVE  watch' \in [Requests -> [since : 0..LastInstant,
                                 owed : SUBSET (Slugs \X Versions),
                                 settled : SUBSET (Slugs \X Versions)]]
<1> DEFINE Pairs == SUBSET (Slugs \X Versions)
           Watches == [since : 0..LastInstant, owed : Pairs, settled : Pairs]
           Owing(r) == Owed(catalog.documents, log, job'[r].subject, now)
           Settling(r) == Settled(log, job'[r].subject)
           StillOwing(r) ==
             watch[r].owed \cap Owed(catalog'.documents, log', job'[r].subject, watch[r].since)
           StillSettling(r) == watch[r].settled \cap Settled(log', job'[r].subject)
<1>1. now \in 0..LastInstant /\ \A r \in Requests : watch[r] \in Watches
  BY DEF ServiceInv, TypeOK, ObserverTypes
<1>2. \A r \in Requests :
        /\ Owing(r) \in Pairs /\ Settling(r) \in Pairs
        /\ StillOwing(r) \in Pairs /\ StillSettling(r) \in Pairs
  <2>1. \A r \in Requests : Owing(r) \in Pairs /\ Settling(r) \in Pairs
    BY DEF Owed, Settled
  <2>2. \A r \in Requests : watch[r].owed \in Pairs /\ watch[r].settled \in Pairs
    BY <1>1
  <2> QED
    BY <2>1, <2>2
<1>3. NoWatch \in Watches
  BY ClockInRange DEF NoWatch
<1>4. /\ watch' = [r \in Requests |-> watch'[r]]
      /\ \A r \in Requests :
           watch'[r] = IF ~ Awaits(pc'[r], job'[r]) THEN NoWatch
                       ELSE IF ~ Awaits(pc[r], job[r])
                       THEN [since |-> now, owed |-> Owing(r), settled |-> Settling(r)]
                       ELSE [watch[r] EXCEPT !.owed = StillOwing(r),
                                             !.settled = StillSettling(r)]
  BY Zenon DEF Observe
<1> HIDE DEF Owing, Settling, StillOwing, StillSettling
<1>5. ASSUME NEW r \in Requests
      PROVE  watch'[r] \in Watches
  <2>1. [since |-> now, owed |-> Owing(r), settled |-> Settling(r)] \in Watches
    BY <1>1, <1>2
  <2>2. [watch[r] EXCEPT !.owed = StillOwing(r), !.settled = StillSettling(r)] \in Watches
    BY <1>1, <1>2
  <2> QED
    BY <1>3, <1>4, <2>1, <2>2
<1> QED
  BY <1>4, <1>5

\* Every step keeps the invariant: a replacement only adds a catalog to those
\* that a record may quote, and an erasure only takes records away.
LEMMA NextServiceInv == ServiceInv /\ [Next]_vars => ServiceInv'
<1> SUFFICES ASSUME ServiceInv, [Next]_vars PROVE ServiceInv'
  OBVIOUS
<1>1. CASE Next
  <2>1. watch' \in [Requests -> [since : 0..LastInstant,
                                owed : SUBSET (Slugs \X Versions),
                                settled : SUBSET (Slugs \X Versions)]]
    BY <1>1, ObserveTypes DEF Next
  <2>2. ASSUME NEW r \in Requests, Handle(r)
        PROVE  ServiceInv'
    <3>1. HandlerKeeps /\ UNCHANGED <<catalog, now, served>>
      BY <2>2, HandleKeeps
    <3>2. IsServed(catalog)' /\ ServedWereBuilt' /\ ObserverTypes' /\ (now \in 0..LastInstant)'
      BY <2>1, <3>1 DEF ServiceInv, TypeOK, IsServed, ServedWereBuilt, ObserverTypes
    <3> QED
      BY <3>1, <3>2 DEF ServiceInv, TypeOK, HandlerKeeps
  <2>3. ASSUME NEW documents \in Built, Replace(documents)
        PROVE  ServiceInv'
    <3>1. /\ catalog' = [generation |-> (catalog.generation + 1) % GenerationModulus,
                         documents |-> documents]
          /\ served' = served \cup {documents}
          /\ UNCHANGED <<log, appended, now, job, pc, seen, stamp, draft, reply>>
      BY <2>3 DEF Replace, Register!Publish, storeVars, handlerVars
    <3>2. IsCatalog(documents)
      BY BuiltIsWellFormed
    <3>3. IsServed(catalog)'
      <4>1. catalog.generation \in Nat /\ GenerationModulus \in Nat \ {0}
        BY ServedAssumption DEF ServiceInv, TypeOK, IsServed
      <4> QED
        BY <3>1, <3>2, <4>1 DEF IsServed
    <3>4. StoreTypes' /\ HandlerTypes' /\ (now \in 0..LastInstant)'
      BY <3>1 DEF ServiceInv, TypeOK, StoreTypes, HandlerTypes
    <3>5. ObserverTypes'
      BY <2>1, <3>1, <3>2 DEF ServiceInv, TypeOK, ObserverTypes
    <3>6. ServedWereBuilt'
      BY <3>1 DEF ServiceInv, ServedWereBuilt
    <3>7. \A record : Quoted(served, record) => Quoted(served', record)
      BY <3>1 DEF Quoted
    <3>8. DraftsAreQuoted' /\ RecordsQuoteServedText'
      BY <3>1, <3>7 DEF ServiceInv, DraftsAreQuoted, RecordsQuoteServedText
    <3> QED
      BY <3>3, <3>4, <3>5, <3>6, <3>8 DEF ServiceInv, TypeOK
  <2>4. ASSUME NEW subject \in Subjects, Erase(subject)
        PROVE  ServiceInv'
    <3>1. /\ log' = Erased(log, subject)
          /\ UNCHANGED <<catalog, appended, now, served>>
          /\ UNCHANGED <<job, pc, seen, stamp, draft, reply>>
      BY <2>4 DEF Erase, handlerVars
    <3>2. /\ IsPartial(log', 1..appended, Records)
          /\ \A i \in DOMAIN log' : i \in DOMAIN log /\ log'[i] = log[i]
      BY <3>1, PartsOfTheStore DEF ServiceInv, TypeOK, StoreTypes
    <3>3. StoreTypes' /\ HandlerTypes' /\ (now \in 0..LastInstant)'
      BY <3>1, <3>2 DEF ServiceInv, TypeOK, StoreTypes, HandlerTypes
    <3>4. IsServed(catalog)' /\ ObserverTypes' /\ ServedWereBuilt'
      BY <2>1, <3>1 DEF ServiceInv, TypeOK, IsServed, ObserverTypes, ServedWereBuilt
    <3>5. DraftsAreQuoted' /\ RecordsQuoteServedText'
      BY <3>1, <3>2 DEF ServiceInv, DraftsAreQuoted, RecordsQuoteServedText
    <3> QED
      BY <3>3, <3>4, <3>5 DEF ServiceInv, TypeOK
  <2>5. CASE Tick
    <3>1. /\ now' = now + 1 /\ now < LastInstant
          /\ UNCHANGED <<catalog, log, appended, served>>
          /\ UNCHANGED <<job, pc, seen, stamp, draft, reply>>
      BY <2>5 DEF Tick, storeVars, handlerVars
    <3>2. (now \in 0..LastInstant)'
      BY <3>1, ClockInRange DEF ServiceInv, TypeOK
    <3>3. StoreTypes' /\ HandlerTypes'
      BY <3>1 DEF ServiceInv, TypeOK, StoreTypes, HandlerTypes
    <3>4. IsServed(catalog)' /\ ObserverTypes' /\ ServedWereBuilt'
      BY <2>1, <3>1 DEF ServiceInv, TypeOK, IsServed, ObserverTypes, ServedWereBuilt
    <3>5. DraftsAreQuoted' /\ RecordsQuoteServedText'
      BY <3>1 DEF ServiceInv, DraftsAreQuoted, RecordsQuoteServedText
    <3> QED
      BY <3>2, <3>3, <3>4, <3>5 DEF ServiceInv, TypeOK
  <2> QED
    BY <1>1, <2>2, <2>3, <2>4, <2>5 DEF Next
<1>2. CASE UNCHANGED vars
  BY <1>2 DEF vars, storeVars, handlerVars, ServiceInv, TypeOK, IsServed, StoreTypes,
              HandlerTypes, ObserverTypes, ServedWereBuilt, DraftsAreQuoted,
              RecordsQuoteServedText
<1> QED
  BY <1>1, <1>2

\* The invariant holds always.
LEMMA ServiceInvariant == Spec => []ServiceInv
BY InitServiceInv, NextServiceInv, PTL DEF Spec

\* For any number of requests, subjects and documents, the store, the handlers
\* and the observer stay within their types.
THEOREM ServiceTypeCorrect == Spec => []TypeOK
<1>1. ServiceInv => TypeOK
  BY DEF ServiceInv
<1> QED
  BY <1>1, ServiceInvariant, PTL

\* However many requests overlap, and however often the catalog is replaced
\* between the check of an acceptance or a withdrawal and its append, a stored
\* record names a revision, a text and a requirement that one catalog served
\* together.
THEOREM StoredRecordsAreQuoted == Spec => []RecordsQuoteServedText
<1>1. ServiceInv => RecordsQuoteServedText
  BY DEF ServiceInv
<1> QED
  BY <1>1, ServiceInvariant, PTL

------------------------------------------------------------------------------
(***************************************************************************)
(* What is decided.  The layer and the status route read the store, the    *)
(* clock and the catalog at three moments, and still neither lose a block  *)
(* nor make one up.                                                        *)
(***************************************************************************)
\* A slice holds an acceptance of the revision p[2] of p[1].
Says(slice, p) ==
  \E i \in DOMAIN slice :
    slice[i].slug = p[1] /\ slice[i].kind = "accepted" /\ slice[i].version = p[2]

(***************************************************************************)
(* What is known while a request awaits its decision: what was owed all    *)
(* along is asked for by the catalog of this moment, was overdue when the  *)
(* store answered, and is not accepted in the answer; what was settled all *)
(* along is accepted in it; and the answer has one record per document.    *)
(***************************************************************************)
AwaitsWell(r) ==
  /\ watch[r].since <= now
  /\ pc[r] = "decide" => watch[r].since <= stamp[r]
  /\ \A p \in watch[r].owed :
       /\ Insists(catalog.documents, p[1], p[2])
       /\ GraceOver(catalog.documents[p[1]].policy, watch[r].since)
       /\ ~ Says(seen[r], p)
  /\ \A p \in watch[r].settled : Says(seen[r], p)
  /\ \A i, j \in DOMAIN seen[r] : seen[r][i].slug = seen[r][j].slug => i = j

DecisionInv == \A r \in Requests : Awaits(pc[r], job[r]) => AwaitsWell(r)

\* The store's answer says what AcceptedIn does, and has one record per document.
LEMMA LatestAnswers ==
  ASSUME StoreTypes, NEW subject
  PROVE  /\ \A slug, version :
              AcceptedIn(log, subject, slug, version)
                <=> Says(Latest(log, subject), <<slug, version>>)
         /\ \A i, j \in DOMAIN Latest(log, subject) :
              Latest(log, subject)[i].slug = Latest(log, subject)[j].slug => i = j
<1> DEFINE answer == Latest(log, subject)
<1>1. /\ DOMAIN answer \subseteq DOMAIN log
      /\ \A i \in DOMAIN answer :
           /\ answer[i] = log[i]
           /\ log[i].subject = subject
           /\ \A k \in DOMAIN log :
                log[k].subject = subject /\ log[k].slug = log[i].slug => k <= i
  BY DEF Latest
<1>2. DOMAIN log \subseteq Nat
  BY DEF StoreTypes, IsPartial
<1> HIDE DEF answer
<1>3. \A i, j \in DOMAIN answer : answer[i].slug = answer[j].slug => i = j
  <2> SUFFICES ASSUME NEW i \in DOMAIN answer, NEW j \in DOMAIN answer,
                      answer[i].slug = answer[j].slug
               PROVE  i = j
    OBVIOUS
  <2>1. i <= j /\ j <= i
    BY <1>1
  <2>2. i \in Nat /\ j \in Nat
    BY <1>1, <1>2
  <2> QED
    BY <2>1, <2>2
<1>4. ASSUME NEW slug, NEW version
      PROVE  AcceptedIn(log, subject, slug, version) <=> Says(answer, <<slug, version>>)
  BY <1>1 DEF AcceptedIn, Says, answer
<1> QED
  BY <1>3, <1>4 DEF answer

\* A request that takes no part in a step stays as it is, and time goes on.
LEMMA StepOfOne ==
  ASSUME ServiceInv, Next, NEW r \in Requests
  PROVE  \/ /\ pc'[r] = pc[r] /\ job'[r] = job[r]
            /\ seen'[r] = seen[r] /\ stamp'[r] = stamp[r]
            /\ now <= now'
         \/ Handle(r) /\ UNCHANGED <<catalog, now>>
<1>1. HandlerTypes /\ now \in Nat
  BY ClockInRange DEF ServiceInv, TypeOK
<1>2. ASSUME NEW q \in Requests, Handle(q), q # r
      PROVE  /\ pc'[r] = pc[r] /\ job'[r] = job[r]
             /\ seen'[r] = seen[r] /\ stamp'[r] = stamp[r]
             /\ now' = now
  <2>1. now' = now
    BY <1>2, HandleKeeps
  <2>2. ASSUME NEW answer, Finish(q, answer)
        PROVE  /\ pc'[r] = pc[r] /\ job'[r] = job[r]
               /\ seen'[r] = seen[r] /\ stamp'[r] = stamp[r]
    BY <1>1, <1>2, <2>2 DEF Finish, HandlerTypes
  <2>3. CASE \E answer : Finish(q, answer)
    BY <2>1, <2>2, <2>3
  <2>4. CASE ~ \E answer : Finish(q, answer)
    BY <1>1, <1>2, <2>1, <2>4
       DEF HandlerTypes, Handle, AcceptVerify, AcceptDate, AppendDraft, ReadLatest,
           LatestFails, PassExempt, ReadClock, WithdrawBuild, StatusAnswer, LayerDecide
  <2> QED
    BY <2>3, <2>4
<1>3. ASSUME NEW documents \in Built, Replace(documents)
      PROVE  UNCHANGED <<pc, job, seen, stamp, now>>
  BY <1>3 DEF Replace, handlerVars
<1>4. ASSUME NEW subject \in Subjects, Erase(subject)
      PROVE  UNCHANGED <<pc, job, seen, stamp, now>>
  BY <1>4 DEF Erase, handlerVars
<1>5. CASE Tick
  BY <1>1, <1>5 DEF Tick, handlerVars
<1>6. ASSUME Handle(r)
      PROVE  UNCHANGED <<catalog, now>>
  BY <1>6, HandleKeeps
<1> QED
  BY <1>1, <1>2, <1>3, <1>4, <1>5, <1>6 DEF Next

\* A request comes to await its decision by reading the store, and goes on
\* awaiting it by reading the clock.
LEMMA StepOfAwaiting ==
  ASSUME ServiceInv, NEW r \in Requests, Handle(r), Awaits(pc'[r], job'[r])
  PROVE  \/ /\ pc[r] = "ready" /\ pc'[r] = "clock"
            /\ seen'[r] = Latest(log, job'[r].subject)
            /\ log' = log
         \/ /\ pc[r] = "clock" /\ pc'[r] = "decide"
            /\ job'[r] = job[r] /\ seen'[r] = seen[r] /\ stamp'[r] = now
<1>1. HandlerTypes
  BY DEF ServiceInv, TypeOK
<1>2. pc'[r] \in {"clock", "decide"}
  BY DEF Awaits
<1>3. ASSUME NEW answer, Finish(r, answer)
      PROVE  FALSE
  BY <1>1, <1>2, <1>3 DEF Finish, HandlerTypes
<1>4. ASSUME NEW request, ReadLatest(r, request)
      PROVE  /\ pc[r] = "ready" /\ pc'[r] = "clock"
             /\ seen'[r] = Latest(log, job'[r].subject)
             /\ log' = log
  BY <1>1, <1>4 DEF ReadLatest, HandlerTypes, storeVars
<1>5. CASE ReadClock(r)
  BY <1>1, <1>5 DEF ReadClock, HandlerTypes
<1>6. CASE AcceptDate(r)
  BY <1>1, <1>2, <1>6 DEF AcceptDate, HandlerTypes
<1>7. ASSUME NEW subject, NEW quote, AcceptVerify(r, subject, quote)
      PROVE  FALSE
  BY <1>1, <1>2, <1>3, <1>7 DEF AcceptVerify, HandlerTypes
<1>8. CASE WithdrawBuild(r)
  BY <1>1, <1>2, <1>3, <1>8 DEF WithdrawBuild, HandlerTypes
<1>9. CASE AppendDraft(r)
  BY <1>3, <1>9 DEF AppendDraft
<1>10. CASE LatestFails(r) \/ StatusAnswer(r) \/ LayerDecide(r)
  BY <1>3, <1>10 DEF LatestFails, StatusAnswer, LayerDecide
<1>11. ASSUME NEW path, PassExempt(r, path)
       PROVE  FALSE
  BY <1>3, <1>11 DEF PassExempt
<1> QED
  BY <1>4, <1>5, <1>6, <1>7, <1>8, <1>9, <1>10, <1>11 DEF Handle

\* The grace period that was over stays over.
LEMMA GraceStaysOver ==
  ASSUME NEW documents \in Built, NEW slug \in DOMAIN documents,
         NEW since \in Nat, NEW later \in Nat, since <= later,
         GraceOver(documents[slug].policy, since)
  PROVE  GraceOver(documents[slug].policy, later)
<1>1. IsPolicy(documents[slug].policy)
  BY BuiltIsWellFormed DEF IsCatalog, IsDocument
<1>2. /\ documents[slug].policy.effective \in Dates \cup {NoDate}
      /\ documents[slug].policy.grace_days \in 0..365
  BY <1>1 DEF IsPolicy
<1> QED
  BY <1>2, CatalogAssumption DEF GraceOver, Dates, NoDate

\* Nothing is awaited at first.
LEMMA InitDecisionInv == Init => DecisionInv
BY DEF Init, DecisionInv, Awaits

\* The observer keeps what is owed and settled in step with the catalog and the
\* store, and a request reads each of them once.
LEMMA NextDecisionInv == ServiceInv /\ DecisionInv /\ [Next]_vars => DecisionInv'
<1> SUFFICES ASSUME ServiceInv, DecisionInv, [Next]_vars PROVE DecisionInv'
  OBVIOUS
<1>1. CASE UNCHANGED vars
  BY <1>1 DEF vars, storeVars, handlerVars, DecisionInv, Awaits, AwaitsWell
<1>2. CASE Next
  <2> SUFFICES ASSUME NEW r \in Requests, Awaits(pc'[r], job'[r])
               PROVE  AwaitsWell(r)'
    BY DEF DecisionInv
  <2> DEFINE subject == job'[r].subject
  <2>1. /\ now \in Nat
        /\ StoreTypes
        /\ watch[r].since \in Nat
        /\ watch \in [Requests -> [since : 0..LastInstant,
                                   owed : SUBSET (Slugs \X Versions),
                                   settled : SUBSET (Slugs \X Versions)]]
    BY ClockInRange DEF ServiceInv, TypeOK, ObserverTypes
  <2>2. watch'[r] =
          IF ~ Awaits(pc[r], job[r])
          THEN [since |-> now,
                owed |-> Owed(catalog.documents, log, subject, now),
                settled |-> Settled(log, subject)]
          ELSE [watch[r] EXCEPT
                  !.owed = @ \cap Owed(catalog'.documents, log', subject, watch[r].since),
                  !.settled = @ \cap Settled(log', subject)]
    BY <1>2 DEF Next, Observe
  <2>3. CASE ~ Awaits(pc[r], job[r])
    <3>1. /\ pc'[r] = "clock"
          /\ seen'[r] = Latest(log, subject)
          /\ UNCHANGED <<catalog, now>>
      <4>1. Handle(r) /\ UNCHANGED <<catalog, now>>
        BY <1>2, <2>3, StepOfOne
      <4>2. ~ (pc[r] = "clock" /\ job'[r] = job[r])
        BY <2>3 DEF Awaits
      <4> QED
        BY <4>1, <4>2, StepOfAwaiting
    <3>2. /\ watch'[r].since = now
          /\ watch'[r].owed = Owed(catalog.documents, log, subject, now)
          /\ watch'[r].settled = Settled(log, subject)
      BY <2>2, <2>3
    <3>3. /\ \A p \in watch'[r].owed :
               /\ Insists(catalog.documents, p[1], p[2])
               /\ GraceOver(catalog.documents[p[1]].policy, now)
               /\ ~ AcceptedIn(log, subject, p[1], p[2])
               /\ p = <<p[1], p[2]>>
          /\ \A p \in watch'[r].settled :
               AcceptedIn(log, subject, p[1], p[2]) /\ p = <<p[1], p[2]>>
      BY <3>2 DEF Owed, Settled
    <3>4. /\ \A p \in watch'[r].owed : ~ Says(seen'[r], p)
          /\ \A p \in watch'[r].settled : Says(seen'[r], p)
          /\ \A i, j \in DOMAIN seen'[r] : seen'[r][i].slug = seen'[r][j].slug => i = j
      BY <2>1, <3>1, <3>3, LatestAnswers
    <3> QED
      BY <2>1, <3>1, <3>2, <3>3, <3>4 DEF AwaitsWell
  <2>4. CASE Awaits(pc[r], job[r])
    <3>1. AwaitsWell(r)
      BY <2>4 DEF DecisionInv
    <3>2. /\ seen'[r] = seen[r]
          /\ now <= now'
          /\ \/ pc'[r] = pc[r] /\ stamp'[r] = stamp[r]
             \/ stamp'[r] = now
      <4>1. CASE Handle(r) /\ UNCHANGED <<catalog, now>>
        <5>1. pc[r] # "ready"
          BY <2>4 DEF Awaits
        <5> QED
          BY <2>1, <4>1, <5>1, StepOfAwaiting
      <4> QED
        BY <1>2, <4>1, StepOfOne
    <3>3. /\ watch'[r].since = watch[r].since
          /\ watch'[r].owed =
               watch[r].owed \cap Owed(catalog'.documents, log', subject, watch[r].since)
          /\ watch'[r].settled = watch[r].settled \cap Settled(log', subject)
      BY <2>1, <2>2, <2>4
    <3>4. now' \in Nat
      BY <1>2, NextServiceInv, ClockInRange DEF ServiceInv, TypeOK
    <3>5. /\ watch'[r].since <= now'
          /\ pc'[r] = "decide" => watch'[r].since <= stamp'[r]
      BY <2>1, <3>1, <3>2, <3>3, <3>4 DEF AwaitsWell
    <3>6. \A p \in watch'[r].owed :
            /\ Insists(catalog'.documents, p[1], p[2])
            /\ GraceOver(catalog'.documents[p[1]].policy, watch'[r].since)
            /\ ~ Says(seen'[r], p)
      BY <3>1, <3>2, <3>3 DEF AwaitsWell, Owed
    <3> QED
      BY <3>1, <3>2, <3>3, <3>5, <3>6 DEF AwaitsWell
  <2> QED
    BY <2>3, <2>4
<1> QED
  BY <1>1, <1>2

\* A decision is Blocked as it stands when the answer is given.
LEMMA AnswersAsBlocked ==
  ASSUME ServiceInv, Next, NEW r \in Requests,
         Answers(r, {"inner", "200-clear", "403", "200-blocked"})
  PROVE  /\ Awaits(pc[r], job[r]) /\ pc[r] = "decide"
         /\ reply'[r] \in {"inner", "200-clear"} => ~ Blocked(r)
         /\ reply'[r] \in {"403", "200-blocked"} => Blocked(r)
<1>1. HandlerTypes
  BY DEF ServiceInv, TypeOK
<1>2. /\ pc[r] = "decide" /\ pc'[r] = "done"
      /\ reply'[r] \in {"inner", "200-clear", "403", "200-blocked"}
  BY DEF Answers
<1>3. Handle(r)
  BY <1>2, StepOfOne
<1>4. \A answer : Finish(r, answer) => reply'[r] = answer
  BY <1>1 DEF Finish, HandlerTypes
<1>5. CASE WithdrawBuild(r)
  <2>1. CASE Finish(r, "404")
    BY <1>2, <1>4, <2>1
  <2>2. CASE pc' = [pc EXCEPT ![r] = "append"]
    BY <1>1, <1>2, <2>2 DEF HandlerTypes
  <2> QED
    BY <1>5, <2>1, <2>2 DEF WithdrawBuild
<1>6. CASE StatusAnswer(r)
  <2>1. job[r].op = "status"
    BY <1>6 DEF StatusAnswer
  <2>2. reply'[r] = IF Blocked(r) THEN "200-blocked" ELSE "200-clear"
    BY <1>4, <1>6 DEF StatusAnswer
  <2> QED
    BY <1>2, <2>1, <2>2 DEF Awaits
<1>7. CASE LayerDecide(r)
  <2>1. job[r].op = "layer"
    BY <1>7 DEF LayerDecide
  <2>2. reply'[r] = IF Blocked(r) THEN "403" ELSE "inner"
    BY <1>4, <1>7 DEF LayerDecide
  <2> QED
    BY <1>2, <2>1, <2>2 DEF Awaits
<1> QED
  BY <1>2, <1>3, <1>5, <1>6, <1>7
     DEF Handle, AcceptVerify, AcceptDate, AppendDraft, ReadLatest, LatestFails,
         PassExempt, ReadClock

\* What Blocked says, of the catalog, the store's answer and the clock's.
LEMMA BlockedMeans ==
  ASSUME NEW documents \in Built, NEW latest, NEW instant
  PROVE  IsBlocked(ConsentStatus(documents, latest, instant)) <=>
           \E slug \in DOMAIN documents :
             /\ documents[slug].policy.requirement = "accept"
             /\ GraceOver(documents[slug].policy, instant)
             /\ Outstanding(documents[slug].policy, slug, latest)
<1> DEFINE policies == ConsentPolicies(documents)
           status == Evaluate(policies, latest, instant)
<1>1. /\ DOMAIN policies = {slug \in DOMAIN documents : HasPolicy(documents[slug])}
      /\ \A slug \in DOMAIN policies : policies[slug] = documents[slug].policy
  BY DEF ConsentPolicies
<1> HIDE DEF policies
<1>2. /\ DOMAIN status = {slug \in DOMAIN policies : policies[slug].requirement # "none"}
      /\ \A slug \in DOMAIN status :
           status[slug].blocking = Blocking(policies[slug], slug, latest, instant)
  BY DEF Evaluate
<1> HIDE DEF status
<1>3. ConsentStatus(documents, latest, instant) = status
  BY DEF ConsentStatus, status, policies
<1>4. IsBlocked(status) <=>
        \E slug \in DOMAIN documents :
          /\ documents[slug].policy.requirement # "none"
          /\ Blocking(documents[slug].policy, slug, latest, instant)
  BY <1>1, <1>2 DEF IsBlocked, HasPolicy
<1> QED
  BY <1>3, <1>4 DEF Blocking

\* No step lets a subject pass who owed one overdue revision all along.
LEMMA OwedIsBlocked ==
  ASSUME ServiceInv, DecisionInv, Next, NEW r \in Requests,
         Answers(r, {"inner", "200-clear"}), NEW p \in watch[r].owed
  PROVE  FALSE
<1>1. /\ pc[r] = "decide" /\ AwaitsWell(r) /\ ~ Blocked(r)
  BY AnswersAsBlocked DEF Answers, DecisionInv
<1>2. catalog.documents \in Built
  BY DEF ServiceInv, ServedWereBuilt
<1>3. /\ p[1] \in DOMAIN catalog.documents
      /\ catalog.documents[p[1]].policy.requirement = "accept"
      /\ catalog.documents[p[1]].policy.version = p[2]
      /\ GraceOver(catalog.documents[p[1]].policy, watch[r].since)
      /\ ~ Says(seen[r], p)
      /\ watch[r].since <= stamp[r]
  BY <1>1 DEF AwaitsWell, Insists
<1>4. watch[r].since \in Nat /\ stamp[r] \in Nat
  BY ClockInRange DEF ServiceInv, TypeOK, HandlerTypes, ObserverTypes
<1>5. GraceOver(catalog.documents[p[1]].policy, stamp[r])
  BY <1>2, <1>3, <1>4, GraceStaysOver
<1>6. Outstanding(catalog.documents[p[1]].policy, p[1], seen[r])
  BY <1>3 DEF Outstanding, Satisfies, Deciding, Says
<1> QED
  BY <1>1, <1>2, <1>3, <1>5, <1>6, BlockedMeans DEF Blocked

\* A block names a revision that was not settled all along.
LEMMA BlockedIsUnsettled ==
  ASSUME ServiceInv, DecisionInv, Next, NEW r \in Requests,
         Answers(r, {"403", "200-blocked"})
  PROVE  \E slug \in Slugs, version \in Versions :
           /\ Insists(catalog.documents, slug, version)
           /\ <<slug, version>> \notin watch[r].settled
<1>1. pc[r] = "decide" /\ AwaitsWell(r) /\ Blocked(r)
  BY AnswersAsBlocked DEF Answers, DecisionInv
<1>2. catalog.documents \in Built
  BY DEF ServiceInv, ServedWereBuilt
<1>3. PICK slug \in DOMAIN catalog.documents :
        /\ catalog.documents[slug].policy.requirement = "accept"
        /\ Outstanding(catalog.documents[slug].policy, slug, seen[r])
  BY <1>1, <1>2, BlockedMeans DEF Blocked
<1> DEFINE policy == catalog.documents[slug].policy
<1>4. IsCatalog(catalog.documents) /\ WellFormed(catalog.documents)
  BY <1>2, BuiltIsWellFormed
<1>5. slug \in Slugs /\ policy.version \in Versions
  BY <1>3, <1>4 DEF IsCatalog, IsPartial, WellFormed, Demonstrable, HasPolicy
<1>6. Insists(catalog.documents, slug, policy.version)
  BY <1>3 DEF Insists
<1>7. ASSUME <<slug, policy.version>> \in watch[r].settled
      PROVE  FALSE
  <2>1. PICK i \in DOMAIN seen[r] :
          /\ seen[r][i].slug = slug
          /\ seen[r][i].kind = "accepted"
          /\ seen[r][i].version = policy.version
    BY <1>1, <1>7 DEF AwaitsWell, Says
  <2>2. \A j \in DOMAIN seen[r] : seen[r][j].slug = slug => j = i
    BY <1>1, <2>1 DEF AwaitsWell
  <2>3. i \in Nat /\ seen[r][i] \in Records
    BY <2>1 DEF ServiceInv, TypeOK, HandlerTypes, IsPartial
  <2>4. ~ Precedes(seen[r][i], seen[r][i])
    BY <2>3, PrecedesIsAnOrder
  <2>5. i \in Deciding(seen[r], slug)
    BY <2>1, <2>2, <2>3, <2>4 DEF Deciding
  <2>6. Satisfies(policy, seen[r][i])
    BY <2>1 DEF Satisfies
  <2> QED
    BY <1>3, <2>5, <2>6 DEF Outstanding
<1> QED
  BY <1>5, <1>6, <1>7

\* The invariant holds always.
LEMMA DecisionInvariant == Spec => [](ServiceInv /\ DecisionInv)
<1>1. Init => ServiceInv /\ DecisionInv
  BY InitServiceInv, InitDecisionInv
<1>2. (ServiceInv /\ DecisionInv) /\ [Next]_vars => (ServiceInv /\ DecisionInv)'
  BY NextServiceInv, NextDecisionInv
<1> QED
  BY <1>1, <1>2, PTL DEF Spec

\* A step that changes nothing answers nothing.
LEMMA AnsweringIsAStep ==
  ASSUME [Next]_vars, NEW r \in Requests, NEW replies, Answers(r, replies)
  PROVE  Next
BY DEF vars, handlerVars, Answers

\* However requests, replacements, erasures and the clock interleave, the layer
\* lets nobody pass who owed the same overdue revision in every state between
\* the store's answer and the decision (RequireConsent::call, status).
THEOREM OwedNeverPasses == Spec => ContinuouslyOwedNeverPasses
<1> DEFINE Passing == \A r \in Requests :
                        Answers(r, {"inner", "200-clear"}) => watch[r].owed = {}
<1>1. (ServiceInv /\ DecisionInv) /\ [Next]_vars => Passing
  BY OwedIsBlocked, AnsweringIsAStep
<1>2. (ServiceInv /\ DecisionInv) /\ [Next]_vars => [Passing]_vars
  BY <1>1
<1> HIDE DEF Passing
<1>3. Spec => [][Passing]_vars
  BY <1>2, DecisionInvariant, PTL DEF Spec
<1> QED
  BY <1>3 DEF ContinuouslyOwedNeverPasses, Passing

\* Nor does it turn anybody away who had accepted, all that while, every
\* revision the deciding catalog insists on.
THEOREM SettledNeverBlocked == Spec => ContinuouslySettledNeverBlocked
<1> DEFINE Turning ==
             \A r \in Requests : Answers(r, {"403", "200-blocked"}) =>
               \E slug \in Slugs, version \in Versions :
                 Insists(catalog.documents, slug, version) /\ <<slug, version>> \notin watch[r].settled
<1>1. (ServiceInv /\ DecisionInv) /\ [Next]_vars => Turning
  BY BlockedIsUnsettled, AnsweringIsAStep
<1>2. (ServiceInv /\ DecisionInv) /\ [Next]_vars => [Turning]_vars
  BY <1>1
<1> HIDE DEF Turning
<1>3. Spec => [][Turning]_vars
  BY <1>2, DecisionInvariant, PTL DEF Spec
<1> QED
  BY <1>3 DEF ContinuouslySettledNeverBlocked, Turning

------------------------------------------------------------------------------
(***************************************************************************)
(* What the store answers is enough.                                       *)
(***************************************************************************)
About(slice, slug) == {i \in DOMAIN slice : slice[i].slug = slug}
Last(S) == {i \in S : \A j \in S : j <= i}

\* Of records appended in the order of their timestamps the last one decides.
LEMMA LastInOrderDecides ==
  ASSUME NEW slice, NEW slug, DOMAIN slice \subseteq Nat,
         \A i \in DOMAIN slice : slice[i] \in Records,
         InClockOrder(slice)
  PROVE  Deciding(slice, slug) = Last(About(slice, slug))
<1> DEFINE about == About(slice, slug)
<1>1. \A i \in about : i \in Nat /\ slice[i] \in Records /\ slice[i].slug = slug
  BY DEF About
<1>2. \A i, j \in about : i < j => slice[i].at < slice[j].at
  BY DEF About, InClockOrder
<1>3. \A i \in about : slice[i].at \in Nat
  BY <1>1, CatalogAssumption DEF Records, Instants
<1>4. Deciding(slice, slug) =
        {i \in about : \A j \in about :
           Precedes(slice[j], slice[i]) \/ (~ Precedes(slice[i], slice[j]) /\ j <= i)}
  BY DEF Deciding, About
<1> HIDE DEF about
<1>5. \A i, j \in about : i < j => Precedes(slice[i], slice[j]) /\ ~ Precedes(slice[j], slice[i])
  BY <1>2, <1>3 DEF Precedes
<1>6. \A i \in about : ~ Precedes(slice[i], slice[i])
  BY <1>1, PrecedesIsAnOrder
<1>7. ASSUME NEW i \in about, NEW j \in about
      PROVE  (Precedes(slice[j], slice[i]) \/ (~ Precedes(slice[i], slice[j]) /\ j <= i)) <=> j <= i
  <2>1. i < j \/ j < i \/ i = j
    BY <1>1
  <2>2. i < j => ~ (j <= i)
    BY <1>1
  <2>3. j < i \/ i = j => j <= i
    BY <1>1
  <2> QED
    BY <1>5, <1>6, <2>1, <2>2, <2>3, Zenon
<1> QED
  BY <1>4, <1>7 DEF Last, about

\* For every subject whose appends kept the order of their clock readings, the last
\* words that the store answers with are judged as the whole history would be
\* (ConsentStore::latest, ConsentStore::history, evaluate).
THEOREM LatestIsEnough == Spec => []HistoryDecidesAsLatest
<1>1. ASSUME ServiceInv PROVE HistoryDecidesAsLatest
  <2> SUFFICES ASSUME NEW subject \in Subjects, InClockOrder(History(log, subject))
               PROVE  ConsentStatus(catalog.documents, History(log, subject), now) =
                        ConsentStatus(catalog.documents, Latest(log, subject), now)
    BY DEF HistoryDecidesAsLatest
  <2> DEFINE whole == History(log, subject)
             last == Latest(log, subject)
  <2>1. DOMAIN log \subseteq Nat /\ \A i \in DOMAIN log : log[i] \in Records
    BY <1>1 DEF ServiceInv, TypeOK, StoreTypes, IsPartial
  <2>2. /\ DOMAIN whole = {i \in DOMAIN log : log[i].subject = subject}
        /\ \A i \in DOMAIN whole : whole[i] = log[i]
    BY DEF History
  <2>3. /\ DOMAIN last = {i \in DOMAIN whole :
                            \A k \in DOMAIN whole : log[k].slug = log[i].slug => k <= i}
        /\ \A i \in DOMAIN last : last[i] = log[i]
    BY <2>2 DEF Latest
  <2> HIDE DEF whole, last
  <2>4. InClockOrder(last)
    BY <2>2, <2>3 DEF InClockOrder, whole
  <2>5. ASSUME NEW slug
        PROVE  /\ Deciding(whole, slug) = Deciding(last, slug)
               /\ \A i \in Deciding(whole, slug) : whole[i] = last[i]
    <3>1. Deciding(whole, slug) = Last(About(whole, slug))
      BY <2>1, <2>2, LastInOrderDecides DEF whole
    <3>2. Deciding(last, slug) = Last(About(last, slug))
      BY <2>1, <2>2, <2>3, <2>4, LastInOrderDecides
    <3>3. About(last, slug) = Last(About(whole, slug))
      BY <2>2, <2>3 DEF About, Last
    <3>4. Last(Last(About(whole, slug))) = Last(About(whole, slug))
      BY DEF Last
    <3> QED
      BY <2>2, <2>3, <3>1, <3>2, <3>3, <3>4 DEF About, Last
  <2>6. Evaluate(ConsentPolicies(catalog.documents), whole, now) =
          Evaluate(ConsentPolicies(catalog.documents), last, now)
    BY <2>5, VerdictOfDeciding DEF Evaluate
  <2> QED
    BY <2>6 DEF ConsentStatus, whole, last
<1> QED
  BY <1>1, DecisionInvariant, PTL
------------------------------------------------------------------------------
(***************************************************************************)
(* The store implements its contract.  What is scanned off the log is, in  *)
(* every state, what the contract has kept since the store was empty.      *)
(***************************************************************************)
LEMMA InitImplementsStore == Init => Contract!InitStore
<1> SUFFICES ASSUME Init PROVE Contract!InitStore
  OBVIOUS
<1>1. log = << >> /\ appended = 0
  BY DEF Init
<1>2. \A subject : History(log, subject) = << >> /\ Latest(log, subject) = << >>
  BY <1>1 DEF History, Latest
<1> QED
  BY <1>1, <1>2 DEF Contract!InitStore, Contract!NoRecords

\* A history is extended at its end: no position of the log is as high as the new
\* one.
LEMMA HistoryGrows ==
  ASSUME StoreTypes, NEW record, AppendRecord(record), NEW subject
  PROVE  History(log', subject) =
           IF subject = record.subject
           THEN Contract!Pushed(History(log, subject), appended', record)
           ELSE History(log, subject)
<1>1. /\ appended \in Nat
      /\ DOMAIN log \subseteq 1..appended
  BY DEF StoreTypes, IsPartial
<1>2. /\ appended' = appended + 1
      /\ log' = [i \in DOMAIN log \cup {appended + 1} |->
                  IF i = appended + 1 THEN record ELSE log[i]]
  BY DEF AppendRecord
<1>3. appended + 1 \notin DOMAIN log
  BY <1>1
<1> QED
  BY <1>2, <1>3 DEF History, Contract!Pushed

\* The new record supersedes the last one of its subject about its document.
LEMMA LatestGrows ==
  ASSUME StoreTypes, NEW record, AppendRecord(record), NEW subject
  PROVE  Latest(log', subject) =
           IF subject = record.subject
           THEN Contract!Pushed(Contract!Retained(Latest(log, subject), record.slug),
                                appended', record)
           ELSE Latest(log, subject)
<1> DEFINE mine == {i \in DOMAIN log : log[i].subject = subject}
           mineNow == {i \in DOMAIN log' : log'[i].subject = subject}
           last == {j \in mine : \A k \in mine : log[k].slug = log[j].slug => k <= j}
           lastNow == {j \in mineNow : \A k \in mineNow :
                         log'[k].slug = log'[j].slug => k <= j}
<1>1. /\ appended \in Nat
      /\ DOMAIN log \subseteq 1..appended
  BY DEF StoreTypes, IsPartial
<1>2. PICK place : place = appended + 1
  OBVIOUS
<1>3. /\ appended' = place
      /\ log' = [i \in DOMAIN log \cup {place} |->
                  IF i = place THEN record ELSE log[i]]
  BY <1>2 DEF AppendRecord
<1>4. place \notin DOMAIN log /\ place <= place /\ \A i \in DOMAIN log : i <= place /\ ~ place <= i
  BY <1>1, <1>2
<1>5. CASE subject = record.subject
  <2>1. mineNow = mine \cup {place}
    BY <1>3, <1>4, <1>5
  <2>2. lastNow = {i \in last : log[i].slug # record.slug} \cup {place}
    BY <1>3, <1>4, <2>1
  <2>3. Latest(log', subject) =
          [i \in {i \in last : log[i].slug # record.slug} \cup {place} |->
             IF i = place THEN record ELSE log[i]]
    BY <1>3, <2>2 DEF Latest
  <2>4. Latest(log, subject) = [i \in last |-> log[i]]
    BY DEF Latest
  <2>5. {j \in DOMAIN Latest(log, subject) : Latest(log, subject)[j].slug # record.slug} =
          {i \in last : log[i].slug # record.slug}
    BY <2>4
  <2> DEFINE kept == {i \in last : log[i].slug # record.slug}
  <2> HIDE DEF kept
  <2>6. Contract!Retained(Latest(log, subject), record.slug) = [i \in kept |-> log[i]]
    <3>1. \A i \in kept : Latest(log, subject)[i] = log[i]
      BY <2>4 DEF kept
    <3> QED
      BY <2>5, <3>1 DEF Contract!Retained, kept
  <2>7. Latest(log', subject) =
          [i \in kept \cup {place} |-> IF i = place THEN record ELSE log[i]]
    BY <2>3 DEF kept
  <2>8. \A i \in kept : i # place
    BY <1>4 DEF kept
  <2> QED
    BY <1>3, <1>5, <2>6, <2>7, <2>8 DEF Contract!Pushed
<1>6. CASE subject # record.subject
  <2>1. mineNow = mine
    BY <1>3, <1>4, <1>6
  <2>2. \A i \in mine : log'[i] = log[i]
    BY <1>3, <1>4
  <2> QED
    BY <1>6, <2>1, <2>2 DEF Latest
<1> QED
  BY <1>5, <1>6

\* An append of the log is one of the contract.
LEMMA AppendImplementsStore ==
  ASSUME StoreTypes, NEW record \in Records, AppendRecord(record)
  PROVE  Contract!AppendOne
<1>1. record.subject \in Subjects
  BY DEF Records
<1>2. appended' = appended + 1
  BY DEF AppendRecord
<1>3. [subject \in Subjects |-> History(log', subject)] =
        [[subject \in Subjects |-> History(log, subject)]
           EXCEPT ![record.subject] = Contract!Pushed(@, appended', record)]
  BY <1>1, HistoryGrows
<1>4. [subject \in Subjects |-> Latest(log', subject)] =
        [[subject \in Subjects |-> Latest(log, subject)]
           EXCEPT ![record.subject] =
             Contract!Pushed(Contract!Retained(@, record.slug), appended', record)]
  BY <1>1, LatestGrows
<1> QED
  BY <1>2, <1>3, <1>4 DEF Contract!AppendOne

\* An erasure empties what is kept of its subject and touches nobody else.
LEMMA EraseImplementsStore ==
  ASSUME NEW subject \in Subjects, Erase(subject)
  PROVE  Contract!EraseOne(subject)
<1>1. log' = Erased(log, subject) /\ appended' = appended
  BY DEF Erase
<1>2. ASSUME NEW other \in Subjects
      PROVE  /\ History(log', other) = IF other = subject THEN << >> ELSE History(log, other)
             /\ Latest(log', other) = IF other = subject THEN << >> ELSE Latest(log, other)
  <2> DEFINE mine == {i \in DOMAIN log : log[i].subject = other}
             mineNow == {i \in DOMAIN log' : log'[i].subject = other}
  <2>1. /\ mineNow = IF other = subject THEN {} ELSE mine
        /\ \A i \in mineNow : log'[i] = log[i]
    BY <1>1 DEF Erased
  <2>2. CASE other = subject
    BY <2>1, <2>2 DEF History, Latest
  <2>3. CASE other # subject
    BY <2>1, <2>3 DEF History, Latest
  <2> QED
    BY <2>2, <2>3
<1>3. /\ [other \in Subjects |-> History(log', other)] =
           [[other \in Subjects |-> History(log, other)] EXCEPT ![subject] = << >>]
      /\ [other \in Subjects |-> Latest(log', other)] =
           [[other \in Subjects |-> Latest(log, other)] EXCEPT ![subject] = << >>]
  BY <1>2
<1> QED
  BY <1>1, <1>3 DEF Contract!EraseOne

\* Every step of the service is one of the contract's store, or none.
LEMMA StepImplementsStore ==
  ServiceInv /\ [Next]_vars => [Contract!StoreNext]_(Contract!storeVars)
<1> SUFFICES ASSUME ServiceInv, [Next]_vars
             PROVE  Contract!StoreNext \/ UNCHANGED Contract!storeVars
  OBVIOUS
<1>1. StoreTypes
  BY DEF ServiceInv, TypeOK
<1>2. ASSUME UNCHANGED storeVars
      PROVE  UNCHANGED Contract!storeVars
  BY <1>2 DEF storeVars, Contract!storeVars
<1>3. ASSUME NEW r \in Requests, Handle(r), ~ UNCHANGED storeVars
      PROVE  Contract!StoreNext
  <2>1. AppendDraft(r)
    BY <1>3 DEF Handle, AcceptVerify, AcceptDate, ReadLatest, LatestFails, PassExempt,
                ReadClock, WithdrawBuild, StatusAnswer, LayerDecide
  <2>2. AppendRecord(draft[r]) /\ draft[r] \in Records
    BY <1>3, <2>1 DEF AppendDraft, AppendOutcome, ServiceInv, DraftsAreQuoted
  <2> QED
    BY <1>1, <2>2, AppendImplementsStore DEF Contract!StoreNext
<1>4. CASE \E documents \in Built : Replace(documents)
  BY <1>2, <1>4 DEF Replace
<1>5. CASE \E subject \in Subjects : Erase(subject)
  BY <1>5, EraseImplementsStore DEF Contract!StoreNext
<1>6. CASE Tick \/ UNCHANGED vars
  BY <1>2, <1>6 DEF Tick, vars
<1> QED
  BY <1>2, <1>3, <1>4, <1>5, <1>6 DEF Next

\* For any number of subjects, documents and overlapping requests, the scans of
\* the reference store answer what its contract keeps.
THEOREM ServiceImplementsStore == Spec => ImplementsStore
BY InitImplementsStore, StepImplementsStore, ServiceInvariant, PTL
   DEF Spec, ImplementsStore, Contract!StoreSpec
==============================================================================
