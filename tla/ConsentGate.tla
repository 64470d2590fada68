------------------------------ MODULE ConsentGate -----------------------------
(***************************************************************************)
(* The list of documents a signed-in subject owes                          *)
(* (crates/terrace-legal-dioxus/src/consent.rs): ConsentGate fetches the   *)
(* status, the user accepts documents of the list, several at a time, and  *)
(* every acceptance that is recorded fetches the status again.  Requests   *)
(* and answers may be lost and operators may replace the catalog.          *)
(***************************************************************************)
EXTENDS Views, Resource, Sequences

CONSTANTS
  Tasks,         \* acceptances under way at a time
  Language,      \* the language they are fetched in
  MaxEdits,      \* bound: operators replace the catalog this often, if the modulus
                 \* is greater
  MaxLost        \* bound: the network loses this many messages

ASSUME GateAssumption ==
  /\ Language \in Locales
  /\ MaxEdits \in Nat
  /\ MaxLost \in Nat

VARIABLES
  records,   \* the subject's last record of each document, the oldest first
  status,    \* the fetch of the consent status: the slugs outstanding
  task,      \* task[t]: where accept_document is, its slug and its view
  failure,   \* whether a failure message is shown
  lost,      \* how many messages were lost
  untold     \* the server changed and no status served since says so

gateVars == <<records, status, task, failure, lost, untold>>

NoView == << >>
NoTask == [at |-> "idle", slug |-> "none", view |-> NoView]

StartGate(mounted) ==
  /\ records = << >>
  /\ status = mounted
  /\ task = [t \in Tasks |-> NoTask]
  /\ failure = FALSE
  /\ lost = 0
  /\ untold = FALSE
------------------------------------------------------------------------------
\* The store's answer to `latest` after one more append.
Appended(record) ==
  LET IsOther(other) == other.slug # record.slug
  IN  Append(SelectSeq(records, IsOther), record)

\* acceptance_for: the view says which revision of a policy it shows.
Acceptable(view) == view.consent.requirement # "none"

\* Legal::consent_status and ConsentStatus::outstanding.
Owed ==
  LET answer == ConsentStatus(catalog.documents, records, 0)
  IN  {name \in DOMAIN answer : answer[name].outstanding}

\* What ConsentList shows: nothing unless a status has arrived.
Listed == IF status.value.state = "ok" THEN status.value.body ELSE {}

Busy(t) == task[t].at # "idle"
Now(t, at, slug, view) == task' = [task EXCEPT ![t] = [at |-> at, slug |-> slug, view |-> view]]

Lose == lost < MaxLost /\ lost' = lost + 1

ServeStatus ==
  /\ status.fetch.at = "asked"
  /\ status' = Served(status, Owed)
  /\ untold' = FALSE
  /\ UNCHANGED <<records, task, failure>>

DeliverStatus ==
  /\ status.fetch.at = "answered"
  /\ status' = Delivered(status)
  /\ UNCHANGED <<records, task, failure, untold>>

LoseStatus ==
  /\ InFlight(status)
  /\ Lose
  /\ status' = Lost(status)
  /\ UNCHANGED <<records, task, failure, untold>>

\* on_accept spawns a task of its own for every press of a button.
Accept(t, name) ==
  /\ ~ Busy(t)
  /\ name \in Listed
  /\ Now(t, "asking", name, NoView)
  /\ UNCHANGED <<records, status, failure, untold>>

\* The task ends with an error: a refusal, a 404, a document without a policy, or
\* a request or an answer that got lost.
Fails(t) ==
  /\ task' = [task EXCEPT ![t] = NoTask]
  /\ failure' = TRUE
  /\ UNCHANGED <<records, status>>

\* accept_document: the text.
ServeDocument(t) ==
  /\ task[t].at = "asking"
  /\ LET name == task[t].slug
         document == catalog.documents[name]
     IN  \/ /\ Hosts(catalog.documents, name)
            /\ Now(t, "fetched", name,
                   ViewOf(name, Negotiate(DOMAIN document.bodies, Language), document))
            /\ UNCHANGED <<records, status, failure>>
         \/ ~ Hosts(catalog.documents, name) /\ Fails(t)
  /\ UNCHANGED untold

\* acceptance_for, then the accept route: recorded, or refused.
PostAcceptance(t) ==
  /\ task[t].at = "fetched"
  /\ LET acceptance == AcceptanceFor(task[t].view)
     IN  \/ /\ Acceptable(task[t].view)
            /\ Refusal(catalog.documents, acceptance) = "none"
            /\ \E subject \in Subjects : records' =
                 Appended(AcceptanceRecord(catalog.documents, acceptance, subject, "api", 0))
            /\ Now(t, "recorded", "none", NoView)
            /\ UNCHANGED <<status, failure>>
         \/ /\ Acceptable(task[t].view) => Refusal(catalog.documents, acceptance) # "none"
            /\ Fails(t)
  /\ UNCHANGED untold

LoseTask(t) ==
  /\ Busy(t)
  /\ Lose
  /\ Fails(t)
  /\ untold' = (untold \/ task[t].at = "recorded")

\* Mutant: a fetch that is under way is taken to be enough.
AskAgainIfIdle(resource) ==
  IF InFlight(resource) THEN resource ELSE Restarted(resource, Language)

AskAgain(resource) == Restarted(resource, Language)

Settle(t) ==
  /\ task[t].at = "recorded"
  /\ task' = [task EXCEPT ![t] = NoTask]
  /\ failure' = FALSE
  /\ status' = AskAgain(status)
  /\ UNCHANGED <<records, untold>>

\* The user loads the page anew when it says or shows that something failed, and
\* with the page the tasks are gone.
Reload ==
  /\ failure \/ status.value.state = "err"
  /\ status' = Mounted(Language)
  /\ task' = [t \in Tasks |-> NoTask]
  /\ failure' = FALSE
  /\ UNCHANGED <<records, untold>>

Edit(documents) ==
  /\ catalog.generation < MaxEdits
  /\ Register!Publish(documents)
  /\ untold' = TRUE
  /\ UNCHANGED <<records, status, task, failure>>

Losing == LoseStatus \/ \E t \in Tasks : LoseTask(t)

Proceed(t) == ServeDocument(t) \/ PostAcceptance(t) \/ Settle(t)

\* The button of one document.
Press(name) == \E t \in Tasks : Accept(t, name)

GateStep ==
  \/ /\ \/ ServeStatus \/ DeliverStatus \/ Reload
        \/ \E t \in Tasks : Proceed(t)
        \/ \E name \in Slugs : Press(name)
     /\ UNCHANGED lost
  \/ Losing

GateNext ==
  \/ GateStep /\ UNCHANGED catalog
  \/ \E documents \in Built : Edit(documents) /\ UNCHANGED lost

GateInit == Register!InitCatalog /\ StartGate(Mounted(Language))
GateSpec == GateInit /\ [][GateNext]_<<catalog, gateVars>>
------------------------------------------------------------------------------
(***************************************************************************)
(* Properties.                                                             *)
(***************************************************************************)
\* Once nothing is under way the list is what the server would say, however the
\* acceptances, their answers and the fetches of the status overlapped, unless an
\* operator or a lost answer changed the server behind the client's back
\* (ConsentGate: "so an accepted document leaves the list").
ListIsTrueWhenQuiet ==
  /\ \A t \in Tasks : ~ Busy(t)
  /\ Quiet(status)
  /\ status.value.state = "ok"
  /\ ~ untold
  => Listed = Owed

\* A user who keeps pressing the buttons ends with a list that has loaded and is
\* empty, once the operators stop: no refusal, lost answer or document that no
\* longer asks for anything keeps one on it for ever.
EventuallyNothingListed ==
  <>[](status # Idle => status.value.state = "ok" /\ Listed = {})
==============================================================================
