----------------------------- MODULE ConsentStore -----------------------------
(***************************************************************************)
(* What a ConsentStore promises (crates/terrace-legal/src/consent.rs and   *)
(* the rules of crates/terrace-legal/src/testing.rs): each subject has a   *)
(* history of its own, and what `latest` answers is kept up to date as     *)
(* records come in, in place of being read off the whole log.              *)
(*                                                                         *)
(* Slices are functions from append positions to records; the routes       *)
(* append one record at a time.                                            *)
(***************************************************************************)
EXTENDS Integers

CONSTANTS Subjects, Records

VARIABLES
  appended,  \* the number of records appended so far
  history,   \* history[s]: every record of s
  latest     \* latest[s]: for each document, the record s appended last

storeVars == <<appended, history, latest>>

NoRecords == [subject \in Subjects |-> << >>]

InitStore == appended = 0 /\ history = NoRecords /\ latest = NoRecords

Pushed(slice, place, record) ==
  [i \in DOMAIN slice \cup {place} |-> IF i = place THEN record ELSE slice[i]]

\* latest.retain(|kept| kept.slug != record.slug)
Retained(slice, slug) ==
  [i \in {j \in DOMAIN slice : slice[j].slug # slug} |-> slice[i]]

\* A record goes to its own subject and supersedes that subject's last one about
\* the same document; nobody else's records change.
AppendOne ==
  /\ appended' = appended + 1
  /\ \E record \in Records :
       /\ history' = [history EXCEPT ![record.subject] = Pushed(@, appended', record)]
       /\ latest' = [latest EXCEPT ![record.subject] =
            Pushed(Retained(@, record.slug), appended', record)]

EraseOne(subject) ==
  /\ history' = [history EXCEPT ![subject] = << >>]
  /\ latest' = [latest EXCEPT ![subject] = << >>]
  /\ UNCHANGED appended

StoreNext == AppendOne \/ \E subject \in Subjects : EraseOne(subject)

StoreSpec == InitStore /\ [][StoreNext]_storeVars
===============================================================================
