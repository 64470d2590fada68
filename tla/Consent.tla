------------------------------- MODULE Consent -------------------------------
(***************************************************************************)
(* Consent records, their evaluation, and the checks of an acceptance or a *)
(* withdrawal against a catalog                                            *)
(* (crates/terrace-legal-model/src/consent.rs and                          *)
(* crates/terrace-legal/src/consent.rs).                                   *)
(*                                                                         *)
(* A slice of records is a function from positions to records.  A sequence *)
(* is one, and so is the part of a longer sequence that concerns one       *)
(* subject: only the order of the positions matters.                       *)
(***************************************************************************)
EXTENDS Catalog

CONSTANT Subjects

Kinds == {"accepted", "acknowledged", "withdrawn"}
Channels == {"registration", "prompt", "api"}
Instants == 0..MaxInstant

Records ==
  [subject : Subjects, slug : Slugs, version : Versions, locale : Locales,
   digest : Texts, kind : Kinds, channel : Channels, at : Instants]

\* What a client sends: nothing in it need exist.
Acceptances ==
  [slug : Slugs \cup BadKeys, version : Versions \cup {NoVersion},
   locale : Locales, digest : Texts]
------------------------------------------------------------------------------
(***************************************************************************)
(* evaluate: which record decides.                                         *)
(***************************************************************************)
\* Mutant: an acceptance wins a tie.
TieBreakForAcceptance == [acknowledged |-> 0, withdrawn |-> 1, accepted |-> 2]

TieBreak == [acknowledged |-> 0, accepted |-> 1, withdrawn |-> 2]

\* Mutant: the version is no part of the key.
PrecedesWithoutVersion(a, b) ==
  \/ a.at < b.at
  \/ /\ a.at = b.at
     /\ \/ TieBreak[a.kind] < TieBreak[b.kind]
        \/ a.kind = b.kind /\ a.digest < b.digest

\* The key (at, tie_break, version, digest) of a is below that of b.
Precedes(a, b) ==
  \/ a.at < b.at
  \/ /\ a.at = b.at
     /\ \/ TieBreak[a.kind] < TieBreak[b.kind]
        \/ /\ a.kind = b.kind
           /\ \/ a.version < b.version
              \/ a.version = b.version /\ a.digest < b.digest

\* Mutant: the last record in the slice decides.
DecidingLast(latest, slug) ==
  LET about == {i \in DOMAIN latest : latest[i].slug = slug}
  IN  {i \in about : \A j \in about : j <= i}

\* max_by keeps the last of several greatest elements.
Deciding(latest, slug) ==
  LET about == {i \in DOMAIN latest : latest[i].slug = slug}
  IN  {i \in about : \A j \in about :
         \/ Precedes(latest[j], latest[i])
         \/ ~Precedes(latest[i], latest[j]) /\ j <= i}

(***************************************************************************)
(* evaluate: what the deciding record is worth under a policy.             *)
(***************************************************************************)
\* Mutants: any revision satisfies; the two kinds are swapped.
SatisfiesAnyRevision(policy, record) ==
  \/ record.kind = "accepted"
  \/ record.kind = "acknowledged" /\ policy.requirement = "acknowledge"

SatisfiesSwapped(policy, record) ==
  /\ record.version = policy.version
  /\ \/ record.kind = "acknowledged"
     \/ record.kind = "accepted" /\ policy.requirement = "acknowledge"

Satisfies(policy, record) ==
  /\ record.version = policy.version
  /\ \/ record.kind = "accepted"
     \/ record.kind = "acknowledged" /\ policy.requirement = "acknowledge"

Outstanding(policy, slug, latest) ==
  ~ \E i \in Deciding(latest, slug) : Satisfies(policy, latest[i])

\* Mutant: blocking only on the day itself.
GraceOverThatDay(policy, now) ==
  \/ policy.effective = NoDate
  \/ now = policy.effective + policy.grace_days

\* Policy::blocks_from.  An end the date type cannot represent never comes.
GraceOver(policy, now) ==
  \/ policy.effective = NoDate
  \/ /\ policy.effective + policy.grace_days <= MaxInstant
     /\ now >= policy.effective + policy.grace_days

Blocking(policy, slug, latest, now) ==
  /\ Outstanding(policy, slug, latest)
  /\ policy.requirement = "accept"
  /\ GraceOver(policy, now)

ContentChangedSince(policy, slug, latest) ==
  \E i \in Deciding(latest, slug) :
    /\ latest[i].version = policy.version
    /\ latest[i].kind # "withdrawn"
    /\ ~ /\ latest[i].locale \in DOMAIN policy.digests
         /\ policy.digests[latest[i].locale] = latest[i].digest

Evaluate(policies, latest, now) ==
  [slug \in {s \in DOMAIN policies : policies[s].requirement # "none"} |->
     [requirement |-> policies[slug].requirement,
      version |-> policies[slug].version,
      outstanding |-> Outstanding(policies[slug], slug, latest),
      blocking |-> Blocking(policies[slug], slug, latest, now),
      content_changed_since |-> ContentChangedSince(policies[slug], slug, latest)]]

IsBlocked(status) == \E slug \in DOMAIN status : status[slug].blocking
------------------------------------------------------------------------------
(***************************************************************************)
(* The parts that need the catalog: `documents` is what it publishes.      *)
(***************************************************************************)
ConsentPolicies(documents) ==
  [slug \in {s \in DOMAIN documents : HasPolicy(documents[s])} |->
     documents[slug].policy]

ConsentStatus(documents, latest, now) ==
  Evaluate(ConsentPolicies(documents), latest, now)

Consentable(documents, slug) ==
  /\ slug \in DOMAIN documents
  /\ HasPolicy(documents[slug])
  /\ documents[slug].kind = "inline"

\* Mutants: the version, or the digest, is not compared; the digest is compared
\* with the first locale's.
StaleText(document, acceptance) ==
  acceptance.digest # document.bodies[acceptance.locale]

StaleVersion(document, acceptance) == acceptance.version # document.policy.version

StaleFirst(document, acceptance) ==
  \/ acceptance.version # document.policy.version
  \/ \E first \in DOMAIN document.bodies :
       /\ \A other \in DOMAIN document.bodies : first <= other
       /\ acceptance.digest # document.bodies[first]

\* It does not name the revision and the text served now.
Stale(document, acceptance) ==
  \/ acceptance.version # document.policy.version
  \/ acceptance.digest # document.bodies[acceptance.locale]

\* verify_acceptance: the reason for a refusal, or "none".
Refusal(documents, acceptance) ==
  LET document == documents[acceptance.slug]
  IN  IF ~ Consentable(documents, acceptance.slug) THEN "unknown-document"
      ELSE IF acceptance.locale \notin DOMAIN document.bodies THEN "unpublished-locale"
      ELSE IF Stale(document, acceptance) THEN "consent-stale"
      ELSE "none"

\* Mutant: the requirement is stored for the kind.
KindForVerbatim(requirement) == requirement

\* VerifiedAcceptance::into_record's choice of kind.
KindFor(requirement) ==
  IF requirement = "accept" THEN "accepted" ELSE "acknowledged"

\* verify_acceptance's value and into_record, up to the clock.
AcceptanceRecord(documents, acceptance, subject, channel, at) ==
  [subject |-> subject, slug |-> acceptance.slug,
   version |-> acceptance.version, locale |-> acceptance.locale,
   digest |-> acceptance.digest,
   kind |-> KindFor(documents[acceptance.slug].policy.requirement),
   channel |-> channel, at |-> at]

\* withdrawal_record: max_by_key on the timestamp, the last of several.
Newest(latest, slug) ==
  LET about == {i \in DOMAIN latest : latest[i].slug = slug}
  IN  {i \in about : \A j \in about :
         \/ latest[j].at < latest[i].at
         \/ latest[j].at = latest[i].at /\ j <= i}

\* The locale last recorded against while it is published, or else the first.
WithdrawalLocale(document, slug, latest) ==
  LET published == DOMAIN document.bodies
      seen == {latest[i].locale : i \in Newest(latest, slug)} \cap published
  IN  IF seen # {}
      THEN CHOOSE locale \in seen : TRUE
      ELSE CHOOSE locale \in published : \A other \in published : locale <= other

WithdrawalRecord(documents, slug, subject, latest, at) ==
  LET document == documents[slug]
      locale == WithdrawalLocale(document, slug, latest)
  IN  [subject |-> subject, slug |-> slug, version |-> document.policy.version,
       locale |-> locale, digest |-> document.bodies[locale],
       kind |-> "withdrawn", channel |-> "api", at |-> at]
------------------------------------------------------------------------------
(***************************************************************************)
(* What the store's answers are made of.  `log` maps append positions to   *)
(* records, so an erased record leaves a gap and the order stays.          *)
(***************************************************************************)
History(log, subject) ==
  [i \in {j \in DOMAIN log : log[j].subject = subject} |-> log[i]]

\* Mutant: the record with the latest timestamp is kept.
LatestAsDated(log, subject) ==
  LET mine == {i \in DOMAIN log : log[i].subject = subject}
  IN  [i \in {j \in mine : \A k \in mine :
               log[k].slug = log[j].slug =>
                 (log[k].at < log[j].at \/ (log[k].at = log[j].at /\ k <= j))} |-> log[i]]

\* Mutant: the first record of each document is kept.
LatestKeepsFirst(log, subject) ==
  LET mine == {i \in DOMAIN log : log[i].subject = subject}
  IN  [i \in {j \in mine : \A k \in mine : log[k].slug = log[j].slug => j <= k}
         |-> log[i]]

Latest(log, subject) ==
  LET mine == {i \in DOMAIN log : log[i].subject = subject}
  IN  [i \in {j \in mine : \A k \in mine : log[k].slug = log[j].slug => k <= j}
         |-> log[i]]

Erased(log, subject) ==
  [i \in {j \in DOMAIN log : log[j].subject # subject} |-> log[i]]
==============================================================================
