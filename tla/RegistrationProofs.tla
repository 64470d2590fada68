-------------------------- MODULE RegistrationProofs --------------------------
(***************************************************************************)
(* Proofs about Registration: what verify_registration returns, for any    *)
(* number of acceptances and calls, however replacements fall between the  *)
(* looks it takes at the catalog.                                          *)
(***************************************************************************)
EXTENDS Registration, CatalogProofs, SequenceTheorems

(***************************************************************************)
(* The result of a call is right only because of what the loop has built   *)
(* so far: one record for each catalog it took, each earned against that   *)
(* catalog and no two of them for one document.                            *)
(***************************************************************************)
LoadsAreBuilt == loads \in [Calls -> Seq(Built)]

EarnedSoFar(c) ==
  /\ given[c] \in Arguments
  /\ Len(records[c]) <= Len(given[c].acceptances)
  /\ Len(records[c]) <= Len(loads[c])
  /\ \A i \in 1..Len(records[c]) :
       /\ Earns(loads[c][i], c, i)
       /\ \A j \in 1..Len(records[c]) : records[c][i].slug = records[c][j].slug => i = j

CallIsSound(c) ==
  /\ pc[c] = "ready" => records[c] = << >> /\ loads[c] = << >> /\ outcome[c] = "none"
  /\ pc[c] = "verify" =>
       /\ EarnedSoFar(c)
       /\ Len(loads[c]) = Len(records[c])
       /\ outcome[c] = "none"
  /\ pc[c] = "done" =>
       IF Registered(c)
       THEN /\ EarnedSoFar(c)
            /\ Len(loads[c]) = Len(records[c]) + 1
            /\ Len(records[c]) = Len(given[c].acceptances)
            /\ Missing(loads[c][Len(loads[c])], records[c]) = {}
       ELSE records[c] = << >>

CallTypes ==
  /\ given \in [Calls -> Arguments \cup {NotCalled}]
  /\ pc \in [Calls -> {"ready", "verify", "done"}]
  /\ records \in [Calls -> Seq(Records)]
  /\ outcome \in [Calls -> {"none", "rejected", "duplicate", "missing", "registered"}]

RegistrationInv ==
  /\ IsServed(catalog)
  /\ catalog.documents \in Built
  /\ CallTypes
  /\ LoadsAreBuilt
  /\ \A c \in Calls : CallIsSound(c)

\* No call has begun.
LEMMA InitRegistrationInv == Init => RegistrationInv
<1> SUFFICES ASSUME Init PROVE RegistrationInv
  OBVIOUS
<1>1. PICK documents \in Built : catalog = [generation |-> 0, documents |-> documents]
  BY DEF Init, Register!InitCatalog
<1>2. IsCatalog(documents)
  BY BuiltIsWellFormed
<1>3. IsServed(catalog) /\ catalog.documents \in Built
  BY <1>1, <1>2, ServedAssumption DEF IsServed
<1>4. CallTypes /\ LoadsAreBuilt
  BY DEF Init, CallTypes, LoadsAreBuilt
<1>5. \A c \in Calls : CallIsSound(c)
  BY DEF Init, CallIsSound
<1> QED
  BY <1>3, <1>4, <1>5 DEF RegistrationInv

\* A step of one call is no concern of another.
LEMMA OthersStaySound ==
  ASSUME NEW c \in Calls, CallIsSound(c),
         given'[c] = given[c], pc'[c] = pc[c], records'[c] = records[c],
         outcome'[c] = outcome[c], loads'[c] = loads[c]
  PROVE  CallIsSound(c)'
BY DEF CallIsSound, EarnedSoFar, Earns, Registered

\* A catalog the call takes is one that was built, and is added at the end.
LEMMA LoadAppends ==
  ASSUME RegistrationInv, NEW c \in Calls, Load(c)
  PROVE  /\ LoadsAreBuilt'
         /\ loads[c] \in Seq(Built) /\ loads'[c] \in Seq(Built)
         /\ Len(loads'[c]) = Len(loads[c]) + 1
         /\ \A i \in 1..Len(loads[c]) : loads'[c][i] = loads[c][i]
         /\ loads'[c][Len(loads[c]) + 1] = catalog.documents
         /\ \A d \in Calls : d # c => loads'[d] = loads[d]
<1>1. loads \in [Calls -> Seq(Built)] /\ catalog.documents \in Built
  BY DEF RegistrationInv, LoadsAreBuilt
<1>2. loads' = [loads EXCEPT ![c] = Append(loads[c], catalog.documents)]
  BY DEF Load
<1>3. loads'[c] = Append(loads[c], catalog.documents)
  BY <1>1, <1>2
<1> QED
  BY <1>1, <1>2, <1>3, AppendProperties DEF LoadsAreBuilt

\* A refused call ends without records.
LEMMA FailKeeps ==
  ASSUME RegistrationInv, NEW c \in Calls, Load(c), UNCHANGED <<catalog, given>>,
         NEW error \in {"rejected", "duplicate", "missing"}, Fail(c, error)
  PROVE  RegistrationInv'
<1>1. IsServed(catalog)' /\ (catalog.documents \in Built)'
  BY DEF RegistrationInv, IsServed
<1>2. /\ pc' = [pc EXCEPT ![c] = "done"]
      /\ outcome' = [outcome EXCEPT ![c] = error]
      /\ records' = [records EXCEPT ![c] = << >>]
  BY DEF Fail
<1>3. CallTypes' /\ LoadsAreBuilt'
  BY <1>2, LoadAppends DEF RegistrationInv, CallTypes
<1>4. CallIsSound(c)'
  BY <1>2 DEF RegistrationInv, CallTypes, CallIsSound, Registered
<1>5. ASSUME NEW d \in Calls, d # c PROVE CallIsSound(d)'
  BY <1>2, <1>5, LoadAppends, OthersStaySound DEF RegistrationInv, CallTypes
<1> QED
  BY <1>1, <1>3, <1>4, <1>5 DEF RegistrationInv

\* The loop refuses the acceptance whose turn it is, or adds the record that it
\* earns against the catalog taken for it.
LEMMA VerifyNextKeeps ==
  ASSUME RegistrationInv, NEW c \in Calls, VerifyNext(c)
  PROVE  RegistrationInv'
<1>0. PICK n \in Nat : n = Len(records[c])
  BY DEF RegistrationInv, CallTypes
<1> DEFINE acceptance == given[c].acceptances[n + 1]
           record == AcceptanceRecord(catalog.documents, acceptance,
                       given[c].subject, "registration", given[c].now)
<1>1. /\ Load(c) /\ UNCHANGED <<catalog, given>>
      /\ pc[c] = "verify" /\ n + 1 <= Len(given[c].acceptances)
  BY <1>0 DEF VerifyNext, Remaining, Position
<1>2. /\ records[c] \in Seq(Records)
      /\ given[c] \in Arguments
      /\ EarnedSoFar(c) /\ Len(loads[c]) = n /\ outcome[c] = "none"
  BY <1>0, <1>1 DEF RegistrationInv, CallTypes, CallIsSound, EarnedSoFar
<1>3. /\ given[c].acceptances \in Seq(Acceptances)
      /\ given[c].subject \in Subjects /\ given[c].now \in Instants
  BY <1>2, RegistrationAssumption DEF Arguments
<1>4. n \in Nat /\ acceptance \in Acceptances
  BY <1>0, <1>1, <1>2, <1>3
<1>5. CASE Refusal(catalog.documents, acceptance) # "none"
  <2>1. Fail(c, "rejected")
    BY <1>0, <1>5 DEF VerifyNext, Position
  <2> QED
    BY <1>1, <2>1, FailKeeps
<1>6. CASE Refusal(catalog.documents, acceptance) = "none" /\ Duplicate(c, acceptance.slug)
  <2>1. Fail(c, "duplicate")
    BY <1>0, <1>6 DEF VerifyNext, Position
  <2> QED
    BY <1>1, <2>1, FailKeeps
<1>7. CASE Refusal(catalog.documents, acceptance) = "none" /\ ~ Duplicate(c, acceptance.slug)
  <2>1. /\ records' = [records EXCEPT ![c] = Append(records[c], record)]
        /\ UNCHANGED <<pc, outcome>>
    BY <1>0, <1>7 DEF VerifyNext, Position
  <2>2. record \in Records /\ record.slug = acceptance.slug
    BY <1>3, <1>4, <1>7, AcceptanceIsQuoted DEF RegistrationInv, Channels
  <2>3. /\ records'[c] \in Seq(Records)
        /\ Len(records'[c]) = n + 1
        /\ \A i \in 1..n : records'[c][i] = records[c][i]
        /\ records'[c][n + 1] = record
        /\ \A d \in Calls : d # c => records'[d] = records[d]
    <3> HIDE DEF record
    <3>1. records'[c] = Append(records[c], record)
      BY <2>1 DEF RegistrationInv, CallTypes
    <3> QED
      BY <1>0, <1>2, <2>1, <2>2, <3>1, AppendProperties DEF RegistrationInv, CallTypes
  <2>4. \A i \in 1..n : records[c][i].slug # acceptance.slug
    BY <1>0, <1>2, <1>7 DEF Duplicate
  <2>5. \A i \in 1..(n + 1) : Earns(loads[c][i], c, i)'
    <3>1. Earns(loads[c][n + 1], c, n + 1)'
      BY <1>1, <1>2, <1>7, <2>3, LoadAppends DEF Earns
    <3>2. ASSUME NEW i \in 1..n PROVE Earns(loads[c][i], c, i)'
      <4>1. Earns(loads[c][i], c, i)
        BY <1>0, <1>2 DEF EarnedSoFar
      <4>2. loads'[c][i] = loads[c][i] /\ records'[c][i] = records[c][i]
        BY <1>2, <1>1, <2>3, LoadAppends
      <4> QED
        BY <1>1, <4>1, <4>2 DEF Earns
    <3> QED
      <4>1. \A i \in 1..(n + 1) : i \in 1..n \/ i = n + 1
        OBVIOUS
      <4> QED
        BY <3>1, <3>2, <4>1
  <2>6. \A i, j \in 1..(n + 1) : records'[c][i].slug = records'[c][j].slug => i = j
    <3>1. \A i, j \in 1..n : records[c][i].slug = records[c][j].slug => i = j
      BY <1>0, <1>2 DEF EarnedSoFar
    <3>2. \A i \in 1..(n + 1) : i \in 1..n \/ i = n + 1
      OBVIOUS
    <3> HIDE DEF record
    <3>3. records'[c][n + 1].slug = acceptance.slug
      BY <2>2, <2>3
    <3>4. \A i \in 1..n : records'[c][i].slug = records[c][i].slug
      BY <2>3
    <3>5. \A i \in 1..n : records'[c][i].slug # records'[c][n + 1].slug
      BY <2>4, <3>3, <3>4
    <3>6. \A i, j \in 1..n : records'[c][i].slug = records'[c][j].slug => i = j
      BY <3>1, <3>4
    <3> QED
      BY <3>2, <3>5, <3>6
  <2>7. CallIsSound(c)'
    <3>1. /\ given'[c] = given[c] /\ pc'[c] = "verify" /\ outcome'[c] = "none"
          /\ Len(records'[c]) = n + 1 /\ Len(loads'[c]) = n + 1
      BY <1>1, <1>2, <2>1, <2>3, LoadAppends
    <3>2. n + 1 <= Len(given[c].acceptances)
      BY <1>1
    <3>3. EarnedSoFar(c)'
      BY <1>2, <1>4, <2>5, <2>6, <3>1, <3>2 DEF EarnedSoFar
    <3> QED
      BY <3>1, <3>3 DEF CallIsSound
  <2>8. ASSUME NEW d \in Calls, d # c PROVE CallIsSound(d)'
    BY <1>1, <2>1, <2>3, <2>8, LoadAppends, OthersStaySound DEF RegistrationInv
  <2>9. CallTypes' /\ LoadsAreBuilt'
    BY <1>1, <2>1, <2>2, <2>3, LoadAppends DEF RegistrationInv, CallTypes
  <2> QED
    BY <1>1, <2>7, <2>8, <2>9 DEF RegistrationInv, IsServed
<1> QED
  BY <1>5, <1>6, <1>7

\* The call ends with what is missing of the catalog taken last.
LEMMA CheckPoliciesKeeps ==
  ASSUME RegistrationInv, NEW c \in Calls, CheckPolicies(c)
  PROVE  RegistrationInv'
<1>1. /\ Load(c) /\ UNCHANGED <<catalog, given>>
      /\ pc[c] = "verify" /\ ~ Remaining(c)
  BY DEF CheckPolicies
<1>2. CASE Missing(catalog.documents, records[c]) # {}
  <2>1. Fail(c, "missing")
    BY <1>2 DEF CheckPolicies
  <2> QED
    BY <1>1, <2>1, FailKeeps
<1>3. CASE Missing(catalog.documents, records[c]) = {}
  <2>1. /\ pc' = [pc EXCEPT ![c] = "done"]
        /\ outcome' = [outcome EXCEPT ![c] = "registered"]
        /\ UNCHANGED records
    BY <1>3 DEF CheckPolicies
  <2>2. /\ EarnedSoFar(c) /\ Len(loads[c]) = Len(records[c])
        /\ records[c] \in Seq(Records) /\ given[c].acceptances \in Seq(Acceptances)
    BY <1>1, RegistrationAssumption
       DEF RegistrationInv, CallTypes, CallIsSound, EarnedSoFar, Arguments
  <2>3. Len(records[c]) = Len(given[c].acceptances)
    BY <1>1, <2>2 DEF Remaining, Position, EarnedSoFar
  <2>4. EarnedSoFar(c)'
    <3>1. /\ given' = given /\ records' = records
          /\ Len(records[c]) <= Len(given[c].acceptances) /\ Len(records[c]) <= Len(loads'[c])
          /\ \A i \in 1..Len(records[c]) : loads'[c][i] = loads[c][i]
      BY <1>1, <2>1, <2>2, <2>3, LoadAppends
    <3>2. \A i \in 1..Len(records[c]) : Earns(loads[c][i], c, i)'
      BY <2>2, <3>1 DEF EarnedSoFar, Earns
    <3> QED
      BY <2>2, <3>1, <3>2 DEF EarnedSoFar
  <2>5. CallIsSound(c)'
    <3>1. pc'[c] = "done" /\ Registered(c)'
      BY <2>1 DEF RegistrationInv, CallTypes, Registered
    <3>2. /\ Len(loads'[c]) = Len(loads[c]) + 1
          /\ loads'[c][Len(loads'[c])] = catalog.documents
      BY <1>1, LoadAppends
    <3>3. Missing(loads'[c][Len(loads'[c])], records'[c]) = {}
      BY <1>3, <2>1, <3>2
    <3> QED
      BY <1>1, <2>1, <2>2, <2>3, <2>4, <3>1, <3>2, <3>3 DEF CallIsSound
  <2>6. ASSUME NEW d \in Calls, d # c PROVE CallIsSound(d)'
    BY <1>1, <2>1, <2>6, LoadAppends, OthersStaySound DEF RegistrationInv, CallTypes
  <2>7. CallTypes' /\ LoadsAreBuilt'
    BY <1>1, <2>1, LoadAppends DEF RegistrationInv, CallTypes
  <2> QED
    BY <1>1, <2>5, <2>6, <2>7 DEF RegistrationInv, IsServed
<1> QED
  BY <1>2, <1>3

\* Every step keeps the invariant; a replacement is no concern of what was built
\* from the catalogs before it.
LEMMA NextRegistrationInv == RegistrationInv /\ [Next]_vars => RegistrationInv'
<1> SUFFICES ASSUME RegistrationInv, [Next]_vars PROVE RegistrationInv'
  OBVIOUS
<1>1. ASSUME NEW c \in Calls, NEW arguments \in Arguments, Call(c, arguments)
      PROVE  RegistrationInv'
  <2>1. /\ pc[c] = "ready"
        /\ pc' = [pc EXCEPT ![c] = "verify"]
        /\ given' = [given EXCEPT ![c] = arguments]
        /\ UNCHANGED <<catalog, records, outcome, loads>>
    BY <1>1 DEF Call
  <2>2. CallTypes' /\ LoadsAreBuilt'
    BY <2>1 DEF RegistrationInv, CallTypes, LoadsAreBuilt
  <2>3. CallIsSound(c)'
    <3>1. /\ records'[c] = << >> /\ loads'[c] = << >> /\ outcome'[c] = "none"
          /\ given'[c] \in Arguments /\ pc'[c] = "verify"
      BY <2>1 DEF RegistrationInv, CallTypes, CallIsSound
    <3>2. Len(given'[c].acceptances) \in Nat
      BY <3>1, RegistrationAssumption DEF Arguments
    <3> QED
      BY <3>1, <3>2 DEF CallIsSound, EarnedSoFar
  <2>4. ASSUME NEW d \in Calls, d # c PROVE CallIsSound(d)'
    BY <2>1, <2>4, OthersStaySound DEF RegistrationInv, CallTypes
  <2> QED
    BY <2>1, <2>2, <2>3, <2>4 DEF RegistrationInv, IsServed
<1>2. ASSUME NEW documents \in Built, Replace(documents)
      PROVE  RegistrationInv'
  <2>1. /\ catalog' = [generation |-> (catalog.generation + 1) % GenerationModulus,
                       documents |-> documents]
        /\ UNCHANGED <<given, pc, records, outcome, loads>>
    BY <1>2 DEF Replace, Register!Publish
  <2>2. IsServed(catalog)' /\ (catalog.documents \in Built)'
    <3>1. catalog.generation \in Nat /\ GenerationModulus \in Nat \ {0}
      BY ServedAssumption DEF RegistrationInv, IsServed
    <3> QED
      BY <2>1, <3>1, BuiltIsWellFormed DEF IsServed
  <2>3. \A c \in Calls : CallIsSound(c)'
    BY <2>1, OthersStaySound DEF RegistrationInv
  <2> QED
    BY <2>1, <2>2, <2>3 DEF RegistrationInv, CallTypes, LoadsAreBuilt
<1>3. CASE UNCHANGED vars
  <2>1. \A c \in Calls : CallIsSound(c)'
    BY <1>3, OthersStaySound DEF RegistrationInv, vars
  <2> QED
    BY <1>3, <2>1 DEF vars, RegistrationInv, IsServed, CallTypes, LoadsAreBuilt
<1> QED
  BY <1>1, <1>2, <1>3, VerifyNextKeeps, CheckPoliciesKeeps DEF Next

\* The invariant holds always.
LEMMA RegistrationInvariant == Spec => []RegistrationInv
BY InitRegistrationInv, NextRegistrationInv, PTL DEF Spec
------------------------------------------------------------------------------
\* For any number of calls and submissions of any length, the state of a call
\* stays within its types.
THEOREM RegistrationTypeCorrect == Spec => []TypeOK
<1>1. RegistrationInv => TypeOK
  <2> SUFFICES ASSUME RegistrationInv PROVE TypeOK
    OBVIOUS
  <2>1. loads \in [Calls -> {loads[c] : c \in Calls}]
    BY DEF RegistrationInv, LoadsAreBuilt
  <2>2. \A c \in Calls : \A i \in DOMAIN loads[c] : IsCatalog(loads[c][i])
    BY BuiltIsWellFormed DEF RegistrationInv, LoadsAreBuilt
  <2> QED
    BY <2>1, <2>2 DEF TypeOK, RegistrationInv, CallTypes
<1> QED
  BY <1>1, RegistrationInvariant, PTL

\* A call that registers has a sound result.
LEMMA RegisteredIsSound ==
  ASSUME RegistrationInv, NEW c \in Calls, Registered(c)
  PROVE  /\ EarnedSoFar(c)
         /\ records[c] \in Seq(Records) /\ loads[c] \in Seq(Built)
         /\ Len(loads[c]) = Len(records[c]) + 1
         /\ Len(records[c]) = Len(given[c].acceptances)
         /\ Missing(loads[c][Len(loads[c])], records[c]) = {}
BY DEF RegistrationInv, CallTypes, LoadsAreBuilt, CallIsSound, Registered

\* Whatever is replaced between two looks at the catalog, a registration returns
\* one record for each acceptance, each earned against the catalog taken for it and
\* no two for one document, with none missing of the catalog taken last; or no
\* record at all (verify_registration: "Nothing is returned for a partly valid
\* submission").
THEOREM RegistersAllOrNothing == Spec => []AllOrNothing
<1>1. RegistrationInv => AllOrNothing
  <2> SUFFICES ASSUME RegistrationInv, NEW c \in Calls
               PROVE  /\ Registered(c) =>
                           /\ Len(records[c]) = Len(given[c].acceptances)
                           /\ \A i \in DOMAIN records[c] :
                                /\ Earns(loads[c][i], c, i)
                                /\ \A j \in DOMAIN records[c] :
                                     records[c][i].slug = records[c][j].slug => i = j
                           /\ Missing(loads[c][Len(loads[c])], records[c]) = {}
                      /\ pc[c] = "done" /\ ~ Registered(c) => records[c] = << >>
    BY DEF AllOrNothing
  <2>1. pc[c] = "done" /\ ~ Registered(c) => records[c] = << >>
    BY DEF RegistrationInv, CallIsSound
  <2>2. Registered(c) => DOMAIN records[c] = 1..Len(records[c])
    BY RegisteredIsSound
  <2> QED
    BY <2>1, <2>2, RegisteredIsSound DEF EarnedSoFar
<1> QED
  BY <1>1, RegistrationInvariant, PTL

\* No record precedes itself, so a document's only record decides.
LEMMA OnlyRecordDecides ==
  ASSUME NEW S \in SUBSET Nat, NEW latest \in [S -> Records], NEW slug, NEW i \in S,
         \A j \in S : latest[j].slug = slug <=> j = i
  PROVE  Deciding(latest, slug) = {i}
<1>1. {j \in DOMAIN latest : latest[j].slug = slug} = {i}
  OBVIOUS
<1>2. ~ Precedes(latest[i], latest[i])
  <2>1. /\ latest[i].at \in Nat /\ latest[i].version \in Nat /\ latest[i].digest \in Nat
        /\ latest[i].kind \in Kinds
    <3>1. latest[i] \in Records
      OBVIOUS
    <3>2. /\ latest[i].at \in Instants /\ latest[i].version \in Versions
          /\ latest[i].digest \in Texts /\ latest[i].kind \in Kinds
      BY <3>1 DEF Records
    <3>3. Instants \subseteq Nat /\ Versions \subseteq Nat /\ Texts \subseteq Nat
      BY CatalogAssumption DEF Instants
    <3> QED
      BY <3>2, <3>3
  <2>2. TieBreak[latest[i].kind] \in Nat
    BY <2>1 DEF TieBreak, Kinds
  <2> QED
    BY <2>1, <2>2 DEF Precedes
<1> QED
  BY <1>1, <1>2 DEF Deciding

\* What verify_registration insists on is what `evaluate` asks for: under the catalog
\* that was taken last, the subject of a registration owes nothing but documents that
\* were revised after their acceptance was checked.
THEOREM RegistrationSettles == Spec => []RegisteredOwesOnlyRevisions
<1>1. RegistrationInv => RegisteredOwesOnlyRevisions
  <2> SUFFICES ASSUME RegistrationInv, NEW c \in Calls, Registered(c), NEW now \in Instants
               PROVE  LET last   == loads[c][Len(loads[c])]
                          status == ConsentStatus(last, records[c], now)
                      IN  \A slug \in DOMAIN status :
                            status[slug].blocking
                              \/ (slug \in MustAccept(last) /\ status[slug].outstanding)
                              => RevisedUnderway(c, slug)
    BY DEF RegisteredOwesOnlyRevisions
  <2> DEFINE last == loads[c][Len(loads[c])]
             made == records[c]
             status == ConsentStatus(last, made, now)
  <2>1. /\ EarnedSoFar(c)
        /\ made \in Seq(Records) /\ DOMAIN made = 1..Len(made)
        /\ Missing(last, made) = {}
    <3>1. made \in Seq(Records)
      BY RegisteredIsSound
    <3>2. DOMAIN made = 1..Len(made)
      BY <3>1
    <3>3. EarnedSoFar(c) /\ Missing(last, made) = {}
      BY RegisteredIsSound
    <3> QED
      BY <3>1, <3>2, <3>3
  <2>2. ASSUME NEW slug \in MustAccept(last), ~ RevisedUnderway(c, slug)
        PROVE  ~ Outstanding(last[slug].policy, slug, made)
    <3>1. PICK i \in DOMAIN made : made[i].slug = slug
      BY <2>1 DEF Missing
    <3>2. Deciding(made, slug) = {i}
      <4>1. \A j \in DOMAIN made : made[j].slug = slug <=> j = i
        BY <2>1, <3>1 DEF EarnedSoFar
      <4>2. made \in [DOMAIN made -> Records] /\ DOMAIN made \in SUBSET Nat
        BY <2>1
      <4> QED
        BY <3>1, <4>1, <4>2, OnlyRecordDecides
    <3> DEFINE acceptance == given[c].acceptances[i]
    <3>3. PICK documents : documents = loads[c][i]
      OBVIOUS
    <3>4. Earns(documents, c, i)
      BY <2>1, <3>1, <3>3 DEF EarnedSoFar
    <3>5. documents[slug].policy = last[slug].policy
      BY <2>2, <3>1, <3>3 DEF RevisedUnderway
    <3>6. /\ acceptance.slug = slug
          /\ made[i].version = acceptance.version
          /\ made[i].kind = KindFor(documents[slug].policy.requirement)
      <4> DEFINE earned == AcceptanceRecord(documents, acceptance, given[c].subject,
                                            "registration", given[c].now)
      <4>1. made[i] = earned
        BY <3>4 DEF Earns
      <4>2. /\ earned.slug = acceptance.slug /\ earned.version = acceptance.version
            /\ earned.kind = KindFor(documents[acceptance.slug].policy.requirement)
        BY DEF AcceptanceRecord
      <4> HIDE DEF earned, acceptance
      <4> QED
        BY <3>1, <4>1, <4>2
    <3>7. acceptance.version = last[slug].policy.version
      BY <3>4, <3>5, <3>6 DEF Earns, Refusal, Stale
    <3>8. last[slug].policy.requirement = "accept"
      BY <2>2 DEF MustAccept
    <3>9. made[i].kind = "accepted"
      BY <3>5, <3>6, <3>8 DEF KindFor
    <3> HIDE DEF acceptance
    <3> QED
      BY <3>2, <3>6, <3>7, <3>9 DEF Outstanding, Satisfies
  <2>3. ASSUME NEW slug \in DOMAIN status
        PROVE  /\ status[slug].outstanding = Outstanding(last[slug].policy, slug, made)
               /\ status[slug].blocking => slug \in MustAccept(last)
               /\ status[slug].blocking => status[slug].outstanding
    <3> DEFINE policies == ConsentPolicies(last)
    <3>1. /\ slug \in DOMAIN policies
          /\ status[slug].outstanding = Outstanding(policies[slug], slug, made)
          /\ status[slug].blocking = Blocking(policies[slug], slug, made, now)
      BY <2>3 DEF ConsentStatus, Evaluate
    <3>2. slug \in DOMAIN last /\ policies[slug] = last[slug].policy
      BY <3>1 DEF ConsentPolicies
    <3> QED
      BY <3>1, <3>2 DEF Blocking, MustAccept
  <2> HIDE DEF status
  <2> QED
    BY <2>2, <2>3 DEF status
<1> QED
  BY <1>1, RegistrationInvariant, PTL
==============================================================================
