---------------------------- MODULE CatalogProofs ----------------------------
(***************************************************************************)
(* What validation guarantees of a published catalog, for every            *)
(* configuration, and what that means for the records which are verified   *)
(* against it: the lemmas that the proofs of the components rest on.       *)
(***************************************************************************)
EXTENDS ServedCatalog, Ranks, TLAPS, WellFoundedInduction, FiniteSetTheorems

\* Bodies that validation passes are a function from tags to texts.
LEMMA BodiesArePartial ==
  ASSUME NEW source, IsSource(source),
         source.url = "absent", BodyIssues(source.body) = {}
  PROVE  /\ IsPartial(Bodies(source), Locales, Texts)
         /\ DOMAIN source.body # {} => DOMAIN Bodies(source) # {}
<1> DEFINE body == source.body
           tags == {TagOf[k] : k \in DOMAIN body}
           text(tag) == body[CHOOSE k \in DOMAIN body : TagOf[k] = tag]
<1>1. /\ \A k \in DOMAIN body : TagOf[k] # NoLocale
      /\ \A k \in DOMAIN body : body[k] \notin {BlankText, OversizedText}
  BY DEF BodyIssues, Report
<1>2. DOMAIN body \subseteq Spellings
  BY DEF IsSource, IsPartial
<1>3. tags \subseteq Locales
  BY <1>1, <1>2, CatalogAssumption
<1>4. \A tag \in tags : text(tag) \in Texts
  <2> SUFFICES ASSUME NEW tag \in tags PROVE text(tag) \in Texts
    OBVIOUS
  <2>1. \E k \in DOMAIN body : TagOf[k] = tag
    OBVIOUS
  <2>2. (CHOOSE k \in DOMAIN body : TagOf[k] = tag) \in DOMAIN body
    BY <2>1
  <2>3. \A k \in DOMAIN body : body[k] \in Texts \cup {BlankText, OversizedText}
    BY DEF IsSource, IsPartial
  <2> QED
    BY <1>1, <2>2, <2>3
<1>5. Bodies(source) = [tag \in tags |-> text(tag)]
  BY DEF Bodies
<1>6. IsPartial(Bodies(source), Locales, Texts)
  <2> HIDE DEF tags, text
  <2> QED
    BY <1>3, <1>4, <1>5 DEF IsPartial
<1>7. DOMAIN body # {} => tags # {}
  OBVIOUS
<1> QED
  BY <1>5, <1>6, <1>7

\* Nothing is hosted for a document with a link.
LEMMA EmptyIsPartial ==
  ASSUME NEW S, NEW T
  PROVE  IsPartial(<< >>, S, T) /\ DOMAIN << >> = {}
BY DEF IsPartial

\* A policy, or its absence, that validation passes has the type of one, and
\* what is asked of a reader can be shown and accepted.
LEMMA PolicyIsDemonstrable ==
  ASSUME NEW source, IsSource(source), ConsentIssues(source) = {},
         IsPartial(Bodies(source), Locales, Texts)
  PROVE  /\ IsPolicy(PolicyOf(source))
         /\ source.requirement # "none" =>
              /\ source.url = "absent"
              /\ source.version \in Versions
              /\ source.grace_days > 0 => source.effective # NoDate
<1> DEFINE policy == PolicyOf(source)
<1>1. /\ source.requirement \in Requirements
      /\ source.version \in Versions \cup {NoVersion}
      /\ source.effective \in Dates \cup {NoDate, BadDate}
      /\ source.grace_days \in Nat
  BY DEF IsSource
<1>2. /\ ~ source.grace_days > 365
      /\ source.requirement # "none" =>
           /\ source.url = "absent"
           /\ source.version # NoVersion
           /\ source.effective # BadDate
           /\ ~ (source.grace_days > 0 /\ source.effective = NoDate)
  BY DEF ConsentIssues, GraceIssues, HostingIssues, Asks, Report
<1>3. CASE source.requirement = "none"
  <2>1. policy = NoPolicy
    BY <1>3 DEF PolicyOf
  <2>2. IsPolicy(NoPolicy)
    BY EmptyIsPartial DEF IsPolicy, NoPolicy, Requirements
  <2> QED
    BY <1>3, <2>1, <2>2
<1>4. CASE source.requirement # "none"
  <2>1. policy = [requirement |-> source.requirement, version |-> source.version,
                  effective |-> source.effective, grace_days |-> source.grace_days,
                  digests |-> Bodies(source)]
    BY <1>4 DEF PolicyOf
  <2>2. source.grace_days \in 0..365
    BY <1>1, <1>2
  <2>3. IsPolicy(policy)
    BY <1>1, <1>2, <1>4, <2>1, <2>2 DEF IsPolicy
  <2> QED
    BY <1>1, <1>2, <1>4, <2>3
<1> QED
  BY <1>3, <1>4

\* A document that validation passes is one, under a key that is a slug.
LEMMA ValidDocument ==
  ASSUME NEW key, NEW source, IsSource(source), DocumentIssues(key, source) = {}
  PROVE  /\ key \notin BadKeys
         /\ IsDocument(DocumentOf(source))
         /\ DocumentOf(source).kind = "external" => DocumentOf(source).bodies = << >>
         /\ DocumentOf(source).kind = "inline" => DOMAIN DocumentOf(source).bodies # {}
         /\ HasPolicy(DocumentOf(source)) =>
              /\ DocumentOf(source).kind = "inline"
              /\ DOMAIN DocumentOf(source).bodies # {}
              /\ DocumentOf(source).policy.version \in Versions
              /\ DocumentOf(source).policy.grace_days > 0 =>
                   DocumentOf(source).policy.effective # NoDate
              /\ DocumentOf(source).policy.digests = DocumentOf(source).bodies
<1> DEFINE document == DocumentOf(source)
<1>1. /\ key \notin BadKeys
      /\ source.heading # BadHeading
      /\ Hosted(source) <=> source.url = "absent"
      /\ source.url = "absent" => BodyIssues(source.body) = {}
      /\ ConsentIssues(source) = {}
  BY DEF DocumentIssues, Report, Hosted
<1>2. /\ IsPartial(Bodies(source), Locales, Texts)
      /\ Hosted(source) => DOMAIN Bodies(source) # {}
      /\ ~ Hosted(source) => Bodies(source) = << >>
  <2>1. CASE source.url = "absent"
    BY <1>1, <2>1, BodiesArePartial DEF Hosted
  <2>2. CASE source.url # "absent"
    BY <1>1, <2>2, EmptyIsPartial DEF Bodies
  <2> QED
    BY <2>1, <2>2
<1>3. /\ IsPolicy(PolicyOf(source))
      /\ source.requirement # "none" =>
           /\ source.url = "absent"
           /\ source.version \in Versions
           /\ source.grace_days > 0 => source.effective # NoDate
  BY <1>1, <1>2, PolicyIsDemonstrable
<1>4. /\ document.kind = IF Hosted(source) THEN "inline" ELSE "external"
      /\ document.heading = source.heading
      /\ document.bodies = Bodies(source)
      /\ document.policy = PolicyOf(source)
      /\ document \in [kind : {"inline", "external"}, heading : {source.heading},
                       bodies : {Bodies(source)}, policy : {PolicyOf(source)}]
  BY DEF DocumentOf
<1>5. source.heading \in Headings
  BY <1>1 DEF IsSource
<1>6. IsDocument(document)
  BY <1>2, <1>3, <1>4, <1>5 DEF IsDocument
<1>7. HasPolicy(document) <=> source.requirement # "none"
  BY <1>4 DEF HasPolicy, PolicyOf, NoPolicy
<1>8. source.requirement # "none" =>
        /\ PolicyOf(source).version = source.version
        /\ PolicyOf(source).grace_days = source.grace_days
        /\ PolicyOf(source).effective = source.effective
        /\ PolicyOf(source).digests = Bodies(source)
  BY DEF PolicyOf
<1> HIDE DEF document
<1>9. HasPolicy(document) =>
        /\ document.kind = "inline"
        /\ DOMAIN document.bodies # {}
        /\ document.policy.version \in Versions
        /\ document.policy.grace_days > 0 => document.policy.effective # NoDate
        /\ document.policy.digests = document.bodies
  BY <1>1, <1>2, <1>3, <1>4, <1>7, <1>8
<1>10. /\ document.kind = "external" => document.bodies = << >>
       /\ document.kind = "inline" => DOMAIN document.bodies # {}
  BY <1>2, <1>4
<1> QED
  BY <1>1, <1>6, <1>9, <1>10 DEF document

\* A valid configuration publishes a catalog, with every required document.
THEOREM ValidCatalog ==
  ASSUME NEW config, IsConfig(config), Valid(config)
  PROVE  /\ IsCatalog(CatalogOf(config))
         /\ Required \subseteq DOMAIN CatalogOf(config)
         /\ \A slug \in DOMAIN CatalogOf(config) :
              /\ CatalogOf(config)[slug] = DocumentOf(config[slug])
              /\ IsSource(config[slug])
              /\ DocumentIssues(slug, config[slug]) = {}
<1>1. \A key \in DOMAIN config : DocumentIssues(key, config[key]) = {}
  <2> SUFFICES ASSUME NEW key \in DOMAIN config,
                      NEW field \in DocumentIssues(key, config[key])
               PROVE  FALSE
    OBVIOUS
  <2>1. <<key, field>> \in Issues(config)
    BY DEF Issues
  <2> QED
    BY <2>1 DEF Valid
<1>2. Required \subseteq DOMAIN config
  <2> SUFFICES ASSUME NEW slug \in Required \ DOMAIN config PROVE FALSE
    OBVIOUS
  <2>1. <<slug, "required">> \in RuleIssues(config)
    BY DEF RuleIssues
  <2> QED
    BY <2>1 DEF Valid, Issues
<1>3. \A key \in DOMAIN config : IsSource(config[key])
  BY DEF IsConfig
<1>4. \A key \in DOMAIN config : key \in Slugs /\ IsDocument(DocumentOf(config[key]))
  BY <1>1, <1>3, ValidDocument DEF IsConfig, IsPartial
<1>5. /\ DOMAIN CatalogOf(config) = DOMAIN config
      /\ \A key \in DOMAIN config : CatalogOf(config)[key] = DocumentOf(config[key])
  BY DEF CatalogOf
<1>6. IsCatalog(CatalogOf(config))
  <2> DEFINE documents == CatalogOf(config)
  <2>1. documents \in [DOMAIN documents -> {documents[slug] : slug \in DOMAIN documents}]
    BY DEF CatalogOf
  <2> QED
    BY <1>4, <1>5, <2>1 DEF IsCatalog, IsPartial
<1> QED
  BY <1>1, <1>2, <1>3, <1>5, <1>6

------------------------------------------------------------------------------
(***************************************************************************)
(* The catalog behind the handle.                                          *)
(***************************************************************************)
\* A valid configuration is served as a catalog that can be relied on.
LEMMA ValidIsWellFormed ==
  ASSUME NEW config \in Configs, Valid(config)
  PROVE  IsCatalog(CatalogOf(config)) /\ WellFormed(CatalogOf(config))
<1> DEFINE documents == CatalogOf(config)
<1>1. IsConfig(config)
  BY ServedAssumption
<1>2. /\ IsCatalog(documents)
      /\ Required \subseteq DOMAIN documents
      /\ \A slug \in DOMAIN documents :
           /\ documents[slug] = DocumentOf(config[slug])
           /\ IsSource(config[slug])
           /\ DocumentIssues(slug, config[slug]) = {}
  BY <1>1, ValidCatalog
<1>3. ASSUME NEW slug \in DOMAIN documents
      PROVE  /\ Demonstrable(documents[slug])
             /\ documents[slug].kind = "external" => documents[slug].bodies = << >>
             /\ documents[slug].kind = "inline" => DOMAIN documents[slug].bodies # {}
  <2> HIDE DEF documents
  <2> DEFINE document == DocumentOf(config[slug])
  <2>1. /\ document.kind = "external" => document.bodies = << >>
        /\ document.kind = "inline" => DOMAIN document.bodies # {}
        /\ HasPolicy(document) =>
             /\ document.kind = "inline"
             /\ DOMAIN document.bodies # {}
             /\ document.policy.version \in Versions
             /\ document.policy.grace_days > 0 => document.policy.effective # NoDate
             /\ document.policy.digests = document.bodies
    BY <1>2, <1>3, ValidDocument
  <2>2. documents[slug] = document
    BY <1>2, <1>3
  <2> QED
    BY <2>1, <2>2 DEF Demonstrable
<1> QED
  BY <1>2, <1>3 DEF WellFormed

\* So is every catalog that can be built.
LEMMA BuiltIsWellFormed ==
  ASSUME NEW documents \in Built
  PROVE  IsCatalog(documents) /\ WellFormed(documents)
<1>1. PICK config \in Configs : Valid(config) /\ documents = CatalogOf(config)
  BY DEF Built
<1> QED
  BY <1>1, ValidIsWellFormed

\* A document it hosts has texts to serve.
LEMMA HostedDocument ==
  ASSUME NEW documents \in Built, NEW slug \in DOMAIN documents,
         documents[slug].kind = "inline"
  PROVE  /\ slug \in Slugs
         /\ documents[slug].heading \in Headings
         /\ documents[slug].policy.requirement \in Requirements
         /\ documents[slug].policy.version \in Versions \cup {NoVersion}
         /\ DOMAIN documents[slug].bodies \subseteq Locales
         /\ DOMAIN documents[slug].bodies # {}
         /\ \A locale \in DOMAIN documents[slug].bodies :
              documents[slug].bodies[locale] \in Texts
<1>1. IsCatalog(documents) /\ WellFormed(documents)
  BY BuiltIsWellFormed
<1>2. slug \in Slugs /\ IsDocument(documents[slug])
  BY <1>1 DEF IsCatalog, IsPartial
<1>3. DOMAIN documents[slug].bodies # {}
  BY <1>1 DEF WellFormed
<1> QED
  BY <1>2, <1>3 DEF IsDocument, IsPolicy, IsPartial

------------------------------------------------------------------------------
(***************************************************************************)
(* Records that quote it.                                                  *)
(***************************************************************************)
\* A nonempty set of numbers has a least element (a document has a first locale).
LEMMA LeastExists ==
  ASSUME NEW S \in SUBSET Nat, S # {}
  PROVE  \E x \in S : \A y \in S : x <= y
<1>1. PICK x \in S : \A y \in S : ~ (<<y, x>> \in OpToRel(<, Nat))
  BY WFMin, NatLessThanWellFounded, Zenon
<1>2. \A y \in S : ~ (y < x)
  BY <1>1, Zenon DEF OpToRel
<1> QED
  BY <1>2

Predecessors(S, R, i) == {j \in S : <<j, i>> \in R}

\* Of a finite set in strict order each rank is taken: no two elements share one.
LEMMA EveryRankIsTaken ==
  ASSUME NEW S, IsFiniteSet(S), NEW R,
         \A i \in S : <<i, i>> \notin R,
         \A i, j \in S : i # j => <<i, j>> \in R \/ <<j, i>> \in R,
         \A i, j, k \in S : <<i, j>> \in R /\ <<j, k>> \in R => <<i, k>> \in R
  PROVE  /\ Cardinality(S) \in Nat
         /\ \A i \in S : Cardinality(Predecessors(S, R, i)) \in 0..(Cardinality(S) - 1)
         /\ \A i, k \in S : <<i, k>> \in R =>
              Cardinality(Predecessors(S, R, i)) < Cardinality(Predecessors(S, R, k))
         /\ \A n \in 1..Cardinality(S) : \E i \in S : Cardinality(Predecessors(S, R, i)) = n - 1
<1> DEFINE size == Cardinality(S)
           rank == [i \in S |-> Cardinality(Predecessors(S, R, i))]
<1>1. size \in Nat
  BY FS_CardinalityType
<1>2. ASSUME NEW i \in S
      PROVE  /\ IsFiniteSet(Predecessors(S, R, i)) /\ i \notin Predecessors(S, R, i)
             /\ rank[i] \in 0..(size - 1)
  <2>1. Predecessors(S, R, i) \in SUBSET S /\ i \notin Predecessors(S, R, i)
    BY DEF Predecessors
  <2>2. /\ IsFiniteSet(Predecessors(S, R, i))
        /\ Cardinality(Predecessors(S, R, i)) <= size
        /\ size = Cardinality(Predecessors(S, R, i)) => S = Predecessors(S, R, i)
    BY <2>1, FS_Subset
  <2>3. Cardinality(Predecessors(S, R, i)) \in Nat
    BY <2>2, FS_CardinalityType
  <2>4. size # Cardinality(Predecessors(S, R, i))
    BY <2>1, <2>2
  <2> QED
    BY <1>1, <2>1, <2>2, <2>3, <2>4
<1>3. ASSUME NEW i \in S, NEW k \in S, <<i, k>> \in R
      PROVE  rank[i] < rank[k]
  <2>1. Predecessors(S, R, i) \in SUBSET Predecessors(S, R, k)
    BY <1>3 DEF Predecessors
  <2>2. i \in Predecessors(S, R, k) /\ i \notin Predecessors(S, R, i)
    BY <1>2, <1>3 DEF Predecessors
  <2>3. /\ Cardinality(Predecessors(S, R, i)) <= Cardinality(Predecessors(S, R, k))
        /\ Cardinality(Predecessors(S, R, k)) = Cardinality(Predecessors(S, R, i))
             => Predecessors(S, R, k) = Predecessors(S, R, i)
    BY <1>2, <2>1, FS_Subset
  <2>4. rank[i] <= rank[k] /\ rank[i] # rank[k]
    BY <2>2, <2>3
  <2> QED
    BY <1>1, <1>2, <2>4
<1> HIDE DEF rank
<1>4. rank \in [S -> 0..(size - 1)]
  BY <1>2 DEF rank
<1>5. ASSUME NEW i \in S, NEW k \in S, rank[i] = rank[k] PROVE i = k
  <2>1. rank[i] \in Int
    BY <1>4
  <2>2. ~ (rank[i] < rank[k]) /\ ~ (rank[k] < rank[i])
    BY <1>5, <2>1
  <2> QED
    BY <1>3, <2>2
<1>6. rank \in Injection(S, 0..(size - 1))
  BY <1>4, <1>5 DEF Injection, IsInjective
<1>7. IsFiniteSet(0..(size - 1)) /\ Cardinality(0..(size - 1)) = size
  <2> HIDE DEF size
  <2>1. size - 1 \in Int /\ (0 > size - 1 => size = 0) /\ size - 1 - 0 + 1 = size
    BY <1>1
  <2> QED
    BY <2>1, FS_Interval
<1>8. rank \in Surjection(S, 0..(size - 1))
  BY <1>6, <1>7, FS_Injection
<1>9. ASSUME NEW n \in 1..size PROVE \E i \in S : Cardinality(Predecessors(S, R, i)) = n - 1
  <2>1. n - 1 \in 0..(size - 1)
    BY <1>1
  <2>2. PICK i \in S : rank[i] = n - 1
    BY <1>8, <2>1 DEF Surjection
  <2> QED
    BY <2>2 DEF rank
<1>10. /\ \A i \in S : Cardinality(Predecessors(S, R, i)) \in 0..(size - 1)
       /\ \A i, k \in S : <<i, k>> \in R =>
            Cardinality(Predecessors(S, R, i)) < Cardinality(Predecessors(S, R, k))
  BY <1>2, <1>3 DEF rank
<1> QED
  BY <1>1, <1>9, <1>10

\* Each number of a finite set has its place in the list of them, and each place is taken.
LEMMA AscendingEnumerates ==
  ASSUME NEW S \in SUBSET Nat, IsFiniteSet(S)
  PROVE  /\ Cardinality(S) \in Nat
         /\ Ascending(S) \in [1..Cardinality(S) -> S]
         /\ \A i \in S : \E n \in 1..Cardinality(S) : Ascending(S)[n] = i
         /\ \A m, n \in 1..Cardinality(S) : m < n => Ascending(S)[m] < Ascending(S)[n]
         /\ \A n \in 1..Cardinality(S) :
              Cardinality({j \in S : j < Ascending(S)[n]}) = n - 1
<1> DEFINE order == {p \in S \X S : p[1] < p[2]}
           Place(i) == Cardinality({j \in S : j < i})
<1>1. \A i, j \in S : <<i, j>> \in order <=> i < j
  OBVIOUS
<1>2. \A i \in S : Predecessors(S, order, i) = {j \in S : j < i}
  BY <1>1 DEF Predecessors
<1>3. /\ \A i \in S : <<i, i>> \notin order
      /\ \A i, j \in S : i # j => <<i, j>> \in order \/ <<j, i>> \in order
      /\ \A i, j, k \in S : <<i, j>> \in order /\ <<j, k>> \in order => <<i, k>> \in order
  BY <1>1
<1> HIDE DEF order
<1>4. /\ Cardinality(S) \in Nat
      /\ \A i \in S : Cardinality(Predecessors(S, order, i)) \in 0..(Cardinality(S) - 1)
      /\ \A i, k \in S : <<i, k>> \in order =>
           Cardinality(Predecessors(S, order, i)) < Cardinality(Predecessors(S, order, k))
      /\ \A n \in 1..Cardinality(S) :
           \E i \in S : Cardinality(Predecessors(S, order, i)) = n - 1
  BY <1>3, EveryRankIsTaken
<1>5. /\ \A i \in S : Place(i) \in 0..(Cardinality(S) - 1)
      /\ \A i, k \in S : i < k => Place(i) < Place(k)
      /\ \A n \in 1..Cardinality(S) : \E i \in S : Place(i) = n - 1
  BY <1>1, <1>2, <1>4
<1>6. Ascending(S) = [n \in 1..Cardinality(S) |-> CHOOSE i \in S : Place(i) = n - 1]
  BY DEF Ascending
<1> HIDE DEF Place
<1>7. \A n \in 1..Cardinality(S) : Ascending(S)[n] \in S /\ Place(Ascending(S)[n]) = n - 1
  BY <1>5, <1>6
<1>8. ASSUME NEW i \in S PROVE \E n \in 1..Cardinality(S) : Ascending(S)[n] = i
  <2>1. PICK place : place = Place(i)
    OBVIOUS
  <2>2. place \in 0..(Cardinality(S) - 1)
    BY <1>5, <2>1
  <2>3. place + 1 \in 1..Cardinality(S) /\ (place + 1) - 1 = place
    BY <1>4, <2>2
  <2>4. PICK k : k = Ascending(S)[place + 1]
    OBVIOUS
  <2>5. k \in S /\ Place(k) = Place(i)
    BY <1>7, <2>1, <2>3, <2>4
  <2>6. ~ (Place(k) < Place(i)) /\ ~ (Place(i) < Place(k))
    BY <1>5, <2>1, <2>2, <2>5
  <2>7. k = i
    BY <1>5, <2>5, <2>6
  <2> QED
    BY <2>3, <2>4, <2>7
<1>9. ASSUME NEW m \in 1..Cardinality(S), NEW n \in 1..Cardinality(S), m < n
      PROVE  Ascending(S)[m] < Ascending(S)[n]
  <2>1. PICK i, k : i = Ascending(S)[m] /\ k = Ascending(S)[n]
    OBVIOUS
  <2>2. i \in S /\ k \in S /\ Place(i) = m - 1 /\ Place(k) = n - 1
    BY <1>7, <2>1
  <2>3. m - 1 < n - 1 /\ ~ (n - 1 < m - 1)
    BY <1>4, <1>9
  <2>4. i # k /\ ~ (k < i)
    BY <1>5, <2>2, <2>3
  <2>5. i < k
    BY <2>2, <2>4
  <2> QED
    BY <2>1, <2>5
<1>10. \A n \in 1..Cardinality(S) : Cardinality({j \in S : j < Ascending(S)[n]}) = n - 1
  BY <1>7 DEF Place
<1> QED
  BY <1>4, <1>6, <1>7, <1>8, <1>9, <1>10

\* The locale of a withdrawal is one the document is published in.
LEMMA WithdrawalLocalePublished ==
  ASSUME NEW document, NEW slug, NEW latest,
         DOMAIN document.bodies \in SUBSET Nat, DOMAIN document.bodies # {}
  PROVE  WithdrawalLocale(document, slug, latest) \in DOMAIN document.bodies
<1> DEFINE published == DOMAIN document.bodies
           last == {latest[i].locale : i \in Newest(latest, slug)} \cap published
           first == CHOOSE locale \in published : \A other \in published : locale <= other
<1>1. \E x \in published : \A y \in published : x <= y
  BY LeastExists
<1>2. first \in published
  BY <1>1
<1>3. WithdrawalLocale(document, slug, latest) =
        IF last # {} THEN CHOOSE locale \in last : TRUE ELSE first
  BY Zenon DEF WithdrawalLocale
<1>4. last # {} => (CHOOSE locale \in last : TRUE) \in published
  OBVIOUS
<1> QED
  BY <1>2, <1>3, <1>4

\* What a buildable catalog says of a document that can be accepted.
LEMMA ConsentableDocument ==
  ASSUME NEW documents \in Built, NEW slug, Consentable(documents, slug)
  PROVE  /\ slug \in Slugs
         /\ documents[slug].policy.version \in Versions
         /\ documents[slug].policy.requirement \in Requirements
         /\ DOMAIN documents[slug].bodies \subseteq Locales
         /\ DOMAIN documents[slug].bodies # {}
         /\ \A locale \in DOMAIN documents[slug].bodies :
              documents[slug].bodies[locale] \in Texts
<1>1. IsCatalog(documents) /\ WellFormed(documents)
  BY BuiltIsWellFormed
<1>2. slug \in DOMAIN documents /\ HasPolicy(documents[slug])
  BY DEF Consentable
<1>3. slug \in Slugs /\ IsDocument(documents[slug]) /\ Demonstrable(documents[slug])
  BY <1>1, <1>2 DEF IsCatalog, IsPartial, WellFormed
<1> QED
  BY <1>2, <1>3 DEF IsDocument, IsPolicy, IsPartial, Demonstrable

\* An acceptance that is not refused gives a record, quoted from the catalog.
LEMMA AcceptanceIsQuoted ==
  ASSUME NEW documents \in Built, NEW acceptance \in Acceptances,
         NEW subject \in Subjects, NEW channel \in Channels, NEW at \in Instants,
         Refusal(documents, acceptance) = "none"
  PROVE  LET record == AcceptanceRecord(documents, acceptance, subject, channel, at)
             document == documents[acceptance.slug]
         IN  /\ record \in Records
             /\ record.slug = acceptance.slug
             /\ Consentable(documents, record.slug)
             /\ record.version = document.policy.version
             /\ record.locale \in DOMAIN document.bodies
             /\ record.digest = document.bodies[record.locale]
             /\ record.kind = KindFor(document.policy.requirement)
<1> DEFINE document == documents[acceptance.slug]
<1>1. /\ Consentable(documents, acceptance.slug)
      /\ acceptance.locale \in DOMAIN document.bodies
      /\ acceptance.version = document.policy.version
      /\ acceptance.digest = document.bodies[acceptance.locale]
  BY DEF Refusal, Stale
<1>2. acceptance.slug \in Slugs /\ acceptance.version \in Versions
  BY <1>1, ConsentableDocument
<1>3. KindFor(document.policy.requirement) \in Kinds
  BY DEF KindFor, Kinds
<1> HIDE DEF document
<1>4. AcceptanceRecord(documents, acceptance, subject, channel, at) =
        [subject |-> subject, slug |-> acceptance.slug,
         version |-> acceptance.version, locale |-> acceptance.locale,
         digest |-> acceptance.digest, kind |-> KindFor(document.policy.requirement),
         channel |-> channel, at |-> at]
  BY DEF AcceptanceRecord, document
<1> QED
  BY <1>1, <1>2, <1>3, <1>4 DEF Records, Acceptances, document

\* So does a withdrawal from a document that can be accepted.
LEMMA WithdrawalIsQuoted ==
  ASSUME NEW documents \in Built, NEW slug, Consentable(documents, slug),
         NEW subject \in Subjects, NEW latest, NEW at \in Instants
  PROVE  LET record == WithdrawalRecord(documents, slug, subject, latest, at)
             document == documents[slug]
         IN  /\ record \in Records
             /\ record.slug = slug
             /\ record.version = document.policy.version
             /\ record.locale \in DOMAIN document.bodies
             /\ record.digest = document.bodies[record.locale]
             /\ record.kind = "withdrawn"
<1> DEFINE document == documents[slug]
           locale == WithdrawalLocale(document, slug, latest)
<1>1. /\ slug \in Slugs
      /\ document.policy.version \in Versions
      /\ DOMAIN document.bodies \subseteq Locales
      /\ DOMAIN document.bodies # {}
      /\ \A tag \in DOMAIN document.bodies : document.bodies[tag] \in Texts
  BY ConsentableDocument
<1>2. locale \in DOMAIN document.bodies
  <2>1. DOMAIN document.bodies \in SUBSET Nat
    BY <1>1, CatalogAssumption
  <2> QED
    BY <1>1, <2>1, WithdrawalLocalePublished
<1>3. WithdrawalRecord(documents, slug, subject, latest, at) =
        [subject |-> subject, slug |-> slug, version |-> document.policy.version,
         locale |-> locale, digest |-> document.bodies[locale],
         kind |-> "withdrawn", channel |-> "api", at |-> at]
  BY DEF WithdrawalRecord
<1> HIDE DEF document, locale
<1> QED
  BY <1>1, <1>2, <1>3 DEF Records, Kinds, Channels, document

------------------------------------------------------------------------------
(***************************************************************************)
(* The order of records that decides.                                      *)
(***************************************************************************)
\* The numbers it compares.
LEMMA RecordKeys ==
  ASSUME NEW record \in Records
  PROVE  /\ record.at \in Nat /\ record.version \in Nat /\ record.digest \in Nat
         /\ record.kind \in Kinds /\ TieBreak[record.kind] \in Nat
<1>1. /\ record.at \in Instants /\ record.version \in Versions
      /\ record.digest \in Texts /\ record.kind \in Kinds
  BY DEF Records
<1>2. Instants \subseteq Nat /\ Versions \subseteq Nat /\ Texts \subseteq Nat
  BY CatalogAssumption DEF Instants
<1>3. TieBreak[record.kind] \in Nat
  BY <1>1 DEF TieBreak, Kinds
<1> QED
  BY <1>1, <1>2, <1>3

\* The tie break tells the kinds apart.
LEMMA TieBreakIsInjective ==
  \A one, other \in Kinds : TieBreak[one] = TieBreak[other] => one = other
BY DEF TieBreak, Kinds

\* Two records agree on all that is compared.
SameKey(a, b) ==
  a.at = b.at /\ a.kind = b.kind /\ a.version = b.version /\ a.digest = b.digest

\* It is a strict order, and records between which it does not decide agree on all
\* that it compares.
LEMMA PrecedesIsAnOrder ==
  /\ \A a \in Records : ~ Precedes(a, a)
  /\ \A a, b \in Records : Precedes(a, b) => ~ Precedes(b, a)
  /\ \A a, b, c \in Records : Precedes(a, b) /\ Precedes(b, c) => Precedes(a, c)
  /\ \A a, b \in Records :
       ~ Precedes(a, b) /\ ~ Precedes(b, a) => SameKey(a, b)
<1> DEFINE Key(record) ==
      <<record.at, TieBreak[record.kind], record.version, record.digest>>
           Below(k, l) ==
      \/ k[1] < l[1]
      \/ /\ k[1] = l[1]
         /\ \/ k[2] < l[2]
            \/ /\ k[2] = l[2]
               /\ \/ k[3] < l[3]
                  \/ k[3] = l[3] /\ k[4] < l[4]
<1>1. \A record \in Records : Key(record) \in Nat \X Nat \X Nat \X Nat
  BY RecordKeys
<1>2. ASSUME NEW a \in Records, NEW b \in Records
      PROVE  Precedes(a, b) <=> Below(Key(a), Key(b))
  <2>1. a.kind = b.kind <=> TieBreak[a.kind] = TieBreak[b.kind]
    BY RecordKeys, TieBreakIsInjective
  <2> QED
    BY <2>1 DEF Precedes
<1>3. ASSUME NEW k \in Nat \X Nat \X Nat \X Nat PROVE ~ Below(k, k)
  OBVIOUS
<1>4. ASSUME NEW k \in Nat \X Nat \X Nat \X Nat, NEW l \in Nat \X Nat \X Nat \X Nat
      PROVE  /\ Below(k, l) => ~ Below(l, k)
             /\ ~ Below(k, l) /\ ~ Below(l, k) =>
                  k[1] = l[1] /\ k[2] = l[2] /\ k[3] = l[3] /\ k[4] = l[4]
  OBVIOUS
<1>5. ASSUME NEW k \in Nat \X Nat \X Nat \X Nat, NEW l \in Nat \X Nat \X Nat \X Nat,
             NEW m \in Nat \X Nat \X Nat \X Nat
      PROVE  Below(k, l) /\ Below(l, m) => Below(k, m)
  OBVIOUS
<1>6. \A a, b \in Records :
        Key(a)[1] = a.at /\ Key(a)[2] = TieBreak[a.kind] /\ Key(a)[3] = a.version
          /\ Key(a)[4] = a.digest
  OBVIOUS
<1> HIDE DEF Key, Below
<1>7. \A a, b \in Records :
        ~ Precedes(a, b) /\ ~ Precedes(b, a) => SameKey(a, b)
  <2> SUFFICES ASSUME NEW a \in Records, NEW b \in Records,
                      ~ Precedes(a, b), ~ Precedes(b, a)
               PROVE  SameKey(a, b)
    OBVIOUS
  <2>1. /\ a.at = b.at /\ TieBreak[a.kind] = TieBreak[b.kind]
        /\ a.version = b.version /\ a.digest = b.digest
    BY <1>1, <1>2, <1>4, <1>6
  <2> QED
    BY <2>1, RecordKeys, TieBreakIsInjective DEF SameKey
<1> QED
  BY <1>1, <1>2, <1>3, <1>4, <1>5, <1>7

\* A verdict on a document rests on the deciding records alone.
LEMMA VerdictOfDeciding ==
  ASSUME NEW policy, NEW slug, NEW one, NEW other, NEW instant,
         Deciding(one, slug) = Deciding(other, slug),
         \A i \in Deciding(one, slug) : one[i] = other[i]
  PROVE  /\ Outstanding(policy, slug, one) = Outstanding(policy, slug, other)
         /\ Blocking(policy, slug, one, instant) = Blocking(policy, slug, other, instant)
         /\ ContentChangedSince(policy, slug, one) = ContentChangedSince(policy, slug, other)
<1>1. Outstanding(policy, slug, one) = Outstanding(policy, slug, other)
  BY DEF Outstanding
<1>2. ContentChangedSince(policy, slug, one) = ContentChangedSince(policy, slug, other)
  BY DEF ContentChangedSince
<1> QED
  BY <1>1, <1>2 DEF Blocking
==============================================================================
