--------------------------- MODULE LegalHandleProofs ---------------------------
(***************************************************************************)
(* Proofs about LegalHandle: its types, the well-formedness of what it     *)
(* serves, that it implements CatalogRegister, that the index and the      *)
(* documents of what a reader took from it agree, and that the tag of an   *)
(* index is that of no other.                                              *)
(***************************************************************************)
EXTENDS IndexTag, CatalogProofs, SequenceTheorems

(***************************************************************************)
(* Well-formedness is inductive only together with what the callers hold:  *)
(* a catalog that waits to be swapped in is one that was built, and so is  *)
(* what readers took.                                                      *)
(***************************************************************************)
PendingIsBuilt ==
  \A r \in Replacers : next[r].pending => next[r].documents \in Built

HeldIsBuilt ==
  /\ catalog.documents \in Built
  /\ \A d \in Readers : held[d].documents \in Built

HandleInv == TypeOK /\ ServedIsWellFormed /\ PendingIsBuilt /\ HeldIsBuilt

\* A caller that has nothing pending holds no document.
LEMMA NothingIsCatalog == IsCatalog(<< >>)
BY EmptyIsPartial DEF IsCatalog, IsPartial

\* The invariant holds initially.
LEMMA InitHandleInv == Init => HandleInv
<1> SUFFICES ASSUME Init PROVE HandleInv
  OBVIOUS
<1>1. PICK config \in Configs :
        /\ Valid(config)
        /\ catalog = [generation |-> 0, documents |-> CatalogOf(config)]
  BY DEF Init
<1>2. /\ IsCatalog(catalog.documents) /\ WellFormed(catalog.documents)
      /\ catalog.documents \in Built
  BY <1>1, ValidIsWellFormed DEF Built
<1>3. IsServed(catalog)
  BY <1>1, <1>2, ServedAssumption DEF IsServed
<1>4. /\ next = [r \in Replacers |-> NothingPending]
      /\ outcome = [r \in Replacers |-> "none"]
      /\ held = [d \in Readers |-> catalog]
  BY DEF Init
<1>5. TypeOK
  <2>1. \A r \in Replacers : IsCatalog(next[r].documents) /\ next[r] = NothingPending
    BY <1>4, NothingIsCatalog DEF NothingPending
  <2>2. next \in [Replacers -> {next[r] : r \in Replacers}]
    BY <1>4
  <2>3. held \in [Readers -> {held[d] : d \in Readers}]
    BY <1>4
  <2> QED
    BY <1>3, <1>4, <2>1, <2>2, <2>3 DEF TypeOK
<1>6. ServedIsWellFormed /\ PendingIsBuilt /\ HeldIsBuilt
  BY <1>2, <1>4 DEF ServedIsWellFormed, PendingIsBuilt, HeldIsBuilt, NothingPending
<1> QED
  BY <1>5, <1>6 DEF HandleInv

\* The wrapped number of the next catalog is in range.
LEMMA NextGenerationInRange ==
  ASSUME IsServed(catalog)
  PROVE  NextGeneration \in 0..(GenerationModulus - 1)
<1>1. catalog.generation \in Nat /\ GenerationModulus \in Nat \ {0}
  BY ServedAssumption DEF IsServed
<1> QED
  BY <1>1 DEF NextGeneration

\* Every step keeps it: a build refuses what is not valid, a swap publishes what
\* was built, and a reader copies what is served.
LEMMA NextHandleInv == HandleInv /\ [Next]_vars => HandleInv'
<1> SUFFICES ASSUME HandleInv, [Next]_vars PROVE HandleInv'
  OBVIOUS
<1> USE DEF HandleInv
<1>1. ASSUME NEW r \in Replacers, NEW config \in Configs, ReplaceBuild(r, config)
      PROVE  HandleInv'
  <2>1. UNCHANGED <<catalog, held>>
    BY <1>1 DEF ReplaceBuild
  <2>2. CASE Valid(config)
    <3> DEFINE documents == CatalogOf(config)
    <3>1. documents \in Built /\ IsCatalog(documents)
      BY <2>2, ValidIsWellFormed DEF Built
    <3>2. /\ next' = [next EXCEPT ![r] = Pending(documents)]
          /\ outcome' = [outcome EXCEPT ![r] = "pending"]
      BY <1>1, <2>2 DEF ReplaceBuild
    <3> HIDE DEF documents
    <3>3. /\ next' \in [Replacers -> {next'[q] : q \in Replacers}]
          /\ \A q \in Replacers :
               IF q = r THEN next'[q] = Pending(documents) ELSE next'[q] = next[q]
      BY <3>2 DEF TypeOK
    <3>4. Pending(documents).pending /\ Pending(documents).documents = documents
      BY DEF Pending
    <3>5. \A q \in Replacers :
            /\ IsCatalog(next'[q].documents)
            /\ next'[q] \in {NothingPending, Pending(next'[q].documents)}
      BY <3>1, <3>3, <3>4 DEF TypeOK
    <3>6. TypeOK'
      BY <2>1, <3>2, <3>3, <3>5 DEF TypeOK
    <3>7. PendingIsBuilt'
      BY <3>1, <3>3, <3>4 DEF PendingIsBuilt
    <3> QED
      BY <2>1, <3>6, <3>7 DEF ServedIsWellFormed, HeldIsBuilt
  <2>3. CASE ~ Valid(config)
    BY <1>1, <2>1, <2>3
       DEF ReplaceBuild, TypeOK, ServedIsWellFormed, PendingIsBuilt, HeldIsBuilt
  <2> QED
    BY <2>2, <2>3
<1>2. ASSUME NEW r \in Replacers, ReplaceSwap(r)
      PROVE  HandleInv'
  <2>1. /\ next[r].pending
        /\ catalog' = [generation |-> NextGeneration, documents |-> next[r].documents]
        /\ next' = [next EXCEPT ![r] = NothingPending]
        /\ outcome' = [outcome EXCEPT ![r] = "served"]
        /\ held' = held
    BY <1>2 DEF ReplaceSwap
  <2>2. IsCatalog(next[r].documents) /\ WellFormed(next[r].documents)
    BY <2>1, BuiltIsWellFormed DEF PendingIsBuilt
  <2>3. IsServed(catalog)'
    BY <2>1, <2>2, NextGenerationInRange DEF IsServed, TypeOK
  <2>4. /\ next' \in [Replacers -> {next'[q] : q \in Replacers}]
        /\ \A q \in Replacers :
             IF q = r THEN next'[q] = NothingPending ELSE next'[q] = next[q]
    BY <2>1 DEF TypeOK
  <2>5. IsCatalog(NothingPending.documents) /\ ~ NothingPending.pending
    BY NothingIsCatalog DEF NothingPending
  <2>6. \A q \in Replacers :
          /\ IsCatalog(next'[q].documents)
          /\ next'[q] \in {NothingPending, Pending(next'[q].documents)}
    BY <2>4, <2>5 DEF TypeOK
  <2>7. TypeOK'
    BY <2>1, <2>3, <2>4, <2>6 DEF TypeOK
  <2>8. ServedIsWellFormed' /\ PendingIsBuilt' /\ HeldIsBuilt'
    BY <2>1, <2>2, <2>4, <2>5 DEF ServedIsWellFormed, PendingIsBuilt, HeldIsBuilt
  <2> QED
    BY <2>7, <2>8
<1>3. ASSUME NEW d \in Readers, Take(d)
      PROVE  HandleInv'
  <2>1. /\ held' = [held EXCEPT ![d] = catalog]
        /\ UNCHANGED <<catalog, next, outcome>>
    BY <1>3 DEF Take
  <2>2. held' \in [Readers -> {held'[e] : e \in Readers}]
    BY <2>1 DEF TypeOK
  <2>3. \A e \in Readers : held'[e] = IF e = d THEN catalog ELSE held[e]
    BY <2>1 DEF TypeOK
  <2>4. \A e \in Readers : /\ IsServed(held'[e]) /\ WellFormed(held'[e].documents)
                           /\ held'[e].documents \in Built
    BY <2>3 DEF TypeOK, ServedIsWellFormed, HeldIsBuilt
  <2>5. TypeOK'
    BY <2>1, <2>2, <2>4 DEF TypeOK, IsServed
  <2> QED
    BY <2>1, <2>4, <2>5 DEF ServedIsWellFormed, PendingIsBuilt, HeldIsBuilt
<1>4. CASE UNCHANGED vars
  BY <1>4 DEF vars, TypeOK, IsServed, ServedIsWellFormed, PendingIsBuilt, HeldIsBuilt
<1> QED
  BY <1>1, <1>2, <1>3, <1>4 DEF Next

\* The invariant holds always.
LEMMA HandleInvariant == Spec => []HandleInv
BY InitHandleInv, NextHandleInv, PTL DEF Spec

\* For every number of callers and readers and every set of configurations, the
\* handle's state has its types, and the generation never leaves its width.
THEOREM TypeCorrect == Spec => []TypeOK
<1>1. HandleInv => TypeOK
  BY DEF HandleInv
<1> QED
  BY <1>1, HandleInvariant, PTL

\* However replacements interleave, no catalog is served, or held by a reader,
\* that validation would refuse: Legal::replace keeps the previous one serving.
THEOREM AlwaysServesWellFormed == Spec => []ServedIsWellFormed
<1>1. HandleInv => ServedIsWellFormed
  BY DEF HandleInv
<1> QED
  BY <1>1, HandleInvariant, PTL

\* Every swap publishes what was built, under the next number, and no other step
\* touches the catalog.
LEMMA StepImplementsRegister ==
  HandleInv /\ [Next]_vars =>
    [\E documents \in Built : Register!Publish(documents)]_catalog
<1> SUFFICES ASSUME HandleInv, [Next]_vars, catalog' # catalog
             PROVE  \E documents \in Built : Register!Publish(documents)
  OBVIOUS
<1>1. PICK r \in Replacers : ReplaceSwap(r)
  BY DEF Next, vars, ReplaceBuild, Take
<1>2. next[r].documents \in Built
  BY <1>1 DEF HandleInv, PendingIsBuilt, ReplaceSwap
<1>3. Register!Publish(next[r].documents)
  BY <1>1 DEF ReplaceSwap, NextGeneration, Register!Publish
<1> QED
  BY <1>2, <1>3

\* The handle starts as the register does.
LEMMA InitImplementsRegister == Init => Register!InitCatalog
BY DEF Init, Register!InitCatalog, Built

\* For any number of callers, building outside the lock and swapping under it
\* is one register replaced in single steps (Legal::replace: "The swap is
\* atomic").
THEOREM HandleImplementsRegister == Spec => ImplementsRegister
BY InitImplementsRegister, StepImplementsRegister, HandleInvariant, PTL
   DEF Spec, ImplementsRegister, Register!RegisterSpec

------------------------------------------------------------------------------
(***************************************************************************)
(* The readers of the index.                                               *)
(***************************************************************************)
\* Asking for the index leaves the handle alone.
LEMMA IndexHandleInvariant == IndexSpec => []HandleInv
<1>1. IndexInit => Init
  BY DEF IndexInit
<1>2. [IndexNext]_<<vars, indexVars>> => [Next]_vars
  BY DEF IndexNext, Answer
<1> QED
  BY <1>1, <1>2, InitHandleInv, NextHandleInv, PTL DEF IndexSpec

\* The list of the documents that a catalog publishes has its place for each.
LEMMA PublishedIsList ==
  ASSUME NEW documents
  PROVE  LET published == {i \in DOMAIN CatalogOrder : CatalogOrder[i] \in DOMAIN documents}
         IN  /\ Cardinality(published) \in Nat
             /\ Ascending(published) \in [1..Cardinality(published) -> published]
<1> DEFINE published == {i \in DOMAIN CatalogOrder : CatalogOrder[i] \in DOMAIN documents}
<1>1. DOMAIN CatalogOrder = 1..Len(CatalogOrder) /\ Len(CatalogOrder) \in Nat
  BY IndexAssumption
<1>2. published \in SUBSET (1..Len(CatalogOrder)) /\ published \in SUBSET Nat
  BY <1>1
<1>3. IsFiniteSet(1..Len(CatalogOrder))
  BY <1>1, FS_Interval
<1> HIDE DEF published
<1>4. IsFiniteSet(published)
  BY <1>2, <1>3, FS_Subset
<1>5. /\ Cardinality(published) \in Nat
      /\ Ascending(published) \in [1..Cardinality(published) -> published]
  BY <1>2, <1>4, AscendingEnumerates
<1> QED
  BY <1>5 DEF published

\* An index lists documents of its catalog.
LEMMA IndexListsDocuments ==
  ASSUME NEW documents, NEW lang, NEW n \in DOMAIN Index(documents, lang)
  PROVE  \E slug \in DOMAIN documents :
           Index(documents, lang)[n] = LegalIndexEntry(slug, documents[slug], lang)
<1> DEFINE published == {i \in DOMAIN CatalogOrder : CatalogOrder[i] \in DOMAIN documents}
           list == Ascending(published)
<1>1. list \in [1..Cardinality(published) -> published]
  BY PublishedIsList
<1>2. \A i \in published : CatalogOrder[i] \in DOMAIN documents
  OBVIOUS
<1>3. Index(documents, lang) =
        [m \in DOMAIN list |->
           LegalIndexEntry(CatalogOrder[list[m]], documents[CatalogOrder[list[m]]], lang)]
  BY DEF Index
<1> HIDE DEF published, list
<1>4. n \in DOMAIN list /\ list[n] \in published
  BY <1>1, <1>3
<1> QED
  BY <1>2, <1>3, <1>4

\* The entry of a hosted document has the title, the locale and the consent summary
\* of the very view that answers the same request.
LEMMA EntryAgreesWithView ==
  ASSUME NEW documents \in Built, NEW slug, Hosts(documents, slug), NEW lang
  PROVE  LET document == documents[slug]
             entry == LegalIndexEntry(slug, document, lang)
             view == ViewOf(slug, Negotiate(DOMAIN document.bodies, lang), document)
         IN  /\ entry.title = ViewTitle(view)
             /\ view.locale \in entry.locales
             /\ entry.consent # << >> => entry.consent[1] = view.consent
<1> DEFINE document == documents[slug]
           locale == Negotiate(DOMAIN document.bodies, lang)
           entry == LegalIndexEntry(slug, document, lang)
           view == ViewOf(slug, locale, document)
<1>1. /\ document.kind = "inline"
      /\ DOMAIN document.bodies # {} /\ DOMAIN document.bodies \subseteq Locales
  BY HostedDocument DEF Hosts
<1>2. locale \in DOMAIN document.bodies
  BY <1>1, LeastExists, CatalogAssumption DEF Negotiate
<1>3. /\ view.locale = locale /\ view.heading = document.heading
      /\ view.consent = ConsentSummary(document)
  BY DEF ViewOf
<1>4. /\ entry.title = Title(document, lang)
      /\ entry.locales = DOMAIN document.bodies
      /\ entry.consent = IF HasPolicy(document) THEN <<ConsentSummary(document)>> ELSE << >>
  BY <1>1 DEF LegalIndexEntry
<1> HIDE DEF entry, view
<1>5. Title(document, lang) = ViewTitle(view)
  BY <1>1, <1>3 DEF Title, ViewTitle, LocalesOf
<1> QED
  BY <1>2, <1>3, <1>4, <1>5 DEF entry, view

\* In whatever catalog a reader took, the index lists a hosted document as the very
\* variant that is served for the same request (Legal::index, Builder::document).
THEOREM IndexAgrees == IndexSpec => []IndexAgreesWithDocuments
<1>1. HandleInv => IndexAgreesWithDocuments
  <2> SUFFICES ASSUME HandleInv, NEW d \in Readers, NEW lang \in Locales,
                      NEW i \in DOMAIN Index(held[d].documents, lang),
                      Hosts(held[d].documents, Index(held[d].documents, lang)[i].slug)
               PROVE  LET documents == held[d].documents
                          entry == Index(documents, lang)[i]
                          document == documents[entry.slug]
                          view == ViewOf(entry.slug,
                                         Negotiate(DOMAIN document.bodies, lang), document)
                      IN  /\ entry.title = ViewTitle(view)
                          /\ view.locale \in entry.locales
                          /\ entry.consent # << >> => entry.consent[1] = view.consent
    BY DEF IndexAgreesWithDocuments
  <2> DEFINE documents == held[d].documents
             entry == Index(documents, lang)[i]
  <2>1. documents \in Built
    BY DEF HandleInv, HeldIsBuilt
  <2>2. PICK slug : entry = LegalIndexEntry(slug, documents[slug], lang)
    BY IndexListsDocuments
  <2>3. entry.slug = slug
    BY <2>2 DEF LegalIndexEntry
  <2>4. Hosts(documents, slug)
    BY <2>3
  <2> DEFINE view == ViewOf(slug, Negotiate(DOMAIN documents[slug].bodies, lang),
                            documents[slug])
  <2> HIDE DEF documents
  <2>5. LET listed == LegalIndexEntry(slug, documents[slug], lang)
        IN  /\ listed.title = ViewTitle(view)
            /\ view.locale \in listed.locales
            /\ listed.consent # << >> => listed.consent[1] = view.consent
    BY <2>1, <2>4, EntryAgreesWithView
  <2> HIDE DEF entry
  <2>6. /\ entry.title = ViewTitle(view)
        /\ view.locale \in entry.locales
        /\ entry.consent # << >> => entry.consent[1] = view.consent
    BY <2>2, <2>5
  <2>7. view = ViewOf(entry.slug, Negotiate(DOMAIN documents[entry.slug].bodies, lang),
                      documents[entry.slug])
    BY <2>3
  <2> QED
    BY <2>6, <2>7 DEF documents, entry
<1> QED
  BY <1>1, IndexHandleInvariant, PTL

------------------------------------------------------------------------------
(***************************************************************************)
(* The tag of the index.  Fields are read from the front: two sequences    *)
(* agree if neither differs from the other before one of them ends, and of *)
(* the fields of two different entries no two agree.                       *)
(***************************************************************************)
Agree(s, t) == \A i \in DOMAIN s \cap DOMAIN t : s[i] = t[i]

\* What agrees on the whole agrees at the front, and behind fronts that are equal.
LEMMA AgreeSplits ==
  ASSUME NEW S, NEW s \in Seq(S), NEW t \in Seq(S), NEW u \in Seq(S), NEW v \in Seq(S),
         Agree(s \o u, t \o v)
  PROVE  Agree(s, t) /\ (s = t => Agree(u, v))
<1>1. PICK a, b : a = s \o u /\ b = t \o v
  OBVIOUS
<1>2. /\ DOMAIN a = 1..(Len(s) + Len(u)) /\ DOMAIN b = 1..(Len(t) + Len(v))
      /\ \A i \in 1..(Len(s) + Len(u)) : a[i] = IF i <= Len(s) THEN s[i] ELSE u[i - Len(s)]
      /\ \A i \in 1..(Len(t) + Len(v)) : b[i] = IF i <= Len(t) THEN t[i] ELSE v[i - Len(t)]
  BY <1>1, ConcatProperties, LenProperties
<1>3. \A i \in DOMAIN a \cap DOMAIN b : a[i] = b[i]
  BY <1>1 DEF Agree
<1>4. /\ DOMAIN s = 1..Len(s) /\ DOMAIN t = 1..Len(t)
      /\ DOMAIN u = 1..Len(u) /\ DOMAIN v = 1..Len(v)
      /\ Len(s) \in Nat /\ Len(t) \in Nat /\ Len(u) \in Nat /\ Len(v) \in Nat
  OBVIOUS
<1>5. ASSUME NEW i \in DOMAIN s \cap DOMAIN t PROVE s[i] = t[i]
  <2>1. /\ i \in 1..(Len(s) + Len(u)) /\ i \in 1..(Len(t) + Len(v))
        /\ i <= Len(s) /\ i <= Len(t)
    BY <1>4
  <2>2. a[i] = s[i] /\ b[i] = t[i] /\ a[i] = b[i]
    BY <1>2, <1>3, <2>1
  <2> QED
    BY <2>2
<1>6. ASSUME s = t, NEW i \in DOMAIN u \cap DOMAIN v PROVE u[i] = v[i]
  <2>1. PICK k, n : k = Len(s) /\ n = k + i
    OBVIOUS
  <2>2. /\ n \in 1..(Len(s) + Len(u)) /\ n \in 1..(Len(t) + Len(v))
        /\ ~ (n <= Len(s)) /\ ~ (n <= Len(t)) /\ n - Len(s) = i /\ n - Len(t) = i
    BY <1>4, <1>6, <2>1
  <2>3. a[n] = u[i] /\ b[n] = v[i] /\ a[n] = b[n]
    BY <1>2, <1>3, <2>2
  <2> QED
    BY <2>3
<1> QED
  BY <1>5, <1>6 DEF Agree

\* What is written in an entry.
Titles(heading) == {TitlesOf[heading][l] : l \in DOMAIN TitlesOf[heading]}

Strings ==
  {"0", "1", "-", "url", "inline", "external"} \cup Requirements \cup Slugs
    \cup {LocaleText[l] : l \in Locales} \cup {VersionText[v] : v \in Versions}
    \cup {UpdatedOf[h][1] : h \in {k \in Headings : UpdatedOf[k] # NoText}}
    \cup UNION {Titles(h) : h \in Headings}

Fields == {Word(string) : string \in Strings} \cup {Number(n) : n \in Nat}

Optionals == {NoText} \cup {Text(string) : string \in Strings}

Summaries == {<< >>} \cup {<<s>> : s \in [requirement : Requirements, version : Versions]}

Entries ==
  {entry \in [slug : Slugs, kind : {"inline", "external"}, title : Optionals,
              updated : Optionals, url : Optionals, locales : SUBSET Locales,
              consent : Summaries] : IsFiniteSet(entry.locales)}

\* A word says what is written, and a number which.
LEMMA FieldsDiffer ==
  /\ \A x, y : Word(x) = Word(y) => x = y
  /\ \A x, y : Number(x) = Number(y) => x = y
BY DEF Word, Number

\* One field, or two, are fields to hash.
LEMMA FewFields ==
  ASSUME NEW p \in Fields, NEW q \in Fields
  PROVE  <<p>> \in Seq(Fields) /\ <<p, q>> \in Seq(Fields)
OBVIOUS

\* An absent text and a present one differ in their first field, two texts in their second.
LEMMA OptionalFields ==
  /\ \A text \in Optionals : Optional(text) \in Seq(Fields)
  /\ \A one, other \in Optionals : Agree(Optional(one), Optional(other)) => one = other
<1>1. Optional(NoText) = <<Word("0")>>
  BY DEF Optional
<1>2. ASSUME NEW x PROVE Optional(Text(x)) = <<Word("1"), Word(x)>>
  <2>1. Text(x) # NoText /\ Text(x)[1] = x
    BY DEF Text, NoText
  <2> QED
    BY <2>1 DEF Optional
<1>3. Word("0") \in Fields /\ Word("1") \in Fields /\ \A x \in Strings : Word(x) \in Fields
  BY DEF Fields, Strings
<1>4. ASSUME NEW text \in Optionals PROVE Optional(text) \in Seq(Fields)
  <2>1. CASE text = NoText
    BY <1>1, <1>3, <2>1, FewFields
  <2>2. CASE text # NoText
    <3>1. PICK x \in Strings : text = Text(x)
      BY <2>2 DEF Optionals
    <3>2. Optional(text) = <<Word("1"), Word(x)>>
      BY <1>2, <3>1
    <3> QED
      BY <1>3, <3>2, FewFields
  <2> QED
    BY <2>1, <2>2
<1>5. Word("0") # Word("1")
  BY FieldsDiffer
<1>6. ASSUME NEW x, NEW y, Agree(Optional(Text(x)), Optional(Text(y))) PROVE x = y
  <2>1. PICK p, q : p = Word(x) /\ q = Word(y)
    OBVIOUS
  <2>2. Agree(<<Word("1"), p>>, <<Word("1"), q>>)
    BY <1>2, <1>6, <2>1
  <2>3. p = q
    BY <2>2 DEF Agree
  <2> QED
    BY <2>1, <2>3, FieldsDiffer
<1>7. ASSUME NEW x PROVE ~ Agree(Optional(NoText), Optional(Text(x)))
  <2>1. PICK p, q, r : p = Word("0") /\ q = Word("1") /\ r = Word(x)
    OBVIOUS
  <2>2. Optional(NoText) = <<p>> /\ Optional(Text(x)) = <<q, r>> /\ p # q
    BY <1>1, <1>2, <1>5, <2>1
  <2> QED
    BY <2>2 DEF Agree
<1>8. ASSUME NEW x PROVE ~ Agree(Optional(Text(x)), Optional(NoText))
  BY <1>7 DEF Agree
<1>9. ASSUME NEW one \in Optionals, NEW other \in Optionals,
             Agree(Optional(one), Optional(other))
      PROVE  one = other
  <2>1. (one = NoText \/ \E x : one = Text(x)) /\ (other = NoText \/ \E y : other = Text(y))
    BY DEF Optionals
  <2> QED
    BY <1>6, <1>7, <1>8, <1>9, <2>1
<1> QED
  BY <1>4, <1>9

\* The locales are written one by one, behind their number.
LEMMA LocalesAreWritten ==
  ASSUME NEW locales \in SUBSET Locales, IsFiniteSet(locales)
  PROVE  \E size \in Nat : \E list \in [1..size -> locales], words \in Seq(Fields) :
           /\ \A l \in locales : \E n \in 1..size : list[n] = l
           /\ Len(words) = size /\ \A n \in 1..size : words[n] = Word(LocaleText[list[n]])
           /\ LocaleFields(locales) = <<Number(size)>> \o words
<1>1. locales \in SUBSET Nat
  BY CatalogAssumption
<1>2. PICK size : size = Cardinality(locales)
  OBVIOUS
<1>3. PICK list : list = Ascending(locales)
  OBVIOUS
<1>4. /\ size \in Nat /\ list \in [1..size -> locales]
      /\ \A l \in locales : \E n \in 1..size : list[n] = l
  BY <1>1, <1>2, <1>3, AscendingEnumerates
<1>5. Len(list) = size /\ DOMAIN list = 1..size
  BY <1>4
<1>6. PICK words : words = [n \in 1..size |-> Word(LocaleText[list[n]])]
  OBVIOUS
<1>7. LocaleFields(locales) = <<Number(size)>> \o words
  BY <1>3, <1>5, <1>6 DEF LocaleFields
<1>8. \A n \in 1..size : Word(LocaleText[list[n]]) \in Fields
  BY <1>4 DEF Fields, Strings
<1>9. words \in Seq(Fields) /\ Len(words) = size
  BY <1>4, <1>6, <1>8
<1> QED
  BY <1>4, <1>6, <1>7, <1>9

\* The number says where the list ends.
LEMMA LocaleFieldsDiffer ==
  ASSUME NEW one \in SUBSET Locales, NEW other \in SUBSET Locales,
         IsFiniteSet(one), IsFiniteSet(other)
  PROVE  /\ LocaleFields(one) \in Seq(Fields)
         /\ Agree(LocaleFields(one), LocaleFields(other)) => one = other
<1>1. PICK m \in Nat : \E list \in [1..m -> one], words \in Seq(Fields) :
        /\ \A l \in one : \E n \in 1..m : list[n] = l
        /\ Len(words) = m /\ \A n \in 1..m : words[n] = Word(LocaleText[list[n]])
        /\ LocaleFields(one) = <<Number(m)>> \o words
  BY LocalesAreWritten
<1>2. PICK ones \in [1..m -> one], u \in Seq(Fields) :
        /\ \A l \in one : \E n \in 1..m : ones[n] = l
        /\ Len(u) = m /\ \A n \in 1..m : u[n] = Word(LocaleText[ones[n]])
        /\ LocaleFields(one) = <<Number(m)>> \o u
  BY <1>1
<1>3. PICK k \in Nat : \E list \in [1..k -> other], words \in Seq(Fields) :
        /\ \A l \in other : \E n \in 1..k : list[n] = l
        /\ Len(words) = k /\ \A n \in 1..k : words[n] = Word(LocaleText[list[n]])
        /\ LocaleFields(other) = <<Number(k)>> \o words
  BY LocalesAreWritten
<1>4. PICK others \in [1..k -> other], v \in Seq(Fields) :
        /\ \A l \in other : \E n \in 1..k : others[n] = l
        /\ Len(v) = k /\ \A n \in 1..k : v[n] = Word(LocaleText[others[n]])
        /\ LocaleFields(other) = <<Number(k)>> \o v
  BY <1>3
<1>5. PICK p, q : p = Number(m) /\ q = Number(k)
  OBVIOUS
<1>6. <<p>> \in Seq(Fields) /\ <<q>> \in Seq(Fields)
  BY <1>5, FewFields DEF Fields
<1>7. LocaleFields(one) \in Seq(Fields)
  BY <1>2, <1>5, <1>6, ConcatProperties
<1>8. ASSUME Agree(LocaleFields(one), LocaleFields(other)) PROVE one = other
  <2>1. Agree(<<p>> \o u, <<q>> \o v)
    BY <1>2, <1>4, <1>5, <1>8
  <2>2. Agree(<<p>>, <<q>>) /\ (<<p>> = <<q>> => Agree(u, v))
    BY <1>6, <2>1, AgreeSplits
  <2>3. p = q
    BY <2>2 DEF Agree
  <2>4. m = k /\ Agree(u, v)
    BY <1>5, <2>2, <2>3, FieldsDiffer
  <2>5. ASSUME NEW n \in 1..m PROVE ones[n] = others[n]
    <3>1. n \in DOMAIN u \cap DOMAIN v
      BY <1>2, <1>4, <2>4
    <3>2. u[n] = v[n]
      BY <2>4, <3>1 DEF Agree
    <3>3. u[n] = Word(LocaleText[ones[n]]) /\ v[n] = Word(LocaleText[others[n]])
      BY <1>2, <1>4, <2>4
    <3>4. ones[n] \in Locales /\ others[n] \in Locales
      BY <2>4
    <3> QED
      BY <3>2, <3>3, <3>4, FieldsDiffer, TagAssumption
  <2>6. \A l \in one : l \in other
    BY <1>2, <2>4, <2>5
  <2>7. \A l \in other : l \in one
    BY <1>4, <2>4, <2>5
  <2> QED
    BY <2>6, <2>7
<1> QED
  BY <1>7, <1>8

\* No requirement is written as the mark for none.
LEMMA ConsentFieldsDiffer ==
  /\ \A consent \in Summaries : ConsentFields(consent) \in Seq(Fields)
  /\ \A one, other \in Summaries :
       Agree(ConsentFields(one), ConsentFields(other)) => one = other
<1>1. ConsentFields(<< >>) = <<Word("-")>>
  BY DEF ConsentFields
<1>2. ASSUME NEW s
      PROVE  ConsentFields(<<s>>) = <<Word(s.requirement), Word(VersionText[s.version])>>
  BY DEF ConsentFields
<1> DEFINE Asking == [requirement : Requirements, version : Versions]
<1>3. ASSUME NEW s \in Asking
      PROVE  /\ Word(s.requirement) \in Fields /\ Word(VersionText[s.version]) \in Fields
             /\ Word(s.requirement) # Word("-")
  <2>1. s.requirement \in Requirements /\ s.version \in Versions
    OBVIOUS
  <2>2. s.requirement # "-"
    BY <2>1 DEF Requirements
  <2> QED
    BY <2>1, <2>2, FieldsDiffer DEF Fields, Strings
<1>4. \A consent \in Summaries : consent = << >> \/ \E s \in Asking : consent = <<s>>
  BY DEF Summaries
<1>5. ASSUME NEW consent \in Summaries PROVE ConsentFields(consent) \in Seq(Fields)
  <2>1. CASE consent = << >>
    BY <1>1, <2>1, FewFields DEF Fields, Strings
  <2>2. ASSUME NEW s \in Asking, consent = <<s>> PROVE ConsentFields(consent) \in Seq(Fields)
    BY <1>2, <1>3, <2>2, FewFields
  <2> QED
    BY <1>4, <2>1, <2>2
<1>6. ASSUME NEW s \in Asking, NEW t \in Asking, Agree(ConsentFields(<<s>>), ConsentFields(<<t>>))
      PROVE  s = t
  <2>1. PICK p, q, x, y : /\ p = Word(s.requirement) /\ q = Word(t.requirement)
                          /\ x = Word(VersionText[s.version]) /\ y = Word(VersionText[t.version])
    OBVIOUS
  <2>2. Agree(<<p, x>>, <<q, y>>)
    BY <1>2, <1>6, <2>1
  <2>3. p = q /\ x = y
    BY <2>2 DEF Agree
  <2>4. s.requirement = t.requirement /\ VersionText[s.version] = VersionText[t.version]
    BY <2>1, <2>3, FieldsDiffer
  <2> QED
    BY <2>4, TagAssumption
<1>7. ASSUME NEW s \in Asking
      PROVE  ~ Agree(ConsentFields(<< >>), ConsentFields(<<s>>))
  <2>1. PICK p, q, x : /\ p = Word("-") /\ q = Word(s.requirement)
                       /\ x = Word(VersionText[s.version])
    OBVIOUS
  <2>2. ConsentFields(<< >>) = <<p>> /\ ConsentFields(<<s>>) = <<q, x>> /\ p # q
    BY <1>1, <1>2, <1>3, <2>1
  <2> QED
    BY <2>2 DEF Agree
<1>8. ASSUME NEW s \in Asking
      PROVE  ~ Agree(ConsentFields(<<s>>), ConsentFields(<< >>))
  BY <1>7 DEF Agree
<1> HIDE DEF Asking
<1>9. ASSUME NEW one \in Summaries, NEW other \in Summaries,
             Agree(ConsentFields(one), ConsentFields(other))
      PROVE  one = other
  <2>1. CASE one = << >>
    BY <1>4, <1>7, <1>9, <2>1
  <2>2. ASSUME NEW s \in Asking, one = <<s>> PROVE one = other
    BY <1>4, <1>6, <1>8, <1>9, <2>2
  <2> QED
    BY <1>4, <2>1, <2>2
<1> QED
  BY <1>5, <1>9

\* More fields behind some are still fields, and at least one.
LEMMA MoreFields ==
  ASSUME NEW s \in Seq(Fields), NEW t \in Seq(Fields), Len(s) > 0
  PROVE  s \o t \in Seq(Fields) /\ Len(s \o t) > 0
<1>1. Len(s) \in Nat /\ Len(t) \in Nat /\ s \o t \in Seq(Fields) /\ Len(s \o t) = Len(s) + Len(t)
  BY ConcatProperties, LenProperties
<1> QED
  BY <1>1

\* The members of an entry are written one behind another, and none that differs is
\* written as the beginning of another: no two entries begin alike to the end of one.
LEMMA EntryFieldsDiffer ==
  /\ \A entry \in Entries : EntryFields(entry) \in Seq(Fields) /\ Len(EntryFields(entry)) > 0
  /\ \A one, other \in Entries :
       Agree(EntryFields(one), EntryFields(other)) => one = other
<1> DEFINE First(entry) == <<Word(entry.slug), Word(entry.kind)>>
           Second(entry) == First(entry) \o Optional(entry.title)
           Third(entry) == Second(entry) \o Optional(entry.url)
           Fourth(entry) == Third(entry) \o Optional(entry.updated)
           Fifth(entry) == Fourth(entry) \o LocaleFields(entry.locales)
<1>1. ASSUME NEW entry \in Entries
      PROVE  /\ entry.slug \in Slugs /\ entry.kind \in {"inline", "external"}
             /\ entry.title \in Optionals /\ entry.url \in Optionals
             /\ entry.updated \in Optionals
             /\ entry.locales \in SUBSET Locales /\ IsFiniteSet(entry.locales)
             /\ entry.consent \in Summaries
  BY DEF Entries
<1>2. ASSUME NEW entry \in Entries
      PROVE  /\ First(entry) \in Seq(Fields) /\ Len(First(entry)) > 0
             /\ Optional(entry.title) \in Seq(Fields) /\ Optional(entry.url) \in Seq(Fields)
             /\ Optional(entry.updated) \in Seq(Fields)
             /\ LocaleFields(entry.locales) \in Seq(Fields)
             /\ ConsentFields(entry.consent) \in Seq(Fields)
  <2>1. Word(entry.slug) \in Fields /\ Word(entry.kind) \in Fields
    BY <1>1 DEF Fields, Strings
  <2>2. First(entry) \in Seq(Fields) /\ Len(First(entry)) > 0
    BY <2>1, FewFields
  <2> QED
    BY <1>1, <2>2, OptionalFields, LocaleFieldsDiffer, ConsentFieldsDiffer
<1>3. \A entry : EntryFields(entry) = Fifth(entry) \o ConsentFields(entry.consent)
  BY DEF EntryFields
<1>4. ASSUME NEW one \in Entries, NEW other \in Entries, Agree(First(one), First(other))
      PROVE  one.slug = other.slug /\ one.kind = other.kind
  <2>1. PICK p, q, x, y : /\ p = Word(one.slug) /\ q = Word(one.kind)
                          /\ x = Word(other.slug) /\ y = Word(other.kind)
    OBVIOUS
  <2>2. Agree(<<p, q>>, <<x, y>>)
    BY <1>4, <2>1
  <2>3. p = x /\ q = y
    BY <2>2 DEF Agree
  <2> QED
    BY <2>1, <2>3, FieldsDiffer
<1>5. ASSUME NEW one, NEW other, one.slug = other.slug, one.kind = other.kind
      PROVE  First(one) = First(other)
  BY <1>5
<1> HIDE DEF First
<1>6. ASSUME NEW entry \in Entries
      PROVE  Second(entry) \in Seq(Fields) /\ Len(Second(entry)) > 0
  BY <1>2, MoreFields
<1>7. ASSUME NEW entry \in Entries
      PROVE  Third(entry) \in Seq(Fields) /\ Len(Third(entry)) > 0
  <2> HIDE DEF Second
  <2> QED
    BY <1>2, <1>6, MoreFields
<1>8. ASSUME NEW entry \in Entries
      PROVE  Fourth(entry) \in Seq(Fields) /\ Len(Fourth(entry)) > 0
  <2> HIDE DEF Third
  <2> QED
    BY <1>2, <1>7, MoreFields
<1>9. ASSUME NEW entry \in Entries
      PROVE  Fifth(entry) \in Seq(Fields) /\ Len(Fifth(entry)) > 0
  <2> HIDE DEF Fourth
  <2> QED
    BY <1>2, <1>8, MoreFields
<1>10. ASSUME NEW entry \in Entries
       PROVE  EntryFields(entry) \in Seq(Fields) /\ Len(EntryFields(entry)) > 0
  <2> HIDE DEF Fifth
  <2> QED
    BY <1>2, <1>3, <1>9, MoreFields
<1>11. ASSUME NEW one \in Entries, NEW other \in Entries,
              Agree(EntryFields(one), EntryFields(other))
       PROVE  one = other
  <2>1. /\ Agree(Fifth(one), Fifth(other))
        /\ Fifth(one) = Fifth(other) =>
             Agree(ConsentFields(one.consent), ConsentFields(other.consent))
    <3> HIDE DEF Fifth
    <3> QED
      BY <1>2, <1>3, <1>9, <1>11, AgreeSplits
  <2>2. /\ Agree(Fourth(one), Fourth(other))
        /\ Fourth(one) = Fourth(other) =>
             Agree(LocaleFields(one.locales), LocaleFields(other.locales))
    <3> HIDE DEF Fourth
    <3> QED
      BY <1>2, <1>8, <2>1, AgreeSplits
  <2>3. /\ Agree(Third(one), Third(other))
        /\ Third(one) = Third(other) => Agree(Optional(one.updated), Optional(other.updated))
    <3> HIDE DEF Third
    <3> QED
      BY <1>2, <1>7, <2>2, AgreeSplits
  <2>4. /\ Agree(Second(one), Second(other))
        /\ Second(one) = Second(other) => Agree(Optional(one.url), Optional(other.url))
    <3> HIDE DEF Second
    <3> QED
      BY <1>2, <1>6, <2>3, AgreeSplits
  <2>5. /\ Agree(First(one), First(other))
        /\ First(one) = First(other) => Agree(Optional(one.title), Optional(other.title))
    BY <1>2, <2>4, AgreeSplits
  <2>6. one.slug = other.slug /\ one.kind = other.kind /\ First(one) = First(other)
    BY <1>4, <1>5, <2>5
  <2>7. one.title = other.title /\ Second(one) = Second(other)
    BY <1>1, <2>5, <2>6, OptionalFields
  <2>8. one.url = other.url /\ Third(one) = Third(other)
    <3> HIDE DEF Second
    <3> QED
      BY <1>1, <2>4, <2>7, OptionalFields
  <2>9. one.updated = other.updated /\ Fourth(one) = Fourth(other)
    <3> HIDE DEF Third
    <3> QED
      BY <1>1, <2>3, <2>8, OptionalFields
  <2>10. one.locales = other.locales /\ Fifth(one) = Fifth(other)
    <3> HIDE DEF Fourth
    <3> QED
      BY <1>1, <2>2, <2>9, LocaleFieldsDiffer
  <2>11. one.consent = other.consent
    <3> HIDE DEF Fifth
    <3> QED
      BY <1>1, <2>1, <2>10, ConsentFieldsDiffer
  <2> QED
    BY <2>6, <2>7, <2>8, <2>9, <2>10, <2>11 DEF Entries
<1> QED
  BY <1>10, <1>11

------------------------------------------------------------------------------
\* The rows of a table one behind another, up to the n-th.
Begun(g, rows, n) ==
  g = [i \in 1..n |-> IF i = 1 THEN rows[i] ELSE g[i - 1] \o rows[i]]

\* The beginnings of a flattened sequence exist, for every length.
LEMMA BeginningsExist ==
  ASSUME NEW rows
  PROVE  \A n \in Nat : \E g : Begun(g, rows, n)
<1> DEFINE Without == {n \in Nat : ~ \E g : Begun(g, rows, n)}
<1> SUFFICES ASSUME Without # {} PROVE FALSE
  OBVIOUS
<1>1. PICK n \in Without : \A other \in Without : n <= other
  BY LeastExists
<1>2. n \in Nat /\ ~ \E g : Begun(g, rows, n)
  OBVIOUS
<1>3. CASE n = 0
  <2>1. PICK g : g = [i \in 1..n |-> << >>]
    OBVIOUS
  <2>2. Begun(g, rows, n)
    BY <1>3, <2>1 DEF Begun
  <2> QED
    BY <1>2, <2>2
<1>4. CASE n # 0
  <2>1. n - 1 \in Nat /\ ~ (n <= n - 1)
    BY <1>2, <1>4
  <2>2. PICK g : Begun(g, rows, n - 1)
    BY <1>1, <2>1
  <2>3. \A i \in 1..(n - 1) : g[i] = IF i = 1 THEN rows[i] ELSE g[i - 1] \o rows[i]
    BY <2>2 DEF Begun
  <2>4. PICK total : total = IF n = 1 THEN rows[n] ELSE g[n - 1] \o rows[n]
    OBVIOUS
  <2>5. PICK h : h = [i \in 1..n |-> IF i = n THEN total ELSE g[i]]
    OBVIOUS
  <2>6. ASSUME NEW i \in 1..n
        PROVE  h[i] = IF i = 1 THEN rows[i] ELSE h[i - 1] \o rows[i]
    <3>1. i # 1 => i - 1 \in 1..n /\ i - 1 # n
      BY <1>2
    <3>2. i # 1 => h[i - 1] = g[i - 1]
      BY <2>5, <3>1
    <3>3. CASE i = n
      BY <2>4, <2>5, <3>2, <3>3
    <3>4. CASE i # n
      <4>1. i \in 1..(n - 1)
        BY <1>2, <3>4
      <4>2. h[i] = g[i]
        BY <2>5, <3>4
      <4> QED
        BY <2>3, <3>2, <4>1, <4>2
    <3> QED
      BY <3>3, <3>4
  <2>7. Begun(h, rows, n)
    BY <2>5, <2>6 DEF Begun
  <2> QED
    BY <1>2, <2>7
<1> QED
  BY <1>3, <1>4

\* A sequence is flattened row by row.
LEMMA FlattenedByRows ==
  ASSUME NEW S, NEW rows \in Seq(Seq(S)), Len(rows) > 0
  PROVE  \E g \in [1..Len(rows) -> Seq(S)] :
           /\ FlattenSeq(rows) = g[Len(rows)]
           /\ g[1] = rows[1]
           /\ \A i \in 2..Len(rows) : g[i] = g[i - 1] \o rows[i]
<1> DEFINE n == Len(rows)
           Flatten == CHOOSE g : Begun(g, rows, n)
<1>1. n \in Nat /\ \A i \in 1..n : rows[i] \in Seq(S)
  BY LenProperties, ElementOfSeq
<1>2. FlattenSeq(rows) = Flatten[n]
  BY DEF FlattenSeq, Begun
<1>3. PICK g : g = Flatten
  OBVIOUS
<1>4. Begun(g, rows, n)
  BY <1>1, <1>3, BeginningsExist
<1> HIDE DEF Flatten, n
<1>5. /\ DOMAIN g = 1..n /\ g = [i \in 1..n |-> g[i]]
      /\ \A i \in 1..n : g[i] = IF i = 1 THEN rows[i] ELSE g[i - 1] \o rows[i]
  BY <1>4 DEF Begun
<1>6. \A i \in 1..n : g[i] \in Seq(S)
  <2> DEFINE Odd == {i \in 1..n : g[i] \notin Seq(S)}
  <2> SUFFICES ASSUME Odd # {} PROVE FALSE
    OBVIOUS
  <2>1. PICK i \in Odd : \A other \in Odd : i <= other
    <3>1. Odd \in SUBSET Nat
      OBVIOUS
    <3> QED
      BY <3>1, LeastExists
  <2>2. i \in 1..n /\ g[i] \notin Seq(S)
    OBVIOUS
  <2>3. i # 1
    BY <1>1, <1>5, <2>2
  <2>4. i - 1 \in 1..n /\ ~ (i <= i - 1)
    BY <1>1, <2>2, <2>3
  <2>5. g[i - 1] \in Seq(S)
    BY <2>1, <2>4
  <2>6. g[i] = g[i - 1] \o rows[i]
    BY <1>5, <2>2, <2>3
  <2> QED
    BY <1>1, <2>2, <2>5, <2>6, ConcatProperties
<1>7. \A i \in 2..n : i \in 1..n /\ i # 1
  BY <1>1
<1>8. 1 \in 1..n
  BY <1>1 DEF n
<1> QED
  BY <1>2, <1>3, <1>5, <1>6, <1>7, <1>8 DEF n

\* The rows one behind another, and the whole that each beginning begins.
Flattens(g, rows, n, whole) ==
  /\ whole = g[n]
  /\ g[1] = rows[1]
  /\ \A i \in 2..n : g[i] = g[i - 1] \o rows[i]
  /\ \A i \in 1..n :
       /\ Len(g[i]) <= Len(whole)
       /\ \A k \in 1..Len(g[i]) : g[i][k] = whole[k]

\* The first row begins the whole, and each beginning is the one before with the next row.
LEMMA FlattenedBegins ==
  ASSUME NEW S, NEW rows \in Seq(Seq(S)), NEW n, n = Len(rows), n > 0,
         NEW whole, whole = FlattenSeq(rows)
  PROVE  \E g \in [1..n -> Seq(S)] : Flattens(g, rows, n, whole)
<1>1. n \in Nat /\ n > 0 /\ \A i \in 1..n : rows[i] \in Seq(S)
  BY LenProperties, ElementOfSeq
<1>2. \E g \in [1..Len(rows) -> Seq(S)] :
        /\ FlattenSeq(rows) = g[Len(rows)]
        /\ g[1] = rows[1]
        /\ \A i \in 2..Len(rows) : g[i] = g[i - 1] \o rows[i]
  BY FlattenedByRows
<1>3. PICK g \in [1..n -> Seq(S)] :
        /\ whole = g[n]
        /\ g[1] = rows[1]
        /\ \A i \in 2..n : g[i] = g[i - 1] \o rows[i]
  BY <1>2
<1> DEFINE Begins(i) == /\ Len(g[i]) <= Len(whole)
                        /\ \A k \in 1..Len(g[i]) : g[i][k] = whole[k]
           Missing == {d \in 0..(n - 1) : ~ Begins(n - d)}
<1>4. Missing = {}
  <2> SUFFICES ASSUME Missing # {} PROVE FALSE
    OBVIOUS
  <2>1. PICK d \in Missing : \A other \in Missing : d <= other
    <3>1. Missing \in SUBSET Nat
      BY <1>1
    <3> HIDE DEF Missing
    <3> QED
      BY <3>1, LeastExists
  <2>2. d \in 0..(n - 1) /\ ~ Begins(n - d)
    OBVIOUS
  <2>3. Begins(n)
    <3>1. Len(whole) \in Nat
      BY <1>1, <1>3, LenProperties
    <3> QED
      BY <1>3, <3>1
  <2>4. d # 0
    <3>1. n - 0 = n
      BY <1>1
    <3> HIDE DEF Begins
    <3> QED
      BY <2>2, <2>3, <3>1
  <2>5. PICK i, j : i = n - d /\ j = i + 1
    OBVIOUS
  <2>6. /\ i \in 1..n /\ j \in 2..n /\ j - 1 = i /\ j \in 1..n
        /\ d - 1 \in 0..(n - 1) /\ ~ (d <= d - 1) /\ n - (d - 1) = j
    <3> HIDE DEF Begins, Missing
    <3> QED
      BY <1>1, <2>2, <2>4, <2>5
  <2>7. Begins(j)
    <3> HIDE DEF Begins
    <3> QED
      BY <2>1, <2>6
  <2>8. g[j] = g[i] \o rows[j] /\ g[i] \in Seq(S) /\ rows[j] \in Seq(S)
    BY <1>1, <1>3, <2>6
  <2>9. PICK u, v : u = g[i] /\ v = rows[j]
    OBVIOUS
  <2>10. /\ Len(u) \in Nat /\ Len(v) \in Nat /\ Len(u \o v) = Len(u) + Len(v)
         /\ \A k \in 1..(Len(u) + Len(v)) :
              (u \o v)[k] = IF k <= Len(u) THEN u[k] ELSE v[k - Len(u)]
    <3>1. u \in Seq(S) /\ v \in Seq(S)
      BY <2>8, <2>9
    <3> HIDE DEF Missing, Begins
    <3> QED
      BY <3>1, ConcatProperties, LenProperties
  <2>11. Len(whole) \in Nat
    BY <1>1, <1>3, LenProperties
  <2>12. /\ Len(u \o v) <= Len(whole)
         /\ \A k \in 1..Len(u \o v) : (u \o v)[k] = whole[k]
    <3>1. g[j] = u \o v
      BY <2>8, <2>9
    <3>2. Len(g[j]) <= Len(whole) /\ \A k \in 1..Len(g[j]) : g[j][k] = whole[k]
      BY <2>7
    <3> QED
      BY <3>1, <3>2
  <2>13. Len(u) <= Len(whole)
    BY <2>10, <2>11, <2>12
  <2>14. ASSUME NEW k \in 1..Len(u) PROVE u[k] = whole[k]
    <3>1. k \in 1..(Len(u) + Len(v)) /\ k <= Len(u)
      BY <2>10
    <3> QED
      BY <2>10, <2>12, <3>1
  <2>15. Begins(i)
    BY <2>9, <2>13, <2>14
  <2> QED
    <3> HIDE DEF Begins
    <3> QED
      BY <2>2, <2>5, <2>15
<1>5. ASSUME NEW i \in 1..n PROVE Begins(i)
  <2>1. n - i \in 0..(n - 1) /\ n - (n - i) = i
    BY <1>1
  <2> HIDE DEF Begins
  <2> QED
    BY <1>4, <2>1
<1> QED
  BY <1>3, <1>5 DEF Flattens

\* Where no row begins another, a flattened sequence tells where its rows begin.
LEMMA FlattenedApart ==
  ASSUME NEW S, NEW Rows \in SUBSET Seq(S),
         \A u \in Rows : Len(u) > 0, \A u, v \in Rows : Agree(u, v) => u = v,
         NEW a \in Seq(Rows), NEW b \in Seq(Rows),
         Len(a) <= Len(b), FlattenSeq(a) = FlattenSeq(b)
  PROVE  a = b
<1>1. PICK m, n : m = Len(a) /\ n = Len(b)
  OBVIOUS
<1>2. /\ m \in Nat /\ n \in Nat /\ m <= n
      /\ \A i \in 1..m : a[i] \in Rows /\ a[i] \in Seq(S)
      /\ \A i \in 1..n : b[i] \in Rows /\ b[i] \in Seq(S)
  BY <1>1, LenProperties, ElementOfSeq
<1>3. a \in Seq(Seq(S)) /\ b \in Seq(Seq(S))
  BY SeqMonotonic
<1>4. CASE n = 0
  <2>1. m = 0
    BY <1>2, <1>4
  <2>2. a = << >>
    BY <1>1, <2>1, EmptySeq
  <2>3. b = << >>
    BY <1>1, <1>4, EmptySeq
  <2> QED
    BY <2>2, <2>3
<1>5. CASE n > 0
  <2>1. PICK whole : whole = FlattenSeq(b)
    OBVIOUS
  <2>2. PICK h \in [1..n -> Seq(S)] : Flattens(h, b, n, whole)
    BY <1>1, <1>3, <1>5, <2>1, FlattenedBegins
  <2>3. Len(whole) \in Nat /\ 1 \in 1..n /\ n \in 1..n
    BY <1>2, <1>5, <2>2, LenProperties DEF Flattens
  <2>4. CASE m = 0
    <3>1. a = << >> /\ FlattenSeq(a) = << >>
      <4>1. a = << >>
        BY <1>1, <2>4, EmptySeq
      <4> QED
        BY <4>1 DEF FlattenSeq
    <3>2. Len(whole) = 0
      BY <2>1, <3>1
    <3>3. Len(h[1]) > 0 /\ Len(h[1]) \in Nat /\ Len(h[1]) <= Len(whole)
      BY <1>2, <2>2, <2>3, LenProperties DEF Flattens
    <3> QED
      BY <3>2, <3>3
  <2>5. CASE m > 0
    <3>1. PICK g \in [1..m -> Seq(S)] : Flattens(g, a, m, whole)
      BY <1>1, <1>3, <2>1, <2>5, FlattenedBegins
    <3>2. ASSUME NEW i \in 1..m
          PROVE  /\ i \in 1..n /\ g[i] \in Seq(S) /\ h[i] \in Seq(S) /\ Agree(g[i], h[i])
                 /\ a[i] \in Rows /\ b[i] \in Rows /\ a[i] \in Seq(S) /\ b[i] \in Seq(S)
      <4>1. i \in 1..n
        BY <1>2
      <4>2. PICK u, v : u = g[i] /\ v = h[i]
        OBVIOUS
      <4>3. u \in Seq(S) /\ v \in Seq(S)
        BY <2>2, <3>1, <4>1, <4>2
      <4>4. DOMAIN u = 1..Len(u) /\ DOMAIN v = 1..Len(v)
        BY <4>3
      <4>5. /\ \A k \in 1..Len(u) : u[k] = whole[k]
            /\ \A k \in 1..Len(v) : v[k] = whole[k]
        BY <2>2, <3>1, <4>1, <4>2 DEF Flattens
      <4>6. Agree(u, v)
        BY <4>4, <4>5 DEF Agree
      <4> QED
        BY <1>2, <4>1, <4>2, <4>3, <4>6
    <3> DEFINE Apart == {i \in 1..m : g[i] # h[i] \/ a[i] # b[i]}
    <3>3. Apart = {}
      <4> SUFFICES ASSUME Apart # {} PROVE FALSE
        OBVIOUS
      <4>1. PICK i \in Apart : \A other \in Apart : i <= other
        <5>1. Apart \in SUBSET Nat
          OBVIOUS
        <5> HIDE DEF Apart
        <5> QED
          BY <5>1, LeastExists
      <4>2. i \in 1..m /\ (g[i] # h[i] \/ a[i] # b[i])
        OBVIOUS
      <4>3. CASE i = 1
        <5>1. Agree(a[i], b[i])
          BY <2>2, <3>1, <3>2, <4>2, <4>3 DEF Flattens
        <5>2. a[i] = b[i]
          BY <3>2, <4>2, <5>1
        <5> QED
          BY <2>2, <3>1, <4>2, <4>3, <5>2 DEF Flattens
      <4>4. CASE i # 1
        <5>1. /\ i - 1 \in 1..m /\ ~ (i <= i - 1) /\ i \in 2..m /\ i \in 2..n
          BY <1>2, <4>2, <4>4
        <5>2. g[i - 1] = h[i - 1]
          BY <4>1, <5>1
        <5>3. PICK u, v, w : u = g[i - 1] /\ v = a[i] /\ w = b[i]
          OBVIOUS
        <5>4. g[i] = u \o v /\ h[i] = u \o w
          BY <2>2, <3>1, <5>1, <5>2, <5>3 DEF Flattens
        <5>5. u \in Seq(S) /\ v \in Seq(S) /\ w \in Seq(S) /\ Agree(u \o v, u \o w)
          BY <3>2, <4>2, <5>1, <5>3, <5>4
        <5>6. Agree(v, w)
          BY <5>5, AgreeSplits
        <5>7. v = w
          BY <3>2, <4>2, <5>3, <5>6
        <5> QED
          BY <4>2, <5>3, <5>4, <5>7
      <4> QED
        BY <4>3, <4>4
    <3>4. \A i \in 1..m : g[i] = h[i] /\ a[i] = b[i]
      BY <3>3
    <3> HIDE DEF Apart
    <3>5. m = n
      <4> SUFFICES ASSUME m # n PROVE FALSE
        OBVIOUS
      <4>1. m \in 1..m /\ m + 1 \in 2..n /\ m + 1 \in 1..n /\ (m + 1) - 1 = m
        BY <1>2, <2>5
      <4>2. PICK u, v : u = h[m] /\ v = b[m + 1]
        OBVIOUS
      <4>3. u = whole /\ h[m + 1] = u \o v
        BY <2>2, <3>1, <3>4, <4>1, <4>2 DEF Flattens
      <4>4. u \in Seq(S) /\ v \in Seq(S) /\ v \in Rows
        BY <1>2, <3>2, <4>1, <4>2
      <4>5. Len(v) > 0 /\ Len(v) \in Nat /\ Len(u \o v) = Len(u) + Len(v)
        BY <4>4, ConcatProperties, LenProperties
      <4>6. Len(u \o v) <= Len(whole)
        BY <2>2, <4>1, <4>3 DEF Flattens
      <4> QED
        BY <2>3, <4>3, <4>5, <4>6
    <3> QED
      BY <1>1, <3>4, <3>5, SeqEqual
  <2> QED
    BY <1>2, <2>4, <2>5
<1> QED
  BY <1>2, <1>4, <1>5

\* A flattened sequence is one.
LEMMA FlattenedIsSeq ==
  ASSUME NEW S, NEW rows \in Seq(Seq(S))
  PROVE  FlattenSeq(rows) \in Seq(S)
<1>1. CASE Len(rows) = 0
  <2>1. rows = << >>
    BY <1>1, EmptySeq
  <2> QED
    BY <1>1, <2>1 DEF FlattenSeq
<1>2. CASE Len(rows) > 0
  <2>1. PICK n, whole : n = Len(rows) /\ whole = FlattenSeq(rows)
    OBVIOUS
  <2>2. PICK g \in [1..n -> Seq(S)] : Flattens(g, rows, n, whole)
    BY <1>2, <2>1, FlattenedBegins
  <2>3. n \in 1..n
    BY <1>2, <2>1, LenProperties
  <2> QED
    BY <2>1, <2>2, <2>3 DEF Flattens
<1>3. Len(rows) \in Nat
  BY LenProperties
<1> QED
  BY <1>1, <1>2, <1>3

\* What one entry writes, and what each entry of an index writes.
Row == {EntryFields(entry) : entry \in Entries}
Table(entries) == [i \in DOMAIN entries |-> EntryFields(entries[i])]

\* The rows of an index are sequences of fields, of which none begins another.
LEMMA RowsDiffer ==
  /\ Row \in SUBSET Seq(Fields)
  /\ \A u \in Row : Len(u) > 0
  /\ \A u, v \in Row : Agree(u, v) => u = v
BY EntryFieldsDiffer DEF Row

\* An index of entries writes a row for each, and its rows together are fields.
LEMMA TableIsWritten ==
  ASSUME NEW entries \in Seq(Entries)
  PROVE  /\ Table(entries) \in Seq(Row) /\ Len(Table(entries)) = Len(entries)
         /\ \A i \in 1..Len(entries) :
              entries[i] \in Entries /\ Table(entries)[i] = EntryFields(entries[i])
         /\ FlattenSeq(Table(entries)) \in Seq(Fields)
<1>1. PICK n, rows : n = Len(entries) /\ rows = Table(entries)
  OBVIOUS
<1>2. n \in Nat /\ \A i \in 1..n : entries[i] \in Entries
  BY <1>1, LenProperties, ElementOfSeq
<1>3. rows = [i \in 1..n |-> EntryFields(entries[i])]
  BY <1>1, LenProperties DEF Table
<1>4. \A i \in 1..n : EntryFields(entries[i]) \in Row
  BY <1>2 DEF Row
<1>5. rows \in Seq(Row) /\ Len(rows) = n
  BY <1>2, <1>3, <1>4
<1>6. rows \in Seq(Seq(Fields))
  BY <1>5, RowsDiffer, SeqMonotonic
<1>7. FlattenSeq(rows) \in Seq(Fields)
  BY <1>6, FlattenedIsSeq
<1> QED
  BY <1>1, <1>2, <1>3, <1>5, <1>7

\* Two indexes with one tag are one, whatever their generations are.
LEMMA TagIsInjective ==
  ASSUME NEW g \in Nat, NEW h \in Nat, NEW one \in Seq(Entries), NEW other \in Seq(Entries),
         IndexETag(g, one) = IndexETag(h, other)
  PROVE  one = other
<1>1. PICK u, v : u = FlattenSeq(Table(one)) /\ v = FlattenSeq(Table(other))
  OBVIOUS
<1>2. PICK p, q : p = Number(g) /\ q = Number(h)
  OBVIOUS
<1>3. <<p>> \o u = <<q>> \o v
  BY <1>1, <1>2 DEF IndexETag, Table
<1>4. u \in Seq(Fields) /\ v \in Seq(Fields) /\ <<p>> \in Seq(Fields) /\ <<q>> \in Seq(Fields)
  BY <1>1, <1>2, TableIsWritten, FewFields DEF Fields
<1>5. Agree(<<p>> \o u, <<q>> \o v)
  BY <1>3 DEF Agree
<1>6. Agree(<<p>>, <<q>>)
  BY <1>4, <1>5, AgreeSplits
<1>7. p = q
  BY <1>6 DEF Agree
<1>8. u = v
  BY <1>3, <1>4, <1>7, ConcatSimplifications
<1>9. Table(one) = Table(other)
  <2>1. PICK a, b : a = Table(one) /\ b = Table(other)
    OBVIOUS
  <2>2. a \in Seq(Row) /\ b \in Seq(Row) /\ FlattenSeq(a) = FlattenSeq(b)
    BY <1>1, <1>8, <2>1, TableIsWritten
  <2>3. Len(a) <= Len(b) \/ Len(b) <= Len(a)
    BY <2>2, LenProperties
  <2>4. CASE Len(a) <= Len(b)
    BY <2>1, <2>2, <2>4, RowsDiffer, FlattenedApart
  <2>5. CASE Len(b) <= Len(a)
    BY <2>1, <2>2, <2>5, RowsDiffer, FlattenedApart
  <2> QED
    BY <2>3, <2>4, <2>5
<1>10. Len(one) = Len(other)
  BY <1>9, TableIsWritten
<1>11. ASSUME NEW i \in 1..Len(one) PROVE one[i] = other[i]
  <2>1. /\ one[i] \in Entries /\ other[i] \in Entries
        /\ EntryFields(one[i]) = EntryFields(other[i])
    BY <1>9, <1>10, TableIsWritten
  <2>2. Agree(EntryFields(one[i]), EntryFields(other[i]))
    BY <2>1 DEF Agree
  <2> QED
    BY <2>1, <2>2, EntryFieldsDiffer
<1> QED
  BY <1>10, <1>11, SeqEqual

\* A tag is never the absence of one.
LEMMA TagIsPresent ==
  ASSUME NEW g \in Nat, NEW entries \in Seq(Entries)
  PROVE  IndexETag(g, entries) # << >>
<1>1. PICK p, u : p = Number(g) /\ u = FlattenSeq(Table(entries))
  OBVIOUS
<1>2. IndexETag(g, entries) = <<p>> \o u
  BY <1>1 DEF IndexETag, Table
<1>3. <<p>> \in Seq(Fields) /\ u \in Seq(Fields)
  BY <1>1, TableIsWritten, FewFields DEF Fields
<1>4. Len(<<p>> \o u) > 0
  BY <1>3, MoreFields
<1> QED
  BY <1>2, <1>4

\* A document has finitely many locales.
LEMMA LocalesAreFinite ==
  ASSUME NEW documents \in Built, NEW slug \in DOMAIN documents
  PROVE  IsFiniteSet(DOMAIN documents[slug].bodies)
<1>1. PICK config \in Configs : documents = CatalogOf(config)
  BY DEF Built
<1>2. PICK source : source = config[slug]
  OBVIOUS
<1>3. documents[slug] = DocumentOf(source) /\ slug \in DOMAIN config
  BY <1>1, <1>2 DEF CatalogOf
<1>4. IsFiniteSet(DOMAIN source.body)
  BY <1>2, <1>3, ServedAssumption DEF IsConfig, IsSource
<1>5. PICK keys, tags : keys = DOMAIN source.body /\ tags = {TagOf[k] : k \in keys}
  OBVIOUS
<1>6. IsFiniteSet(tags)
  <2>1. [k \in keys |-> TagOf[k]] \in Surjection(keys, tags)
    BY <1>5 DEF Surjection
  <2> QED
    BY <1>4, <1>5, <2>1, FS_Surjection
<1>7. documents[slug].bodies = Bodies(source)
  BY <1>3 DEF DocumentOf
<1>8. CASE source.url = "absent"
  <2>1. DOMAIN Bodies(source) = tags
    BY <1>5, <1>8 DEF Bodies
  <2> QED
    BY <1>6, <1>7, <2>1
<1>9. CASE source.url # "absent"
  <2>1. DOMAIN Bodies(source) = {}
    BY <1>9, EmptyIsPartial DEF Bodies
  <2> QED
    BY <1>7, <2>1, FS_EmptySet
<1> QED
  BY <1>8, <1>9

\* What an index lists of a catalog that was built is an entry.
LEMMA EntryIsWritten ==
  ASSUME NEW documents \in Built, NEW slug \in DOMAIN documents, NEW lang
  PROVE  LegalIndexEntry(slug, documents[slug], lang) \in Entries
<1> DEFINE document == documents[slug]
           entry == LegalIndexEntry(slug, document, lang)
<1>1. IsCatalog(documents) /\ Demonstrable(document)
  BY BuiltIsWellFormed DEF WellFormed
<1>2. slug \in Slugs /\ IsDocument(document)
  BY <1>1 DEF IsCatalog, IsPartial
<1>3. /\ document.kind \in {"inline", "external"} /\ document.heading \in Headings
      /\ DOMAIN document.bodies \in SUBSET Locales /\ IsPolicy(document.policy)
  BY <1>2 DEF IsDocument, IsPartial
<1>4. IsFiniteSet(DOMAIN document.bodies)
  BY LocalesAreFinite
<1> HIDE DEF document
<1>5. Title(document, lang) \in Optionals
  <2>1. PICK titles, locale :
          /\ titles = TitlesOf[document.heading]
          /\ locale = Negotiate(LocalesOf(document), lang)
    OBVIOUS
  <2>2. Title(document, lang) = NoText
          \/ (locale \in DOMAIN titles /\ Title(document, lang) = Text(titles[locale]))
    BY <2>1 DEF Title
  <2>3. locale \in DOMAIN titles => titles[locale] \in Strings
    BY <1>3, <2>1 DEF Strings, Titles
  <2> QED
    BY <2>2, <2>3 DEF Optionals
<1>6. UpdatedOf[document.heading] \in Optionals
  <2>1. UpdatedOf[document.heading] # NoText =>
          UpdatedOf[document.heading][1] \in Strings
    BY <1>3 DEF Strings
  <2>2. \/ UpdatedOf[document.heading] = NoText
        \/ UpdatedOf[document.heading] = Text(UpdatedOf[document.heading][1])
    BY <1>3, IndexAssumption
  <2> QED
    BY <2>1, <2>2 DEF Optionals
<1>7. Text("url") \in Optionals /\ NoText \in Optionals
  BY DEF Optionals, Strings
<1>8. entry.consent \in Summaries
  <2>1. PICK summary : summary = ConsentSummary(document)
    OBVIOUS
  <2>2. HasPolicy(document) => summary \in [requirement : Requirements, version : Versions]
    BY <1>1, <1>3, <2>1 DEF ConsentSummary, Demonstrable, IsPolicy, document
  <2>3. entry.consent = IF HasPolicy(document) THEN <<summary>> ELSE << >>
    BY <2>1 DEF LegalIndexEntry
  <2> QED
    BY <2>2, <2>3 DEF Summaries
<1>9. /\ entry.slug = slug /\ entry.kind = document.kind
      /\ entry.title = Title(document, lang) /\ entry.updated = UpdatedOf[document.heading]
      /\ entry.url \in {Text("url"), NoText}
      /\ entry.locales \in {DOMAIN document.bodies, {}}
  BY DEF LegalIndexEntry
<1>10. entry = [slug |-> entry.slug, kind |-> entry.kind, title |-> entry.title,
                updated |-> entry.updated, url |-> entry.url, locales |-> entry.locales,
                consent |-> entry.consent]
  BY DEF LegalIndexEntry
<1> HIDE DEF entry
<1>11. entry.locales \in SUBSET Locales /\ IsFiniteSet(entry.locales)
  BY <1>3, <1>4, <1>9, FS_EmptySet
<1>12. entry \in [slug : Slugs, kind : {"inline", "external"}, title : Optionals,
                  updated : Optionals, url : Optionals, locales : SUBSET Locales,
                  consent : Summaries]
  BY <1>2, <1>3, <1>5, <1>6, <1>7, <1>8, <1>9, <1>10, <1>11
<1>13. entry \in Entries
  BY <1>11, <1>12 DEF Entries
<1> QED
  BY <1>13 DEF entry, document

\* The index of a catalog that was built is a sequence of entries.
LEMMA IndexIsWritten ==
  ASSUME NEW documents \in Built, NEW lang
  PROVE  Index(documents, lang) \in Seq(Entries)
<1>1. PICK size \in Nat : DOMAIN Index(documents, lang) = 1..size
  BY PublishedIsList DEF Index
<1>2. ASSUME NEW n \in 1..size PROVE Index(documents, lang)[n] \in Entries
  BY <1>1, IndexListsDocuments, EntryIsWritten
<1>3. PICK index : index = Index(documents, lang)
  OBVIOUS
<1>4. index = [n \in 1..size |-> index[n]]
  BY <1>1, <1>3 DEF Index
<1>5. index \in Seq(Entries)
  BY <1>2, <1>3, <1>4
<1> QED
  BY <1>3, <1>5

\* What a reader holds and its tag belong together, under whatever number the catalog
\* had, and it is what the last answer stood for.
TagInv ==
  /\ shown \in [Readers -> {shown[d] : d \in Readers}]
  /\ due \in [Readers -> {due[d] : d \in Readers}]
  /\ \A d \in Readers :
       /\ shown[d].entries = due[d]
       /\ \/ shown[d] = NoIndex
          \/ /\ due[d] \in Seq(Entries)
             /\ \E g \in 0..(GenerationModulus - 1) : shown[d].tag = IndexETag(g, due[d])

\* Asking again: an equal tag is that of an equal index.
LEMMA AnswerTagInv ==
  ASSUME HandleInv, TagInv, NEW d \in Readers, NEW lang \in Locales, Answer(d, lang)
  PROVE  TagInv'
<1>1. PICK entries, number :
        entries = Index(held[d].documents, lang) /\ number = held[d].generation
  OBVIOUS
<1>2. PICK tag : tag = IndexETag(number, entries)
  OBVIOUS
<1>3. entries \in Seq(Entries)
  BY <1>1, IndexIsWritten DEF HandleInv, HeldIsBuilt
<1>4. number \in 0..(GenerationModulus - 1) /\ number \in Nat
  BY <1>1, ServedAssumption DEF HandleInv, TypeOK, IsServed
<1>5. tag # << >>
  BY <1>2, <1>3, <1>4, TagIsPresent
<1>6. /\ due' = [due EXCEPT ![d] = entries]
      /\ IF shown[d].tag = tag THEN shown' = shown
         ELSE shown' = [shown EXCEPT ![d] = [tag |-> tag, entries |-> entries]]
  BY <1>1, <1>2 DEF Answer
<1>7. CASE shown[d].tag = tag
  <2>1. due[d] = entries
    <3>1. shown[d] # NoIndex
      BY <1>5, <1>7 DEF NoIndex
    <3>2. PICK g \in 0..(GenerationModulus - 1) : shown[d].tag = IndexETag(g, due[d])
      BY <3>1 DEF TagInv
    <3>3. g \in Nat /\ due[d] \in Seq(Entries)
      BY <3>1, ServedAssumption DEF TagInv
    <3>4. IndexETag(g, due[d]) = IndexETag(number, entries)
      BY <1>2, <1>7, <3>2
    <3> QED
      BY <1>3, <1>4, <3>3, <3>4, TagIsInjective
  <2>2. due' = due
    BY <1>6, <2>1 DEF TagInv
  <2>3. shown' = shown
    BY <1>6, <1>7
  <2> QED
    BY <2>2, <2>3 DEF TagInv
<1>8. CASE shown[d].tag # tag
  <2>1. PICK answer : answer = [tag |-> tag, entries |-> entries]
    OBVIOUS
  <2>2. answer.tag = tag /\ answer.entries = entries
    BY <2>1
  <2>3. shown' = [shown EXCEPT ![d] = answer]
    BY <1>6, <1>8, <2>1
  <2>4. \A e \in Readers : /\ shown'[e] = IF e = d THEN answer ELSE shown[e]
                           /\ due'[e] = IF e = d THEN entries ELSE due[e]
    BY <1>6, <2>3 DEF TagInv
  <2>5. /\ shown' \in [Readers -> {shown'[e] : e \in Readers}]
        /\ due' \in [Readers -> {due'[e] : e \in Readers}]
    BY <1>6, <2>3 DEF TagInv
  <2>6. ASSUME NEW e \in Readers
        PROVE  /\ shown'[e].entries = due'[e]
               /\ \/ shown'[e] = NoIndex
                  \/ /\ due'[e] \in Seq(Entries)
                     /\ \E g \in 0..(GenerationModulus - 1) :
                          shown'[e].tag = IndexETag(g, due'[e])
    <3>1. CASE e = d
      BY <1>2, <1>3, <1>4, <2>2, <2>4, <3>1
    <3>2. CASE e # d
      BY <2>4, <3>2 DEF TagInv
    <3> QED
      BY <3>1, <3>2
  <2> QED
    BY <2>5, <2>6 DEF TagInv
<1> QED
  BY <1>7, <1>8

\* A reader that is told that nothing has changed holds the index that a full answer
\* would have carried, whichever catalogs the tags were made of and even where the
\* generation has come round to an earlier number (index_etag, HttpPolicy::conditional).
THEOREM RevalidatedIndex == IndexSpec => []RevalidatedIndexIsCurrent
<1>1. IndexInit => TagInv
  BY DEF IndexInit, TagInv, NoIndex
<1>2. HandleInv /\ TagInv /\ [IndexNext]_<<vars, indexVars>> => TagInv'
  <2> SUFFICES ASSUME HandleInv, TagInv, [IndexNext]_<<vars, indexVars>> PROVE TagInv'
    OBVIOUS
  <2>1. CASE UNCHANGED indexVars
    BY <2>1 DEF TagInv, indexVars
  <2> QED
    BY <2>1, AnswerTagInv DEF IndexNext
<1>3. TagInv => RevalidatedIndexIsCurrent
  BY DEF TagInv, RevalidatedIndexIsCurrent
<1> QED
  BY <1>1, <1>2, <1>3, IndexHandleInvariant, PTL DEF IndexSpec
==============================================================================
