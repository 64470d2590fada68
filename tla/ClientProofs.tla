---------------------------- MODULE ClientProofs -----------------------------
(***************************************************************************)
(* Proofs about the Dioxus client: Pages, where answers to older questions *)
(* must not stay, and ConsentGate, whose list must be what the server says *)
(* once nothing is under way.                                              *)
(***************************************************************************)
EXTENDS LegalHandleProofs, Pages, ConsentGate

(***************************************************************************)
(* Fetched values.                                                         *)
(***************************************************************************)
IsResource(r) ==
  /\ r \in [value : {r.value}, fetch : {r.fetch}, dirty : BOOLEAN]
  /\ r.fetch.at \in {"none", "asked", "answered"}

\* Unless a restart is due, what a resource asks for, is about to take over, or
\* holds is the answer for `key`.
Follows(r, key) ==
  ~ r.dirty =>
    /\ r.fetch.at = "asked" => r.fetch.key = key
    /\ r.fetch.at = "answered" => r.fetch.value.key = key
    /\ r.fetch.at = "none" => r.value.key = key

\* A restart asks for its key, whatever was fetched before.
LEMMA RestartedFollows ==
  ASSUME NEW r, IsResource(r), NEW key
  PROVE  /\ IsResource(Restarted(r, key)) /\ Follows(Restarted(r, key), key)
         /\ Restarted(r, key).fetch.at = "asked"
<1>1. /\ Restarted(r, key).value = r.value
      /\ Restarted(r, key).fetch = Asked(key)
      /\ Restarted(r, key).dirty = FALSE
      /\ Restarted(r, key) \in [value : {r.value}, fetch : {Asked(key)}, dirty : BOOLEAN]
  BY DEF Restarted, IsResource
<1> QED
  BY <1>1 DEF IsResource, Follows, Asked

\* So does the first fetch.
LEMMA MountedFollows ==
  ASSUME NEW key
  PROVE  /\ IsResource(Mounted(key)) /\ Follows(Mounted(key), key)
         /\ Mounted(key).fetch.at = "asked"
BY RestartedFollows DEF Mounted, Idle, NoFetch, IsResource

\* Answers, errors and losses keep the key of the question.
LEMMA ServedFollows ==
  ASSUME NEW r, IsResource(r), NEW key, Follows(r, key), r.fetch.at = "asked", NEW body
  PROVE  /\ IsResource(Served(r, body)) /\ Follows(Served(r, body), key)
         /\ Served(r, body).fetch = Answered(Ok(r.fetch.key, body))
<1>1. /\ Served(r, body).value = r.value
      /\ Served(r, body).fetch = Answered(Ok(r.fetch.key, body))
      /\ Served(r, body).dirty = r.dirty
      /\ Served(r, body) \in
           [value : {r.value}, fetch : {Answered(Ok(r.fetch.key, body))}, dirty : BOOLEAN]
  BY DEF Served, IsResource
<1> QED
  BY <1>1 DEF IsResource, Follows, Answered, Ok

\* An error answers the question it was asked.
LEMMA RefusedFollows ==
  ASSUME NEW r, IsResource(r), NEW key, Follows(r, key), r.fetch.at = "asked"
  PROVE  IsResource(Refused(r)) /\ Follows(Refused(r), key)
<1>1. /\ Refused(r).value = r.value
      /\ Refused(r).fetch = Answered(Err(r.fetch.key))
      /\ Refused(r).dirty = r.dirty
      /\ Refused(r) \in
           [value : {r.value}, fetch : {Answered(Err(r.fetch.key))}, dirty : BOOLEAN]
  BY DEF Refused, IsResource
<1> QED
  BY <1>1 DEF IsResource, Follows, Answered, Err

\* What is delivered is what was answered.
LEMMA DeliveredFollows ==
  ASSUME NEW r, IsResource(r), NEW key, Follows(r, key), r.fetch.at = "answered"
  PROVE  /\ IsResource(Delivered(r)) /\ Follows(Delivered(r), key)
         /\ Delivered(r).value = r.fetch.value
         /\ Delivered(r).fetch = NoFetch
<1>1. /\ Delivered(r).value = r.fetch.value
      /\ Delivered(r).fetch = NoFetch
      /\ Delivered(r).dirty = r.dirty
      /\ Delivered(r) \in [value : {r.fetch.value}, fetch : {NoFetch}, dirty : BOOLEAN]
  BY DEF Delivered, IsResource
<1> QED
  BY <1>1 DEF IsResource, Follows, NoFetch

\* What is lost becomes an error about the same question.
LEMMA LostFollows ==
  ASSUME NEW r, IsResource(r), NEW key, Follows(r, key), InFlight(r)
  PROVE  /\ IsResource(Lost(r)) /\ Follows(Lost(r), key)
         /\ Lost(r).value.state = "err" /\ Lost(r).fetch = NoFetch
<1> DEFINE value == IF r.fetch.at = "asked" THEN Err(r.fetch.key)
                    ELSE Err(r.fetch.value.key)
<1>1. /\ Lost(r).value = value
      /\ Lost(r).fetch = NoFetch
      /\ Lost(r).dirty = r.dirty
      /\ Lost(r) \in [value : {value}, fetch : {NoFetch}, dirty : BOOLEAN]
  BY DEF Lost, IsResource
<1>2. r.fetch.at = "asked" \/ r.fetch.at = "answered"
  BY DEF IsResource, InFlight
<1>3. value.state = "err" /\ (~ r.dirty => value.key = key)
  BY <1>2 DEF Follows, Err
<1> HIDE DEF value
<1> QED
  BY <1>1, <1>3 DEF IsResource, Follows, NoFetch

\* What each step leaves of a value and a fetch.
LEMMA FetchFields ==
  ASSUME NEW r, IsResource(r)
  PROVE  /\ \A key : Restarted(r, key).value = r.value /\ Restarted(r, key).fetch = Asked(key)
         /\ \A body : /\ Served(r, body).value = r.value
                      /\ Served(r, body).fetch = Answered(Ok(r.fetch.key, body))
         /\ Refused(r).value = r.value /\ Refused(r).fetch = Answered(Err(r.fetch.key))
         /\ Delivered(r).value = r.fetch.value /\ Delivered(r).fetch = NoFetch
         /\ Lost(r).value.state = "err" /\ Lost(r).fetch = NoFetch
         /\ \A what, reads : /\ Touched(r, what, reads).value = r.value
                             /\ Touched(r, what, reads).fetch = r.fetch
BY DEF IsResource, Restarted, Served, Refused, Delivered, Lost, Touched, Err

\* What the fetch reads has changed, or has not.
LEMMA TouchedFollows ==
  ASSUME NEW r, IsResource(r), NEW key, Follows(r, key), NEW what, NEW reads, NEW new,
         what \in reads \/ new = key
  PROVE  IsResource(Touched(r, what, reads)) /\ Follows(Touched(r, what, reads), new)
<1>1. /\ Touched(r, what, reads).value = r.value
      /\ Touched(r, what, reads).fetch = r.fetch
      /\ Touched(r, what, reads).dirty = (r.dirty \/ what \in reads)
      /\ Touched(r, what, reads) \in [value : {r.value}, fetch : {r.fetch}, dirty : BOOLEAN]
  BY DEF Touched, IsResource
<1> QED
  BY <1>1 DEF IsResource, Follows
------------------------------------------------------------------------------
(***************************************************************************)
(* The index and the page.  A change of the slug or the language leaves    *)
(* the older answer in place and only marks what has to be fetched anew,   *)
(* so the keys agree unless the mark is set; the property speaks of the    *)
(* moments without one.                                                    *)
(***************************************************************************)
PagesInv ==
  /\ IsResource(page) /\ Follows(page, <<slug, language>>)
  /\ IsResource(index) /\ Follows(index, language)

\* The first fetches ask what the page and the provider show.
LEMMA InitPagesInv == PagesInit => PagesInv
BY MountedFollows DEF PagesInit, StartPages, PagesInv

\* Changes mark what they make stale, and answers belong to their questions.
LEMMA NextPagesInv == PagesInv /\ [PagesNext]_<<catalog, pageVars>> => PagesInv'
<1> SUFFICES ASSUME PagesInv, [PagesNext]_<<catalog, pageVars>> PROVE PagesInv'
  OBVIOUS
<1> USE DEF PagesInv
<1>1. ASSUME NEW l \in Locales, SwitchLanguage(l) PROVE PagesInv'
  <2>1. /\ page' = Touched(page, "language", PageReads)
        /\ index' = Touched(index, "language", IndexReads)
    BY <1>1 DEF SwitchLanguage, Change
  <2>2. "language" \in PageReads /\ "language" \in IndexReads
    BY DEF PageReads, IndexReads
  <2> QED
    BY <2>1, <2>2, TouchedFollows
<1>2. ASSUME NEW i \in DOMAIN Links, FollowLink(i) PROVE PagesInv'
  <2>1. /\ page' = Touched(page, "slug", PageReads)
        /\ index' = Touched(index, "slug", IndexReads)
        /\ language' = language
    BY <1>2 DEF FollowLink, Change
  <2>2. "slug" \in PageReads
    BY DEF PageReads
  <2> QED
    BY <2>1, <2>2, TouchedFollows
<1>3. CASE Fetching
  <2>1. UNCHANGED <<language, slug>>
    BY <1>3 DEF Fetching
  <2>2. CASE Restart
    BY <2>1, <2>2, RestartedFollows DEF Restart
  <2>3. CASE ServeIndex
    BY <2>1, <2>3, ServedFollows DEF ServeIndex
  <2>4. CASE ServePage
    <3>1. /\ page.fetch.at = "asked" /\ UNCHANGED index
          /\ \/ page' = Refused(page)
             \/ page' = Served(page, DocumentBody(page.fetch.key[1], page.fetch.key[2]))
      BY <2>4 DEF ServePage
    <3> QED
      BY <2>1, <3>1, ServedFollows, RefusedFollows
  <2>5. CASE Deliver
    BY <2>1, <2>5, DeliveredFollows DEF Deliver
  <2>6. CASE Drop
    BY <2>1, <2>6, LostFollows DEF Drop
  <2> QED
    BY <1>3, <2>2, <2>3, <2>4, <2>5, <2>6 DEF Fetching
<1>4. ASSUME NEW documents \in Built, Replacing(documents) PROVE PagesInv'
  BY <1>4 DEF Replacing
<1>5. CASE UNCHANGED <<catalog, pageVars>>
  BY <1>5 DEF pageVars
<1> QED
  BY <1>1, <1>2, <1>3, <1>4, <1>5 DEF PagesNext

\* Whatever a reader clicks, however late and in whatever order the answers come or
\* get lost, an answer to an older question is replaced or being replaced
\* (LegalDocumentPage, LegalProvider).
THEOREM OlderAnswersGo == PagesSpec => []NoOlderAnswerStays
<1>1. PagesInv => NoOlderAnswerStays
  BY DEF PagesInv, NoOlderAnswerStays, Quiet, InFlight, Follows, IsResource
<1> QED
  BY <1>1, InitPagesInv, NextPagesInv, PTL DEF PagesSpec
------------------------------------------------------------------------------
(***************************************************************************)
(* Links and pages.  An index and a page are compared by the number of the *)
(* catalog they came from, so what has to be known is which documents had  *)
(* which number: while numbers do not come round, there is a list of all   *)
(* catalogs that were served, and every answer was made from one of it.    *)
(***************************************************************************)
ListedFrom(served, answer) ==
  /\ answer.state \in {"pending", "ok", "err"}
  /\ answer.state = "ok" =>
       /\ answer.body.generation \in DOMAIN served
       /\ answer.body.entries = Index(served[answer.body.generation], answer.key)

ShownFrom(served, answer) ==
  /\ answer.state \in {"pending", "ok", "err"}
  /\ answer.state = "ok" =>
       LET documents == served[answer.body.generation]
           name == answer.key[1]
           lang == answer.key[2]
       IN  /\ answer.body.generation \in DOMAIN served
           /\ Hosts(documents, name)
           /\ answer.body.view =
                ViewOf(name, Negotiate(DOMAIN documents[name].bodies, lang), documents[name])

IsHistory(served) ==
  /\ served \in [0..catalog.generation -> Built]
  /\ served[catalog.generation] = catalog.documents
  /\ ListedFrom(served, index.value)
  /\ index.fetch.at = "answered" => ListedFrom(served, index.fetch.value)
  /\ ShownFrom(served, page.value)
  /\ page.fetch.at = "answered" => ShownFrom(served, page.fetch.value)

HistoryInv ==
  /\ changes \in 0..MaxChanges
  /\ catalog.generation \in 0..changes
  /\ \E served \in [0..catalog.generation -> Built] : IsHistory(served)

\* The first catalog makes the list.
LEMMA InitHistoryInv == PagesInit => HistoryInv
<1> SUFFICES ASSUME PagesInit PROVE HistoryInv
  OBVIOUS
<1>1. PICK documents \in Built : catalog = [generation |-> 0, documents |-> documents]
  BY DEF PagesInit, Register!InitCatalog
<1>2. PICK served : served = [n \in 0..0 |-> documents]
  OBVIOUS
<1>3. /\ served \in [0..catalog.generation -> Built]
      /\ served[catalog.generation] = catalog.documents
      /\ catalog.generation = 0
  BY <1>1, <1>2
<1>4. PICK l, name : page = Mounted(<<name, l>>) /\ index = Mounted(l)
  BY DEF PagesInit, StartPages
<1>5. /\ index.value = NoValue /\ index.fetch.at = "asked"
      /\ page.value = NoValue /\ page.fetch.at = "asked"
  BY <1>4 DEF Mounted, Restarted, Idle, Asked
<1>6. IsHistory(served)
  BY <1>3, <1>5 DEF IsHistory, ListedFrom, ShownFrom, NoValue
<1> QED
  BY <1>3, <1>6, PagesAssumption DEF HistoryInv, PagesInit, StartPages

\* The list with one catalog more: it leaves the former ones in their places.
Longer(served, g, documents) ==
  [n \in 0..(g + 1) |-> IF n <= g THEN served[n] ELSE documents]

\* It is a list, and its end is the further one.
LEMMA LongerHistory ==
  ASSUME NEW g \in Nat, NEW served \in [0..g -> Built], NEW documents \in Built
  PROVE  /\ Longer(served, g, documents) \in [0..(g + 1) -> Built]
         /\ Longer(served, g, documents)[g + 1] = documents
         /\ \A n \in 0..g : Longer(served, g, documents)[n] = served[n]
BY DEF Longer

\* Every answer that arrives was made from the catalog of its number.
LEMMA NextHistoryInv ==
  PagesInv /\ HistoryInv /\ [PagesNext]_<<catalog, pageVars>> /\ MaxChanges < GenerationModulus
    => HistoryInv'
<1> SUFFICES ASSUME PagesInv, HistoryInv, [PagesNext]_<<catalog, pageVars>>,
                    MaxChanges < GenerationModulus
             PROVE  HistoryInv'
  OBVIOUS
<1>1. /\ changes \in 0..MaxChanges /\ MaxChanges \in Nat
      /\ catalog.generation \in 0..changes
  BY PagesAssumption DEF HistoryInv
<1>2. PICK served \in [0..catalog.generation -> Built] : IsHistory(served)
  BY DEF HistoryInv
<1>3. /\ IsResource(index) /\ IsResource(page)
      /\ ListedFrom(served, index.value)
      /\ index.fetch.at = "answered" => ListedFrom(served, index.fetch.value)
      /\ ShownFrom(served, page.value)
      /\ page.fetch.at = "answered" => ShownFrom(served, page.fetch.value)
  BY <1>2 DEF PagesInv, IsHistory
<1>4. ASSUME UNCHANGED catalog, changes' \in 0..MaxChanges, changes <= changes',
             ListedFrom(served, index'.value),
             index'.fetch.at = "answered" => ListedFrom(served, index'.fetch.value),
             ShownFrom(served, page'.value),
             page'.fetch.at = "answered" => ShownFrom(served, page'.fetch.value)
      PROVE  HistoryInv'
  <2>1. IsHistory(served)'
    BY <1>2, <1>4 DEF IsHistory
  <2>2. catalog.generation \in 0..changes'
    BY <1>1, <1>4
  <2> QED
    BY <1>2, <1>4, <2>1, <2>2 DEF HistoryInv
<1>5. ASSUME NEW what, Change(what) PROVE HistoryInv'
  <2>1. /\ page'.value = page.value /\ page'.fetch = page.fetch
        /\ index'.value = index.value /\ index'.fetch = index.fetch
    BY <1>3, <1>5, FetchFields DEF Change
  <2>2. UNCHANGED catalog /\ changes' \in 0..MaxChanges /\ changes <= changes'
    BY <1>1, <1>5 DEF Change
  <2> QED
    BY <1>3, <1>4, <2>1, <2>2
<1>6. CASE Fetching
  <2>1. UNCHANGED catalog /\ changes' \in 0..MaxChanges /\ changes <= changes'
    BY <1>1, <1>6 DEF Fetching
  <2>2. CASE Restart
    <3>1. CASE index.dirty /\ index' = Restarted(index, language) /\ UNCHANGED page
      <4>1. Restarted(index, language).value = index.value
        BY <1>3, FetchFields
      <4>2. Restarted(index, language).fetch.at = "asked"
        BY <1>3, RestartedFollows
      <4>3. index'.value = index.value /\ index'.fetch.at = "asked"
        BY <3>1, <4>1, <4>2
      <4> QED
        BY <1>3, <1>4, <2>1, <3>1, <4>3
    <3>2. CASE page.dirty /\ page' = Restarted(page, <<slug, language>>) /\ UNCHANGED index
      <4>1. PICK key : key = <<slug, language>>
        OBVIOUS
      <4>2. Restarted(page, key).value = page.value
        BY <1>3, FetchFields
      <4>3. Restarted(page, key).fetch.at = "asked"
        BY <1>3, RestartedFollows
      <4>4. page'.value = page.value /\ page'.fetch.at = "asked"
        BY <3>2, <4>1, <4>2, <4>3
      <4> QED
        BY <1>3, <1>4, <2>1, <3>2, <4>4
    <3> QED
      BY <2>2, <3>1, <3>2 DEF Restart
  <2>3. CASE ServeIndex
    <3>1. PICK key, body : key = index.fetch.key /\ body = IndexBody(key)
      OBVIOUS
    <3>2. index'.value = index.value /\ index'.fetch = Answered(Ok(key, body))
      BY <1>3, <2>3, <3>1, FetchFields DEF ServeIndex
    <3>3. /\ index'.fetch.value = Ok(key, body)
          /\ body.generation = catalog.generation
          /\ body.entries = Index(catalog.documents, key)
      BY <3>1, <3>2 DEF Answered, IndexBody
    <3>4. ListedFrom(served, index'.fetch.value)
      BY <1>1, <1>2, <3>3 DEF ListedFrom, Ok, IsHistory
    <3> QED
      BY <1>3, <1>4, <2>1, <2>3, <3>2, <3>4 DEF ServeIndex
  <2>4. CASE ServePage
    <3>1. PICK key : key = page.fetch.key
      OBVIOUS
    <3>2. CASE Hosts(catalog.documents, key[1])
      <4>1. PICK body : body = DocumentBody(key[1], key[2])
        OBVIOUS
      <4>2. page'.value = page.value /\ page'.fetch = Answered(Ok(key, body))
        BY <1>3, <2>4, <3>1, <3>2, <4>1, FetchFields DEF ServePage
      <4>3. /\ page'.fetch.value = Ok(key, body)
            /\ body.generation = catalog.generation
            /\ body.view = ViewOf(key[1],
                                  Negotiate(DOMAIN catalog.documents[key[1]].bodies, key[2]),
                                  catalog.documents[key[1]])
        BY <4>1, <4>2 DEF Answered, DocumentBody
      <4>4. PICK answer : answer = Ok(key, body)
        OBVIOUS
      <4>5. answer.state = "ok" /\ answer.key = key /\ answer.body = body
        BY <4>4 DEF Ok
      <4>6. body.generation \in DOMAIN served /\ served[body.generation] = catalog.documents
        BY <1>1, <1>2, <4>3 DEF IsHistory
      <4>7. ShownFrom(served, answer)
        BY <3>2, <4>3, <4>5, <4>6 DEF ShownFrom
      <4>8. ShownFrom(served, page'.fetch.value)
        BY <4>3, <4>4, <4>7
      <4> QED
        BY <1>3, <1>4, <2>1, <2>4, <4>2, <4>8 DEF ServePage
    <3>3. CASE ~ Hosts(catalog.documents, key[1])
      <4>1. page'.value = page.value /\ page'.fetch = Answered(Err(key))
        BY <1>3, <2>4, <3>1, <3>3, FetchFields DEF ServePage
      <4>2. page'.fetch.value = Err(key)
        BY <4>1 DEF Answered
      <4>3. page'.fetch.value.state = "err"
        BY <4>2 DEF Err
      <4>4. ShownFrom(served, page'.fetch.value)
        BY <4>3 DEF ShownFrom
      <4> QED
        BY <1>3, <1>4, <2>1, <2>4, <4>1, <4>4 DEF ServePage
    <3> QED
      BY <3>2, <3>3
  <2>5. CASE Deliver
    <3>1. CASE index.fetch.at = "answered" /\ index' = Delivered(index) /\ UNCHANGED page
      <4>1. index'.value = index.fetch.value /\ index'.fetch.at = "none"
        BY <1>3, <3>1, FetchFields DEF NoFetch
      <4> QED
        BY <1>3, <1>4, <2>1, <3>1, <4>1
    <3>2. CASE page.fetch.at = "answered" /\ page' = Delivered(page) /\ UNCHANGED index
      <4>1. page'.value = page.fetch.value /\ page'.fetch.at = "none"
        BY <1>3, <3>2, FetchFields DEF NoFetch
      <4> QED
        BY <1>3, <1>4, <2>1, <3>2, <4>1
    <3> QED
      BY <2>5, <3>1, <3>2 DEF Deliver
  <2>6. CASE Drop
    <3>1. CASE InFlight(index) /\ index' = Lost(index) /\ UNCHANGED page
      <4>1. index'.value.state = "err" /\ index'.fetch.at = "none"
        BY <1>3, <3>1, FetchFields DEF NoFetch
      <4>2. ListedFrom(served, index'.value)
        BY <4>1 DEF ListedFrom
      <4> QED
        BY <1>3, <1>4, <2>1, <3>1, <4>1, <4>2
    <3>2. CASE InFlight(page) /\ page' = Lost(page) /\ UNCHANGED index
      <4>1. page'.value.state = "err" /\ page'.fetch.at = "none"
        BY <1>3, <3>2, FetchFields DEF NoFetch
      <4>2. ShownFrom(served, page'.value)
        BY <4>1 DEF ShownFrom
      <4> QED
        BY <1>3, <1>4, <2>1, <3>2, <4>1, <4>2
    <3> QED
      BY <2>6, <3>1, <3>2 DEF Drop
  <2> QED
    BY <1>6, <2>2, <2>3, <2>4, <2>5, <2>6 DEF Fetching
<1>7. ASSUME NEW documents \in Built, Replacing(documents) PROVE HistoryInv'
  <2>1. PICK g \in 0..changes : g = catalog.generation
    BY <1>1
  <2>2. /\ changes < MaxChanges /\ changes' = changes + 1
        /\ catalog' = [generation |-> (g + 1) % GenerationModulus, documents |-> documents]
        /\ UNCHANGED <<index, page>>
    BY <1>7, <2>1 DEF Replacing, Register!Publish
  <2>3. (g + 1) % GenerationModulus = g + 1
    <3>1. PICK modulus \in Nat \ {0} : modulus = GenerationModulus
      BY ServedAssumption
    <3>2. PICK number \in 0..(modulus - 1) : number = g + 1
      BY <1>1, <2>1, <2>2, <3>1
    <3>3. number % modulus = number
      OBVIOUS
    <3> QED
      BY <3>1, <3>2, <3>3
  <2>4. catalog'.generation = g + 1 /\ catalog'.documents = documents
    BY <2>2, <2>3
  <2>5. PICK longer \in [0..(g + 1) -> Built] :
          longer[g + 1] = documents /\ \A n \in 0..g : longer[n] = served[n]
    <3>1. g \in Nat /\ served \in [0..g -> Built]
      BY <1>1, <2>1
    <3>2. /\ Longer(served, g, documents) \in [0..(g + 1) -> Built]
          /\ Longer(served, g, documents)[g + 1] = documents
          /\ \A n \in 0..g : Longer(served, g, documents)[n] = served[n]
      BY <3>1, LongerHistory
    <3> QED
      BY <3>2
  <2>6. /\ \A answer : ListedFrom(served, answer) => ListedFrom(longer, answer)
        /\ \A answer : ShownFrom(served, answer) => ShownFrom(longer, answer)
    <3>1. DOMAIN served = 0..g /\ DOMAIN longer = 0..(g + 1) /\ g \in Nat
      BY <1>1, <2>1
    <3>2. \A n \in DOMAIN served : n \in DOMAIN longer /\ longer[n] = served[n]
      BY <2>5, <3>1
    <3> QED
      BY <3>2 DEF ListedFrom, ShownFrom
  <2>7. IsHistory(longer)'
    BY <1>3, <2>2, <2>4, <2>5, <2>6 DEF IsHistory
  <2>8. changes' \in 0..MaxChanges /\ g + 1 \in 0..changes'
    BY <1>1, <2>1, <2>2
  <2> QED
    BY <2>4, <2>5, <2>7, <2>8 DEF HistoryInv
<1>8. CASE UNCHANGED <<catalog, pageVars>>
  BY <1>1, <1>3, <1>4, <1>8 DEF pageVars
<1> QED
  BY <1>5, <1>6, <1>7, <1>8 DEF PagesNext, SwitchLanguage, FollowLink

\* Of one catalog, a link of the index opens, and what opens has the link's title.
\* The number of a catalog names it until it comes round (LegalLinks, legal_title,
\* Legal::index, Legal::document).
THEOREM LinksLead ==
  ASSUME MaxChanges < GenerationModulus
  PROVE  PagesSpec => []LinksLeadToTheirPages
<1>1. ASSUME HistoryInv PROVE LinksLeadToTheirPages
  <2>1. PICK served \in [0..catalog.generation -> Built] : IsHistory(served)
    BY <1>1 DEF HistoryInv
  <2> SUFFICES ASSUME NEW i \in DOMAIN Links, Links[i].kind = "inline"
               PROVE  /\ index.value.body.generation = catalog.generation =>
                           Hosts(catalog.documents, Links[i].slug)
                      /\ /\ Rendered.shows = "document"
                         /\ page.value.body.generation = index.value.body.generation
                         /\ page.value.key = <<Links[i].slug, index.value.key>>
                         => Rendered.title = ShownTitle(Links[i].title, Links[i].slug)
    BY DEF LinksLeadToTheirPages
  <2>2. index.value.state = "ok" /\ Links = index.value.body.entries
    BY DEF Links
  <2>3. PICK documents, lang :
          documents = served[index.value.body.generation] /\ lang = index.value.key
    OBVIOUS
  <2>4. documents \in Built /\ Links = Index(documents, lang)
    BY <2>1, <2>2, <2>3 DEF IsHistory, ListedFrom
  <2>5. PICK name \in DOMAIN documents : Links[i] = LegalIndexEntry(name, documents[name], lang)
    BY <2>4, IndexListsDocuments
  <2>6. Links[i].slug = name /\ Links[i].kind = documents[name].kind
    BY <2>5 DEF LegalIndexEntry
  <2>7. Hosts(documents, name)
    BY <2>6 DEF Hosts
  <2>8. index.value.body.generation = catalog.generation => Hosts(catalog.documents, name)
    BY <2>1, <2>3, <2>7 DEF IsHistory
  <2>9. ASSUME Rendered.shows = "document",
               page.value.body.generation = index.value.body.generation,
               page.value.key = <<name, lang>>
        PROVE  Rendered.title = ShownTitle(Links[i].title, name)
    <3>1. page.value.state = "ok" /\ Rendered = Content(page.value.body.view)
      BY <2>1, <2>9 DEF Rendered, IsHistory, ShownFrom
    <3>2. PICK view, key : view = page.value.body.view /\ key = page.value.key
      OBVIOUS
    <3>3. key[1] = name /\ key[2] = lang
      BY <2>9, <3>2
    <3>4. documents = served[page.value.body.generation]
      BY <2>3, <2>9
    <3>5. view = ViewOf(key[1],
                        Negotiate(DOMAIN documents[key[1]].bodies, key[2]), documents[key[1]])
      BY <2>1, <3>1, <3>2, <3>4 DEF IsHistory, ShownFrom
    <3>6. view = ViewOf(name, Negotiate(DOMAIN documents[name].bodies, lang), documents[name])
      BY <3>3, <3>5
    <3>7. view.slug = name
      BY <3>6 DEF ViewOf
    <3>8. Links[i].title = ViewTitle(view)
      BY <2>4, <2>5, <2>7, <3>6, EntryAgreesWithView
    <3> QED
      BY <3>1, <3>2, <3>7, <3>8 DEF Content
  <2> QED
    BY <2>3, <2>6, <2>8, <2>9
<1>2. PagesSpec => [](PagesInv /\ HistoryInv)
  <2>1. PagesInit => PagesInv /\ HistoryInv
    BY InitPagesInv, InitHistoryInv
  <2>2. (PagesInv /\ HistoryInv) /\ [PagesNext]_<<catalog, pageVars>> => (PagesInv /\ HistoryInv)'
    BY NextPagesInv, NextHistoryInv
  <2> QED
    BY <2>1, <2>2, PTL DEF PagesSpec
<1> QED
  BY <1>1, <1>2, PTL
------------------------------------------------------------------------------
(***************************************************************************)
(* The list of documents owed.  While an acceptance is recorded and has    *)
(* not yet asked for the status again, or the server changed behind the    *)
(* client's back, an answer under way may be older than the records; at    *)
(* all other times it says what the server would say now.                  *)
(***************************************************************************)
IsTold(r) ==
  /\ r.fetch.at = "answered" /\ r.fetch.value.state = "ok" => r.fetch.value.body = Owed
  /\ r.fetch.at = "none" /\ r.value.state = "ok" => r.value.body = Owed

Recorded(t) == task[t].at = "recorded"

GateInv ==
  /\ IsResource(status) /\ Follows(status, Language)
  /\ task = [t \in Tasks |-> task[t]]
  /\ untold \/ (\E t \in Tasks : Recorded(t)) \/ IsTold(status)

\* The first fetch of the status has not been answered yet.
LEMMA InitGateInv == GateInit => GateInv
<1> SUFFICES ASSUME GateInit PROVE GateInv
  OBVIOUS
<1>1. status = Mounted(Language) /\ task = [t \in Tasks |-> NoTask]
  BY DEF GateInit, StartGate
<1> QED
  BY <1>1, MountedFollows DEF GateInv, IsTold

\* The server answers with what it has; a task that has recorded asks again when it
\* ends, and owes the client the news when its answer is lost.
LEMMA NextGateInv == GateInv /\ [GateNext]_<<catalog, gateVars>> => GateInv'
<1> SUFFICES ASSUME GateInv, [GateNext]_<<catalog, gateVars>> PROVE GateInv'
  OBVIOUS
<1> USE DEF GateInv
<1>a. ASSUME UNCHANGED <<catalog, records>> PROVE Owed' = Owed
  BY <1>a DEF Owed
<1>b. ASSUME UNCHANGED <<catalog, records>>,
             IsResource(status'), Follows(status', Language), IsTold(status) => IsTold(status)',
             task' = [u \in Tasks |-> task'[u]],
             \A t \in Tasks : Recorded(t) => untold' \/ Recorded(t)',
             untold => untold'
      PROVE  GateInv'
  BY <1>b
<1>1. CASE ServeStatus /\ UNCHANGED <<lost, catalog>>
  <2>1. status' = Served(status, Owed) /\ UNCHANGED <<records, task>>
        /\ status.fetch.at = "asked"
    BY <1>1 DEF ServeStatus
  <2>2. /\ IsResource(status') /\ Follows(status', Language)
        /\ status'.fetch = Answered(Ok(status.fetch.key, Owed))
    BY <2>1, ServedFollows
  <2>3. IsTold(status)'
    BY <1>1, <1>a, <2>1, <2>2 DEF IsTold, Answered, Ok
  <2> QED
    BY <2>1, <2>2, <2>3
<1>2. CASE DeliverStatus /\ UNCHANGED <<lost, catalog>>
  <2>1. /\ status' = Delivered(status) /\ UNCHANGED <<records, task, untold>>
        /\ status.fetch.at = "answered"
    BY <1>2 DEF DeliverStatus
  <2>2. /\ IsResource(status') /\ Follows(status', Language)
        /\ status'.value = status.fetch.value /\ status'.fetch = NoFetch
    BY <2>1, DeliveredFollows
  <2>3. IsTold(status) => IsTold(status)'
    BY <1>2, <1>a, <2>1, <2>2 DEF IsTold, NoFetch
  <2> QED
    BY <1>2, <1>b, <2>1, <2>2, <2>3 DEF Recorded
<1>3. CASE Reload /\ UNCHANGED <<lost, catalog>>
  <2>1. status' = Mounted(Language) /\ task' = [t \in Tasks |-> NoTask]
    BY <1>3 DEF Reload
  <2>2. /\ IsResource(status') /\ Follows(status', Language)
        /\ status'.fetch.at = "asked"
    BY <2>1, MountedFollows
  <2>3. task' = [t \in Tasks |-> task'[t]] /\ IsTold(status)'
    BY <2>1, <2>2 DEF IsTold
  <2> QED
    BY <2>2, <2>3
<1>4. ASSUME NEW t \in Tasks, ServeDocument(t), UNCHANGED <<lost, catalog>> PROVE GateInv'
  <2>1. task[t].at = "asking" /\ UNCHANGED <<records, status, untold>>
    BY <1>4 DEF ServeDocument, Fails
  <2>2. \E x : task' = [task EXCEPT ![t] = x]
    BY <1>4 DEF ServeDocument, Fails, Now
  <2>3. /\ task' = [u \in Tasks |-> task'[u]]
        /\ \A u \in Tasks \ {t} : task'[u] = task[u]
    BY <2>2
  <2>4. IsTold(status) => IsTold(status)'
    BY <1>4, <1>a, <2>1 DEF IsTold
  <2> QED
    BY <1>4, <1>b, <2>1, <2>3, <2>4 DEF Recorded
<1>5. ASSUME NEW t \in Tasks, PostAcceptance(t), UNCHANGED <<lost, catalog>> PROVE GateInv'
  <2>1. task[t].at = "fetched" /\ UNCHANGED <<status, untold>>
    BY <1>5 DEF PostAcceptance, Fails
  <2>2. CASE Now(t, "recorded", "none", NoView)
    <3>1. task' = [u \in Tasks |-> task'[u]] /\ Recorded(t)'
      BY <2>2 DEF Now, Recorded
    <3> QED
      BY <2>1, <3>1
  <2>3. CASE Fails(t)
    <3>1. task' = [task EXCEPT ![t] = NoTask] /\ UNCHANGED records
      BY <2>3 DEF Fails
    <3>2. /\ task' = [u \in Tasks |-> task'[u]]
          /\ \A u \in Tasks \ {t} : task'[u] = task[u]
      BY <3>1
    <3>3. IsTold(status) => IsTold(status)'
      BY <1>5, <1>a, <2>1, <3>1 DEF IsTold
    <3> QED
      BY <1>5, <1>b, <2>1, <3>1, <3>2, <3>3 DEF Recorded
  <2> QED
    BY <1>5, <2>2, <2>3 DEF PostAcceptance
<1>6. ASSUME NEW t \in Tasks, Settle(t) PROVE GateInv'
  <2>1. task' = [task EXCEPT ![t] = NoTask] /\ status' = Restarted(status, Language)
    BY <1>6 DEF Settle, AskAgain
  <2>2. /\ IsResource(status') /\ Follows(status', Language)
        /\ status'.fetch.at = "asked"
    BY <2>1, RestartedFollows
  <2>3. task' = [u \in Tasks |-> task'[u]] /\ IsTold(status)'
    BY <2>1, <2>2 DEF IsTold
  <2> QED
    BY <2>2, <2>3
<1>7. ASSUME NEW t \in Tasks, NEW name, Accept(t, name), UNCHANGED <<lost, catalog>>
      PROVE  GateInv'
  <2>1. task[t].at = "idle" /\ UNCHANGED <<records, status, untold>>
    BY <1>7 DEF Accept, Busy
  <2>2. /\ task' = [u \in Tasks |-> task'[u]]
        /\ \A u \in Tasks \ {t} : task'[u] = task[u]
    BY <1>7 DEF Accept, Now
  <2>3. IsTold(status) => IsTold(status)'
    BY <1>7, <1>a, <2>1 DEF IsTold
  <2> QED
    BY <1>7, <1>b, <2>1, <2>2, <2>3 DEF Recorded
<1>8. CASE LoseStatus /\ UNCHANGED catalog
  <2>1. InFlight(status) /\ status' = Lost(status) /\ UNCHANGED <<records, task, untold>>
    BY <1>8 DEF LoseStatus
  <2>2. /\ IsResource(status') /\ Follows(status', Language)
        /\ status'.value.state = "err" /\ status'.fetch = NoFetch
    BY <2>1, LostFollows
  <2>3. IsTold(status)'
    BY <2>2 DEF IsTold, NoFetch
  <2> QED
    BY <2>1, <2>2, <2>3
<1>9. ASSUME NEW t \in Tasks, LoseTask(t), UNCHANGED catalog PROVE GateInv'
  <2>1. /\ task' = [task EXCEPT ![t] = NoTask] /\ UNCHANGED <<records, status>>
        /\ untold' = (untold \/ Recorded(t))
    BY <1>9 DEF LoseTask, Fails, Recorded
  <2>2. /\ task' = [u \in Tasks |-> task'[u]]
        /\ \A u \in Tasks \ {t} : task'[u] = task[u]
    BY <2>1
  <2>3. IsTold(status) => IsTold(status)'
    BY <1>9, <1>a, <2>1 DEF IsTold
  <2> QED
    BY <1>9, <1>b, <2>1, <2>2, <2>3 DEF Recorded
<1>10. ASSUME NEW documents \in Built, Edit(documents) PROVE GateInv'
  BY <1>10 DEF Edit
<1>11. CASE UNCHANGED <<catalog, gateVars>>
  <2>1. UNCHANGED <<catalog, records, status, task, untold>>
    BY <1>11 DEF gateVars
  <2>2. IsTold(status) => IsTold(status)'
    BY <1>a, <2>1 DEF IsTold
  <2> QED
    BY <1>b, <2>1, <2>2 DEF Recorded
<1> QED
  BY <1>1, <1>2, <1>3, <1>4, <1>5, <1>6, <1>7, <1>8, <1>9, <1>10, <1>11
     DEF GateNext, GateStep, Losing, Proceed, Press

\* For any number of acceptances under way at a time: once nothing is, the list is
\* what the server would say, unless it changed behind the client's back
\* (ConsentGate).
THEOREM QuietListIsTrue == GateSpec => []ListIsTrueWhenQuiet
<1>1. GateInv => ListIsTrueWhenQuiet
  <2> SUFFICES ASSUME GateInv, \A t \in Tasks : ~ Busy(t), Quiet(status),
                      status.value.state = "ok", ~ untold
               PROVE  Listed = Owed
    BY DEF ListIsTrueWhenQuiet
  <2>1. IsTold(status)
    BY DEF GateInv, Busy, Recorded
  <2> QED
    BY <2>1 DEF IsTold, Listed, Quiet, InFlight
<1> QED
  BY <1>1, InitGateInv, NextGateInv, PTL DEF GateSpec
===============================================================================
