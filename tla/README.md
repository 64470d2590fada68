# terrace-legal in TLA+

A verification project for `terrace-legal`, the library with which an operator
publishes legal documents, changes them while the service runs, and asks its
users to accept them. This directory holds TLA+ modules that model the library,
from a configuration to the HTML of a page, TLC configurations that check them on small
instances, and theorems about every instance, with proofs that the TLA+ proof system checks.

Paths below are relative to the repository; `legal/`, `model/`, `axum/` and
`dioxus/` stand for `crates/terrace-legal/src/`, `crates/terrace-legal-model/src/`,
`crates/terrace-legal-axum/src/` and `crates/terrace-legal-dioxus/src/`, `markdown/`
for `crates/terrace-legal-markdown/src/`.

## The system

### Components

| Component | State it keeps | Operations | What makes it correct |
| --- | --- | --- | --- |
| Validation and catalog build (`legal/config.rs`, `catalog.rs`, `rules.rs`) | none: a configuration in, a catalog or a list of issues out | `CatalogBuilder::build` | no combination of fields publishes a document that asks for consent and cannot be shown, quoted and proven |
| Handle `Legal` (`legal/legal.rs`) | the served catalog behind a lock, numbered by a wrapping generation | `new`, `replace`, `catalog`, `index`, `document` | replacements are atomic; a refused one keeps the previous catalog; readers hold a whole catalog |
| Document serving (`legal/legal.rs`, `etag.rs`, `axum/respond.rs`) | none beyond the catalog | conditional responses for the index and a document | a client told "not modified" holds what the server publishes |
| Locale negotiation (`model/negotiate.rs`, `accept.rs`, `locale.rs`) | none | `negotiate`, `accept_language` | one locale decides title and body, and one exists for every hosted document |
| Evaluation (`model/consent.rs`) | none | `evaluate`, `Policy::blocks_from`, `ConsentStatus::is_blocked` | the last word decides, in whatever order records are given |
| Consent against the catalog (`legal/consent.rs`) | none | `verify_acceptance`, `verify_registration`, `withdrawal_record`, `consent_status` | a record names text and revision that were served together; a registration is all or nothing |
| Consent store (`legal/consent.rs`) | append-only records by subject | `append`, `latest`, `history`, `erase` | what is scanned off the log is what the store promises to keep of each subject, and `latest` and `history` lead to one verdict |
| Routes and layer (`axum/consent/`) | none; one task per request | `GET` status, `POST` accept, `POST` withdraw, `RequireConsent` | nobody passes who owed an overdue document all along, nobody is stopped who did not |
| Exemptions (`axum/consent/exempt.rs`) | the exempt prefixes | `new`, `extend`, `covers` | a prefix covers whole segments and no path beside it, and a blocked subject can still read and accept |
| Consent client (`dioxus/consent.rs`) | the status fetched last, a failure message, one task for each press of a button | `accept_document`, `ConsentGate` | an acceptance quotes the text its reader was given, gets the document off the list, and the list is true once nothing is under way |
| Pages (`dioxus/provider.rs`, `page.rs`, `links.rs`, `context.rs`) | language and slug, two fetched resources | fetch again on a change, links | the page on the screen answers the last question asked, and a link leads to the page it names |
| Sentences (`dioxus/acceptance.rs`, `model/slug.rs`) | none | `split_template`, `AcceptanceSentence` | a sentence is shown as written, with a link at every placeholder |
| Markdown (`markdown/tree.rs`, `href.rs`, `render.rs`) | a stack of open containers | `parse`, `render`, `is_safe_href` | no text is lost or moved, every element is where HTML allows it, a link is read as a browser reads it |

### How they interact

- Validation builds a `Catalog`; `Legal::replace` validates **before** it takes
  the write lock, so two callers can build side by side and swap in either order.
- Every other call takes the catalog of its moment with `Legal::catalog`, which
  clones an `Arc` under the read lock. A call that takes it twice can see two
  catalogs. `verify_registration` takes it once per acceptance and once more at
  the end.
- The routes and the layer combine three sources that change independently: the
  store (behind an `await` that can fail), the clock, and the catalog. They read
  them in the order store, clock, catalog.
- The Dioxus client fetches a document through whatever HTTP caches, private or shared, there
  are, and posts an acceptance that quotes what it was given. The entity tag
  decides whether a cache's copy is kept alive, `Vary` who else is given it.
- Its components fetch the status, the index and a document as *resources*, which
  start again when what they read changes. Every recorded acceptance starts the
  status again; a press of a button is a task of its own, so acceptances overlap one
  another and the fetch of the status.
- The layer asks the exemptions about the path a request had before any router
  stripped a prefix off it.
- The host is outside: it authenticates, supplies a store, calls
  `verify_registration` when an account is created and `erase` when it is closed.

### What is hard here

Nothing in the library spawns a thread or persists a byte, and there is no crash
recovery to get right. The hard behaviour is *staleness*: a value read, an
`await` or a replacement, and the value used. Then *ordering*: a record is dated
before it is appended, and evaluation sorts by date while the store answers by
append. Then *partial failure*: an append whose answer is lost. Then *liveness*: the
client's loop through a cache, and its list, from which a document must go away
whatever fails on the way. Finally *reading*: paths, link targets, headers and
Markdown are scanned by hand-written code that has to agree with how a server, a
browser or a standard reads the same text. `PROJECT.json` lists each hazard at its
line with the properties that cover it.

## The modules

| Module | Models | Remarks |
| --- | --- | --- |
| `Catalog` | validation and the catalog it builds | pure operators over configurations |
| `Consent` | evaluation, verification of acceptances, withdrawal records, the store's queries | pure operators over records and catalogs |
| `CatalogRegister` | what `Legal` promises: one register, replaced in single steps | the abstract specification |
| `ServedCatalog` | the catalog behind the handle and the configurations that can be loaded | gives `CatalogRegister` its parameter |
| `LegalHandle` | `Legal` as written: build outside the lock, swap under it, readers with an `Arc` | implements `CatalogRegister` |
| `ConsentStore` | what a store promises: a history and the last records of each subject, kept record by record | an abstract specification |
| `ConsentService` | the three routes, the layer, the reference store and the clock | composed over `CatalogRegister`, implements `ConsentStore` |
| `Registration` | `verify_registration`, one acceptance per step | composed over `CatalogRegister` |
| `DocumentCache` | `document`, conditional responses, a client cache and `accept_document` | composed over `CatalogRegister` |
| `Views` | what a reader is sent: the view of a document, its tag, the acceptance that quotes it | shared by the modules below |
| `Indexes` | the index and its entries | pure operators over `Views` |
| `IndexTag` | the tag of the index, and readers who revalidate | extends `LegalHandle`: the readers take their catalog from it |
| `SharedCache` | documents for readers of several languages behind a shared cache: `Vary`, `max-age`, revalidation | over `Views` and `CatalogRegister`; the cache is external, as RFC 9111 has it |
| `Resource` | a value a component fetches (`use_resource`) | external: the framework as the components use it |
| `Pages` | the provider, the page and its links | over `Indexes` and `Resource` |
| `ConsentGate` | `ConsentGate`, `ConsentList`, `accept_document` | over `Views` and `Resource` |
| `Negotiation` | `negotiate`, `lookup`, the parsing of `Accept-Language` | sets the code's order of attempts against what a reader may expect |
| `Evaluation` | `evaluate` on a slice that grows in any order while time passes | sets `Consent` against its documentation |
| `Ranks` | positions listed in order | used by `Indexes` and `Exemptions` |
| `Exemptions` | `Exemptions::new`, `extend`, `covers` and the path the layer asks about | a path grows by one token in each step |
| `Href` | `is_safe_href`, `is_external` | beside them the URL standard's parser, a token at a time |
| `Template` | `split_template`, `AcceptanceSentence`, `Slug::from_str` | beside them what a placeholder is |
| `EntityTags` | `matches_if_none_match` | beside it the grammar of RFC 9110, a character at a time |
| `Readers` | texts for the three modules above, growing by a piece in each step | asks in every state what is read |
| `MarkdownTree` | `parse`, `close`, `render` | one parser event per step; the one module with RECURSIVE operators, which no module with theorems uses |
| `CatalogProofs` | lemmas and a theorem about validation, catalogs and acceptances | all other proofs extend it |
| `LegalHandleProofs` | theorems about `LegalHandle` and `IndexTag` | see below |
| `ConsentServiceProofs`, `RegistrationProofs` | theorems about records and decisions, and about registrations | see below |
| `PureProofs` | theorems about `Evaluation`, `Exemptions` and `Readers`, whose answers depend on nothing but what they are asked | see below |
| `NegotiationProofs` | theorems about `Negotiation` | see below |
| `CacheProofs` | theorems about `DocumentCache` and `SharedCache` | see below |
| `ClientProofs` | theorems about `Pages` and `ConsentGate` | see below |
| `MC...` | instances for TLC | constants; `MCLegalHandle`, `MCClient` and `MCReaders` also take several modules side by side |

### From the code to the model

**Configurations.** A source (`LegalDocument`) is a record of the fields
validation looks at: `body` maps spellings of locale keys to texts, `TagOf` says
which locale a spelling normalises to (two spellings may be one locale, one may be
none), `url` is absent, usable or refused, and the dates and numbers carry values
for "not configured" and "not well formed". A text is a number, and so is its
digest: equal texts have equal digests, as SHA-256 is used for. `Issues` is the
set of fields reported, each with its key; the wording of a report is left out. A
document without a policy is one whose requirement is `none`.

**The handle.** `catalog` is the value behind the lock. `ReplaceBuild` is
`replace` up to the lock and `ReplaceSwap` what it does under it; `next[r]` is
the catalog the caller `r` carries from one to the other. `Take` is `catalog()`.
`index` and `document` are functions of what `Take` returns.

**The routes.** A request is a process. It is cut at each `await` on the store and
between the clock and the catalog, since `clock.now()` is evaluated as an argument
before the call takes the catalog. `accept` is `AcceptVerify` (verify, or a
refusal), `AcceptDate` (`into_record` takes the time) and `AppendDraft` (the
`await`); `withdraw` is `ReadLatest`, `ReadClock`, `WithdrawBuild`, `AppendDraft`;
`status` and the layer are `ReadLatest`, `ReadClock` and their decision. An append
may be stored, refused, or stored with its answer lost. `log` maps append
positions to records, so erasing a subject leaves gaps and later positions keep
their order. The reference store keeps the log alone and scans it for every answer;
`ConsentStore` keeps what is answered and knows no log. `watch` is a history variable: what the subject owed, and had
settled, in every state since the store answered.

**Registration.** `verify_registration` is synchronous but holds no lock, so a
replacement may fall between any two of its looks at the catalog: one step per
look. `loads` records the catalogs it took.

**Negotiation.** A tag is the sequence of its subtags, so `truncated` drops the last
and the loop of `lookup` is the longest prefix that is hosted; `TextOrder` is the
order of canonical texts that `min` uses. A range of the header is a tag and a
weight as its digits, and a header over the byte bound loses what follows its last
comma. Bytes are counted in units, one for each subtag, weight and comma: where
inside one of these the bound falls makes no difference, since the whole range is
dropped.

**The cache.** `cache[c]` is a private HTTP cache as RFC 9111 has it: fresh until
`max-age` passes, then revalidated with the stored tag. The tag is the tuple of
what `Builder::document` hashes. A heading stands for the title and the updated
line. A message lost at any point ends `accept_document` with an error, and the
user may press the button again.

**The shared cache.** A cache in front of the server keys what it stores on the URL and on
the headers that `Vary` names, counts its age in ticks from when the request left, and
revalidates with the tags of everything stored for the URL, so a `304` may pick a response
that was stored for another language. `recent` is a history variable: how long ago each
set of documents was last served.

**The index.** An entry is the record of its members, and an index the sequence of
entries in the documents' order. Its tag is the sequence of the fields that are
hashed: each is hashed with its length, so a field is one element, and the mark that
tells an absent text from a present one is an element too. `LocaleText` and `VersionText`
say how a locale and a revision are written, and in an instance some texts are also
words of another kind of field. The negotiation of `Views` is that of locales of
different languages without a header; `Negotiation` has the whole of it.

**Resources.** The framework is not in the repository. A resource keeps its last value
until the next arrives; a change of what its fetch read marks it `dirty`, and a step of
its own cancels the fetch in flight and starts another. `Restarted` is also what
`restart()` does. A page's value carries the question it answers and, for the
properties, the generation it was answered from.

**The list.** `Accept(t, name)` is a press of a button, which spawns a task;
`ServeDocument(t)`, `PostAcceptance(t)` and `Settle(t)` are the three parts of
`accept_document` and of what `on_accept` does after it. Every task and the fetch of
the status can lose its request or its answer, which for a task are one and the same
to the client, and differ in whether the server has the record. `untold` is a history
variable: the server changed and no status served since says so. The records are each
document's last, in the order they were appended, since the client reads the server
through `latest` alone.

**Paths and texts.** A text is a sequence of tokens, one for each class of characters
the code tells apart: `%2e` is a dot in any percent-encoding, a space stands for white
space and control characters. A router nested under a prefix hands on a path without it and the
original beside it. Each reading is set against another, written from the
standard or the documentation: segments resolved as RFC 3986 does, a scheme read
token by token, placeholders as pairs of places, a header as a list.

**Markdown.** The parser is a library: its events are those of a well-nested stream in
the order `MayHold` allows, which may also end early or close one container too many,
as `parse` guards against both. Links do not nest by their brackets (CommonMark 6.3), but an
autolink may stand in the text of a link. A node is a record and a tree a nested sequence; texts are
numbers, so that losing, repeating or moving one shows.

## The runs

Every number of distinct states is TLC's.

| Run | Question | Bounds, and why they are enough |
| --- | --- | --- |
| `legal_handle` | Do overlapping replacements behave as single swaps, is whatever is served well formed, and is an index confirmed by its tag the current one? Beside it: is everybody behind a shared cache given their own language, and no text retired for longer than `max-age`? | two callers, one reader, four valid configurations and one for each check to refuse, generation modulo 3. Two callers give every overlap of one build with another's swap; the number wraps, so one number names two catalogs. For the cache, which stands still meanwhile and the other way round, two readers of one URL in two languages, two replacements and a `max-age` of two ticks: a response can be stored for one, confirmed for the other, and expire on its way. 298 974 states, about a minute |
| `consent_service` | Is every stored record one that a served catalog accounts for? Do the store's answers stay what its contract keeps? Do stale reads lose a block, or block without cause? | three requests of one subject, two documents, two revisions, two instants; acceptances that quote what is, was and never was served. An acceptance, a withdrawal and a decision can overlap, and a subject can be erased among them. 434 027 states, under two minutes |
| `registration` | Is a registration all or nothing while catalogs change, and does its subject owe nothing but what was revised meanwhile? | every submission of at most two acceptances, and one of three with a repeated document; three catalogs, any number of replacements |
| `document_cache` | Is a revalidated text current, does an acceptance quote what was shown, does the reader get done? | one client (clients share nothing but the catalog), six catalogs, three replacements: enough for a text to be replaced and restored |
| `negotiation` | Do the request, the header and the default decide in that order, whatever the header looks like? | every header of up to four of eight ranges (weights in and out of order, refused, malformed, repeated), every set of four locales, both bounds of the header within reach. Two ranges compete and a third and fourth are cut or interfere. 299 584 states, about a minute |
| `client` | Does what stays on the screen answer the last question? Is the list true once nothing is under way, and empty once the user is through? | two documents in two languages, three catalogs; on the pages two changes by the reader or operators; on the list two acceptances at a time, one replacement, two lost messages. Two tasks overlap each other and the status, and a loss can hit either part of each. 118 794 states, about a minute |
| `readers` | Are paths, links, sentences, headers and Markdown read as others read them? | every path of up to six tokens against 21 ways to write the mounts, every text of up to five or six pieces, every stream of up to four containers and two texts, or six containers and one text for tables. Six tokens hold a mount, a segment that resolves it away and one more. 1 313 421 states, about two minutes |
| `evaluation` | Does the fold of `evaluate` decide as documented, whatever the order? | every sequence of up to three out of 25 records, five policies, three instants. Three records give a decider, a rival and a bystander |

Four runs end in a counterexample, and each stands for an entry under `findings`
in `PROJECT.json`:

| Run | What is violated |
| --- | --- |
| `registration_mix` | "a request sees the old catalog or the new one, never a mix": a registration across a replacement passes though neither catalog alone would grant it |
| `document_livelock` | the tag "covers every field of `value`", but neither the requirement nor the version of the policy: after a revision that changes the version alone, a reader behind a cache quotes the old version for ever, and "an accepted document leaves the list" fails |
| `evaluation_tie` | ties are ordered "so the outcome does not depend on their order": two ties that differ in locale alone are not, and `content_changed_since` looks at the locale |
| `withdrawal_text` | a withdrawal names "the text the subject last recorded against": it names that locale's text of today |

`PROJECT.json` also lists, for every property of a passing run, a mutated
definition under which TLC finds it violated. The mutants are the definitions
commented as such, next to those they change.

### Fairness

The library schedules nothing, so every assumption is about its surroundings. `Tick`,
requests and replacements elsewhere are not fair: the other modules check safety.

`DocumentCache`: the user presses the button again while the
document is offered and time passes (weak fairness of a fetch and of `Expire`). The
network may lose any message but not every one (strong fairness of
`ServeDocument`, `Receive` and `PostAcceptance`, each of which competes with `Lose`).
Operators are bounded by `MaxReplacements` and under no obligation.

`MCClient`, for the list alone: the server answers (weak, `ServeStatus`), and so do the
parts of a task (weak, one conjunct for each task). An answer that is on its way
arrives, but a task that settles may cancel it and ask again, so `DeliverStatus` is
strong. The user keeps at it: whoever is offered a button again and again presses it,
and whoever is told again and again that something failed loads the page anew (strong,
`Press` and `Reload`). Losses are bounded by `MaxLost` instead: a network that loses
something for ever could keep any client busy. `Still` says that these steps are the
list's.

`CHECK_DEADLOCK FALSE` stands where a behaviour may end: a cache whose reader owes
nothing, a client whose list is empty, a slice or a text at its bound.

## The proofs

The theorems hold for every set of slugs, locales, texts and configurations, for any
number of callers, readers, requests, clients and subjects, and for headers, slices and
registrations of any length. Each module's constants have one assumption, which TLC
evaluates in every run: `CatalogAssumption` says what the constants of a catalog are,
`ServedAssumption` that operators load configurations of the type `LegalConfig` and that
the modulus is positive, `TagAssumption` that different locales and different revisions are
written differently, and the others (`ServiceAssumption`, `RegistrationAssumption`,
`NegotiationAssumption`, ...) that what clients send, readers ask and hosts configure has
the type the code's parser gives it. A configuration has finitely many texts of a document,
being read from a file. `LinksLead` alone also needs
that fewer catalogs are served than there are numbers, of which the code has 2^64: where a
number comes round, two catalogs answer to it.

**Validation.** `ValidCatalog`: a configuration with no issues builds a catalog whose
documents have their types, the required ones among them. The argument goes through each
check: that bodies are a function of the locale is `BodiesArePartial`, which needs the report
on two spellings of one locale; that a policy is demonstrable is `PolicyIsDemonstrable`,
which needs every report of `Builder::consent`.

**The handle.** `TypeCorrect` and `AlwaysServesWellFormed`: neither is inductive, since a swap
publishes what a caller built some time ago. `HandleInv` adds `PendingIsBuilt`, that whatever
waits to be swapped in came out of a successful build, and `HeldIsBuilt`, the same of what
readers hold. `HandleImplementsRegister`, `Spec => Register!RegisterSpec`: by `HandleInv` each
swap is one `Publish` of a buildable catalog under the next number, and every other step
leaves the register alone. This is what the composed modules rest on when they replace the
catalog in one step.

**Index and documents.** `IndexAgrees`: by `HeldIsBuilt` what a reader took is a catalog that
validation passed, and in such a one the locale that decides a title is one of the locales
the document is negotiated among (`EntryAgreesWithView`). That an entry is the one of a
document, in whatever order documents are configured, is `IndexListsDocuments`: the n-th
entry is that of the document with n - 1 published before it, and there is one
(`EveryRankIsTaken`). `RevalidatedIndex` needs that a tag stands for one index only, under
whatever generations the tags were made (`TagIsInjective`); what a reader holds is then
the index whose tag it sends (`TagInv`). Fields are compared from the front: two sequences
agree (`Agree`) if they do not differ before one of them ends. The fields of two different
entries do not agree (`EntryFieldsDiffer`): a mark tells an absent text from a present one,
and the number of locales says where they end. What consent writes has no mark: it is told
apart because no requirement is written `-`. So no entry is written as the beginning
of another, and where two flattened indexes are equal, the first entries at which they differ
would begin at the same place and agree (`FlattenedApart`, by a least counterexample). The
library flattens by a recursive function, whose equation comes from its finite approximations
(`FlattenedByRows`).

**Routes and layer.** `ServiceTypeCorrect` and `StoredRecordsAreQuoted`: a record is stored
long after the catalog it was verified against may be gone, so `ServiceInv` follows it back:
whatever was served was built (`ServedWereBuilt`), the draft of a request quotes a catalog
that was served (`DraftsAreQuoted`), and so does the log. `OwedNeverPasses` and
`SettledNeverBlocked` cannot be read off one state, since a decision is made of three reads,
so `DecisionInv` says what the observer's record implies at every step of a request that
awaits its decision (`AwaitsWell`): what was owed all along is insisted on by the catalog of
now, was overdue when the store answered, and has no acceptance among the records it read;
what was settled all along has one. `LatestIsEnough`: where a
document's records are dated each after the one before, the last by append, which `latest`
gives, is the one `evaluate` picks, so both slices have the same word on every document.
The hypothesis is the property's: of a withdrawal and an acceptance of one instant, or of two
requests whose appends overtake each other, the two pick different ones.

`ServiceImplementsStore`, `Spec => ImplementsStore`: the log is the only state of the
reference store, so its answers are operators of the log and the contract's state is a
function of it. An append under a place no record has adds its record to the history
(`HistoryGrows`) and takes the place of the document's last (`LatestGrows`) because it is
the greatest place; `DraftsAreQuoted` says that it is a record at all. Every other step but an erasure leaves the
log alone, and with it whatever is scanned off it.

**Registration.** `RegistersAllOrNothing` and `RegistrationSettles`: the result of a call is right
only for what the loop built before, so `RegistrationInv` says of a call under way that it has
one record for each acceptance it has passed, made of the catalog it took for it. For the
second, whatever the catalog taken last requires has an acceptance in the list, whose record
satisfies the policy it was verified against; so unless that policy was replaced
meanwhile, the document's only record settles it.

**Evaluation.** The fold of `evaluate` keeps the greatest record of an order (`Yields`: by the
key of time, kind, version and digest, and among equals by place). `SomeoneDecides`
shows, by a least counterexample on the length, that the greatest exists in a slice of any length,
so `DecidingRecord` characterises the fold without recursion, and the theorems follow
from the order alone: `EvaluationIsAsStated`, `OrderIsIgnored` (a verdict depends on the set of
records, `SameRecordsSameVerdict`, and a permutation keeps the set), `LateRecordsAreHarmless`
and `TimeNeverLifts`. Ties that agree in all that is compared may differ in locale, which is the
finding `evaluation_tie`: the verdict does not look at it.

**Exempt routes.** `ExemptRoutes` and `MandatoryRoutes`: a set of exemptions compares token by
token up to a slash (`Reaches`), while its documentation speaks of segments below a prefix. A
text is split at its `Edges`, before it, at each slash and behind it, which `Ranks` lists in
order. Of a text that another begins with, up to a slash, this list is the beginning of the
other's list (`SplitBegins`, by `AscendingBegins`); and where the segments of one are the first
segments of the other, the edges agree one after another, since the segments are as long
(`SplitAgrees`). A covered path has no dot segments and neither has a path without dots, so
what it names is what is written (`ResolvedAsWritten`: the recursive function of RFC 3986 adds
each segment). `IsKept` says that the set is what the host wrote without slashes at
the end, each of it usable.

**Link targets.** `SafeLinks`: the code cuts what browsers ignore out of a reference and looks
for a prefix in what is left (`Cleaned`, whose tokens `Ascending` lists by place); a browser
reads token by token. The reading is followed from place to place (`ReadAt`), where what has
been read is the cleaned reference up to a rank; so the reading ends where the first of the
tokens that can end a scheme stands in the cleaned one (`HeadEnds`), and the scheme is what
stands before it. An allowed prefix holds no such token before its colon (`PrefixBegins`).

**Entity tags.** `RevalidationLists`: the code jumps from one tag to the next, the grammar reads
every token. The loop is a recursive function whose equation is `LoopEnds`. Behind any element
of a list stand only spaces and commas, or its next tag, at the quotes where the code looks for
it (`NextOfAList`); hence from the last element to the first, what the loop answers is whether
one of the tags still to come is the one asked about (`ListsName`). Of any other header,
the match that is found last is the tag itself (`MatchesAreSpelt`).

**Sentences.** `SentenceSlots`: each round of `split_template` is a step of a recursive function,
whose equation is `RoundsEnd`. From the last round to the first, the places where the
segments of the rest end (`Ends`) grow, say what each segment was made of, and there is a slot
for each placeholder that is still to come (`SplitIsRight`). From the first segment to the
last, what is written of them is the template up to such a place (`WritingIsTemplate`), so
each slot stands where its placeholder does. A slug in braces holds one placeholder, the whole
text (`SlugsFit`).

**Negotiation.** `HostedIsServed` and `RequestDecides`: `lookup` is the longest prefix that is
hosted, then the first of its language in the order of texts, and both are hosted
(`HitsAreHosted`, `FirstIsFirst`). `TranslationsAreConservative` goes through each source
(`LookupIsConservative`, `HeaderIsConservative`): a set with one more tag has the old first or
the new tag. `PreferenceDecides` needs what parsing yields for a header of any length: the
usable ranges by falling weight and, among equals, by place (`ParsedInOrder`, by the ranks of
`EveryRankIsTaken`), and that a header cut at the byte bound is read as its longest
prefix that fits (`ReadIsPrefix`). The places where ranges end are a recursive function,
whose equation is established by its finite approximations (`EndOfRecursion`); that a
weight is at most 1 and that its digits are its value are `WeightIsNumber` and
`WeightIsValue`.

**The caches.** `RevalidatedIsCurrent` and `RecordedWasShown`: what a cache holds may be
older than the catalog, so `CacheInv` does not say that it is current; it says that a view and the
tag stored with it belong together (`TagFits`), wherever they are: in the cache, in a
request's condition, in an answer on its way. Two views of one slug with one tag have one text
(`SameTagSameText`). That an acceptance is recorded only of what was shown is then what
`verify_acceptance` compares. `RetiredIsGone` and `OwnLanguage`: `SharedInv` dates
everything. Whatever is stored, on its way or given out answers the question it is stored
under for some catalog served no longer ago than its age (`ServedWithin`), and `recent`
remembers that catalog for as long (`RecentIsServed`). A `304` may pick an entry another
reader's request stored; `KeyedAnswers` shows that an entry with the same key answers both.

**The client.** `OlderAnswersGo`: `Follows`, that what a resource asks for, is about to take over
or holds belongs to the question of now, unless it is marked to be fetched again.
`QuietListIsTrue`: an answer may be older than the records as long as an acceptance has been
recorded and its task has not asked for the status again, or the server changed meanwhile;
`GateInv` says that at every other time each answer, on its way or shown, says what the
server would say now. `LinksLead`: an index and a page are compared by their catalogs' number,
so `HistoryInv` states that there is a list of all catalogs that were served, by number,
and that every answer was made from its place in it.

### What stays with TLC

- Liveness: `EventuallySettled` and `EventuallyNothingListed`, which rest on fairness.
- `MarkdownTree`, whose operators are RECURSIVE.
- The four runs that end in a counterexample.

## Not modelled

- Data the properties do not distinguish: display order, digests as strings,
  dates as calendars (an instant is a day), heading levels and the numbers of lists (one
  kind each), classes, the window title, the words of problem documents, serialisation.
  In the modules before `Indexes` a heading stands for titles and the updated line.
- The limits on the length of a text and of a title, except as one value each that is
  too large or refused; warnings; rules written by a host; the configured default locale
  outside `Negotiation`.
- What is not in the repository: the Markdown parser, the Dioxus runtime and routers enter as
  the code uses them. A user's session ends with a reload; requests that a
  page left behind are taken not to arrive, except those whose answer is lost.
- The host: authentication, its own store, what it does with a refused registration. The
  conformance suite for stores (`legal/testing.rs`) is a list of single calls: it has no
  state of its own, and what it asks of a store is what `Consent` models of the reference one.
- The wrappers of `dioxus/shared.rs` and `traits.rs`, which call what is modelled; the fuzz
  oracles, which generate input for it.

Of a text that is no list of entity tags the documentation says that it "matches nothing"
(`legal/etag.rs` 45-46). The scan returns at the tag itself and looks at nothing behind it,
nor does it ask for commas, so the tag with something after it matches. `ListsNameTheirTags`
therefore says of such a text only that it spells the tag out. No run is spent on this: the
client that sent the tag gets the `304` it would have got for the tag alone.

An autolink in the text of a link, `[a <https://x.y> b](/z)`, is an anchor in an anchor once the
parser reports it so: `close` nests what it is given. HTML has no such thing, and a browser that
parses the page as the server sent it ends the outer anchor at the inner one. `RenderedAsHtml`
says that this is the only way to nest anchors and that the inner one holds nothing but
text. Nothing in the repository speaks of it, and whether the parser does report it
cannot be told from the repository, so no run is spent on it either.

## Plan

What is left: the tree of `MarkdownTree` as a set of nodes with parents instead of nested
sequences, which could be proved about.
