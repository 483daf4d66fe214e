# postbaby: specifications

TLA+ models of [postbaby](../src/README.md), a sticky-note page that works
without a server and can synchronise with a small Go backend. The modules model
the parts of the program where several actors, failures or a long sequence of
calls decide what happens: the page's local store, the backend's document table,
the mutation receipts and their replay, the HTTP handlers in front of them, the
paid accounts of the cloud deployment, and in the page the import of graphs, the
switch of languages, the service worker and the build that stamps it. TLC checks
the modules on small instances; TLAPS proves the main safety properties for every
value of the constants. `PROJECT.json` is the index: components, runs, mutants,
the source lines of every definition, findings, hazards and theorems.

Paths below are relative to the repository; `store.go` is
`postbaby-backend/internal/store/store.go`, `api.go` is
`postbaby-backend/internal/httpapi/api.go`, and other Go files are named below
`postbaby-backend/internal/`.

## 1. The system

| component | state it keeps | operations | talks to |
| --- | --- | --- | --- |
| Browser storage (`js/storage-adapter.js`, `js/indexeddb-storage.js`) | a cache of the managed keys, write generations, a flush timer and promise; on disk an IndexedDB snapshot and meta record, localStorage and its emergency marker | bootstrap, getItem, setItem, removeItem, clear, flushPendingWrites | IndexedDB (asynchronous, may reject), localStorage, `js/script.js` |
| Document store (`store.go`) | `documents`: one row per owner and app, with a version | GetDocument, GetDocumentMeta, PutDocument | SQLite, one connection per process |
| Replay store (`store.go`) | `sync_mutation_receipts`, `..._dry_run_observations`, `..._applications` | accept receipts, dry run, record an observation, compare preconditions, evaluate recovery, apply, compact, diagnose | the document row |
| Sync API (`api.go`) | nothing between requests | GET and PUT `/api/document`, `/api/document/meta`, POST `/api/sync/mutations`, GET `/api/sync/delta` | store, auth, entitlements |
| Replay administration CLI (`cmd/postbaby-sync-replay-admin`) | nothing | dry-run, observe, preflight, apply, compact, diagnose | the same database file from a second process |
| Users and sessions (`store/identity.go`, `auth/`) | `users`, `sessions` | setup, sign-up, login, authenticate, clean up expired sign-ups | SQLite, cookies |
| Billing and entitlements (`billing/`, `store/billing.go`, `store/entitlement.go`) | customers, subscriptions, entitlements | checkout, portal, webhooks | the payment provider |
| Web server (`server/`) | nothing | pages, forms, runtime configuration | everything above |
| Service worker (`sw.js`) | one cache per revision | install, activate, fetch | the page, the server |
| Graph editor (`js/graph-creation.js`, `js/mermaid-adapter.js`, `js/*-geometry.js`, ...) | tabs and items in memory | Mermaid import, graph creation, layout, drawing, dialogs | browser storage |
| Localisation (`js/i18n.js`) | the active locale, catalogues and their requests; the chosen locale in localStorage | choose, load a catalogue, translate the page | the server |
| Build (`scripts/build-public-js.mjs`) | the published files and the revision in them | build, check, candidate | the maintainer's checkout |
| Frontend application (`js/script.js`) | -- | generated and obfuscated; its source is not in the repository | browser storage, Sync API |

### What is hard

* **Several writers of one row.** Clients PUT the document with an optimistic
  version while the operator's CLI, another process, replays mutations onto it.
* **Reads that are not a transaction.** Recording an observation is three
  statements, a delta is two, a PUT without a version looks first and writes
  later. Anything may commit in between.
* **Deferred work on remembered facts.** An apply relies on a version, a hash
  and a receipt summary recorded earlier; compaction deletes rows such facts
  refer to; times are stored in whole seconds and read before the write lock is
  waited for.
* **Two stores in the browser.** IndexedDB is asynchronous, can reject any
  request and needs two transactions for one flush; localStorage keeps an old
  backup, or the newest data, and only a marker tells which. The page may be
  closed between any two steps.
* **Lost responses and repeated requests**, for PUT, mutations and apply.
* **Provider events** delivered twice, late and out of order to a webhook whose
  statements are separate transactions, while a clean-up deletes expired sign-ups
  statement by statement. Ids of deleted users are never issued again
  (AUTOINCREMENT), but sessions and events still carry them.
* **Overlapping language switches**, whose catalogues arrive, or fail, in any
  order, some of them fetched for nobody in particular.
* **Two revisions of the site at once**: pages of the old one, a worker of the
  new one, and a worker whose cache writes outlive the answer they belong to.
* **Builds that die.** Four files carry one revision and are written one after
  the other, over files a merge may have left in conflict; an interrupted write
  leaves a file empty or torn.
* **Graphs from outside**: cycles, repeated and contradictory definitions, sizes
  and positions at the limits, accepted as a whole or not at all.

### What makes each component correct

* *Document store*: a version names one body for ever; a conditional PUT replaces
  exactly the document its client had.
* *Replay store*: receipts are replayed at most once; an apply consumes exactly
  what its observation saw; rows never lose what they refer to; an acknowledged
  mutation is neither rewritten nor dropped early; compaction does not spoil an
  apply that was prepared. In one sentence, as `MutationLog`: one replay of
  everything acknowledged, onto a document that only moves forward.
* *Sync API*: "up to date" is true; a delta hides no replayed mutation; handlers
  use the store only in ways the store is proved safe under.
* *Browser storage*: a reload brings back recent values; a page with nothing left
  to flush comes back as it is; every write reaches a disk unless the page goes.
* *Accounts and billing*: only active accounts are entitled; an active account is
  never deleted; billing rows are about the person who pays; however the events
  arrive, a payment activates its account, which is entitled in the end unless a
  clean-up held it when the payment came (section 6).
* *Graph import*: an import is whole or nothing, edges lead to later layers,
  cycles come last, no two items overlap, what is created survives the next
  reload unchanged, and the reader keeps the first label and reports the others.
* *Localisation*: what is shown, declared and stored is one language; the last
  undisturbed choice wins; no switch waits for ever.
* *Service worker*: under the `?v=` of its revision a page gets nothing older than
  itself, and under any other address nothing older than the worker that answers;
  a worker that took over has a complete cache; caches of other revisions stay
  gone.
* *Build*: a build that succeeds leaves one current revision, and a whole script
  and worker; the check accepts exactly consistent checkouts, and none whose last
  write was cut short; nothing with conflict markers is written out.

## 2. Modules

| module | models | extends |
| --- | --- | --- |
| `DocumentStore` | the `documents` row: PutDocument and its conflict | -- |
| `ReplayStore` | the three replay tables, each transaction of `store.go` as an operator | `DocumentStore` |
| `ReplaySystem` | server and CLI as concurrent callers; the three statements of `observe` | `ReplayStore` |
| `MutationLog` | what the store promises, without its tables: abstract | -- |
| `SyncApi` | the document and delta handlers, statement by statement, for followed clients | `ReplaySystem` |
| `ReplayOperations` | the eleven operations and their policies, as operators on tabs | -- |
| `ReplayTabs` | the lenient and the authoritative replay of one sequence of receipts | `ReplayOperations` |
| `BrowserStorage` | the page's store over IndexedDB and localStorage | -- |
| `ItemShapes` | shapes, sizes and their limits (`js/shape-geometry.js`) | -- |
| `GraphLayout` | layers for the nodes of a graph, one iteration of the loop at a time | -- |
| `GraphCreation` | validation, placement and creation of a graph | `GraphLayout`, `ItemShapes` |
| `MermaidImport` | the Mermaid reader, line by line, in front of it | `GraphCreation` |
| `LocaleSwitch` | catalogues and overlapping language switches (`js/i18n.js`) | -- |
| `AssetCache` | the service worker's caches (`sw.js`) | -- |
| `PublicBuild` | the build, its check and candidate modes (`scripts/build-public-js.mjs`) | -- |
| `Accounts` | sign-ups, checkout, webhooks and clean-up, statement by statement | -- |
| `OneNodeReplay` | `ReplayOperations` on snapshots with at most one node: data for TLC | `ReplayStore` |
| `MCReplaySystem`, `MCSyncApi`, `MCReplayTabs`, `MCBrowserStorage`, `MCMermaidImport`, `MCLocaleSwitch`, `MCPublicBuild`, `MCAccounts` | values of the constants for TLC | the module they instantiate |
| `SyncApiProofs`, `ReplayTabsProofs`, `BrowserStorageProofs`, `MermaidImportProofs`, `LocaleSwitchProofs`, `AssetCacheProofs`, `PublicBuildProofs`, `AccountsProofs` | proofs about the module they are named after and those it extends | that module |

Operators called "Broken variant" are plausible bugs of the definition that
follows them. They occur in no specification; `PROJECT.json` says which property
fails when the definition is replaced by one of them.

### Documents and replay

`doc` is the row or `NoDocument`. `Accepts` is the version check of PutDocument
(a row accepts its own version, and *no* version, since then the UPDATE has no
`AND version = ?`), `Written` the row it leaves.

`receipts` maps a mutation id to its payload and `accepted_at`. Lists of receipts
are never stored: `Precedes` is the ORDER BY of `store.go:1881`, and `Position`,
`FirstReceipt`, `LastReceipt` and `Summary` are what the code derives from the
ordered list. `observations` and `applications` are the rows of those tables;
ids of observations come from AUTOINCREMENT and are never reused.
`CompareStatus`, `RecoveryStatus` and `ApplyStatus` follow the classification of
an apply request branch by branch, with `obs, d, r, a` for the observation and
the rows read inside the transaction. `Apply` is the run that commits; each other
outcome, every error and every crash before COMMIT leaves the tables alone and is
the stutter of `[Next]_vars`. `Compact(fraction)` deletes in one transaction;
`fraction` is whether the clock is inside a second, because the cutoff keeps the
fraction that stored times have lost.

To this part, what replaying does to tabs is data: `DryRun` and `Authoritative`
are constants. `ReplayAssumption` is all that is asked of them: they return
snapshots, and a replay that does not abort decides every receipt. For TLC,
`OneNodeReplay` computes them with `ReplayOperations`. A SHA-256 of a body is the
body. `Decodable` and `DuplicateIds` are the bodies the decoder accepts and the
ones `blocked_snapshot` refuses.

In `ReplaySystem`, `observers[p]` is one run of the `observe` command: it has
read the document, then the receipts, then inserts. The HTTP server's PUT and
POST of mutations are single transactions with any arguments; applies and
compactions run at any time. `Stamps` lets a receipt appear with a time up to
`WriteDelay` seconds old: `accepted_at` is taken before the INSERT waits for the
lock (busy_timeout is five seconds).

`MutationLog` says the same without tables, clock and operators: a document that
only moves forward, mutations that keep the payload they were acknowledged with,
and one replay of everything acknowledged. The refinement maps the version and
body of `doc`, the payloads of `receipts`, and the keys of `applications`
(`ImplementsMutationLog`); recording observations and the clock are stutters, and
compaction may only forget.

### Single operations

`ReplayOperations` has both halves of every operation: `replayX` is the set of
its possible results, empty when the code returns false, and `xPolicy` the list
of its objections in the order the code looks at them. A set is needed because
`UpdateNode` ranges over a Go map: when one receipt changes both `name` and
`text`, either is the last. `ReplayTabs` replays one sequence of receipts twice,
as `buildSyncMutationDryRunResult` does for an observation and as
`buildSyncMutationReplayAuthoritativeProgressivePreview` does for an apply, and
compares. The functions are pure, so nothing interleaves; what is hard is the
length of the sequence and that the policy and the operation are separate code.
`PolicyBlindSpot` lists where they disagree: an update of a node with no changes
is allowed and then not performed, although the same update of a tab is skipped;
and a policy does not decode a node's color, an edge's kind or a new tab's index,
so a receipt with a wrong type there is allowed and then not performed. Either
one stops the whole batch as `apply_after_allowed_failed`, as it would on every
retry. A stopped batch writes nothing; no document or test says which receipts
may stop one, so this is a hazard and not a finding.

### Sync API

`SyncApi` adds clients whose requests are followed one statement at a time.
`request[c].pc` is where the handler stands: before GetDocumentMeta ("check"),
before PutDocument ("save"), between the two reads of GetSyncDeltaMetadata
("delta"). `base[c]` is the document the client last loaded or saved; a response
may be lost, and then `base` stays as it was although the save committed.
The frontend's client code is obfuscated, so what a client sends is taken from
the API: no version, or the version it knows. All other traffic is the `Next` of
`ReplaySystem`, with arbitrary arguments. `RowId` (the AUTOINCREMENT id of an
application row) counts rows in receipt order, which is right because one
transaction wrote them all: `OneApply`, proved below.

### Browser storage

`snapshot`, `marker`, `local` and `dirty` are the disk: the IndexedDB record, a
meta record with a `migrationState`, the managed keys of localStorage and the
emergency marker. `cache`, `pending`, `flushed`, `timer`, `requested` are the
fields of `state`; `job` is the flush or repair in flight and stands at one of
its awaits: snapshot transaction, meta transaction, reading back. Each request
may reject at each step (`FlushFails`, `RepairFails`, `BootOpenFails`,
`BootReadFails`), and `Close` ends the page anywhere. `Recovered` is what a
bootstrap without errors would load from the present disk; the safety properties
are about it, so they hold for a page closed at any moment.

`since[k]` is a history variable: the values key `k` has had since the last
moment the whole cache reached a disk, plus those a bootstrap has shown since
then. The second part is deliberate: when IndexedDB cannot be read the page
starts from the localStorage backup, however old, and what the user then sees
and edits counts. That a transient failure makes an old backup current is a
limitation of the design, listed among the hazards.

### Graph import

`MermaidImport` reads one line per step (`ReadLine` and the end of the source),
merging what each line says of a node into `found`: the first label stays, the
shape with the highest score wins, and what is dropped is a warning. A source
with errors fails; another becomes the `request` of `GraphCreation`, which
callers may also be given directly. Creation checks everything first, then
`GraphLayout` takes one ready node per step, as the `while` loop does, and gives
the rest layers behind the others; then come positions, their check against the
canvas, and the items. All of this runs in one call of the program, so its steps
do not interleave with anything; they are steps because the loop's end and its
order are what can go wrong. A line is a record of what it matches, since the
order in which patterns are tried is part of its form; sizes and coordinates are
integers, as every path that stores one rounds it.

### Localisation

The state is that of the module closure in `i18n.js`: `activeLocale`,
`catalogs`, the promises (`inFlight`) with their requests, the switches that
`waiting` for one, what the page `shown` and declares (`lang`), and the code in
localStorage, which may throw. A fetch that settles resumes all switches waiting
for it in the same step, because promise callbacks run before the next event.
`ReloadPage` starts again with the stored code; the page as served is English.

### Service worker

Each revision has a worker and a cache. A worker installs (`cache.addAll`, one
answer at a time, all or nothing), activates when the events of the active one
are finished, deletes other caches one by one and claims the pages. `Fetch`
answers a page from the network and leaves a put for later. The browser's life
cycle of workers, the pages, the network and the deployments are the
surroundings. Content is named by the revision it was deployed with. Pages ask
for their scripts and styles under the `?v=` of their revision (`Versioned`), but
for the manifest, the icon, the fonts and the locale catalogues without one
(`Plain`: `index.html:5` and `:10`, `style.css:3-13`, `i18n.js:7-23`), and the
worker caches both kinds. That makes two promises (`NothingStaleServed`): a
`?v=` address never yields content older than the page, because what the server
answers is never older than the address; any other address never yields content
older than the active worker, because the caches of older workers are gone by
then. The second is the weaker one: a page that was opened after a deployment,
while the worker is still the old one, may get the old manifest, font or
catalogue when it loses the network. "Nothing older than the page" is false of
such addresses, and TLC shows it when it is asked.

### Build

A run of the tool reads the files, derives script, worker and revision, and then
writes up to four files one after the other, or only compares, or writes the
candidate. `EditFile` lets the maintainer change a file at any moment. A text is
what the checks can tell apart: body, stamp, number of places for a revision,
conflict markers, line ends.

`fs.writeFile` empties a file and then fills it, so a write that fails or is
killed leaves the file as it was, or empty, or the beginning of the text with or
without the place for the revision (`CutShort`; used by `WriteFile` and by
`Killed`). What the next build makes of that depends on the file. Script and
worker are generated anew. A torn `js/version.js` without its definition is
refused, but an empty one, and an empty or torn `index.html`, are taken as they
are: the code treats an empty text like a file that does not exist (`:439-440`),
and `stampIndexHtml` (`:97-103`) changes nothing when no address matches. That
build succeeds. So `BuiltIsCurrent` says what a successful build does guarantee:
one revision wherever there is a place for it (`Consistent`), and no published
file cut short that was not cut short when it was read, the script and the worker
never. The next *check* does notice, since the revision in the other files is the
hash of the page that was meant: `CheckIsExact` says that no check succeeds while
the last write was cut short and nothing was edited or built since (`cut`).

### Accounts

`requests[r].at` is the next statement of a request: sign-up and checkout
(find the customer, create it at the provider, open the session), a webhook
(resolve the user by id, customer or subscription; store the customer; activate;
store the subscription; store the entitlement; answer), or the clean-up with the
`ids` it selected. Every statement is its own transaction. `Fail` is the error of
any statement or of the provider: the request answers with an error, and what it
has written stays. The provider keeps an event until it is acknowledged, may
deliver it again, in any order, and sends later notices with or without the user
id. `person` remembers who signed up under an id, `overtaken` the accounts that
were activated while a clean-up held their id.

## 3. Runs

| run | constants that matter | shows |
| --- | --- | --- |
| `replay_compaction` (265,000 states) | 2 mutations, late time stamps, clock 0..2, versions to 3, 2 observation ids, retentions of 1 second and 1 row, 1 replayable and 1 undecodable body | compaction against rows, observations and unacknowledged work; receipts are replayed at most once |
| `sync_api` (787,000) | 1 followed client among arbitrary writers, 2 mutations that create or move the one node, 3 bodies, versions to 3, 1 observer | saves and deltas are right at every interleaving of their statements, a version names one body, and all of it implements `MutationLog` |
| `replay_tabs` (147,000) | all 11 operations, about 60 receipts in sequences of 4, 8 snapshots, 2 items and 1 edge per tab | when a batch stops, which edges lose their items, when the dry run is what an apply does |
| `browser_storage` (98,000) | 2 keys (tabs and the mirrored theme), 2 values, 3 writes per page, 4 initial disks | what a reload brings back; every write becomes durable unless the page goes |
| `graph_import` (255,000) | sources of 4 lines, all 729 graphs of 4 nodes and some 4,700 other requests, 4 nodes and 6 edges at most | the reader, the layout and the creation of graphs |
| `locale_switch` (3,000) | 3 languages, catalogues with and without a key, requests that fail | what is shown, declared and stored |
| `asset_cache` (441,000) | 2 revisions, 2 assets, one path that pages ask for with `?v=` and is no asset, one they ask for without, 2 late puts | what pages get, and which caches stay |
| `public_build` (6,126,000, two minutes) | checkouts with up to 2 files that are not current, empty and torn ones among them, 1 edit, kills and failing writes | what a successful build or check means |
| `accounts` (592,000) | 2 requests at once, 2 sign-ups, 2 customers, 1 subscription, 2 later notices, 1 failure | who is active, entitled and kept |
| `sync_api_create` | as `sync_api` | finding 1 |
| `browser_storage_clear` | fresh disk, 2 writes | finding 2 |
| `browser_storage_backup` | fresh disk, 2 writes | finding 3 |

*Bounds.* `MaxVersion`, `MaxTime`, `MaxObservations`, `NumMutations`,
`MaxReceipts`, `MaxWrites`, `MaxLines`, `MaxRevision`, `MaxPuts`, `MaxEdits` and
the bounds of `Accounts` stop what the program lets grow; a guard ends the
action there. They are large enough for the interesting cases: three versions
allow a PUT, an apply and another write in any order; two mutations order both
ways and leave one for a second batch, and a second apply has the version it
would write to; a clock to two lets compaction run between any two steps, delete
the older row or none, and meet rows exactly as old as their retention; a
receipt with a late time stamp can slip under an observation's watermark; four
receipts create an item, an edge to it, clear or delete, and meet what is left;
three writes of a page put one before, one during and one after a flush; four
lines define a node, define it again, use it and contradict it; four nodes form
every cycle with something before and behind it; two sign-ups with one account
at a time let the events of a deleted account meet its successor. That these
cases do occur is what the mutants show. `accounts` bounds accounts at the same
time to one: statements of different accounts touch different rows, and what can
be confused is an id.

*Deadlock* checking stays on except where the program's work ends: `graph_import`
and `replay_tabs` follow one call to its result.

*Fairness.* In `browser_storage`: the browser runs a due timer, runs the code
after a settled promise, and settles each IndexedDB request in success or
failure (`WF` on `TimerFires`, `Boot`, `Request`). Nothing forces a page to
open, to write, to flush early or to close. In `graph_import`: a loop that runs
goes on (`WF` on the layout's steps), for `LayoutEnds`. In `locale_switch`: a
request is answered or fails. In `accounts`: a request goes on to its next
statement or fails (`WF`), and the provider delivers an event again until it is
acknowledged (`SF`, since deliveries wait for a free request; only for the event
that reports a payment), which is what a webhook's error answer relies on. The
other properties are safety only.

*Refinement.* `ImplementsMutationLog` is checked under `sync_api` and proved for
`ReplaySystem`. The clock of that run stands still, so a compaction changes
nothing there; that compaction may only forget is part of the proof
(`StoreImplementsLog`). That the handlers implement `ReplaySystem` is proved
(`ApiImplements`), so the store's theorems hold under them.

## 4. Findings

1. **PUT without a version can replace a document** (`sync_api_create`).
   `api.go:349` answers "version is required when replacing an existing
   document", and `api_test.go` tests it, but the check is a read before the
   transaction, and PutDocument's UPDATE without a version is unconditional. A
   document created in between is replaced.
2. **Fallback deletions may be undone** (`browser_storage_clear`).
   `storage-adapter.js:644` calls a fallback-mode clear a change of the emergency
   current snapshot, and `:360-361` say that the marker means localStorage may be
   newer. Bootstrap takes the emergency copy only if it holds data
   (`localSnapshot.hasData`), so after clearing everything in fallback mode the
   old IndexedDB snapshot comes back.
3. **The mirrored theme may replace an unmarked snapshot**
   (`browser_storage_backup`). `storage-adapter.js:360` says preserved legacy
   localStorage is only a backup until fallback writes occur. A page closed
   between the snapshot and the meta transaction leaves a snapshot without a
   migration marker; the next bootstrap imports what localStorage holds over it,
   although nothing was written in fallback mode. In the trace that is no legacy
   backup but the theme, which is mirrored to localStorage at once and which the
   bootstrap does not tell from one.

## 5. Proofs

Every proof module proves about the module it is named after and the modules that
one extends. `SyncApiProofs` begins with `ReplaySystem`, and that with the lemmas
about the order of receipts: first, last and position exist for every finite set
of receipts, and the last one's position is their number. `MermaidImportProofs` proves first about `LayoutSpec`,
then about the creation of items, then about the reader.

| theorem | argument |
| --- | --- |
| `TypeCorrect` | inductive by itself, one lemma per caller |
| `ReferencesKept` | `References` adds that observation ids above the last issued one are unused; without it an insert could overwrite the row an application refers to |
| `AppliedOnce` | an apply commits only when no receipt has a row, and by `References` no row has lost its receipt, so there is no row at all |
| `NoSecondBatch` | a state property that follows from the invariants above |
| `VersionsNameBodies` | inductive with `TypeOK` and `References`: every write moves to the next version |
| `RowsMatchObservation` | the receipts and the observation of a row are final (`AppliedRowsAreFinal`) |
| `AcknowledgementHolds` | an action property from the type invariant |
| `CompactionIsHarmless` | an observation that can be applied counts all receipts, so `ProtectedBy` covers all of them and nothing is deleted |
| `StoreImplementsLog` | every transaction maps to a step of `MutationLog` or to a stutter; that an apply replays everything acknowledged needs `AppliedOnce`'s invariant, that compaction forgets nothing that was replayed needs `References` |
| `ApiTypeCorrect` | inductive with the type invariant of the store |
| `ApiImplements` | every handler step is a PUT, another transaction of the store, or a stutter of `ReplaySystem` |
| `SavesAreExact` | inductive invariant `ClientsKnow`: the version of a client's base names the base's body for ever (`Names`, from the proof of `VersionsNameBodies`), and a save carries that version |
| `UpToDateHolds` | by `ClientsKnow` the document a delta has read is no older than the base, and has its body if the versions agree; what commits before the second read does not enter that comparison |
| `DeltaIsComplete` | one transaction writes the rows and the version they belong to, so a delta that read the version sees its rows, and rows written after the answer belong to later versions; row ids never change |
| `StopsExplained`, `DryRunPredicts` | operation by operation: what the policy allows the operation performs, what it skips the operation returns false for, with the named exceptions |
| `EdgesKeepTheirItems`, `TabsStaySound` | operation by operation: entries of the new lists come, each at most once, from entries with the same id, and one entry at most is new with an id that was free |
| `StorageTypeCorrect`, `FallbackComplete` | part of the inductive invariant below |
| `RecoveryIsRecent`, `SavedPagesReload` | consequences of the inductive invariant below |
| `EdgesLeadOnward`, `CyclesAreLast` | the layout's invariant: `indegree` counts the unprocessed sources of a node, a processed node's targets lie below it; a set of nodes each fed from within the set is never processed |
| `CreationInvariant`, `ImportedEdgesLeadOnward`, `ImportedCyclesAreLast` | the invariant below; the layout of an import is `LayoutSpec` from the graph that was accepted |
| `ItemsAreSound`, `AcceptedIsWhole` | the items are, one by one, what the accepted nodes and edges say, and those are the request's, none missing and none changed |
| `LayoutLeavesGaps` | the layer and the place in it are multiplied by a spacing larger than every item's size plus the gap; nodes of one layer have different places because a place is the number of earlier ones |
| `MergeInvariant`, `MergesKeepTheFirst`, `NoLabelDroppedSilently` | the invariant below |
| `ActiveLocaleAlwaysSurvives`, `OneRequestAlways`, `ShownInActiveLocaleAlways`, `UndisturbedChoiceAlwaysWins` | inductive together with the types: a switch waits only for a catalogue with an open request, and nothing is shown that was not applied with the catalogues there were |
| `CacheInvariant`, `NeverStale`, `ShellIsComplete`, `OldCachesAreGone` | the inductive invariant below |
| `BuildInvariant`, `OneBuildIsEnough`, `CheckDecides` | the inductive invariant below |
| `SuccessMeansNoConflict` | an action property: only the two steps that read the published files once more end with success, and `BuildInv` rules out that the flags say otherwise |
| `GrantedAreActiveHolds`, `ActiveAccountsAlwaysStay`, `RowsBelongHolds`, `GrantedOrRetriedHolds`, `TypeHolds` | the inductive invariant below |

The assumptions are the named ones of the modules: bounds are naturals,
retentions are positive (the code replaces other values by defaults), sentinels
differ from rows, and `ReplayAssumption`. `GraphCreationAssumption` and
`RequestsAreRaw` say that a graph that is handed over is some list of anything,
with numbers, nothing or junk for a size; `ReplayTabsAssumption`, that snapshots
are lists of tabs with lists of items and edges, ids in any number, and that
receipts have an operation the API accepts, an integer for an index and a list for
an order wherever the payload decodes; `PublicBuildAssumption`, that a checkout
consists of texts or missing files, has its published script and whole private
sources.

*Single operations.* `DryRunPredictsApply` is inductive as soon as policy and
operation agree. `VerdictsAgree` says when they do, for each of the eleven
operations and any tabs: `Agrees` relates a verdict to the results of the
operation. `EdgesDangleOnlyAfterClear` and `StopsAreExplained` need the history of
the tabs: `Lineage` says that duplicate ids and edges without items were in the
stored document already. A step keeps it because of `Follows`, which holds of each
operation's result: a list that changes is `Thinned` (by an index map without
repetition) or gets one entry with a free id (`AddsNoId`), a tab that moves is the
same tab, and `DeleteNode` removes exactly the edges that would dangle. That the
entries kept by a filter are numbered without a gap (`Places`) is a matter of
counting them.

*Browser storage.* What a reload brings back is not inductive: it says nothing of
a flush whose snapshot is written and whose meta record is not. The invariant of
`BrowserStorageProofs` adds `JobOK` (a write in flight carries recent values, and
from the second transaction on the snapshot is what it wrote), `ReadyOK` (a page
in IndexedDB mode has a valid snapshot, no emergency marker, and its cache equals
the snapshot when nothing is pending) and, for each disk, that the copy the next
bootstrap would take is recent (`LocalIsRecent`, `SnapshotIsRecent`). A page in
IndexedDB mode needs its own case there: its first flush may have written a
snapshot without a meta record while an old backup is still in localStorage. The
theorems assume `DisksAreSound`: localStorage has readable tabs, no emergency
marker is set, and a snapshot has its meta record. `MCBrowserStorage` checks that
the disks of the runs satisfy it. Disks that a page leaves behind in the middle of
its work need no place among the initial ones: behaviours reach them from these.
Malformed tabs are the subject of section 6.

*Layout.* The theorems are about `LayoutSpec`, which starts from any graph of any
size; its steps are exactly the layout steps of `MermaidImport`, and the loop's
invariant `LoopInv` is what `CreationInv` asserts of an import once its layout
has begun (`LayoutOK`).

*Creation.* That items do not overlap says nothing before there are any.
`CreationInv` says what the earlier phases leave for it: a request that has the
shape of a graph (`PhaseOK`), nodes and edges that are the request's, cleaned,
with positive sizes inside the limits (`NodesOK`), and items that are exactly
those of the nodes at positions that passed the check against the canvas
(`ItemsOK`). What is left is about numbers: the spacing has room for the largest
item, and layer and place of two nodes differ in one of the two.

*Reader.* `MergeInv` relates `found` and `warnings` to all lines read so far.
`AllMentions` are the places in the source where a node is mentioned, `Telling`
what each says. For every node of `found`, `Told` says which of its mentions gave
the label (the first that has one) and the shape (the first of the strongest
form), and `Reported`, that the warnings about it are exactly the lines with
another label. One line mentions up to two nodes, and an edge from a node to
itself the same one twice, so the step from one line to the next is the merge of
single mentions taken twice.

*Service worker.* `NothingStaleServed` needs to know what is on its way into the
caches: everything cached, gathered by an installation or waiting to be put is no
older than its worker, and no older than the `?v=` of its address if it has one
(`CachedAreRecent`, `GatheredAreRecent`, `PutsAreRecent`). Under an address
without `?v=` that bounds an answer only by the caches there are, and here
`OldCachesGone` is needed: those of workers older than the active one do not exist
any more. An installation whose cache another worker
deleted stores into nothing (`DetachedAreRobbed`). That old caches stay gone
holds because only the active worker has answers left to store (`PutsByActive`),
one worker takes over at a time, and an activation has all older caches on its
list (`OldCachesListed`): no older worker is left that could open one again.

*Build.* A run compares and writes what it read at its start. `BuildInv` says how
far it has come: what it needs has been there (`SourcesRead`), the revision is
that of what was read (`RevisionFits`), and, unless somebody edited a file
meanwhile, the disk is what was read with the files written so far replaced
(`DiskFollows`). The last step then has the whole disk, and the rest is that
stamping a text twice changes nothing. A write that was cut short leaves a disk
that is not consistent (`CutIsInconsistent`): script and worker differ from what
is generated, and a cut page or version file changes the revision that the worker,
written before them, carries. The private files are never cut, since the tool
only reads them (`PrivateWhole`).

*Accounts.* None of the four properties is inductive: a webhook or a clean-up in
the middle of its statements carries ids that may have lost their account. The
invariant adds that ids in tables and requests have been issued
(`IdsOfAccounts`, `IdsOfPayments`), that each row, payment, session and request
is about one person (`Owns`, in `PaymentsBelong`, `RowsBelong`, `RequestsOK`),
that a webhook past its activation works for an active account or one that is
gone (`ActivatedBefore`), that what a clean-up holds was unpaid or has been
overtaken (`HeldAreUnpaid`), and that the event which grants the entitlement is
kept until it has (`EventsAreKept`).

*Proved and not run:* type correctness of the modules, `SecondBatchRefused`,
`OneRequestPerCatalog`, and that the handlers implement `ReplaySystem`. These
theorems hold for all constants, and the runs spend their time on other questions.

*Model-checked only:* liveness (`WritesBecomeDurable`, `LayoutEnds`,
`SwitchesFinish`, `PaidAccountsActivate`), which TLAPS cannot prove.

## 6. Abstractions and what is left out

*The backend*

* A transaction of SQLite is one step. Within a process there is one connection;
  between processes SQLite admits one writer. A transaction that began as a reader
  and finds the database changed fails with SQLITE_BUSY: no change, a stutter.
* One owner and one app: every statement of the modelled tables is restricted to
  them.
* `preflight`, `diagnose` and the reads of the CLI change nothing and are not
  modelled.
* `DryRun` and `Authoritative` of `ReplayStore` are functions of a body and a set
  of receipts, so receipts that change a text twice are outside it; `ReplayTabs`
  has them.
* In `ReplayOperations` an item has one text, one coordinate and one size; color,
  shape and height are changed like the ones it has, and a new tab's grid and
  color index are data. Identifiers have no blanks around them: a stored tab id
  with blanks would pass `normalizeReplayTabOrder` and then be looked up in vain
  (`store.go:3220`). Operation types outside the eleven are refused by the API.
* `Accounts` lets a pending account become overdue at any time instead of keeping
  dates. Events always carry a customer, and the provider's many statuses are
  "active" or "lapsed". Sessions and cookies, the set-up of a self-hosted server
  and its accounts, the customer portal, entitlements set by hand and their
  validity times, password hashing and signatures are left out. A clean-up that
  held an account when its payment arrived still deletes that account's rows
  (`overtaken`); nothing in the repository promises that case, which is listed
  among the hazards.

*The browser*

* localStorage accepts writes in `BrowserStorage` and one page is open. The
  program does not coordinate pages; see the hazards.
* Malformed tabs in localStorage are on no initial disk: from such a disk the
  program shows an empty page while the other keys stay on disk.
* Mermaid's regular expressions are the "form" of a reference or line.
  `unsupported_edge_syntax` (`mermaid-adapter.js:489`) is unreachable: a line with
  an arrow has been taken by an earlier branch. The pixel height of items without
  stored sizes comes from the browser's text layout and is left out.
* Switches waiting for the same catalogue are merged: they resume in one step and
  choose the same language.
* Workers: the browser's rules for them are external; activation waits for
  pending events, as the platform has it. Deployments only move forward, and the
  server answers with what is deployed: an HTTP cache between it and the worker is
  left out.
* The asset addresses of a page count as one place for a revision: a page that is
  torn between two of them still has it, with another body. The file system's own crash recovery is left out: an
  interrupted write leaves the beginning of the text.
* The hash of a revision is modelled as the texts it is taken of. A candidate
  file is written outside of the published files and is not state. Checkouts
  without `js/script.js` are not among the initial ones: their first build stamps
  a revision that leaves the new script out (`build-public-js.mjs:119`), and a
  second one repairs it.
* Not modelled at all: the obfuscated client `js/script.js`; camera, dialogs and
  pointer handling; `geometry-dom.js` and `edge-geometry.js`, which are continuous
  geometry measured from the browser's layout; page templates, routing,
  configuration and formatting. They keep no state that outlives an event, or its
  source is not in the repository.

## 7. Where this could go on

* A quota for localStorage in `BrowserStorage`: `activateFallbackMode` throws when
  it is full, and the flush is repeated for as long as IndexedDB fails.
* Two pages of one site over one disk, once the program says what they should
  promise each other.
* An abstract durable key-value store that `BrowserStorage` implements.
