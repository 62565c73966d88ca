# Verification of the telemetry search engine

TLA+ models of the Go services and their interplay, TLC runs that check them on
small instances, and TLAPS proofs of the safety properties for every instance.
Every definition is a translation of code under `src/`; `PROJECT.json` ("map")
names the lines of each. Paths below are relative to `src/`.

## 1. The system

A browser client talks through an nginx gateway to an auth service, an ingest
service and a search service. Uploaded parquet files go to a volume the ingest
and search services share; the ingest service reads a file, marks its job done
and tells the search service by `POST /api/v1/ingest-notify`, which reads the
file again and indexes it in memory. In the compose deployment a coordinator
stands in front of several search services (shards).

| Component (code) | State | Operations | Interacts with | What is hard | Correct means |
|---|---|---|---|---|---|
| Search index (`search-service/internal/indexer/index.go`) | documents, posting lists, dirty tokens, file list, ready flag under `mu`; query cache under `cacheMu` | AddDocument, Finalize, Search, AddFile, SetReady, Reset, InvalidateCache, Stats | its handlers, one goroutine per request | `Search` takes the cache lock, `mu`, `mu` again and the cache lock, with gaps in between | no stale answer survives a Reset or an acknowledged notification; the cache is bounded; nobody waits for ever |
| Search handlers and load (`internal/api/handler.go`, `cmd/server/main.go`) | none of their own | search, ingest-notify, reindex, the load of `main` | index, disk | each is a sequence of critical sections, interleaved with all others | ready means loaded; acknowledged files are found |
| WAND (`wandBM25`) | cursors, heap, threshold | one query | posting lists, read under `mu` | the pivot rule, upper bounds, block skipping, ties | exact scores, no duplicates, nothing better left out, an end |
| Tokenizer, parquet readers | none | pure | library, files | | covered by tests; only their result is modelled |
| Ingest (`ingest-service/internal/worker/queue.go`, `internal/api/handler.go`) | job table and its counter, task channel, four workers, upload directory | upload, delete, poll, worker loop, notification with three tries | disk, search service, pollers | full channel, files overwritten or deleted between steps, a timeout with a late answer, a restart that forgets the jobs | no job lost or done twice, a number finds its job, indexing follows done, bounded duplicates |
| Refresh tokens (`auth-service/internal/store/store.go`, `internal/api/handler.go`) | token table in the memory of each replica | login, refresh, logout | clients, balancer | two calls with one token, consumption before validation, lost answers, restarts, several replicas | rotation never forks, tokens are used once, a session that ended stays ended |
| Users, access tokens (same service, `pkg/jwtutil/jwt.go`) | user table of each replica | authenticate, create, list, validate | browser, middleware | the role is in the token, the user in the table, the table in memory | who acts is who is shown |
| Coordinator (`coordinator/internal/api/coordinator.go`) | none | fan out search, stats, reindex; route a notification by file hash | shards | partial failure, late and repeated calls, shards that restart, pages in machine integers, answers that are no JSON | what was reported as indexed stays so and is found; pages are exact; an answer comes |
| Frontend session (`frontend/src/context/AuthContext.jsx`, `utils/api.js`) | tokens in session storage, user, a timer, a refresh in flight | login, silent refresh, refresh on 401, logout, forced logout | auth service, middleware | two refresh paths over one single-use token, a logout in between, a reload | a user stays signed in, acts as who is shown, and leaves no session behind, but for the events named at the properties |
| Frontend pages (`pages/*.jsx`) | upload list, pollers, request id | upload pool, poll, search, clear | ingest, search | answers out of order | only the latest answer is shown, at most five uploads |
| Middleware (`*/internal/middleware/auth.go`) | none | token and role checks | browser, services | none of its own | |
| Gateway, deployment | none | proxying, balancing, replicas, volumes | all | replicas without shared state | |

The hazards, one by one and at their lines, are in `PROJECT.json`
("hazards"); each names the properties that would notice it, or why there is
none yet.

## 2. Modules

| Module | Models | Proofs |
|---|---|---|
| `SearchIndex` (`MCSearchIndex`) | index, cache, locks; search, ingest-notify, reindex, initial load | `SearchIndexProofs` |
| `AtomicIndex` | what the search service promises about its index: the abstract specification | `AtomicIndexProofs`: `SearchIndex` implements it |
| `Wand` | one query of `wandBM25` | `WandProofs` |
| `IngestQueue` (`MCIngestQueue`) | upload, delete, polling, channel, workers, notification, restarts | `IngestQueueProofs` |
| `AuthStore` (`MCAuthStore`) | login, refresh, logout over the token tables of the replicas | `AuthStoreProofs` |
| `Sessions` | what the auth service promises about refresh tokens: the abstract specification | `SessionsProofs`: `AuthStore` implements it |
| `Coordinator` (`MCCoordinator`) | fan-out, merge and pages, routing, shards as bags of documents with a cache, that fail, restart and answer late | `CoordinatorProofs` |
| `Browser` (`MCBrowser`) | a tab, its session and its calls, the replicas of the auth service they reach or miss, and the role checks | `BrowserProofs` |

Three modules look at a component from outside. `Coordinator` has for a shard what
the handlers of `SearchIndex` do as a whole: a reindex is a reset, a gap and a
load, and a search takes the cached entry or stores what it finds. `IngestQueue` has
for the search service what a notification does to it. `Browser` has the tables of
several replicas, and a call goes to any of them, as in `AuthStore`: it has the calls
that reach the wrong one too. It EXTENDS `Sessions` for the vocabulary of sessions and
tokens, and is itself proved to keep the promise of that module; nothing in it rests
on the refinement of `AuthStore`.

### SearchIndex

A thread is a request's goroutine (or `main`); `pc` says which critical section
comes next. One action is one critical section of `mu` or `cacheMu`:
`Lookup` (cache), `SearchFinalize` (Lock, finalizeLocked, Unlock), `Scan` (RLock
and the scan), `Insert` (under `cacheMu`, still inside RLock, then RUnlock) and
`Reply`; `NotifyRead`, `AddDocument` once per row, `AddFile`, `NotifyFinalize`,
`Invalidate`; `Reset`, `ResetCache` (the nested lock), `Glob`, `LoadFile`,
`LoadFinalize`, `SetReady`. `main` runs the same load before the server starts
(`Serving`). `Expire` is the passing of `cacheTTL`; `Upload` is the ingest
service writing into the shared directory, a file at a time and whole.

A document is the set of tokens and of field values that tell queries apart.
`blocked` is the set of terms whose list has been through `sortAndBlock` at
least once since the last Reset: a list that has not has bounds 0, never beats
the threshold and yields nothing; a list that is dirty again does yield its new
postings, which is how the code behaves. Queries have at most one term and all
matches fit a page: what several terms do to the answer is the subject of `Wand`.
The load from two directories is one directory, as in
`k8s/02-search-service.yaml`. `acked`, `mine`, `must` and `old` are history
variables; `old` is what a Reset has emptied while it has not yet emptied the cache.

`AtomicIndex` has no cache, locks, bounds, requests or files: documents come one by
one, some are acknowledged, and all go at once. A search is answered in one step,
at some moment between its request and its reply, with everything acknowledged by
then that matches, and nothing that is not there. The mapping is in
`SearchIndex` (`Shown`, `Promised`, `Asked`, `Answered`): a search is answered when it
meets a live entry or scans, not when it stores its result or replies; a Reset
happens when it lets go of `mu`, so that a search answered from the old cache while
the index is already empty comes before it.

### Wand

The traversal as it is coded: cursors in any order the unstable sort may give,
the pivot from the right, advance to the pivot, block-max check, filters,
scoring, the heap. Every index within the bounds is an initial state. Norms and
idf are positive integers with idf falling in the document frequency; a
frequency is always 1 since `Tokenize` deduplicates. Rounding of floats is left
out. The branch for a posting without a document (`index.go:552-561`) cannot be
reached and is left out. `MayBeStale` lets lists carry bounds from a time when
`avgLen` was smaller.

### IngestQueue

An upload is one job. `disk[n]` is the set of uploads that wrote the file:
one for a whole file, several when saves overlapped and the content is one of
theirs or torn. `Create` and `Copy` are the save, `Register` and `Send` are
`Submit`, then the worker's `Receive`, `SetProcessing`, `ReadFile`, `Fail` or
`Finish`, and the notification: `NotifyOK`, `NotifyFails`, `NotifyTimesOut`. A
timed-out request is still served (`ServeLate`, `RefuseLate`). `copies[u]` counts
how often the search service has indexed the content of `u`. `id[u]` is the number
`Submit` gives a job and `getJob` what a poll with a number finds. `Restart` ends
the process: the table, the counter, the channel and the workers are gone, files
and notifications that have left the process are not.
`SEARCH_SERVICE_URL` is taken to be set and well-formed, else nothing is ever
notified. The search service is seen through what it does for a notification.

### AuthStore and Sessions

A call is sent to any replica. Its steps are `Consume`, `Parse`, `Issue` and
`Reply` (or their failures), `EndSession` for a logout; `Age` passes the exp of
the JWT and then the (later) `ExpiresAt` of the record; `Restart` empties one
table and kills the calls of that replica. `root[t]` names the session of a
token. Calls carry tokens clients have; an unknown token changes nothing in any
table. Users are never removed, so the look-up at `handler.go:109` of the auth
service does not fail. The history variables are `root`, `consumed`, `known`,
`loggedOut` and `forgotten`.

`Sessions` has no tables, replicas, calls or clocks: a session has at most one
live token, which is turned in and replaced by one never used before, until the
session ends. The refinement mapping of `AuthStore` takes `used` to the tokens
issued, `live[s]` to the tokens of session `s` in any table, and `turning` to the
sessions of calls between `Consume` and `Issue`.

### Coordinator

A request is a goroutine of the coordinator, `co` what it knows of each call and
`sh` how far the shard is with it: the two part after a timeout, a lost answer or
the end of the process (`CutAnswer`: an answer that is no JSON object makes a
goroutine panic, which nothing recovers). Searches (`Search`, `ShardAnswers`,
`CallFails`, `Merge`), notifications (`Notify`, `ShardIndexes`, `ShardRefuses`,
`PassOn`), reindexes (`Reindex`, `ShardResets`, `ShardLoads`, `ReindexReturns`)
and shards that stop and start with what is in their directory. One query is
sent; `held[s][d]` is how often `d` answers it at shard `s`, and `cache[s]` is the
entry of the query in the cache of `s`. A search is given that entry or what is
found (`Outcomes`), and stores it (`Stores`); so does a search that somebody else
sends, or whose caller has given up (`OtherSearch`, at the shards in `Asked`). The
entry goes when it expires or is evicted (`CacheForgets`), with a notification, a
Reset or a restart, and not when a reindex ends. What is found (`Results`) may be
without documents that miss a term of the query, which WAND may skip: only those in
`Sure` have every term. `whole` marks an entry that was found with no reindex under
way and the page not full. Each request is sent once, any number of them at the same
time. A page is computed
with integers of a width (`Wrap`), a slice with bounds out of order is a panic.
`promised`, `must` and `excused` are history variables.

### Browser

One tab. JavaScript runs one callback at a time, so each action is the code from
one `await` to the next; what is between them is `call[c]`. The two paths of a
refresh are the timer of `AuthContext.jsx` (`SilentRefresh`, `SilentDone`) and the
interceptor of `api.js` (`Unauthorized`, `ApiDone`), with the promise the
interceptor shares (`refreshPromise`). `Served`, `Forbidden` and `Unauthorized` are
the outcomes of the token and role checks for a request. The auth service has
several replicas and no affinity: `at[r]` are the sessions in the tables of `r`,
`users[r]` its users, and a call is served by any of them. A refresh that reaches a
replica without the token is refused though the token lives on (`Refused`), a logout
there changes nothing and answers the same (`ServeLogout`), a user created at one is
unknown to the others (`CreateUser`, `LoginRefused`). The role comes from the table of
the replica (`ServeLogin`, `Reissue`), and a restart empties both tables of one
(`Restart`). `Reload` forgets
what is under way. `upset` and `leaked` are history variables: they record the
events after which the properties are not promised by the code; the comments at
`KeepsSignedIn` and `LogoutEnds` list those events, and each is a short-coming of
the code that a reader should know.

## 3. Runs

| Run | Shows |
|---|---|
| `index` | TypeOK; `CacheSound`: outside Reset the cache holds only documents of the present index; `ReadYourIngest`: what a notification has acknowledged is found by every later search until a Reset; `CacheBounded`; the inductive invariant `IInv` of the proofs; `ImplementsAtomicIndex`: the refinement of `AtomicIndex`; `RequestsFinish`; `EventuallyExact`: answers cached while a reindex was half-way, which nothing invalidates, do not outlive their TTL |
| `index_ready` (violation) | README.md:99 says /ready is 503 until the index is loaded; two overlapping reindexes set it while one is loading |
| `wand` | `ScoresExact`, `NoDuplicates`, `AllTermsFound`, `EveryStepAdvances`, `Terminates`, TypeOK with the heap bound |
| `wand_lossless` (violation) | index.go:9 says only documents that cannot beat the threshold are skipped; the pivot found from the right skips others |
| `wand_stale` (violation) | index.go:10 calls maxScore an upper bound; it is not, once avgLen has grown |
| `ingest` | `NoTaskLost`, `OneOwner`, `IndexedAfterDone`, `FoundByNumber`: a number finds its job and no other; `DuplicatesBounded`, also over a restart; `JobsFinish`, TypeOK |
| `ingest_done` (violation) | the upload page says "Indexed N documents" of a done job; its notification may have failed for good |
| `auth` | `OneHeir`, `SingleUse`, `KnownTokenStored`, `NeverReturns`, TypeOK, and `ImplementsSessions`: the detailed service is a refinement of `Sessions` |
| `auth_replicas` (violation) | README.md:58-59 says a logout invalidates the token; at another replica it does not |
| `coordinator` | `PromiseKept`: what was reported as indexed on a shard is in its index, but while it reloads or is down, whatever was retried, late or restarted; `AckedFound`: searches find it, whatever the caches of the shards have kept, unless that shard failed, filled its page, or gave what it had found while it was reloading; `PageExact`; `FanOutEnds`; TypeOK |
| `coordinator_order` (violation) | coordinator.go:15-17 says the merge is sorted by score; shards send none, and the order is that of arrival |
| `browser` | `SignedInHasToken`, `KeepsSignedIn`, `ActsAsUser`, `LogoutEnds`, TypeOK |

Each property of a passing run has a mutant in `PROJECT.json`: a changed
definition (kept in the module, commented "fault") with which TLC finds the
property violated. The findings quote the sentence each violation run refutes.

### Bounds

* `index`: one client, one notification, one reindex and `main`; two files
  (one row; two rows, so that another request can run in the middle of a file),
  one of the initial files unreadable; a text, a filter and the empty query, a
  cache of one entry so that every insertion of another query evicts. A lost or
  stale entry needs one search that computes and one writer; the client asks again
  and again, so it is also the one that is served the entry. A second client adds
  no new kind of step, and the safety properties are proved for any number of
  them. Each notification and reindex is sent once.
* `wand`: three tokens and three documents: a pivot with two cursors before it;
  blocks of two, so that a list has one full and one part block; a heap of two,
  so that it is filled, overflows and has ties; norms 2 and 3. `wand_lossless` and
  `wand_stale` need less.
* `ingest`: three uploads, two of one name (overwriting) and one of another, one
  content corrupt; two workers; a channel of one, so that handlers block; two
  attempts, so that there is a retry and a last failure; one restart
  (`MaxRestarts`), after which numbers are given out again. No other counter needs
  a bound: uploads are finite and attempts are at most `MaxAttempts`.
  `CHECK_DEADLOCK FALSE`, since the system rests when all uploads are finished.
* `auth`: two replicas, two concurrent calls, three tokens: a token, a successor
  and a rival. Symmetry over all three sets; only safety is checked there.
* `coordinator`: two shards, of which one is restarted any number of times; two
  files with a document each, one hashing to a shard whose directory does not
  have it, one that reached the directory after its shard was started; a search, a
  notification and a reindex once each, and at shard 1 searches by others any number
  of times, so that its cache may be filled before, while and after it reloads and
  the search is then given that entry. Both documents have every term of the query,
  in `coordinator_order` one. `AskSize` 10 and
  `MaxPageSize` 2 stand for 1000 and 100: what matters is that the clamp bites. The
  page is `<<2, 1>>`, which is inside some merges and past the end of others;
  `MaxInt` is 7.
* `browser`: two replicas, as deployed; three tokens (a login, a rotation, and a
  rotation or a second login), two calls under way, a seeded user, whom somebody may
  try to create with another role, and one created later. Tokens are never given
  out twice, which bounds the sessions; a tab with a third call adds only more of
  the interleavings of two. Symmetry over the calls and the replicas; only safety is
  checked there.

### Fairness

* `SearchIndex`: strong fairness of each started request (its steps, not its
  arrival), because a goroutine waiting for `mu` competes with others and
  `sync.RWMutex` lets no stream of readers or writers pass a waiter for ever;
  weak fairness of expiry, because time passes. Clients need not send anything.
* `Wand`: weak fairness of the loop; it runs in one goroutine without blocking.
* `IngestQueue`: weak fairness of some handler going on and of some worker going
  on, whichever they are: the runtime schedules goroutines that can run, an upload
  has finitely many steps, and a worker's HTTP attempt ends because the client has
  a timeout (it answers, fails or times out). No fairness for uploads, deletes,
  restarts or late answers.
* `Coordinator`: weak fairness of a call's failure and of a request's end: the HTTP
  client has a timeout of 10 s (`coordinator.go:72`), after which `CallFails` happens.
  None for shards, which may hang.
* `AuthStore` and `Browser` state safety only: with symmetry, TLC does not check
  liveness soundly, and without it the instances are too large.

## 4. Proofs

The theorems hold for all values of the constants that satisfy the named
assumptions of the modules (disjoint sets of threads, positive capacities, null
values outside their sets, at most one term in a query, one seeded user for each
name).

* **SearchIndex.** `TypeOK` is inductive by itself. `CacheSound` and
  `ReadYourIngest` are not: the entry that violates them is computed by a search
  several steps before it is stored. `IInv` adds who holds `mu` at which location
  (`LockInv`), that a term without bounds is dirty and what was promised has
  bounds (`BoundsInv`), that a result about to be stored has everything
  acknowledged *and everything a notification that has finalized is about to
  acknowledge* (`AnswerInv`: once it is at "invalidate", either it empties the
  cache after the insertion or the result already had its documents), and that
  live entries are complete (`CacheComplete`). Theorems `Inductive`,
  `CacheSoundness`, `ReadYourIngestCorrect`; `CacheIsBounded` needs only that an
  insertion into a full cache takes an entry out.
* **AtomicIndex.** `SearchIndexImplementsAtomicIndex`: under `IInv` every step of
  `SearchIndex` is a step of `AtomicIndex` or a stutter. `RefInv` (in
  `AtomicIndexProofs`) adds what the mapping needs between the two halves of a Reset:
  the index is empty, and every live entry is right for the index that was there
  (`WindowInv`). That a cached answer is right (`CachedAnswer`) is `CacheSound` and
  `CacheComplete` outside that window; that a scan finds what was acknowledged is
  `BoundsInv`, since acknowledged terms have bounds.
* **IngestQueue.** Its `IInv` (in `IngestQueueProofs`) adds to the checked
  properties where a job may be for each state of its handler, which status goes
  with which worker location (so that a notification is of a done job), that a
  file is written by uploads of its name, and that a late notification of a name
  implies a done job of that name. Theorems `JobsAreNotLost`, `JobsHaveOneOwner`,
  `IndexingFollowsDone`.
  `JobsAreFound` says that numbers are not given out twice between restarts: every
  number in the table is at most the counter, and no two are equal.
  `DuplicatesAreBounded` needs a count of what may still come: `BoundInv` says that
  the late notifications of a name, the documents indexed under it and the tries
  its workers have left are together at most `MaxAttempts` for each of its done
  jobs. A job that becomes done adds that many tries; each attempt spends one,
  whether it is answered, fails, or becomes a late one.
* **AuthStore.** Its `IInv` (in `AuthStoreProofs`) adds that the root of an issued
  token is issued, that calls present tokens some client has, and that a token on
  its way to its client is in the table of the replica that answers, known to no
  client and in no other call. Theorems
  `RotationNeverForks`, `TokensAreSingleUse`, `KnownTokensWork`, the action property
  `TablesTakeFreshTokens`, and `OneReplicaLogout`: with a single replica the
  property that `auth_replicas` refutes does hold.
* **Sessions.** `AuthStoreImplementsSessions`: initial states map to initial states,
  and under `IInv` every step of `AuthStore` maps to a step of `Sessions` or to a
  stutter, one lemma for each: a login opens, `Consume` turns in, `Issue` gives, and
  everything that may end a session closes it. `SessionsEndForGood` carries a
  property of the abstract specification over: a session that is over stays over.
* **Coordinator.** `PromiseKept` is not inductive, because a reply is given on what
  the coordinator knows and a promise is about the shard. `IInv` adds that a call
  the shard reports as served was of a file it has and holds (`ServedInv`), that
  what a shard holds, but while it is down or reloading, includes what was
  promised and what it has served (`HeldInv`), that a whole entry of a cache has what
  was promised since it was stored *and what the shard has served and not yet
  answered* (`CacheInv`: a notification empties the cache, a Reset too, and an entry
  stored before the load has ended is not whole), and that a merge holds what the
  shards that answered had promised when the search began (`MergeInv`). Theorems
  `PromisesKept`, `AckedIsFound`, and `PagesAreExact`, for any number of shards,
  any hash, directories and page sizes, and any width of the integers.
* **Browser.** What the tab shows, what it stores and what the service holds are
  changed by different callbacks, so that none of its properties but `TypeOK` and
  `SignedInHasToken` is inductive. `IInv` (in `BrowserProofs`) adds what the calls
  under way know: a session whose token was turned in is in the hands of one
  refresh, and each session is in the tables of one replica (`SessionInv`); what a call of each kind may have come to (`CallInv`); a
  token on its way to the tab was presented by nobody and is in one answer
  (`CarrierInv`); the tokens of a session speak for one name, and a live one for a
  user of the table of its replica as it is now (`UserInv`). On these rest `UpsetInv`: until something listed
  at `upset` happens, there is one refresh at most, it presents the stored token,
  and it continues the session with the same user; and `LeakInv`: until something
  listed at `leaked` happens, a live session's token is stored or in an answer
  under way. Theorems `StaysSignedIn`, `ActsAsShown`, `LogoutsEnd` and
  `SignedInHasTokens`. Among the listed events are calls that reach a replica without
  the session: the code does not prevent them, and without them on the list TLC finds
  both properties violated. `ServedBySessions`: every step is a step of `Sessions` or
  none, so that also the calls that go astray fork or revive no session;
  `SpentForGood`: a token that continues no session never does again.
* **Wand.** `IInv` (in `WandProofs`) adds `CursorInv`: there is a document that every
  cursor has been moved up to and not past, and all entries of the heap are
  before it. So the cursors of all tokens of a document meet when it is the pivot
  (`CursorsMeet`): its score is exact and it is scored once (`ScoresAreExact`,
  `NothingTwice`). For `NothingLost` (`AllTermsFound`, where no bound is stale)
  three facts more: no norm exceeds its block's bound (`BoundInv`), the threshold is the
  smallest score of a full heap and 0 before (`ThresholdInv`), and a document with
  every token of the index is in the heap, or beaten, or at or after every cursor
  (`FoundInv`). A pivot cannot jump over such a document, because its own cursors
  hold the pivot back; that is what fails for documents that miss a token, and
  what `wand_lossless` shows. The library's induction theorems take an operator
  and cannot be used: the sums are shown to exist, and to grow with their terms,
  by a least counterexample (`LeastNumber`). `LoopAdvances` (`EveryStepAdvances`):
  cursors before the pivot are not past it, so an iteration moves one of them or
  the pivot's own, and none back, and a heap that gains a better score raises the
  threshold or leaves it. With at most `NumDocs` moves for each cursor this is the
  safety half of `Terminates`; that an iteration is possible until the end is
  ENABLED, and left to TLC.

Each strengthening was checked by TLC on the small instances before it was
proved; the one of `SearchIndex` still is, in `index`.

Every safety property of a passing run is a theorem. Only model-checked is
liveness (`RequestsFinish`, `EventuallyExact`, `JobsFinish`, `FanOutEnds`,
`Terminates`), which the prover does not reach. The actions of `Browser` that
give out a token say `CHOOSE`, of which the proofs use only that the token is new.

## 5. Not modelled

* Texts: tokens, fields and names are values; regular expressions, stop words
  and case folding are left to the unit tests. Cache keys are the queries they
  stand for.
* Scores as floats: only order and additivity of BM25 matter to the traversal.
* Operations that only read and decide nothing: `GET /stats` of the search
  service and of the coordinator, `GET /jobs`, `GET /files`, `validate`,
  `listUsers`, `/health`. A job that is encoded while a worker writes it can show
  torn counts, which the next poll corrects.
* What the frontend's pages display: the request id of the search page and the
  pool of the upload page are state of one tab that no service sees.
* Proxy configuration, logging, request ids, layout; `RateLimit`, which does
  nothing; bcrypt and the signatures of tokens, taken to do what they promise.
* Several replicas of the ingest service, whose job tables know nothing of each
  other: nothing in the code claims that a poll finds its job at another replica.

## 6. Plan

1. Done: `SearchIndex`, `AtomicIndex`, `Wand`, `IngestQueue`, `AuthStore`, `Sessions`,
   `Coordinator` and `Browser`, their runs, and the proofs above.
2. The two hazards of the frontend's pages, if their state comes to matter to a
   service.
