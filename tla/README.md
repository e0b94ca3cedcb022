# cyoda-go in TLA+

TLA+ specifications of cyoda-go, an entity database whose entities move through
workflows.  The modules model the code under `src/`; TLC checks them on small
instances, and TLAPS proves theorems about three of them (`MemTx`, `Cascade`,
`SearchJobs`) for every value of the constants.  `PROJECT.json` lists the runs, the theorems, the source lines each
definition translates, a mutant for every property, the hazards and the findings.

## The system

A request reaches cyoda-go over HTTP or gRPC.  The parts, and how they interact:

| part | code | modules |
|---|---|---|
| what a storage plugin promises: snapshot isolation, first-committer-wins | the SPI, implemented by `plugins/*` | `SnapshotIsolation` (abstract) |
| memory plugin: transactions, entity versions, unique keys, task rows, locks | `plugins/memory` | `MemTx`, `MemTxRefinement`, `MemLocks` |
| sqlite plugin: the same, with a file that survives crashes | `plugins/sqlite` | `SqliteTx` |
| postgres plugin: the same, over a server | `plugins/postgres` | `PgTx` |
| queries: planners, search, iteration, grouped statistics | `plugins/*/{query_planner,searcher,grouped_stats}.go`, `internal/domain/entity` | `FilterKernel`, `MemQuery`, `SqliteQuery`, `PgQuery`, `EntityQuery` |
| entity service: create, update, patch, collections, deletes | `internal/domain/entity` | `EntityService` |
| one write, its workflow processors and their callbacks | `internal/domain/entity`, `internal/domain/workflow`, `internal/txgate`, `internal/domain/txjoin` | `Cascade` |
| scheduled transitions: arm, scan, dispatch, fire | `internal/domain/workflow`, `internal/scheduler`, `internal/cluster/scheduler_rpc.go` | `ScheduledTransitions` |
| callouts: compute members, failover to peers, callbacks | `internal/grpc`, `internal/cluster/{dispatch,proxy,token}` | `Callouts` |
| asynchronous search: jobs, pool, heartbeat, reclaim | `internal/domain/search`, `plugins/*/search_store.go` | `SearchStore`, `SearchJobs` |
| models: lifecycle, schema extension, caches | `internal/domain/model`, `internal/cluster/modelcache`, the plugins' model stores | `ModelCatalog` |
| schema trees: admission, change levels, deltas and their replay | `internal/domain/model/schema`, `ingest`, `importer` | `ModelSchema` |
| identity: trusted keys, OIDC providers, clients and tokens | `internal/auth`, `internal/domain/account` | `TrustedKeys`, `OidcProviders`, `TokenService` |

A client's write begins a transaction in a plugin, loads the entity, validates the
document against the cached model, and hands it to the workflow engine.  The engine
takes transitions until none applies; a transition may have processors, which run
on compute nodes connected over gRPC, perhaps through another cluster node.  While a
processor runs, the compute node may write other entities through the API with the
token of the open transaction.  When the cascade has settled, the service saves the
entity and commits.  Arming a scheduled transition is a task row staged in the same
transaction; the scheduler later fires it as a request of its own.

The modules meet at these interfaces.  The three plugins are shown to implement one
abstract specification.  `Cascade` and `EntityService` take the plugin as that
specification lets them: a buffer, a snapshot and a validated commit.  `Cascade` takes
a dispatch as something that returns some time; `Callouts` shows that it does.
`EntityService` takes one item's cascade as its effect; `Cascade` shows what it does to
the transaction.  `ScheduledTransitions` takes a fire as a write that ends in a
reconcile of the task rows.

An `MC` module instantiates each specification for TLC; a name ending in `Proofs` holds
theorems.  Where one configuration covers several workloads, a variable (`load`, `home`,
`backend` and so on) chosen in the initial state says which one a behaviour runs.

## The runs

| run | properties | what it shows |
|---|---|---|
| `memory` | `RepeatableReads` `VersionsFound` `FirstCommitterWins` `UniqueKeys` `AllOrNothing` `SavepointRestores` `ImplementsSI` `CallsReturn` | the memory plugin isolates transactions under any clock, and no calls wait on one another for its locks |
| `sqlite` | `StoreConsistent` `ImplementsSI` `CommitReturns` | the same of the sqlite plugin, with direct writes and a crash |
| `postgres` | `AnswersTrue` `ImplementsSI` `CallReturns` | the same of the postgres plugin, statement by statement; and what callers are told is true |
| `requests` | `QueriesExact` `ReadsValidated` `ReportTrue` `UpdatesChain` `OnlySelected` | queries answer exactly, writes and deletes do what they report |
| `postgres_direct` | `CommitInDoubtNotRetried` | violated: see Findings |
| `cascade_calls` | `NothingLeft` `GateHeldByCaller` `AckedWritesKept` `FailedAsyncUndone` `EveryCallReturns` | a cascade leaves no transaction open and no gate held, and ends; callbacks' acknowledged writes are committed, those of a dispatch that was rolled back are not |
| `cascade_segment` | `JoinedNeverCommits` | violated: see Findings |
| `schedule` | `TimersExact` `FireFromSource` `DueResolved` | no timer is lost, left over or stuck |
| `callouts` | `CalloutsExact` `CalloutsSettle` | nobody waits for a member that is gone; every callout returns |
| `search` | `ExecutorsAccounted` `ResultsComplete` `JobsKept` `JobsSettle` | results are whole, ends are final, every job ends |
| `models` | `CatalogConsistent` `ExtensionsFold` `CatalogSettles` | the schema loses no committed extension, concurrent extensions fold to what their writers meant, caches converge |
| `identity` | `KeysKept` `ProvidersKept` `CredentialsKept` `IdentitySettles` | registries follow the store, revoked credentials stay revoked |

A property that is a conjunction of named ones (`StoreConsistent`, `TimersExact`, ...) is
listed with its conjuncts in the section of its module.

Deadlock is checked in `models`, whose requests must end and whose last state has a
step of its own (`Quiet`).  In the other runs a behaviour may really stop: transactions
end, requests return, and no client has to send another.

## Storage

### SnapshotIsolation

The promise: a transaction sees the database as it was when it began; a commit
is refused if it read or wrote what another committed since; it may be aborted
at any time.  Five variables, five actions, no clock, log or lock.  A write made outside
any transaction is invisible to open snapshots, and nobody is validated against it.

### MemTx: the memory plugin

`MemTx` models `plugins/memory` for one tenant and one entity model: the
`TransactionManager`, the transactional half of the `EntityStore`, the unique-key
claim index, and the staged half of the `ScheduledTaskStore`.

State.  The variables carry the names of the Go fields, grouped by the lock that
guards them: the manager's maps (`mu`), the fields of `spi.TransactionState` (its
`OpMu`), the store's maps (`entityMu`).  `pc`, `stamp`, `rollbackWaiting` and `told`
are the goroutines inside `Commit` and `Rollback` and what they returned.  `history`
(every commit, never pruned) and `seen` (what each transaction has read) are ghosts;
`calls` counts against `MaxCalls`.

Actions.  `Begin`, `Save`, `CompareAndSave`, `Get`, `GetPage`, `Delete`, `DeleteAll`,
`StageTask`, `Savepoint`, `RollbackToSavepoint`, `ReleaseSavepoint` are one action
each: the code holds `OpMu` and, for the store, `entityMu` throughout.  `FireSave` is
the compare-and-save of a scheduled fire, whose context carries no unique keys.
`Commit` is `CommitMark`, then one of `CommitConflict`, `CommitPartialKey`,
`CommitUnique`, or `CommitStamp` followed by `CommitApply`.  It is cut after the stamp
because `mu` is released there and a `Begin` can run before the commit is recorded.
`Rollback` is `RollbackCheck`, then `RollbackApply` once `OpMu` is free.

Time is a natural number of microseconds.  Every reading of the clock is an
arbitrary member of `ClockReadings`, so the clock may stand still or run backwards;
`nextSubmitTime` and the floor taken by `Begin` are what the code does about it.

Refinement (`MemTxRefinement`).  A commit takes effect in the abstract at its stamp:
from there on a `Begin` gets a snapshot that includes it, and `entityMu` keeps every
reader out until its rows are there.

Properties.  `FirstCommitterWins`, `RepeatableReads`, `VersionsFound` (rows in submit-time
order, and `GetVersionByTransaction` finds the right one), `AllOrNothing`, `UniqueKeys`,
`SavepointRestores`, `ImplementsSI`.

Instance.  Three transactions, two entities, clock {1, 3}, in six loads: three
transactions with a jumping clock; three over a unique key; two with scheduled
fires; two with staged tasks; two over two entities with a unique key; one with five
calls, two nested savepoints, a task and a partial key.  Two transactions show every
pairwise conflict; the third lets a commit be pruned from the log, or a `Begin` fall
between the stamp and the record of one, while another is open.  Two calls are a read
and a write, which is what a lost update or a write skew takes.  A clock reading
below and one above the floor cover both arms of `nextSubmitTime`.  Transactions begin
in the order of their numbers, which only renames them.

`OwnerFree` is an assumption on the callers: of one transaction no `Commit` and
`Rollback` are in flight together.  The application keeps to it but for one window: the
engine's `rollbackSegment` (`internal/domain/workflow/engine.go:265-275`) runs without the
transaction's gate, and a joined callback with a COMMIT_BEFORE_DISPATCH processor may be committing
that transaction (see Findings).  `Commit` does not look at `RolledBack` again once
it has `OpMu` (`txmanager.go:440`).

### MemLocks: the locks of the memory plugin

`MemTx` takes a call's critical section as one step; `MemLocks` is about taking the locks.
Each call of the manager, the entity store and the task store is its sequence of
lock steps on the transaction's `OpMu`, `entityMu` and `mu`, and a step is one of Go's
`RWMutex`: a writer that waits shuts new readers out, so that even a second read lock of one
goroutine could wait for ever.  `CallsReturn`: goroutines that stand still have all
returned.  The iterator's consumer may call the store between rows.  Instance: any three calls at once, on
two transactions or outside one.  Three goroutines close a cycle over the three kinds of lock.

### SqliteTx: the sqlite plugin

Transactions are buffered in memory as in the memory plugin, but flushed in one
SQLite transaction under a commit gate; conflicts are found by submit time; and writes
without a transaction (`saveDirectly`) take the gate as well.  State: the manager's
fields, the transaction handle, the five tables (`entityVersions`, `entities`,
`uniqueClaims`, `submitTable`, `scheduledTasks`).  `Commit` and the direct writes are cut
where other goroutines run while the gate is held.  `newStoreFactory` is a crash
and restart between any two actions: memory is lost, the file stays, and the submit-time
floor is seeded from the tables.

`StoreConsistent` is `TypeOK`, `VersionsOrdered` (versions and stamps rise across restarts
and clock jumps), `TablesAgree` (`entities` is the last version, claims are those of live
documents), `ReadsAgree` (all ways of reading give one answer) and `CommitDurable` (a
commit is in the file whole or not at all, and `GetSubmitTime` tells which).
`ImplementsSI` maps an abstract commit to the flush.

Instance.  Up to three transactions and one direct write over two entities, four
loads, one crash.  Three transactions run under a clock that stands still, the
case in which every stamp comes from the floor.  Fairness: a commit or a direct write that can
take its next step does.

### PgTx: the postgres plugin

One action is one SQL statement.  The server is external and modelled by what the
plugin relies on: REPEATABLE READ snapshots, row locks that make a writer wait,
40001 for a row changed since the snapshot, unique indexes that wait for the other
writer, the deadlock detector, the statement and idle ceilings, sessions that die,
a COMMIT whose answer is lost.  The plugin's side is `registry`, `readSet`, `writeSet`,
the savepoint stack, the abort cause, `submitTimes` and the connections it has checked
out.  Compare-and-saves outside a transaction have a transaction of their own, whose
comparison under the row lock, save and COMMIT are three steps; its session may die at
each (`casTorn`), and under the COMMIT the server may or may not have carried it out.
`DeleteAll` deletes the entities one by one and then every claim of the model it sees.

`AnswersTrue` is `TypeOK`, `SetsFollowServer` (the bookkeeping follows what the server
holds, through promotions, failed statements and savepoints), `TablesAgree`,
`ConnectionsReturned`, `RetryIsSafe` (a caller told to retry had nothing applied, but for
the compare-and-save of the finding below), `CeilingNotRetried`, `CommitKnown`,
`OneCompareAndSaveWins`.  `CallReturns`: waiters on rows and on the pool are let go, however often calls are made.

Instance.  Two transactions, two direct compare-and-saves, six loads: read and write
conflicts; claims; a savepoint beside another writer with a session that dies; nested
savepoints; direct writers with a session that dies; point-in-time reads that want a
second connection from a pool of two.  `postgres_direct` is the fifth of them alone.  Fairness: each statement of a
running call, which rests on the server's deadlock detector and the pool's deadline.

## Requests

### EntityQuery and the planners

`FilterKernel` is the filter evaluator every backend must agree with (the SPI's
`Prepare` and `Match`, external).  `SqliteQuery` and `PgQuery` translate the planners: which
leaves are pushed into SQL, how a leaf is relaxed, how AND and OR are dissected, when
the rows are re-checked in Go, SQL's three-valued logic and its comparison of storage
classes.  Both first ask `Prepare` whether the evaluator could take every leaf, and
refuse the filter otherwise (`ErrUnevaluableLeaf`), also when SQL alone would do.  `MemQuery` is the memory plugin's single pass.  `EntityQuery` runs `Search`,
`Iterate` and grouped statistics (the store's GROUP BY, or a tally of streamed rows)
with a transaction of the caller's open or not, its own writes overlaid, others
committing, and the transaction ending while an iterator is drained.

Values are chosen for the edges: two integers that become one float64, numbers
written as text, null, absent and object members, an array with a wildcard path,
instants of half milliseconds, malformed paths, empty groups.

`QueriesExact` is `RowsExact` and `StatsExact`.

- `RowsExact`: a search answers exactly the entities of its view the evaluator accepts,
  or the limit error exactly when there are more; an iterator yields no row outside
  its view, and all of them if it ends without an error.  A filter the evaluator cannot
  take is refused.  Excepted is a comparison on a field declared with several types on
  postgres (`Polymorphic`), which may lose rows and never adds one.
- `StatsExact`: push-down and streaming give the same buckets, except for a GROUP BY in SQL
  over values it reads otherwise than the evaluator (`ReadsAlike` names them).
- `ReadsValidated`: a transaction that commits had no entity of a tracking read changed
  by others; no iterator yields after its transaction ended.

### EntityService

One request at a time from `service.go`: create, update and patch, alone and in
collections, and the four kinds of delete, over the transaction buffer of memory and
sqlite.  Every item runs the engine (plainly, failing, or with a segment that commits
before dispatch, with or without a new transaction); other requests commit between any
two steps; the caller may go away at any time.

- `ReportTrue`: what a request answers is what it did: removed ids have tombstones, no
  id is reported both ways, every matched id is accounted for while the caller is
  there, a failed request wrote nothing unless it commits as it goes.
- `UpdatesChain`: every version directly follows the one it was computed from, and with
  If-Match that one is the caller's.
- `OnlySelected`: a conditional delete removes only what met the condition, and a batched one
  exactly the version its scan read.  The scan (`NextCycle`) is outside any transaction, and the batch
  begins its own afterwards (`OpenBatch`), so that others commit in between.

Instance of `requests`.  Three stores, each with searches, iterations or statistics over
three entities, two commits of others and one write of the caller; or one of
seventeen write requests over five entities, on memory and on sqlite, with one or two
commits of others and at most three delete cycles.  One concurrent commit is enough to
invalidate any one read; two let it happen to a retried batch as well.

### Cascade

`Cascade` models an entity write from the beginning of its transaction to its end:
`txScope` (`beginScope`, `Advance`, `Commit`, `Release`), the gate, the engine's
processor modes with their savepoints and segments, and the callbacks of compute
nodes, which are entity writes themselves and may dispatch in turn.

State.  `call` has, for each call, where it is (`pc`), the transaction it entered with
(`entry`) and the one it is on (`seg`), the mode and reply of its dispatch, and the
savepoint it holds.  `tx` has each transaction's status and buffer, a buffer being
the set of calls whose entity is in it.  `gate` says who holds the gate of each
transaction; `token` which transaction each dispatch handed to the compute node.  `undone`, the
rollbacks to a savepoint so far, and `amid`, the savepoint dispatches under way when a
callback saved, are history.

Actions.  `BeginOwner` begins; `JoinFromToken` and `AcquireJoinedGate` are a callback's
way in.  `SendSync`, `SendAsyncNewTx`, `SendCommitBeforeDispatch` and
`SegmentCommitFails` are the stretch of the engine up to a dispatch;
`DispatchReturns` is the compute node's answer, the timeout or the lost member;
`AfterSync`, `AfterAsyncNewTx`, `AfterCommitBeforeDispatch` and `ApplyResult` are the
stretch after it.  `EngineAborts` and `EngineSettles` leave the engine, `Finalise` is the
owner's gated save and commit, `Release` the scope's rollback.
Which transition applies, and whether a criterion holds, is a free choice.
`SYNC` stands for everything that dispatches inside the open transaction and applies
a result (SYNC, ASYNC_SAME_TX, FUNCTION criteria, schedule functions).  `CBD` and
`CBD_NEW` are COMMIT_BEFORE_DISPATCH without and with `startNewTxOnDispatch`.

A dispatch may time out while its callbacks run, so a callback may be late.  Hence what
a failed dispatch undoes is not "the writes of its callbacks" but what
`RollbackToSavepoint` makes of the buffer: it puts back the whole snapshot.

- `AckedWritesKept`: a callback answered with success has its write in the transaction when that
  commits, unless an ASYNC_NEW_TX dispatch under way when it saved was rolled back.
- `FailedAsyncUndone`: a write saved while such a dispatch was under way is not committed once it is
  rolled back, unless a second rollback brought it back from a savepoint taken after the write.

Instance of `cascade_calls`: the owner with every mode and two callbacks (ASYNC_NEW_TX and CBD), one dispatch
each, so that one callback is nested in the other's dispatch or both are siblings,
savepoints overlap in either order, and any of them may be late.  Three transactions: a
fourth reaches no further state.

Fairness: strong fairness of each call's steps, because a Go mutex hands itself to
a starving waiter, and of the return of a dispatch, which ends at the latest with the
dispatch timeout.

## Timers and callouts

### ScheduledTransitions

One entity with two scheduled states.  Client writes settle and reconcile the task rows
(`Execute`, `ManualTransition`, `Loopback`, `DeleteEntity`); the coordinator's `Tick` scans and
throttles, `Dispatch` hands out, `Fire` re-reads, guards, expires, declines or
runs the transition in a transaction of its own; nodes crash, restart and have stale
views of each other.  Time is a phase of the row (future, due, in the grace band, over).

`TimersExact` is `TypeOK`, `TimerKept` (a settled entity in a scheduled state has its row
or an outcome), `NoStrayTimer`, `OriginKept` (a timer acts for the principal that wrote
the state), `OneOutcome` (on postgres, within one transaction).  `FireFromSource`: a fire moves the
entity only from its timer's state.  `DueResolved`: a due timer is resolved while
some node runs, if fires finish within the redispatch backoff.

Instance.  wait -> late -> done with a manual way there and back, five deployments
(memory, sqlite and postgres, with and without segments, one node and two), two fires
in flight, two principals, one fault or client event beyond the creation.  Two fires in
flight are one redispatch racing its original.  Fairness: the scan loop of a live node, gossip,
the hand-out, the passing of time and the steps of a fire; none on clients or crashes.

### Callouts

A member's stream, its single writer and unbuffered outbox, the requests tracked on
it, keep-alive, eviction in two steps, the versioned tag publication of its node;
the local dispatch with its one deadline, polling for a peer, forwarding with failover;
and callbacks that reach their transaction from any node.  Timers may fire at any time.

`CalloutsExact` is `TypeOK`, `PendingExact` (tracked exactly while waited for, nothing on a
closed member), `TagsCurrent`, `RunsOnce` (two nodes run one callout only after a lost
forward), `CallbackJoins`.  `CalloutsSettle` is `CalloutReturns`, `FrozenLeaves` (a member
that stops draining is evicted and its writer ends), `ViewConverges`.

A publication that fails may have set the tags of the node all the same.

Instance.  One node with one or two members, and three nodes with members on the
origin's peers; two callouts; one or two faults (frozen member, receive error, lost
forward, failed publish, cancelled request).  Fairness: the keep-alive loop, the
goroutines of an ending stream, publication and gossip, and the steps of a
dispatch, all driven by timers or runnable goroutines.  A live member owes no answer.

## Jobs, models, identity

### SearchStore and SearchJobs

`SearchStore` has every operation of the three job stores as a function of one job's
row: status writes fenced by epoch and status, claims, releases, result rows.
`SearchJobs` has submission with the per-tenant cap, the bounded queue, the executor
with its heartbeat, cancel, the reclaim sweep, release at shutdown, crash and restart.
An execution is `task[job][epoch]`.  Time is left out: any RUNNING job may be judged
stale, an executor may pause for as long as it likes.  `PromptSweep` says that a
sweep is done with a job before the claim it made ages; without it the result
property fails, because `ClearResults` is not fenced by the epoch.

`ExecutorsAccounted` is `TypeOK` and `SlotsAccounted`; `JobsKept` is `TerminalIsFinal` and
`HandoverNotFailed`; `ResultsComplete`; `JobsSettle` (no job stays RUNNING for ever).

Instance.  Three backends, two nodes on postgres, two jobs of one tenant, two
matches, one worker, a queue of one, cap one, two attempts, three epochs, three events.
Three epochs are the submitter, a reclaim and a reclaim of the reclaim.
Fairness: submissions, executors, workers, sweeps and shutdown; strong fairness for the
sweep's claim of orphans, which the ticker repeats; the restart of the home node.

### ModelCatalog

The admin operations on a model statement by statement, the ingest path that extends the
schema, the extension log with its savepoints (`Interval`), the per-node descriptor
cache with lease, singleflight and lossy gossip, reads that fail, and the negative path cache.  A schema
is its set of fields.  `crossed` records that a write came between two statements of
a lifecycle operation, `changed` that the model was saved, unlocked or deleted.

`CatalogConsistent` is `TypeOK`, `SchemaWhole` (no committed extension leaves the fold; and where
the log is emptied the fold keeps the base, which excludes sqlite),
`KeysDeclared`, `DocumentsFit`.  `CatalogSettles` is `RequestsEnd` and `CachesConverge`.

Instance.  Three requests on two nodes over three fields, seven combinations of
stored model and requests on each backend, savepoints every two extensions, and on
sqlite and postgres an import whose read of a locked model may fail, beside a search that shares it and a writer.
Fairness: each request's steps and the end of each lease.

### ModelSchema

The schema package as operators over trees: `Merge`; `Admit` (`admitNode` and the cases
below it) with its sparse overlay and the level each change costs; `Extend`; `Diff` and its
four operations; `Apply`; the check of the unique keys.  A node has the kinds it was
observed as, the scalar types, the children, the element and the nullable marker.  Two
writers read the folded schema (`readSchema`), and later judge a document against what
they read and append the difference to the log (`ValidateOrExtend`: `validateStrict`,
`extendSchema`), behind deltas they have not seen.  A delta is a set of operations, since
`Diff` ranges over Go maps.  This is what lets `ModelCatalog` take the fold as a union.

`ExtensionsFold` is
- `LogReplays`: every extension can be written as a delta, every delta replays, the replay
  is the union of the schemas the writers meant, and operations of a delta, and deltas
  that have not seen each other, commute;
- `SchemaSound`: the folded schema holds every accepted document, stays within the change
  level over the schema it began with, and keeps a keyed path a scalar leaf, although
  the keys were checked against each writer's own view.

Instance.  Nine schemas learnt from samples or stored with an element never observed,
at three change levels, against six shapes of one field; strict validation and the lowest
level on another; two writers adding the same new field; a keyed model with a
document too deep and one with a name that cannot be spelled.  Depth 4 instead of the
code's limit, two deltas (`MaxDeltas`; a log of three was explored too, and holds).  Types are
STRING, DATE and one numeric family, INTEGER and LONG: the type sets and
node accessors live in the SPI module, and widening across numeric families is left out.
The two models share a run and no state: a behaviour is of one or of the other.

### TrustedKeys, OidcProviders, TokenService

`TrustedKeys`: per-node caches over a shared key-value store, mutations under the cache
lock, the reconcile with its generation guard, pings with a coalescing runner, the
read-through `Get`, the staleness bound.  `OidcProviders`: admin operations as sequences
of store writes, map change, discovery, source installation and broadcast, any number of them
at once on a node, as in the code, where no lock orders them; `ReloadAll`
and its guard; warm-up and retry loops; restart.  `TokenService`: clients and secrets,
key pairs, both grants of the token endpoint, validation.

`KeysKept` is `KeysTypeOK`, `OwnWritesKept`, `RotationKeepsOne`.  `ProvidersKept` is
`ProvidersTypeOK`, `OwnChangesKept` (excepting a provider two overlapping operations have changed, `met`,
until a reload that began after both).  `CredentialsKept` is `TokensTypeOK`,
`RevokedStaysRevoked`, `OneSigningKey`, `PrincipalKept`.  `IdentitySettles` is
`ProvidersSettle` (`SourcesSurvive`, `ProvidersConverge`, `ProvidersWarm`) and `KeysConverge`.

Instance.  One of the three parts is active in a behaviour, under five, five and four
workloads, with one or two nodes and up to two failing calls or lost messages.
Fairness: the steps of a running operation and the reconcile and retry loops; strong
fairness for the forced reload, which waits for a mutex; the identity provider
comes back.

## What is proved

Eighteen theorems, for every value of the constants: any sets of transactions,
entities, documents, calls, jobs and nodes, any clock, any bound.

### MemTx

Assumptions: the three `ASSUME`s of `MemTx` (clock readings are positive, bounds are
natural numbers, `None` is not a value).  The proof modules build on each other; the
inductive invariant is `MemTxInv`, which is `TypeOK`, `IsolationInv`, `HandleInv` and `StoreInv`.

| theorem | module | invariant it needs |
|---|---|---|
| `TypeCorrect` | `MemTxProofs` | `TypeOK` |
| `FirstCommitterWinsHolds`, `LogCoversOpenHolds`, `RepeatableReadsHolds` | `MemTxIsolationProofs` | `IsolationInv` |
| `VersionsFoundHolds`, `AllOrNothingHolds` | `MemTxStoreProofs` | `HandleInv`, `StoreInv` |
| `SavepointRestoresHolds` | `MemTxClaimsProofs` | `SavepointInv` |
| `UniqueKeysHold` (no scheduled fire) | `MemTxClaimsProofs` | `ClaimsInv` |
| `MemTxImplementsSI` | `MemTxRefinementProofs` | `MemTxInv`, `RefineInv` |

First-committer-wins is not inductive.  The conflict check compares *sequence
numbers* with the transaction's baseline; visibility and the pruning of the log go
by *submit times*; and the two are assigned at different moments.
`IsolationInv` says why they never disagree:

- the submit-time floor is at or above every snapshot and every stamp handed out,
  so a new stamp is later than all of them;
- at most one commit is between stamp and record, since it holds `entityMu`; all
  recorded commits are older than its stamp;
- that commit passed its conflict check against a log that cannot change until it is
  recorded, so the check still holds then;
- a transaction that begins in that window has the new stamp at or below its
  snapshot but an older baseline.  The commit is then checked against it although it
  is visible: a spurious conflict at worst, never a missed one;
- such a transaction cannot have read the store yet, because reading needs
  `entityMu`.  So the rows that appear under its snapshot change nothing it has seen.
  This is the step `RepeatableReads` rests on.

`LogCoversOpen` is then kept by `Pruned` because a commit some open transaction does
not see is later than that transaction's snapshot, which is what the prune tests.

`HandleInv` keeps the write set exact through savepoints.  `StoreInv` ties every row to
a committed transaction and its stamp; rows stay in order because a stamp is later
than those of all committed transactions, and the index finds the earliest live row
because a flush appends the rows of one transaction together.

`SavepointInv`: the lists a savepoint recorded by length only begin the lists of
the transaction, and those of every later savepoint; so truncating by length restores.
`ClaimsInv`: every buffered document was saved with its keys, the two claim maps agree with
the store, and a commit between stamp and record has passed the uniqueness check
against claims nobody can have changed since.  The hypothesis `~ScheduledFires` is
necessary: see Observations.

`MemTxImplementsSI` proves the refinement checked by TLC: initial states map to
initial states, every step to an abstract step or a stutter.  `RefineInv` adds that
every commit is on record and that a transaction has read nothing before it begins.

### Cascade

Assumption: `ConstantsOK`.  The theorems hold for any callbacks, modes,
rounds and transactions, with answers in time or late.  `NothingLeft` speaks of
the end only, so it needs an invariant about the way there.  `ReleaseInv` is `TypeOK` with

- `GateInv`: a gate is held by a call exactly when the call is in a state where the
  code holds it (`HoldsGate`), and it is the gate of the call's entry transaction;
- `OpenInv`: an open transaction is the current segment of the running call that
  began it.  So a transaction nobody would end cannot exist: the engine's guards and
  the scope roll back what they began, and a call only leaves a segment by ending it;
- `EntryInv`: a callback joined a transaction somebody else began, so the segment it
  rolls back on an error is never the one it joined;
- `CommittedFirst`: a CBD dispatch is made after its segment has ended, so beginning
  the next segment forgets no open one.

`FailureLeavesNothingHolds` alone has a hypothesis, that callbacks do not segment (the finding below is what
happens otherwise).  `AckedWritesKeptHolds` and `FailedAsyncUndoneHolds` rest on `WriteInv`.  Neither is
inductive, because a rollback replaces the buffer by a snapshot taken earlier: `AckedInv` adds
that an acknowledged write is also in every savepoint taken since it was made, `OverInv` that a
dispatch rolled back is over, so that no later write is made during it, and `GoneInv` says what
`FailedAsyncUndone` does of open transactions too.

### SearchJobs

Assumption: `SearchConstants`.  `ExecutorsAccountedHolds` (`SearchJobsProofs`) rests on `RegInv`: who may make
the executor of an epoch (the submitter for epoch 1, one sweep for every later one), no
two sweeps holding one claim, and the registered handles being finitely many and counted.

`ResultsCompleteHolds` and `JobsKeptHolds` (`SearchFenceProofs`) assume `PromptSweep`.  `FenceInv` says that the
rows of a job are a prefix of the scan, the prefix the executor of the current epoch has saved;
that a job on a sweep's list is at the epoch of that claim and on no other list; and that its old
rows are gone before its new executor is made.  A write under an older epoch is then refused by
the fence in every store, which is proved once for the three (`FencedWrites`).

## What is only model-checked

- Liveness (`EveryCallReturns`, `CommitReturns`, `CallReturns`, `DueResolved`,
  `CalloutsSettle`, `JobsSettle`, `CatalogSettles`, `IdentitySettles`): fairness and ENABLED are outside
  the proof system's reach.
- `CallsReturn`, on any three calls.
- The planners: `SqliteQuery` and `PgQuery` recurse over filters, and induction over data is
  outside its reach too.
- `SqliteTx`, `PgTx`, `EntityService`, `ScheduledTransitions`, `Callouts`, `ModelCatalog`, `ModelSchema` and the identity
  modules, on the instances above.

## Findings

`cascade_segment` ends in a counterexample.  `flushAndCommitSegment`
(`internal/domain/workflow/engine_processors.go:442`) commits the current transaction whether the request
began it or joined it.  A joined callback whose workflow has a COMMIT_BEFORE_DISPATCH processor
therefore commits its owner's transaction, with whatever the owner has written so far; the guards at
`internal/domain/entity/service.go:342` and `:2298` reject the callback only afterwards.
`service.go:259-260` says: "A joined callback does not Begin and does not commit; the owner does."

`postgres_direct` ends in another.  A compare-and-save outside a transaction commits for itself, and
classifies a failed COMMIT with `classifyError` (`plugins/postgres/entity_store.go:300-301`): a connection that
dies under the COMMIT is answered with the retryable "storage unavailable", although the server may
have carried the COMMIT out.  `plugins/postgres/transaction_manager.go:702-709` says of a failure of the COMMIT
itself: "The outcome is in doubt, and a caller told to retry would apply the work twice", and gives
`classifyCommitError` for it, which does not invite a retry; `TransactionManager.Commit` uses that one.  The
reach is small: all compare-and-saves of the application are made inside a transaction, and a
retry that names the same transaction ID finds its own write and is answered a conflict.

## Observations

Met while translating the code.  No run is about them: the properties are stated so that they
hold of what the code does, and the text here says where the line was drawn.

Memory plugin and cascade.
- A scheduled fire saves its entity without unique keys, so the memory plugin drops the entity's
  claims (`plugins/memory/txmanager.go:533`, `662-665`) and another entity can take the key value; the sqlite and
  postgres plugins keep the claims.  So `UniqueKeysHold` has the hypothesis `~ScheduledFires`, and in the run only
  documents without a key are fired.
- Re-keying the holder of a value and claiming the value for another entity in one transaction
  is rejected by the memory plugin (`txmanager.go:523-526`).
- The rollback to one callback's savepoint drops what a sibling callback wrote after it, acknowledged or not; and
  when two savepoint dispatches overlap, the second rollback can bring back what the first undid.  These
  are the exceptions `AckedWritesKept` and `FailedAsyncUndone` name.  A callback still running when its
  ASYNC_NEW_TX dispatch times out saves after the rollback and is committed.

SQLite plugin.
- `GetAsAt` tests a change type that the meta of a tombstone does not carry (`entity_store.go:650`).
- An in-transaction `Get` that finds nothing is not in the read set; direct writes are not in the committed log;
  `>=` in the conflict check gives spurious conflicts, never missed ones.

Postgres plugin.
- A delete on a stale snapshot fails with 23505, which is not mapped to a conflict
  (`entity_store.go:478`); a Commit of a failed transaction returns the raw 25P02.
- A point-in-time read inside a transaction goes to another connection, and two of them may differ.
- The submit time is the transaction's start, so one that runs longer than the TTL is swept when it commits.
- A save refused for a partial key has already written its rows; `TablesAgree` excludes that document.

Entity service.
- `UpdateEntityCollection` isolates an item whose If-Match fails and commits the chunk, but the
  timers the item's cascade reconciled were staged in that same transaction.  So `TimersFollowEntity` of
  `EntityService` is not an invariant and is not checked.
- A context cancelled in the middle of the last batch of a delete leaves ids in neither list;
  `ReportTrue` asks for all of them only while the caller is there.
- A conditional delete at a point in time, in one transaction, deletes the current rows.

Queries.  The first two are the exceptions of `StatsExact` and `RowsExact`.
- SQLite's aggregates count text as 0 where streaming skips it (`grouped_stats.go:451`), and group a boolean
  under "1" where streaming says "true"; postgres counts text that looks like a number.
- Operands of a field declared both INTEGER and STRING drop rows on postgres.

Timers.
- A fire slower than the redispatch backoff can give a timer two outcomes except on postgres within one
  transaction.
- A segmented cascade that fails after its first flush leaves the entity in a state whose timer nobody armed
  (`cut = "moved"` in the model).

Callouts.
- A failed publish of the newest tags is not repeated until the membership changes again.
- A forward lost after the peer took it lets the callout run a second time.

Search jobs.  `ClearResults` is not fenced by the epoch: a sweep overtaken by another claim of the job it is
handling can clear rows its successor has saved.  `PromptSweep` excludes this.

Models.
- An import takes a model it cannot read for one that is not there (`internal/domain/model/service.go:148-151`) and
  saves over it, a LOCKED one included.
- The sqlite plugin never empties the extension log of a model, so a savepoint of the old model outlives an
  unlock and a save of a new base, and hides it.
- An import or a change of unique keys saves a descriptor it read earlier; unlock and delete count entities
  before they change the model.  `crossed` marks behaviours in which another write came between.
- A create's schema extension commits before the entity's transaction.
- A read inside a REPEATABLE READ transaction can put a rolled-back extension into the shared cache (`rolled`).

Identity.
- The cap and the uniqueness of a key id are checked against the local cache only; two nodes that rotate each
  other's key can leave a tenant with none active.
- `loadOne` of the trusted keys installs what it read without a generation check, until the next reconcile.
- A rotation counts up the generation before it turns the siblings over (`kv_trusted_store.go:509`, `518-533`), so a
  reconcile that took its generation in between may put an older record of a sibling back.  `OwnWritesKept` is
  stated without rotation.
- Two admin operations on one OIDC provider overlap on a node, and its map may then hold what the one that wrote the
  store last did not write, until the next reload.
- Of two concurrent registrations of an OIDC provider the loser deletes the index entry both share; an update
  that races a delete writes the old blob back.  `Single` excludes coordinates with two blobs.
- A broadcast dropped by the singleflight is made up for by the next reconcile.

## What is not modelled

- Request doors, encodings, audit trail, edge messages, configuration, observability, commands, generated types:
  no state the other parts depend on, or one store call per request.
- Import and export formats, storability checks, translation of conditions: pure functions of one document.
- In `plugins/memory`: the direct path without a transaction, counts, and the stores that are one map behind one
  mutex.  In `plugins/sqlite` and `plugins/postgres`: migration, row mapping, and the same simple stores.
- Membership and failure detection of gossip (a library), signatures and expiry of tokens, peer authentication.
- In `Cascade`: a dispatch that is retried on another node is one dispatch; savepoint, join, commit and rollback are
  those of the memory plugin.  In `EntityService`: postgres, where some conflicts end a request at the statement instead of
  at the commit.
- Time, other than its order: durations become "may happen at any moment".

`PROJECT.json` lists every part with its status and the reason.
