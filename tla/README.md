# A TLA+ development of Pheasant's indexing core

Pheasant keeps a knowledge base: it reads sources (directories, repositories,
drives, web pages), extracts and chunks their documents, stores rows, a graph,
a manifest and vectors, and answers searches over them. Several processes and
threads index at once, any of them can be killed at any moment, and the four
stores are written one after the other. This directory models that indexing
core: who may write a source, what each pass leaves behind when it is cut
short, how work is handed out and redelivered by either queue, how the graph
reaches its rows and chunks reach the vector store, how a run is stopped, how
batches are spread over preparation workers, which process starts the passes,
and what other processes see of a job.

Paths are relative to `src/src/pheasant/` unless they start with `src/`.

* [The system](#the-system): inventory of components
* [The modules](#the-modules): what models what, and how state and actions
  correspond to the code
* [The runs](#the-runs): what is model-checked, on which instances
* [The proofs](#the-proofs): what holds for every value of the constants
* [Disagreements found](#disagreements-found) and
  [statements the code does not keep](#statements-the-code-does-not-keep)
* [What is not modelled](#what-is-not-modelled) and [the plan](#the-plan)
* [Reproducing](#reproducing)

## The system

| Component | Code | State it keeps | Operations | Correct when |
|---|---|---|---|---|
| Index work queue | `sync/queue.py` | one database row per task: status, attempts, owner, visible_at, enqueued_at | publish, claim, heartbeat, ack, nack, dead-letter, requeue_dead, purge; the `drain` loop and its keepalive thread | a claim is exclusive while its worker is heard from; a poison task stops; no task is lost |
| NATS queue | `sync/queue.py` | a JetStream stream, its delivery counts, its dead-letter subject and the duplicate window | the same interface | the same, and a burial or a replay that dies half-way loses nothing |
| Write locks | `sync/locks.py`, `_source_write_lock` in `sync/engine.py` | a lease row per source with owner and heartbeat; a lock file per source; a whole-state lease file | acquire, heartbeat, release, clearing of stale ones | two writers never hold one source; a dead holder does not lock it for ever |
| Sync pipeline | `sync/engine.py` | the working graph, its dirty flag; in the state store: rows, manifest, fingerprint, resume scope, put-off enrichment | sync (incremental, repair, full, deferred), redelivered full task, remove, replace, checkpoint, close | the four stores agree after a pass that ends, and a pass that is cut short leaves nothing that a later pass wrongly skips |
| Cancellation and run records | `sync/cancellation.py` | a `sync_runs` row per source: run id, heartbeat, the first request | register, heartbeat, request, poll before each item, `finish_cancelled`, removal | what was committed is kept; a request stops the run that accepted it and no other; a killed run is noticed by the next |
| Vanished and archived documents | `sync/vanished.py`, `sync/archived.py`, `persistence/archive.py` | archive rows | prune, admit, apply | what left the source, or was held out, leaves the index |
| Vector indexer | `search/vector_indexer.py` | pending and outstanding chunks, one background slot, one error | index_artifact, flush, reset, prune | a flush that returns has stored everything; memory is bounded; nobody waits for ever |
| Graph and its persistence | `graph/`, `persistence/graph_*.py`, `search/node_index.py` | nodes, edges, pending sets; rows, XOR folds, counts and a published generation; a derived node index | mutations, delta, save, load, clear delta, index flush, reconcile | what differs from the rows is owed to them; folds and counts are those of the rows; the index heals |
| Preparation workers | `sync/worker_pool.py`, `sync/preparation.py`, `sync/worker*.py` | a rotation, a breaker per endpoint, a half-open slot; per call attempts and a deadline | dispatch a batch with failover, probe, trip, prepare locally | a dead worker costs little, a healthy one is asked, one that is back is used |
| Scheduler, watcher, election | `cli.py`, `sync/scheduler.py`, `sync/watcher.py` | leadership, the threads of each service and their stop events, pending file events, the process's sync lock | promote, demote, startup reconcile, drain, beat, record an event, dispatch | producers work one at a time, no recorded change starves, a demoted process comes to rest |
| Jobs | `jobs.py`, `job_snapshots.py` | a registry per process, snapshot files they share | create, progress, finish, evict, clear, heartbeat, reap | a running job is listed and reads as running everywhere; an orphan ends |
| State store, vector stores | `persistence/`, `search/vector_store.py` | SQL tables; vectors | transactions; upsert and delete | (taken as given) |
| Search, API, MCP, assistant, memory, evaluation, tuning, security, sandbox, telemetry, configuration | the other packages | read-only, or their own rows | | (not modelled, see below) |

**How they interact.** An API call, the scheduler or the watcher publishes an
index task, or calls `sync_source` in place. A worker's `drain` claims a task
and hands it to `SyncEngine.apply_index_task`, which takes the source's write
lock: on PostgreSQL the lease row first, then the lock file. Inside the lock the
pass lists the source, and commits each item's rows and nodes under one mutex.
At a checkpoint it saves the graph and then the manifest. It hands each item's
chunks to the vector indexer, which all syncs of the process share and which
embeds them in a background thread. At the end the pass prunes, flushes the
indexer, links the graph, publishes it, saves the manifest and records its
fingerprint. A cancellation is a row the pass polls. An archived document is a
row that listings and the prune consult.

**What makes it hard.** (1) Four stores and no transaction across them: each gap
between two writes is a place to die. (2) The manifest decides what the next
pass skips, so an entry that is ahead of the rows or the graph hides damage
instead of repairing it. (3) Leases and claims rest on time: a process that is
suspended does not know that it was overtaken. (4) Condition variables shared by
threads of several sources, with failures in between. (5) Retries meet what
their predecessor left. (6) A broker call that is one line of code is two
messages, and the process dies between them. (7) Aggregates that are maintained
beside the rows, row by row, drift silently if one change is folded in twice.
`PROJECT.json` lists each such hazard at its line with the properties that watch
it.

## The modules

| Module | Models | Extends / used by |
|---|---|---|
| `WorkQueue` | the contract of `TaskQueue`, without tables, brokers or clocks | instantiated by `LocalQueue` and `NatsQueue` |
| `LocalQueue` | the queue table, `drain`, its keepalive | `MCLocalQueue`, `LocalQueueProofs` |
| `NatsQueue` | the JetStream backend, `drain`, `requeue_dead` | `MCNatsQueue`, `NatsQueueProofs` |
| `SourceLease` | the lease row and `_source_write_lock` | `MCSourceLease` (owners and hosts), `FleetProofs` |
| `SourceLock` | the on-disk `source_lock`, call by call | extended by `SyncRun` |
| `SyncRun` | the `sync_runs` row of the run inside that lock, and `request_cancel` | `RecordProofs` |
| `SyncPipeline` | one source, its four stores, every kind of pass, cancellation, archive, removal | `MCSyncPipeline` (symmetry), `SyncPipelineProofs` |
| `GraphCommit` | the graph, what it owes, the rows with their folds, the node index | `MCGraphCommit`, `GraphCommitProofs` |
| `GraphStore` | what a reader of the rows may rely on: they are one whole graph, replaced at once and then published | instantiated by `GraphCommit` |
| `VectorIndexer` | the shared embedding queue and its threads | `VectorIndexerProofs` |
| `WorkerPool` | dispatch of batches over preparation workers | `WorkerPoolProofs` |
| `JobRegistry` | the registries and snapshots of several processes | `MCJobRegistry`, `RecordProofs` |
| `Orchestrator` | one indexer of a fleet: election, startup reconcile, drainer, scheduler, watcher | `FleetProofs` |

`SyncRun`, `JobRegistry` and `Orchestrator` name their specifications after
themselves (`RunSpec`, `JobSpec`, `FleetSpec`), because a module of proofs
extends each of them together with another one.

The modules meet in three ways. *Refinement*: `LocalQueue` and `NatsQueue` both
implement `WorkQueue` (`KeepsContract`), so what calls a queue can be thought of
with the contract; `GraphCommit` implements `GraphStore` (`StoresWholeGraphs`),
so what reads the rows sees graphs the process has had in memory. *Composition*:
`SyncRun` extends `SourceLock`, one contender holding the lock while its run has
its row, so that runs overlap exactly when the file lock lets them.
*Interfaces*, each an assumption of one module and a property of another:
`SyncPipeline` has one pass at a time, which is what the locks are for;
`SourceLease` takes the file lock as a mutex, and `SourceLock` looks inside it;
`SyncPipeline` saves the graph in one step, and `GraphCommit` shows that the
rows change in one step (`StoresWholeGraphs`) and that a save which fails or
dies on the way stays owed (`OwesWhatDiffers`); `Orchestrator` has the passes
begun one at a time in a process, and takes the election lease, a `SourceLease`,
as won or lost at any time; `SyncPipeline`'s `Flush` takes everything pending to
the store in one step, which is `FlushGuarantee` of `VectorIndexer`.

### LocalQueue

`status`, `attempts`, `owner` are the columns. `visibleIn[t]` is `visible_at`
minus now, in ticks, which is all the code compares; `older` is the order of
`enqueued_at`. A worker is one `drain` loop: `phase` is where it is, `held` and
`heldAttempts` the `IndexTask` object in its hands. One action per SQL
statement, except that a claim is two: `Select` is the subquery and `Claim` (or
`LoseRace`) the outer `UPDATE`, because under READ COMMITTED another worker's
claim can land between them. `Ack`, `Nack` and `DeadLetter` match by id alone,
as the statements do, so a late settlement acts on whatever the row has become.
`Tick` obliges nobody to have sent a heartbeat, which covers suspension and
failing pings. History variables (`runs`, `silence`, `lapsed`, `overruled`,
`unserved`) are only read by properties. Left out: payloads, the read-only
`depth` and `outstanding`. `Contract` maps rows and claims to `WorkQueue`: a
pending or in-flight row is due, `attempts` capped at the limit is how often it
was handed out, and the object in the worker's hands is its verdict.

### NatsQueue

`main`, `delivered` and `root` are the messages of the main subject with their
delivery counts and the request each stands for; `dead` and `about` the letters;
`window` the ids the broker remembers. JetStream itself is external: a delivery
hides a message, `Lapse` is `ack_wait` running out although the worker lives,
`ExpireId` an id that leaves the duplicate window. `nack` on the last attempt is
two actions, `Bury` (the publish of the letter) and `Term`, and `requeue_dead`
three, `FetchLetter`, `Republish` and `AckLetter`, since the process can die
between any two of them (`Drop`, `DropReplay`). An ack or term of a message that
was delivered again settles it all the same (`SettleAs`), as the broker does.

### SourceLease

`rowOwner` and `rowAge` are the lease row, with the age of `heartbeat_at` in
heartbeat intervals. A lease is one `SourceLease` object, and `ownerOf` its
`host:pid`: two threads of a process share it, which the code allows and the
model keeps. `held`, `failures`, `due`, `suspended` describe the heartbeat
thread; `pc` and `fileHolder` follow `_source_write_lock`. `Tick` waits for
every heartbeat that is on schedule; members of `Faulty` may have failing
beats, failing releases, be suspended, or die.

### SourceLock

One file system call per action: `exists`, the read in `_lock_is_active`, the
`unlink`, the exclusive `open("x")`, the write of the payload and the final
`unlink`. The file records its creator, whether its payload is there yet and
whether the process it names runs. `Active` asks whether its creator runs, where
the code asks for any process of that pid: pids are taken not to come back.

### SyncRun

`row` is the source's `sync_runs` row; who wrote it and whether that run still
goes on (`current`) stand for the random run id. `LookBack` and `Register` are the
`SELECT` and the upsert of `__enter__`, separate because another run may write
between them where two overlap. `Checkpoint` is `checkpoint()` on the item loop's
thread, `Beat` the heartbeat thread, `RequestCancel` the guarded `UPDATE`, `Exit`
the `DELETE` with the run id, which may fail. `LockStep` is the lock's steps
before it yields. `overlapped` records the holds during which another contender
was inside; it and `asked` and `lost` are history.

### SyncPipeline

A content is a number that stands for its sha256, 0 for "not there". Four
functions of the file hold what each store has: `rows` (with `made`, the
configuration of the chunks), `saved` (the published graph), `manifest`,
`vectors`. `graph`, `dirty` and `pending` are in the engine's memory and
outlive a pass but not the process. `pc`, `run`, `todo`, `listed`, `unread`,
`entries`, `changed` and `item` are the pass's locals. An action ends wherever
one store has been written and the next has not, so `Fail` (an exception; the
engine lives on), `Crash` (memory is lost) and `Close` (the shutdown path, which
saves a dirty graph and not the manifest) can come between any two writes.

| Actions | Code |
|---|---|
| `Begin`, `BeginDeferred`, `BeginTask`, `Escalates`, `Resumes` | `sync_source` up to the manifest load; `_apply_index_task` and when a redelivered full task resumes as a delta |
| `List`, `ClearRows`, `Clear` | listing and `archived.admit`; a full pass empties rows at once and the graph in memory |
| `Skip`, `Unreadable`, `Commit` | `_prepare_item` and the commit loop |
| `NotDue`, `CheckpointGraph`, `CheckpointManifest`, `CheckpointFails` | `_maybe_checkpoint`, `checkpoint_graph` |
| `Embed`, `Store` | `index_artifact`; a background batch landing |
| `Prune`, `Flush`, `Enrich`, `SaveGraph`, `SaveManifest`, `Record` | `archived.prune`, `prune_vanished`, `_finalize_index_state`, fingerprint and scope |
| `Cancel`, `CancelFlush`, `CancelGraph`, `CancelManifest`, `Cancelled` | `cancellable`, `finish_cancelled` |
| `Remove`, `RemoveVectors`, `RemoveManifest`, `RemoveRows` | `remove_source`, `replace_source` |
| `BeginApply`, `Applied` | `archived.apply` |
| `Edit`, `Hold`, `Configure` | users: the source, its archive, its configuration |

Abstractions: reading is at the commit rather than ahead of it; the save of the
graph is one step (`GraphCommit` has its parts); a file has one
chunk per content and configuration; checkpoints may fall after any item (the
code counts items and seconds).

### GraphCommit

`nodes` and `edges` are the graph in memory, whose edges may dangle: `add_edge`
does not look at its ends, and the memory bridge links ids that it read from
other tables. `RemoveNodes` is asked only for nodes that its callers found in the
graph. `pendingNodes`, `removedNodes`,
`pendingPairs`, `removedPairs` what it owes the rows; `dirtyNodes`,
`droppedNodes` what it owes the index. `savedNodes` and `savedEdges` are the
rows; the folds and counts stand beside them as the code keeps them, by delta
and never recomputed. An XOR of digests is modelled as the symmetric difference
of sets of rows, so that folding a row in twice takes it out, which is the error
the code must avoid. `fresh` is a store without nodes, where `apply_delta` skips
the deletes; the node of the knowledge base itself, which is in every graph, is
left out. `index` has the ids of the node index, since `reconcile` compares ids
and no text. A save is `FlushIndex`, `ReadDelta`, `Apply`, `ClearDelta`,
`Publish`, one action each, with `FailApply` for the transaction and `Restart`
between any two. `Heal` is `reconcile` of one `Source`, whose ids alone it
compares: a run of the source calls it as it begins and at its end, and where it
fails, which it swallows, the save ends without it (`EndSave`). Its two reads and
its write are one step, and so is the transaction of `Apply` with the reads of the
digests before it: one process is taken to write the rows, for which locks per
source do not provide. `Overlap` says whether another thread may mutate
during a save: the engine's passes hold one mutex for both and never do.
`GraphStore` is the abstract view: `memory`, `disk` and `published` are whole
graphs, `Save` makes the memory the disk in one step, `Publish` labels it. A graph
there is any set of nodes and edges, ends included or not. The mapping takes nodes
and edges to a graph and the rows to another; the pending
sets, the delta in hand, the folds and the steps of a save disappear in it.

### WorkerPool

Each `with self._lock` is one action; the request lies between `Dispatch` and
`Answer`. `todo` and `turn` are the list `_order` made, which a caller walks
while breakers change under it; `age` is the time since `opened_at`. `Flip`
takes an endpoint down or up at any time. An endpoint that is up answers within
the time a request has; a call's deadline passes only while it waits.

### JobRegistry

`status`, `order`, `listed` are the `Job` objects, `_order` and the keys of
`_jobs` per process; `snapshot` the files. `Evicted` is `_evict`'s walk over
`_order` as the set of positions it takes: terminal entries that are `Removable`
and old enough for the excess to reach them. A payload is rendered under the
registry's lock and written after it, hence `out` and two steps; a heartbeat that
lists a `Job` whose id was meanwhile cleared and started again renders the old
object (`former`, `HeldStatus`); the heartbeat
thread goes round in the steps `BeatStart`, `BeatRender`, `BeatWrite`, `Reap`,
`BeatEnd`. `Tick` waits for the heartbeats of processes on schedule; members of
`Faulty` may stall, die and fail to write. A process has one running job, the one
`drain` works on, although requests may start others beside it. `os.replace` and
the eviction of snapshots after it are one step (`Write`), and so are what a clear
removes of the registry and its read of the snapshots (`Clear`).

### Orchestrator

`election` is where the election thread is in `_promote` or `_demote`, `startup`
the promotion thread, `gate` the `sync_lock`, `stopped` the stop events that are
set. Each service gets a new thread at each promotion, and `thread` has all of
them: `stop()` joins for ten seconds only, so a thread may live into the next
leadership, where it reads the stop event the new `start()` has cleared.
`Joined` bounds how many do. `pending` is the entry of the one watched source, a
pair of times that the code only compares with two intervals: `Quieten` and `Age`
are those intervals running out. `timed` are the dispatch threads that computed
a timeout before they wait on `_wake`. `Enter`, `Leave` are `with sync_lock`;
what happens inside is one label, `drain` or `sync`, since the other modules
have it. Left out: tasks of the queue (a drainer claims until it finds none),
the poll interval, an observer that cannot start (its error would end the
election thread), the shutdown of the process.

### VectorIndexer

`pending`, `outstanding`, `seq`, `inflight` and `error` are the fields of that
name. An action is one region under the condition or the store lock; the
provider's round trip is what lies between `Submit` and `BgStore`, or between
`FlushTakes` and `FlushStore`. A thread in `asleep` waits on the condition, and
only a `notify_all` wakes it: an action that notifies empties `asleep`, and
one that does not leaves it. A call of `index_artifact` brings any nonempty set of
up to `PerArtifact` chunks, which are all queued before `queue_size` is looked at
once (`Index`, `Queue`). `bg` is the background thread. `queued` and `due` are
history.

## The runs

All runs finish within a few minutes on two workers. The bounds are those of the
`.cfg`, and why they suffice is said below.

| Run | Instance | Properties | What it shows |
|---|---|---|---|
| `queue` | 2 tasks, 2 workers, 2 attempts, visibility 1, 1 crash, 1 requeue | ExclusiveClaims, KeepsContract, EventuallySettled | two loops race for two rows through lapses, late settlements, requeue and purge; the table keeps the contract; a due task is settled |
| `nats` | 2 messages, 3 letters, 2 workers, 2 attempts, 2 deaths, 1 lapse, 1 expiry | NothingLost, BuriedIsNotRun, KeepsContract, EventuallyLeaves | redelivery to a second worker, burials and replays that die half-way; the broker backend keeps the same contract |
| `lease_safety` | 3 processes on 2 hosts, two of them faulty, stale after 4 beats, 3 failures | LeaseExclusion, LiveRowIsSafe, AbandonedRowYields | exclusion of holders on schedule, no live row removed, takeover |
| `source_runs` | 3 contenders, 1 killed, 2 callers | CreateExcludes, LeftoverCleared, FirstAskerStops, KilledRunIsNoticed, OnlyItsRunClearsTheRow, AskedRunStops | the exclusive create and leftovers; a request stops its run and no other, also where two runs overlap |
| `pipeline_incremental` | 2 files, 2 edits, 1 fault; incremental, repair and deferred passes, archived documents | SkipIsSafe, Converges, ArchivedLeaves | passes that keep what is indexed never hide damage and catch up; what is held out leaves |
| `pipeline_wide` | 2 files, 2 configurations, every operation, archive, 1 edit, 2 faults | FullPassAgrees, RepairHeals, CancelKeepsWork, ResumeIsSound | every kind of pass mixed: full, repaired, cancelled and resumed |
| `pipeline_killed_full` | 2 files, 1 fault | HealthyIsComplete, **violated** | see below |
| `indexer_safety` | 2 syncs of 2 chunks each, alone or together in a call; queue of 2, 3 calls that queue something, 1 provider failure | FlushGuarantee, NothingLandsLate, PendingBounded, SubmitEnds | the indexer's promises, and by how much an artifact queued whole exceeds the queue |
| `graph` | 2 nodes of 2 contents, each of a source of its own, 2 parallel edges; no overlap | OwesWhatDiffers, AggregatesExact, StoresWholeGraphs, IndexHeals | the rows are always one graph that was in memory, never a mixture of two, through saves that fail or die between any two statements, edges without ends, lost index flushes, failed reconciles and restarts |
| `jobs` | 2 processes, one faulty; 2 jobs, one shared id; 1 record kept | RunningIsListed, RunningJobShows, OrphanEnds | eviction, reaping and clearing never hide a running job; an orphan ends |
| `worker_pool` | 2 endpoints that come and go, 2 callers, threshold 2, 2 attempts | StaleDispatchesBounded, HealthyAnswers, RecoveredIsUsed | breakers, probes and failover of callers that hold stale lists |
| `orchestrator` | 2 promotions, 1 thread that outlives a stop | GateShared, ChangeIsServed, DemotedRests | producers of two leaderships and startup reconciles take turns; recorded changes are taken; a demoted process rests |

**Why these bounds.** Two workers are needed for a race and one crash for a
redelivery; a second attempt, and one requeue, exercise both comparisons with
`max_attempts` and what requeueing resets. One tick of visibility is enough for
a lapse; `Entitled` (below) covers longer periods. Two messages of the broker
are two requests or a request and its replay, three letters a burial of each and
a second burial of one after its id was forgotten; two deaths kill a burial and
the replay that follows. Three lease contenders are a holder, the successor that
took over from it, and a third that arrives while the old one releases late; 45
s over 10 s beats is a staleness of 4, and the code gives up after 3 failures.
In the pipeline a defect needs a pass that is cut short, a change of the source,
and a pass that believes what the first one left: two files give a loop that is
cut short between items, the wide run has a second fault and the incremental run
a second edit to spare. Three calls of the indexer
are a batch in flight, an artifact that fills the queue and waits for the slot, and
one more beside it or after a reset; an artifact of two fills the queue at once, or
overfills it where one chunk is there already. Runs overlap with
two contenders and a third takes a leftover; of two callers one is first and the
other late. Two nodes and parallel edges of one pair are what distinguishes an
edge that is reached as a replaced pair, at a removed endpoint, or both. Two
jobs under one id in two processes, and a registry that keeps one record, evict
a job that runs again under the id of a finished one. Two promotions, and one
thread that outlives the stop between them, are what it takes to have two
threads of one service. Two endpoints and two attempts are the largest fleet
`HealthyAnswers` promises anything for, and two callers are what it takes to
hold a list while the other trips a breaker. Where a theorem below states the
same property, the bounds do not matter.

`MaxCrashes`, `MaxRequeues`, `MaxEdits`, `MaxFaults`, `MaxSeq`, the
`MaxFailures` of the indexer, `MaxDrops`, `MaxLapses`, `MaxExpiries`, `Message`,
`Letter`, `MaxCreates`, `MaxPromotions`, `MaxStragglers` and `ids` are bounds of
the models and nothing in the code; time needs none, since ages saturate.
`CHECK_DEADLOCK FALSE` stands in `LocalQueue_full` and `NatsQueue_full`, where
all tasks are dead with the requeues or letters of the bound used up, in
`GraphCommit_serial`, where nobody has to change the graph, and in
`Orchestrator_fleet`, where a process that was demoted for the last time rests.
`Reverts = FALSE` (a content does not come back after it was replaced) is needed
by `SkipIsSafe` and `ResumeIsSound`, whose statements say so: a manifest entry
of an old content matches again when that content comes back after an
interrupted pass. In `pipeline_wide`, with its one edit, no content could come
back in any case.

**Fairness.** Weak, but for `Orchestrator`. `LocalQueue`: a polling loop claims, a
handler returns, a settlement is written and the clock runs; nothing is assumed
of keepalives, publishers or operators. `NatsQueue`: the same for its loops, and
`ack_wait` runs out; nothing of the replay. `SourceLease`: the clock, beats (that
succeed or fail), syncs that end, and acquisition only by processes that are not
`Faulty`. `SyncRun`: contenders go on, a run polls its row, an ended one lets go
and a silent row ages; a sync need not end by itself, which is what makes
`AskedRunStops` say something. `SyncPipeline`: a pass that runs goes on, and the
scheduler begins another, of any kind the instance allows (`WF_vars(BeginAny)`:
no particular mode is promised). `VectorIndexer`: a runnable thread runs and the
provider answers, well or badly; a thread asleep on the condition is not
runnable, so fairness never wakes it. `JobRegistry`: the clock, and the
heartbeats and writes of processes that are not `Faulty`. `WorkerPool`: callers
and the clock go on; endpoints owe nothing, and batches need not come, which is
why `RecoveredIsUsed` has both as premises. `Orchestrator`: syncs end and time
passes, the lease is neither won nor lost by fairness; `sync_lock` is a
`threading.Lock`, whose waiters are woken at each release without an order, so
that a thread which waits while the lock is freed again and again is taken to get
it (strong fairness), and so is a thread that waits for an event which is set
again and again, since `set()` wakes its waiters whoever clears it. A drainer is
taken to find the queue empty at last: while others publish without end it keeps
the gate, and no beat, no watched change and no startup reconcile gets it.

## The proofs

The theorems, checked by TLAPS, hold for every value of the constants that
meets the `ASSUME` of the module: any number of tasks, workers, leases, files,
threads, nodes, callers, edits and faults. `PROJECT.json` lists them. Each
invariant is reached by a strengthening; each `TypeCorrect` is the module's own.

* **LocalQueueProofs.** `TypeCorrect`. `ClaimsAreExclusive` from `Entitled`: the
  row of a sound claim is in flight, records its worker, and stays invisible at
  least until the worker has been silent for the whole period
  (`visibleIn + silence >= Visibility`). So no other claim statement matches the
  row; and a settlement either comes from the row's owner or is stale and strips
  the other claims of their soundness. `ExclusiveClaims` alone is not inductive:
  it says nothing of the row. `RunsAreBounded` from `RunsCounted`: a run is
  counted by the claim that starts it, and attempts fall only where runs do.
  `ImplementsContract` maps every statement to a step of `WorkQueue` or a
  stutter; the types suffice, since the contract leaves ownership open.
* **FleetProofs.** Of `SourceLease`: `TypeCorrect`; `LeasesExclude`, assuming
  that owner strings are distinct (`Injective`) and `MaxFailures <= StaleAfter`,
  from `OnSchedule`: a lease held on schedule owns the row, whose age is at most
  the failed beats, plus one while a beat is due; `LiveRowsAreSafe`, for any
  owner strings, as an action property. Of `Orchestrator`: `FleetTypeCorrect`,
  and `GateIsShared` from `GateHeld`, which names the gate's holder: the thread
  that works, or the startup reconcile. It holds for any number of stragglers
  and promotions, since a thread that outlives its leadership still frees only
  what it holds. `GateIsNotLeaked` is the converse: whoever holds the gate works
  behind it, so that it is free once nothing runs, which is the safety half of
  `DemotedRests`. It needs `Unborn`: `start()` never replaces a thread that is
  at work, since each promotion makes threads of its own.
* **SyncPipelineProofs.** `TypeCorrect`. `FullPassesAgree` and `CancelsKeepWork`
  from `FullInv`, in four parts: once a full pass has emptied the source, rows,
  working graph and entries move together (`InStep`); each row has its chunk
  stored, queued or about to be (`Embedding`); the flush empties the queue and
  the prune leaves no other chunk (`Embedded`); graph and manifest are saved as
  they then stand (`Published`). `RepairsHeal` from `RepairInv`, which tracks
  the items a repair has already handled. `SkipsAreSafe` and `ResumesAreSound`,
  assuming `~Reverts`, from `ClaimsInv`, one invariant for both. Where the
  source was never emptied (`KeepsIndexed`: the passes and the one configuration
  of `pipeline_incremental`), or since a full pass that emptied it has
  checkpointed (`Interrupted`), an entry of the manifest that matches the disk
  speaks of a row and of a published node, and one of the pass under way of a
  row and of a node of the working graph (`Sound`). To stay so it needs: no
  store remembers a content newer than the newest edit, so the next edit matches
  none (`Bounded`, where `~Reverts` enters); the graph is saved before the
  entries that speak of it (`SavesInOrder`); what a listing lacks has no entry
  for its current content (`Unlisted`), so that pruning it takes nothing away;
  which passes run between the interruption and the resumption (`Regime`,
  `ListedKept`); and what the resumption has already handled (`Handled`).
  `SkipIsSafe` alone says nothing of the entries a pass still has in memory,
  `ResumeIsSound` nothing until the last step.
* **VectorIndexerProofs.** `TypeCorrect`. `FlushesKeepTheirPromise` from
  `Tracked`: a chunk that was queued is stored or has an item outstanding, and
  an item leaves `outstanding` only after the chunk's upsert. `ResetsAreClean`
  from `Sourced` (everything on its way was queued since the reset) and `Alone`
  (a reset has the indexer to itself). `PendingStaysBounded`, for a finite set
  of threads, from `Bounded`: while the provider has not failed, a queue less
  one, plus a whole artifact of each thread that waits for room (`Waiting`), is
  the most that is pending, and the most that is in flight (`QueueBound`). The
  docstring's two queues are less (`BoundedAtTwoQueues`, below).
  `NoWakeUpIsLost`, the safety half of `SubmitEnds`: a thread that waits on the
  condition waits for something that is still to come, a batch in flight or an
  item that is not stored; and as long as the provider has not failed, that item
  is in somebody's batch. From `Awaited`, with items numbered in turn
  (`Numbered`), so that a new item is nobody's yet. The premise about failures
  is what `FlushEnds` (below) is refuted without.
* **NatsQueueProofs.** `BuriedStaysBuried` from `Counted`: a letter is about a
  message with no attempt left, and the broker's count never falls.
  `RequestsSurvive` from `Inherited`. `NothingLost` says nothing of who took over
  a request, so it is strengthened to: a message goes only when it was served or
  has a letter, a letter only when its request was published anew, and what is
  published anew has a *higher number* (`Kept(r, j)`), so the chain of heirs
  ends. The duplicate window is part of it: a publish that is dropped was made
  before, and its heir is there. `ImplementsContract` uses `Counted` to map the
  claim's check on the delivery count and `nack`'s on the attempts to one.
* **GraphCommitProofs.** `NothingUnowed`, `IndexIsHealed`,
  `AggregatesStayExact`, assuming `~Overlap`, from `Owing` (what the pending
  sets say of the graph they were collected from), `Saving` (the delta of a save
  is that of the graph as it still is, and once applied the rows are the graph)
  and `FreshIsEmpty` (a store that skips the deletes has no row to delete). None
  of it asks for the ends of an edge. `IndexIsHealed` is about each source by
  itself, and about a reconcile that follows a save and succeeds: its rows are
  then the graph, because of `Saving`. The aggregates need that a save takes
  each old row out once. `ImplementsStore` is the refinement of `GraphStore`,
  step by step (`StoreStep`): a mutation is `Change`, `Apply` is `Save` because
  of `Saving`, and every other step, `FailApply` and `Restart` among them,
  leaves the disk alone. So the rows are at every moment one graph that was in
  memory, its dangling edges included, and never what is left of another.
  `TypeCorrect` needs no assumption on `Overlap`.
* **RecordProofs.** Of `SyncRun`: `TypeCorrect`; `CreatesExclude` (of
  `SourceLock`, under the steps of `SyncRun`) from `HoldsFile`: who is inside
  and was not evicted finds its file at the path. `FirstAskersStop` from
  `Asked`: what a current run was asked is what its row says.
  `KilledRunsAreNoticed` from `Noticed`: two inside are both known to overlap,
  so that no registration is in progress when a run is killed alone.
  `RowsAreTheirRuns` as an action property from the types. Of `JobRegistry`:
  `RunningJobsShow`, for any processes, jobs, record cap and staleness of at
  least one heartbeat, from `RegistryInv`. A job that was never started left no
  trace anywhere (`Unborn`) and a process runs one job (`OneAtATime`), so a job
  that is started for the first time is this process's alone (`Lone`). From then
  on its snapshot is at most one interval old, and of age 0 once the heartbeat
  has come round (`Fresh`): too young for a reaper, and reading as active, so no
  eviction and no clear takes it. `WriteKeeps` is the lemma about `_evict` of
  the snapshots: it drops only what reads as done. `RunningJobsAreListed` is
  about the registry itself, whose `_order` may have an id twice. From `Placed`
  (a listed job stands in `_order`), `Kept` (a running job is listed) and
  `WrittenOnly` (only a job that was started has a snapshot to be listed from):
  `EvictionSpares` says that the eviction takes terminal entries only,
  `EntriesKept` that the entries which stay keep their order, and
  `Ranks` numbers the entries that stay, which replaces an induction over the
  sequence. `JobTypeCorrect` rests on the same lemmas: what is left of `_order`
  is a sequence again.
* **WorkerPoolProofs.** `SlotsAreFreed`. `WasteIsBounded` from an injection
  (`WasteInv`): each request wasted on a tripped endpoint was some caller's that
  had listed it before and does not list it now, hence fewer than callers.
  `HealthyFleetsAnswer` from `HealthInv`: an endpoint that stayed healthy is
  still among a caller's candidates, unless it is the one being asked; in a fleet
  no larger than the attempts the candidates run out first.

Only model-checked: the liveness properties (`EventuallySettled`,
`EventuallyLeaves`, `AbandonedRowYields`, `LeftoverCleared`, `AskedRunStops`,
`Converges`, `ArchivedLeaves`, `SubmitEnds`, `OrphanEnds`, `RecoveredIsUsed`,
`ChangeIsServed`, `DemotedRests`), which need fairness and are out of the
prover's reach. Every invariant and every action property of a run is proved,
and the three refinements. `RunsAreBounded`, `SlotsAreFreed`, `GateIsNotLeaked`,
`NoWakeUpIsLost` and the theorems on types are about formulas no run carries:
the first follows from `KeepsContract`, the second shows in `RecoveredIsUsed`
when it fails, and the next two are what `DemotedRests` and `SubmitEnds` rest
on.

Assumptions a proof rests on beside the modules' own: `VectorIndexer` takes it
that a reset does not overlap other calls (`Calls`, `Reset`), as its callers
`reconcile_embeddings` and `rebuild_vectors` arrange; `~Overlap` of `GraphCommit`
is what `_sync_mutex` ensures for passes, and what memory maintenance does not
keep (below). Nothing but the deployment keeps a second process from saving at the
same time, since the locks of writers are per source (`sync/locks.py:288-289`). That a
lock file left behind is cleared rests on pids that do not come back.

## Disagreements found

One run ends in a counterexample to something the repository says; the section
after this one lists what else TLC refutes.

* **`pipeline_killed_full`.** `src/tests/test_crash_safety.py:143-144` and
  `src/docs/how-to/indexing-performance.md:196-198` promise convergence after a
  kill. A full pass deletes the rows in the database at once; the persisted
  manifest is replaced only by a checkpoint. Killed in between, an incremental
  pass compares shas with the old manifest, skips everything and ends healthy
  over an empty source. A repair or a full pass does recover it.

## Statements the code does not keep

These formulas translate further statements of comments, docs or tests. They
stand in their module beside the properties that hold, TLC refutes each on the
instance given, and no run carries them. To see the trace, write a `.cfg` with
these values (others as in the module's run), with the formula as its INVARIANT
or PROPERTY.

| Formula | Statement | Instance | What happens |
|---|---|---|---|
| `LocalQueue!OnlySilenceLosesAClaim` | "the value bounds *silence*, not work" | 1 task, 2 workers, 2 attempts, visibility 2, no crash, 1 requeue | a worker that settles late (`queue.py:353`) changes the row under its successor, which a third claim can then take |
| `LocalQueue!ArmedTaskIsServed` | "a done row is re-armed" | the same | a late ack completes the re-armed row before it ran |
| `LocalQueue!DeadStaysDead` | "a dead row stays dead" | the same | a late ack or nack revives it |
| `SourceLock!ExcludesThreads` | "it excludes two *threads* of one process" (`engine.py:2429`) | 2 contenders, no crash | the file exists before its payload (`locks.py:91`); a thread that reads it in between takes it for a leftover and unlinks it |
| `SourceLease!NeverBothCommit` | "two indexers can never both commit" a source (`sync/locks.py:288-291`) | `ownerOf <- SharedOwner`, `hostOf <- OwnHost`, `Faulty = {}`: two threads of one process and a process elsewhere | thread B acquires ("already ours"), times out on the lock file and releases: the `DELETE` matches the owner string it shares with A, which is writing; a process elsewhere takes the free row |
| `SyncPipeline!RowsAreEmbedded` | no "chunks no incremental sync ever re-embeds" (`search/vector_indexer.py:55-57`) | incremental; no edit, 1 fault | the checkpoint comes after an item's commit and before its chunks are queued |
| `VectorIndexer!FlushEnds` | a flush waits for what another thread has in flight (`search/vector_indexer.py:154-156`) | queue of 4, 2 items, 1 failure; `FairSpec` | a flush that fails puts the batch back and raises without `notify_all` (`:179`): the thread that waits for it sleeps on, although it could embed the chunks |
| `VectorIndexer!BoundedAtTwoQueues` | "pending text stays bounded at two queues" (`search/vector_indexer.py:44-45`) | `MaxFailures = 0` | a call appends an artifact's chunks and then looks at the size once (`:137`): with one chunk there, a thread adds two and is about to submit them when another adds two more |
| `GraphCommit!NoDanglingRows` | "a dangling edge would show up in a traversal as a neighbour with no attributes" (`apply_delta`, avoided) | as `graph` | removed nodes take their edges along, but an edge whose end is not in the graph is added (`graph/simple.py:152-159`, `graph/builder.py:321-345`) and saved with the rest |
| `GraphCommit!OwesWhatDiffers` | "a delta claimed and then lost to a crashed commit is a node that never reaches disk" (avoided) | `Overlap = TRUE` | a node changed between `graph_delta` and `clear_graph_delta` is dropped from the pending set (`graph/simple.py:516`). Passes exclude it by `_sync_mutex`; memory maintenance (`memory/maintenance.py:170`, `compaction.py:324`, `synthesis.py:306`) and `close()` (`sync/engine.py:327`) do not take it |
| `JobRegistry!TerminalIsFinal` | "A job in any of these will never change again" | as `jobs` | the heartbeat renders a payload "running" and releases the lock; the job finishes and writes "succeeded"; the heartbeat then writes what it rendered (`jobs.py:763-780`), and other processes see the job running until its file is stale and it is reaped as failed |
| `Orchestrator!DemotedClaimsNothing` | `_demote` stops claims first, which "prevents a demoted leader from beginning another queued source" | as `orchestrator` | `drain` looks at no stop event: a drainer that waited for the gate enters it after the demotion, and one that is in it goes on while there are tasks |
| `Orchestrator!DrainerServes` | `_QueueDrainer` claims "for as long as this process serves" | the same | an error of `claim`, `ack` or `nack` ends the thread (`cli.py:637`), and nothing starts another before the next promotion |
| `WorkerPool!OneProbeAtATime` | "a tripped endpoint admits one probe at a time" | as `worker_pool` | two callers list the cooled endpoint before either dispatches, and `_probe` takes the slot without looking at it |
| `SyncPipeline!DeletedIsGone` | a path the manifest has and the listing lacks is removed (`vanished.py`) | modes incremental; 1 edit, 1 fault | a crash after a commit leaves a row the manifest does not know; the file is then deleted and never pruned |
| `SyncPipeline!LinksArePublished` | the next pass "runs enrichment and clears the flag, even if that pass itself finds nothing new" | incremental, deferred; no edit, no fault | it links and clears the flag, but `engine.py:1741` saves the graph only if the pass changed something |
| `SyncPipeline!ConfigApplied` | a config edit re-indexes | incremental, task; 2 configurations, 1 edit, 2 faults | an interrupted or resumed pass has no fingerprint of its own (`engine.py:1960`), so rows of the old configuration are skipped and the new one is recorded |
| `SyncPipeline!RemovedIsGone` | vectors are pruned after publication | incremental, remove; no edit, 1 fault | `engine.py:1869` prunes and then flushes what an earlier pass left pending |
| `SyncPipeline!NodesLandWithRows` | graph and chunks "land in one transaction" (`graph_rows.py:36`) | incremental; no edit, 1 fault | rows are committed per artifact, the graph at a checkpoint |
| `SyncPipeline!HealthyIsComplete` | "the next sync reads them again" (`archive.remove`) | incremental; archived documents, 2 edits, 1 fault | `archived.prune` deletes rows before the manifest entry is gone; killed in between, a reinstated document is skipped |

`ResumeIsSound` has the premise `~crossed`. A checkpoint of any other pass, too,
moves the scope to "checkpointed" (`engine.py:366`), so a task redelivered after
an incremental pass, a removal, or a change of the archive came in between, or
one that finds the scope of a full pass that was not a task, skips what nobody
committed since the rows were emptied. The history variable `crossed` records
that. It also has the premise that contents do not come back: with `Reverts =
TRUE`, one file, tasks only, two edits and two faults, a resumption that fails
leaves a row newer than the manifest, the edit is reverted, the old entry
matches, and the next resumption skips the file over the row of the content that
is gone. `archived` records which files were ever held out, of which
`SkipIsSafe` and `Converges` say nothing, for the reason in the last row above.

Seen while modelling, and outside what the modules state: `prune_vanished` gets
the admitted listing, so a source all of whose files are archived looks empty
and its deletions are not pruned (`sync/vanished.py:60`, `sync/archived.py:79`);
a promotion that comes while the last startup reconcile still runs does none of
its own, and a promotion that waited for the gate starts its services without
looking at the lease again (`cli.py:331`); a run that is killed before its row
could be written goes unnoticed, and a failed `DELETE` in `__exit__` leaves a
row that accepts requests until it is stale; a process that stalls is reaped as
failed and, awake again, rewrites its snapshot as running; `finish()` has no
guard against a job that is terminal already, and a job's id stands in `_order`
once per run (`jobs.py:451`); `recompute_folds` leaves existing counts as they
are (its `ON CONFLICT` sets the folds only); a crash between `apply_delta` and
`publish` leaves the old generation label over the new rows until the next save;
the `EngineLease` of SQLite reads and then writes its file
(`sync/locks.py:193`).

## What is not modelled

Status, sync events, snapshots, retention and the Synapse publication are
reporting or derived from what the pass stores. Search, retrieval, graph
queries, the HTTP API, the MCP server and the assistant read or forward.
Evaluation, tuning, readiness, telemetry and configuration run beside the
system. Security decisions are functions of a request; the sandbox is an
external engine. SQL databases, vector stores and the JetStream broker are taken
as what their documentation says.

Of the modelled parts: what the builder, the enrichment and the extraction
compute from a corpus; the graph's file backend, its adjacency and type counts;
the full rebuild of the node index; progress figures and subscribers of jobs;
wire formats and pacing of the workers. `PROJECT.json` gives each component's
reason.

The modules translate the indexing core, a small part of the lines of the
repository; most of the others are request handling, prompts, measurement and
configuration, without the state and the interleavings that a model checker
sees better than a test does.

## The plan

Done, in this order: queue, locks, pipeline and indexer, whose failure loses or
corrupts an index; then the queue's contract with both backends as refinements,
the run records over the lock, the graph and its rows, the jobs, the worker
pool, and the election with its services. Next:

1. `EngineLease`, the whole-state lease of SQLite deployments, as a third user
   of the contract `LeaseExclusion` states.
2. `GraphCommit` under `Overlap` with the mutex made explicit, so that the
   maintenance threads are actors and the passes' exclusion is derived.
3. `reconcile_embeddings` and `rebuild_vectors`, which `VectorIndexer` has only
   as the callers of `Reset`.
4. Composition of queue, lock and pipeline: a task redelivered while its first
   worker still runs meets the lock.

Proofs to come: the refinement of `SyncPipeline`'s save by `GraphCommit`, and of
an abstract exclusive lock by `SourceLease` on schedule.

## Reproducing

Run from this directory:

    tlc -workers 2 -config LocalQueue_full.cfg MCLocalQueue
    tlapm SyncPipelineProofs.tla

`PROJECT.json` names the module of each run. Every definition that models code
is listed there under `map` with its lines. An operator that stands directly
before a definition and resembles it (`ClaimableWhileInvisible` before
`Claimable`) is a plausible bug: put in place of the definition it makes the
property it is listed with fail, which is how we know that the property looks at
the code.
