# TLA+ models of the code indexer server

The code indexer keeps semantic indexes of git repositories and answers
searches over them. It runs as a command-line tool, as a local daemon, and as a
server, alone or as a cluster of nodes that share a PostgreSQL database and a
file system. These modules model the parts of the server where several threads,
processes or nodes meet on shared state. TLC checks small instances, and TLAPS
proves the safety properties of all eight components for all instances.
`PROJECT.json` holds the machine-readable side: components, runs, the map from
definitions to source lines, mutants, hazards, findings and theorems.

## The system and what is modelled

| Part of the system | Source (under `src/src/code_indexer/`) | Modules |
|---|---|---|
| Provider concurrency governor: limiter, AIMD control, `execute` | `server/services/{resizable_limiter,aimd_controller,provider_concurrency_governor}.py` | `ProviderGovernor` |
| Embedding coalescer: query embedding cache, single flight, batches, retries | `server/services/embedding_coalescer.py` and what it calls | `Coalescer`, abstract `EmbeddingService` |
| Index caches of a search | `server/cache/{hnsw_index_cache,id_index_cache}.py`, the places that publish an index and evict | `IndexCache` |
| Snapshot lifecycle: alias file, query references, retention, cleanup thread, the four jobs that publish a snapshot | `global_repos/{alias_manager,query_tracker,cleanup_manager,refresh_scheduler}.py`, parts of `snapshot_manager.py`, `golden_repo_manager.py` and the search handlers | `SnapshotLifecycle` |
| Write lock of a repository | `global_repos/write_lock_manager.py` | `WriteLock`, abstract `RepoLock` |
| Local job pool and tracker | `server/repositories/background_jobs.py`, `server/services/job_tracker.py` | `JobPool` |
| Pod-pull jobs of a cluster: claim, heartbeat, reconciliation | `server/services/{distributed_job_claimer,index_job_claim_loop,job_reconciliation_service,node_heartbeat_service}.py` | `ClusterJobs` |
| Leader election and the services only the leader runs | `server/services/leader_election_service.py`, `server/startup/lifespan.py`, start and stop of the two services | `LeaderElection` |
| Indexing pipeline, vector store, daemon, CLI, API, analyses | `services/`, `storage/`, `daemon/`, ... | not modelled (see the end) |

How the parts meet. A job is admitted and executed by `JobPool` on one node, or
claimed by some node under `ClusterJobs`, whose sweep runs on the node that
`LeaderElection` elects. A job that publishes asks for or takes the write lock
(`WriteLock`), copies a snapshot and repoints the alias (`SnapshotLifecycle`),
and then evicts index caches (`IndexCache`). A search resolves the alias, embeds
its text through the coalescer (`Coalescer`) and the governor
(`ProviderGovernor`), and loads its indexes through the caches. Two compositions
are by refinement: `WriteLock` implements `RepoLock`, which is the lock
`SnapshotLifecycle` uses, and `Coalescer` implements `EmbeddingService`.

For a component `X`, `X.tla` is the specification, `MCX.tla` and the `.cfg`
files are its instances for TLC, and `XProofs.tla` holds its theorems. In all of
them a program counter names the place of a thread in the source; a critical
section, a system call or an SQL statement is one step; and calls that block end
a step.

## ProviderGovernor

One lane; lanes share no state. `Condition.wait` splits `acquire`, so a thread
is `idle`, `parked` in the waiter queue, `expired` (its wait timed out but it
has not got the lock back, and a notify can still pick it), `woken`, `calling`
or `recorded` (the outcome reached the AIMD controller, the slot is not yet
free). `Acquire`, `Recheck`, `FnReturns` and `Release` are the code of
`acquire`, its loop after a wait, `record` and the `finally` clause;
`DeadlinePasses`, `Expire` and `CooldownEnds` are time. The success run
saturates at its threshold, beyond which its length is never read.

* `SlotsAccounted`: `in_flight` is the number of threads that hold a slot, on every path.
* `NoLostWakeup`: while anyone is queued, every free slot has a woken thread on its way. `release` notifies one thread only.
* `ExcessOnlyDrains`: after a shrink nobody is admitted until the excess is gone.
* `AcquireReturns`: acquire ends by a slot or by its deadline, even if no provider call ever returns. Fairness: the clock, the end of a timed wait, and the lock being granted to a waiter.

Run `governor`: four threads, limit 1..3, so that queues, shrinking under load
and expiry racing a notify all occur (35 thousand states).

Proved for every number of threads and every configuration: `TypeCorrect`,
`SlotsAreAccounted`, `NoWakeupIsLost`, `ShrinkOnlyDrains`. The inductive
invariant is types, `SlotsAccounted`, `NoLostWakeup` and `LimitFollowsK` (the
limiter's limit and the AIMD target never drift apart). `NoLostWakeup` needs
`SlotsAccounted`, because taking a slot must lower the free slots by one when it
lowers the woken threads by one.

## Coalescer and EmbeddingService

One lane of `EmbeddingCoalescer`. A text is a sequence of tokens and stands for
its own vector; `BuildKey` keeps the leading tokens and sorts the rest, so that
two texts can share a key, and a text over the cap has none. A request reads the
live cache mode, owns its key or joins the owner (`Submit`), looks the cache up
(`Hit`, `Miss`), enters the open batch or starts one (`EnqueueJoin`,
`EnqueueNew`, with the ceiling read anew each time), and the dispatcher acquires
a slot, is rate limited, fails, or fans the vectors out, writes the cache and
completes its future. `EmbeddingService` is what a caller relies on: one answer,
which is the vector of a text with the same key, or an error.

* `SingleFlight`: a key in flight belongs to one request that works on it. The one exception is an owner whose token count raised (`CountFails`): that call is outside of every `try` block, so the key stays in the registry, although the docstring of `submit` has every exit of an owner resolve it. The model marks such an owner (`Raised`), and no other exit is excused.
* `DispatcherAtWork`: whoever waits for a batch is a member of one that is still to be fanned out.
* `BatchFits`, `MembersFixed`: a batch keeps the provider's limits, and nobody attaches to it once it was sent, through every retry.
* `Implements`: the coalescer implements `EmbeddingService`. Nobody gets the vector of another key, and nobody is answered twice.
* `Answered`: every request is answered in the end. Fairness: some thread inside `submit` goes on, since locks are short and all waiting is bounded by timeouts.

Run `coalescer`: three requests, three texts (two with one key, one without),
two texts or seven tokens per call, one slot, one retry. The modes "off" and
"shadow" add nothing to "bypass" and "on" (762 thousand states).

Proved for any number of requests and retries, all sets of texts and modes and
every limit: `TypeCorrect`, `OneFlightPerKey`, `NobodyIsLost`, `BatchesFit`,
`SentBatchesAreFixed` and the refinement `CoalescerImplementsService`. They
share one inductive invariant, `IInv`. It says which local variables a request
has set at each place (`CallOK`), that a joiner waits for a request with its own
key (`JoinOK`), and that what a member got is an error or the vector of its key
(`FutOK`). Until its fan-out a batch contains its dispatcher, all other members
wait (`BatchOK`), and no request is in two such batches (`Apart`), so a fan-out
reaches everybody who waits for it and nobody else. Only a batch that was never
sent is open, and `_open_tokens` is the sum of its members' tokens (`OpenOK`);
this carries `BatchFits` and `MembersFixed`. A cached vector belongs to its key
(`CacheOK`). An action moves one request (`LocalStep`), or a set of requests that
contains or avoids each batch as a whole (`Group`): an owner with its joiners, or
the members of a batch. That appending a member adds its tokens is an induction
over a sequence, done as in `IndexCacheProofs`.

`EveryStepLeadsOn` is the part of `Answered` that is safety: no step takes a
request back, and each brings one nearer to its return, by a measure that counts
the attempts left. A behaviour therefore has finitely many steps, whatever the
provider does. That a step is always possible while somebody waits is checked by
TLC (deadlock, `Answered`). The assumptions are that texts are sequences of
numbers, that limits and the number of requests are natural numbers, and that
`None` and `Failed` are distinct, neither is a text, and `None` is no request.
The proofs use keys only through equality, so they hold for any `build_key`.

## IndexCache

A search asks `HNSWIndexCache` and then `IdIndexCache`. Each
`with self._cache_lock` block is a step; the loader, the stat of the index file
and `event.set()` are steps outside of the lock. `Miss` plants the sentinel or
waits on its Event; `LoadHnsw`, `LoadIds` and `LoadRaises` are the loader;
`Store` inserts and enforces the cap; `Pop` and `SetEvent` are the `finally`
clause. A clone is re-indexed in place (`PublishBin`, `PublishIds`, and evicted
by `EvictHnsw`, `EvictIds`), a snapshot is swapped out (`SwapOut`,
`EvictSwapped`). `Expire`, `Sweep` and `EvictLru` are the TTL, the cleanup
thread and the memory governor. A file is the version it holds, and its mtime is
that version. A cache is a sequence of entries in the order of their last access.

* `OneLoader`: a sentinel stands for exactly one thread inside the loader.
* `WaitsForLoader`: who waits on an Event waits for a thread on its way to set it. There is no timeout.
* `ServesCurrent`: what the HNSW cache would serve is what is on disk, except an index replaced between its load and its stat.
* `SurvivorsWereInFlight`: after a re-index evicted, an older id index is only there if its load was in flight.
* `CapKept`: a store leaves the cache within its cap, and an index over the whole cap costs no other entry its place.
* `RetiredLeaves`: a snapshot swapped out leaves both caches. Fairness: the sweeps go on, and the TTL of an entry nobody asks for runs out.

Run `index_cache`: two threads, one clone with two versions, the second larger
than the cap, and one snapshot (678 thousand states). The cap admits one entry,
so that every store evicts.

Proved for any number of threads, collections and versions, every cap and all
sizes: `LoadsAreDeduplicated`, `WaitersHaveALoader`, `TypeCorrect`,
`HitsAreCurrent`, `StaleIdsWereInFlight`, `CapIsKept`. The first two follow from
`IInv`, which ties each sentinel to the thread that planted it. The next three
need `Data`: both caches are sequences of well-formed entries (`Good`), where an
HNSW entry is never newer than the mtime stored with it nor that newer than the
file, and an id entry older than the last eviction is marked as overtaken; the
files grow in step (`Files`); and what a thread carries from its loader to
`Store` is already as good as an entry has to be (`Loaded`). For the cap, `InCap`
says a cache never exceeds it, between stores either. It rests on lemmas on the model's filter and sum, which are recursive
functions: that they exist, and that filtering keeps order and keys and does
not add weight. These are inductions over the length of a sequence. They use the
library's well-foundedness of the naturals through least counterexamples (`Least`,
`Induct`), where the property is a set and not an operator.

Left out: `clear()`, which nothing calls, statistics, `malloc_trim`, failing
stats, the rebuild of an `id_index.bin` that cannot be parsed, and the first build
of an index: the clone has one when the model starts, because with the first
build the liveness check takes too long. `FTSIndexCache` has the same protocol.

## SnapshotLifecycle

One repository in one server process. The alias file (`target`, `previous`) and
the snapshot directories (`disk`) survive a restart. The reference counts, the
cleanup queue and its failure counts do not. A snapshot is its timestamp; 0 is
the master clone. Jobs are refresh (checks the write lock, never holds it),
branch change and add-index (hold it), and provider index (ignores it). The lock
is taken to be an ideal one here; `WriteLock` says until when the code has that.
Each job can fail at each step; after a failed copy the branch change leaves the
directory, and the others remove it unless the copy itself failed. And the compare and the rename of `swap_alias` are separate
steps. A search resolves the alias, tests that the path exists, takes a
reference, searches, releases. The cleanup thread reads a count and deletes in a
later step, with backoff and a circuit breaker.

* `PinnedStays`: a search that took its reference while its snapshot was on disk and unscheduled keeps it to the end.
* `TargetStays`: the served snapshot is neither gone nor about to go.
* `RetentionBounds`: a retention pass leaves at most the N newest and the rollback path unscheduled, also after restarts that forgot the queue.
* `QueueDrains`: every scheduled path leaves the queue. Fairness: the cleanup thread runs, backoff ends, a search ends. Jobs get none.

Runs: `snapshot_refresh` (one refresh job, two searches, three versions, two
failures before the breaker) checks the last three; `snapshot_mixed` puts all
four kinds of job on one alias with two versions and checks `PinnedStays`.
`MaxVersion` bounds behaviours, so TLC's deadlock check is off here. The limits
of these properties are part of what the model shows. A search that resolved the
old path and takes its reference after the cleanup read the count as zero loses
the directory, hence "unscheduled" in `PinnedStays`. A refresh past its lock
check can schedule the snapshot a branch change then publishes, and two jobs
that start in one second copy into one directory. So `TargetStays` and
`RetentionBounds` are about the refresh as the only job, and `SameSecond` is
FALSE.

Proved for any number of jobs, searches and versions: `TypeCorrect` (only
snapshots, never the master clone, are queued or deleted) and, when no two
snapshots share a second, `PinnedQueriesKeepTheirSnapshot`. Its invariant adds
that reference counts equal the searching threads (`RefsExact`), that the
cleaner works on queued paths (`CleanerOK`), that names grow (`Stamped`) and
that nobody but its job knows a snapshot before its swap (`Private`). The last
is what makes it safe for a job to remove its own failed copy. For a sole
refresh job (`Sole`): `RefreshKeepsTarget` and `RetentionIsBounded`, for every N.
`TargetInv` says that no name is newer than the newest, and that until its swap
the refresh knows the target and has a snapshot nobody scheduled. The bound is
then a count: the pass schedules all it listed but the N newest and the rollback
path, and it listed all that is on disk.

## WriteLock and RepoLock

Every system call on the lock file (exists, read, unlink, open, write) is a
step. The file is identified by its creator, so unlinking a newer file is
visible. Processes crash, writes raise, TTLs expire, and every thread may ask
`is_locked`, which evicts without the intra-process guard. So the lock excludes
less than its users may think: a file is created empty, and whoever reads it
before its first write takes it for corrupt and removes it. `struck` records that
a file was removed under its living creator, by `is_locked`, by the `acquire` of
another process or after its TTL. `RepoLock` is what is left to rely on: a lock
that excludes until it is struck. The refinement maps its holders to the clients
between a successful `acquire` and the end of `release`.

* `GuardNotLeaked`: no early return, raising write or crash leaves the guard of a process taken.
* `ImplementsLock`: the file protocol implements `RepoLock`. In particular threads of one process that acquire and release never strike each other.
* `LiveLockStays`: a lock whose metadata is written, with no unlink on its way, ends by its owner's release, its TTL or the death of its process only, whoever acquires or asks on whichever host.
* `OrphanIsEvicted`: the file of a client that is gone is removed. Fairness: threads inside a call go on, the clock advances, the refresh scheduler keeps asking. No holder is assumed to release.

Run `writelock`: three threads that acquire, two of them in one process, and a
refresh thread, in two processes on two hosts, with expiry, raising writes and two
crashes (66 thousand states). Run `writelock_cluster` ends in a violation of
`MutualExclusion`: a second process reads the file between its creation and its
first write and removes it. A third thread that asks `is_locked` does the same to
two threads of one process.

Proved for any number of hosts, processes, threads, crashes, raising writes,
expiries and calls of `is_locked`, without further premises: `TypeCorrect`,
`GuardIsReturned`, `ExcludesUntilStruck`, `FileLockRefinesRepoLock` and
`SettledLocksStay`. Types and `GuardNotLeaked` are inductive together, because a
step either keeps the guard and stays inside `acquire`, or gives it back, or takes
it on the way in (`Moves`). Exclusion adds that until `struck` a living client
finds the file it created in place (`Alone`), so there is one such client, and that
a thread about to evict aims at no living client of its own process within its TTL
(`Aimed`).

Owner names are taken to differ between clients, pids are not reused, an unlink
does not fail, and `get_lock_info` is left out (it evicts in fewer cases than
`is_locked`).

## JobPool

`BackgroundJobManager` and `JobTracker` on one node. A job is in up to three
places: memory (`mem`), the tracker (`tracked`) and its row. Memory changes under
a lock; the row is written later, outside of it, from a snapshot. `Submit`
inserts the row if the unique index on active rows admits it, `Enqueue` puts the
job into memory and the queue, and a worker goes through `Take`, `Start`,
`Announce`, `Recheck`, `Tick`, `Return` or `Abandon`, `Persist` and `Notify`;
`Defer` is memory pressure. `Cancel`, `CancelSnapshot` and `CancelWrite` are a
local cancellation, `RemoteCancel` and `RemoteWrite` one on another node,
`Cleanup` removes old jobs, `Stop` and `StopWrite` are the shutdown, `Die` a crash
or exit, `Restart` the start that declares active rows failed, and `RestartFails`
one whose cleanup raises and is only logged.

* `LateWritesRevokeNothing`: a terminal row stays terminal, and no late snapshot replaces one outcome by another, but for completed_partial and completed, and a cancellation from another node.
* `VisibleStaysFinished`: a caller who saw a job finished does not see it unfinished again, except in three named races.
* `CancelSticks`: a job whose cancellation was accepted is never shown as completed.
* `ExclusiveUnlessCancelled`: two functions of one key overlap only if the row of one says cancelled.
* `TrackerForgets`: the tracker holds no job that nobody works on, except one cleanup took away while it was queued.
* `EveryJobEnds`: every submitted job is seen finished, unless it was active at a restart whose cleanup failed: such a row blocks its key until the next restart. Fairness: worker threads go on and functions end, memory pressure lets some job through, and a stopped server is started again.

Run `job_pool`: two jobs of one key, two workers, and three cancellations,
failing writes, failing cleanups, shutdowns or crashes in any order (494 thousand
states). The server may stop for good when all jobs have ended, so deadlock is not
checked.

Run `job_partial` ends in a violation of `FirstTerminalWins`, which is what
`job_tracker.py:289` says: the first terminal write stands. One job without any
event is enough: the manager writes completed_partial, and then the tracker, which
has no such status, writes completed over it.

Proved for any number of jobs, keys, workers and events: `TypeCorrect` and the
five safety properties (`CancellationsStick`, `ExclusiveFunctions`,
`TrackerIsExact`, `OutcomesStand`, `FinishedStaysVisible`). `IInv` speaks of
one job at a time. Before a job is queued only its row knows it (`Fresh`);
memory follows the worker (`WorkerOK`); while the job is unsettled nobody holds
an outcome other than its cancellation (`Unsettled`); whatever is still to be
written agrees with what was written, unless another node wrote it (`Verdict`);
and an accepted cancellation excludes every "completed", in memory, in the row
and in the snapshots under way (`Accepted`). Across jobs there are the unique
index, a queue without duplicates, a bound on busy workers and what is left when
the process is down. Each action changes one job, so one lemma per action
(`NextGood` collects them) shows that this job keeps `JobOK` and the others are
unaffected, and also what the step does to the row and the view.

Left out or merged: jobs without a repository, the temporal lane, the pod-pull
branch (`ClusterJobs`), child processes and cancel handlers, deletion of rows. A
worker's status change and its snapshot are one step, as are the two "running"
writes of manager and tracker, taking a job and the first look at its cancelled
field, and notification and eviction. A cancellation on another node is always
possible.

## ClusterJobs

Rows of `background_jobs` for pod-pull operations. One SQL statement is one
step. A node's claim loop polls, claims, executes, records and lands; its thread
runs until the process is gone. A claim can be committed and its answer lost
(`ClaimLost`). A shutdown sets the stop event and reads `_in_flight` (`Stop`),
releases that row or fails to (`ReleaseJob`), joins, goes offline and exits, in the
order of `lifespan`. A crash can come at any point; a restart
first fails the rows the node still owns (`Start`) and then registers. The
leader's sweep lists the active nodes in one statement and reclaims in another.
`aged` is "claimed before the grace period". Jobs claimed after a list was read
do not age before that sweep ends: this assumes the two statements of a sweep
are closer together than the grace period of three sweep intervals.

* `PendingIsClaimable`: whoever makes a row pending leaves `executing_node` NULL.
* `OutcomeFromLatestClaim`: a node that lost its job changes nothing when it reports.
* `LiveNodeKeepsItsJobs`: no sweep takes a job from a node whose heartbeat has not lapsed since it registered, however stale the list.
* `JobsEnd`: every active job ends, as long as one node stays up, unless both of a node's outcome writes failed or the answer to its claim was lost (`stranded`): it keeps a row it does not work on. Fairness: threads run, executors end, time passes; claims and sweeps do not fail for ever (strong fairness, because memory pressure and database errors come and go). Nothing makes a node that is down start again.

Runs: `cluster` (two nodes, two jobs of one repository, one outage, 1.7 million
states) checks safety, `cluster_live` (one job, two outages) checks `JobsEnd`.
One job cannot exercise the unique index, two outages cannot be checked with two
jobs in reasonable time, hence the split. That two nodes never execute one job
is not among the properties: `stop` releases the row while the executor still
runs, and another node may then execute it too.

Proved for any number of nodes, jobs and outages: `TypeCorrect`,
`PendingRowsAreClaimable`, `LatestClaimDecides`, `LiveNodesKeepTheirJobs`. The
invariant adds that new and pending rows are unowned (`Unowned`), that a loop
owns its job until it is taken from it and that a node that is down or booting
runs no loop (`LoopOK`), that a booting node owns no running row (`BootOK`), and
that a live node missing from the sweep's list owns only rows claimed since the
list was read (`SweepOK`). The last carries the grace period's whole argument.

Left out: progress updates, the cluster-wide `max_concurrent_jobs` limit (off by
default), deadlock retries, two leaders at once, and job types the leader's own
worker executes.

## LeaderElection

The monitor thread and the main thread of each node, the dedicated connection
with the advisory lock, and the service threads the two callbacks start and
stop. `lock = n` means that PostgreSQL holds the lock for n's session; n learns
of a lost connection from its next ping. Main assigns the callbacks after the
monitor runs and then looks whether it has already won. A callback walks through
the services one by one, can raise at each, and joins a stopped thread with a
timeout, after which one kind of service forgets its thread and the other keeps
it. `mishap` remembers what went wrong on a node: a callback of the monitor raised,
startup failed (before it assigned the callbacks or inside of one), a thread
outlived its join, or the two threads raced.

* `HousekeepingOnLeader`: a node at rest without mishap runs all services if it leads and none if not.
* `OneThreadEach`: a service has a second thread only after an overrun or a race.
* `CleanExit`: an orderly shutdown without mishap leaves no lock and no service, also when the monitor wins an election in the middle of it.
* `NoOrphanLock`: no node at rest holds the lock without leading, whatever the callbacks did.
* `SplitBrainEnds`, `LeaderEmerges`: a stale leader steps down, and a running cluster gets a leader that has its services, however often callbacks of a monitor raised (before Bug #540 was fixed, a raising callback left the node with flag and lock and without services). Fairness: some running process makes progress; there are finitely many steps between two events.

Run `leader`: two nodes, one service of either kind, two events (crash, lost
connection, failed startup or callback, shutdown; 310 thousand states). Deadlock is
not checked: all nodes may be down. The mishaps are real: a join that times out can
leave a leader without a worker or with two sweep threads, a callback that raises
leaves services on a follower, and main and monitor can both start the services.
The properties except them by name; `PROJECT.json` has them as hazards.

Proved for any number of nodes, services and events: `LeaderRunsServices`,
`ServicesAreSingle`, `ShutdownIsClean`, `NoLockWithoutLeader`. The invariant
says, for every pair of places monitor and main can be
at, what holds of the flag, the connection, the callbacks and the services.

Left out: `verify_leadership` and `LeaderFailoverMonitor`, which nothing calls, and
the back-off of the retry interval.

## What is proved and what is only model-checked

Every theorem holds for all values of the constants that satisfy the named
assumptions, which TLC evaluates on every run. Every safety property of a passing
run is proved. Only liveness is left to TLC (`AcquireReturns`, `QueueDrains`,
`OrphanIsEvicted`, `JobsEnd`, `RetiredLeaves`, `SplitBrainEnds`, `LeaderEmerges`,
`EveryJobEnds`, `Answered`): it rests on fairness, which TLAPS does not handle.

Every property of a passing run has a mutant of the model in `PROJECT.json`, a
plausible mistake in the code, under which TLC finds it violated.

To repeat a check: `tlc -config MCWriteLock.cfg MCWriteLock`,
`tlapm WriteLockProofs.tla`, and likewise for the others.

## Not modelled

Searching, chunking, embedding and index formats transform data in one thread.
The CLI, its daemon and indexing lock, the proxy, the remote client and the HTTP
layer are a single user's tool or input and output. SCIP, X-Ray, the dependency
map and temporal indexing drive external tools. The analysis sentinel is another
lock file of the write lock's make, and the credential lease is a sequence of
calls to a provider that is not in the repository. The ONTAP and cow-daemon
snapshot back ends, the file-descriptor pause of the cleanup thread (it only
delays), reference counts of other processes and the contents of snapshots are
left out of `SnapshotLifecycle`. `PROJECT.json` lists every part with its reason.
