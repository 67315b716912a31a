------------------------- MODULE SnapshotLifecycle -------------------------
(***************************************************************************)
(* The life of a golden repository's versioned snapshots in one server     *)
(* process: the jobs that create a snapshot and repoint the alias file     *)
(* (scheduled refresh, branch change, add-index, provider index), the      *)
(* queries that resolve the alias and pin a path in QueryTracker, keep-    *)
(* last-N retention, and the CleanupManager thread that deletes.           *)
(*                                                                         *)
(* A snapshot is named by the second it was created in (v_<timestamp>);    *)
(* Base stands for the mutable master clone, the alias's first target.     *)
(* The alias file and the directories survive a restart; the tracker, the  *)
(* cleanup queue and its failure counts do not.                            *)
(***************************************************************************)
EXTENDS Integers, FiniteSets

CONSTANTS Refresh,      \* global_repo_refresh jobs (one active per repository)
          Branch,       \* change_branch jobs
          AddIndex,     \* add-index jobs
          Provider,     \* provider_index_* jobs
          Query,        \* request threads running a tracked search
          KeepLast,     \* snapshot_retention_keep_last
          MaxFailures,  \* CleanupManager.MAX_FAILURES
          MaxVersion,   \* bound: timestamps a behaviour may use
          SameSecond    \* may two snapshots be created in one second?

Job == Refresh \cup Branch \cup AddIndex \cup Provider

ASSUME JobsAssumption ==
    /\ Refresh \cap (Branch \cup AddIndex \cup Provider) = {}
    /\ Branch \cap (AddIndex \cup Provider) = {}
    /\ AddIndex \cap Provider = {}
    /\ -1 \notin Job
ASSUME QueryAssumption == IsFiniteSet(Query)
ASSUME NumbersAssumption == /\ KeepLast \in Nat \ {0}
                            /\ MaxFailures \in Nat \ {0}
                            /\ MaxVersion \in Nat
                            /\ SameSecond \in BOOLEAN

Base    == 0                 \* the master clone
NoPath  == -1                \* an absent previous_path, victim or lock holder
Version == 1..MaxVersion     \* v_<timestamp> directories
Path    == Version \cup {Base}

VARIABLES
    target, previous,            \* the alias file: target_path, previous_path
    disk,                        \* the v_* directories that exist
    last,                        \* the latest timestamp given to a snapshot
    writer,                      \* holder of the repository's write lock
    jpc, old, new, listed,       \* per job: step, current_target, its snapshot,
                                 \* what its retention pass saw on disk
    qpc, path, pinned,           \* per query: step, resolved index_path, and
                                 \* (history) was it unscheduled when pinned?
    refs,                        \* QueryTracker._ref_counts
    queue, failures, backoff,    \* CleanupManager: queue, counts, waiting paths
    todo, victim                 \* its loop: paths_to_check, path being deleted

aliasVars   == <<target, previous>>
jobVars     == <<jpc, old, new, listed>>
queryVars   == <<qpc, path, pinned, refs>>
cleanerVars == <<failures, backoff, todo, victim>>
vars == <<aliasVars, disk, last, writer, jobVars, queryVars, queue, cleanerVars>>

----------------------------------------------------------------------------
Init == /\ target = Base /\ previous = NoPath
        /\ disk = {} /\ last = 0
        /\ writer = NoPath
        /\ jpc = [j \in Job |-> "idle"]
        /\ old = [j \in Job |-> Base]
        /\ new = [j \in Job |-> Base]
        /\ listed = [j \in Job |-> {}]
        /\ qpc = [q \in Query |-> "idle"]
        /\ path = [q \in Query |-> Base]
        /\ pinned = [q \in Query |-> FALSE]
        /\ refs = [v \in Path |-> 0]
        /\ queue = {}
        /\ failures = [v \in Version |-> 0]
        /\ backoff = {}
        /\ todo = {} /\ victim = NoPath

----------------------------------------------------------------------------
(* The jobs.  Goto moves one job; Finish ends it, releasing the write lock  *)
(* in the finally clause of the two jobs that hold it.                      *)

Goto(j, s) == jpc' = [jpc EXCEPT ![j] = s]

Finish(j) == /\ jpc' = [jpc EXCEPT ![j] = "idle"]
             /\ old' = [old EXCEPT ![j] = Base]
             /\ new' = [new EXCEPT ![j] = Base]
             /\ listed' = [listed EXCEPT ![j] = {}]
             /\ writer' = IF writer = j THEN NoPath ELSE writer

\* _execute_refresh reads the alias first ...
StartRefresh(j) == /\ j \in Refresh /\ jpc[j] = "idle"
                   /\ Goto(j, "resolved")
                   /\ old' = [old EXCEPT ![j] = target]
                   /\ UNCHANGED <<aliasVars, disk, last, writer, new, listed,
                                  queryVars, queue, cleanerVars>>

\* ... and only then looks at the write lock, which it never takes.
CheckWriteLock(j) == /\ jpc[j] = "resolved"
                     /\ \/ /\ writer = NoPath
                           /\ Goto(j, "indexing")
                           /\ UNCHANGED <<writer, old, new, listed>>
                        \/ /\ writer # NoPath
                           /\ Finish(j)
                     /\ UNCHANGED <<aliasVars, disk, last, queryVars, queue,
                                    cleanerVars>>

\* change_branch and add-index work under the write lock.
StartLocked(j) == /\ j \in Branch \cup AddIndex /\ jpc[j] = "idle"
                  /\ writer = NoPath
                  /\ writer' = j
                  /\ Goto(j, "indexing")
                  /\ UNCHANGED <<aliasVars, disk, last, old, new, listed,
                                 queryVars, queue, cleanerVars>>

\* A provider-index job was submitted with the snapshot the alias named then.
StartProvider(j) == /\ j \in Provider /\ jpc[j] = "idle"
                    /\ target # Base
                    /\ Goto(j, "indexing")
                    /\ old' = [old EXCEPT ![j] = target]
                    /\ UNCHANGED <<aliasVars, disk, last, writer, new, listed,
                                   queryVars, queue, cleanerVars>>

\* No changes, or git/indexing failed: the job ends before any snapshot.
IndexFails(j) == /\ jpc[j] = "indexing"
                 /\ Finish(j)
                 /\ UNCHANGED <<aliasVars, disk, last, queryVars, queue,
                                cleanerVars>>

\* int(time.time()): a later second, or the one just used.
Stamps == IF SameSecond THEN (last..(last + 1)) \ {Base} ELSE {last + 1}

\* create_snapshot: cp -a makes the directory at once and fills it for a long
\* time.  add-index reads the alias just before, change_branch not yet.
StartCopy(j) == /\ jpc[j] = "indexing"
                /\ \E v \in Stamps \cap Version :
                      /\ new' = [new EXCEPT ![j] = v]
                      /\ disk' = disk \cup {v}
                      /\ last' = v
                /\ Goto(j, "copying")
                /\ old' = IF j \in AddIndex THEN [old EXCEPT ![j] = target]
                                            ELSE old
                /\ UNCHANGED <<aliasVars, writer, listed, queryVars, queue,
                               cleanerVars>>

FinishCopy(j) == /\ jpc[j] = "copying"
                 /\ Goto(j, "created")
                 /\ UNCHANGED <<aliasVars, disk, last, writer, old, new, listed,
                                queryVars, queue, cleanerVars>>

\* _create_snapshot removes its directory when a step after the copy fails, but
\* not what a failing copy left; _cb_cow_snapshot never removes it.
CopyFails(j) == /\ jpc[j] = "copying"
                /\ \/ disk' = disk
                   \/ j \notin Branch /\ disk' = disk \ {new[j]}
                /\ Finish(j)
                /\ UNCHANGED <<aliasVars, last, queryVars, queue, cleanerVars>>

\* The first half of swap_alias: read the file and compare target_path.
CompareTarget(j) == /\ j \notin Branch /\ jpc[j] = "created"
                    /\ target = old[j]
                    /\ Goto(j, "replacing")
                    /\ UNCHANGED <<aliasVars, disk, last, writer, old, new,
                                   listed, queryVars, queue, cleanerVars>>

\* swap_alias raises ValueError: refresh and add-index fail and leave their
\* snapshot behind, the provider job removes its own.
SwapRejected(j) == /\ j \notin Branch /\ jpc[j] = "created"
                   /\ target # old[j]
                   /\ disk' = IF j \in Provider THEN disk \ {new[j]} ELSE disk
                   /\ Finish(j)
                   /\ UNCHANGED <<aliasVars, last, queryVars, queue, cleanerVars>>

\* _cb_swap_alias reads the current target and compares it with nothing.
ReadTarget(j) == /\ j \in Branch /\ jpc[j] = "created"
                 /\ Goto(j, "replacing")
                 /\ old' = [old EXCEPT ![j] = target]
                 /\ UNCHANGED <<aliasVars, disk, last, writer, new, listed,
                                queryVars, queue, cleanerVars>>

\* os.replace of the alias file.  create_alias writes no previous_path.
Replace(j) == /\ jpc[j] = "replacing"
              /\ target' = new[j]
              /\ previous' = IF j \in Branch THEN NoPath ELSE old[j]
              /\ Goto(j, "swapped")
              /\ UNCHANGED <<disk, last, writer, old, new, listed, queryVars,
                             queue, cleanerVars>>

\* The alias file cannot be written: the job fails, its snapshot stays.
ReplaceFails(j) == /\ jpc[j] = "replacing"
                   /\ Finish(j)
                   /\ UNCHANGED <<aliasVars, disk, last, queryVars, queue,
                                  cleanerVars>>

\* Mutant: the alias is read again after the swap.
ScheduleReread(j) == /\ jpc[j] = "swapped"
                     /\ queue' = queue \cup {target}
                     /\ Goto(j, "listing")
                     /\ UNCHANGED <<aliasVars, disk, last, writer, old, new,
                                    listed, queryVars, cleanerVars>>

\* schedule_cleanup of the superseded target unless it is the master clone.
\* A provider job ends here, the others go on to retention.
ScheduleOld(j) == /\ jpc[j] = "swapped"
                  /\ queue' = IF old[j] = Base THEN queue
                                               ELSE queue \cup {old[j]}
                  /\ \/ j \in Provider /\ Finish(j)
                     \/ /\ j \notin Provider
                        /\ Goto(j, "listing")
                        /\ UNCHANGED <<writer, old, new, listed>>
                  /\ UNCHANGED <<aliasVars, disk, last, queryVars, cleanerVars>>

\* list_snapshots, before the alias file is read again.
ListSnapshots(j) == /\ jpc[j] = "listing"
                    /\ listed' = [listed EXCEPT ![j] = disk]
                    /\ Goto(j, "retaining")
                    /\ UNCHANGED <<aliasVars, disk, last, writer, old, new,
                                   queryVars, queue, cleanerVars>>

\* The N newest of a listing.
Newest(S) == {v \in S : Cardinality({w \in S : w > v}) < KeepLast}

\* Mutant: only the swap site schedules, nothing is ever listed.
SupersededNothing(j) == {}

\* What _enforce_retention schedules: it is told the snapshot this job
\* swapped in and reads previous_path from the alias file.
Superseded(j) == IF Cardinality(listed[j]) <= KeepLast
                 THEN {}
                 ELSE listed[j] \ (Newest(listed[j]) \cup {new[j], previous})

EnforceRetention(j) == /\ jpc[j] = "retaining"
                       /\ queue' = queue \cup Superseded(j)
                       /\ Finish(j)
                       /\ UNCHANGED <<aliasVars, disk, last, queryVars,
                                      cleanerVars>>

\* Any failure of the retention pass is logged and swallowed.
RetentionFails(j) == /\ jpc[j] \in {"listing", "retaining"}
                     /\ Finish(j)
                     /\ UNCHANGED <<aliasVars, disk, last, queryVars, queue,
                                    cleanerVars>>

----------------------------------------------------------------------------
(* A tracked search.                                                        *)

ResolveAlias(q) == /\ qpc[q] = "idle"
                   /\ qpc' = [qpc EXCEPT ![q] = "resolved"]
                   /\ path' = [path EXCEPT ![q] = target]
                   /\ UNCHANGED <<aliasVars, disk, last, writer, jobVars,
                                  pinned, refs, queue, cleanerVars>>

QueryEnds(q) == /\ qpc' = [qpc EXCEPT ![q] = "idle"]
                /\ path' = [path EXCEPT ![q] = Base]
                /\ pinned' = [pinned EXCEPT ![q] = FALSE]

\* Path(target).exists(), else FileNotFoundError.
CheckExists(q) == /\ qpc[q] = "resolved"
                  /\ \/ /\ path[q] \in disk \cup {Base}
                        /\ qpc' = [qpc EXCEPT ![q] = "checked"]
                        /\ UNCHANGED <<path, pinned>>
                     \/ /\ path[q] \notin disk \cup {Base}
                        /\ QueryEnds(q)
                  /\ UNCHANGED <<aliasVars, disk, last, writer, jobVars, refs,
                                 queue, cleanerVars>>

IncrementRef(q) ==
    /\ qpc[q] = "checked"
    /\ qpc' = [qpc EXCEPT ![q] = "searching"]
    /\ refs' = [refs EXCEPT ![path[q]] = @ + 1]
    /\ pinned' = [pinned EXCEPT ![q] = path[q] \in (disk \ queue) \cup {Base}]
    /\ UNCHANGED <<aliasVars, disk, last, writer, jobVars, path, queue,
                   cleanerVars>>

\* The search ends, well or badly, and decrement_ref runs in the finally.
DecrementRef(q) == /\ qpc[q] = "searching"
                   /\ refs' = [refs EXCEPT ![path[q]] = @ - 1]
                   /\ QueryEnds(q)
                   /\ UNCHANGED <<aliasVars, disk, last, writer, jobVars, queue,
                                  cleanerVars>>

----------------------------------------------------------------------------
(* CleanupManager._process_cleanup_queue, one path at a time.               *)

StartSweep == /\ todo = {} /\ victim = NoPath
              /\ queue # {}
              /\ todo' = queue
              /\ UNCHANGED <<aliasVars, disk, last, writer, jobVars, queryVars,
                             queue, failures, backoff, victim>>

\* The circuit breaker drops the path and keeps its failure count.
BreakCircuit(v) == /\ victim = NoPath /\ v \in todo
                   /\ failures[v] >= MaxFailures
                   /\ queue' = queue \ {v}
                   /\ todo' = todo \ {v}
                   /\ UNCHANGED <<aliasVars, disk, last, writer, jobVars,
                                  queryVars, failures, backoff, victim>>

\* In its backoff window, or still referenced: left for a later sweep.
SkipPath(v) == /\ victim = NoPath /\ v \in todo
               /\ failures[v] < MaxFailures
               /\ v \in backoff \/ refs[v] # 0
               /\ todo' = todo \ {v}
               /\ UNCHANGED <<aliasVars, disk, last, writer, jobVars, queryVars,
                              queue, failures, backoff, victim>>

\* Mutant: the reference count is not consulted.
ChooseVictimBlindly(v) == /\ victim = NoPath /\ v \in todo
                          /\ failures[v] < MaxFailures
                          /\ v \notin backoff
                          /\ victim' = v
                          /\ todo' = todo \ {v}
                          /\ UNCHANGED <<aliasVars, disk, last, writer, jobVars,
                                         queryVars, queue, failures, backoff>>

\* get_ref_count returned 0; the deletion itself comes later.
ChooseVictim(v) == /\ victim = NoPath /\ v \in todo
                   /\ failures[v] < MaxFailures
                   /\ v \notin backoff
                   /\ refs[v] = 0
                   /\ victim' = v
                   /\ todo' = todo \ {v}
                   /\ UNCHANGED <<aliasVars, disk, last, writer, jobVars,
                                  queryVars, queue, failures, backoff>>

DeleteIndex == /\ victim # NoPath
               /\ disk' = disk \ {victim}
               /\ queue' = queue \ {victim}
               /\ failures' = [failures EXCEPT ![victim] = 0]
               /\ backoff' = backoff \ {victim}
               /\ victim' = NoPath
               /\ UNCHANGED <<aliasVars, last, writer, jobVars, queryVars, todo>>

\* Mutant: a failed deletion is not counted.
DeleteFailsUncounted == /\ victim # NoPath
                        /\ victim' = NoPath
                        /\ UNCHANGED <<aliasVars, disk, last, writer, jobVars,
                                       queryVars, queue, failures, backoff, todo>>

\* _record_failure: the path stays queued; the directory may be half gone.
DeleteFails == /\ victim # NoPath
               /\ failures' = [failures EXCEPT ![victim] = @ + 1]
               /\ backoff' = backoff \cup {victim}
               /\ victim' = NoPath
               /\ UNCHANGED <<aliasVars, disk, last, writer, jobVars, queryVars,
                              queue, todo>>

BackoffElapses(v) == /\ v \in backoff
                     /\ backoff' = backoff \ {v}
                     /\ UNCHANGED <<aliasVars, disk, last, writer, jobVars,
                                    queryVars, queue, failures, todo, victim>>

----------------------------------------------------------------------------
\* The process dies and starts again: what lives in memory is gone, and the
\* write lock of the dead process counts as stale.
Restart == /\ writer' = NoPath
           /\ jpc' = [j \in Job |-> "idle"]
           /\ old' = [j \in Job |-> Base]
           /\ new' = [j \in Job |-> Base]
           /\ listed' = [j \in Job |-> {}]
           /\ qpc' = [q \in Query |-> "idle"]
           /\ path' = [q \in Query |-> Base]
           /\ pinned' = [q \in Query |-> FALSE]
           /\ refs' = [v \in Path |-> 0]
           /\ queue' = {} /\ backoff' = {} /\ todo' = {} /\ victim' = NoPath
           /\ failures' = [v \in Version |-> 0]
           /\ UNCHANGED <<aliasVars, disk, last>>

JobStep(j) == \/ StartRefresh(j) \/ CheckWriteLock(j) \/ StartLocked(j)
              \/ StartProvider(j) \/ IndexFails(j) \/ StartCopy(j)
              \/ FinishCopy(j) \/ CopyFails(j) \/ CompareTarget(j)
              \/ SwapRejected(j) \/ ReadTarget(j) \/ Replace(j)
              \/ ReplaceFails(j) \/ ScheduleOld(j) \/ ListSnapshots(j)
              \/ EnforceRetention(j) \/ RetentionFails(j)

QueryStep(q) == \/ ResolveAlias(q) \/ CheckExists(q) \/ IncrementRef(q)
                \/ DecrementRef(q)

CleanerStep == \/ StartSweep \/ DeleteIndex \/ DeleteFails
               \/ \E v \in Version : \/ BreakCircuit(v) \/ SkipPath(v)
                                     \/ ChooseVictim(v)

Next == \/ \E j \in Job : JobStep(j)
        \/ \E q \in Query : QueryStep(q)
        \/ CleanerStep
        \/ \E v \in Version : BackoffElapses(v)
        \/ Restart

Spec == Init /\ [][Next]_vars

\* The cleanup thread keeps running, time passes, and a search that started
\* ends (searches are bounded by timeouts).  Nothing is assumed of the jobs.
Fairness == /\ WF_vars(CleanerStep)
            /\ \A v \in Version : WF_vars(BackoffElapses(v))
            /\ \A q \in Query : WF_vars(DecrementRef(q))

FairSpec == Spec /\ Fairness

----------------------------------------------------------------------------
JobPlace   == {"idle", "resolved", "indexing", "copying", "created",
               "replacing", "swapped", "listing", "retaining"}
QueryPlace == {"idle", "resolved", "checked", "searching"}

\* Type correctness.  Only snapshots are ever queued or deleted: the master
\* clone is neither, whatever the alias pointed at when a job began.
TypeOK == /\ target \in Path /\ previous \in Path \cup {NoPath}
          /\ disk \subseteq Version
          /\ last \in Path
          /\ writer \in Job \cup {NoPath}
          /\ jpc \in [Job -> JobPlace]
          /\ old \in [Job -> Path] /\ new \in [Job -> Path]
          /\ listed \in [Job -> SUBSET Version]
          /\ qpc \in [Query -> QueryPlace]
          /\ path \in [Query -> Path]
          /\ pinned \in [Query -> BOOLEAN]
          /\ refs \in [Path -> Nat]
          /\ queue \subseteq Version
          /\ failures \in [Version -> 0..MaxFailures]
          /\ backoff \subseteq Version
          /\ todo \subseteq Version
          /\ victim \in Version \cup {NoPath}

\* A query that took its reference while its snapshot was on disk and not
\* scheduled keeps the snapshot until it ends: no cleanup sweep, no job that
\* discards its own snapshot and no failed copy removes it underneath.
PinnedStays == \A q \in Query :
    qpc[q] = "searching" /\ pinned[q] =>
        /\ path[q] \in disk \cup {Base}
        /\ path[q] # victim

\* The alias never names a directory that is gone, nor one that the cleanup
\* thread is going to remove.  (Sole refresh job.)
TargetStays == target \in disk \cup {Base} /\ target \notin queue

\* A retention pass leaves at most the N newest directories and the rollback
\* path without a deletion scheduled.  What a restart dropped from the queue
\* and what a failed swap orphaned is found again on disk.  (Sole refresh job.)
RetentionBounds ==
    [][\A j \in Job : EnforceRetention(j) =>
          Cardinality(disk \ queue') <= KeepLast + 1]_vars

\* A scheduled path leaves the queue: deleted once its readers are done, or
\* dropped by the circuit breaker after MaxFailures failed attempts.
QueueDrains == \A v \in Version : v \in queue ~> v \notin queue
=============================================================================
