------------------------------ MODULE JobPool -------------------------------
(***************************************************************************)
(* BackgroundJobManager on one node: repository jobs are admitted by the   *)
(* unique index on active rows, wait in a queue for one of the pool's      *)
(* workers, are executed, cancelled, persisted and evicted, and survive a  *)
(* shutdown or a crash as rows of the table background_jobs.               *)
(*                                                                         *)
(* A job is in up to three places: BackgroundJobManager.jobs (mem),        *)
(* JobTracker._active_jobs (tracked) and its row.  Memory is changed under *)
(* a lock, and the row later, outside of it, from a snapshot.              *)
(***************************************************************************)
EXTENDS Integers, Sequences

CONSTANTS Job,
          Key,        \* Job -> (operation_type, repo_alias)
          Workers,    \* max_concurrent_background_jobs
          MaxEvents   \* bound on cancellations, failing writes, shutdowns and crashes

ASSUME WorkersAssumption == Workers \in Nat \ {0}
ASSUME EventsAssumption == MaxEvents \in Nat

VARIABLES up, stopping,
          row,      \* status column of background_jobs, or "none"
          mem,      \* status in BackgroundJobManager.jobs, or "none"
          flag,     \* the jobs in memory whose cancelled field is set
          tracked,  \* the jobs in JobTracker._active_jobs
          queue,    \* _pending_job_queue
          free,     \* workers that wait for an item
          exec,     \* where the worker of a job is in _execute_job
          snap,     \* the snapshot that worker is going to write
          keep,     \* whether it leaves the job in memory
          func,     \* the jobs whose function is executing
          cancel,   \* where a local cancel_job is, and its snapshot
          csnap,
          remote,   \* where a cancel_job of another node is
          ssnap,    \* what shutdown has still to write
          accepted, \* history: jobs whose local cancellation succeeded
          lost,     \* history: jobs left without a worker: removed from memory while in
                    \* the queue, or active at a restart whose cleanup failed
          events    \* how many of those that MaxEvents bounds have happened

memory == <<mem, flag>>
worker == <<free, exec, snap, keep>>
cancels == <<cancel, csnap, remote, accepted>>
vars == <<up, stopping, row, memory, tracked, queue, worker, func, cancels, ssnap, lost,
          events>>

Active == {"pending", "running"}
Terminal == {"completed", "completed_partial", "failed", "cancelled"}
Status == Active \cup Terminal

Init == /\ up = TRUE /\ stopping = FALSE
        /\ row = [j \in Job |-> "none"]
        /\ mem = [j \in Job |-> "none"]
        /\ flag = {} /\ tracked = {} /\ queue = <<>> /\ free = Workers
        /\ exec = [j \in Job |-> "no"]
        /\ snap = [j \in Job |-> "none"]
        /\ keep = [j \in Job |-> FALSE]
        /\ func = {}
        /\ cancel = [j \in Job |-> "no"]
        /\ csnap = [j \in Job |-> "none"]
        /\ remote = [j \in Job |-> "no"]
        /\ ssnap = [j \in Job |-> "none"]
        /\ accepted = {} /\ lost = {}
        /\ events = 0

\* Mutant: update_job without the guard.
UpdateJobAlways(old, new) == new

\* update_job with guard_terminal_status: a status that is not terminal does not
\* replace one that is.
UpdateJob(old, new) == IF new \in Active /\ old \in Terminal THEN old ELSE new

Event == events < MaxEvents /\ events' = events + 1

\* A write outside of the lock, which may fail; what fails is logged only.
WriteRow(j, s) == /\ row' = [row EXCEPT ![j] = UpdateJob(@, s)]
                  /\ UNCHANGED events
WriteFails == Event /\ UNCHANGED row

Goto(j, p) == exec' = [exec EXCEPT ![j] = p]
SetMem(j, s) == mem' = [mem EXCEPT ![j] = s]
Forget(j) == SetMem(j, "none") /\ flag' = flag \ {j}

\* A terminal status is set under the lock and read again for the row.
Settle(j, s) == /\ mem' = [mem EXCEPT ![j] = s]
                /\ snap' = [snap EXCEPT ![j] = s]
                /\ Goto(j, "persist")

EndEarly(j) == /\ Settle(j, "cancelled")
               /\ keep' = [keep EXCEPT ![j] = TRUE]

----------------------------------------------------------------------------
\* Mutant: only pending rows are in the index.
ConflictPending(j) == \E i \in Job : Key[i] = Key[j] /\ row[i] = "pending"

\* idx_active_job_per_repo.
Conflict(j) == \E i \in Job : Key[i] = Key[j] /\ row[i] \in Active

\* submit_job, first half: register_job_if_no_conflict inserts the row unless the
\* index has an active row of the same key.
Submit(j) == /\ up
             /\ row[j] = "none"
             /\ ~Conflict(j)
             /\ row' = [row EXCEPT ![j] = "pending"]
             /\ Goto(j, "submitted")
             /\ UNCHANGED <<up, stopping, memory, tracked, queue, free, snap, keep, func,
                            cancels, ssnap, lost, events>>

\* Second half: the job enters the tracker, the manager's memory and the queue.
Enqueue(j) == /\ exec[j] = "submitted"
              /\ SetMem(j, "pending")
              /\ tracked' = tracked \cup {j}
              /\ queue' = Append(queue, j)
              /\ Goto(j, "no")
              /\ UNCHANGED <<up, stopping, row, flag, free, snap, keep, func, cancels,
                             ssnap, lost, events>>

\* The end of _execute_job: the worker goes back to the queue unless the pool stops.
Release == free' = IF stopping THEN free ELSE free + 1

\* A pool worker takes the next item and looks whether the job was cancelled
\* meanwhile.  Such a job is finished early and stays in memory; one that is no
\* longer in memory raises KeyError twice and is left alone.
Take(j) == /\ queue # <<>> /\ Head(queue) = j /\ free > 0
           /\ queue' = Tail(queue)
           /\ \/ /\ mem[j] = "none"
                 /\ free' = IF stopping THEN free - 1 ELSE free
                 /\ lost' = lost \cup {j}
                 /\ UNCHANGED <<mem, exec, snap, keep>>
              \/ /\ mem[j] # "none" /\ j \in flag
                 /\ EndEarly(j)
                 /\ free' = free - 1
                 /\ UNCHANGED lost
              \/ /\ mem[j] # "none" /\ j \notin flag
                 /\ Goto(j, "start")
                 /\ free' = free - 1
                 /\ UNCHANGED <<mem, snap, keep, lost>>
           /\ UNCHANGED <<up, stopping, row, flag, tracked, func, cancels, ssnap, events>>

\* Under memory pressure the worker puts the item back.
Defer(j) == /\ queue # <<>> /\ Head(queue) = j /\ free > 0
            /\ queue' = Append(Tail(queue), j)
            /\ free' = IF stopping THEN free - 1 ELSE free
            /\ UNCHANGED <<up, stopping, row, memory, tracked, exec, snap, keep, func, cancels,
                           ssnap, lost, events>>

Start(j) == /\ exec[j] = "start"
            /\ SetMem(j, "running")
            /\ Goto(j, "announce")
            /\ UNCHANGED <<up, stopping, row, flag, tracked, queue, free, snap, keep, func,
                           cancels, ssnap, lost, events>>

\* The manager persists what is in memory by now, and then the tracker "running",
\* which tells if the first of the two writes failed and the second did not.
Announce(j) == /\ exec[j] = "announce"
               /\ WriteRow(j, mem[j]) \/ WriteRow(j, "running") \/ WriteFails
               /\ Goto(j, "recheck")
               /\ UNCHANGED <<up, stopping, memory, tracked, queue, free, snap, keep, func,
                              cancels, ssnap, lost>>

\* The second look at the cancelled field, before the function is called: on the
\* worker's own thread, or, without a progress_callback, on a second one for
\* which the worker waits.
Recheck(j) == /\ exec[j] = "recheck"
              /\ \/ /\ j \in flag
                    /\ EndEarly(j)
                    /\ UNCHANGED func
                 \/ /\ j \notin flag
                    /\ \E p \in {"call", "wait"} : Goto(j, p)
                    /\ func' = func \cup {j}
                    /\ UNCHANGED <<mem, snap, keep>>
              /\ UNCHANGED <<up, stopping, row, flag, tracked, queue, free, cancels,
                             ssnap, lost, events>>

\* progress_callback and cancel_check: persist the progress from time to time, and
\* look in the table for a cancellation by another node.
Tick(j) == /\ exec[j] \in {"call", "wait"}
           /\ row' \in {row, [row EXCEPT ![j] = UpdateJob(@, mem[j])]}
           /\ flag' = IF row'[j] = "cancelled" THEN flag \cup {j} ELSE flag
           /\ UNCHANGED <<up, stopping, mem, tracked, queue, worker, func, cancels, ssnap,
                          lost, events>>

\* Mutant: the outcome does not look at the cancelled field.
OutcomeOnly(j, s) == s

Outcome(j, s) == IF j \in flag THEN "cancelled" ELSE s

\* The function returns or raises; a cancelled job is cancelled whatever came of it.
\* (InterruptedError is raised to a job whose cancelled field is set, only.)
Return(j, s) == /\ exec[j] \in {"call", "wait"}
                /\ func' = func \ {j}
                /\ Settle(j, Outcome(j, s))
                /\ UNCHANGED <<up, stopping, row, flag, tracked, queue, free, keep,
                               cancels, ssnap, lost, events>>

\* _execute_with_cancellation_check stops waiting; the function goes on.
Abandon(j) == /\ exec[j] = "wait" /\ j \in flag
              /\ Settle(j, "cancelled")
              /\ UNCHANGED <<up, stopping, row, flag, tracked, queue, free, keep, func,
                             cancels, ssnap, lost, events>>

FunctionEnds(j) == /\ j \in func /\ exec[j] \notin {"call", "wait"}
                   /\ func' = func \ {j}
                   /\ UNCHANGED <<up, stopping, row, memory, tracked, queue, worker,
                                  cancels, ssnap, lost, events>>

\* Mutant: the job is evicted although its status was not written.
PersistAnyway(j) == /\ exec[j] = "persist"
                    /\ WriteRow(j, snap[j]) \/ WriteFails
                    /\ Goto(j, "notify")
                    /\ UNCHANGED <<up, stopping, memory, tracked, queue, free, snap, keep,
                                   func, cancels, ssnap, lost>>

\* The terminal status is written; if that fails the job stays in memory.
Persist(j) == /\ exec[j] = "persist"
              /\ \/ WriteRow(j, snap[j]) /\ UNCHANGED keep
                 \/ WriteFails /\ keep' = [keep EXCEPT ![j] = TRUE]
              /\ Goto(j, "notify")
              /\ UNCHANGED <<up, stopping, memory, tracked, queue, free, snap, func,
                             cancels, ssnap, lost>>

\* JobTracker.complete_job, fail_job or cancel_job: the entry is popped, then the
\* row written; there is no partial completion for the tracker.
TrackerStatus(s) == IF s = "completed_partial" THEN "completed" ELSE s

\* Mutant: the tracker is not told of a cancellation.
UntrackFinished(j) == IF snap[j] = "cancelled" THEN tracked ELSE tracked \ {j}

Untrack(j) == tracked \ {j}

\* The tracker is told, the job evicted and the worker free again.
Notify(j) == /\ exec[j] = "notify"
             /\ tracked' = Untrack(j)
             /\ WriteRow(j, TrackerStatus(snap[j])) \/ WriteFails
             /\ IF keep[j] THEN UNCHANGED memory ELSE Forget(j)
             /\ Goto(j, "no") /\ Release
             /\ snap' = [snap EXCEPT ![j] = "none"]
             /\ keep' = [keep EXCEPT ![j] = FALSE]
             /\ UNCHANGED <<up, stopping, queue, func, cancels, ssnap, lost>>

----------------------------------------------------------------------------
\* cancel_job on this node: the field is set under the lock, ...
Cancel(j) == /\ up /\ cancel[j] = "no" /\ mem[j] \in Active
             /\ Event
             /\ flag' = flag \cup {j}
             /\ mem' = IF mem[j] = "pending" THEN [mem EXCEPT ![j] = "cancelled"] ELSE mem
             /\ cancel' = [cancel EXCEPT ![j] = "snapshot"]
             /\ accepted' = accepted \cup {j}
             /\ UNCHANGED <<up, stopping, row, tracked, queue, worker, func, csnap, remote,
                            ssnap, lost>>

\* ... the job is read once more, ...
CancelSnapshot(j) == /\ cancel[j] = "snapshot"
                     /\ csnap' = [csnap EXCEPT ![j] = mem[j]]
                     /\ cancel' = [cancel EXCEPT ![j] = IF mem[j] = "none" THEN "no"
                                                        ELSE "write"]
                     /\ UNCHANGED <<up, stopping, row, memory, tracked, queue, worker, func,
                                    remote, accepted, ssnap, lost, events>>

\* ... and the row is written, possibly after the worker has written the outcome.
CancelWrite(j) == /\ cancel[j] = "write"
                  /\ WriteRow(j, csnap[j]) \/ WriteFails
                  /\ cancel' = [cancel EXCEPT ![j] = "no"]
                  /\ csnap' = [csnap EXCEPT ![j] = "none"]
                  /\ UNCHANGED <<up, stopping, memory, tracked, queue, worker, func,
                                 remote, accepted, ssnap, lost>>

\* cancel_job on a node that does not have the job in memory: read the status, ...
RemoteCancel(j) == /\ remote[j] # "write" /\ row[j] \in Active
                   /\ Event
                   /\ remote' = [remote EXCEPT ![j] = "write"]
                   /\ UNCHANGED <<up, stopping, row, memory, tracked, queue, worker, func,
                                  cancel, csnap, accepted, ssnap, lost>>

\* ... then update the row without a condition.
RemoteWrite(j) == /\ remote[j] = "write"
                  /\ row' = [row EXCEPT ![j] = "cancelled"]
                  /\ remote' = [remote EXCEPT ![j] = "done"]
                  /\ UNCHANGED <<up, stopping, memory, tracked, queue, worker, func,
                                 cancel, csnap, accepted, ssnap, lost, events>>

\* cleanup_old_jobs drops a finished job from memory.  (A job that still waits in
\* the queue a day after its cancellation is finished, too.)
Cleanup(j) == /\ up /\ exec[j] = "no" /\ mem[j] \in Terminal
              /\ cancel[j] = "no" /\ ssnap[j] = "none"
              /\ Forget(j)
              /\ UNCHANGED <<up, stopping, row, tracked, queue, worker, func, cancels,
                             ssnap, lost, events>>

----------------------------------------------------------------------------
\* shutdown: running jobs are cancelled and all jobs in memory written.
Stop == /\ up /\ ~stopping
        /\ Event
        /\ stopping' = TRUE
        /\ LET run == {j \in Job : exec[j] # "no" /\ mem[j] = "running"}
           IN /\ flag' = flag \cup run
              /\ mem' = [j \in Job |-> IF j \in run THEN "cancelled" ELSE mem[j]]
        /\ ssnap' = mem'
        /\ UNCHANGED <<up, row, tracked, queue, worker, func, cancels, lost>>

StopWrite(j) == /\ ssnap[j] # "none"
                /\ WriteRow(j, ssnap[j]) \/ WriteFails
                /\ ssnap' = [ssnap EXCEPT ![j] = "none"]
                /\ UNCHANGED <<up, stopping, memory, tracked, queue, worker, func, cancels,
                               lost>>

\* The process ends, after shutdown has waited for the workers for a while or by
\* a crash at any time, and all threads with it.
Die == /\ up
       /\ IF stopping THEN UNCHANGED events ELSE Event
       /\ up' = FALSE /\ stopping' = FALSE
       /\ mem' = [j \in Job |-> "none"]
       /\ flag' = {} /\ tracked' = {} /\ queue' = <<>> /\ free' = 0
       /\ exec' = [j \in Job |-> "no"]
       /\ snap' = [j \in Job |-> "none"]
       /\ keep' = [j \in Job |-> FALSE]
       /\ func' = {}
       /\ cancel' = [j \in Job |-> "no"]
       /\ csnap' = [j \in Job |-> "none"]
       /\ ssnap' = [j \in Job |-> "none"]
       /\ UNCHANGED <<row, remote, accepted, lost>>

\* Mutant: only running rows are orphans.
OrphanRunning(s) == IF s = "running" THEN "failed" ELSE s

Orphan(s) == IF s \in Active THEN "failed" ELSE s

\* _load_jobs_sqlite: what was active when the process ended has failed.
Restart == /\ ~up
           /\ up' = TRUE
           /\ free' = Workers
           /\ row' = [j \in Job |-> Orphan(row[j])]
           /\ UNCHANGED <<stopping, memory, tracked, queue, exec, snap, keep, func, cancels,
                          ssnap, lost, events>>

\* The cleanup raises: the error is logged, and the rows stay as they were.
RestartFails == /\ ~up
                /\ Event
                /\ up' = TRUE
                /\ free' = Workers
                /\ lost' = lost \cup {j \in Job : row[j] \in Active}
                /\ UNCHANGED <<stopping, row, memory, tracked, queue, exec, snap, keep,
                               func, cancels, ssnap>>

----------------------------------------------------------------------------
\* What the threads of this node do by themselves.
WorkerStep(j) == \/ Enqueue(j) \/ Take(j) \/ Start(j) \/ Announce(j) \/ Recheck(j)
                 \/ Abandon(j) \/ Persist(j) \/ Notify(j)
                 \/ \E s \in {"completed", "completed_partial", "failed"} : Return(j, s)

Next == \/ \E j \in Job : \/ WorkerStep(j)
                          \/ Submit(j) \/ Defer(j) \/ Tick(j) \/ FunctionEnds(j)
                          \/ Cancel(j) \/ CancelSnapshot(j) \/ CancelWrite(j)
                          \/ RemoteCancel(j) \/ RemoteWrite(j)
                          \/ Cleanup(j) \/ StopWrite(j)
        \/ Stop \/ Die \/ Restart \/ RestartFails

Spec == Init /\ [][Next]_vars

\* Threads go on, functions end, memory pressure lets some job through, and a
\* server that stops or is down is started again.
Fairness == /\ WF_vars(\E j \in Job : WorkerStep(j))
            /\ WF_vars(Restart)
            /\ WF_vars(stopping /\ Die)
FairSpec == Spec /\ Fairness

----------------------------------------------------------------------------
TypeOK == /\ up \in BOOLEAN /\ stopping \in BOOLEAN
          /\ row \in [Job -> Status \cup {"none"}]
          /\ mem \in [Job -> Status \cup {"none"}]
          /\ flag \subseteq Job /\ tracked \subseteq Job
          /\ queue \in Seq(Job) /\ free \in 0..Workers
          /\ exec \in [Job -> {"no", "submitted", "start", "announce", "recheck", "call", "wait",
                               "persist", "notify"}]
          /\ snap \in [Job -> Terminal \cup {"none"}]
          /\ keep \in [Job -> BOOLEAN]
          /\ func \subseteq Job
          /\ cancel \in [Job -> {"no", "snapshot", "write"}]
          /\ csnap \in [Job -> Status \cup {"none"}]
          /\ remote \in [Job -> {"no", "write", "done"}]
          /\ ssnap \in [Job -> Status \cup {"none"}]
          /\ accepted \subseteq Job /\ lost \subseteq Job
          /\ events \in 0..MaxEvents

\* What job_tracker.py says of complete_job and fail_job: the first terminal
\* write always wins.  It does not: the worker writes completed_partial and the
\* tracker completed over it.
FirstTerminalWins == [][\A j \in Job :
    row[j] \in Terminal => row'[j] = row[j]]_vars

\* What holds instead.  However late a snapshot is written, a row that reached a
\* terminal status never becomes pending or running again (the guard of
\* update_job), and a completion or a failure is not turned into one another:
\* it loses to a cancellation of another node that saw the job active, and only
\* such a cancellation loses to the outcome.
LateWritesRevokeNothing == [][\A j \in Job : row[j] \in Terminal /\ row'[j] # row[j] =>
    /\ row'[j] \in Terminal
    /\ \/ {row[j], row'[j]} = {"completed", "completed_partial"}
       \/ row[j] = "cancelled" /\ remote[j] = "done"
       \/ row'[j] = "cancelled" /\ remote[j] = "write"]_vars

\* What get_job_status shows: memory first, then the row.
View(j) == IF mem[j] # "none" THEN mem[j] ELSE row[j]

\* A caller that has seen a job finished never sees it unfinished again while the
\* server is up, unless it was cancelled just when its worker had looked and found
\* it not cancelled, or by another node while it was being submitted, or cleanup
\* forgot it after its row could not be written.
VisibleStaysFinished == [][\A j \in Job : View(j) \in Terminal =>
    \/ View(j)' \in Terminal
    \/ exec[j] = "start" /\ j \in flag
    \/ exec[j] = "submitted" /\ remote[j] = "done"
    \/ exec[j] = "no" /\ row[j] \in Active
    \/ ~up']_vars

\* A job whose cancellation was accepted here is never shown as completed.
CancelSticks == \A j \in accepted : View(j) \notin {"completed", "completed_partial"}

\* The functions of two jobs of one key never run at the same time, unless the
\* row of one of them says cancelled: its function may outlive it.
ExclusiveUnlessCancelled == \A i, j \in func : i # j /\ Key[i] = Key[j] =>
    \E k \in {i, j} : row[k] = "cancelled"

\* The tracker's memory holds no job that nobody works on any more, except one
\* that cleanup took out of the manager's memory while it was in the queue.
TrackerForgets == \A j \in tracked :
    exec[j] # "no" \/ j \in {queue[i] : i \in DOMAIN queue} \/ j \in lost

\* Every submitted job is seen finished some day: by its worker, or after the
\* restart of a server that died or stopped with it, unless the cleanup of that
\* restart failed.
EveryJobEnds == \A j \in Job :
    (exec[j] = "submitted") ~> (View(j) \in Terminal \/ j \in lost)
=============================================================================
