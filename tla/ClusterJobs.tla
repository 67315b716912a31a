---------------------------- MODULE ClusterJobs ----------------------------
(***************************************************************************)
(* Pod-pull jobs in cluster mode: rows of the shared background_jobs table *)
(* that the IndexJobClaimLoop of any node claims (DistributedJobClaimer),  *)
(* that users cancel, and that the leader's JobReconciliationService takes *)
(* back from nodes without a heartbeat (NodeHeartbeatService).             *)
(*                                                                         *)
(* One SQL statement is one step.  A node stops in the order of lifespan:  *)
(* the claim loop first, the heartbeat later, the process last, while the  *)
(* loop's thread may run on until the process is gone.                     *)
(***************************************************************************)
EXTENDS Integers, FiniteSets

CONSTANTS Node, Job,
          Repo,        \* the (operation_type, repo_alias) key of a job
          Stable,      \* nodes that neither crash nor stop
          MaxOutages,  \* bound on crashes, shutdowns and heartbeat lapses
          None

ASSUME NodeAssumption == None \notin Node /\ None \notin Job
ASSUME StableAssumption == Stable \subseteq Node /\ MaxOutages \in Nat

VARIABLES
    status, owner,    \* columns status and executing_node of a row
    aged,             \* claimed_at is older than the grace period
    life,             \* per node: the process and how far its shutdown got
    fresh,            \* per node: online, last_heartbeat within the threshold
    lapsed,           \* (history) lost its heartbeat since it registered
    loop, cur,        \* per node: the claim loop's step and its job
    flight, rel,      \* IndexJobClaimLoop._in_flight; what stop() read of it
    valid,            \* (history) nobody took the loop's job from it
    sweep, active,    \* the reconciler's step and its list of active nodes
    young,            \* jobs claimed since that list was read
    cancelling,       \* jobs that passed the status check of cancel_job
    stranded,         \* (history) jobs whose claim or outcome got lost
    outages

rowVars   == <<status, owner, aged>>
nodeVars  == <<life, fresh, lapsed, rel, outages>>
loopVars  == <<loop, cur, flight, valid, stranded>>
sweepVars == <<sweep, active, young>>
vars == <<rowVars, nodeVars, loopVars, sweepVars, cancelling>>

Terminal  == {"completed", "failed", "cancelled"}
Active(j) == status[j] \in {"pending", "running"}

\* Violates the partial unique index idx_active_job_per_repo.
Conflict(j) == \E i \in Job \ {j} : Repo[i] = Repo[j] /\ Active(i)

Init == /\ status = [j \in Job |-> "none"]
        /\ owner = [j \in Job |-> None]
        /\ aged = [j \in Job |-> FALSE]
        /\ life = [n \in Node |-> "up"]
        /\ fresh = [n \in Node |-> TRUE]
        /\ lapsed = [n \in Node |-> FALSE]
        /\ loop = [n \in Node |-> "idle"]
        /\ cur = [n \in Node |-> None]
        /\ flight = [n \in Node |-> None]
        /\ rel = [n \in Node |-> None]
        /\ valid = [n \in Node |-> FALSE]
        /\ sweep = "idle" /\ active = {} /\ young = {}
        /\ cancelling = {} /\ stranded = {}
        /\ outages = 0

----------------------------------------------------------------------------
(* Submission and cancellation.                                             *)

\* Mutant: the row is stamped with the node that submitted it.
SubmitStamped(j) == /\ status[j] = "none" /\ ~Conflict(j)
                    /\ status' = [status EXCEPT ![j] = "pending"]
                    /\ \E n \in Node : owner' = [owner EXCEPT ![j] = n]
                    /\ UNCHANGED <<aged, nodeVars, loopVars, sweepVars,
                                   cancelling>>

\* submit_job of a pod-pull operation: inserted pending and unowned, unless
\* an active job of the same key exists (DuplicateJobError).
Submit(j) == /\ status[j] = "none" /\ ~Conflict(j)
             /\ status' = [status EXCEPT ![j] = "pending"]
             /\ UNCHANGED <<owner, aged, nodeVars, loopVars, sweepVars,
                            cancelling>>

\* cancel_job reads the row ...
CancelCheck(j) == /\ Active(j) /\ j \notin cancelling
                  /\ cancelling' = cancelling \cup {j}
                  /\ UNCHANGED <<rowVars, nodeVars, loopVars, sweepVars>>

\* ... and updates it in another statement, whatever it has become.
CancelWrite(j) == /\ j \in cancelling
                  /\ cancelling' = cancelling \ {j}
                  /\ status' = [status EXCEPT ![j] = "cancelled"]
                  /\ UNCHANGED <<owner, aged, nodeVars, loopVars, sweepVars>>

----------------------------------------------------------------------------
(* The claim loop of a node.  Its thread runs until the process is gone.    *)

\* The stop event is read here, the claim comes later.
Poll(n) == /\ loop[n] = "idle" /\ life[n] = "up"
           /\ loop' = [loop EXCEPT ![n] = "polling"]
           /\ UNCHANGED <<rowVars, nodeVars, cur, flight, valid, stranded,
                          sweepVars, cancelling>>

\* claim_next_job returns None: memory gate, or no row that is not locked.
ClaimNothing(n) == /\ loop[n] = "polling"
                   /\ loop' = [loop EXCEPT ![n] = "idle"]
                   /\ UNCHANGED <<rowVars, nodeVars, cur, flight, valid,
                                  stranded, sweepVars, cancelling>>

\* UPDATE ... FOR UPDATE SKIP LOCKED RETURNING.
TakeRow(n, j) == /\ loop[n] = "polling"
                 /\ status[j] = "pending" /\ owner[j] = None
                 /\ status' = [status EXCEPT ![j] = "running"]
                 /\ owner' = [owner EXCEPT ![j] = n]
                 /\ aged' = [aged EXCEPT ![j] = FALSE]
                 /\ young' = IF sweep = "listed" THEN young \cup {j} ELSE young

Claim(n, j) == /\ TakeRow(n, j)
               /\ loop' = [loop EXCEPT ![n] = "claimed"]
               /\ cur' = [cur EXCEPT ![n] = j]
               /\ valid' = [valid EXCEPT ![n] = TRUE]
               /\ UNCHANGED <<nodeVars, flight, stranded, sweep, active,
                              cancelling>>

\* The claim is committed but the answer is lost: the loop logs the error and
\* polls again, and the row stays with a node that does not know of it.
ClaimLost(n, j) == /\ TakeRow(n, j)
                   /\ loop' = [loop EXCEPT ![n] = "idle"]
                   /\ stranded' = stranded \cup {j}
                   /\ UNCHANGED <<nodeVars, cur, flight, valid, sweep, active,
                                  cancelling>>

\* _in_flight is set and the executor starts.
Execute(n) == /\ loop[n] = "claimed"
              /\ loop' = [loop EXCEPT ![n] = "executing"]
              /\ flight' = [flight EXCEPT ![n] = cur[n]]
              /\ UNCHANGED <<rowVars, nodeVars, cur, valid, stranded, sweepVars,
                             cancelling>>

\* Mutant: the update is not scoped to the node.
RecordAnyones(n, s) ==
    /\ loop[n] = "executing"
    /\ loop' = [loop EXCEPT ![n] = "recorded"]
    /\ status' = [status EXCEPT ![cur[n]] = s]
    /\ UNCHANGED <<owner, aged, nodeVars, cur, flight, valid, stranded,
                   sweepVars, cancelling>>

\* complete_job or fail_job: WHERE executing_node = this node, and nothing
\* about the status the row has.
Record(n, s) ==
    /\ loop[n] = "executing"
    /\ loop' = [loop EXCEPT ![n] = "recorded"]
    /\ status' = IF owner[cur[n]] = n THEN [status EXCEPT ![cur[n]] = s]
                                      ELSE status
    /\ UNCHANGED <<owner, aged, nodeVars, cur, flight, valid, stranded,
                   sweepVars, cancelling>>

\* Both complete_job and fail_job raise: the loop logs and goes on, and the
\* row stays with this node.
RecordLost(n) == /\ loop[n] = "executing"
                 /\ loop' = [loop EXCEPT ![n] = "recorded"]
                 /\ stranded' = IF owner[cur[n]] = n
                                THEN stranded \cup {cur[n]} ELSE stranded
                 /\ UNCHANGED <<rowVars, nodeVars, cur, flight, valid,
                                sweepVars, cancelling>>

\* The finally clause.
Land(n) == /\ loop[n] = "recorded"
           /\ loop' = [loop EXCEPT ![n] = "idle"]
           /\ cur' = [cur EXCEPT ![n] = None]
           /\ flight' = [flight EXCEPT ![n] = None]
           /\ valid' = [valid EXCEPT ![n] = FALSE]
           /\ UNCHANGED <<rowVars, nodeVars, stranded, sweepVars, cancelling>>

----------------------------------------------------------------------------
(* Shutdown, crash, start and heartbeat of a node.                          *)

\* IndexJobClaimLoop.stop: set the event and read _in_flight ...
Stop(n) == /\ n \notin Stable /\ life[n] = "up" /\ outages < MaxOutages
           /\ outages' = outages + 1
           /\ life' = [life EXCEPT ![n] = "releasing"]
           /\ rel' = [rel EXCEPT ![n] = flight[n]]
           /\ UNCHANGED <<rowVars, fresh, lapsed, loopVars, sweepVars,
                          cancelling>>

Released(j) == /\ status' = [status EXCEPT ![j] = "pending"]
               /\ owner' = [owner EXCEPT ![j] = None]
               /\ aged' = [aged EXCEPT ![j] = FALSE]
               /\ valid' = [n \in Node |-> valid[n] /\ cur[n] # j]

\* The UPDATE matches the row and the unique index accepts it.  The row's status
\* is not asked for.
MayRelease(n, j) == /\ rel[n] = j /\ owner[j] = n
                    /\ Active(j) \/ ~Conflict(j)

\* ... release_job what it read, wherever the loop has got to since; a database
\* error is swallowed.
ReleaseJob(n) ==
    /\ life[n] = "releasing"
    /\ life' = [life EXCEPT ![n] = "joining"]
    /\ rel' = [rel EXCEPT ![n] = None]
    /\ \/ \E j \in Job : MayRelease(n, j) /\ Released(j)
       \/ UNCHANGED <<rowVars, valid>>
    /\ UNCHANGED <<fresh, lapsed, outages, loop, cur, flight, stranded,
                   sweepVars, cancelling>>

\* The join returned or timed out; the heartbeat thread ends and marks the
\* node offline, or fails to and leaves it to the threshold.
GoOffline(n) == /\ life[n] = "joining"
                /\ life' = [life EXCEPT ![n] = "offline"]
                /\ \/ fresh' = [fresh EXCEPT ![n] = FALSE]
                   \/ UNCHANGED fresh
                /\ UNCHANGED <<rowVars, lapsed, rel, outages, loopVars,
                               sweepVars, cancelling>>

\* The process is gone, its threads with it.
Die(n) == /\ life' = [life EXCEPT ![n] = "down"]
          /\ rel' = [rel EXCEPT ![n] = None]
          /\ loop' = [loop EXCEPT ![n] = "idle"]
          /\ cur' = [cur EXCEPT ![n] = None]
          /\ flight' = [flight EXCEPT ![n] = None]
          /\ valid' = [valid EXCEPT ![n] = FALSE]
          /\ UNCHANGED <<rowVars, fresh, lapsed, stranded, sweepVars, cancelling>>

Exit(n) == life[n] = "offline" /\ Die(n) /\ UNCHANGED outages

Crash(n) == /\ n \notin Stable /\ life[n] # "down" /\ outages < MaxOutages
            /\ outages' = outages + 1
            /\ Die(n)

\* cleanup_orphaned_jobs_on_startup, scoped to this node ...
Start(n) == /\ life[n] = "down"
            /\ life' = [life EXCEPT ![n] = "booting"]
            /\ status' = [j \in Job |-> IF owner[j] = n /\ Active(j)
                                        THEN "failed" ELSE status[j]]
            /\ UNCHANGED <<owner, aged, fresh, lapsed, rel, outages, loopVars,
                           sweepVars, cancelling>>

\* ... then the heartbeat registers the node and the claim loop starts.
Register(n) == /\ life[n] = "booting"
               /\ life' = [life EXCEPT ![n] = "up"]
               /\ fresh' = [fresh EXCEPT ![n] = TRUE]
               /\ lapsed' = [lapsed EXCEPT ![n] = FALSE]
               /\ UNCHANGED <<rowVars, rel, outages, loopVars, sweepVars,
                              cancelling>>

Beating(n) == life[n] \in {"up", "releasing", "joining"}

Heartbeat(n) == /\ Beating(n) /\ ~fresh[n]
                /\ fresh' = [fresh EXCEPT ![n] = TRUE]
                /\ UNCHANGED <<rowVars, life, lapsed, rel, outages, loopVars,
                               sweepVars, cancelling>>

\* The threshold passes after the last beat of a dead node.
HeartbeatExpires(n) == /\ ~Beating(n) /\ fresh[n]
                       /\ fresh' = [fresh EXCEPT ![n] = FALSE]
                       /\ UNCHANGED <<rowVars, life, lapsed, rel, outages,
                                      loopVars, sweepVars, cancelling>>

\* A live node cannot reach the database for longer than the threshold.
HeartbeatLapses(n) == /\ Beating(n) /\ fresh[n] /\ outages < MaxOutages
                      /\ outages' = outages + 1
                      /\ fresh' = [fresh EXCEPT ![n] = FALSE]
                      /\ lapsed' = [lapsed EXCEPT ![n] = TRUE]
                      /\ UNCHANGED <<rowVars, life, rel, loopVars, sweepVars,
                                     cancelling>>

----------------------------------------------------------------------------
(* JobReconciliationService.sweep on the leader.                            *)

\* get_active_nodes
ListActive == /\ sweep = "idle"
              /\ sweep' = "listed"
              /\ active' = {n \in Node : fresh[n]}
              /\ young' = {}
              /\ UNCHANGED <<rowVars, nodeVars, loopVars, cancelling>>

\* The rows the dead-node UPDATE matches; none when nobody is active.
Reclaimable == {j \in Job : /\ active # {}
                            /\ status[j] = "running"
                            /\ owner[j] \notin active \cup {None}
                            /\ aged[j]}

Sweep(J) == /\ sweep = "listed"
            /\ status' = [j \in Job |-> IF j \in J THEN "pending" ELSE status[j]]
            /\ owner' = [j \in Job |-> IF j \in J THEN None ELSE owner[j]]
            /\ aged' = [j \in Job |-> aged[j] /\ j \notin J]
            /\ valid' = [n \in Node |-> valid[n] /\ cur[n] \notin J]
            /\ sweep' = "idle" /\ active' = {} /\ young' = {}
            /\ UNCHANGED <<nodeVars, loop, cur, flight, stranded, cancelling>>

\* Mutants: no grace period; the owner column is left as it was.
ReclaimNoGrace == Sweep({j \in Job : /\ active # {}
                                     /\ status[j] = "running"
                                     /\ owner[j] \notin active \cup {None}})
ReclaimKeepsOwner ==
    /\ sweep = "listed"
    /\ status' = [j \in Job |-> IF j \in Reclaimable THEN "pending"
                                                     ELSE status[j]]
    /\ sweep' = "idle" /\ active' = {} /\ young' = {}
    /\ UNCHANGED <<owner, aged, nodeVars, loopVars, cancelling>>

\* _reclaim_dead_node_jobs.  The second UPDATE of a sweep matches no row: a
\* claim sets started_at together with status = 'running'.
Reclaim == Sweep(Reclaimable)

\* A database error, or the leader changes.
SweepFails == sweep = "listed" /\ Sweep({})

\* NOW() - claimed_at passes the grace period.  The two statements of a sweep
\* are not that far apart, so not of a job claimed in between.
GracePasses(j) == /\ status[j] = "running" /\ ~aged[j] /\ j \notin young
                  /\ aged' = [aged EXCEPT ![j] = TRUE]
                  /\ UNCHANGED <<status, owner, nodeVars, loopVars, sweepVars,
                                 cancelling>>

----------------------------------------------------------------------------
LoopStep(n) == \/ Poll(n) \/ ClaimNothing(n)
               \/ (\E j \in Job : Claim(n, j) \/ ClaimLost(n, j))
               \/ Execute(n) \/ RecordLost(n) \/ Land(n)
               \/ \E s \in {"completed", "failed"} : Record(n, s)

LifeStep(n) == \/ Stop(n) \/ ReleaseJob(n) \/ GoOffline(n) \/ Exit(n)
               \/ Crash(n) \/ Start(n) \/ Register(n)
               \/ Heartbeat(n) \/ HeartbeatExpires(n) \/ HeartbeatLapses(n)

Next == \/ \E j \in Job : \/ Submit(j) \/ CancelCheck(j) \/ CancelWrite(j)
                          \/ GracePasses(j)
        \/ \E n \in Node : LoopStep(n) \/ LifeStep(n)
        \/ ListActive \/ Reclaim \/ SweepFails

Spec == Init /\ [][Next]_vars

\* Threads run and time passes.  Executors end, a sweep and a claim do not
\* fail for ever (memory pressure ends), a node that is going down goes down;
\* nothing makes a node that is down start again.
Fairness ==
    /\ \A n \in Node :
          /\ WF_vars(Poll(n) \/ Execute(n) \/ Land(n))
          /\ WF_vars(\E s \in {"completed", "failed"} : Record(n, s))
          /\ SF_vars(\E j \in Job : Claim(n, j))
          /\ WF_vars(ReleaseJob(n) \/ GoOffline(n) \/ Exit(n))
          /\ WF_vars(Heartbeat(n) \/ HeartbeatExpires(n))
    /\ \A j \in Job : SF_vars(GracePasses(j))
    /\ WF_vars(ListActive) /\ SF_vars(Reclaim)

FairSpec == Spec /\ Fairness

----------------------------------------------------------------------------
\* Type correctness; what stop() may read in _in_flight is the loop's job from
\* the start of its executor to the finally clause, and nothing otherwise.
TypeOK == /\ status \in [Job -> {"none", "pending", "running"} \cup Terminal]
          /\ owner \in [Job -> Node \cup {None}]
          /\ aged \in [Job -> BOOLEAN]
          /\ life \in [Node -> {"up", "releasing", "joining", "offline",
                                "down", "booting"}]
          /\ fresh \in [Node -> BOOLEAN] /\ lapsed \in [Node -> BOOLEAN]
          /\ loop \in [Node -> {"idle", "polling", "claimed", "executing",
                                "recorded"}]
          /\ cur \in [Node -> Job \cup {None}]
          /\ flight = [n \in Node |-> IF loop[n] \in {"executing", "recorded"}
                                      THEN cur[n] ELSE None]
          /\ rel \in [Node -> Job \cup {None}]
          /\ valid \in [Node -> BOOLEAN]
          /\ sweep \in {"idle", "listed"} /\ active \subseteq Node
          /\ young \subseteq Job /\ cancelling \subseteq Job
          /\ stranded \subseteq Job
          /\ outages \in 0..MaxOutages

\* A pending row can be claimed: whoever made it pending (submission, release
\* at shutdown, the sweep) left executing_node NULL, which a claim requires.
PendingIsClaimable == \A j \in Job : status[j] = "pending" => owner[j] = None

\* Only the latest claim of a job decides its outcome: a node that lost the
\* job to a shutdown release or a sweep, and goes on executing it, changes
\* nothing when it reports.
OutcomeFromLatestClaim ==
    [][\A n \in Node : loop[n] = "executing" /\ loop'[n] = "recorded"
                       /\ status' # status => valid[n]]_vars

\* "A running job on a live node is never reclaimed": a sweep takes no job
\* from a node whose heartbeat has not lapsed since it registered, also when
\* the node restarted and claimed after the sweep listed the active nodes.
LiveNodeKeepsItsJobs ==
    [][Reclaim => \A n \in Node : Beating(n) /\ ~lapsed[n] => valid'[n] = valid[n]]_vars

\* Every submitted job ends, through shutdowns, crashes without restart and
\* lost heartbeats, as long as one node stays; only a node that could not
\* write an outcome, or never saw the answer to its claim, leaves its job running.
JobsEnd == \A j \in Job : Active(j) ~> ~Active(j) \/ j \in stranded
=============================================================================
