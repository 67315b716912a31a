--------------------------- MODULE LeaderElection ---------------------------
(***************************************************************************)
(* Leader election by a PostgreSQL advisory lock, and the housekeeping     *)
(* services that only the leader should run (JobReconciliationService,     *)
(* DistributedJobWorkerService).                                           *)
(*                                                                         *)
(* Per node there are the monitor thread of LeaderElectionService, the     *)
(* main thread of the server (lifespan: startup and shutdown), and the     *)
(* threads of the services.  Monitor and main both run the callbacks       *)
(* _on_become_leader and _on_lose_leadership; a program counter is a pair  *)
(* <<step, i>>, where i is the service a callback is at, and 0 outside.    *)
(*                                                                         *)
(* lock = n means that the dedicated connection of n is alive and holds    *)
(* the lock; PostgreSQL frees it with the connection, while n only learns  *)
(* of that from its next ping.                                             *)
(***************************************************************************)
EXTENDS Integers, Sequences

CONSTANTS Node,
          Services,  \* how many services _on_become_leader starts
          MaxEvents, \* bound on crashes, lost connections, failures, shutdowns
          None

ASSUME NoneAssumption == None \notin Node
ASSUME ServicesAssumption == Services \in Nat \ {0}
ASSUME EventsAssumption == MaxEvents \in Nat

VARIABLES lock,      \* the node whose session holds the advisory lock
          conn,      \* _lock_conn is not None
          isLeader,  \* _is_leader_event
          stop,      \* _stop_event of the monitor
          cb,        \* how many of the two callbacks are assigned
          pc,        \* where the two threads of each node are
          svc,       \* each service's _thread, _stop_event and stray threads
          mishap,    \* what went wrong on a node since it started
          events     \* counts against MaxEvents

vars == <<lock, conn, isLeader, stop, cb, pc, svc, mishap, events>>
election == <<lock, conn, isLeader>>

Thread == {"monitor", "main"}
Svc == 1..Services
\* A service either forgets its thread in stop() even if it is still running
\* (JobReconciliationService) or keeps it (DistributedJobWorkerService).
NewService(forgets) == [thread |-> "none", stopped |-> FALSE, stray |-> FALSE,
                        forgets |-> forgets]

At(step) == <<step, 0>>
Become == <<"probe", 1>>
Lose   == <<"signal", 1>>
Goto(n, a, p) == pc' = [pc EXCEPT ![n][a] = p]
InCallback(n, a) == pc[n][a][2] # 0
Starting(n) == pc[n]["main"][1] \in {"probe", "spawn"}

Init == /\ lock = None
        /\ conn = [n \in Node |-> FALSE]
        /\ isLeader = [n \in Node |-> FALSE]
        /\ stop = [n \in Node |-> FALSE]
        /\ cb = [n \in Node |-> 0]
        /\ pc = [n \in Node |-> [a \in Thread |-> At("off")]]
        /\ \E f \in [Svc -> BOOLEAN] :
             svc = [n \in Node |-> [i \in Svc |-> NewService(f[i])]]
        /\ mishap = [n \in Node |-> {}]
        /\ events = 0

Event == events < MaxEvents /\ events' = events + 1
Mishap(n, what) == mishap' = [mishap EXCEPT ![n] = @ \cup what]

----------------------------------------------------------------------------
\* The database or the network drops the connection that holds the lock.
LoseConnection(n) == /\ Event
                     /\ lock = n
                     /\ lock' = None
                     /\ UNCHANGED <<conn, isLeader, stop, cb, pc, svc, mishap>>

\* The process ends, by itself or in a crash: its connections close, its
\* threads are gone, and it may be started again.
End(n) == /\ pc[n]["main"] # At("off")
          /\ lock' = IF lock = n THEN None ELSE lock
          /\ conn' = [conn EXCEPT ![n] = FALSE]
          /\ isLeader' = [isLeader EXCEPT ![n] = FALSE]
          /\ stop' = [stop EXCEPT ![n] = FALSE]
          /\ cb' = [cb EXCEPT ![n] = 0]
          /\ pc' = [pc EXCEPT ![n] = [a \in Thread |-> At("off")]]
          /\ svc' = [svc EXCEPT ![n] = [i \in Svc |-> NewService(@[i].forgets)]]
          /\ mishap' = [mishap EXCEPT ![n] = {}]

Exit(n) == pc[n]["main"] = At("exit") /\ End(n) /\ UNCHANGED events

Crash(n) == Event /\ End(n)

----------------------------------------------------------------------------
\* _monitor_loop, not the leader: connect and pg_try_advisory_lock.  A failed
\* attempt closes its connection and changes nothing.
TryAcquire(n) == /\ pc[n]["monitor"] = At("loop") /\ ~stop[n]
                 /\ ~isLeader[n]
                 /\ lock = None
                 /\ lock' = n
                 /\ Goto(n, "monitor", At("won"))
                 /\ UNCHANGED <<conn, isLeader, stop, cb, svc, mishap, events>>

\* The connection is kept and the flag set ...
SetLeader(n) == /\ pc[n]["monitor"] = At("won")
                /\ conn' = [conn EXCEPT ![n] = TRUE]
                /\ isLeader' = [isLeader EXCEPT ![n] = TRUE]
                /\ Goto(n, "monitor", At("call"))
                /\ UNCHANGED <<lock, stop, cb, svc, mishap, events>>

\* ... and only then the callback is looked up.
CallBecome(n) ==
    /\ pc[n]["monitor"] = At("call")
    /\ Goto(n, "monitor", IF cb[n] = 0 THEN At("loop") ELSE Become)
    /\ Mishap(n, IF cb[n] # 0 /\ Starting(n) THEN {"raced"} ELSE {})
    /\ UNCHANGED <<election, stop, cb, svc, events>>

\* Mutant: the leader does not ping its connection.
PingNever(n) == FALSE /\ UNCHANGED vars

\* The leader's ping fails: step down and stop the services.
PingFails(n) ==
    /\ pc[n]["monitor"] = At("loop") /\ ~stop[n]
    /\ isLeader[n]
    /\ ~(conn[n] /\ lock = n)
    /\ conn' = [conn EXCEPT ![n] = FALSE]
    /\ isLeader' = [isLeader EXCEPT ![n] = FALSE]
    /\ Goto(n, "monitor", IF cb[n] < 2 THEN At("loop") ELSE Lose)
    /\ Mishap(n, IF pc[n]["main"] = At("assign") \/ Starting(n)
                 THEN {"raced"} ELSE {})
    /\ UNCHANGED <<lock, stop, cb, svc, events>>

MonitorExits(n) == /\ pc[n]["monitor"] = At("loop") /\ stop[n]
                   /\ Goto(n, "monitor", At("off"))
                   /\ UNCHANGED <<election, stop, cb, svc, mishap, events>>

----------------------------------------------------------------------------
\* Where a callback goes on after one service: to the next, or back to its
\* caller (the monitor loop; startup; shutdown before or after the release).
After(n, a, step) ==
    IF pc[n][a][2] < Services THEN <<step, pc[n][a][2] + 1>>
    ELSE IF a = "monitor" THEN At("loop")
    ELSE IF step = "probe" THEN At("up")
    ELSE IF stop[n] THEN At("exit") ELSE At("halt")

\* Mutant: start() does not look for a running thread.
ProbeNot(n, a) == /\ pc[n][a][1] = "probe"
                  /\ Goto(n, a, <<"spawn", pc[n][a][2]>>)
                  /\ UNCHANGED <<election, stop, cb, svc, mishap, events>>

\* start(): nothing to do if the thread is alive -- also if it is stopping.
Probe(n, a) ==
    /\ pc[n][a][1] = "probe"
    /\ LET i == pc[n][a][2]
       IN Goto(n, a, IF svc[n][i].thread = "live" THEN After(n, a, "probe")
                     ELSE <<"spawn", i>>)
    /\ UNCHANGED <<election, stop, cb, svc, mishap, events>>

Started(s) == [s EXCEPT !.thread = "live", !.stopped = FALSE,
                        !.stray = @ \/ s.thread = "live"]

Spawn(n, a) == /\ pc[n][a][1] = "spawn"
               /\ svc' = [svc EXCEPT ![n][pc[n][a][2]] = Started(@)]
               /\ Goto(n, a, After(n, a, "probe"))
               /\ UNCHANGED <<election, stop, cb, mishap, events>>

\* Mutant: a failed callback clears the flag and keeps the connection.
RaiseKeepsLock(n, a) ==
    /\ Event
    /\ pc[n][a][1] = "spawn"
    /\ a = "monitor"
    /\ isLeader' = [isLeader EXCEPT ![n] = FALSE]
    /\ Goto(n, a, At("loop"))
    /\ Mishap(n, {"raised"})
    /\ UNCHANGED <<lock, conn, stop, cb, svc>>

\* Mutant: as before Bug #540, a failed callback is logged and the node keeps
\* flag and lock.
RaiseIsLogged(n, a) ==
    /\ Event
    /\ pc[n][a][1] = "spawn"
    /\ a = "monitor"
    /\ Goto(n, a, At("loop"))
    /\ Mishap(n, {"raised"})
    /\ UNCHANGED <<election, stop, cb, svc>>

\* The callback raises before or after a thread started.  In the monitor the
\* node gives up its leadership, and the services already started keep
\* running; in startup the error is logged and the node stays the leader.
Raise(n, a) ==
    /\ Event
    /\ pc[n][a][1] = "spawn"
    /\ \/ svc' = [svc EXCEPT ![n][pc[n][a][2]] = Started(@)]
       \/ svc' = [svc EXCEPT ![n][pc[n][a][2]].stopped = FALSE]
    /\ \/ /\ a = "monitor"
          /\ isLeader' = [isLeader EXCEPT ![n] = FALSE]
          /\ conn' = [conn EXCEPT ![n] = FALSE]
          /\ lock' = IF lock = n THEN None ELSE lock
          /\ Goto(n, a, At("loop"))
          /\ Mishap(n, {"raised"})
       \/ /\ a = "main"
          /\ UNCHANGED election
          /\ Goto(n, a, At("up"))
          /\ Mishap(n, {"failed"})
    /\ UNCHANGED <<stop, cb>>

\* stop(): set the event ...
Signal(n, a) == /\ pc[n][a][1] = "signal"
                /\ svc' = [svc EXCEPT ![n][pc[n][a][2]].stopped = TRUE]
                /\ Goto(n, a, <<"join", pc[n][a][2]>>)
                /\ UNCHANGED <<election, stop, cb, mishap, events>>

\* ... and join the thread, ...
Join(n, a) ==
    LET i == pc[n][a][2]
    IN /\ pc[n][a][1] = "join" /\ InCallback(n, a)
       /\ svc[n][i].thread # "live"
       /\ svc' = [svc EXCEPT ![n][i].thread = IF svc[n][i].forgets THEN "none" ELSE @]
       /\ Goto(n, a, After(n, a, "signal"))
       /\ UNCHANGED <<election, stop, cb, mishap, events>>

\* ... but not for ever: a thread inside a long sweep or refresh survives it, and
\* so does one whose event the other callback has cleared again.
JoinTimesOut(n, a) ==
    LET i == pc[n][a][2]
    IN /\ pc[n][a][1] = "join" /\ InCallback(n, a)
       /\ svc[n][i].thread = "live"
       /\ IF svc[n][i].stopped THEN Event ELSE UNCHANGED events
       /\ svc' = [svc EXCEPT ![n][i] = IF @.forgets
                                       THEN [@ EXCEPT !.thread = "none", !.stray = TRUE]
                                       ELSE @]
       /\ Mishap(n, {"overran"})
       /\ Goto(n, a, After(n, a, "signal"))
       /\ UNCHANGED <<election, stop, cb>>

\* A service thread that sees its event set returns.
ServiceExits(n, i) ==
    /\ svc[n][i].stopped
    /\ svc[n][i].thread = "live" \/ svc[n][i].stray
    /\ \/ /\ svc[n][i].thread = "live"
          /\ svc' = [svc EXCEPT ![n][i].thread = "dead"]
       \/ svc' = [svc EXCEPT ![n][i].stray = FALSE]
    /\ UNCHANGED <<election, stop, cb, pc, mishap, events>>

----------------------------------------------------------------------------
\* lifespan: the monitor runs long before the callbacks are assigned, one
\* after the other, and the flag is looked at last.
Boot(n) == /\ pc[n]["main"] = At("off")
           /\ pc' = [pc EXCEPT ![n] = [monitor |-> At("loop"), main |-> At("boot")]]
           /\ UNCHANGED <<election, stop, cb, svc, mishap, events>>

\* Anything between the two that raises leaves the election without callbacks:
\* the node may lead, but starts no services.
BootFails(n) == /\ Event
                /\ pc[n]["main"] = At("boot")
                /\ Goto(n, "main", At("up"))
                /\ Mishap(n, {"failed"})
                /\ UNCHANGED <<election, stop, cb, svc>>

Assign(n) == /\ pc[n]["main"] \in {At("boot"), At("assign")}
             /\ cb' = [cb EXCEPT ![n] = @ + 1]
             /\ Goto(n, "main", IF cb[n] = 0 THEN At("assign") ELSE At("check"))
             /\ UNCHANGED <<election, stop, svc, mishap, events>>

\* Mutant: startup relies on the monitor alone to call _on_become_leader.
CheckLeaderNot(n) == /\ pc[n]["main"] = At("check")
                     /\ Goto(n, "main", At("up"))
                     /\ UNCHANGED <<election, stop, cb, svc, mishap, events>>

CheckLeader(n) ==
    /\ pc[n]["main"] = At("check")
    /\ Goto(n, "main", IF isLeader[n] THEN Become ELSE At("up"))
    /\ Mishap(n, IF /\ isLeader[n]
                    /\ InCallback(n, "monitor") \/ pc[n]["monitor"] = At("call")
                 THEN {"raced"} ELSE {})
    /\ UNCHANGED <<election, stop, cb, svc, events>>

\* Shutdown stops the services themselves, then the monitor, and releases.
Shutdown(n) == /\ Event
               /\ pc[n]["main"] = At("up")
               /\ Goto(n, "main", Lose)
               /\ UNCHANGED <<election, stop, cb, svc, mishap>>

StopMonitoring(n) == /\ pc[n]["main"] = At("halt")
                     /\ stop' = [stop EXCEPT ![n] = TRUE]
                     /\ Goto(n, "main", At("wait"))
                     /\ UNCHANGED <<election, cb, svc, mishap, events>>

\* The monitor has ended, or join(timeout=15) gives up on it.
MonitorJoined(n) == /\ pc[n]["main"] = At("wait")
                    /\ IF pc[n]["monitor"] = At("off")
                       THEN UNCHANGED <<mishap, events>>
                       ELSE Event /\ Mishap(n, {"overran"})
                    /\ Goto(n, "main", At("close"))
                    /\ UNCHANGED <<election, stop, cb, svc>>

\* release_leadership
Close(n) == /\ pc[n]["main"] = At("close")
            /\ conn' = [conn EXCEPT ![n] = FALSE]
            /\ lock' = IF conn[n] /\ lock = n THEN None ELSE lock
            /\ Goto(n, "main", At("clear"))
            /\ UNCHANGED <<isLeader, stop, cb, svc, mishap, events>>

\* Mutant: the release does not call back.
ClearSilent(n) == /\ pc[n]["main"] = At("clear")
                  /\ isLeader' = [isLeader EXCEPT ![n] = FALSE]
                  /\ Goto(n, "main", At("exit"))
                  /\ UNCHANGED <<lock, conn, stop, cb, svc, mishap, events>>

Clear(n) == /\ pc[n]["main"] = At("clear")
            /\ isLeader' = [isLeader EXCEPT ![n] = FALSE]
            /\ Goto(n, "main", IF isLeader[n] /\ cb[n] = 2 THEN Lose ELSE At("exit"))
            /\ UNCHANGED <<lock, conn, stop, cb, svc, mishap, events>>

----------------------------------------------------------------------------
Callback(n, a) == \/ Probe(n, a) \/ Spawn(n, a)
                  \/ Signal(n, a) \/ Join(n, a) \/ JoinTimesOut(n, a)

Monitor(n) == \/ TryAcquire(n) \/ SetLeader(n) \/ CallBecome(n) \/ PingFails(n)
              \/ MonitorExits(n) \/ Callback(n, "monitor")

Main(n) == \/ Assign(n) \/ CheckLeader(n) \/ StopMonitoring(n) \/ MonitorJoined(n)
           \/ Close(n) \/ Clear(n) \/ Exit(n) \/ Callback(n, "main")

\* A running process makes progress: its threads are scheduled, the monitor
\* wakes up every check_interval, a service looks at its event between two
\* rounds.  Between two events there are finitely many such steps, so this
\* one condition keeps no thread waiting for ever.
Progress(n) == Monitor(n) \/ Main(n) \/ \E i \in Svc : ServiceExits(n, i)

Next == \E n \in Node :
          \/ Progress(n)
          \/ Boot(n) \/ BootFails(n) \/ Shutdown(n) \/ Crash(n) \/ LoseConnection(n)
          \/ \E a \in Thread : Raise(n, a)

Spec == Init /\ [][Next]_vars

Fairness == WF_vars(\E n \in Node : Progress(n))

FairSpec == Spec /\ Fairness

----------------------------------------------------------------------------
\* Types; the services a callback walks through are those there are.
TypeOK ==
    /\ lock \in Node \cup {None}
    /\ conn \in [Node -> BOOLEAN] /\ isLeader \in [Node -> BOOLEAN]
    /\ stop \in [Node -> BOOLEAN] /\ cb \in [Node -> 0..2]
    /\ \A n \in Node, a \in Thread :
         \/ /\ pc[n][a][1] \in {"probe", "spawn", "signal", "join"}
            /\ pc[n][a][2] \in Svc
         \/ /\ pc[n][a][1] \in {"off", "loop", "won", "call", "boot", "assign",
                                "check", "up", "halt", "wait", "close", "clear", "exit"}
            /\ pc[n][a][2] = 0
    /\ svc \in [Node -> [Svc -> [thread : {"none", "live", "dead"},
                                 stopped : BOOLEAN, stray : BOOLEAN,
                                 forgets : BOOLEAN]]]
    /\ mishap \in [Node -> SUBSET {"raced", "raised", "failed", "overran"}]
    /\ events \in 0..MaxEvents

\* A node between two rounds of its monitor, neither starting nor stopping.
Quiet(n) == pc[n]["monitor"] = At("loop") /\ pc[n]["main"] = At("up")

Running(s) == s.thread = "live" /\ ~s.stopped

\* "Only the leader node should run" the housekeeping services, and the leader
\* does run them: of the nodes at rest exactly those whose flag is set run
\* every service, in one thread each.  This covers an election won at any point
\* of startup.  It fails only after one of four mishaps: a callback of the
\* monitor raised halfway, startup failed before it assigned the callbacks or
\* inside of one, a thread outlived the join of its stop, or leadership changed
\* while startup was still hooking up or running the callbacks.
HousekeepingOnLeader == \A n \in Node : Quiet(n) /\ mishap[n] = {} =>
    \A i \in Svc : IF isLeader[n] THEN Running(svc[n][i]) /\ ~svc[n][i].stray
                   ELSE svc[n][i].thread # "live" /\ ~svc[n][i].stray

\* One thread per service at any time, however often main and monitor start it:
\* a second one needs an overrun or a race.
OneThreadEach == \A n \in Node, i \in Svc :
    svc[n][i].stray => mishap[n] \cap {"overran", "raced"} # {}

\* A node that shuts down in order leaves nothing behind: by the end it has
\* released the lock and stopped every service, although its monitor may have
\* won an election after shutdown had stopped the services the first time.
CleanExit == \A n \in Node :
    /\ pc[n]["main"] = At("exit") /\ pc[n]["monitor"] = At("off")
    /\ mishap[n] = {}
    => /\ lock # n /\ ~isLeader[n]
       /\ \A i \in Svc : svc[n][i].thread # "live" /\ ~svc[n][i].stray

\* No node sits on the lock without leading: outside of its election step a
\* node whose session holds the lock knows it, whatever its callbacks did.
NoOrphanLock == \A n \in Node :
    /\ lock = n /\ pc[n]["monitor"] = At("loop")
    /\ pc[n]["main"] \in {At("boot"), At("assign"), At("check"), At("up")}
    => isLeader[n] /\ conn[n]

\* A node that lost its lock stops calling itself the leader (or gets the lock
\* back): two nodes lead at once only until the next ping.
SplitBrainEnds == \A n \in Node :
    isLeader[n] /\ lock # n ~> ~isLeader[n] \/ lock = n

\* A leader that has its services, unless its startup failed, a thread outlived
\* a join or startup raced with the monitor.
Serves(n) == /\ isLeader[n] /\ lock = n
             /\ \/ \A i \in Svc : Running(svc[n][i])
                \/ mishap[n] \ {"raised"} # {}

\* A cluster with a running node does not stay without a leader that serves,
\* however often a callback of a monitor raised (Bug #540: "the node holds the
\* lock but never starts scheduler services").
LeaderEmerges == (\E n \in Node : pc[n]["main"] = At("up"))
                 ~> \/ \E n \in Node : Serves(n)
                    \/ \A n \in Node : pc[n]["main"] # At("up")

=============================================================================
