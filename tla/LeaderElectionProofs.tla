------------------------ MODULE LeaderElectionProofs ------------------------
(***************************************************************************)
(* An inductive invariant of LeaderElection for any number of nodes and    *)
(* services, and what follows from it.  Which services run on a node       *)
(* follows from how far monitor and main have come, so the invariant says, *)
(* for every place the two can be at, what holds of the flag, the          *)
(* connection and the service threads as long as no mishap happened.  It   *)
(* speaks of a node through a few observations; a step is described by     *)
(* what it does to these, and preserves the invariant because of that      *)
(* description alone.                                                      *)
(***************************************************************************)
EXTENDS LeaderElection, TLAPS

Starts  == {"probe", "spawn"}
Stops   == {"signal", "join"}
Closing == {"wait", "close", "clear", "exit"}

\* What there is to see of a node.
St(n, a)  == pc[n][a][1]
Ix(n, a)  == pc[n][a][2]
Owns(n)   == lock = n
Linked(n) == conn[n]
Lead(n)   == isLeader[n]
Halt(n)   == stop[n]
Hooks(n)  == cb[n]
Live(n, i)  == svc[n][i].thread = "live"
Told(n, i)  == svc[n][i].stopped
Stray(n, i) == svc[n][i].stray
Clean(n)   == mishap[n] = {}
Raced(n)   == "raced" \in mishap[n]
Overran(n) == "overran" \in mishap[n]

Domains == /\ DOMAIN conn = Node /\ DOMAIN isLeader = Node /\ DOMAIN stop = Node
           /\ DOMAIN cb = Node /\ DOMAIN pc = Node /\ DOMAIN svc = Node
           /\ DOMAIN mishap = Node
           /\ \A n \in Node : DOMAIN pc[n] = Thread /\ DOMAIN svc[n] = Svc
           /\ \A n \in Node, i \in Svc :
                DOMAIN svc[n][i] = {"thread", "stopped", "stray", "forgets"}

\* Where the two threads of a node can be.
Placed(n) == \A a \in Thread : pc[n][a] = <<St(n, a), Ix(n, a)>>

Places(n) ==
    /\ \/ St(n, "monitor") \in {"off", "loop", "won", "call"} /\ Ix(n, "monitor") = 0
       \/ St(n, "monitor") \in Starts \cup Stops /\ Ix(n, "monitor") \in Svc
    /\ \/ /\ St(n, "main") \in Closing \cup {"off", "boot", "assign", "check", "up", "halt"}
          /\ Ix(n, "main") = 0
       \/ St(n, "main") \in Starts \cup Stops /\ Ix(n, "main") \in Svc

\* The monitor's stop event is set exactly in the last part of shutdown, and
\* without a process there is no monitor and no leader.
StopInv(n) == /\ St(n, "main") \in Closing => Halt(n)
              /\ Halt(n) => St(n, "main") \in Closing \cup Stops
              /\ St(n, "main") = "off" => St(n, "monitor") = "off" /\ ~Lead(n)

\* A session that holds the lock belongs to a node that knows it or is about to.
LockInv(n) == Owns(n) /\ ~Halt(n) => St(n, "monitor") = "won" \/ (Linked(n) /\ Lead(n))

\* Two threads start services at once only in a race, and only then can start()
\* find a thread between its check and its own.
RaceInv(n) ==
    /\ St(n, "main") \in Starts /\ St(n, "monitor") \in Starts => Raced(n)
    /\ \A a \in Thread : St(n, a) = "spawn" /\ Live(n, Ix(n, a)) => Raced(n)
    /\ \A i \in Svc : Stray(n, i) => Overran(n) \/ Raced(n)

NoneLive(n)   == \A i \in Svc : ~Live(n, i)
AllRunning(n) == \A i \in Svc : Live(n, i) /\ ~Told(n, i)
Fresh(n)      == \A i \in Svc : Live(n, i) => ~Told(n, i)
UpTo(n, j)    == \A i \in Svc : i < j => Live(n, i) /\ ~Told(n, i)
DownTo(n, j)  == \A i \in Svc : i < j => ~Live(n, i)

Releasing(n) == St(n, "main") \in Stops /\ Halt(n)

\* The callbacks are assigned in step with startup.
HookInv(n) ==
    /\ St(n, "main") = "off" => Hooks(n) = 0
    /\ St(n, "monitor") = "off" => St(n, "main") = "off" \/ Halt(n)
    /\ St(n, "main") = "boot" => /\ Hooks(n) = 0 /\ NoneLive(n)
                                 /\ St(n, "monitor") \notin Starts \cup Stops
    /\ St(n, "main") = "assign" => Hooks(n) = 1
    /\ St(n, "main") \notin {"off", "boot", "assign"} => Hooks(n) = 2

\* What runs, by the place of the monitor ...
MonitorInv(n) ==
    /\ St(n, "monitor") \in {"off", "loop"} /\ ~Lead(n) /\ ~Releasing(n) => NoneLive(n)
    /\ St(n, "monitor") = "won" => ~Lead(n) /\ NoneLive(n)
    /\ St(n, "monitor") = "call" => Lead(n) /\ NoneLive(n)
    /\ St(n, "monitor") \in Starts =>
         /\ Lead(n) /\ Hooks(n) # 0
         /\ St(n, "main") \in {"assign", "check", "up"}
            => Fresh(n) /\ UpTo(n, Ix(n, "monitor"))
    /\ St(n, "monitor") \in Stops =>
         ~Lead(n) /\ Hooks(n) = 2 /\ DownTo(n, Ix(n, "monitor"))
    /\ St(n, "monitor") = "loop" /\ Lead(n) =>
         /\ St(n, "main") = "up" => AllRunning(n)
         /\ St(n, "main") \in {"assign", "check"} => AllRunning(n) \/ NoneLive(n)

\* ... and by the place of the main thread.
MainInv(n) ==
    /\ St(n, "main") \in Starts => /\ St(n, "monitor") = "loop" /\ Lead(n)
                                   /\ Fresh(n) /\ UpTo(n, Ix(n, "main"))
    /\ St(n, "main") \in {"close", "clear", "exit"} \/ Releasing(n)
       => St(n, "monitor") = "off"
    /\ St(n, "main") \in {"clear", "exit"} \/ Releasing(n) => ~Linked(n) /\ ~Owns(n)
    /\ St(n, "main") = "exit" \/ Releasing(n) => ~Lead(n)
    /\ Releasing(n) => DownTo(n, Ix(n, "main"))
    /\ St(n, "main") = "exit" => NoneLive(n)
    /\ Owns(n) => St(n, "monitor") = "won" \/ Linked(n)

ServiceInv(n) == Clean(n) => HookInv(n) /\ MonitorInv(n) /\ MainInv(n)

NodeInv(n) == /\ Placed(n) /\ Places(n) /\ StopInv(n) /\ LockInv(n) /\ RaceInv(n)
              /\ ServiceInv(n)

IInv == Domains /\ \A n \in Node : NodeInv(n)

----------------------------------------------------------------------------
\* The invariant holds while no node runs.
LEMMA InitIInv == Init => IInv
  <1> SUFFICES ASSUME Init PROVE IInv OBVIOUS
  <1> USE NoneAssumption DEF Init, At, NewService, Thread
  <1>1. Domains BY DEF Domains
  <1>2. ASSUME NEW n \in Node PROVE NodeInv(n)
    <2>1. /\ \A a \in Thread : pc[n][a] = <<"off", 0>> /\ St(n, a) = "off" /\ Ix(n, a) = 0
          /\ ~Owns(n) /\ ~Linked(n) /\ ~Lead(n) /\ ~Halt(n) /\ Hooks(n) = 0
          /\ \A i \in Svc : ~Live(n, i) /\ ~Told(n, i) /\ ~Stray(n, i)
      BY DEF St, Ix, Owns, Linked, Lead, Halt, Hooks, Live, Told, Stray
    <2> HIDE DEF Init
    <2>2. Placed(n) /\ Places(n) /\ StopInv(n) /\ LockInv(n) /\ RaceInv(n)
      BY <2>1, Zenon
         DEF Placed, Places, StopInv, LockInv, RaceInv, Closing, Starts, Stops
    <2>3. HookInv(n) /\ MonitorInv(n) /\ MainInv(n)
      BY <2>1, Zenon
         DEF HookInv, MonitorInv, MainInv, NoneLive, Releasing, Starts, Stops
    <2> QED BY <2>2, <2>3, Zenon DEF NodeInv, ServiceInv
  <1> QED BY <1>1, <1>2, Zenon DEF IInv

\* What a step may leave alone of a node.
KeepThread(n, a) == St(n, a)' = St(n, a) /\ Ix(n, a)' = Ix(n, a)
KeepElection(n)  == /\ Owns(n)' <=> Owns(n)
                    /\ Linked(n)' <=> Linked(n)
                    /\ Lead(n)' <=> Lead(n)
KeepFlags(n)     == (Halt(n)' <=> Halt(n)) /\ Hooks(n)' = Hooks(n)
KeepServices(n)  == \A i \in Svc : /\ Live(n, i)' <=> Live(n, i)
                                   /\ Told(n, i)' <=> Told(n, i)
                                   /\ Stray(n, i)' <=> Stray(n, i)
\* Threads that were told to stop may end.
WaneServices(n)  == \A i \in Svc : /\ Live(n, i)' => Live(n, i)
                                   /\ Live(n, i) /\ ~Told(n, i) => Live(n, i)'
                                   /\ Told(n, i)' <=> Told(n, i)
                                   /\ Stray(n, i)' => Stray(n, i)
\* Mishaps are not forgotten while the process lives.
GrowMishap(n)    == /\ Clean(n)' => Clean(n)
                    /\ Raced(n) => Raced(n)'
                    /\ Overran(n) => Overran(n)'

\* A node on which no thread moves, but that may lose the lock.
LEMMA KeptNode ==
    ASSUME NEW n \in Node, NodeInv(n), Placed(n)',
           \A a \in Thread : KeepThread(n, a), KeepFlags(n), WaneServices(n), GrowMishap(n),
           Owns(n)' => Owns(n), Linked(n)' <=> Linked(n), Lead(n)' <=> Lead(n)
    PROVE  NodeInv(n)'
  <1> USE DEF KeepThread, KeepFlags, WaneServices, GrowMishap, Thread
  <1>1. Places(n)' BY Zenon DEF NodeInv, Places
  <1>2. StopInv(n)' /\ LockInv(n)' BY Zenon DEF NodeInv, StopInv, LockInv
  <1>3. RaceInv(n)'
    <2>1. ASSUME NEW a \in Thread, St(n, a)' = "spawn", Live(n, Ix(n, a))' PROVE Raced(n)'
      <3>1. St(n, a) = "spawn" /\ Ix(n, a)' = Ix(n, a) /\ Ix(n, a) \in Svc
        BY <2>1, Zenon DEF NodeInv, Places, Starts, Stops, Closing
      <3>2. Live(n, Ix(n, a)) BY <2>1, <3>1, Zenon
      <3> QED BY <3>1, <3>2, Zenon DEF NodeInv, RaceInv
    <2> QED BY <2>1, Zenon DEF NodeInv, RaceInv, Starts
  <1>4. ASSUME Clean(n)' PROVE HookInv(n)' /\ MonitorInv(n)' /\ MainInv(n)'
    <2>1. HookInv(n) /\ MonitorInv(n) /\ MainInv(n)
      BY <1>4, Zenon DEF NodeInv, ServiceInv
    <2>2. /\ NoneLive(n) => NoneLive(n)'
          /\ Fresh(n) => Fresh(n)'
          /\ AllRunning(n) => AllRunning(n)'
      BY Zenon DEF NoneLive, AllRunning, Fresh
    <2>3. /\ UpTo(n, Ix(n, "monitor")) => UpTo(n, Ix(n, "monitor"))'
          /\ DownTo(n, Ix(n, "monitor")) => DownTo(n, Ix(n, "monitor"))'
          /\ UpTo(n, Ix(n, "main")) => UpTo(n, Ix(n, "main"))'
          /\ DownTo(n, Ix(n, "main")) => DownTo(n, Ix(n, "main"))'
      BY Zenon DEF UpTo, DownTo
    <2>4. HookInv(n)' BY <2>1, <2>2, Zenon DEF HookInv
    <2>5. Releasing(n)' <=> Releasing(n) BY Zenon DEF Releasing
    <2> HIDE DEF WaneServices
    <2>6. MonitorInv(n)' BY <2>1, <2>2, <2>3, <2>5, Zenon DEF MonitorInv
    <2>7. MainInv(n)' BY <2>1, <2>2, <2>3, <2>5, Zenon DEF MainInv
    <2> QED BY <2>4, <2>6, <2>7, Zenon
  <1> QED BY <1>1, <1>2, <1>3, <1>4, Zenon DEF NodeInv, ServiceInv

\* What a step of one node leaves alone on the others.
Elsewhere(n) == \A m \in Node \ {n} :
    /\ pc'[m] = pc[m] /\ stop'[m] = stop[m] /\ conn'[m] = conn[m]
    /\ isLeader'[m] = isLeader[m] /\ cb'[m] = cb[m] /\ svc'[m] = svc[m]
    /\ mishap'[m] = mishap[m]
    /\ lock' = m => lock = m

LEMMA Local ==
    ASSUME IInv, NEW n \in Node, Domains', Elsewhere(n), NodeInv(n)'
    PROVE  IInv'
  <1> SUFFICES ASSUME NEW m \in Node, m # n PROVE NodeInv(m)' BY DEF IInv
  <1>1. NodeInv(m) BY DEF IInv
  <1>2. Placed(m)' BY <1>1 DEF Elsewhere, NodeInv, Placed, St, Ix
  <1>3. /\ \A a \in Thread : KeepThread(m, a)
        /\ KeepFlags(m) /\ WaneServices(m) /\ GrowMishap(m)
        /\ Owns(m)' => Owns(m)
        /\ Linked(m)' <=> Linked(m)
        /\ Lead(m)' <=> Lead(m)
    BY Zenon
       DEF Elsewhere, KeepThread, KeepFlags, WaneServices, GrowMishap, St, Ix, Owns,
           Linked, Lead, Halt, Hooks, Live, Told, Stray, Clean, Raced, Overran
  <1> QED BY <1>1, <1>2, <1>3, KeptNode, Zenon

\* The effects of what most steps do: leave a variable alone, or move one thread.
LEMMA Unchanged ==
    ASSUME NEW n \in Node
    PROVE  /\ svc' = svc => KeepServices(n)
           /\ stop' = stop /\ cb' = cb => KeepFlags(n)
           /\ mishap' = mishap => GrowMishap(n)
           /\ lock' = lock => (Owns(n)' <=> Owns(n))
           /\ conn' = conn => (Linked(n)' <=> Linked(n))
           /\ isLeader' = isLeader => (Lead(n)' <=> Lead(n))
  BY Zenon
     DEF KeepServices, KeepFlags, GrowMishap, Owns, Linked, Lead, Halt, Hooks, Live,
         Told, Stray, Clean, Raced, Overran

LEMMA Mishaps ==
    ASSUME IInv, NEW n \in Node, NEW X, Mishap(n, X)
    PROVE  /\ GrowMishap(n)
           /\ X # {} => ~Clean(n)'
           /\ "raced" \in X => Raced(n)'
           /\ "overran" \in X => Overran(n)'
  <1>1. mishap'[n] = mishap[n] \cup X BY Zenon DEF IInv, Domains, Mishap
  <1> QED BY <1>1, Zenon DEF GrowMishap, Clean, Raced, Overran

LEMMA Here == ASSUME NEW n, NEW a, NEW p, pc[n][a] = At(p) PROVE St(n, a) = p /\ Ix(n, a) = 0
  BY DEF At, St, Ix

\* Threads move on one node only.
OnlyHere(n) == /\ DOMAIN pc' = Node /\ DOMAIN pc'[n] = Thread
               /\ \A m \in Node \ {n} : pc'[m] = pc[m]

LEMMA Moved ==
    ASSUME IInv, NEW n \in Node, NEW a \in Thread, NEW p, NEW q, Goto(n, a, <<p, q>>)
    PROVE  /\ St(n, a)' = p /\ Ix(n, a)' = q /\ Placed(n)'
           /\ \A b \in Thread : b # a => KeepThread(n, b)
           /\ OnlyHere(n)
  <1>1. DOMAIN pc = Node /\ DOMAIN pc[n] = Thread BY Zenon DEF IInv, Domains
  <1>2. /\ pc'[n][a] = <<p, q>>
        /\ \A b \in Thread : b # a => pc'[n][b] = pc[n][b]
        /\ DOMAIN pc' = Node /\ DOMAIN pc'[n] = Thread
        /\ \A m \in Node \ {n} : pc'[m] = pc[m]
    BY <1>1, Zenon DEF Goto
  <1>3. \A b \in Thread : pc[n][b] = <<St(n, b), Ix(n, b)>>
    BY Zenon DEF IInv, NodeInv, Placed
  <1> QED BY <1>2, <1>3 DEF St, Ix, Placed, KeepThread, OnlyHere

SameServices(n) == /\ NoneLive(n)' <=> NoneLive(n)
                   /\ AllRunning(n)' <=> AllRunning(n)
                   /\ Fresh(n)' <=> Fresh(n)
                   /\ \A j : UpTo(n, j)' <=> UpTo(n, j)
                   /\ \A j : DownTo(n, j)' <=> DownTo(n, j)

\* What all services do says something of some of them.
LEMMA Every ==
    ASSUME NEW n \in Node
    PROVE  /\ NoneLive(n) => Fresh(n) /\ \A j : DownTo(n, j)
           /\ AllRunning(n) => Fresh(n) /\ \A j : UpTo(n, j)
           /\ UpTo(n, 1) /\ DownTo(n, 1)
  BY ServicesAssumption DEF NoneLive, AllRunning, Fresh, UpTo, DownTo, Svc

LEMMA ServicesKept == ASSUME NEW n \in Node, KeepServices(n) PROVE SameServices(n)
  BY Zenon DEF SameServices, KeepServices, NoneLive, AllRunning, Fresh, UpTo, DownTo

----------------------------------------------------------------------------
\* The steps of the monitor and of startup and shutdown.  Each lemma states
\* where the moving thread was, what became of the flags, where the thread is
\* now, and derives every part of the invariant from that.
LEMMA TryAcquireIInv == ASSUME IInv, NEW n \in Node, TryAcquire(n) PROVE IInv'
  <1> USE NoneAssumption DEF Thread
  <1>1. Placed(n) /\ Places(n) /\ StopInv(n) /\ LockInv(n) /\ RaceInv(n) /\ ServiceInv(n)
    BY Zenon DEF IInv, NodeInv
  <1>2. /\ St(n, "monitor") = "loop" /\ ~Halt(n) /\ ~Lead(n)
    BY Here, Zenon DEF TryAcquire, Lead, Halt
  <1>3. /\ Linked(n)' <=> Linked(n)
        /\ Lead(n)' <=> Lead(n)
        /\ KeepFlags(n) /\ KeepServices(n) /\ GrowMishap(n)
    BY Unchanged, Zenon DEF TryAcquire, election
  <1>4. /\ St(n, "monitor")' = "won"
        /\ Ix(n, "monitor")' = 0
        /\ KeepThread(n, "main") /\ Placed(n)' /\ OnlyHere(n)
    <2>1. Goto(n, "monitor", <<"won", 0>>)
      BY Zenon DEF TryAcquire, At
    <2> QED BY <2>1, Moved, Zenon
  <1>5. Domains' BY <1>4, Zenon
                    DEF IInv, Domains, OnlyHere, TryAcquire, Mishap, election
  <1>6. Elsewhere(n)
    BY <1>4, Zenon
       DEF IInv, Domains, Elsewhere, OnlyHere, TryAcquire, Mishap, election
  <1>7. Places(n)'
    BY <1>1, <1>2, <1>4, ServicesAssumption, Zenon
       DEF Places, KeepThread, Starts, Stops, Closing, Svc
  <1>8. StopInv(n)'
    BY <1>1, <1>2, <1>3, <1>4, Zenon
       DEF StopInv, KeepThread, KeepFlags, Stops, Closing
  <1>9. LockInv(n)'
    BY <1>1, <1>2, <1>3, <1>4, Zenon
       DEF LockInv, StopInv, KeepThread, KeepFlags, Stops, Closing
  <1>10. RaceInv(n)'
    BY <1>1, <1>2, <1>3, <1>4, Zenon
       DEF Places, RaceInv, KeepServices, KeepThread, GrowMishap, Starts, Stops,
           Closing
  <1>11. ASSUME Clean(n)' PROVE HookInv(n)' /\ MonitorInv(n)' /\ MainInv(n)'
    <2>1. HookInv(n) /\ MonitorInv(n) /\ MainInv(n)
      BY <1>1, <1>3, <1>11, Zenon DEF ServiceInv, GrowMishap
    <2>2. SameServices(n) BY <1>3, ServicesKept, Zenon
    <2>3. HookInv(n)'
      BY <1>1, <1>2, <1>3, <1>4, <1>11, <2>1, <2>2, Zenon
         DEF SameServices, StopInv, HookInv, MonitorInv, KeepThread, KeepFlags,
             Starts, Stops
    <2>4. MonitorInv(n)'
      BY <1>1, <1>2, <1>3, <1>4, <1>11, <2>1, <2>2, Zenon
         DEF SameServices, HookInv, MonitorInv, MainInv, Releasing, StopInv,
             KeepThread, KeepFlags, Starts, Stops, Closing
    <2>5. MainInv(n)'
      BY <1>1, <1>2, <1>3, <1>4, <1>11, <2>1, <2>2, Zenon
         DEF SameServices, HookInv, MonitorInv, MainInv, Releasing, StopInv,
             KeepThread, KeepFlags, Starts, Stops, Closing
    <2> QED BY <2>3, <2>4, <2>5, Zenon
  <1> QED BY <1>5, <1>6, <1>4, <1>7, <1>8, <1>9, <1>10, <1>11, Local, Zenon
             DEF NodeInv, ServiceInv

LEMMA SetLeaderIInv == ASSUME IInv, NEW n \in Node, SetLeader(n) PROVE IInv'
  <1> USE NoneAssumption DEF Thread
  <1>1. Placed(n) /\ Places(n) /\ StopInv(n) /\ LockInv(n) /\ RaceInv(n) /\ ServiceInv(n)
    BY Zenon DEF IInv, NodeInv
  <1>2. /\ St(n, "monitor") = "won"
    BY Here, Zenon DEF SetLeader, Lead, Halt
  <1>3. /\ Owns(n)' <=> Owns(n)
        /\ Linked(n)' /\ Lead(n)'
        /\ KeepFlags(n) /\ KeepServices(n) /\ GrowMishap(n)
    BY Unchanged, Zenon DEF SetLeader, election, IInv, Domains, Linked, Lead
  <1>4. /\ St(n, "monitor")' = "call"
        /\ Ix(n, "monitor")' = 0
        /\ KeepThread(n, "main") /\ Placed(n)' /\ OnlyHere(n)
    <2>1. Goto(n, "monitor", <<"call", 0>>)
      BY Zenon DEF SetLeader, At
    <2> QED BY <2>1, Moved, Zenon
  <1>5. Domains' BY <1>4, Zenon
                    DEF IInv, Domains, OnlyHere, SetLeader, Mishap, election
  <1>6. Elsewhere(n)
    BY <1>4, Zenon
       DEF IInv, Domains, Elsewhere, OnlyHere, SetLeader, Mishap, election
  <1>7. Places(n)'
    BY <1>1, <1>2, <1>4, ServicesAssumption, Zenon
       DEF Places, KeepThread, Starts, Stops, Closing, Svc
  <1>8. StopInv(n)'
    BY <1>1, <1>2, <1>3, <1>4, Zenon
       DEF StopInv, KeepThread, KeepFlags, Stops, Closing
  <1>9. LockInv(n)'
    BY <1>1, <1>2, <1>3, <1>4, Zenon
       DEF LockInv, StopInv, KeepThread, KeepFlags, Stops, Closing
  <1>10. RaceInv(n)'
    BY <1>1, <1>2, <1>3, <1>4, Zenon
       DEF Places, RaceInv, KeepServices, KeepThread, GrowMishap, Starts, Stops,
           Closing
  <1>11. ASSUME Clean(n)' PROVE HookInv(n)' /\ MonitorInv(n)' /\ MainInv(n)'
    <2>1. HookInv(n) /\ MonitorInv(n) /\ MainInv(n)
      BY <1>1, <1>3, <1>11, Zenon DEF ServiceInv, GrowMishap
    <2>2. SameServices(n) BY <1>3, ServicesKept, Zenon
    <2>3. HookInv(n)'
      BY <1>1, <1>2, <1>3, <1>4, <1>11, <2>1, <2>2, Zenon
         DEF SameServices, StopInv, HookInv, MonitorInv, KeepThread, KeepFlags,
             Starts, Stops
    <2>4. MonitorInv(n)'
      BY <1>1, <1>2, <1>3, <1>4, <1>11, <2>1, <2>2, Zenon
         DEF SameServices, HookInv, MonitorInv, MainInv, Releasing, StopInv,
             KeepThread, KeepFlags, Starts, Stops, Closing
    <2>5. MainInv(n)'
      BY <1>1, <1>2, <1>3, <1>4, <1>11, <2>1, <2>2, Zenon
         DEF SameServices, HookInv, MonitorInv, MainInv, Releasing, StopInv,
             KeepThread, KeepFlags, Starts, Stops, Closing
    <2> QED BY <2>3, <2>4, <2>5, Zenon
  <1> QED BY <1>5, <1>6, <1>4, <1>7, <1>8, <1>9, <1>10, <1>11, Local, Zenon
             DEF NodeInv, ServiceInv

LEMMA CallBecomeIInv == ASSUME IInv, NEW n \in Node, CallBecome(n) PROVE IInv'
  <1> USE NoneAssumption DEF Thread
  <1>1. Placed(n) /\ Places(n) /\ StopInv(n) /\ LockInv(n) /\ RaceInv(n) /\ ServiceInv(n)
    BY Zenon DEF IInv, NodeInv
  <1>2. /\ St(n, "monitor") = "call"
    BY Here, Zenon DEF CallBecome, Lead, Halt
  <1>3. /\ Owns(n)' <=> Owns(n)
        /\ Linked(n)' <=> Linked(n)
        /\ Lead(n)' <=> Lead(n)
        /\ KeepFlags(n) /\ KeepServices(n) /\ GrowMishap(n)
        /\ Hooks(n) # 0 /\ St(n, "main") \in Starts => Raced(n)' /\ ~Clean(n)'
    BY Unchanged, Mishaps, Zenon
       DEF CallBecome, election, Hooks, Starts, Starting, St
  <1>4. /\ St(n, "monitor")' = IF Hooks(n) = 0 THEN "loop" ELSE "probe"
        /\ Ix(n, "monitor")' = IF Hooks(n) = 0 THEN 0 ELSE 1
        /\ KeepThread(n, "main") /\ Placed(n)' /\ OnlyHere(n)
    <2>1. Goto(n, "monitor", <<IF Hooks(n) = 0 THEN "loop" ELSE "probe", IF Hooks(n) = 0 THEN 0 ELSE 1>>)
      BY Zenon DEF CallBecome, At, Become, Hooks
    <2> QED BY <2>1, Moved, Zenon
  <1>5. Domains' BY <1>4, Zenon
                    DEF IInv, Domains, OnlyHere, CallBecome, Mishap, election
  <1>6. Elsewhere(n)
    BY <1>4, Zenon
       DEF IInv, Domains, Elsewhere, OnlyHere, CallBecome, Mishap, election
  <1>7. Places(n)'
    BY <1>1, <1>2, <1>4, ServicesAssumption
       DEF Places, KeepThread, Starts, Stops, Closing, Svc
  <1>8. StopInv(n)'
    BY <1>1, <1>2, <1>3, <1>4, Zenon
       DEF StopInv, KeepThread, KeepFlags, Stops, Closing
  <1>9. LockInv(n)'
    BY <1>1, <1>2, <1>3, <1>4, Zenon
       DEF LockInv, StopInv, KeepThread, KeepFlags, Stops, Closing
  <1>10. RaceInv(n)'
    BY <1>1, <1>2, <1>3, <1>4, Zenon
       DEF Places, RaceInv, KeepServices, KeepThread, GrowMishap, Starts, Stops,
           Closing
  <1>11. ASSUME Clean(n)' PROVE HookInv(n)' /\ MonitorInv(n)' /\ MainInv(n)'
    <2>1. HookInv(n) /\ MonitorInv(n) /\ MainInv(n)
      BY <1>1, <1>3, <1>11, Zenon DEF ServiceInv, GrowMishap
    <2>2. SameServices(n) BY <1>3, ServicesKept, Zenon
    <2>3. HookInv(n)'
      BY <1>1, <1>2, <1>3, <1>4, <1>11, <2>1, <2>2, Zenon
         DEF SameServices, StopInv, HookInv, MonitorInv, KeepThread, KeepFlags,
             Starts, Stops
    <2>4. MonitorInv(n)'
      BY <1>2, <1>3, <1>4, <2>1, <2>2, Every
         DEF SameServices, HookInv, MonitorInv, KeepThread, KeepFlags, Starts, Stops
    <2>5. MainInv(n)'
      BY <1>1, <1>2, <1>3, <1>4, <1>11, <2>1, <2>2, Every, Zenon
         DEF SameServices, HookInv, MonitorInv, MainInv, Releasing, StopInv,
             KeepThread, KeepFlags, Starts, Stops, Closing
    <2> QED BY <2>3, <2>4, <2>5, Zenon
  <1> QED BY <1>5, <1>6, <1>4, <1>7, <1>8, <1>9, <1>10, <1>11, Local, Zenon
             DEF NodeInv, ServiceInv

LEMMA PingFailsIInv == ASSUME IInv, NEW n \in Node, PingFails(n) PROVE IInv'
  <1> USE NoneAssumption DEF Thread
  <1>1. Placed(n) /\ Places(n) /\ StopInv(n) /\ LockInv(n) /\ RaceInv(n) /\ ServiceInv(n)
    BY Zenon DEF IInv, NodeInv
  <1>2. /\ St(n, "monitor") = "loop" /\ Lead(n) /\ ~Halt(n)
        /\ ~(Linked(n) /\ Owns(n))
    BY Here, Zenon DEF PingFails, Linked, Owns, Lead, Halt
  <1>3. St(n, "main") \in Starts \cup {"assign"} =>
          pc[n]["main"] = At("assign") \/ Starting(n)
    BY <1>1, Zenon DEF Placed, Places, At, Starting, St, Starts, Stops, Closing
  <1>4. /\ Owns(n)' <=> Owns(n)
        /\ ~Linked(n)' /\ ~Lead(n)'
        /\ KeepFlags(n) /\ KeepServices(n) /\ GrowMishap(n)
        /\ St(n, "main") \in Starts \cup {"assign"} => ~Clean(n)'
    BY <1>3, Unchanged, Mishaps, Zenon
       DEF PingFails, election, IInv, Domains, Linked, Lead
  <1>5. /\ St(n, "monitor")' = IF Hooks(n) < 2 THEN "loop" ELSE "signal"
        /\ Ix(n, "monitor")' = IF Hooks(n) < 2 THEN 0 ELSE 1
        /\ KeepThread(n, "main") /\ Placed(n)' /\ OnlyHere(n)
    <2>1. Goto(n, "monitor", <<IF Hooks(n) < 2 THEN "loop" ELSE "signal", IF Hooks(n) < 2 THEN 0 ELSE 1>>)
      BY Zenon DEF PingFails, At, Lose, Hooks
    <2> QED BY <2>1, Moved, Zenon
  <1>6. Domains' BY <1>5, Zenon
                    DEF IInv, Domains, OnlyHere, PingFails, Mishap, election
  <1>7. Elsewhere(n)
    BY <1>5, Zenon
       DEF IInv, Domains, Elsewhere, OnlyHere, PingFails, Mishap, election
  <1>8. Places(n)'
    BY <1>1, <1>2, <1>5, ServicesAssumption
       DEF Places, KeepThread, Starts, Stops, Closing, Svc
  <1>9. StopInv(n)'
    BY <1>1, <1>2, <1>4, <1>5, Zenon
       DEF StopInv, KeepThread, KeepFlags, Stops, Closing
  <1>10. LockInv(n)'
    BY <1>1, <1>2, <1>4, <1>5, Zenon
       DEF LockInv, StopInv, KeepThread, KeepFlags, Stops, Closing
  <1>11. RaceInv(n)'
    BY <1>1, <1>2, <1>4, <1>5, Zenon
       DEF Places, RaceInv, KeepServices, KeepThread, GrowMishap, Starts, Stops,
           Closing
  <1>12. ASSUME Clean(n)' PROVE HookInv(n)' /\ MonitorInv(n)' /\ MainInv(n)'
    <2>1. HookInv(n) /\ MonitorInv(n) /\ MainInv(n)
      BY <1>1, <1>4, <1>12, Zenon DEF ServiceInv, GrowMishap
    <2>2. SameServices(n) BY <1>4, ServicesKept, Zenon
    <2>3. HookInv(n)'
      BY <1>4, <1>5, <2>1, <2>2
         DEF SameServices, HookInv, KeepThread, KeepFlags, Starts, Stops
    <2>4. MonitorInv(n)'
      BY <1>1, <1>4, <1>5, <1>12, <2>1, <2>2, Every
         DEF SameServices, HookInv, MonitorInv, Releasing, StopInv, KeepFlags,
             Starts, Stops, Closing
    <2>5. MainInv(n)'
      BY <1>1, <1>2, <1>4, <1>5, <1>12, <2>1, <2>2, Every, Zenon
         DEF SameServices, HookInv, MonitorInv, MainInv, Releasing, StopInv,
             KeepThread, KeepFlags, Starts, Stops, Closing
    <2> QED BY <2>3, <2>4, <2>5, Zenon
  <1> QED BY <1>6, <1>7, <1>5, <1>8, <1>9, <1>10, <1>11, <1>12, Local, Zenon
             DEF NodeInv, ServiceInv

LEMMA MonitorExitsIInv == ASSUME IInv, NEW n \in Node, MonitorExits(n) PROVE IInv'
  <1> USE NoneAssumption DEF Thread
  <1>1. Placed(n) /\ Places(n) /\ StopInv(n) /\ LockInv(n) /\ RaceInv(n) /\ ServiceInv(n)
    BY Zenon DEF IInv, NodeInv
  <1>2. /\ St(n, "monitor") = "loop" /\ Halt(n)
    BY Here, Zenon DEF MonitorExits, Lead, Halt
  <1>3. /\ Owns(n)' <=> Owns(n)
        /\ Linked(n)' <=> Linked(n)
        /\ Lead(n)' <=> Lead(n)
        /\ KeepFlags(n) /\ KeepServices(n) /\ GrowMishap(n)
    BY Unchanged, Zenon DEF MonitorExits, election
  <1>4. /\ St(n, "monitor")' = "off"
        /\ Ix(n, "monitor")' = 0
        /\ KeepThread(n, "main") /\ Placed(n)' /\ OnlyHere(n)
    <2>1. Goto(n, "monitor", <<"off", 0>>)
      BY Zenon DEF MonitorExits, At
    <2> QED BY <2>1, Moved, Zenon
  <1>5. Domains' BY <1>4, Zenon
                    DEF IInv, Domains, OnlyHere, MonitorExits, Mishap, election
  <1>6. Elsewhere(n)
    BY <1>4, Zenon
       DEF IInv, Domains, Elsewhere, OnlyHere, MonitorExits, Mishap, election
  <1>7. Places(n)'
    BY <1>1, <1>2, <1>4, ServicesAssumption, Zenon
       DEF Places, KeepThread, Starts, Stops, Closing, Svc
  <1>8. StopInv(n)'
    BY <1>1, <1>2, <1>3, <1>4, Zenon
       DEF StopInv, KeepThread, KeepFlags, Stops, Closing
  <1>9. LockInv(n)'
    BY <1>1, <1>2, <1>3, <1>4, Zenon
       DEF LockInv, StopInv, KeepThread, KeepFlags, Stops, Closing
  <1>10. RaceInv(n)'
    BY <1>1, <1>2, <1>3, <1>4, Zenon
       DEF Places, RaceInv, KeepServices, KeepThread, GrowMishap, Starts, Stops,
           Closing
  <1>11. ASSUME Clean(n)' PROVE HookInv(n)' /\ MonitorInv(n)' /\ MainInv(n)'
    <2>1. HookInv(n) /\ MonitorInv(n) /\ MainInv(n)
      BY <1>1, <1>3, <1>11, Zenon DEF ServiceInv, GrowMishap
    <2>2. SameServices(n) BY <1>3, ServicesKept, Zenon
    <2>3. HookInv(n)'
      BY <1>1, <1>2, <1>3, <1>4, <1>11, <2>1, <2>2, Zenon
         DEF SameServices, StopInv, HookInv, MonitorInv, KeepThread, KeepFlags,
             Starts, Stops
    <2>4. MonitorInv(n)'
      BY <1>1, <1>2, <1>3, <1>4, <1>11, <2>1, <2>2, Zenon
         DEF SameServices, HookInv, MonitorInv, MainInv, Releasing, StopInv,
             KeepThread, KeepFlags, Starts, Stops, Closing
    <2>5. MainInv(n)'
      BY <1>1, <1>2, <1>3, <1>4, <1>11, <2>1, <2>2, Zenon
         DEF SameServices, HookInv, MonitorInv, MainInv, Releasing, StopInv,
             KeepThread, KeepFlags, Starts, Stops, Closing
    <2> QED BY <2>3, <2>4, <2>5, Zenon
  <1> QED BY <1>5, <1>6, <1>4, <1>7, <1>8, <1>9, <1>10, <1>11, Local, Zenon
             DEF NodeInv, ServiceInv

LEMMA BootFailsIInv == ASSUME IInv, NEW n \in Node, BootFails(n) PROVE IInv'
  <1> USE NoneAssumption DEF Thread
  <1>1. Placed(n) /\ Places(n) /\ StopInv(n) /\ LockInv(n) /\ RaceInv(n) /\ ServiceInv(n)
    BY Zenon DEF IInv, NodeInv
  <1>2. /\ St(n, "main") = "boot"
    BY Here, Zenon DEF BootFails, Lead, Halt
  <1>3. /\ Owns(n)' <=> Owns(n)
        /\ Linked(n)' <=> Linked(n)
        /\ Lead(n)' <=> Lead(n)
        /\ KeepFlags(n) /\ KeepServices(n) /\ GrowMishap(n)
        /\ ~Clean(n)'
    BY Unchanged, Mishaps, Zenon DEF BootFails, election
  <1>4. /\ St(n, "main")' = "up"
        /\ Ix(n, "main")' = 0
        /\ KeepThread(n, "monitor") /\ Placed(n)' /\ OnlyHere(n)
    <2>1. Goto(n, "main", <<"up", 0>>)
      BY Zenon DEF BootFails, At
    <2> QED BY <2>1, Moved, Zenon
  <1>5. Domains' BY <1>4, Zenon
                    DEF IInv, Domains, OnlyHere, BootFails, Mishap, election
  <1>6. Elsewhere(n)
    BY <1>4, Zenon
       DEF IInv, Domains, Elsewhere, OnlyHere, BootFails, Mishap, election
  <1>7. Places(n)'
    BY <1>1, <1>2, <1>4, ServicesAssumption, Zenon
       DEF Places, KeepThread, Starts, Stops, Closing, Svc
  <1>8. StopInv(n)'
    BY <1>1, <1>2, <1>3, <1>4, Zenon
       DEF StopInv, KeepThread, KeepFlags, Stops, Closing
  <1>9. LockInv(n)'
    BY <1>1, <1>2, <1>3, <1>4, Zenon
       DEF LockInv, StopInv, KeepThread, KeepFlags, Stops, Closing
  <1>10. RaceInv(n)'
    BY <1>1, <1>2, <1>3, <1>4, Zenon
       DEF Places, RaceInv, KeepServices, KeepThread, GrowMishap, Starts, Stops,
           Closing
  <1>11. ASSUME Clean(n)' PROVE HookInv(n)' /\ MonitorInv(n)' /\ MainInv(n)'
    <2>1. HookInv(n) /\ MonitorInv(n) /\ MainInv(n)
      BY <1>1, <1>3, <1>11, Zenon DEF ServiceInv, GrowMishap
    <2>2. SameServices(n) BY <1>3, ServicesKept, Zenon
    <2>3. HookInv(n)'
      BY <1>1, <1>2, <1>3, <1>4, <1>11, <2>1, <2>2, Zenon
         DEF SameServices, StopInv, HookInv, MonitorInv, KeepThread, KeepFlags,
             Starts, Stops
    <2>4. MonitorInv(n)'
      BY <1>1, <1>2, <1>3, <1>4, <1>11, <2>1, <2>2, Zenon
         DEF SameServices, HookInv, MonitorInv, MainInv, Releasing, StopInv,
             KeepThread, KeepFlags, Starts, Stops, Closing
    <2>5. MainInv(n)'
      BY <1>1, <1>2, <1>3, <1>4, <1>11, <2>1, <2>2, Zenon
         DEF SameServices, HookInv, MonitorInv, MainInv, Releasing, StopInv,
             KeepThread, KeepFlags, Starts, Stops, Closing
    <2> QED BY <2>3, <2>4, <2>5, Zenon
  <1> QED BY <1>5, <1>6, <1>4, <1>7, <1>8, <1>9, <1>10, <1>11, Local, Zenon
             DEF NodeInv, ServiceInv

LEMMA AssignIInv == ASSUME IInv, NEW n \in Node, Assign(n) PROVE IInv'
  <1> USE NoneAssumption DEF Thread
  <1>1. Placed(n) /\ Places(n) /\ StopInv(n) /\ LockInv(n) /\ RaceInv(n) /\ ServiceInv(n)
    BY Zenon DEF IInv, NodeInv
  <1>2. /\ St(n, "main") \in {"boot", "assign"}
    BY Here, Zenon DEF Assign, Lead, Halt
  <1>3. /\ Owns(n)' <=> Owns(n)
        /\ Linked(n)' <=> Linked(n)
        /\ Lead(n)' <=> Lead(n)
        /\ Halt(n)' <=> Halt(n)
        /\ Hooks(n)' = Hooks(n) + 1
        /\ KeepServices(n) /\ GrowMishap(n)
    BY Unchanged, Zenon DEF Assign, election, IInv, Domains, Hooks, Halt
  <1>4. /\ St(n, "main")' = IF Hooks(n) = 0 THEN "assign" ELSE "check"
        /\ Ix(n, "main")' = 0
        /\ KeepThread(n, "monitor") /\ Placed(n)' /\ OnlyHere(n)
    <2>1. Goto(n, "main", <<IF Hooks(n) = 0 THEN "assign" ELSE "check", 0>>)
      BY Zenon DEF Assign, At, Hooks
    <2> QED BY <2>1, Moved, Zenon
  <1>5. Domains' BY <1>4, Zenon
                    DEF IInv, Domains, OnlyHere, Assign, Mishap, election
  <1>6. Elsewhere(n)
    BY <1>4, Zenon DEF IInv, Domains, Elsewhere, OnlyHere, Assign, Mishap, election
  <1>7. Places(n)'
    BY <1>1, <1>2, <1>4, ServicesAssumption, Zenon
       DEF Places, KeepThread, Starts, Stops, Closing, Svc
  <1>8. StopInv(n)'
    BY <1>1, <1>2, <1>3, <1>4, Zenon
       DEF StopInv, KeepThread, KeepFlags, Stops, Closing
  <1>9. LockInv(n)'
    BY <1>1, <1>2, <1>3, <1>4, Zenon
       DEF LockInv, StopInv, KeepThread, KeepFlags, Stops, Closing
  <1>10. RaceInv(n)'
    BY <1>1, <1>2, <1>3, <1>4, Zenon
       DEF Places, RaceInv, KeepServices, KeepThread, GrowMishap, Starts, Stops,
           Closing
  <1>11. ASSUME Clean(n)' PROVE HookInv(n)' /\ MonitorInv(n)' /\ MainInv(n)'
    <2>1. HookInv(n) /\ MonitorInv(n) /\ MainInv(n)
      BY <1>1, <1>3, <1>11, Zenon DEF ServiceInv, GrowMishap
    <2>2. SameServices(n) BY <1>3, ServicesKept, Zenon
    <2>3. HookInv(n)'
      BY <1>2, <1>3, <1>4, <2>1 DEF HookInv, KeepThread, Starts, Stops
    <2>4. MonitorInv(n)'
      BY <1>2, <1>3, <1>4, <2>1, <2>2
         DEF SameServices, HookInv, MonitorInv, Releasing, KeepThread, KeepFlags,
             Starts, Stops, Closing
    <2>5. MainInv(n)'
      BY <1>1, <1>2, <1>3, <1>4, <1>11, <2>1, <2>2, Zenon
         DEF SameServices, HookInv, MonitorInv, MainInv, Releasing, StopInv,
             KeepThread, KeepFlags, Starts, Stops, Closing
    <2> QED BY <2>3, <2>4, <2>5, Zenon
  <1> QED BY <1>5, <1>6, <1>4, <1>7, <1>8, <1>9, <1>10, <1>11, Local, Zenon
             DEF NodeInv, ServiceInv

LEMMA CheckLeaderIInv == ASSUME IInv, NEW n \in Node, CheckLeader(n) PROVE IInv'
  <1> USE NoneAssumption DEF Thread
  <1>1. Placed(n) /\ Places(n) /\ StopInv(n) /\ LockInv(n) /\ RaceInv(n) /\ ServiceInv(n)
    BY Zenon DEF IInv, NodeInv
  <1>2. /\ St(n, "main") = "check"
    BY Here, Zenon DEF CheckLeader, Lead, Halt
  <1>3. St(n, "monitor") \in Starts \cup Stops \cup {"call"} =>
          InCallback(n, "monitor") \/ pc[n]["monitor"] = At("call")
    BY <1>1 DEF Placed, Places, At, InCallback, Starts, Stops, Svc
  <1>4. /\ Owns(n)' <=> Owns(n)
        /\ Linked(n)' <=> Linked(n)
        /\ Lead(n)' <=> Lead(n)
        /\ KeepFlags(n) /\ KeepServices(n) /\ GrowMishap(n)
        /\ Lead(n) /\ St(n, "monitor") \in Starts \cup Stops \cup {"call"} => Raced(n)' /\ ~Clean(n)'
    BY <1>3, Unchanged, Mishaps, Zenon DEF CheckLeader, election, Lead
  <1>5. /\ St(n, "main")' = IF Lead(n) THEN "probe" ELSE "up"
        /\ Ix(n, "main")' = IF Lead(n) THEN 1 ELSE 0
        /\ KeepThread(n, "monitor") /\ Placed(n)' /\ OnlyHere(n)
    <2>1. Goto(n, "main", <<IF Lead(n) THEN "probe" ELSE "up", IF Lead(n) THEN 1 ELSE 0>>)
      BY Zenon DEF CheckLeader, At, Become, Lead
    <2> QED BY <2>1, Moved, Zenon
  <1>6. Domains' BY <1>5, Zenon
                    DEF IInv, Domains, OnlyHere, CheckLeader, Mishap, election
  <1>7. Elsewhere(n)
    BY <1>5, Zenon
       DEF IInv, Domains, Elsewhere, OnlyHere, CheckLeader, Mishap, election
  <1>8. Places(n)'
    BY <1>1, <1>2, <1>5, ServicesAssumption
       DEF Places, KeepThread, Starts, Stops, Closing, Svc
  <1>9. StopInv(n)'
    BY <1>1, <1>2, <1>4, <1>5, Zenon
       DEF StopInv, KeepThread, KeepFlags, Stops, Closing
  <1>10. LockInv(n)'
    BY <1>1, <1>2, <1>4, <1>5, Zenon
       DEF LockInv, StopInv, KeepThread, KeepFlags, Stops, Closing
  <1>11. RaceInv(n)'
    BY <1>1, <1>2, <1>4, <1>5, Zenon
       DEF Places, RaceInv, KeepServices, KeepThread, GrowMishap, Starts, Stops,
           Closing
  <1>12. ASSUME Clean(n)' PROVE HookInv(n)' /\ MonitorInv(n)' /\ MainInv(n)'
    <2>1. HookInv(n) /\ MonitorInv(n) /\ MainInv(n)
      BY <1>1, <1>4, <1>12, Zenon DEF ServiceInv, GrowMishap
    <2>2. SameServices(n) BY <1>4, ServicesKept, Zenon
    <2>3. HookInv(n)'
      BY <1>1, <1>2, <1>4, <1>5, <1>12, <2>1, <2>2, Zenon
         DEF SameServices, StopInv, HookInv, MonitorInv, KeepThread, KeepFlags,
             Starts, Stops
    <2>4. MonitorInv(n)'
      BY <1>1, <1>2, <1>4, <1>5, <1>12, <2>1, <2>2, Every, Zenon
         DEF SameServices, HookInv, MonitorInv, MainInv, Releasing, StopInv, Places,
             KeepThread, KeepFlags, Starts, Stops, Closing
    <2>5. MainInv(n)'
      BY <1>1, <1>2, <1>4, <1>5, <1>12, <2>1, <2>2, Every, Zenon
         DEF SameServices, HookInv, MonitorInv, MainInv, Releasing, StopInv, Places,
             KeepThread, Starts, Stops, Closing
    <2> QED BY <2>3, <2>4, <2>5, Zenon
  <1> QED BY <1>6, <1>7, <1>5, <1>8, <1>9, <1>10, <1>11, <1>12, Local, Zenon
             DEF NodeInv, ServiceInv

LEMMA ShutdownIInv == ASSUME IInv, NEW n \in Node, Shutdown(n) PROVE IInv'
  <1> USE NoneAssumption DEF Thread
  <1>1. Placed(n) /\ Places(n) /\ StopInv(n) /\ LockInv(n) /\ RaceInv(n) /\ ServiceInv(n)
    BY Zenon DEF IInv, NodeInv
  <1>2. /\ St(n, "main") = "up"
    BY Here, Zenon DEF Shutdown, Lead, Halt
  <1>3. /\ Owns(n)' <=> Owns(n)
        /\ Linked(n)' <=> Linked(n)
        /\ Lead(n)' <=> Lead(n)
        /\ KeepFlags(n) /\ KeepServices(n) /\ GrowMishap(n)
    BY Unchanged, Zenon DEF Shutdown, election
  <1>4. /\ St(n, "main")' = "signal"
        /\ Ix(n, "main")' = 1
        /\ KeepThread(n, "monitor") /\ Placed(n)' /\ OnlyHere(n)
    <2>1. Goto(n, "main", <<"signal", 1>>)
      BY Zenon DEF Shutdown, At, Lose
    <2> QED BY <2>1, Moved, Zenon
  <1>5. Domains' BY <1>4, Zenon
                    DEF IInv, Domains, OnlyHere, Shutdown, Mishap, election
  <1>6. Elsewhere(n)
    BY <1>4, Zenon
       DEF IInv, Domains, Elsewhere, OnlyHere, Shutdown, Mishap, election
  <1>7. Places(n)'
    BY <1>1, <1>2, <1>4, ServicesAssumption
       DEF Places, KeepThread, Starts, Stops, Closing, Svc
  <1>8. StopInv(n)'
    BY <1>1, <1>2, <1>3, <1>4, Zenon
       DEF StopInv, KeepThread, KeepFlags, Stops, Closing
  <1>9. LockInv(n)'
    BY <1>1, <1>2, <1>3, <1>4, Zenon
       DEF LockInv, StopInv, KeepThread, KeepFlags, Stops, Closing
  <1>10. RaceInv(n)'
    BY <1>1, <1>2, <1>3, <1>4, Zenon
       DEF Places, RaceInv, KeepServices, KeepThread, GrowMishap, Starts, Stops,
           Closing
  <1>11. ASSUME Clean(n)' PROVE HookInv(n)' /\ MonitorInv(n)' /\ MainInv(n)'
    <2>1. HookInv(n) /\ MonitorInv(n) /\ MainInv(n)
      BY <1>1, <1>3, <1>11, Zenon DEF ServiceInv, GrowMishap
    <2>2. SameServices(n) BY <1>3, ServicesKept, Zenon
    <2>3. HookInv(n)'
      BY <1>1, <1>2, <1>3, <1>4, <1>11, <2>1, <2>2, Zenon
         DEF SameServices, StopInv, HookInv, MonitorInv, KeepThread, KeepFlags,
             Starts, Stops
    <2>4. MonitorInv(n)'
      BY <1>1, <1>2, <1>3, <1>4, <1>11, <2>1, <2>2, Every, Zenon
         DEF SameServices, HookInv, MonitorInv, MainInv, Releasing, StopInv,
             KeepThread, KeepFlags, Starts, Stops, Closing
    <2>5. MainInv(n)'
      BY <1>1, <1>2, <1>3, <1>4, <1>11, <2>1, <2>2, Every, Zenon
         DEF SameServices, HookInv, MonitorInv, MainInv, Releasing, StopInv,
             KeepThread, KeepFlags, Starts, Stops, Closing
    <2> QED BY <2>3, <2>4, <2>5, Zenon
  <1> QED BY <1>5, <1>6, <1>4, <1>7, <1>8, <1>9, <1>10, <1>11, Local, Zenon
             DEF NodeInv, ServiceInv

LEMMA StopMonitoringIInv == ASSUME IInv, NEW n \in Node, StopMonitoring(n) PROVE IInv'
  <1> USE NoneAssumption DEF Thread
  <1>1. Placed(n) /\ Places(n) /\ StopInv(n) /\ LockInv(n) /\ RaceInv(n) /\ ServiceInv(n)
    BY Zenon DEF IInv, NodeInv
  <1>2. /\ St(n, "main") = "halt"
    BY Here, Zenon DEF StopMonitoring, Lead, Halt
  <1>3. /\ Owns(n)' <=> Owns(n)
        /\ Linked(n)' <=> Linked(n)
        /\ Lead(n)' <=> Lead(n)
        /\ Halt(n)' /\ Hooks(n)' = Hooks(n)
        /\ KeepServices(n) /\ GrowMishap(n)
    BY Unchanged, Zenon DEF StopMonitoring, election, IInv, Domains, Halt, Hooks
  <1>4. /\ St(n, "main")' = "wait"
        /\ Ix(n, "main")' = 0
        /\ KeepThread(n, "monitor") /\ Placed(n)' /\ OnlyHere(n)
    <2>1. Goto(n, "main", <<"wait", 0>>)
      BY Zenon DEF StopMonitoring, At
    <2> QED BY <2>1, Moved, Zenon
  <1>5. Domains' BY <1>4, Zenon
                    DEF IInv, Domains, OnlyHere, StopMonitoring, Mishap, election
  <1>6. Elsewhere(n)
    BY <1>4, Zenon
       DEF IInv, Domains, Elsewhere, OnlyHere, StopMonitoring, Mishap, election
  <1>7. Places(n)'
    BY <1>1, <1>2, <1>4, ServicesAssumption, Zenon
       DEF Places, KeepThread, Starts, Stops, Closing, Svc
  <1>8. StopInv(n)'
    BY <1>1, <1>2, <1>3, <1>4, Zenon
       DEF StopInv, KeepThread, KeepFlags, Stops, Closing
  <1>9. LockInv(n)'
    BY <1>1, <1>2, <1>3, <1>4, Zenon
       DEF LockInv, StopInv, KeepThread, KeepFlags, Stops, Closing
  <1>10. RaceInv(n)'
    BY <1>1, <1>2, <1>3, <1>4, Zenon
       DEF Places, RaceInv, KeepServices, KeepThread, GrowMishap, Starts, Stops,
           Closing
  <1>11. ASSUME Clean(n)' PROVE HookInv(n)' /\ MonitorInv(n)' /\ MainInv(n)'
    <2>1. HookInv(n) /\ MonitorInv(n) /\ MainInv(n)
      BY <1>1, <1>3, <1>11, Zenon DEF ServiceInv, GrowMishap
    <2>2. SameServices(n) BY <1>3, ServicesKept, Zenon
    <2>3. HookInv(n)'
      BY <1>1, <1>2, <1>3, <1>4, <1>11, <2>1, <2>2, Zenon
         DEF SameServices, StopInv, HookInv, MonitorInv, KeepThread, KeepFlags,
             Starts, Stops
    <2>4. MonitorInv(n)'
      BY <1>1, <1>2, <1>3, <1>4, <1>11, <2>1, <2>2, Zenon
         DEF SameServices, HookInv, MonitorInv, MainInv, Releasing, StopInv,
             KeepThread, KeepFlags, Starts, Stops, Closing
    <2>5. MainInv(n)'
      BY <1>1, <1>2, <1>3, <1>4, <1>11, <2>1, <2>2, Zenon
         DEF SameServices, HookInv, MonitorInv, MainInv, Releasing, StopInv,
             KeepThread, KeepFlags, Starts, Stops, Closing
    <2> QED BY <2>3, <2>4, <2>5, Zenon
  <1> QED BY <1>5, <1>6, <1>4, <1>7, <1>8, <1>9, <1>10, <1>11, Local, Zenon
             DEF NodeInv, ServiceInv

LEMMA MonitorJoinedIInv == ASSUME IInv, NEW n \in Node, MonitorJoined(n) PROVE IInv'
  <1> USE NoneAssumption DEF Thread
  <1>1. Placed(n) /\ Places(n) /\ StopInv(n) /\ LockInv(n) /\ RaceInv(n) /\ ServiceInv(n)
    BY Zenon DEF IInv, NodeInv
  <1>2. /\ St(n, "main") = "wait"
    BY Here, Zenon DEF MonitorJoined, Lead, Halt
  <1>3. /\ Owns(n)' <=> Owns(n)
        /\ Linked(n)' <=> Linked(n)
        /\ Lead(n)' <=> Lead(n)
        /\ KeepFlags(n) /\ KeepServices(n) /\ GrowMishap(n)
        /\ St(n, "monitor") # "off" => ~Clean(n)'
    BY Unchanged, Mishaps DEF MonitorJoined, election, St, At
  <1>4. /\ St(n, "main")' = "close"
        /\ Ix(n, "main")' = 0
        /\ KeepThread(n, "monitor") /\ Placed(n)' /\ OnlyHere(n)
    <2>1. Goto(n, "main", <<"close", 0>>)
      BY Zenon DEF MonitorJoined, At
    <2> QED BY <2>1, Moved, Zenon
  <1>5. Domains' BY <1>4, Zenon
                    DEF IInv, Domains, OnlyHere, MonitorJoined, Mishap, election
  <1>6. Elsewhere(n)
    BY <1>4, Zenon
       DEF IInv, Domains, Elsewhere, OnlyHere, MonitorJoined, Mishap, election
  <1>7. Places(n)'
    BY <1>1, <1>2, <1>4, ServicesAssumption, Zenon
       DEF Places, KeepThread, Starts, Stops, Closing, Svc
  <1>8. StopInv(n)'
    BY <1>1, <1>2, <1>3, <1>4, Zenon
       DEF StopInv, KeepThread, KeepFlags, Stops, Closing
  <1>9. LockInv(n)'
    BY <1>1, <1>2, <1>3, <1>4, Zenon
       DEF LockInv, StopInv, KeepThread, KeepFlags, Stops, Closing
  <1>10. RaceInv(n)'
    BY <1>1, <1>2, <1>3, <1>4, Zenon
       DEF Places, RaceInv, KeepServices, KeepThread, GrowMishap, Starts, Stops,
           Closing
  <1>11. ASSUME Clean(n)' PROVE HookInv(n)' /\ MonitorInv(n)' /\ MainInv(n)'
    <2>1. HookInv(n) /\ MonitorInv(n) /\ MainInv(n)
      BY <1>1, <1>3, <1>11, Zenon DEF ServiceInv, GrowMishap
    <2>2. SameServices(n) BY <1>3, ServicesKept, Zenon
    <2>3. HookInv(n)'
      BY <1>1, <1>2, <1>3, <1>4, <1>11, <2>1, <2>2, Zenon
         DEF SameServices, StopInv, HookInv, MonitorInv, KeepThread, KeepFlags,
             Starts, Stops
    <2>4. MonitorInv(n)'
      BY <1>1, <1>2, <1>3, <1>4, <1>11, <2>1, <2>2, Zenon
         DEF SameServices, HookInv, MonitorInv, MainInv, Releasing, StopInv,
             KeepThread, KeepFlags, Starts, Stops, Closing
    <2>5. MainInv(n)'
      BY <1>1, <1>2, <1>3, <1>4, <1>11, <2>1, <2>2, Zenon
         DEF SameServices, HookInv, MonitorInv, MainInv, Releasing, StopInv,
             KeepThread, KeepFlags, Starts, Stops, Closing
    <2> QED BY <2>3, <2>4, <2>5, Zenon
  <1> QED BY <1>5, <1>6, <1>4, <1>7, <1>8, <1>9, <1>10, <1>11, Local, Zenon
             DEF NodeInv, ServiceInv

LEMMA CloseIInv == ASSUME IInv, NEW n \in Node, Close(n) PROVE IInv'
  <1> USE NoneAssumption DEF Thread
  <1>1. Placed(n) /\ Places(n) /\ StopInv(n) /\ LockInv(n) /\ RaceInv(n) /\ ServiceInv(n)
    BY Zenon DEF IInv, NodeInv
  <1>2. /\ St(n, "main") = "close"
    BY Here, Zenon DEF Close, Lead, Halt
  <1>3. /\ Owns(n)' => Owns(n) /\ ~Linked(n)
        /\ ~Linked(n)'
        /\ Lead(n)' <=> Lead(n)
        /\ KeepFlags(n) /\ KeepServices(n) /\ GrowMishap(n)
    BY Unchanged, Zenon DEF Close, election, IInv, Domains, Owns, Linked
  <1>4. /\ St(n, "main")' = "clear"
        /\ Ix(n, "main")' = 0
        /\ KeepThread(n, "monitor") /\ Placed(n)' /\ OnlyHere(n)
    <2>1. Goto(n, "main", <<"clear", 0>>)
      BY Zenon DEF Close, At
    <2> QED BY <2>1, Moved, Zenon
  <1>5. Domains' BY <1>4, Zenon DEF IInv, Domains, OnlyHere, Close, Mishap, election
  <1>6. Elsewhere(n)
    BY <1>4, Zenon DEF IInv, Domains, Elsewhere, OnlyHere, Close, Mishap, election
  <1>7. Places(n)'
    BY <1>1, <1>2, <1>4, ServicesAssumption, Zenon
       DEF Places, KeepThread, Starts, Stops, Closing, Svc
  <1>8. StopInv(n)'
    BY <1>1, <1>2, <1>3, <1>4, Zenon
       DEF StopInv, KeepThread, KeepFlags, Stops, Closing
  <1>9. LockInv(n)'
    BY <1>1, <1>2, <1>3, <1>4, Zenon
       DEF LockInv, StopInv, KeepThread, KeepFlags, Stops, Closing
  <1>10. RaceInv(n)'
    BY <1>1, <1>2, <1>3, <1>4, Zenon
       DEF Places, RaceInv, KeepServices, KeepThread, GrowMishap, Starts, Stops,
           Closing
  <1>11. ASSUME Clean(n)' PROVE HookInv(n)' /\ MonitorInv(n)' /\ MainInv(n)'
    <2>1. HookInv(n) /\ MonitorInv(n) /\ MainInv(n)
      BY <1>1, <1>3, <1>11, Zenon DEF ServiceInv, GrowMishap
    <2>2. SameServices(n) BY <1>3, ServicesKept, Zenon
    <2>3. HookInv(n)'
      BY <1>1, <1>2, <1>3, <1>4, <1>11, <2>1, <2>2, Zenon
         DEF SameServices, StopInv, HookInv, MonitorInv, KeepThread, KeepFlags,
             Starts, Stops
    <2>4. MonitorInv(n)'
      BY <1>1, <1>2, <1>3, <1>4, <1>11, <2>1, <2>2, Zenon
         DEF SameServices, HookInv, MonitorInv, MainInv, Releasing, StopInv,
             KeepThread, KeepFlags, Starts, Stops, Closing
    <2>5. MainInv(n)'
      BY <1>1, <1>2, <1>3, <1>4, <1>11, <2>1, <2>2, Zenon
         DEF SameServices, HookInv, MonitorInv, MainInv, Releasing, StopInv,
             KeepThread, KeepFlags, Starts, Stops, Closing
    <2> QED BY <2>3, <2>4, <2>5, Zenon
  <1> QED BY <1>5, <1>6, <1>4, <1>7, <1>8, <1>9, <1>10, <1>11, Local, Zenon
             DEF NodeInv, ServiceInv

LEMMA ClearIInv == ASSUME IInv, NEW n \in Node, Clear(n) PROVE IInv'
  <1> USE NoneAssumption DEF Thread
  <1>1. Placed(n) /\ Places(n) /\ StopInv(n) /\ LockInv(n) /\ RaceInv(n) /\ ServiceInv(n)
    BY Zenon DEF IInv, NodeInv
  <1>2. /\ St(n, "main") = "clear"
    BY Here, Zenon DEF Clear, Lead, Halt
  <1>3. /\ Owns(n)' <=> Owns(n)
        /\ Linked(n)' <=> Linked(n)
        /\ ~Lead(n)'
        /\ KeepFlags(n) /\ KeepServices(n) /\ GrowMishap(n)
    BY Unchanged, Zenon DEF Clear, election, IInv, Domains, Lead
  <1>4. /\ St(n, "main")' = IF Lead(n) /\ Hooks(n) = 2 THEN "signal" ELSE "exit"
        /\ Ix(n, "main")' = IF Lead(n) /\ Hooks(n) = 2 THEN 1 ELSE 0
        /\ KeepThread(n, "monitor") /\ Placed(n)' /\ OnlyHere(n)
    <2>1. Goto(n, "main", <<IF Lead(n) /\ Hooks(n) = 2 THEN "signal" ELSE "exit", IF Lead(n) /\ Hooks(n) = 2 THEN 1 ELSE 0>>)
      BY Zenon DEF Clear, At, Lose, Lead, Hooks
    <2> QED BY <2>1, Moved, Zenon
  <1>5. Domains' BY <1>4, Zenon DEF IInv, Domains, OnlyHere, Clear, Mishap, election
  <1>6. Elsewhere(n)
    BY <1>4, Zenon DEF IInv, Domains, Elsewhere, OnlyHere, Clear, Mishap, election
  <1>7. Places(n)'
    BY <1>1, <1>2, <1>4, ServicesAssumption
       DEF Places, KeepThread, Starts, Stops, Closing, Svc
  <1>8. StopInv(n)'
    BY <1>1, <1>2, <1>3, <1>4, Zenon
       DEF StopInv, KeepThread, KeepFlags, Stops, Closing
  <1>9. LockInv(n)'
    BY <1>1, <1>2, <1>3, <1>4, Zenon
       DEF LockInv, StopInv, KeepThread, KeepFlags, Stops, Closing
  <1>10. RaceInv(n)'
    BY <1>1, <1>2, <1>3, <1>4, Zenon
       DEF Places, RaceInv, KeepServices, KeepThread, GrowMishap, Starts, Stops,
           Closing
  <1>11. ASSUME Clean(n)' PROVE HookInv(n)' /\ MonitorInv(n)' /\ MainInv(n)'
    <2>1. HookInv(n) /\ MonitorInv(n) /\ MainInv(n)
      BY <1>1, <1>3, <1>11, Zenon DEF ServiceInv, GrowMishap
    <2>2. SameServices(n) BY <1>3, ServicesKept, Zenon
    <2>3. HookInv(n)'
      BY <1>1, <1>2, <1>3, <1>4, <1>11, <2>1, <2>2, Zenon
         DEF SameServices, StopInv, HookInv, MonitorInv, KeepThread, KeepFlags,
             Starts, Stops
    <2>4. MonitorInv(n)'
      BY <1>1, <1>2, <1>3, <1>4, <1>11, <2>1, <2>2, Every, Zenon
         DEF SameServices, HookInv, MonitorInv, MainInv, Releasing, StopInv,
             KeepThread, KeepFlags, Starts, Stops, Closing
    <2>5. MainInv(n)'
      BY <1>1, <1>2, <1>3, <1>4, <1>11, <2>1, <2>2, Every, Zenon
         DEF SameServices, HookInv, MonitorInv, MainInv, Releasing, StopInv,
             KeepThread, KeepFlags, Starts, Stops, Closing
    <2> QED BY <2>3, <2>4, <2>5, Zenon
  <1> QED BY <1>5, <1>6, <1>4, <1>7, <1>8, <1>9, <1>10, <1>11, Local, Zenon
             DEF NodeInv, ServiceInv

----------------------------------------------------------------------------
\* The other steps: those of the callbacks, and those that end a process, start
\* one or cut its connection.  A callback's step moves one thread and touches
\* one service: its effect is stated first, and the invariant shown from that.
LEMMA LoseConnectionIInv == ASSUME IInv, NEW n \in Node, LoseConnection(n) PROVE IInv'
  <1>1. Domains' BY Zenon DEF IInv, Domains, LoseConnection
  <1>2. Elsewhere(n) BY NoneAssumption, Zenon DEF Elsewhere, LoseConnection
  <1>3. /\ NodeInv(n) /\ Placed(n)' /\ KeepFlags(n) /\ KeepServices(n) /\ GrowMishap(n)
        /\ \A a \in Thread : KeepThread(n, a)
        /\ Linked(n)' <=> Linked(n)
        /\ Lead(n)' <=> Lead(n)
    BY Unchanged, Zenon
       DEF IInv, NodeInv, Placed, LoseConnection, KeepThread, St, Ix
  <1>4. WaneServices(n) BY <1>3, Zenon DEF KeepServices, WaneServices
  <1>5. ~Owns(n)' BY NoneAssumption DEF Owns, LoseConnection
  <1> QED BY <1>1, <1>2, <1>3, <1>4, <1>5, KeptNode, Local, Zenon

LEMMA EndIInv == ASSUME IInv, NEW n \in Node, End(n) PROVE IInv'
  <1>1. /\ pc'[n] = [a \in Thread |-> <<"off", 0>>]
        /\ svc'[n] = [i \in Svc |-> NewService(svc[n][i].forgets)]
        /\ ~conn'[n] /\ ~isLeader'[n] /\ ~stop'[n] /\ cb'[n] = 0 /\ lock' # n
    BY NoneAssumption, Zenon DEF End, IInv, Domains, At
  <1>2. \A i \in Svc : /\ DOMAIN svc'[n][i] = {"thread", "stopped", "stray", "forgets"}
                       /\ svc'[n][i].thread = "none" /\ ~svc'[n][i].stray
    BY <1>1 DEF NewService
  <1>3. Domains' BY <1>2, Zenon DEF IInv, Domains, End
  <1>4. Elsewhere(n) BY NoneAssumption, Zenon DEF IInv, Domains, Elsewhere, End
  <1>5. /\ \A a \in Thread : pc'[n][a] = <<"off", 0>> /\ St(n, a)' = "off" /\ Ix(n, a)' = 0
        /\ ~Owns(n)' /\ ~Linked(n)' /\ ~Lead(n)' /\ ~Halt(n)' /\ Hooks(n)' = 0
        /\ \A i \in Svc : ~Live(n, i)' /\ ~Stray(n, i)'
    BY <1>1, <1>2 DEF St, Ix, Owns, Linked, Lead, Halt, Hooks, Live, Stray
  <1>6. Placed(n)' /\ Places(n)' BY <1>5, Zenon DEF Placed, Places, Thread
  <1>7. StopInv(n)' /\ LockInv(n)' BY <1>5, Zenon
                                      DEF StopInv, LockInv, Thread, Closing
  <1>8. RaceInv(n)' BY <1>5, Zenon DEF RaceInv, Starts, Thread
  <1>9. HookInv(n)' /\ MonitorInv(n)' /\ MainInv(n)'
    BY <1>5, Zenon
       DEF HookInv, MonitorInv, MainInv, NoneLive, Releasing, Starts, Stops, Thread
  <1> QED BY <1>3, <1>4, <1>6, <1>7, <1>8, <1>9, Local, Zenon
             DEF NodeInv, ServiceInv

LEMMA BootIInv == ASSUME IInv, NEW n \in Node, Boot(n) PROVE IInv'
  <1>1. Placed(n) /\ Places(n) /\ StopInv(n) /\ LockInv(n) /\ RaceInv(n) /\ ServiceInv(n)
    BY Zenon DEF IInv, NodeInv
  <1>2. St(n, "main") = "off" /\ St(n, "monitor") = "off"
    BY <1>1, Here, Zenon DEF Boot, StopInv
  <1>3. pc'[n] = [monitor |-> <<"loop", 0>>, main |-> <<"boot", 0>>]
    BY Zenon DEF Boot, IInv, Domains, At
  <1>4. /\ DOMAIN pc'[n] = Thread
        /\ St(n, "monitor")' = "loop" /\ Ix(n, "monitor")' = 0
        /\ St(n, "main")' = "boot" /\ Ix(n, "main")' = 0 /\ Placed(n)'
    BY <1>3 DEF Thread, St, Ix, Placed
  <1>5. OnlyHere(n) BY <1>4, Zenon DEF Boot, IInv, Domains, OnlyHere
  <1>6. Domains' BY <1>5, Zenon DEF IInv, Domains, OnlyHere, Boot, election
  <1>7. Elsewhere(n) BY <1>5, Zenon DEF Elsewhere, OnlyHere, Boot, election
  <1>8. /\ Owns(n)' <=> Owns(n)
        /\ Linked(n)' <=> Linked(n)
        /\ Lead(n)' <=> Lead(n)
        /\ KeepFlags(n) /\ KeepServices(n) /\ GrowMishap(n)
    BY Unchanged, Zenon DEF Boot, election
  <1>9. Places(n)' BY <1>4, Zenon DEF Places
  <1>10. StopInv(n)' /\ LockInv(n)'
    BY <1>1, <1>2, <1>4, <1>8, Zenon DEF StopInv, LockInv, KeepFlags, Closing, Stops
  <1>11. RaceInv(n)'
    BY <1>1, <1>4, <1>8, Zenon DEF RaceInv, KeepServices, GrowMishap, Starts, Thread
  <1>12. ASSUME Clean(n)' PROVE HookInv(n)' /\ MonitorInv(n)' /\ MainInv(n)'
    <2>1. HookInv(n) /\ MonitorInv(n) /\ MainInv(n)
      BY <1>1, <1>8, <1>12, Zenon DEF ServiceInv, GrowMishap
    <2>2. SameServices(n) BY <1>8, ServicesKept, Zenon
    <2>3. ~Lead(n) /\ NoneLive(n) /\ Hooks(n) = 0 /\ ~Halt(n)
      BY <1>1, <1>2, <2>1, Zenon
         DEF StopInv, HookInv, MonitorInv, Releasing, Stops, Closing
    <2>4. HookInv(n)'
      BY <1>4, <1>8, <2>2, <2>3, Zenon
         DEF HookInv, KeepFlags, SameServices, Starts, Stops
    <2>5. MonitorInv(n)'
      BY <1>4, <1>8, <2>2, <2>3, Zenon DEF MonitorInv, SameServices, Starts, Stops
    <2>6. MainInv(n)'
      BY <1>2, <1>4, <1>8, <2>1, <2>3, Zenon
         DEF MainInv, StopInv, LockInv, KeepFlags, Releasing, Starts, Stops
    <2> QED BY <2>4, <2>5, <2>6, Zenon
  <1> QED BY <1>4, <1>6, <1>7, <1>9, <1>10, <1>11, <1>12, Local, Zenon
             DEF NodeInv, ServiceInv

----------------------------------------------------------------------------
\* Where a callback is after it is done with a service.
Onward(n, a, step) ==
    \/ Ix(n, a) < Services /\ St(n, a)' = step /\ Ix(n, a)' = Ix(n, a) + 1
    \/ Ix(n, a) = Services /\ a = "monitor" /\ St(n, a)' = "loop" /\ Ix(n, a)' = 0
    \/ /\ Ix(n, a) = Services /\ a = "main" /\ Ix(n, a)' = 0
       /\ St(n, a)' = IF step = "probe" THEN "up" ELSE IF Halt(n) THEN "exit" ELSE "halt"

LEMMA Advanced ==
    ASSUME IInv, NEW n \in Node, NEW a \in Thread, NEW step, Ix(n, a) \in Svc,
           Goto(n, a, After(n, a, step))
    PROVE  /\ Onward(n, a, step) /\ Placed(n)' /\ OnlyHere(n)
           /\ \A b \in Thread : b # a => KeepThread(n, b)
  <1> DEFINE p == IF Ix(n, a) < Services THEN step
                  ELSE IF a = "monitor" THEN "loop"
                  ELSE IF step = "probe" THEN "up" ELSE IF Halt(n) THEN "exit" ELSE "halt"
             q == IF Ix(n, a) < Services THEN Ix(n, a) + 1 ELSE 0
  <1>1. After(n, a, step) = <<p, q>> BY Zenon DEF After, At, Ix, Halt
  <1>2. /\ St(n, a)' = p /\ Ix(n, a)' = q /\ Placed(n)' /\ OnlyHere(n)
        /\ \A b \in Thread : b # a => KeepThread(n, b)
    <2> HIDE DEF p, q
    <2>1. Goto(n, a, <<p, q>>) BY <1>1, Zenon
    <2> QED BY <2>1, Moved, Zenon
  <1>3. Ix(n, a) < Services \/ Ix(n, a) = Services BY ServicesAssumption DEF Svc
  <1>4. Ix(n, a) = Services => ~(Ix(n, a) < Services) BY ServicesAssumption
  <1>5. a = "monitor" \/ a = "main" BY Zenon DEF Thread
  <1> QED BY <1>2, <1>3, <1>4, <1>5, Zenon DEF Onward

\* A callback's step that leaves the election and the flags alone.
Within(n, a) == /\ Owns(n)' <=> Owns(n)
                /\ Linked(n)' <=> Linked(n)
                /\ Lead(n)' <=> Lead(n)
                /\ KeepFlags(n) /\ GrowMishap(n) /\ Placed(n)'
                /\ \A b \in Thread : b # a => KeepThread(n, b)

\* Such a step keeps to its own callback.
LEMMA Inside ==
    ASSUME NEW n \in Node, NEW a \in Thread, NodeInv(n), Within(n, a), Ix(n, a) \in Svc,
           \/ /\ St(n, a) \in Starts
              /\ \/ St(n, a)' \in Starts /\ Ix(n, a)' \in Svc
                 \/ Ix(n, a)' = 0 /\ St(n, a)' = IF a = "monitor" THEN "loop" ELSE "up"
           \/ /\ St(n, a) \in Stops
              /\ \/ St(n, a)' \in Stops /\ Ix(n, a)' \in Svc
                 \/ /\ Ix(n, a)' = 0
                    /\ St(n, a)' = IF a = "monitor" THEN "loop"
                                   ELSE IF Halt(n) THEN "exit" ELSE "halt"
    PROVE  Places(n)' /\ StopInv(n)' /\ LockInv(n)'
  <1>1. Places(n) /\ StopInv(n) /\ LockInv(n) BY Zenon DEF NodeInv
  <1>2. CASE a = "monitor"
    <2>1. KeepThread(n, "main") BY <1>2, Zenon DEF Within, Thread
    <2>2. Places(n)' BY <1>1, <1>2, <2>1, Zenon
                        DEF Places, KeepThread, Starts, Stops
    <2>3. StopInv(n)'
      BY <1>1, <1>2, <2>1, Zenon
         DEF StopInv, Within, KeepThread, KeepFlags, Starts, Stops
    <2>4. LockInv(n)' BY <1>1, <1>2, Zenon
                         DEF LockInv, Within, KeepFlags, Starts, Stops
    <2> QED BY <2>2, <2>3, <2>4, Zenon
  <1>3. CASE a = "main"
    <2>1. KeepThread(n, "monitor") BY <1>3, Zenon DEF Within, Thread
    <2>2. Places(n)' BY <1>1, <1>3, <2>1, Zenon
                        DEF Places, KeepThread, Starts, Stops, Closing
    <2>3. StopInv(n)'
      BY <1>1, <1>3, Zenon DEF StopInv, Within, KeepFlags, Starts, Stops, Closing
    <2>4. LockInv(n)' BY <1>1, <2>1, Zenon
                         DEF LockInv, Within, KeepThread, KeepFlags
    <2> QED BY <2>2, <2>3, <2>4, Zenon
  <1> QED BY <1>2, <1>3, Zenon DEF Thread

\* What a start leaves behind, whether it found the thread or made it.
Up(n, i) == /\ Live(n, i)' /\ (Fresh(n) => ~Told(n, i)')
            /\ \A j \in Svc : j # i => /\ Live(n, j)' <=> Live(n, j)
                                       /\ Told(n, j)' <=> Told(n, j)
                                       /\ Stray(n, j)' <=> Stray(n, j)

LEMMA UpFacts ==
    ASSUME NEW n \in Node, NEW i \in Svc, Up(n, i), Fresh(n), UpTo(n, i)
    PROVE  /\ Fresh(n)' /\ UpTo(n, i + 1)'
           /\ i = Services => AllRunning(n)'
  <1>1. Fresh(n)' BY Zenon DEF Fresh, Up
  <1>2. \A j \in Svc : j < i + 1 => Live(n, j)' /\ ~Told(n, j)'
    BY ServicesAssumption DEF UpTo, Up, Svc
  <1>3. UpTo(n, i + 1)' BY <1>2, Zenon DEF UpTo
  <1>4. i = Services => \A j \in Svc : j < i + 1 BY ServicesAssumption DEF Svc
  <1> QED BY <1>1, <1>2, <1>3, <1>4, Zenon DEF AllRunning

\* A callback that has started a service goes on to the next or returns.
LEMMA StartOnward ==
    ASSUME NEW n \in Node, NEW a \in Thread, NodeInv(n), Within(n, a),
           NEW i \in Svc, Ix(n, a) = i,
           St(n, a) \in Starts, Onward(n, a, "probe"), Up(n, i),
           Stray(n, i)' => Stray(n, i) \/ (St(n, a) = "spawn" /\ Live(n, i))
    PROVE  NodeInv(n)'
  <1>1. Places(n) /\ StopInv(n) /\ LockInv(n) /\ RaceInv(n) /\ ServiceInv(n) BY
                                                                                Zenon
                                                                                DEF
                                                                                    NodeInv
  <1>2. i < Services => i + 1 \in Svc BY ServicesAssumption DEF Svc
  <1>3. a = "monitor" \/ a = "main" BY Zenon DEF Thread
  <1>4. Places(n)' /\ StopInv(n)' /\ LockInv(n)'
    BY <1>2, <1>3, Inside, Zenon DEF Onward, Starts
  <1>5. RaceInv(n)'
    <2>1. St(n, a)' \in {"probe", "loop", "up"} BY Zenon DEF Onward
    <2>2. \A b \in Thread : b # a /\ St(n, b) \in Starts => Raced(n)'
      BY <1>1, <1>3, Zenon DEF RaceInv, Within, GrowMishap, Thread
    <2>3. St(n, "main")' \in Starts /\ St(n, "monitor")' \in Starts => Raced(n)'
      BY <1>3, <2>2, Zenon DEF Within, KeepThread, Thread
    <2>4. ASSUME NEW b \in Thread, St(n, b)' = "spawn" PROVE Raced(n)'
      <3>1. b # a BY <2>1, <2>4, Zenon
      <3> QED BY <2>2, <2>4, <3>1, Zenon DEF Within, KeepThread, Starts
    <2>5. ASSUME NEW j \in Svc, Stray(n, j)' PROVE Overran(n)' \/ Raced(n)'
      <3>1. Stray(n, j) => Overran(n)' \/ Raced(n)'
        BY <1>1, Zenon DEF RaceInv, Within, GrowMishap
      <3>2. CASE j = i BY <1>1, <2>5, <3>1, <3>2, Zenon
                          DEF RaceInv, Within, GrowMishap
      <3>3. CASE j # i BY <2>5, <3>1, <3>3, Zenon DEF Up
      <3> QED BY <3>2, <3>3, Zenon
    <2> QED BY <2>3, <2>4, <2>5, Zenon DEF RaceInv
  <1>6. ASSUME Clean(n)' PROVE HookInv(n)' /\ MonitorInv(n)' /\ MainInv(n)'
    <2>1. HookInv(n) /\ MonitorInv(n) /\ MainInv(n) /\ ~Raced(n)
      BY <1>1, <1>6, Zenon DEF ServiceInv, Within, GrowMishap, Clean, Raced
    <2>2. Fresh(n) /\ UpTo(n, i) =>
            /\ Fresh(n)' /\ UpTo(n, i + 1)'
            /\ i = Services => AllRunning(n)'
      BY UpFacts, Zenon
    <2>3. CASE a = "monitor"
      <3>1. KeepThread(n, "main") BY <2>3, Zenon DEF Within, Thread
      <3>2. /\ Lead(n) /\ Hooks(n) # 0 /\ ~Releasing(n)
            /\ St(n, "main") \notin Starts \cup {"off", "boot", "close", "clear", "exit"}
        BY <1>1, <2>1, <2>3, Zenon
           DEF MonitorInv, MainInv, HookInv, StopInv, RaceInv, Starts, Stops
      <3>3. HookInv(n)'
        BY <2>1, <2>3, <3>1, <3>2, Zenon
           DEF HookInv, Onward, KeepThread, Within, KeepFlags
      <3>4. MainInv(n)'
        BY <2>1, <2>3, <3>1, <3>2, Zenon
           DEF MainInv, Onward, KeepThread, Within, KeepFlags, Releasing, Starts
      <3>5. St(n, "main") \in {"assign", "check", "up"} => Fresh(n) /\ UpTo(n, i)
        BY <2>1, <2>3, Zenon DEF MonitorInv
      <3>6. CASE i < Services
        <4>1. St(n, "monitor")' = "probe" /\ Ix(n, "monitor")' = i + 1
          BY <2>3, <3>6, ServicesAssumption DEF Onward
        <4>2. St(n, "main")' \in {"assign", "check", "up"}
              => Fresh(n)' /\ UpTo(n, Ix(n, "monitor"))'
          BY <2>2, <3>1, <3>5, <4>1, Zenon DEF KeepThread, UpTo
        <4> QED BY <3>1, <3>2, <3>3, <3>4, <4>1, <4>2, Zenon
                   DEF MonitorInv, KeepThread, Within, KeepFlags, Starts, Stops
      <3>7. CASE i = Services
        <4>1. St(n, "monitor")' = "loop"
          BY <2>3, <3>7, ServicesAssumption DEF Onward
        <4> QED BY <2>2, <3>1, <3>2, <3>3, <3>4, <3>5, <3>7, <4>1, Zenon
                   DEF MonitorInv, KeepThread, Within, Starts, Stops
      <3> QED BY <3>6, <3>7, Zenon DEF Onward
    <2>4. CASE a = "main"
      <3>1. KeepThread(n, "monitor") BY <2>4, Zenon DEF Within, Thread
      <3>2. /\ St(n, "monitor") = "loop" /\ Lead(n) /\ Fresh(n) /\ UpTo(n, i)
            /\ Hooks(n) = 2 /\ ~Halt(n)
        BY <1>1, <2>1, <2>4, Zenon
           DEF MainInv, HookInv, StopInv, Starts, Stops, Closing
      <3>3. HookInv(n)'
        BY <2>4, <3>1, <3>2, Zenon
           DEF HookInv, Onward, KeepThread, Within, KeepFlags
      <3>4. MonitorInv(n)'
        BY <2>2, <2>4, <3>1, <3>2, Zenon
           DEF MonitorInv, Onward, KeepThread, Within, Starts, Stops
      <3>5. MainInv(n)'
        <4>1. St(n, "main")' = "probe" => UpTo(n, Ix(n, "main"))'
          BY <2>2, <2>4, <3>2, Zenon DEF Onward, UpTo
        <4> QED BY <2>1, <2>2, <2>4, <3>1, <3>2, <4>1, Zenon
                   DEF MainInv, Onward, KeepThread, KeepFlags, Within, Releasing,
                       Starts, Stops
      <3> QED BY <3>3, <3>4, <3>5, Zenon
    <2> QED BY <1>3, <2>3, <2>4, Zenon
  <1> QED BY <1>4, <1>5, <1>6, Zenon DEF NodeInv, ServiceInv, Within

\* start() has found no thread, and will make one.
LEMMA Probed ==
    ASSUME NEW n \in Node, NEW a \in Thread, NodeInv(n), Within(n, a),
           NEW i \in Svc, Ix(n, a) = i, St(n, a) = "probe",
           St(n, a)' = "spawn", Ix(n, a)' = i, KeepServices(n), ~Live(n, i)
    PROVE  NodeInv(n)'
  <1>1. Places(n) /\ StopInv(n) /\ LockInv(n) /\ RaceInv(n) /\ ServiceInv(n) BY
                                                                                Zenon
                                                                                DEF
                                                                                    NodeInv
  <1>2. a = "monitor" \/ a = "main" BY Zenon DEF Thread
  <1>3. Places(n)' /\ StopInv(n)' /\ LockInv(n)' BY Inside, Zenon DEF Starts
  <1>4. RaceInv(n)'
    <2>1. \A b \in Thread : b # a /\ St(n, b) \in Starts => Raced(n)'
      BY <1>1, <1>2, Zenon DEF RaceInv, Within, GrowMishap, Thread, Starts
    <2>2. St(n, "main")' \in Starts /\ St(n, "monitor")' \in Starts => Raced(n)'
      BY <1>2, <2>1, Zenon DEF Within, KeepThread, Thread
    <2>3. ASSUME NEW b \in Thread, St(n, b)' = "spawn", Live(n, Ix(n, b))' PROVE Raced(n)'
      <3>1. CASE b = a
        <4>1. Ix(n, b)' = i BY <3>1, Zenon
        <4>2. Live(n, i)' BY <2>3, <4>1, Zenon DEF Live
        <4> QED BY <4>2, Zenon DEF KeepServices
      <3>2. CASE b # a BY <2>1, <2>3, <3>2, Zenon DEF Within, KeepThread, Starts
      <3> QED BY <3>1, <3>2, Zenon
    <2>4. \A j \in Svc : Stray(n, j)' => Overran(n)' \/ Raced(n)'
      BY <1>1, Zenon DEF RaceInv, Within, GrowMishap, KeepServices
    <2> QED BY <2>2, <2>3, <2>4, Zenon DEF RaceInv
  <1>5. ASSUME Clean(n)' PROVE HookInv(n)' /\ MonitorInv(n)' /\ MainInv(n)'
    <2>1. HookInv(n) /\ MonitorInv(n) /\ MainInv(n)
      BY <1>1, <1>5, Zenon DEF ServiceInv, Within, GrowMishap
    <2>2. SameServices(n) BY ServicesKept, Zenon
    <2>3. \A b \in Thread : Ix(n, b)' = Ix(n, b)
      BY Zenon DEF Within, KeepThread
    <2>4. \A b \in Thread : UpTo(n, Ix(n, b)) => UpTo(n, Ix(n, b))'
      BY <2>2, <2>3, Zenon DEF SameServices, UpTo
    <2>5. CASE a = "monitor"
      <3>1. KeepThread(n, "main") BY <2>5, Zenon DEF Within, Thread
      <3>2. HookInv(n)' BY <2>1, <2>2, <2>5, <3>1, Zenon
                           DEF HookInv, KeepThread, Within, KeepFlags, SameServices,
                               Starts, Stops
      <3>3. MonitorInv(n)' BY <2>1, <2>2, <2>4, <2>5, <3>1, Zenon
                              DEF MonitorInv, KeepThread, Within, KeepFlags,
                                  SameServices, Starts, Stops, Thread
      <3>4. MainInv(n)' BY <2>1, <2>2, <2>4, <2>5, <3>1, Zenon
                           DEF MainInv, KeepThread, Within, KeepFlags, Releasing,
                               Starts, Stops
      <3> QED BY <3>2, <3>3, <3>4, Zenon
    <2>6. CASE a = "main"
      <3>1. KeepThread(n, "monitor") BY <2>6, Zenon DEF Within, Thread
      <3>2. HookInv(n)' BY <2>1, <2>2, <2>6, <3>1, Zenon
                           DEF HookInv, KeepThread, Within, KeepFlags, SameServices,
                               Starts, Stops
      <3>3. MonitorInv(n)' BY <2>1, <2>2, <2>4, <2>6, <3>1, Zenon
                              DEF MonitorInv, MainInv, KeepThread, Within,
                                  KeepFlags, SameServices, Releasing, Starts, Stops
      <3>4. MainInv(n)' BY <2>1, <2>2, <2>4, <2>6, <3>1, Zenon
                           DEF MainInv, KeepThread, Within, KeepFlags, SameServices,
                               Releasing, Starts, Stops, Thread
      <3> QED BY <3>2, <3>3, <3>4, Zenon
    <2> QED BY <1>2, <2>5, <2>6, Zenon
  <1> QED BY <1>3, <1>4, <1>5, Zenon DEF NodeInv, ServiceInv, Within

\* A callback that is between two steps of one service, or starts none.
LEMMA RaceKept ==
    ASSUME NEW n \in Node, NEW a \in Thread, NodeInv(n), Within(n, a),
           St(n, a)' \notin Starts,
           \A i \in Svc : /\ Live(n, i)' => Live(n, i)
                          /\ Stray(n, i)' => Stray(n, i) \/ Overran(n)'
    PROVE  RaceInv(n)'
  <1>1. Places(n) /\ RaceInv(n) BY Zenon DEF NodeInv
  <1>2. ~(St(n, "main")' \in Starts /\ St(n, "monitor")' \in Starts)
    BY Zenon DEF Thread
  <1>3. ASSUME NEW b \in Thread, St(n, b)' = "spawn", Live(n, Ix(n, b))' PROVE Raced(n)'
    <2>1. b # a BY <1>3, Zenon DEF Starts
    <2>2. St(n, b) = "spawn" /\ Ix(n, b)' = Ix(n, b)
      BY <1>3, <2>1, Zenon DEF Within, KeepThread
    <2>3. Ix(n, b) \in Svc
      BY <1>1, <2>2, Zenon DEF Places, Thread, Closing
    <2>4. Live(n, Ix(n, b)) BY <1>3, <2>2, <2>3, Zenon
    <2> QED BY <1>1, <2>2, <2>4, Zenon DEF RaceInv, Within, GrowMishap
  <1>4. \A i \in Svc : Stray(n, i)' => Overran(n)' \/ Raced(n)'
    BY <1>1, Zenon DEF RaceInv, Within, GrowMishap
  <1> QED BY <1>2, <1>3, <1>4, Zenon DEF RaceInv

\* stop() has told the thread to end.
LEMMA Signalled ==
    ASSUME NEW n \in Node, NEW a \in Thread, NodeInv(n), Within(n, a),
           NEW i \in Svc, Ix(n, a) = i, St(n, a) = "signal",
           St(n, a)' = "join", Ix(n, a)' = i,
           \A j \in Svc : /\ Live(n, j)' <=> Live(n, j)
                          /\ Stray(n, j)' <=> Stray(n, j)
    PROVE  NodeInv(n)'
  <1>1. Places(n) /\ StopInv(n) /\ LockInv(n) /\ RaceInv(n) /\ ServiceInv(n) BY
                                                                                Zenon
                                                                                DEF
                                                                                    NodeInv
  <1>2. a = "monitor" \/ a = "main" BY Zenon DEF Thread
  <1>3. Places(n)' /\ StopInv(n)' /\ LockInv(n)' BY Inside, Zenon DEF Stops
  <1>4. RaceInv(n)' BY RaceKept, Zenon DEF Starts
  <1>5. ASSUME Clean(n)' PROVE HookInv(n)' /\ MonitorInv(n)' /\ MainInv(n)'
    <2>1. HookInv(n) /\ MonitorInv(n) /\ MainInv(n)
      BY <1>1, <1>5, Zenon DEF ServiceInv, Within, GrowMishap
    <2>2. /\ NoneLive(n) => NoneLive(n)'
          /\ \A j : DownTo(n, j) => DownTo(n, j)'
      BY Zenon DEF NoneLive, DownTo
    <2>3. CASE a = "monitor"
      <3>1. KeepThread(n, "main") BY <2>3, Zenon DEF Within, Thread
      <3>2. HookInv(n)' BY <2>1, <2>2, <2>3, <3>1, Zenon
                           DEF HookInv, KeepThread, Within, KeepFlags, Starts, Stops
      <3>3. MonitorInv(n)' BY <2>1, <2>2, <2>3, <3>1, Zenon
                              DEF MonitorInv, KeepThread, Within, KeepFlags, Starts,
                                  Stops, DownTo
      <3>4. MainInv(n)' BY <2>1, <2>3, <3>1, Zenon
                           DEF MainInv, KeepThread, Within, KeepFlags, Releasing,
                               Starts, Stops
      <3> QED BY <3>2, <3>3, <3>4, Zenon
    <2>4. CASE a = "main"
      <3>1. KeepThread(n, "monitor") BY <2>4, Zenon DEF Within, Thread
      <3>2. HookInv(n)' BY <2>1, <2>2, <2>4, <3>1, Zenon
                           DEF HookInv, KeepThread, Within, KeepFlags
      <3>3. MonitorInv(n)' BY <2>1, <2>2, <2>4, <3>1, Zenon
                              DEF MonitorInv, KeepThread, Within, KeepFlags,
                                  Releasing, Stops, DownTo
      <3>4. MainInv(n)' BY <2>1, <2>2, <2>4, <3>1, Zenon
                           DEF MainInv, KeepThread, Within, KeepFlags, Releasing,
                               Starts, Stops, DownTo
      <3> QED BY <3>2, <3>3, <3>4, Zenon
    <2> QED BY <1>2, <2>3, <2>4, Zenon
  <1> QED BY <1>3, <1>4, <1>5, Zenon DEF NodeInv, ServiceInv, Within

\* stop() has joined the thread: the callback goes on to the next or returns.
LEMMA StopOnward ==
    ASSUME NEW n \in Node, NEW a \in Thread, NodeInv(n), Within(n, a),
           NEW i \in Svc, Ix(n, a) = i, St(n, a) = "join", Onward(n, a, "signal"),
           KeepServices(n), ~Live(n, i)
    PROVE  NodeInv(n)'
  <1>1. Places(n) /\ StopInv(n) /\ LockInv(n) /\ RaceInv(n) /\ ServiceInv(n) BY
                                                                                Zenon
                                                                                DEF
                                                                                    NodeInv
  <1>2. a = "monitor" \/ a = "main" BY Zenon DEF Thread
  <1>3. i < Services => i + 1 \in Svc BY ServicesAssumption DEF Svc
  <1>4. Places(n)' /\ StopInv(n)' /\ LockInv(n)'
    BY <1>2, <1>3, Inside, Zenon DEF Onward, Stops
  <1>5. RaceInv(n)'
    <2>1. St(n, a)' \notin Starts BY Zenon DEF Onward, Starts
    <2> QED BY <2>1, RaceKept, Zenon DEF KeepServices
  <1>6. ASSUME Clean(n)' PROVE HookInv(n)' /\ MonitorInv(n)' /\ MainInv(n)'
    <2>1. HookInv(n) /\ MonitorInv(n) /\ MainInv(n)
      BY <1>1, <1>6, Zenon DEF ServiceInv, Within, GrowMishap
    <2>2. SameServices(n) BY ServicesKept, Zenon
    <2>3. DownTo(n, i) => /\ DownTo(n, i + 1)
                          /\ i = Services => NoneLive(n)
      BY ServicesAssumption DEF DownTo, NoneLive, Svc
    <2>4. \A b \in Thread : Ix(n, b)' = i + 1 /\ DownTo(n, i) => DownTo(n, Ix(n, b))'
      BY <2>2, <2>3, Zenon DEF SameServices, DownTo
    <2>5. CASE a = "monitor"
      <3>1. KeepThread(n, "main") BY <2>5, Zenon DEF Within, Thread
      <3>2. ~Lead(n) /\ Hooks(n) = 2 /\ DownTo(n, i)
        BY <2>1, <2>5, Zenon DEF MonitorInv, Stops
      <3>3. HookInv(n)' BY <2>1, <2>2, <2>5, <3>1, Zenon
                           DEF HookInv, Onward, KeepThread, Within, KeepFlags,
                               SameServices, Starts, Stops
      <3>4. MonitorInv(n)' BY <2>2, <2>3, <2>4, <2>5, <3>1, <3>2, Zenon
                              DEF MonitorInv, Onward, KeepThread, Within, KeepFlags,
                                  SameServices, Starts, Stops, Thread
      <3>5. MainInv(n)' BY <2>1, <2>5, <3>1, Zenon
                           DEF MainInv, Onward, KeepThread, Within, KeepFlags,
                               Releasing, Starts, Stops
      <3> QED BY <3>3, <3>4, <3>5, Zenon
    <2>6. CASE a = "main"
      <3>1. KeepThread(n, "monitor") BY <2>6, Zenon DEF Within, Thread
      <3>2. HookInv(n)' BY <2>1, <2>2, <2>6, <3>1, Zenon
                           DEF HookInv, Onward, KeepThread, Within, KeepFlags,
                               SameServices, Stops
      <3>3. Halt(n) => DownTo(n, i) /\ St(n, "monitor") = "off" /\ ~Linked(n) /\ ~Owns(n) /\ ~Lead(n)
        BY <2>1, <2>6, Zenon DEF MainInv, Releasing, Stops
      <3>4. MonitorInv(n)' BY <2>1, <2>2, <2>3, <2>6, <3>1, <3>3, Zenon
                              DEF MonitorInv, Onward, KeepThread, Within, KeepFlags,
                                  SameServices, Releasing, Starts, Stops
      <3>5. MainInv(n)' BY <2>1, <2>2, <2>3, <2>6, <3>1, Zenon
                           DEF MainInv, Onward, KeepThread, Within, KeepFlags,
                               SameServices, Releasing, Starts, Stops
      <3> QED BY <3>2, <3>4, <3>5, Zenon
    <2> QED BY <1>2, <2>5, <2>6, Zenon
  <1> QED BY <1>4, <1>5, <1>6, Zenon DEF NodeInv, ServiceInv, Within

----------------------------------------------------------------------------
\* Services change on one node only.
OnlyIts(n) == /\ DOMAIN svc' = Node /\ DOMAIN svc'[n] = Svc
              /\ \A j \in Svc : DOMAIN svc'[n][j] = {"thread", "stopped", "stray", "forgets"}
              /\ \A m \in Node \ {n} : svc'[m] = svc[m]

\* One service changes.
LEMMA Touched ==
    ASSUME IInv, NEW n \in Node, NEW i \in Svc, NEW s,
           DOMAIN s = {"thread", "stopped", "stray", "forgets"},
           svc' = [svc EXCEPT ![n][i] = s]
    PROVE  /\ OnlyIts(n)
           /\ Live(n, i)' <=> s.thread = "live"
           /\ Told(n, i)' <=> s.stopped
           /\ Stray(n, i)' <=> s.stray
           /\ \A j \in Svc : j # i => /\ Live(n, j)' <=> Live(n, j)
                                      /\ Told(n, j)' <=> Told(n, j)
                                      /\ Stray(n, j)' <=> Stray(n, j)
  <1>1. /\ DOMAIN svc = Node /\ DOMAIN svc[n] = Svc
        /\ \A j \in Svc : DOMAIN svc[n][j] = {"thread", "stopped", "stray", "forgets"}
    BY Zenon DEF IInv, Domains
  <1>2. /\ svc'[n][i] = s
        /\ \A j \in Svc : j # i => svc'[n][j] = svc[n][j]
        /\ DOMAIN svc' = Node /\ DOMAIN svc'[n] = Svc
        /\ \A m \in Node \ {n} : svc'[m] = svc[m]
    BY <1>1, Zenon
  <1>3. OnlyIts(n) BY <1>1, <1>2, Zenon DEF OnlyIts
  <1> QED BY <1>2, <1>3, Zenon DEF Live, Told, Stray

LEMMA StartedFacts ==
    ASSUME NEW s, DOMAIN s = {"thread", "stopped", "stray", "forgets"}
    PROVE  /\ DOMAIN Started(s) = {"thread", "stopped", "stray", "forgets"}
           /\ Started(s).thread = "live" /\ ~Started(s).stopped
           /\ Started(s).stray => s.stray \/ s.thread = "live"
  BY Zenon DEF Started

\* The service a callback is at is one of those there are.
LEMMA InService ==
    ASSUME NEW n \in Node, NEW a \in Thread, NodeInv(n), St(n, a) \in Starts \cup Stops
    PROVE  Ix(n, a) \in Svc
  BY Zenon DEF NodeInv, Places, Starts, Stops, Closing, Thread

\* A step of one node in a callback is a step of the system.
LEMMA Framed ==
    ASSUME IInv, NEW n \in Node, OnlyHere(n), OnlyIts(n), NodeInv(n)',
           UNCHANGED <<lock, conn, isLeader, stop, cb>>,
           DOMAIN mishap' = Node, \A m \in Node \ {n} : mishap'[m] = mishap[m]
    PROVE  IInv'
  <1>1. Domains' BY DEF IInv, Domains, OnlyHere, OnlyIts
  <1>2. Elsewhere(n) BY Zenon DEF Elsewhere, OnlyHere, OnlyIts
  <1> QED BY <1>1, <1>2, Local, Zenon

LEMMA ProbeIInv == ASSUME IInv, NEW n \in Node, NEW a \in Thread, Probe(n, a) PROVE IInv'
  <1>1. NodeInv(n) /\ Placed(n) BY Zenon DEF IInv, NodeInv
  <1>2. St(n, a) = "probe" BY Zenon DEF Probe, St
  <1>3. PICK i \in Svc : Ix(n, a) = i BY <1>1, <1>2, InService, Zenon DEF Starts
  <1>4. /\ Owns(n)' <=> Owns(n)
        /\ Linked(n)' <=> Linked(n)
        /\ Lead(n)' <=> Lead(n)
        /\ KeepFlags(n) /\ KeepServices(n) /\ GrowMishap(n)
    BY Unchanged, Zenon DEF Probe, election
  <1>5. ASSUME OnlyHere(n), NodeInv(n)' PROVE IInv'
    <2>1. Domains' BY <1>5, Zenon DEF IInv, Domains, OnlyHere, Probe, election
    <2>2. Elsewhere(n) BY <1>5, Zenon DEF Elsewhere, OnlyHere, Probe, election
    <2> QED BY <1>5, <2>1, <2>2, Local, Zenon
  <1>6. CASE Live(n, i)
    <2>1. Goto(n, a, After(n, a, "probe")) BY <1>3, <1>6, Zenon DEF Probe, Live, Ix
    <2>2. Onward(n, a, "probe") /\ Placed(n)' /\ OnlyHere(n)
          /\ \A b \in Thread : b # a => KeepThread(n, b)
      BY <1>3, <2>1, Advanced, Zenon
    <2>3. Up(n, i) BY <1>4, <1>6, Zenon DEF Up, KeepServices, Fresh
    <2>4. Stray(n, i)' => Stray(n, i) BY <1>4, Zenon DEF KeepServices
    <2>5. Within(n, a) BY <1>4, <2>2, Zenon DEF Within
    <2> QED BY <1>1, <1>2, <1>3, <1>5, <2>2, <2>3, <2>4, <2>5, StartOnward, Zenon
               DEF Starts
  <1>7. CASE ~Live(n, i)
    <2>1. Goto(n, a, <<"spawn", i>>) BY <1>3, <1>7, Zenon DEF Probe, Live, Ix
    <2>2. St(n, a)' = "spawn" /\ Ix(n, a)' = i /\ Placed(n)' /\ OnlyHere(n)
          /\ \A b \in Thread : b # a => KeepThread(n, b)
      BY <2>1, Moved, Zenon
    <2>3. Within(n, a) BY <1>4, <2>2, Zenon DEF Within
    <2> QED BY <1>1, <1>2, <1>3, <1>4, <1>5, <1>7, <2>2, <2>3, Probed, Zenon
  <1> QED BY <1>6, <1>7, Zenon

LEMMA SpawnIInv == ASSUME IInv, NEW n \in Node, NEW a \in Thread, Spawn(n, a) PROVE IInv'
  <1>1. NodeInv(n) /\ Placed(n) BY Zenon DEF IInv, NodeInv
  <1>2. St(n, a) = "spawn" BY Zenon DEF Spawn, St
  <1>3. PICK i \in Svc : Ix(n, a) = i BY <1>1, <1>2, InService, Zenon DEF Starts
  <1>4. /\ Owns(n)' <=> Owns(n)
        /\ Linked(n)' <=> Linked(n)
        /\ Lead(n)' <=> Lead(n)
        /\ KeepFlags(n) /\ GrowMishap(n)
    BY Unchanged, Zenon DEF Spawn, election
  <1>5. Onward(n, a, "probe") /\ Placed(n)' /\ OnlyHere(n)
        /\ \A b \in Thread : b # a => KeepThread(n, b)
    BY <1>3, Advanced, Zenon DEF Spawn
  <1>6. DOMAIN svc[n][i] = {"thread", "stopped", "stray", "forgets"}
    BY Zenon DEF IInv, Domains
  <1>7. svc' = [svc EXCEPT ![n][i] = Started(svc[n][i])]
    BY <1>3, Zenon DEF Spawn, Ix
  <1>8. OnlyIts(n) /\ Up(n, i)
        /\ (Stray(n, i)' => Stray(n, i) \/ Live(n, i))
    <2> DEFINE s == Started(svc[n][i])
    <2>1. /\ DOMAIN s = {"thread", "stopped", "stray", "forgets"}
          /\ s.thread = "live" /\ ~s.stopped
          /\ s.stray => Stray(n, i) \/ Live(n, i)
      BY <1>6, StartedFacts, Zenon DEF Stray, Live
    <2> HIDE DEF s
    <2> QED BY <1>7, <2>1, Touched, Zenon DEF Up, s
  <1>9. Within(n, a) BY <1>4, <1>5, Zenon DEF Within
  <1>10. NodeInv(n)' BY <1>1, <1>2, <1>3, <1>5, <1>8, <1>9, StartOnward, Zenon
                        DEF Starts
  <1>11. UNCHANGED <<lock, conn, isLeader, stop, cb, mishap>>
    BY Zenon DEF Spawn, election
  <1> QED BY <1>5, <1>8, <1>10, <1>11, Framed, Zenon DEF IInv, Domains

\* A callback that raises ends, and is remembered.
LEMMA RaiseIInv == ASSUME IInv, NEW n \in Node, NEW a \in Thread, Raise(n, a) PROVE IInv'
  <1>1. Places(n) /\ StopInv(n) /\ LockInv(n) /\ RaceInv(n) /\ NodeInv(n)
    BY Zenon DEF IInv, NodeInv
  <1>2. St(n, a) = "spawn" BY Zenon DEF Raise, St
  <1>3. PICK i \in Svc : Ix(n, a) = i BY <1>1, <1>2, InService, Zenon DEF Starts
  <1>4. OnlyIts(n) /\ \A j \in Svc : Stray(n, j)' => Stray(n, j) \/ (j = i /\ Live(n, j))
    <2>1. DOMAIN svc[n][i] = {"thread", "stopped", "stray", "forgets"}
      BY Zenon DEF IInv, Domains
    <2>2. PICK s : /\ svc' = [svc EXCEPT ![n][i] = s]
                   /\ DOMAIN s = {"thread", "stopped", "stray", "forgets"}
                   /\ s.stray => svc[n][i].stray \/ svc[n][i].thread = "live"
      <3>1. CASE svc' = [svc EXCEPT ![n][i] = Started(svc[n][i])]
        BY <2>1, <3>1, StartedFacts, Zenon
      <3>2. CASE svc' = [svc EXCEPT ![n][i] = [svc[n][i] EXCEPT !.stopped = FALSE]]
        <4>1. LET s == [svc[n][i] EXCEPT !.stopped = FALSE]
              IN /\ DOMAIN s = {"thread", "stopped", "stray", "forgets"}
                 /\ s.stray = svc[n][i].stray
          BY <2>1
        <4> QED BY <3>2, <4>1, Zenon
      <3> QED BY <1>3, <3>1, <3>2, Zenon DEF Raise, Ix
    <2> QED BY <2>2, Touched, Zenon DEF Stray, Live
  <1>5. /\ ~Clean(n)' /\ GrowMishap(n) /\ KeepFlags(n)
        /\ stop' = stop /\ cb' = cb
    BY Unchanged, Mishaps, Zenon DEF Raise
  <1>6. /\ DOMAIN mishap' = Node
        /\ \A m \in Node \ {n} : mishap'[m] = mishap[m]
    BY Zenon DEF IInv, Domains, Raise, Mishap
  <1>7. PICK p \in {"loop", "up"} :
          /\ Goto(n, a, <<p, 0>>) /\ p = IF a = "monitor" THEN "loop" ELSE "up"
    BY Zenon DEF Raise, At
  <1>8. /\ St(n, a)' = p /\ Ix(n, a)' = 0 /\ Placed(n)' /\ OnlyHere(n)
        /\ \A b \in Thread : b # a => KeepThread(n, b)
    BY <1>7, Moved, Zenon
  <1>9. \/ a = "monitor" /\ ~Lead(n)' /\ ~Owns(n)'
        \/ /\ a = "main"
           /\ Owns(n)' <=> Owns(n)
           /\ Linked(n)' <=> Linked(n)
           /\ Lead(n)' <=> Lead(n)
    <2>1. CASE a = "monitor"
      BY <2>1, NoneAssumption, Zenon DEF IInv, Domains, Raise, Lead, Owns
    <2>2. CASE a # "monitor" BY <2>2, Unchanged, Zenon DEF Raise, election
    <2> QED BY <2>1, <2>2, Zenon
  <1>10. a = "monitor" \/ a = "main" BY Zenon DEF Thread
  <1>11. Places(n)'
    BY <1>1, <1>7, <1>8, <1>10, Zenon DEF Places, KeepThread, Thread
  <1>12. StopInv(n)'
    BY <1>1, <1>2, <1>5, <1>7, <1>8, <1>9, Zenon
       DEF StopInv, KeepThread, KeepFlags, Thread, Stops, Closing
  <1>13. LockInv(n)'
    BY <1>1, <1>5, <1>8, <1>9, Zenon DEF LockInv, KeepThread, KeepFlags, Thread
  <1>14. RaceInv(n)'
    <2>1. St(n, a)' \notin Starts BY <1>7, <1>8, Zenon DEF Starts
    <2>2. ~(St(n, "main")' \in Starts /\ St(n, "monitor")' \in Starts) BY <1>10,
                                                                          <2>1,
                                                                          Zenon
    <2>3. ASSUME NEW b \in Thread, St(n, b)' = "spawn" PROVE Raced(n)'
      <3>1. b # a BY <2>1, <2>3, Zenon DEF Starts
      <3>2. St(n, b) = "spawn" BY <1>8, <2>3, <3>1, Zenon DEF KeepThread
      <3> QED BY <1>1, <1>2, <1>5, <1>10, <3>1, <3>2, Zenon
                 DEF RaceInv, GrowMishap, Thread, Starts
    <2>4. \A j \in Svc : Stray(n, j)' => Overran(n)' \/ Raced(n)'
      BY <1>1, <1>2, <1>3, <1>4, <1>5, Zenon DEF RaceInv, GrowMishap
    <2> QED BY <2>2, <2>3, <2>4, Zenon DEF RaceInv
  <1>15. NodeInv(n)'
    BY <1>5, <1>8, <1>11, <1>12, <1>13, <1>14, Zenon DEF NodeInv, ServiceInv
  <1>16. /\ DOMAIN conn' = Node /\ DOMAIN isLeader' = Node
         /\ \A m \in Node \ {n} : /\ conn'[m] = conn[m] /\ isLeader'[m] = isLeader[m]
                                  /\ lock' = m => lock = m
    BY NoneAssumption DEF IInv, Domains, Raise, election
  <1>17. Domains' BY <1>4, <1>5, <1>6, <1>8, <1>16
                     DEF IInv, Domains, OnlyHere, OnlyIts
  <1>18. Elsewhere(n) BY <1>4, <1>5, <1>6, <1>8, <1>16, Zenon
                         DEF Elsewhere, OnlyHere, OnlyIts
  <1> QED BY <1>15, <1>17, <1>18, Local, Zenon

LEMMA SignalIInv == ASSUME IInv, NEW n \in Node, NEW a \in Thread, Signal(n, a) PROVE IInv'
  <1>1. NodeInv(n) BY Zenon DEF IInv
  <1>2. St(n, a) = "signal" BY Zenon DEF Signal, St
  <1>3. PICK i \in Svc : Ix(n, a) = i BY <1>1, <1>2, InService, Zenon DEF Stops
  <1>4. /\ Owns(n)' <=> Owns(n)
        /\ Linked(n)' <=> Linked(n)
        /\ Lead(n)' <=> Lead(n)
        /\ KeepFlags(n) /\ GrowMishap(n)
    BY Unchanged, Zenon DEF Signal, election
  <1>5. /\ St(n, a)' = "join" /\ Ix(n, a)' = i /\ Placed(n)' /\ OnlyHere(n)
        /\ \A b \in Thread : b # a => KeepThread(n, b)
    <2>1. Goto(n, a, <<"join", i>>) BY <1>3, Zenon DEF Signal, Ix
    <2> QED BY <2>1, Moved, Zenon
  <1>6. OnlyIts(n) /\ \A j \in Svc : (Live(n, j)' <=> Live(n, j)) /\ (Stray(n, j)' <=> Stray(n, j))
    <2> DEFINE s == [svc[n][i] EXCEPT !.stopped = TRUE]
    <2>1. DOMAIN svc[n][i] = {"thread", "stopped", "stray", "forgets"}
      BY Zenon DEF IInv, Domains
    <2>2. /\ DOMAIN s = {"thread", "stopped", "stray", "forgets"}
          /\ s.thread = svc[n][i].thread
          /\ s.stray = svc[n][i].stray
      BY <2>1, Zenon
    <2>3. svc' = [svc EXCEPT ![n][i] = s] BY <1>3, Zenon DEF Signal, Ix
    <2> HIDE DEF s
    <2>4. /\ OnlyIts(n)
          /\ Live(n, i)' <=> s.thread = "live"
          /\ Stray(n, i)' <=> s.stray
          /\ \A j \in Svc : j # i => (Live(n, j)' <=> Live(n, j)) /\ (Stray(n, j)' <=> Stray(n, j))
      BY <2>2, <2>3, Touched, Zenon
    <2> QED BY <2>2, <2>4, Zenon DEF Live, Stray
  <1>7. Within(n, a) BY <1>4, <1>5, Zenon DEF Within
  <1>8. NodeInv(n)' BY <1>1, <1>2, <1>3, <1>5, <1>6, <1>7, Signalled, Zenon
  <1>9. UNCHANGED <<lock, conn, isLeader, stop, cb, mishap>>
    BY Zenon DEF Signal, election
  <1> QED BY <1>5, <1>6, <1>8, <1>9, Framed, Zenon DEF IInv, Domains

LEMMA JoinIInv == ASSUME IInv, NEW n \in Node, NEW a \in Thread, Join(n, a) PROVE IInv'
  <1>1. NodeInv(n) BY Zenon DEF IInv
  <1>2. St(n, a) = "join" BY Zenon DEF Join, St
  <1>3. PICK i \in Svc : Ix(n, a) = i BY <1>1, <1>2, InService, Zenon DEF Stops
  <1>4. /\ Owns(n)' <=> Owns(n)
        /\ Linked(n)' <=> Linked(n)
        /\ Lead(n)' <=> Lead(n)
        /\ KeepFlags(n) /\ GrowMishap(n)
    BY Unchanged, Zenon DEF Join, election
  <1>5. Onward(n, a, "signal") /\ Placed(n)' /\ OnlyHere(n)
        /\ \A b \in Thread : b # a => KeepThread(n, b)
    BY <1>3, Advanced, Zenon DEF Join
  <1>6. OnlyIts(n) /\ KeepServices(n) /\ ~Live(n, i)
    <2> DEFINE s == [svc[n][i] EXCEPT !.thread = IF svc[n][i].forgets THEN "none" ELSE @]
    <2>1. DOMAIN svc[n][i] = {"thread", "stopped", "stray", "forgets"}
      BY Zenon DEF IInv, Domains
    <2>2. /\ svc' = [svc EXCEPT ![n][i] = s]
          /\ svc[n][i].thread # "live"
      BY <1>3, Zenon DEF Join, Ix
    <2>3. /\ DOMAIN s = {"thread", "stopped", "stray", "forgets"}
          /\ s.thread # "live" /\ s.stray = svc[n][i].stray /\ s.stopped = svc[n][i].stopped
      BY <2>1, <2>2, Zenon
    <2> HIDE DEF s
    <2> QED BY <2>2, <2>3, Touched, Zenon DEF KeepServices, Live, Told, Stray
  <1>7. Within(n, a) BY <1>4, <1>5, Zenon DEF Within
  <1>8. NodeInv(n)' BY <1>1, <1>2, <1>3, <1>5, <1>6, <1>7, StopOnward, Zenon
  <1>9. UNCHANGED <<lock, conn, isLeader, stop, cb, mishap>>
    BY Zenon DEF Join, election
  <1> QED BY <1>5, <1>6, <1>8, <1>9, Framed, Zenon DEF IInv, Domains

\* A join that gives up is remembered.
LEMMA JoinTimesOutIInv ==
    ASSUME IInv, NEW n \in Node, NEW a \in Thread, JoinTimesOut(n, a) PROVE IInv'
  <1>1. NodeInv(n) BY Zenon DEF IInv
  <1>2. St(n, a) = "join" BY Zenon DEF JoinTimesOut, St
  <1>3. PICK i \in Svc : Ix(n, a) = i BY <1>1, <1>2, InService, Zenon DEF Stops
  <1>4. /\ Owns(n)' <=> Owns(n)
        /\ Linked(n)' <=> Linked(n)
        /\ Lead(n)' <=> Lead(n)
        /\ KeepFlags(n) /\ GrowMishap(n) /\ ~Clean(n)' /\ Overran(n)'
    BY Unchanged, Mishaps, Zenon DEF JoinTimesOut, election
  <1>5. Onward(n, a, "signal") /\ Placed(n)' /\ OnlyHere(n)
        /\ \A b \in Thread : b # a => KeepThread(n, b)
    BY <1>3, Advanced, Zenon DEF JoinTimesOut
  <1>6. OnlyIts(n) /\ \A j \in Svc : Live(n, j)' => Live(n, j)
    <2> DEFINE s == IF svc[n][i].forgets
                    THEN [svc[n][i] EXCEPT !.thread = "none", !.stray = TRUE]
                    ELSE svc[n][i]
    <2>1. DOMAIN svc[n][i] = {"thread", "stopped", "stray", "forgets"}
      BY Zenon DEF IInv, Domains
    <2>2. svc' = [svc EXCEPT ![n][i] = s] BY <1>3, Zenon DEF JoinTimesOut, Ix
    <2>3. /\ DOMAIN s = {"thread", "stopped", "stray", "forgets"}
          /\ s.thread = "live" => svc[n][i].thread = "live"
      BY <2>1, Zenon
    <2> HIDE DEF s
    <2>4. /\ OnlyIts(n)
          /\ Live(n, i)' <=> s.thread = "live"
          /\ \A j \in Svc : j # i => (Live(n, j)' <=> Live(n, j))
      BY <2>2, <2>3, Touched, Zenon
    <2> QED BY <2>3, <2>4, Zenon DEF Live
  <1>7. Within(n, a) BY <1>4, <1>5, Zenon DEF Within
  <1>8. St(n, a)' \notin Starts BY <1>5, Zenon DEF Onward, Starts
  <1>9. RaceInv(n)' BY <1>1, <1>4, <1>6, <1>7, <1>8, RaceKept, Zenon
  <1>10. i < Services => i + 1 \in Svc BY ServicesAssumption DEF Svc
  <1>11. Places(n)' /\ StopInv(n)' /\ LockInv(n)'
    BY <1>1, <1>2, <1>3, <1>5, <1>7, <1>10, Inside, Zenon DEF Onward, Stops
  <1>12. NodeInv(n)' BY <1>4, <1>5, <1>9, <1>11, Zenon DEF NodeInv, ServiceInv
  <1>13. /\ UNCHANGED <<lock, conn, isLeader, stop, cb>>
         /\ DOMAIN mishap' = Node
         /\ \A m \in Node \ {n} : mishap'[m] = mishap[m]
    BY Zenon DEF IInv, Domains, JoinTimesOut, Mishap, election
  <1> QED BY <1>5, <1>6, <1>12, <1>13, Framed, Zenon

LEMMA ServiceExitsIInv ==
    ASSUME IInv, NEW n \in Node, NEW i \in Svc, ServiceExits(n, i) PROVE IInv'
  <1>1. NodeInv(n) /\ Placed(n) BY Zenon DEF IInv, NodeInv
  <1>2. DOMAIN svc[n][i] = {"thread", "stopped", "stray", "forgets"}
    BY Zenon DEF IInv, Domains
  <1>3. PICK s : /\ svc' = [svc EXCEPT ![n][i] = s] /\ Told(n, i)
                 /\ DOMAIN s = {"thread", "stopped", "stray", "forgets"}
                 /\ s.thread = "live" => svc[n][i].thread = "live"
                 /\ s.stopped = svc[n][i].stopped
                 /\ s.stray => svc[n][i].stray
    <2>1. CASE svc' = [svc EXCEPT ![n][i] = [svc[n][i] EXCEPT !.thread = "dead"]]
      <3>1. LET s == [svc[n][i] EXCEPT !.thread = "dead"]
            IN /\ DOMAIN s = {"thread", "stopped", "stray", "forgets"}
               /\ s.thread = "dead" /\ s.stopped = svc[n][i].stopped /\ s.stray = svc[n][i].stray
        BY <1>2
      <3>2. Told(n, i) BY Zenon DEF ServiceExits, Told
      <3> QED BY <2>1, <3>1, <3>2, Zenon
    <2>2. CASE svc' = [svc EXCEPT ![n][i] = [svc[n][i] EXCEPT !.stray = FALSE]]
      <3>1. LET s == [svc[n][i] EXCEPT !.stray = FALSE]
            IN /\ DOMAIN s = {"thread", "stopped", "stray", "forgets"}
               /\ s.thread = svc[n][i].thread /\ s.stopped = svc[n][i].stopped /\ ~s.stray
        BY <1>2
      <3>2. Told(n, i) BY Zenon DEF ServiceExits, Told
      <3> QED BY <2>2, <3>1, <3>2, Zenon
    <2> QED BY <2>1, <2>2, Zenon DEF ServiceExits
  <1>4. OnlyIts(n) /\ WaneServices(n)
    <2>1. /\ OnlyIts(n)
          /\ Live(n, i)' <=> s.thread = "live"
          /\ Told(n, i)' <=> s.stopped
          /\ Stray(n, i)' <=> s.stray
          /\ \A j \in Svc : j # i => /\ Live(n, j)' <=> Live(n, j)
                                     /\ Told(n, j)' <=> Told(n, j)
                                     /\ Stray(n, j)' <=> Stray(n, j)
      BY <1>3, Touched, Zenon
    <2>2. /\ Live(n, i)' => Live(n, i)
          /\ Told(n, i)' <=> Told(n, i)
          /\ Stray(n, i)' => Stray(n, i)
      BY <1>3, <2>1, Zenon DEF Live, Told, Stray
    <2> QED BY <1>3, <2>1, <2>2, Zenon DEF WaneServices
  <1>5. /\ Placed(n)' /\ OnlyHere(n) /\ KeepFlags(n) /\ GrowMishap(n)
        /\ \A a \in Thread : KeepThread(n, a)
        /\ Owns(n)' <=> Owns(n)
        /\ Linked(n)' <=> Linked(n)
        /\ Lead(n)' <=> Lead(n)
        /\ UNCHANGED <<lock, conn, isLeader, stop, cb, mishap>>
    BY <1>1, Unchanged, Zenon
       DEF ServiceExits, election, Placed, St, Ix, KeepThread, OnlyHere, IInv,
           Domains
  <1>6. NodeInv(n)' BY <1>1, <1>4, <1>5, KeptNode, Zenon
  <1> QED BY <1>4, <1>5, <1>6, Framed, Zenon DEF IInv, Domains

----------------------------------------------------------------------------
LEMMA NextIInv == IInv /\ [Next]_vars => IInv'
  <1> SUFFICES ASSUME IInv, [Next]_vars PROVE IInv' OBVIOUS
  <1>1. CASE UNCHANGED vars
    <2>1. Domains' BY <1>1, Zenon DEF vars, IInv, Domains
    <2>2. ASSUME NEW n \in Node PROVE NodeInv(n)'
      <3>1. /\ NodeInv(n) /\ Placed(n)' /\ KeepFlags(n) /\ KeepServices(n) /\ GrowMishap(n)
            /\ \A a \in Thread : KeepThread(n, a)
            /\ Owns(n)' <=> Owns(n)
            /\ Linked(n)' <=> Linked(n)
            /\ Lead(n)' <=> Lead(n)
        BY <1>1, Unchanged, Zenon
           DEF vars, IInv, NodeInv, Placed, St, Ix, KeepThread
      <3>2. WaneServices(n) BY <3>1, Zenon DEF KeepServices, WaneServices
      <3> QED BY <3>1, <3>2, KeptNode, Zenon
    <2> QED BY <2>1, <2>2, Zenon DEF IInv
  <1>2. ASSUME NEW n \in Node, Progress(n) PROVE IInv'
    <2>1. ASSUME NEW a \in Thread, Callback(n, a) PROVE IInv'
      BY <2>1, ProbeIInv, SpawnIInv, SignalIInv, JoinIInv, JoinTimesOutIInv, Zenon
         DEF Callback
    <2>2. CASE Monitor(n)
      BY <2>1, <2>2, TryAcquireIInv, SetLeaderIInv, CallBecomeIInv, PingFailsIInv,
         MonitorExitsIInv, Zenon
         DEF Monitor, Thread
    <2>3. CASE Main(n)
      BY <2>1, <2>3, AssignIInv, CheckLeaderIInv, StopMonitoringIInv,
         MonitorJoinedIInv, CloseIInv, ClearIInv, EndIInv, Zenon
         DEF Main, Thread, Exit
    <2>4. CASE \E i \in Svc : ServiceExits(n, i) BY <2>4, ServiceExitsIInv, Zenon
    <2> QED BY <1>2, <2>2, <2>3, <2>4, Zenon DEF Progress
  <1>3. ASSUME NEW n \in Node,
               \/ Boot(n) \/ BootFails(n) \/ Shutdown(n) \/ Crash(n) \/ LoseConnection(n)
               \/ \E a \in Thread : Raise(n, a)
        PROVE  IInv'
    BY <1>3, BootIInv, BootFailsIInv, ShutdownIInv, EndIInv, LoseConnectionIInv,
       RaiseIInv, Zenon
       DEF Crash
  <1> QED BY <1>1, <1>2, <1>3, Zenon DEF Next

LEMMA Inductive == Spec => []IInv
  BY InitIInv, NextIInv, PTL DEF Spec

\* Whatever its callbacks do, and however often it starts, stops and loses its
\* connection, no node sits on the advisory lock without leading
\* (LeaderElectionService._monitor_loop with the release of Bug #540), for any
\* number of nodes, services and events.
THEOREM NoLockWithoutLeader == Spec => []NoOrphanLock
  <1>1. ASSUME IInv, NEW n \in Node, lock = n, pc[n]["monitor"] = At("loop"),
               pc[n]["main"] \in {At("boot"), At("assign"), At("check"), At("up")}
        PROVE  isLeader[n] /\ conn[n]
    <2>1. StopInv(n) /\ LockInv(n) BY <1>1, Zenon DEF IInv, NodeInv
    <2>2. St(n, "monitor") = "loop" /\ St(n, "main") \in {"boot", "assign", "check", "up"}
      BY <1>1, Here, Zenon
    <2> QED BY <1>1, <2>1, <2>2, Zenon
               DEF StopInv, LockInv, Owns, Lead, Linked, Closing, Stops
  <1>2. IInv => NoOrphanLock BY <1>1, Zenon DEF NoOrphanLock
  <1> QED BY <1>2, Inductive, PTL

\* start() and stop() of a service, called by monitor and main thread, leave at
\* most one thread of it unless a join timed out or the two raced.
THEOREM ServicesAreSingle == Spec => []OneThreadEach
  <1>1. IInv => OneThreadEach
    BY Zenon DEF IInv, NodeInv, RaceInv, OneThreadEach, Stray, Overran, Raced
  <1> QED BY <1>1, Inductive, PTL

\* A node at rest runs all of the leader's services if it is the leader and none
\* if it is not (unless something went wrong on it), wherever in startup,
\* election or shutdown leadership changed.
THEOREM LeaderRunsServices == Spec => []HousekeepingOnLeader
  <1>1. ASSUME IInv, NEW n \in Node, Quiet(n), mishap[n] = {}, NEW i \in Svc
        PROVE  /\ ~svc[n][i].stray
               /\ isLeader[n] => Running(svc[n][i])
               /\ ~isLeader[n] => svc[n][i].thread # "live"
    <2>1. St(n, "monitor") = "loop" /\ St(n, "main") = "up"
      BY <1>1, Here, Zenon DEF Quiet
    <2>2. ~svc[n][i].stray BY <1>1, Zenon
                              DEF IInv, NodeInv, RaceInv, Stray, Overran, Raced
    <2>3. MonitorInv(n) BY <1>1, Zenon DEF IInv, NodeInv, ServiceInv, Clean
    <2> QED BY <2>1, <2>2, <2>3, Zenon
               DEF MonitorInv, AllRunning, NoneLive, Releasing, Stops, Live, Told,
                   Lead, Running
  <1>2. IInv => HousekeepingOnLeader BY <1>1, Zenon DEF HousekeepingOnLeader
  <1> QED BY <1>2, Inductive, PTL

\* A node that shuts down in order ends with neither the lock nor a running
\* service, although its monitor may win an election in the middle of it.
THEOREM ShutdownIsClean == Spec => []CleanExit
  <1>1. ASSUME IInv, NEW n \in Node, pc[n]["main"] = At("exit"), mishap[n] = {}
        PROVE  /\ lock # n /\ ~isLeader[n]
               /\ \A i \in Svc : svc[n][i].thread # "live" /\ ~svc[n][i].stray
    <2>1. St(n, "main") = "exit" BY <1>1, Here, Zenon
    <2>2. \A i \in Svc : ~svc[n][i].stray
      BY <1>1, Zenon DEF IInv, NodeInv, RaceInv, Stray, Overran, Raced
    <2>3. MainInv(n) BY <1>1, Zenon DEF IInv, NodeInv, ServiceInv, Clean
    <2> QED BY <2>1, <2>2, <2>3, Zenon DEF MainInv, NoneLive, Owns, Lead, Live
  <1>2. IInv => CleanExit BY <1>1, Zenon DEF CleanExit
  <1> QED BY <1>2, Inductive, PTL

=============================================================================
