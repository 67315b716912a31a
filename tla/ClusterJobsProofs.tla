------------------------- MODULE ClusterJobsProofs -------------------------
(***************************************************************************)
(* Proofs about ClusterJobs, for any number of nodes, jobs and outages:    *)
(* pending rows are claimable, only the latest claim of a job decides its  *)
(* outcome, and a sweep takes nothing from a node that kept its heartbeat. *)
(***************************************************************************)
EXTENDS ClusterJobs, TLAPS

\* Only claimed rows have an owner to lose.
Unowned == \A j \in Job : status[j] \in {"none", "pending"} => owner[j] = None

\* What a claim loop knows of the row it works on.
LoopOK == \A n \in Node :
    /\ loop[n] \in {"claimed", "executing", "recorded"} => cur[n] \in Job
    /\ valid[n] => cur[n] \in Job /\ owner[cur[n]] = n
    /\ loop[n] \in {"claimed", "executing"} /\ owner[cur[n]] = n => valid[n]
    /\ life[n] \in {"down", "booting"} => loop[n] = "idle"

\* A node that has cleaned up after its crash and not yet registered owns no
\* running row.
BootOK == \A n \in Node : life[n] = "booting" =>
    \A j \in Job : owner[j] = n => status[j] # "running"

\* A node that is missing from the list of a sweep, although its heartbeat
\* never lapsed, registered after the list was read; so did its claims.
SweepOK == /\ \A j \in young : ~aged[j]
           /\ \A n \in Node : Beating(n) /\ ~lapsed[n] => fresh[n]
           /\ sweep = "listed" =>
                \A n \in Node : Beating(n) /\ ~lapsed[n] /\ n \notin active =>
                   \A j \in Job : owner[j] = n /\ status[j] = "running"
                                     => j \in young

Inv == TypeOK /\ Unowned /\ LoopOK /\ BootOK /\ SweepOK

----------------------------------------------------------------------------
LEMMA BooleanUpdate == ASSUME NEW S, NEW f \in [S -> BOOLEAN], NEW x,
                              NEW b \in BOOLEAN
                       PROVE  [f EXCEPT ![x] = b] \in [S -> BOOLEAN]
  BY Zenon

\* The Boolean columns and flags, apart from the rest of the type invariant.
Flags == /\ aged \in [Job -> BOOLEAN] /\ valid \in [Node -> BOOLEAN]
         /\ fresh \in [Node -> BOOLEAN] /\ lapsed \in [Node -> BOOLEAN]

Shape == /\ status \in [Job -> {"none", "pending", "running"} \cup Terminal]
         /\ owner \in [Job -> Node \cup {None}]
         /\ life \in [Node -> {"up", "releasing", "joining", "offline",
                               "down", "booting"}]
         /\ loop \in [Node -> {"idle", "polling", "claimed", "executing",
                               "recorded"}]
         /\ cur \in [Node -> Job \cup {None}]
         /\ flight = [n \in Node |-> IF loop[n] \in {"executing", "recorded"}
                                     THEN cur[n] ELSE None]
         /\ rel \in [Node -> Job \cup {None}]
         /\ sweep \in {"idle", "listed"} /\ active \subseteq Node
         /\ young \subseteq Job /\ cancelling \subseteq Job
         /\ stranded \subseteq Job
         /\ outages \in 0..MaxOutages

LEMMA TypeSplits == TypeOK <=> Flags /\ Shape
  BY Zenon DEF TypeOK, Flags, Shape

LEMMA FlagsStep == ASSUME Flags, [Next]_vars PROVE Flags'
<1> USE DEF Flags, rowVars, nodeVars, loopVars, sweepVars
<1> DEFINE SameFlags == UNCHANGED <<aged, valid, fresh, lapsed>>
<1>1. SameFlags => Flags'
  BY Zenon
<1>2. TRUE \in BOOLEAN /\ FALSE \in BOOLEAN
  BY Zenon
<1>3. ASSUME NEW j \in Job, Submit(j) \/ CancelCheck(j) \/ CancelWrite(j)
      PROVE  Flags'
  BY <1>3, <1>1, Zenon DEF Submit, CancelCheck, CancelWrite
<1>4. ASSUME NEW j \in Job, GracePasses(j) PROVE Flags'
  BY <1>4, <1>2, BooleanUpdate, Zenon DEF GracePasses
<1>5. ASSUME NEW n \in Node, \/ Poll(n) \/ ClaimNothing(n) \/ Execute(n)
                             \/ RecordLost(n)
                             \/ \E s \in {"completed", "failed"} : Record(n, s)
      PROVE  Flags'
  BY <1>5, <1>1, Zenon DEF Poll, ClaimNothing, Execute, RecordLost, Record
<1>6. ASSUME NEW n \in Node, NEW j \in Job, Claim(n, j) \/ ClaimLost(n, j)
      PROVE  Flags'
  BY <1>6, <1>2, BooleanUpdate, Zenon DEF Claim, ClaimLost, TakeRow
<1>7. ASSUME NEW n \in Node, Land(n) PROVE Flags'
  BY <1>7, <1>2, BooleanUpdate, Zenon DEF Land
<1>8. ASSUME NEW n \in Node, Stop(n) \/ Start(n) PROVE Flags'
  BY <1>8, <1>1, Zenon DEF Stop, Start
<1>9. ASSUME NEW n \in Node, ReleaseJob(n) PROVE Flags'
  <2>1. fresh' = fresh /\ lapsed' = lapsed
    BY <1>9, Zenon DEF ReleaseJob
  <2>2. ASSUME NEW j \in Job, Released(j)
        PROVE  aged' \in [Job -> BOOLEAN] /\ valid' \in [Node -> BOOLEAN]
    <3>1. aged' \in [Job -> BOOLEAN]
      BY <2>2, <1>2, BooleanUpdate, Zenon DEF Released
    <3>2. \A m \in Node : (valid[m] /\ cur[m] # j) \in BOOLEAN
      BY Zenon
    <3>3. valid' \in [Node -> BOOLEAN]
      BY <2>2, <3>2, Zenon DEF Released
    <3>4. QED
      BY <3>1, <3>3, Zenon
  <2>3. CASE UNCHANGED <<rowVars, valid>>
    BY <2>1, <2>3, Zenon
  <2>4. QED
    BY <1>9, <2>1, <2>2, <2>3, Zenon DEF ReleaseJob
<1>10. ASSUME NEW n \in Node, Exit(n) \/ Crash(n) PROVE Flags'
  BY <1>10, <1>2, BooleanUpdate, Zenon DEF Exit, Crash, Die
<1>11. ASSUME NEW n \in Node, GoOffline(n) \/ Heartbeat(n) \/ HeartbeatExpires(n)
       PROVE  Flags'
  BY <1>11, <1>2, BooleanUpdate, Zenon DEF GoOffline, Heartbeat, HeartbeatExpires
<1>12. ASSUME NEW n \in Node, Register(n) \/ HeartbeatLapses(n) PROVE Flags'
  BY <1>12, <1>2, BooleanUpdate, Zenon DEF Register, HeartbeatLapses
<1>13. ASSUME ListActive PROVE Flags'
  BY <1>13, <1>1, Zenon DEF ListActive
<1>14. ASSUME NEW J, Sweep(J) PROVE Flags'
  <2>1. fresh' = fresh /\ lapsed' = lapsed
    BY <1>14, Zenon DEF Sweep
  <2>2. \A j \in Job : (aged[j] /\ j \notin J) \in BOOLEAN
    BY Zenon
  <2>3. \A n \in Node : (valid[n] /\ cur[n] \notin J) \in BOOLEAN
    BY Zenon
  <2>4. aged' \in [Job -> BOOLEAN] /\ valid' \in [Node -> BOOLEAN]
    BY <1>14, <2>2, <2>3, Zenon DEF Sweep
  <2>5. QED
    BY <2>1, <2>4, Zenon
<1>15. ASSUME UNCHANGED vars PROVE Flags'
  BY <1>15, <1>1, Zenon DEF vars
<1>16. QED
  BY <1>3, <1>4, <1>5, <1>6, <1>7, <1>8, <1>9, <1>10, <1>11, <1>12, <1>13, 
     <1>14, <1>15, Zenon DEF Next, LoopStep, LifeStep, Reclaim, SweepFails



LEMMA ShapeStep == ASSUME Shape, LoopOK, [Next]_vars PROVE Shape'
<1> USE StableAssumption DEF Shape, Terminal, rowVars, nodeVars, loopVars, sweepVars
<1>1. ASSUME NEW j \in Job, \/ Submit(j) \/ CancelCheck(j) \/ CancelWrite(j)
                            \/ GracePasses(j)
      PROVE  Shape'
  BY <1>1, Zenon DEF Submit, CancelCheck, CancelWrite, GracePasses
<1>2. ASSUME NEW n \in Node, \/ Poll(n) \/ ClaimNothing(n) \/ Execute(n)
                             \/ RecordLost(n) \/ Land(n)
      PROVE  Shape'
  BY <1>2 DEF Poll, ClaimNothing, Execute, RecordLost, Land, LoopOK
<1>3. ASSUME NEW n \in Node, NEW s \in {"completed", "failed"}, Record(n, s)
      PROVE  Shape'
  BY <1>3, Zenon DEF Record
<1>4. ASSUME NEW n \in Node, NEW j \in Job, Claim(n, j) \/ ClaimLost(n, j)
      PROVE  Shape'
  BY <1>4 DEF Claim, ClaimLost, TakeRow
<1>5. ASSUME NEW n \in Node, Stop(n) \/ GoOffline(n) \/ Start(n) \/ Register(n)
      PROVE  Shape'
  BY <1>5 DEF Stop, GoOffline, Start, Register
<1>6. ASSUME NEW n \in Node, ReleaseJob(n) PROVE Shape'
  BY <1>6, Zenon DEF ReleaseJob, Released
<1>7. ASSUME NEW n \in Node, Exit(n) \/ Crash(n) PROVE Shape'
  BY <1>7 DEF Exit, Crash, Die
<1>8. ASSUME NEW n \in Node, \/ Heartbeat(n) \/ HeartbeatExpires(n)
                             \/ HeartbeatLapses(n)
      PROVE  Shape'
  BY <1>8 DEF Heartbeat, HeartbeatExpires, HeartbeatLapses
<1>9. ASSUME ListActive PROVE Shape'
  BY <1>9, Zenon DEF ListActive
<1>10. ASSUME NEW J, Sweep(J) PROVE Shape'
  BY <1>10, Zenon DEF Sweep
<1>11. ASSUME UNCHANGED vars PROVE Shape'
  BY <1>11, Zenon DEF vars
<1>12. QED
  BY <1>1, <1>2, <1>3, <1>4, <1>5, <1>6, <1>7, <1>8, <1>9, <1>10, <1>11, Zenon
     DEF Next, LoopStep, LifeStep, Reclaim, SweepFails

LEMMA TypeStep == ASSUME TypeOK, LoopOK, [Next]_vars PROVE TypeOK'
  BY TypeSplits, FlagsStep, ShapeStep, Zenon DEF TypeOK, Flags, Shape

LEMMA InitInv == Init => Inv
<1> SUFFICES ASSUME Init PROVE Inv
  OBVIOUS
<1>1. Flags
  BY Zenon DEF Init, Flags
<1>2. Shape
  BY StableAssumption DEF Init, Shape, Terminal
<1>3. Unowned /\ LoopOK /\ BootOK /\ SweepOK
  BY Zenon DEF Init, Unowned, LoopOK, BootOK, SweepOK, Beating
<1>4. QED
  BY <1>1, <1>2, <1>3, TypeSplits DEF Inv

LEMMA RowStep == ASSUME Inv, [Next]_vars PROVE Unowned' /\ LoopOK' /\ BootOK'
<1> USE NodeAssumption DEF Inv, TypeOK, Terminal, Unowned, LoopOK, BootOK,
        rowVars, nodeVars, loopVars, sweepVars
<1> DEFINE Goal == Unowned' /\ LoopOK' /\ BootOK'
<1>1. ASSUME NEW j \in Job, \/ Submit(j) \/ CancelCheck(j) \/ CancelWrite(j)
                            \/ GracePasses(j)
      PROVE  Goal
  BY <1>1 DEF Submit, CancelCheck, CancelWrite, GracePasses
<1>2. ASSUME NEW n \in Node, \/ Poll(n) \/ ClaimNothing(n) \/ Execute(n)
                             \/ RecordLost(n) \/ Land(n)
      PROVE  Goal
  BY <1>2 DEF Poll, ClaimNothing, Execute, RecordLost, Land
<1>3. ASSUME NEW n \in Node, NEW s \in {"completed", "failed"}, Record(n, s)
      PROVE  Goal
  BY <1>3 DEF Record
<1>4. ASSUME NEW n \in Node, NEW j \in Job, Claim(n, j) \/ ClaimLost(n, j)
      PROVE  Goal
  BY <1>4 DEF Claim, ClaimLost, TakeRow
<1>5. ASSUME NEW n \in Node, Stop(n) \/ GoOffline(n) \/ Start(n) \/ Register(n)
      PROVE  Goal
  BY <1>5 DEF Stop, GoOffline, Start, Register, Active
<1>6. ASSUME NEW n \in Node, ReleaseJob(n) PROVE Goal
  <2>1. ASSUME NEW j \in Job, Released(j) PROVE Goal
    <3>1. \A m \in Node : valid'[m] <=> valid[m] /\ cur[m] # j
      BY <2>1, Zenon DEF Released
    <3>2. /\ status' = [status EXCEPT ![j] = "pending"]
          /\ owner' = [owner EXCEPT ![j] = None]
      BY <2>1, Zenon DEF Released
    <3>3. /\ life' = [life EXCEPT ![n] = "joining"] /\ life[n] = "releasing"
          /\ loop' = loop /\ cur' = cur
      BY <1>6, Zenon DEF ReleaseJob
    <3>4. Unowned' /\ BootOK'
      BY <3>2, <3>3
    <3>5. LoopOK'
      BY <3>1, <3>2, <3>3
    <3>6. QED
      BY <3>4, <3>5, Zenon
  <2>2. CASE UNCHANGED <<rowVars, valid>>
    BY <1>6, <2>2 DEF ReleaseJob
  <2>3. QED
    BY <1>6, <2>1, <2>2, Zenon DEF ReleaseJob
<1>7. ASSUME NEW n \in Node, Exit(n) \/ Crash(n) PROVE Goal
  BY <1>7 DEF Exit, Crash, Die
<1>8. ASSUME NEW n \in Node, \/ Heartbeat(n) \/ HeartbeatExpires(n)
                             \/ HeartbeatLapses(n)
      PROVE  Goal
  BY <1>8 DEF Heartbeat, HeartbeatExpires, HeartbeatLapses
<1>9. ASSUME ListActive PROVE Goal
  BY <1>9 DEF ListActive
<1>10. ASSUME NEW J, Sweep(J) PROVE Goal
  <2>1. \A n \in Node : valid'[n] <=> valid[n] /\ cur[n] \notin J
    BY <1>10, Zenon DEF Sweep
  <2>2. /\ status' = [j \in Job |-> IF j \in J THEN "pending" ELSE status[j]]
        /\ owner' = [j \in Job |-> IF j \in J THEN None ELSE owner[j]]
        /\ life' = life /\ loop' = loop /\ cur' = cur
    BY <1>10, Zenon DEF Sweep
  <2>3. Unowned' /\ BootOK'
    BY <2>2
  <2>4. LoopOK'
    BY <2>1, <2>2
  <2>5. QED
    BY <2>3, <2>4, Zenon
<1>11. ASSUME UNCHANGED vars PROVE Goal
  BY <1>11 DEF vars
<1> HIDE DEF Inv, TypeOK, Terminal, Unowned, LoopOK, BootOK, Goal
<1>12. Goal
  BY <1>1, <1>2, <1>3, <1>4, <1>5, <1>6, <1>7, <1>8, <1>9, <1>10, <1>11, Zenon
     DEF Next, LoopStep, LifeStep, Reclaim, SweepFails
<1>13. QED
  BY <1>12, Zenon DEF Goal

LEMMA SweepStep == ASSUME Inv, [Next]_vars PROVE SweepOK'
<1> USE NodeAssumption DEF Inv, TypeOK, SweepOK, Beating,
        rowVars, nodeVars, loopVars, sweepVars
<1>1. ASSUME NEW j \in Job, \/ Submit(j) \/ CancelCheck(j) \/ CancelWrite(j)
                            \/ GracePasses(j)
      PROVE  SweepOK'
  BY <1>1 DEF Submit, CancelCheck, CancelWrite, GracePasses
<1>2. ASSUME NEW n \in Node, \/ Poll(n) \/ ClaimNothing(n) \/ Execute(n)
                             \/ RecordLost(n) \/ Land(n)
      PROVE  SweepOK'
  BY <1>2 DEF Poll, ClaimNothing, Execute, RecordLost, Land
<1>3. ASSUME NEW n \in Node, NEW s \in {"completed", "failed"}, Record(n, s)
      PROVE  SweepOK'
  BY <1>3 DEF Record, LoopOK
<1>4. ASSUME NEW n \in Node, NEW j \in Job, Claim(n, j) \/ ClaimLost(n, j)
      PROVE  SweepOK'
  BY <1>4 DEF Claim, ClaimLost, TakeRow
<1>5. ASSUME NEW n \in Node, Stop(n) \/ GoOffline(n) \/ Start(n) \/ Register(n)
      PROVE  SweepOK'
  BY <1>5 DEF Stop, GoOffline, Start, Register, BootOK
<1>6. ASSUME NEW n \in Node, ReleaseJob(n) PROVE SweepOK'
  BY <1>6 DEF ReleaseJob, Released
<1>7. ASSUME NEW n \in Node, Exit(n) \/ Crash(n) PROVE SweepOK'
  BY <1>7 DEF Exit, Crash, Die
<1>8. ASSUME NEW n \in Node, \/ Heartbeat(n) \/ HeartbeatExpires(n)
                             \/ HeartbeatLapses(n)
      PROVE  SweepOK'
  BY <1>8 DEF Heartbeat, HeartbeatExpires, HeartbeatLapses
<1>9. ASSUME ListActive PROVE SweepOK'
  BY <1>9, Zenon DEF ListActive
<1>10. ASSUME NEW J, Sweep(J) PROVE SweepOK'
  BY <1>10, Zenon DEF Sweep
<1>11. ASSUME UNCHANGED vars PROVE SweepOK'
  BY <1>11, Zenon DEF vars
<1> HIDE DEF Inv, TypeOK, SweepOK, Beating
<1>12. QED
  BY <1>1, <1>2, <1>3, <1>4, <1>5, <1>6, <1>7, <1>8, <1>9, <1>10, <1>11, Zenon
     DEF Next, LoopStep, LifeStep, Reclaim, SweepFails

LEMMA Invariance == Spec => []Inv
<1>1. Inv /\ [Next]_vars => Inv'
  BY TypeStep, RowStep, SweepStep, Zenon DEF Inv
<1>2. QED
  BY InitInv, <1>1, PTL DEF Spec

----------------------------------------------------------------------------
\* Every column and flag keeps its type, for any number of nodes and jobs.
THEOREM TypeCorrect == Spec => []TypeOK
  BY Invariance, PTL DEF Inv

\* Submission, shutdown release and sweep all leave a pending row claimable.
THEOREM PendingRowsAreClaimable == Spec => []PendingIsClaimable
<1>1. Inv => PendingIsClaimable
  BY Zenon DEF Inv, Unowned, PendingIsClaimable
<1>2. QED
  BY Invariance, <1>1, PTL

\* A node that lost its job and finishes it all the same changes no row.
THEOREM LatestClaimDecides == Spec => OutcomeFromLatestClaim
<1> DEFINE Decides == \A n \in Node :
        loop[n] = "executing" /\ loop'[n] = "recorded" /\ status' # status
           => valid[n]
<1>1. Inv /\ [Next]_vars => Decides
  <2> SUFFICES ASSUME Inv, [Next]_vars, NEW n \in Node,
                      loop[n] = "executing", loop'[n] = "recorded",
                      status' # status
               PROVE  valid[n]
    OBVIOUS
  <2> USE NodeAssumption DEF Inv, TypeOK, rowVars, nodeVars, loopVars, sweepVars
  <2>1. ASSUME NEW m \in Node, NEW s \in {"completed", "failed"}, Record(m, s)
        PROVE  valid[n]
    BY <2>1 DEF Record, LoopOK
  <2>2. ASSUME NEW m \in Node, \/ Poll(m) \/ ClaimNothing(m) \/ Execute(m)
                               \/ RecordLost(m) \/ Land(m)
                               \/ (\E j \in Job : Claim(m, j) \/ ClaimLost(m, j))
        PROVE  FALSE
    BY <2>2 DEF Poll, ClaimNothing, Execute, RecordLost, Land, Claim,
           ClaimLost, TakeRow
  <2>3. ASSUME NEW m \in Node, LifeStep(m) PROVE FALSE
    BY <2>3, Zenon
       DEF LifeStep, Stop, ReleaseJob, GoOffline, Exit, Crash, Die, Start, Register,
           Heartbeat, HeartbeatExpires, HeartbeatLapses
  <2>4. ASSUME NEW j \in Job, \/ Submit(j) \/ CancelCheck(j) \/ CancelWrite(j)
                              \/ GracePasses(j)
        PROVE  FALSE
    BY <2>4, Zenon DEF Submit, CancelCheck, CancelWrite, GracePasses
  <2>5. ASSUME ListActive \/ Reclaim \/ SweepFails PROVE FALSE
    BY <2>5, Zenon DEF ListActive, Reclaim, SweepFails, Sweep
  <2>6. ASSUME UNCHANGED vars PROVE FALSE
    BY <2>6, Zenon DEF vars
  <2> HIDE DEF Inv, TypeOK
  <2>7. QED
    BY <2>1, <2>2, <2>3, <2>4, <2>5, <2>6, Zenon DEF Next, LoopStep
<1>2. QED
  BY Invariance, <1>1, PTL DEF Spec, OutcomeFromLatestClaim

\* No sweep takes a job from a node that kept its heartbeat, also when it
\* works from a list of active nodes older than the node's registration.
THEOREM LiveNodesKeepTheirJobs == Spec => LiveNodeKeepsItsJobs
<1> DEFINE Keeps == Reclaim => \A n \in Node :
        Beating(n) /\ ~lapsed[n] => valid'[n] = valid[n]
<1>1. Inv /\ [Next]_vars => Keeps
  <2> SUFFICES ASSUME Inv, Reclaim, NEW n \in Node, Beating(n), ~lapsed[n]
               PROVE  valid'[n] = valid[n]
    OBVIOUS
  <2>1. ASSUME valid[n] PROVE cur[n] \notin Reclaimable
    <3> SUFFICES ASSUME cur[n] \in Reclaimable PROVE FALSE
      OBVIOUS
    <3>1. cur[n] \in Job /\ owner[cur[n]] = n
      BY <2>1, Zenon DEF Inv, LoopOK
    <3>2. n \notin active /\ status[cur[n]] = "running" /\ aged[cur[n]]
      BY <3>1, Zenon DEF Reclaimable
    <3>3. sweep = "listed"
      BY Zenon DEF Reclaim, Sweep
    <3>4. cur[n] \in young
      BY <3>1, <3>2, <3>3, Zenon DEF Inv, SweepOK
    <3>5. QED
      BY <3>2, <3>4, Zenon DEF Inv, SweepOK
  <2>2. valid'[n] = (valid[n] /\ cur[n] \notin Reclaimable)
    BY Zenon DEF Reclaim, Sweep
  <2>3. valid[n] \in BOOLEAN
    BY Zenon DEF Inv, TypeOK
  <2>4. CASE valid[n] = TRUE
    BY <2>1, <2>2, <2>4, Zenon
  <2>5. CASE valid[n] = FALSE
    BY <2>2, <2>5, Zenon
  <2>6. QED
    BY <2>3, <2>4, <2>5, Zenon
<1>2. QED
  BY Invariance, <1>1, PTL DEF Spec, LiveNodeKeepsItsJobs

=============================================================================
