---------------------- MODULE SnapshotLifecycleProofs ----------------------
(***************************************************************************)
(* Proofs about SnapshotLifecycle.  For any number of jobs and queries:    *)
(* type correctness, and that a query which pinned an unscheduled snapshot *)
(* keeps it.  For a repository whose only job is its refresh: that the     *)
(* snapshot the alias serves is neither scheduled nor lost, and that a     *)
(* retention pass leaves at most the N newest and the rollback path.       *)
(***************************************************************************)
EXTENDS SnapshotLifecycle, FiniteSetTheorems, TLAPS

Readers(v) == {q \in Query : qpc[q] = "searching" /\ path[q] = v}

\* The tracker's count is the number of searches running on the path.
RefsExact == \A v \in Path : refs[v] = Cardinality(Readers(v))

\* The cleanup thread works on paths that are queued and below the breaker.
CleanerOK == /\ todo \subseteq queue
             /\ victim # NoPath => /\ victim \in queue
                                   /\ victim \notin todo
                                   /\ failures[victim] < MaxFailures

Inv == TypeOK /\ RefsExact /\ CleanerOK

\* Job j has named its snapshot and has not yet pointed the alias at it.
Unswapped(j) == jpc[j] \in {"copying", "created", "replacing"}

\* Names are given in increasing order.
Stamped == /\ target <= last
           /\ \A q \in Query : path[q] <= last
           /\ \A j \in Job : new[j] <= last

\* Nobody but its job knows a snapshot before the swap.
Private == \A j \in Job : Unswapped(j) =>
              /\ new[j] # Base
              /\ new[j] # target
              /\ \A q \in Query : path[q] # new[j]
              /\ \A i \in Job : Unswapped(i) /\ i # j => new[i] # new[j]

PinInv == Stamped /\ Private /\ PinnedStays

----------------------------------------------------------------------------
LEMMA Constants == /\ Base \in Path /\ Base \notin Version
                   /\ NoPath \notin Path /\ NoPath \notin Version
                   /\ Version \subseteq Path
                   /\ Path = 0..MaxVersion
                   /\ NoPath \notin Job
BY NumbersAssumption, JobsAssumption DEF Base, NoPath, Version, Path

\* The tracker and the cleanup thread do not notice a step that leaves their
\* state alone and removes nothing from the queue.
LEMMA OthersUndisturbed ==
    ASSUME Inv, TypeOK', UNCHANGED <<queryVars, cleanerVars>>,
           queue \subseteq queue'
    PROVE  Inv'
<1>1. RefsExact'
  BY Zenon DEF Inv, RefsExact, Readers, queryVars
<1>2. CleanerOK'
  BY Zenon DEF Inv, CleanerOK, cleanerVars
<1>3. QED
  BY <1>1, <1>2, Zenon DEF Inv

\* What every step of a job does to the tracker, the cleaner and the queue.
LEMMA JobFrame ==
    ASSUME NEW j \in Job, JobStep(j)
    PROVE  /\ UNCHANGED <<queryVars, cleanerVars>>
           /\ queue \subseteq queue'
BY Zenon
   DEF JobStep, StartRefresh, CheckWriteLock, StartLocked, StartProvider,
       IndexFails, StartCopy, FinishCopy, CopyFails, CompareTarget, SwapRejected,
       ReadTarget, Replace, ReplaceFails, ScheduleOld, ListSnapshots,
       EnforceRetention, RetentionFails

\* Ending a job keeps the job variables well typed.
LEMMA FinishTyped ==
    ASSUME TypeOK, NEW j \in Job, Finish(j)
    PROVE  /\ writer' \in Job \cup {NoPath}
           /\ jpc' \in [Job -> JobPlace]
           /\ old' \in [Job -> Path] /\ new' \in [Job -> Path]
           /\ listed' \in [Job -> SUBSET Version]
BY Constants, Zenon DEF TypeOK, Finish, JobPlace

LEMMA JobTyped ==
    ASSUME TypeOK, NEW j \in Job, JobStep(j)
    PROVE  TypeOK'
<1> USE Constants DEF aliasVars, jobVars, queryVars, cleanerVars, Goto
<1>1. CASE StartRefresh(j)
  BY <1>1, Zenon DEF TypeOK, StartRefresh, JobPlace
<1>2. CASE CheckWriteLock(j)
  <2>1. CASE Finish(j)
    BY <1>2, <2>1, FinishTyped, Zenon DEF TypeOK, CheckWriteLock
  <2>2. CASE Goto(j, "indexing") /\ UNCHANGED <<writer, old, new, listed>>
    BY <1>2, <2>2, Zenon DEF TypeOK, CheckWriteLock, JobPlace
  <2>3. QED
    BY <1>2, <2>1, <2>2, Zenon DEF CheckWriteLock
<1>3. CASE StartLocked(j)
  BY <1>3, Zenon DEF TypeOK, StartLocked, JobPlace
<1>4. CASE StartProvider(j)
  BY <1>4, Zenon DEF TypeOK, StartProvider, JobPlace
<1>5. CASE IndexFails(j)
  BY <1>5, FinishTyped, Zenon DEF TypeOK, IndexFails
<1>6. CASE StartCopy(j)
  <2>1. PICK v \in Stamps \cap Version :
              /\ new' = [new EXCEPT ![j] = v]
              /\ disk' = disk \cup {v}
              /\ last' = v
    BY <1>6, Zenon DEF StartCopy
  <2>2. old' \in [Job -> Path]
    BY <1>6, Zenon DEF TypeOK, StartCopy
  <2>3. QED
    BY <1>6, <2>1, <2>2, Zenon DEF TypeOK, StartCopy, JobPlace
<1>7. CASE FinishCopy(j)
  BY <1>7, Zenon DEF TypeOK, FinishCopy, JobPlace
<1>8. CASE CopyFails(j)
  BY <1>8, FinishTyped, Zenon DEF TypeOK, CopyFails
<1>9. CASE CompareTarget(j)
  BY <1>9, Zenon DEF TypeOK, CompareTarget, JobPlace
<1>10. CASE SwapRejected(j)
  BY <1>10, FinishTyped, Zenon DEF TypeOK, SwapRejected
<1>11. CASE ReadTarget(j)
  BY <1>11, Zenon DEF TypeOK, ReadTarget, JobPlace
<1>12. CASE Replace(j)
  BY <1>12, Zenon DEF TypeOK, Replace, JobPlace
<1>13. CASE ReplaceFails(j)
  BY <1>13, FinishTyped, Zenon DEF TypeOK, ReplaceFails
<1>14. CASE ScheduleOld(j)
  <2>1. queue' \subseteq Version
    BY <1>14 DEF TypeOK, ScheduleOld, Path
  <2>2. CASE Finish(j)
    BY <1>14, <2>1, <2>2, FinishTyped, Zenon DEF TypeOK, ScheduleOld
  <2>3. CASE Goto(j, "listing") /\ UNCHANGED <<writer, old, new, listed>>
    BY <1>14, <2>1, <2>3, Zenon DEF TypeOK, ScheduleOld, JobPlace
  <2>4. QED
    BY <1>14, <2>2, <2>3, Zenon DEF ScheduleOld
<1>15. CASE ListSnapshots(j)
  BY <1>15, Zenon DEF TypeOK, ListSnapshots, JobPlace
<1>16. CASE EnforceRetention(j)
  <2>1. Superseded(j) \subseteq Version
    BY Zenon DEF TypeOK, Superseded
  <2>2. QED
    BY <1>16, <2>1, FinishTyped, Zenon DEF TypeOK, EnforceRetention
<1>17. CASE RetentionFails(j)
  BY <1>17, FinishTyped, Zenon DEF TypeOK, RetentionFails
<1>18. QED
  BY <1>1, <1>2, <1>3, <1>4, <1>5, <1>6, <1>7, <1>8, <1>9, <1>10, <1>11,
     <1>12, <1>13, <1>14, <1>15, <1>16, <1>17 DEF JobStep

\* The readers of a path are finitely many, now and in the next state.
LEMMA ReadersFinite ==
    \A v : /\ IsFiniteSet(Readers(v)) /\ Cardinality(Readers(v)) \in Nat
           /\ IsFiniteSet(Readers(v)') /\ Cardinality(Readers(v)') \in Nat
<1>1. \A v : Readers(v) \subseteq Query /\ Readers(v)' \subseteq Query
  BY Zenon DEF Readers
<1>2. QED
  BY <1>1, FS_Subset, FS_CardinalityType, QueryAssumption, Zenon

\* increment_ref adds one reader to one path.
LEMMA IncrementCounts ==
    ASSUME Inv, NEW q \in Query, IncrementRef(q)
    PROVE  RefsExact'
<1> SUFFICES ASSUME NEW v \in Path
             PROVE  refs'[v] = Cardinality(Readers(v)')
  BY Zenon DEF RefsExact
<1>1. refs[v] = Cardinality(Readers(v)) /\ refs[v] \in Nat
  BY Zenon DEF Inv, TypeOK, RefsExact
<1>2. CASE v = path[q]
  <2>1. Readers(v)' = Readers(v) \cup {q} /\ q \notin Readers(v)
    BY <1>2, Zenon DEF Inv, TypeOK, IncrementRef, Readers
  <2>2. Cardinality(Readers(v)') = Cardinality(Readers(v)) + 1
    BY <2>1, ReadersFinite, FS_AddElement, Zenon
  <2>3. refs'[v] = refs[v] + 1
    BY <1>2, Zenon DEF Inv, TypeOK, IncrementRef
  <2>4. QED
    BY <1>1, <2>2, <2>3, Zenon
<1>3. CASE v # path[q]
  <2>1. Readers(v)' = Readers(v)
    BY <1>3, Zenon DEF Inv, TypeOK, IncrementRef, Readers
  <2>2. refs'[v] = refs[v]
    BY <1>3, Zenon DEF Inv, TypeOK, IncrementRef
  <2>3. QED
    BY <1>1, <2>1, <2>2, Zenon
<1>4. QED
  BY <1>2, <1>3, Zenon

\* decrement_ref removes the one reader that ends.
LEMMA DecrementCounts ==
    ASSUME Inv, NEW q \in Query, DecrementRef(q)
    PROVE  RefsExact'
<1> SUFFICES ASSUME NEW v \in Path
             PROVE  refs'[v] = Cardinality(Readers(v)')
  BY DEF RefsExact
<1>1. refs[v] = Cardinality(Readers(v)) /\ refs[v] \in Nat
  BY Zenon DEF Inv, TypeOK, RefsExact
<1>2. CASE v = path[q]
  <2>1. Readers(v)' = Readers(v) \ {q} /\ q \in Readers(v)
    BY <1>2, Zenon DEF Inv, TypeOK, DecrementRef, QueryEnds, Readers
  <2>2. Cardinality(Readers(v)') = Cardinality(Readers(v)) - 1
    BY <2>1, ReadersFinite, FS_RemoveElement, Zenon
  <2>3. refs'[v] = refs[v] - 1
    BY <1>2, Zenon DEF Inv, TypeOK, DecrementRef
  <2>4. QED
    BY <1>1, <2>2, <2>3, Zenon
<1>3. CASE v # path[q]
  <2>1. Readers(v)' = Readers(v)
    BY <1>3, Zenon DEF Inv, TypeOK, DecrementRef, QueryEnds, Readers
  <2>2. refs'[v] = refs[v]
    BY <1>3, Zenon DEF Inv, TypeOK, DecrementRef
  <2>3. QED
    BY <1>1, <2>1, <2>2, Zenon
<1>4. QED
  BY <1>2, <1>3, Zenon

LEMMA BooleanUpdate ==
    ASSUME NEW S, NEW f \in [S -> BOOLEAN], NEW x \in S, NEW b \in BOOLEAN
    PROVE  [f EXCEPT ![x] = b] \in [S -> BOOLEAN]
BY Zenon

LEMMA QueryInv ==
    ASSUME Inv, NEW q \in Query, QueryStep(q)
    PROVE  Inv'
<1> USE Constants DEF aliasVars, jobVars, queryVars, cleanerVars
<1>1. CleanerOK'
  BY Zenon
     DEF Inv, CleanerOK, QueryStep, ResolveAlias, CheckExists, IncrementRef,
         DecrementRef
<1>2. RefsExact'
  <2>1. CASE ResolveAlias(q)
    <3>1. \A v \in Path : Readers(v)' = Readers(v)
      BY <2>1, Zenon DEF Inv, TypeOK, Readers, ResolveAlias
    <3>2. QED
      BY <2>1, <3>1, Zenon DEF Inv, RefsExact, ResolveAlias
  <2>2. CASE CheckExists(q)
    <3>1. \A v \in Path : Readers(v)' = Readers(v)
      BY <2>2, Zenon DEF Inv, TypeOK, Readers, CheckExists, QueryEnds
    <3>2. QED
      BY <2>2, <3>1, Zenon DEF Inv, RefsExact, CheckExists
  <2>3. QED
    BY <2>1, <2>2, IncrementCounts, DecrementCounts, Zenon DEF QueryStep
<1>3. qpc' \in [Query -> QueryPlace] /\ path' \in [Query -> Path]
  <2>1. CASE ResolveAlias(q)
    BY <2>1, Zenon DEF Inv, TypeOK, ResolveAlias, QueryPlace
  <2>2. CASE CheckExists(q)
    <3>1. /\ \/ qpc' = [qpc EXCEPT ![q] = "checked"]
             \/ qpc' = [qpc EXCEPT ![q] = "idle"]
          /\ \/ path' = path
             \/ path' = [path EXCEPT ![q] = Base]
      BY <2>2, Zenon DEF CheckExists, QueryEnds
    <3>2. qpc' \in [Query -> QueryPlace]
      BY <3>1, Zenon DEF Inv, TypeOK, QueryPlace
    <3>3. path' \in [Query -> Path]
      BY <3>1, Zenon DEF Inv, TypeOK
    <3>4. QED
      BY <3>2, <3>3, Zenon
  <2>3. CASE IncrementRef(q)
    BY <2>3, Zenon DEF Inv, TypeOK, IncrementRef, QueryPlace
  <2>4. CASE DecrementRef(q)
    BY <2>4, Zenon DEF Inv, TypeOK, DecrementRef, QueryEnds, QueryPlace
  <2>5. QED
    BY <2>1, <2>2, <2>3, <2>4, Zenon DEF QueryStep
<1>4. pinned' \in [Query -> BOOLEAN]
  <2> DEFINE unscheduled == path[q] \in (disk \ queue) \cup {Base}
  <2>1. \/ pinned' = pinned
        \/ pinned' = [pinned EXCEPT ![q] = FALSE]
        \/ pinned' = [pinned EXCEPT ![q] = unscheduled]
    BY Zenon
       DEF QueryStep, ResolveAlias, CheckExists, IncrementRef, DecrementRef,
           QueryEnds
  <2>2. pinned \in [Query -> BOOLEAN]
    BY Zenon DEF Inv, TypeOK
  <2>3. unscheduled \in BOOLEAN
    OBVIOUS
  <2> HIDE DEF unscheduled
  <2>4. \A b \in BOOLEAN : [pinned EXCEPT ![q] = b] \in [Query -> BOOLEAN]
    BY <2>2, BooleanUpdate, Zenon
  <2>5. CASE pinned' = pinned
    BY <2>2, <2>5, Zenon
  <2>6. CASE pinned' = [pinned EXCEPT ![q] = FALSE]
    <3>1. FALSE \in BOOLEAN
      OBVIOUS
    <3>2. QED
      BY <2>4, <2>6, <3>1, Zenon
  <2>7. CASE pinned' = [pinned EXCEPT ![q] = unscheduled]
    BY <2>3, <2>4, <2>7, Zenon
  <2>8. QED
    BY <2>1, <2>5, <2>6, <2>7, Zenon
<1>5. refs' \in [Path -> Nat]
  <2>1. \A v \in Path : refs'[v] \in Nat
    BY <1>2, ReadersFinite, Zenon DEF RefsExact
  <2>2. refs' = [v \in Path |-> refs'[v]]
    BY Zenon
       DEF Inv, TypeOK, QueryStep, ResolveAlias, CheckExists, IncrementRef,
           DecrementRef
  <2>3. QED
    BY <2>1, <2>2, Zenon
<1>6. TypeOK'
  BY <1>3, <1>4, <1>5, Zenon
     DEF Inv, TypeOK, QueryStep, ResolveAlias, CheckExists, IncrementRef,
         DecrementRef
<1>7. QED
  BY <1>1, <1>2, <1>6, Zenon DEF Inv

LEMMA CleanerInv ==
    ASSUME Inv, CleanerStep \/ \E v \in Version : BackoffElapses(v)
    PROVE  Inv'
<1> USE Constants, NumbersAssumption
    DEF aliasVars, jobVars, queryVars, cleanerVars
<1>1. UNCHANGED <<target, previous, last, writer, jobVars, queryVars>>
  BY Zenon
     DEF CleanerStep, StartSweep, BreakCircuit, SkipPath, ChooseVictim, DeleteIndex,
         DeleteFails, BackoffElapses
<1>2. RefsExact'
  BY <1>1, Zenon DEF Inv, RefsExact, Readers
<1>3. /\ disk' \subseteq Version /\ queue' \subseteq Version
      /\ failures' \in [Version -> 0..MaxFailures]
      /\ backoff' \subseteq Version /\ todo' \subseteq Version
      /\ victim' \in Version \cup {NoPath}
  <2>1. CASE DeleteFails
    <3>1. failures[victim] + 1 \in 0..MaxFailures /\ victim \in Version
      BY <2>1 DEF Inv, TypeOK, CleanerOK, DeleteFails
    <3>2. failures' \in [Version -> 0..MaxFailures]
      BY <2>1, <3>1, Zenon DEF Inv, TypeOK, DeleteFails
    <3>3. QED
      BY <2>1, <3>1, <3>2, Zenon DEF Inv, TypeOK, DeleteFails
  <2>2. CASE DeleteIndex
    <3>1. failures' \in [Version -> 0..MaxFailures]
      BY <2>2 DEF Inv, TypeOK, DeleteIndex
    <3>2. QED
      BY <2>2, <3>1, Zenon DEF Inv, TypeOK, DeleteIndex
  <2>3. CASE StartSweep
    BY <2>3, Zenon DEF Inv, TypeOK, StartSweep
  <2>4. ASSUME NEW v \in Version,
               BreakCircuit(v) \/ SkipPath(v) \/ ChooseVictim(v)
                 \/ BackoffElapses(v)
        PROVE  /\ disk' = disk /\ failures' = failures
               /\ queue' \subseteq queue /\ backoff' \subseteq backoff
               /\ todo' \subseteq todo /\ victim' \in {victim, v}
    BY <2>4, Zenon DEF BreakCircuit, SkipPath, ChooseVictim, BackoffElapses
  <2>5. QED
    BY <2>1, <2>2, <2>3, <2>4, Zenon DEF Inv, TypeOK, CleanerStep
<1>4. TypeOK'
  BY <1>1, <1>3, Zenon DEF Inv, TypeOK
<1>5. CleanerOK'
  BY Zenon
     DEF Inv, CleanerOK, CleanerStep, StartSweep, BreakCircuit, SkipPath,
         ChooseVictim, DeleteIndex, DeleteFails, BackoffElapses
<1>6. QED
  BY <1>2, <1>4, <1>5, Zenon DEF Inv

LEMMA InitInv == Init => Inv
<1> SUFFICES ASSUME Init PROVE Inv
  OBVIOUS
<1> USE Constants, NumbersAssumption
<1>1. TypeOK
  <2>1. pinned \in [Query -> BOOLEAN]
    BY Zenon DEF Init
  <2>2. QED
    BY <2>1 DEF Init, TypeOK, JobPlace, QueryPlace
<1>2. \A v \in Path : Readers(v) = {}
  BY Zenon DEF Init, Readers
<1>3. RefsExact
  BY <1>2, FS_EmptySet, Zenon DEF Init, RefsExact
<1>4. CleanerOK
  BY Zenon DEF Init, CleanerOK
<1>5. QED
  BY <1>1, <1>3, <1>4, Zenon DEF Inv

LEMMA RestartInv == Inv /\ Restart => Inv'
<1> SUFFICES ASSUME Inv, Restart PROVE Inv'
  OBVIOUS
<1> USE Constants, NumbersAssumption DEF aliasVars
<1>1. TypeOK'
  <2>1. pinned' \in [Query -> BOOLEAN]
    BY Zenon DEF Restart
  <2>2. QED
    BY DEF Inv, Restart, TypeOK, JobPlace, QueryPlace
<1>2. \A v \in Path : Readers(v)' = {}
  BY Zenon DEF Restart, Readers
<1>3. RefsExact'
  BY <1>2, FS_EmptySet, Zenon DEF Restart, RefsExact
<1>4. CleanerOK'
  BY Zenon DEF Restart, CleanerOK
<1>5. QED
  BY <1>1, <1>3, <1>4, Zenon DEF Inv

LEMMA NextInv == Inv /\ [Next]_vars => Inv'
<1> SUFFICES ASSUME Inv, [Next]_vars PROVE Inv'
  OBVIOUS
<1>1. ASSUME NEW j \in Job, JobStep(j) PROVE Inv'
  BY <1>1, JobTyped, JobFrame, OthersUndisturbed, Zenon DEF Inv
<1>2. CASE UNCHANGED vars
  <2>1. TypeOK'
    BY <1>2, Zenon DEF Inv, TypeOK, vars, aliasVars, jobVars, queryVars, cleanerVars
  <2>2. QED
    BY <1>2, <2>1, OthersUndisturbed, Zenon DEF vars
<1>3. QED
  BY <1>1, <1>2, QueryInv, CleanerInv, RestartInv, Zenon DEF Next

\* Type correctness for every number of jobs, queries and snapshots: nothing
\* but a snapshot directory is ever queued, chosen or deleted, and the tracker
\* and the breaker keep their counts in range.
THEOREM TypeCorrect == Spec => []TypeOK
<1>1. Inv => TypeOK
  BY Zenon DEF Inv
<1>2. QED
  BY <1>1, InitInv, NextInv, PTL DEF Spec

----------------------------------------------------------------------------
(* Pinned queries keep their snapshot when no two snapshots share a second. *)

\* Every job step but StartCopy and Replace reveals no name and makes none,
\* and removes at most a snapshot nobody else knows.
LEMMA QuietJobStep ==
    ASSUME TypeOK, NEW j \in Job, JobStep(j), ~StartCopy(j), ~Replace(j)
    PROVE  /\ target' = target /\ last' = last
           /\ \A i \in Job : new'[i] \in {new[i], Base}
           /\ \A i \in Job : Unswapped(i)' => Unswapped(i) /\ new'[i] = new[i]
           /\ \/ disk' = disk
              \/ Unswapped(j) /\ disk' = disk \ {new[j]}
<1> USE DEF aliasVars, jobVars, Goto, TypeOK, Unswapped
<1>1. CASE StartRefresh(j) \/ StartLocked(j) \/ StartProvider(j)
  BY <1>1, Zenon DEF StartRefresh, StartLocked, StartProvider
<1>2. CASE CheckWriteLock(j)
  BY <1>2 DEF CheckWriteLock, Finish
<1>3. CASE \/ IndexFails(j) \/ ReplaceFails(j)
            \/ EnforceRetention(j) \/ RetentionFails(j)
  BY <1>3, Zenon
     DEF IndexFails, ReplaceFails, EnforceRetention, RetentionFails, Finish
<1>4. CASE FinishCopy(j) \/ CompareTarget(j) \/ ReadTarget(j)
  BY <1>4, Zenon DEF FinishCopy, CompareTarget, ReadTarget
<1>5. CASE CopyFails(j)
  BY <1>5, Zenon DEF CopyFails, Finish
<1>6. CASE SwapRejected(j)
  BY <1>6, Zenon DEF SwapRejected, Finish
<1>7. CASE ScheduleOld(j)
  BY <1>7 DEF ScheduleOld, Finish
<1>8. CASE ListSnapshots(j)
  BY <1>8, Zenon DEF ListSnapshots
<1>9. QED
  BY <1>1, <1>2, <1>3, <1>4, <1>5, <1>6, <1>7, <1>8, Zenon DEF JobStep

LEMMA QuietJobPins ==
    ASSUME Inv, PinInv, NEW j \in Job, JobStep(j), ~StartCopy(j), ~Replace(j)
    PROVE  PinInv'
<1>1. /\ target' = target /\ last' = last
      /\ \A i \in Job : new'[i] \in {new[i], Base}
      /\ \A i \in Job : Unswapped(i)' => Unswapped(i) /\ new'[i] = new[i]
      /\ \/ disk' = disk
         \/ Unswapped(j) /\ disk' = disk \ {new[j]}
  BY QuietJobStep, Zenon DEF Inv
<1>2. qpc' = qpc /\ path' = path /\ pinned' = pinned /\ victim' = victim
  BY JobFrame, Zenon DEF queryVars, cleanerVars
<1>3. Stamped'
  <2>1. last >= 0
    BY Constants, NumbersAssumption DEF Inv, TypeOK
  <2>2. QED
    BY <1>1, <1>2, <2>1, Zenon DEF PinInv, Stamped, Base
<1>4. Private'
  BY <1>1, <1>2, Zenon DEF PinInv, Private
<1>5. PinnedStays'
  BY <1>1, <1>2, Zenon DEF PinInv, Private, PinnedStays
<1>6. QED
  BY <1>3, <1>4, <1>5, Zenon DEF PinInv

\* A new snapshot gets a name no alias, query or job has seen.
LEMMA StartCopyPins ==
    ASSUME ~SameSecond, Inv, PinInv, NEW j \in Job, StartCopy(j)
    PROVE  PinInv'
<1>1. /\ new' = [new EXCEPT ![j] = last + 1]
      /\ disk' = disk \cup {last + 1}
      /\ last' = last + 1
  BY Zenon DEF StartCopy, Stamps
<1>2. /\ qpc' = qpc /\ path' = path /\ pinned' = pinned /\ victim' = victim
      /\ target' = target /\ jpc' = [jpc EXCEPT ![j] = "copying"]
  BY Zenon DEF StartCopy, Goto, aliasVars, queryVars, cleanerVars
<1>3. /\ last \in Nat /\ target \in Nat
      /\ \A q \in Query : path[q] \in Nat
      /\ \A i \in Job : new[i] \in Nat
  BY Constants DEF Inv, TypeOK
<1>4. /\ new'[j] = last + 1
      /\ \A i \in Job \ {j} : new'[i] = new[i] /\ (Unswapped(i)' <=> Unswapped(i))
  BY <1>1, <1>2, Zenon DEF Inv, TypeOK, Unswapped
<1>5. Stamped'
  BY <1>1, <1>2, <1>3, <1>4 DEF PinInv, Stamped
<1>6. Private'
  BY <1>2, <1>3, <1>4 DEF PinInv, Stamped, Private, Base
<1>7. PinnedStays'
  BY <1>1, <1>2, Zenon DEF PinInv, PinnedStays
<1>8. QED
  BY <1>5, <1>6, <1>7 DEF PinInv

\* The swap publishes one name; the names of the other jobs differ from it.
LEMMA ReplacePins ==
    ASSUME Inv, PinInv, NEW j \in Job, Replace(j)
    PROVE  PinInv'
<1>1. /\ qpc' = qpc /\ path' = path /\ pinned' = pinned /\ victim' = victim
      /\ target' = new[j] /\ jpc' = [jpc EXCEPT ![j] = "swapped"]
      /\ new' = new /\ last' = last /\ disk' = disk
  BY Zenon DEF Replace, Goto, queryVars, cleanerVars
<1>2. Unswapped(j)
  BY Zenon DEF Replace, Unswapped
<1>3. /\ ~Unswapped(j)'
      /\ \A i \in Job \ {j} : Unswapped(i)' <=> Unswapped(i)
  BY <1>1, Zenon DEF Inv, TypeOK, Unswapped
<1>4. Stamped'
  BY <1>1, Zenon DEF PinInv, Stamped
<1>5. Private'
  BY <1>1, <1>2, <1>3, Zenon DEF PinInv, Private
<1>6. PinnedStays'
  BY <1>1, Zenon DEF PinInv, PinnedStays
<1>7. QED
  BY <1>4, <1>5, <1>6, Zenon DEF PinInv

LEMMA QueryPins ==
    ASSUME Inv, PinInv, NEW q \in Query, QueryStep(q)
    PROVE  PinInv'
<1>1. /\ target' = target /\ last' = last /\ disk' = disk /\ queue' = queue
      /\ jpc' = jpc /\ new' = new /\ victim' = victim
  BY Zenon
     DEF QueryStep, ResolveAlias, CheckExists, IncrementRef, DecrementRef,
         aliasVars, jobVars, cleanerVars
<1>2. \A r \in Query : path'[r] \in {path[r], target, Base}
  BY Zenon
     DEF Inv, TypeOK, QueryStep, ResolveAlias, CheckExists, IncrementRef,
         DecrementRef, QueryEnds
<1>3. Stamped'
  <2>1. last >= 0
    BY Constants, NumbersAssumption DEF Inv, TypeOK
  <2>2. QED
    BY <1>1, <1>2, <2>1, Zenon DEF PinInv, Stamped, Base
<1>4. Private'
  BY <1>1, <1>2, Zenon DEF PinInv, Private, Unswapped
<1>5. ASSUME NEW r \in Query, qpc'[r] = "searching", pinned'[r]
      PROVE  path'[r] \in disk \cup {Base} /\ path'[r] # victim
  <2>1. CASE IncrementRef(q) /\ r = q
    <3>1. path'[q] = path[q] /\ path[q] \in (disk \ queue) \cup {Base}
      BY <1>5, <2>1, Zenon DEF IncrementRef, Inv, TypeOK
    <3>2. victim \in queue \cup {NoPath}
      BY Zenon DEF Inv, CleanerOK
    <3>3. Base \notin queue /\ NoPath \notin Path /\ path[q] \in Path
      BY Constants, Zenon DEF Inv, TypeOK
    <3>4. QED
      BY <2>1, <3>1, <3>2, <3>3, Zenon
  <2>2. CASE ~(IncrementRef(q) /\ r = q)
    <3>1. qpc[r] = "searching" /\ path'[r] = path[r]
      BY <1>5, <2>2, Zenon
         DEF Inv, TypeOK, QueryStep, ResolveAlias, CheckExists, IncrementRef,
             DecrementRef, QueryEnds
    <3>2. pinned[r]
      <4>1. r # q \/ pinned' = pinned
        BY <1>5, <2>2, Zenon
           DEF Inv, TypeOK, QueryStep, ResolveAlias, CheckExists, DecrementRef,
               QueryEnds
      <4>2. pinned' = pinned \/ \E b : pinned' = [pinned EXCEPT ![q] = b]
        BY Zenon
           DEF QueryStep, ResolveAlias, CheckExists, IncrementRef, DecrementRef,
               QueryEnds
      <4>3. pinned \in [Query -> BOOLEAN]
        BY Zenon DEF Inv, TypeOK
      <4>4. QED
        BY <1>5, <4>1, <4>2, <4>3, Zenon
    <3>3. QED
      BY <3>1, <3>2, Zenon DEF PinInv, PinnedStays
  <2>3. QED
    BY <2>1, <2>2, Zenon
<1>6. PinnedStays'
  BY <1>1, <1>5, Zenon DEF PinnedStays
<1>7. QED
  BY <1>3, <1>4, <1>6 DEF PinInv

\* The victim has no reader, so no pinned one; nothing else is deleted.
LEMMA CleanerPins ==
    ASSUME Inv, PinInv, CleanerStep \/ \E v \in Version : BackoffElapses(v)
    PROVE  PinInv'
<1> USE DEF aliasVars, jobVars, queryVars
<1>1. UNCHANGED <<target, last, jpc, new, qpc, path, pinned>>
  BY Zenon
     DEF CleanerStep, StartSweep, BreakCircuit, SkipPath, ChooseVictim, DeleteIndex,
         DeleteFails, BackoffElapses
<1>2. Stamped' /\ Private'
  BY <1>1, Zenon DEF PinInv, Stamped, Private, Unswapped
<1>3. PinnedStays'
  <2> SUFFICES ASSUME NEW q \in Query, qpc[q] = "searching", pinned[q]
               PROVE  path[q] \in disk' \cup {Base} /\ path[q] # victim'
    BY <1>1, Zenon DEF PinnedStays
  <2>1. path[q] \in disk \cup {Base} /\ path[q] # victim /\ path[q] \in Path
    BY Zenon DEF Inv, TypeOK, PinInv, PinnedStays
  <2>2. CASE \E v \in Version : ChooseVictim(v)
    <3>1. PICK v \in Version : ChooseVictim(v)
      BY <2>2, Zenon
    <3>2. Cardinality(Readers(v)) = 0
      BY <3>1, Constants, Zenon DEF ChooseVictim, Inv, RefsExact
    <3>3. Readers(v) = {}
      BY <3>2, ReadersFinite, FS_EmptySet, Zenon
    <3>4. path[q] # v
      BY <3>3, Zenon DEF Readers
    <3>5. QED
      BY <2>1, <3>1, <3>4, Zenon DEF ChooseVictim
  <2>3. CASE ~\E v \in Version : ChooseVictim(v)
    BY <2>1, <2>3, Constants, Zenon
       DEF CleanerStep, StartSweep, BreakCircuit, SkipPath, DeleteIndex,
           DeleteFails, BackoffElapses
  <2>4. QED
    BY <2>2, <2>3, Zenon
<1>4. QED
  BY <1>2, <1>3 DEF PinInv

\* After a restart there is no query and no unswapped snapshot to speak of.
LEMMA RestartPins == Inv /\ PinInv /\ Restart => PinInv'
<1> SUFFICES ASSUME Inv, PinInv, Restart PROVE PinInv'
  OBVIOUS
<1>1. Stamped'
  BY Constants DEF Restart, aliasVars, Inv, TypeOK, PinInv, Stamped, Base
<1>2. Private'
  BY Zenon DEF Restart, Private, Unswapped
<1>3. PinnedStays'
  BY Zenon DEF Restart, PinnedStays
<1>4. QED
  BY <1>1, <1>2, <1>3 DEF PinInv

\* When no two snapshots are created in the same second, a search that took
\* its reference on an unscheduled snapshot reads it to the end: with any
\* number of refresh, branch, add-index and provider jobs, failing at any step
\* and racing on the alias file, and with any number of other searches.
THEOREM PinnedQueriesKeepTheirSnapshot ==
    ASSUME ~SameSecond
    PROVE  Spec => []PinnedStays
<1>1. Init => PinInv
  BY NumbersAssumption
     DEF Init, PinInv, Stamped, Private, PinnedStays, Unswapped, Base
<1>2. Inv /\ PinInv /\ [Next]_vars => PinInv'
  <2> SUFFICES ASSUME Inv, PinInv, [Next]_vars PROVE PinInv'
    OBVIOUS
  <2>1. ASSUME NEW j \in Job, JobStep(j) PROVE PinInv'
    BY <2>1, QuietJobPins, StartCopyPins, ReplacePins, Zenon
  <2>2. CASE UNCHANGED vars
    BY <2>2, Zenon
       DEF vars, aliasVars, jobVars, queryVars, cleanerVars, PinInv, Stamped,
           Private, PinnedStays, Unswapped
  <2>3. QED
    BY <2>1, <2>2, QueryPins, CleanerPins, RestartPins, Zenon DEF Next
<1>3. PinInv => PinnedStays
  BY DEF PinInv
<1>4. QED
  BY <1>1, <1>2, <1>3, InitInv, NextInv, PTL DEF Spec

----------------------------------------------------------------------------
(* A refresh job alone.  With a branch change beside it neither property     *)
(* below holds: each may schedule what the other has just swapped in.        *)

Sole == ~SameSecond /\ Job = Refresh /\ \A i, j \in Job : i = j

\* Until its swap the refresh knows the alias's target, and has a snapshot that
\* nobody has scheduled; after it the alias names that snapshot, the newest.
SoleOK(j) ==
    /\ old[j] <= last
    /\ \A v \in listed[j] : v <= last
    /\ jpc[j] \in {"resolved", "indexing"} \/ Unswapped(j) => old[j] = target
    /\ Unswapped(j) => /\ new[j] = last /\ last \in disk /\ last \notin queue
                       /\ last # target
    /\ jpc[j] \in {"swapped", "listing", "retaining"} =>
         new[j] = last /\ last = target /\ old[j] # target
    /\ jpc[j] = "retaining" => disk \subseteq listed[j]

TargetInv == /\ \A v \in disk \cup queue \cup {target} : v <= last
             /\ TargetStays
             /\ \A j \in Job : SoleOK(j)

\* A finished job knows nothing.
LEMMA FinishSole ==
    ASSUME Inv, NEW j \in Job, Finish(j), last' = last
    PROVE  SoleOK(j)'
<1>1. /\ jpc'[j] = "idle" /\ old'[j] = 0 /\ listed'[j] = {}
  BY Zenon DEF Inv, TypeOK, Finish, Base
<1>2. last' >= 0
  BY Constants DEF Inv, TypeOK
<1>3. QED
  BY <1>1, <1>2, Zenon DEF SoleOK, Unswapped

\* The steps that touch neither the disk, nor the queue, nor the alias.
LEMMA SoleQuiet ==
    ASSUME Sole, Inv, TargetInv, NEW j \in Job,
           \/ StartRefresh(j) \/ CheckWriteLock(j) \/ IndexFails(j)
           \/ FinishCopy(j) \/ CompareTarget(j) \/ ReplaceFails(j)
           \/ ListSnapshots(j) \/ RetentionFails(j)
    PROVE  TargetInv'
<1>1. UNCHANGED <<target, disk, last, queue>>
  BY Zenon
     DEF StartRefresh, CheckWriteLock, IndexFails, FinishCopy, CompareTarget,
         ReplaceFails, ListSnapshots, RetentionFails, aliasVars
<1>2. SoleOK(j)
  BY Zenon DEF TargetInv
<1>3. target <= last /\ \A v \in disk : v <= last
  BY Zenon DEF TargetInv
<1>4. SoleOK(j)'
  <2>1. CASE Finish(j)
    BY <1>1, <2>1, FinishSole, Zenon
  <2>2. CASE StartRefresh(j)
    BY <1>1, <1>2, <1>3, <2>2, Zenon
       DEF SoleOK, Unswapped, StartRefresh, Goto, Inv, TypeOK
  <2>3. CASE CheckWriteLock(j) /\ ~Finish(j)
    BY <1>1, <1>2, <2>3, Zenon
       DEF SoleOK, Unswapped, CheckWriteLock, Goto, Inv, TypeOK
  <2>4. CASE FinishCopy(j)
    BY <1>1, <1>2, <2>4, Zenon DEF SoleOK, Unswapped, FinishCopy, Goto, Inv, TypeOK
  <2>5. CASE CompareTarget(j)
    BY <1>1, <1>2, <2>5 DEF SoleOK, Unswapped, CompareTarget, Goto
  <2>6. CASE ListSnapshots(j)
    BY <1>1, <1>2, <1>3, <2>6, Zenon
       DEF SoleOK, Unswapped, ListSnapshots, Goto, Inv, TypeOK
  <2>7. QED
    BY <2>1, <2>2, <2>3, <2>4, <2>5, <2>6, Zenon
       DEF IndexFails, ReplaceFails, RetentionFails
<1>5. QED
  BY <1>1, <1>4, Zenon DEF Sole, TargetInv, TargetStays

\* A new snapshot gets a name that is neither on disk nor in the queue.
LEMMA SoleCopies ==
    ASSUME Sole, Inv, TargetInv, NEW j \in Job, StartCopy(j) \/ CopyFails(j)
    PROVE  TargetInv'
<1>1. SoleOK(j) /\ last \in Nat /\ target \in Nat /\ disk \subseteq Nat
      /\ queue \subseteq Nat /\ listed[j] \subseteq Nat /\ old[j] \in Nat
  <2>1. Path \subseteq Nat /\ Version \subseteq Nat
    BY NumbersAssumption DEF Path, Version, Base
  <2>2. /\ SoleOK(j) /\ last \in Path /\ target \in Path /\ disk \subseteq Version
        /\ queue \subseteq Version /\ listed[j] \subseteq Version /\ old[j] \in Path
    BY Zenon DEF TargetInv, Inv, TypeOK
  <2>3. QED
    BY <2>1, <2>2, Zenon
<1>2. j \notin AddIndex /\ j \notin Branch
  BY JobsAssumption, Zenon DEF Sole, Job
<1>3. CASE StartCopy(j)
  <2>1. /\ new'[j] = last + 1 /\ disk' = disk \cup {last + 1}
        /\ last' = last + 1 /\ jpc[j] = "indexing" /\ jpc'[j] = "copying"
        /\ old' = old /\ UNCHANGED <<target, listed, queue>>
    BY <1>2, <1>3, Zenon DEF Sole, StartCopy, Stamps, Goto, aliasVars, Inv, TypeOK
  <2>2. SoleOK(j)'
    BY <1>1, <2>1 DEF SoleOK, TargetInv
  <2>3. \A v \in (disk \cup queue \cup {target})' : v <= last'
    BY <1>1, <2>1 DEF TargetInv
  <2>4. TargetStays'
    BY <1>1, <2>1 DEF TargetInv, TargetStays
  <2>5. QED
    BY <2>2, <2>3, <2>4, Zenon DEF Sole, TargetInv
<1>4. CASE CopyFails(j)
  <2>1. /\ disk' = disk \/ disk' = disk \ {new[j]}
        /\ UNCHANGED <<target, last, queue>>
        /\ Finish(j) /\ Unswapped(j)
    BY <1>2, <1>4, Zenon DEF CopyFails, aliasVars, Unswapped
  <2>2. QED
    BY <2>1, FinishSole DEF Sole, TargetInv, TargetStays, SoleOK
<1>5. QED
  BY <1>3, <1>4, Zenon

\* The alias moves to the newest snapshot, the old target is scheduled, and the
\* retention pass spares the one the job swapped in.
LEMMA SoleSwaps ==
    ASSUME Sole, Inv, TargetInv, NEW j \in Job,
           Replace(j) \/ ScheduleOld(j) \/ EnforceRetention(j)
    PROVE  TargetInv'
<1>1. SoleOK(j)
  BY Zenon DEF TargetInv
<1>2. j \notin Provider
  BY JobsAssumption, Zenon DEF Sole, Job
<1>3. CASE Replace(j)
  <2>1. /\ target' = new[j] /\ UNCHANGED <<disk, last, queue, old, new, listed>>
        /\ jpc[j] = "replacing" /\ jpc'[j] = "swapped"
    BY <1>3, Zenon DEF Replace, Goto, Inv, TypeOK
  <2>2. Unswapped(j)
    BY <2>1, Zenon DEF Unswapped
  <2>3. SoleOK(j)'
    BY <1>1, <2>1, <2>2, Zenon DEF SoleOK, Unswapped
  <2>4. QED
    BY <2>1, <2>2, <2>3 DEF Sole, TargetInv, TargetStays, SoleOK
<1>4. CASE ScheduleOld(j)
  <2>1. /\ queue' \subseteq queue \cup {old[j]}
        /\ UNCHANGED <<target, disk, last, old, new, listed>>
        /\ jpc[j] = "swapped" /\ jpc'[j] = "listing"
    BY <1>2, <1>4, Zenon DEF ScheduleOld, Goto, aliasVars, Inv, TypeOK
  <2>2. SoleOK(j)'
    BY <1>1, <2>1, Zenon DEF SoleOK, Unswapped
  <2>3. QED
    BY <2>1, <2>2, Zenon DEF Sole, TargetInv, TargetStays, SoleOK
<1>5. CASE EnforceRetention(j)
  <2>1. /\ queue' = queue \cup Superseded(j) /\ Finish(j)
        /\ UNCHANGED <<target, disk, last>> /\ jpc[j] = "retaining"
    BY <1>5, Zenon DEF EnforceRetention, aliasVars
  <2>2. target \notin Superseded(j) /\ Superseded(j) \subseteq listed[j]
    BY <1>1, <2>1, Zenon DEF SoleOK, Superseded
  <2>3. QED
    BY <2>1, <2>2, FinishSole DEF Sole, TargetInv, TargetStays, SoleOK
<1>6. QED
  BY <1>3, <1>4, <1>5, Zenon

\* Only what is queued is deleted.
LEMMA SoleCleans ==
    ASSUME Sole, Inv, TargetInv,
           CleanerStep \/ \E v \in Version : BackoffElapses(v)
    PROVE  TargetInv'
<1>1. UNCHANGED <<target, last, jobVars>>
  BY Zenon
     DEF CleanerStep, StartSweep, BreakCircuit, SkipPath, ChooseVictim, DeleteIndex,
         DeleteFails, BackoffElapses, aliasVars
<1>2. disk' \subseteq disk /\ queue' \subseteq queue /\ disk \ disk' \subseteq queue
  BY Zenon
     DEF CleanerStep, StartSweep, BreakCircuit, SkipPath, ChooseVictim, DeleteIndex,
         DeleteFails, BackoffElapses, Inv, CleanerOK
<1>3. \A j \in Job : SoleOK(j)'
  BY <1>1, <1>2, Zenon DEF TargetInv, SoleOK, Unswapped, jobVars
<1>4. QED
  BY <1>1, <1>2, <1>3, Zenon DEF TargetInv, TargetStays

LEMMA SoleInductive ==
    ASSUME Sole, Inv, TargetInv, [Next]_vars
    PROVE  TargetInv'
<1>1. ASSUME NEW j \in Job, JobStep(j) PROVE TargetInv'
  <2>1. ~StartLocked(j) /\ ~StartProvider(j) /\ ~ReadTarget(j)
    BY JobsAssumption, Zenon DEF Sole, Job, StartLocked, StartProvider, ReadTarget
  <2>2. ~SwapRejected(j)
    BY Zenon DEF TargetInv, SoleOK, Unswapped, SwapRejected
  <2>3. QED
    BY <1>1, <2>1, <2>2, SoleQuiet, SoleCopies, SoleSwaps, Zenon DEF JobStep
<1>2. ASSUME NEW q \in Query, QueryStep(q) PROVE TargetInv'
  <2>1. UNCHANGED <<target, disk, last, queue, jobVars>>
    BY <1>2, Zenon
       DEF QueryStep, ResolveAlias, CheckExists, IncrementRef, DecrementRef,
           aliasVars
  <2>2. QED
    BY <2>1, Zenon DEF jobVars, TargetInv, TargetStays, SoleOK, Unswapped
<1>3. CASE Restart
  <2>1. last >= 0
    BY Constants DEF Inv, TypeOK
  <2>2. QED
    BY <1>3, <2>1, Zenon
       DEF Restart, aliasVars, TargetInv, TargetStays, SoleOK, Unswapped, Base
<1>4. CASE UNCHANGED vars
  BY <1>4, Zenon
     DEF vars, aliasVars, jobVars, TargetInv, TargetStays, SoleOK, Unswapped
<1>5. QED
  BY <1>1, <1>2, <1>3, <1>4, SoleCleans, Zenon DEF Next

LEMMA SoleInit == Init => TargetInv
  BY DEF Init, TargetInv, TargetStays, SoleOK, Unswapped, Base

\* While the refresh is the only job that swaps, the alias always names a
\* directory that exists and that no cleanup is going to remove: across failed
\* copies, swaps and deletions, and across restarts in any step.
THEOREM RefreshKeepsTarget ==
    ASSUME Sole
    PROVE  Spec => []TargetStays
<1>1. TargetInv => TargetStays
  BY Zenon DEF TargetInv
<1>2. Inv /\ TargetInv /\ [Next]_vars => TargetInv'
  BY SoleInductive
<1>3. QED
  BY <1>1, <1>2, SoleInit, InitInv, NextInv, PTL DEF Spec

----------------------------------------------------------------------------
(* Keep-last-N.                                                              *)

\* A set of numbers that is not empty has a least element.
LEMMA LeastVersion ==
    ASSUME NEW S, S \subseteq Nat, S # {}
    PROVE  \E m \in S : \A v \in S : m <= v
<1>1. \E m \in S : \A v \in S : ~(<<v, m>> \in OpToRel(<, Nat))
  BY NatLessThanWellFounded, WFMin, Zenon
<1>2. \A m, v \in Nat : v < m => <<v, m>> \in OpToRel(<, Nat)
  BY DEF OpToRel
<1>3. \A m, v \in Nat : ~(v < m) => m <= v
  OBVIOUS
<1>4. QED
  BY <1>1, <1>2, <1>3, Zenon

\* No more than N snapshots are among the N newest.
LEMMA NewestBounded ==
    ASSUME NEW S, S \subseteq Version, IsFiniteSet(S)
    PROVE  IsFiniteSet(Newest(S)) /\ Cardinality(Newest(S)) <= KeepLast
<1>1. Newest(S) \subseteq S /\ S \subseteq Nat
  BY DEF Newest, Version
<1>2. IsFiniteSet(Newest(S)) /\ Cardinality(Newest(S)) \in Nat
  BY <1>1, FS_Subset, FS_CardinalityType, Zenon
<1>3. CASE Newest(S) = {}
  BY <1>2, <1>3, FS_EmptySet, NumbersAssumption
<1>4. CASE Newest(S) # {}
  <2>1. PICK m \in Newest(S) : \A v \in Newest(S) : m <= v
    BY <1>1, <1>4, LeastVersion, Zenon
  <2> DEFINE Above == {w \in S : w > m}
  <2>2. IsFiniteSet(Above) /\ Cardinality(Above) \in Nat
    BY FS_Subset, FS_CardinalityType, Zenon
  <2>3. Cardinality(Above) < KeepLast
    BY <2>1, Zenon DEF Newest
  <2>4. Newest(S) \ {m} \subseteq Above
    <3>1. \A k, v \in Nat : k <= v /\ v # k => v > k
      OBVIOUS
    <3>2. QED
      BY <1>1, <2>1, <3>1, Zenon
  <2> HIDE DEF Above
  <2>5. Cardinality(Newest(S) \ {m}) <= Cardinality(Above)
    BY <2>2, <2>4, FS_Subset, Zenon
  <2>6. Cardinality(Newest(S) \ {m}) = Cardinality(Newest(S)) - 1
    BY <1>2, <2>1, FS_RemoveElement, Zenon
  <2>7. QED
    BY <1>2, <2>2, <2>3, <2>5, <2>6, NumbersAssumption
<1>5. QED
  BY <1>3, <1>4, Zenon

\* The listing of a sole refresh misses nothing, and its own snapshot is the
\* newest, so what is spared beside the N newest is the rollback path at most.
LEMMA RetentionStep ==
    ASSUME Sole, Inv, TargetInv, NEW j \in Job, EnforceRetention(j)
    PROVE  Cardinality(disk \ queue') <= KeepLast + 1
<1> DEFINE L == listed[j]
<1>1. /\ disk \subseteq L /\ new[j] = last /\ \A v \in L : v <= last
      /\ queue' = queue \cup Superseded(j)
  BY Zenon DEF TargetInv, SoleOK, EnforceRetention
<1>2. L \subseteq Version /\ IsFiniteSet(L) /\ Cardinality(L) \in Nat
  <2>1. IsFiniteSet(Version)
    BY FS_Interval, NumbersAssumption DEF Version
  <2>2. L \subseteq Version
    BY Zenon DEF Inv, TypeOK
  <2>3. QED
    BY <2>1, <2>2, FS_Subset, FS_CardinalityType, Zenon
<1>3. CASE Cardinality(L) <= KeepLast
  <2>1. Cardinality(disk \ queue') <= Cardinality(L)
        /\ IsFiniteSet(disk \ queue')
    BY <1>1, <1>2, FS_Subset, Zenon
  <2>2. Cardinality(disk \ queue') \in Nat
    BY <2>1, FS_CardinalityType, Zenon
  <2>3. QED
    BY <1>2, <1>3, <2>1, <2>2, NumbersAssumption
<1>4. CASE ~(Cardinality(L) <= KeepLast)
  <2>1. new[j] \in L => new[j] \in Newest(L)
    <3>1. \A w \in L : ~(w > new[j])
      <4>1. \A w \in Version, x \in Path : w <= x => ~(w > x)
        BY NumbersAssumption DEF Version, Path, Base
      <4>2. QED
        BY <1>1, <1>2, <4>1, Zenon DEF Inv, TypeOK
    <3>2. {w \in L : w > new[j]} = {}
      BY <3>1, Zenon
    <3>3. QED
      BY <3>2, FS_EmptySet, NumbersAssumption DEF Newest
  <2>2. disk \ queue' \subseteq Newest(L) \cup {previous}
    BY <1>1, <1>4, <2>1, Zenon DEF Superseded
  <2>3. /\ IsFiniteSet(Newest(L)) /\ Cardinality(Newest(L)) <= KeepLast
        /\ Cardinality(Newest(L)) \in Nat
    BY <1>2, NewestBounded, FS_CardinalityType, Zenon
  <2>4. /\ IsFiniteSet(Newest(L) \cup {previous})
        /\ Cardinality(Newest(L) \cup {previous}) <= KeepLast + 1
        /\ Cardinality(Newest(L) \cup {previous}) \in Nat
    <3> DEFINE N == Newest(L)
    <3>1. /\ IsFiniteSet(N \cup {previous})
          /\ Cardinality(N \cup {previous}) \in {Cardinality(N), Cardinality(N) + 1}
      BY <2>3, FS_AddElement, Zenon
    <3>2. QED
      BY <2>3, <3>1, NumbersAssumption
  <2>5. /\ Cardinality(disk \ queue') <= Cardinality(Newest(L) \cup {previous})
        /\ IsFiniteSet(disk \ queue')
    BY <2>2, <2>4, FS_Subset, Zenon
  <2>6. Cardinality(disk \ queue') \in Nat
    BY <2>5, FS_CardinalityType, Zenon
  <2>7. QED
    BY <2>4, <2>5, <2>6, NumbersAssumption
<1>5. QED
  BY <1>3, <1>4, Zenon

\* Every retention pass leaves at most the N newest directories and the rollback
\* path unscheduled, whatever earlier passes, restarts and failed swaps left.
THEOREM RetentionIsBounded ==
    ASSUME Sole
    PROVE  Spec => RetentionBounds
<1>1. Inv /\ TargetInv /\ [Next]_vars => TargetInv'
  BY SoleInductive
<1>2. Inv /\ TargetInv /\ [Next]_vars =>
        [\A j \in Job : EnforceRetention(j) =>
            Cardinality(disk \ queue') <= KeepLast + 1]_vars
  BY RetentionStep, Zenon
<1>3. QED
  BY <1>1, <1>2, SoleInit, InitInv, NextInv, PTL DEF Spec, RetentionBounds

=============================================================================
