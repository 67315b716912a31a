--------------------------- MODULE JobPoolProofs ----------------------------
(***************************************************************************)
(* The safety properties of JobPool, for any number of jobs, keys, workers *)
(* and events.  They all follow from one inductive invariant, IInv, whose  *)
(* parts speak of one job each (JobOK), but for the unique index, the      *)
(* queue and the pool.                                                     *)
(***************************************************************************)
EXTENDS JobPool, Functions, FiniteSetTheorems, TLAPS

Done == {"completed", "completed_partial"}
Open == {"none", "pending", "running", "cancelled"}
Early == {"submitted", "start", "announce", "recheck", "call", "wait"}
Running == {"announce", "recheck", "call", "wait"}

Queued(j) == j \in Range(queue)
Busy == {j \in Job : exec[j] \notin {"no", "submitted"}}

\* Two statuses that do not contradict each other as outcomes of a job.
Same(a, b) == a \in Terminal /\ b \in Terminal => a = b \/ (a \in Done /\ b \in Done)

\* Only its row knows a job that was not submitted completely.
Fresh(j) == /\ row[j] = "none" => exec[j] = "no"
            /\ row[j] = "none" \/ exec[j] = "submitted" =>
                 /\ mem[j] = "none" /\ j \notin tracked /\ ~Queued(j) /\ j \notin func
                 /\ j \notin accepted /\ cancel[j] = "no" /\ ssnap[j] = "none"
            /\ exec[j] = "submitted" =>
                 row[j] = "pending" \/ (row[j] = "cancelled" /\ remote[j] = "done")

\* The status in memory follows the worker's progress, or the cancellation.
WorkerOK(j) == /\ exec[j] = "start" => mem[j] \in {"pending", "cancelled"}
               /\ exec[j] \in Running => mem[j] \in {"running", "cancelled"}
               /\ exec[j] \in {"persist", "notify"} => snap[j] = mem[j] /\ snap[j] \in Terminal
               /\ exec[j] \notin {"persist", "notify"} => snap[j] = "none"
               /\ exec[j] = "notify" /\ ~keep[j] => row[j] \in Terminal
               /\ Queued(j) => exec[j] = "no" /\ mem[j] \in {"none", "pending", "cancelled"}
               /\ mem[j] = "pending" => Queued(j) \/ exec[j] = "start"
               /\ mem[j] = "running" => exec[j] \in Running

CancelOK(j) == cancel[j] = "write" <=> csnap[j] # "none"

\* Who says "cancelled" before the outcome is right: the cancelled field is set
\* and will decide the outcome, or another node has written the row.
FlagOK(j) == /\ j \in flag => mem[j] \in {"running", "cancelled"}
             /\ mem[j] = "cancelled" => j \in flag
             /\ "cancelled" \in {csnap[j], ssnap[j]} /\ mem[j] # "none" => j \in flag
             /\ /\ exec[j] \in Early \/ (Queued(j) /\ mem[j] # "none")
                /\ row[j] = "cancelled"
                => j \in flag \/ remote[j] = "done"

\* Before its outcome is decided nobody holds another outcome of a job than its
\* cancellation, and neither while an abandoned function is executing.
Unsettled(j) == exec[j] \in Early \/ Queued(j) \/ j \in func =>
    /\ row[j] \in Open /\ mem[j] \in Open /\ csnap[j] \in Open /\ ssnap[j] \in Open

\* All that will still be written of an outcome agrees, and it agrees with the
\* row unless another node wrote that.
Verdict(j) == /\ Same(mem[j], csnap[j]) /\ Same(mem[j], ssnap[j]) /\ Same(csnap[j], ssnap[j])
              /\ \/ row[j] = "cancelled" /\ remote[j] = "done"
                 \/ Same(row[j], mem[j]) /\ Same(row[j], csnap[j]) /\ Same(row[j], ssnap[j])

Accepted(j) == j \in accepted => /\ row[j] \notin Done /\ mem[j] \notin Done
                                 /\ csnap[j] \notin Done /\ ssnap[j] \notin Done
                                 /\ mem[j] # "none" => j \in flag

Tracked(j) == j \in tracked => exec[j] # "no" \/ Queued(j) \/ j \in lost

JobOK(j) == /\ Fresh(j) /\ WorkerOK(j) /\ CancelOK(j) /\ FlagOK(j) /\ Unsettled(j)
            /\ Verdict(j) /\ Accepted(j) /\ Tracked(j)

\* idx_active_job_per_repo.
Unique == \A i, j \in Job : i # j /\ Key[i] = Key[j] =>
              ~(row[i] \in Active /\ row[j] \in Active)

QueueOK == IsInjective(queue)

\* A worker is free, or has a job, or has left the pool.
PoolOK == IsFiniteSet(Busy) /\ Cardinality(Busy) + free <= Workers

DownOK == ~up => /\ queue = <<>>
                 /\ \A j \in Job : /\ exec[j] = "no" /\ mem[j] = "none" /\ j \notin func
                                   /\ j \notin tracked /\ cancel[j] = "no"
                                   /\ ssnap[j] = "none"

IInv == /\ TypeOK /\ Unique /\ QueueOK /\ PoolOK /\ DownOK
        /\ \A j \in Job : JobOK(j)

----------------------------------------------------------------------------
(* The queue *)

\* Append adds one item to the queue, and keeps its items distinct if it is new.
LEMMA QueueAppend ==
    ASSUME NEW s \in Seq(Job), NEW j \in Job
    PROVE  /\ Append(s, j) \in Seq(Job)
           /\ Range(Append(s, j)) = Range(s) \cup {j}
           /\ IsInjective(s) /\ j \notin Range(s) => IsInjective(Append(s, j))
<1> DEFINE t == Append(s, j)
<1>1. /\ t \in Seq(Job) /\ Len(t) = Len(s) + 1
      /\ \A n \in 1..Len(s) : t[n] = s[n]
      /\ t[Len(s) + 1] = j
      /\ DOMAIN t = 1..Len(t) /\ DOMAIN s = 1..Len(s) /\ Len(s) \in Nat
  OBVIOUS
<1> HIDE DEF t
<1>2. Range(t) = Range(s) \cup {j}
  BY <1>1 DEF Range
<1>3. ASSUME IsInjective(s), j \notin Range(s) PROVE IsInjective(t)
  BY <1>1, <1>3 DEF Range, IsInjective
<1> QED BY <1>1, <1>2, <1>3, Zenon DEF t

\* Tail takes the head out of a queue of distinct items, and nothing else.
LEMMA QueueTail ==
    ASSUME NEW s \in Seq(Job), s # <<>>
    PROVE  /\ Tail(s) \in Seq(Job) /\ Head(s) \in Range(s)
           /\ IsInjective(s) => /\ Range(Tail(s)) = Range(s) \ {Head(s)}
                               /\ IsInjective(Tail(s))
<1> DEFINE t == Tail(s)
           h == Head(s)
<1>1. /\ t \in Seq(Job) /\ Len(t) = Len(s) - 1
      /\ \A n \in 1..Len(t) : t[n] = s[n + 1]
      /\ s[1] = h
      /\ DOMAIN t = 1..Len(t) /\ DOMAIN s = 1..Len(s)
      /\ Len(s) \in Nat /\ Len(s) > 0
  OBVIOUS
<1> HIDE DEF t, h
<1>2. h \in Range(s)
  BY <1>1 DEF Range
<1>3. ASSUME IsInjective(s) PROVE Range(t) = Range(s) \ {h} /\ IsInjective(t)
  <2>1. IsInjective(t)
    <3>1. ASSUME NEW a \in DOMAIN t, NEW b \in DOMAIN t, t[a] = t[b] PROVE a = b
      <4>1. /\ a + 1 \in DOMAIN s /\ t[a] = s[a + 1]
            /\ b + 1 \in DOMAIN s /\ t[b] = s[b + 1]
        BY <1>1
      <4>2. a + 1 = b + 1
        BY <1>3, <3>1, <4>1, Zenon DEF IsInjective
      <4> QED BY <1>1, <4>2
    <3> QED BY <3>1, Zenon DEF IsInjective
  <2>2. Range(t) \subseteq Range(s) \ {h}
    BY <1>1, <1>3 DEF Range, IsInjective
  <2>3. ASSUME NEW x \in Range(s), x # h PROVE x \in Range(t)
    <3>1. PICK n \in 1..Len(s) : x = s[n]
      BY <1>1, Zenon DEF Range
    <3>2. n - 1 \in 1..Len(t) /\ t[n - 1] = x
      BY <1>1, <2>3, <3>1
    <3> QED BY <1>1, <3>2, Zenon DEF Range
  <2> QED BY <2>1, <2>2, <2>3
<1> QED BY <1>1, <1>2, <1>3, Zenon DEF t, h

----------------------------------------------------------------------------
(* What a step does to the other jobs, to the index and to the pool *)

\* Nothing that JobOK says of the job changes, but that it may get lost.
Frame(i) == /\ row'[i] = row[i] /\ mem'[i] = mem[i] /\ exec'[i] = exec[i]
            /\ snap'[i] = snap[i] /\ keep'[i] = keep[i]
            /\ cancel'[i] = cancel[i] /\ csnap'[i] = csnap[i]
            /\ remote'[i] = remote[i] /\ ssnap'[i] = ssnap[i]
            /\ i \in flag' <=> i \in flag
            /\ i \in tracked' <=> i \in tracked
            /\ Queued(i)' <=> Queued(i)
            /\ i \in func' <=> i \in func
            /\ i \in accepted' <=> i \in accepted
            /\ i \in lost => i \in lost'

\* JobOK depends on what Frame lists only.
LEMMA FrameKeeps == ASSUME NEW i \in Job, JobOK(i), Frame(i) PROVE JobOK(i)'
<1>1. Fresh(i)' /\ CancelOK(i)' /\ Tracked(i)'
  BY Zenon DEF Frame, JobOK, Fresh, CancelOK, Tracked
<1>2. WorkerOK(i)'
  BY Zenon DEF Frame, JobOK, WorkerOK
<1>3. FlagOK(i)'
  BY Zenon DEF Frame, JobOK, FlagOK
<1>4. Unsettled(i)' /\ Accepted(i)'
  BY Zenon DEF Frame, JobOK, Unsettled, Accepted
<1>5. Verdict(i)'
  BY Zenon DEF Frame, JobOK, Verdict
<1> QED BY <1>1, <1>2, <1>3, <1>4, <1>5, Zenon DEF JobOK

\* No row becomes active.
Calm == \A i \in Job : row'[i] \in Active => row[i] \in Active

\* The index can be disturbed by a row that becomes active only.
LEMMA CalmUnique == ASSUME IInv, Calm PROVE Unique'
  BY Zenon DEF IInv, Unique, Calm

\* What a step may do to the row and to the visible status of a job.
RowLasts(j) == row[j] \in Terminal /\ row'[j] # row[j] =>
    /\ row'[j] \in Terminal
    /\ \/ {row[j], row'[j]} = {"completed", "completed_partial"}
       \/ row[j] = "cancelled" /\ remote[j] = "done"
       \/ row'[j] = "cancelled" /\ remote[j] = "write"
ViewLasts(j) == View(j) \in Terminal =>
    \/ View(j)' \in Terminal
    \/ exec[j] = "start" /\ j \in flag
    \/ exec[j] = "submitted" /\ remote[j] = "done"
    \/ exec[j] = "no" /\ row[j] \in Active
    \/ ~up'

\* A good step of the system.
Good == IInv' /\ \A j \in Job : RowLasts(j) /\ ViewLasts(j)

\* A step that concerns one job is good if it is good for that job.
LEMMA OneJob ==
    ASSUME IInv, NEW j \in Job, TypeOK', QueueOK', PoolOK', Unique', DownOK',
           \A i \in Job : i # j => Frame(i), JobOK(j)', RowLasts(j), ViewLasts(j)
    PROVE  Good
<1>1. \A i \in Job : JobOK(i)'
  BY FrameKeeps, Zenon DEF IInv
<1>2. ASSUME NEW i \in Job, i # j PROVE RowLasts(i) /\ ViewLasts(i)
  BY <1>2, Zenon DEF Frame, RowLasts, ViewLasts, View
<1> QED BY <1>1, <1>2, Zenon DEF IInv, Good

\* No job gets or leaves a worker.
LEMMA PoolKept ==
    ASSUME IInv, free' \in Nat, free' <= free,
           \A i \in Job : exec'[i] \in {"no", "submitted"} <=> exec[i] \in {"no", "submitted"}
    PROVE  PoolOK'
<1>1. Busy' = Busy
  BY Zenon DEF Busy
<1>2. Cardinality(Busy) \in Nat
  BY FS_CardinalityType, Zenon DEF IInv, PoolOK
<1> QED BY <1>1, <1>2, WorkersAssumption DEF IInv, PoolOK, TypeOK

\* A job leaves a worker, which may go back to the queue.
LEMMA PoolReleased ==
    ASSUME IInv, NEW j \in Busy, Busy' = Busy \ {j}, free' \in Nat, free' <= free + 1
    PROVE  PoolOK'
<1>1. IsFiniteSet(Busy) /\ Cardinality(Busy) \in Nat
  BY FS_CardinalityType, Zenon DEF IInv, PoolOK
<1>2. IsFiniteSet(Busy') /\ Cardinality(Busy') = Cardinality(Busy) - 1
  BY <1>1, FS_RemoveElement, Zenon
<1> QED BY <1>1, <1>2, WorkersAssumption DEF IInv, PoolOK, TypeOK

\* A worker takes a job.
LEMMA PoolTaken ==
    ASSUME IInv, NEW j, Busy' = Busy \cup {j}, free > 0, free' = free - 1
    PROVE  PoolOK'
<1>1. IsFiniteSet(Busy) /\ Cardinality(Busy) \in Nat
  BY FS_CardinalityType, Zenon DEF IInv, PoolOK
<1>2. /\ IsFiniteSet(Busy')
      /\ Cardinality(Busy') \in {Cardinality(Busy), Cardinality(Busy) + 1}
  BY <1>1, FS_AddElement, Zenon
<1> QED BY <1>1, <1>2, WorkersAssumption DEF IInv, PoolOK, TypeOK

\* No more workers are free than the pool has.
LEMMA PoolBound == ASSUME PoolOK', free' \in Nat PROVE free' \in 0..Workers
  BY FS_CardinalityType, WorkersAssumption DEF PoolOK

\* The row of one job is written, if at all, with a status that it may take.
Wrote(j, s) == /\ row' \in [Job -> Status \cup {"none"}]
               /\ \A i \in Job : i # j => row'[i] = row[i]
               /\ \/ row'[j] = row[j]
                  \/ row'[j] = s /\ (s \in Terminal \/ row[j] \notin Terminal)

\* A write outside of the lock, with guard_terminal_status, or its failure.
LEMMA WriteWrites ==
    ASSUME TypeOK, NEW j \in Job, NEW s \in Status, WriteRow(j, s) \/ WriteFails
    PROVE  Wrote(j, s) /\ events' \in 0..MaxEvents
  BY EventsAssumption
     DEF Wrote, WriteRow, WriteFails, UpdateJob, Event, TypeOK, Status, Active,
         Terminal

\* A write makes no row active that was not, once the row exists.
LEMMA WriteCalm ==
    ASSUME TypeOK, NEW j \in Job, NEW s \in Status, Wrote(j, s), row[j] # "none"
    PROVE  Calm
  BY DEF Wrote, Calm, TypeOK, Status, Active, Terminal

\* A step that leaves the queue alone.
LEMMA SameQueue == ASSUME queue' = queue
                   PROVE  /\ \A i : Queued(i)' = Queued(i)
                          /\ QueueOK => QueueOK'
  BY DEF Queued, QueueOK

\* The head of the queue is taken; it is not in the queue any more.
LEMMA Taken ==
    ASSUME TypeOK, QueueOK, NEW j \in Job, queue # <<>>, Head(queue) = j,
           queue' = Tail(queue)
    PROVE  /\ queue' \in Seq(Job) /\ QueueOK'
           /\ Queued(j) /\ ~Queued(j)'
           /\ \A i \in Job : i # j => (Queued(i)' <=> Queued(i))
  BY QueueTail DEF TypeOK, Queued, QueueOK

----------------------------------------------------------------------------
(* The steps, one by one *)

\* A new row: ~Conflict is what Unique needs.
LEMMA SubmitStep == ASSUME IInv, NEW j \in Job, Submit(j) PROVE Good
<1>1. up /\ TypeOK /\ JobOK(j) /\ QueueOK
  BY Zenon DEF IInv, DownOK, Submit
<1>2. /\ row[j] = "none" /\ row'[j] = "pending" /\ exec'[j] = "submitted"
      /\ \A i \in Job : i # j => row'[i] = row[i] /\ exec'[i] = exec[i]
      /\ UNCHANGED <<up, mem, flag, tracked, queue, free, snap, keep, func,
                     cancels, ssnap, lost>>
      /\ Queued(j)' = Queued(j)
  BY <1>1, SameQueue DEF Submit, TypeOK, memory, Goto
<1>3. TypeOK'
  BY <1>1, Zenon DEF Submit, TypeOK, memory, Goto, cancels, Status, Active
<1>4. PoolOK' /\ QueueOK'
  BY <1>1, <1>2, PoolKept, SameQueue DEF TypeOK, JobOK, Fresh
<1>5. Unique'
  BY <1>2, Zenon DEF IInv, Unique, Submit, Conflict
<1>6. DownOK'
  BY <1>1, <1>2, Zenon DEF DownOK
<1>7. \A i \in Job : i # j => Frame(i)
  BY <1>2, SameQueue, Zenon DEF Frame, cancels
<1>8. JobOK(j)'
  BY <1>1, <1>2, Zenon
     DEF JobOK, Fresh, CancelOK, Tracked, WorkerOK, Running, FlagOK, Early,
         Unsettled, Accepted, Open, Done, Verdict, Same, Terminal, Active, Status,
         cancels
<1>9. RowLasts(j) /\ ViewLasts(j)
  BY <1>1, <1>2, Zenon
     DEF RowLasts, ViewLasts, View, JobOK, Fresh, WorkerOK, FlagOK, Running,
         Unsettled, Verdict, Same, Early, Open, Done, Terminal, Active
<1> QED BY <1>3, <1>4, <1>5, <1>6, <1>7, <1>8, <1>9, OneJob, Zenon

\* The job was in no other place than its row, so not in the queue either.
LEMMA EnqueueStep == ASSUME IInv, NEW j \in Job, Enqueue(j) PROVE Good
<1>1. up /\ TypeOK /\ JobOK(j) /\ QueueOK
  BY Zenon DEF IInv, DownOK, Enqueue
<1>2. /\ exec[j] = "submitted" /\ mem'[j] = "pending" /\ exec'[j] = "no"
      /\ \A i \in Job : i # j => mem'[i] = mem[i] /\ exec'[i] = exec[i]
      /\ tracked' = tracked \cup {j} /\ queue' = Append(queue, j) /\ ~Queued(j)
      /\ UNCHANGED <<up, row, flag, free, snap, keep, func, cancels, ssnap, lost>>
  BY <1>1, Zenon DEF Enqueue, TypeOK, SetMem, Goto, JobOK, Fresh
<1>3. /\ queue' \in Seq(Job) /\ QueueOK' /\ Queued(j)'
      /\ \A i \in Job : i # j => (Queued(i)' <=> Queued(i))
  BY <1>1, <1>2, QueueAppend DEF TypeOK, Queued, QueueOK
<1>4. TypeOK'
  BY <1>3, <1>1, Zenon DEF Enqueue, TypeOK, SetMem, Goto, cancels, Status, Active
<1>5. PoolOK' /\ QueueOK'
  BY <1>3, <1>1, <1>2, PoolKept DEF TypeOK
<1>6. Unique'
  BY <1>2, Zenon DEF IInv, Unique
<1>7. DownOK'
  BY <1>1, <1>2, Zenon DEF DownOK
<1>8. \A i \in Job : i # j => Frame(i)
  BY <1>3, <1>2, Zenon DEF Frame, cancels
<1>9. JobOK(j)'
  BY <1>1, <1>2, <1>3, Zenon
     DEF JobOK, Fresh, CancelOK, Tracked, WorkerOK, Running, FlagOK, Early,
         Unsettled, Accepted, Open, Done, Verdict, Same, Terminal, Active, Status,
         cancels
<1>10. RowLasts(j) /\ ViewLasts(j)
  BY <1>1, <1>2, <1>3, Zenon
     DEF RowLasts, ViewLasts, View, JobOK, Fresh, WorkerOK, FlagOK, Running,
         Unsettled, Verdict, Same, Early, Open, Done, Terminal, Active
<1> QED BY <1>4, <1>5, <1>6, <1>7, <1>8, <1>9, <1>10, OneJob, Zenon

\* The item goes from the head to the end: the same jobs wait.
LEMMA DeferStep == ASSUME IInv, NEW j \in Job, Defer(j) PROVE Good
<1>1. up /\ TypeOK /\ JobOK(j) /\ QueueOK
  BY Zenon DEF IInv, DownOK, Defer
<1>2. /\ queue' \in Seq(Job) /\ QueueOK' /\ \A i \in Job : Queued(i)' <=> Queued(i)
      /\ free' \in Nat /\ free' <= free
      /\ UNCHANGED <<up, row, mem, flag, tracked, exec, snap, keep, func, cancels,
                     ssnap, lost>>
  <2>1. /\ Tail(queue) \in Seq(Job) /\ j \in Range(queue)
        /\ Range(Tail(queue)) = Range(queue) \ {j} /\ IsInjective(Tail(queue))
    BY <1>1, QueueTail, Zenon DEF Defer, TypeOK, QueueOK
  <2>2. /\ queue' \in Seq(Job) /\ IsInjective(queue')
        /\ Range(queue') = Range(queue)
    <3>1. queue' = Append(Tail(queue), j)
      BY Zenon DEF Defer
    <3>2. /\ queue' \in Seq(Job) /\ IsInjective(queue')
          /\ Range(queue') = Range(Tail(queue)) \cup {j}
      BY <2>1, <3>1, QueueAppend, Zenon
    <3> QED BY <2>1, <3>2, Zenon
  <2>3. free' \in Nat /\ free' <= free
    BY <1>1 DEF Defer, TypeOK
  <2> QED BY <2>2, <2>3, Zenon DEF Defer, QueueOK, Queued, memory
<1>3. TypeOK'
  <2>1. free' \in 0..Workers
    BY <1>1, <1>2, WorkersAssumption DEF TypeOK
  <2> QED BY <1>1, <1>2, <2>1 DEF Defer, TypeOK, cancels
<1>4. PoolOK' /\ QueueOK'
  BY <1>1, <1>2, PoolKept, Zenon DEF TypeOK
<1>5. Unique'
  BY <1>2, Zenon DEF IInv, Unique
<1>6. DownOK'
  BY <1>1, <1>2, Zenon DEF DownOK
<1>7. \A i \in Job : i # j => Frame(i)
  BY <1>2, Zenon DEF Frame, cancels
<1>8. JobOK(j)'
  BY <1>1, <1>2
     DEF JobOK, Fresh, CancelOK, Tracked, WorkerOK, Running, FlagOK, Early,
         Unsettled, Accepted, Verdict, Status, cancels
<1>9. RowLasts(j) /\ ViewLasts(j)
  BY <1>1, <1>2, Zenon
     DEF RowLasts, ViewLasts, View, JobOK, Fresh, WorkerOK, FlagOK, Running,
         Unsettled, Verdict, Same, Early, Open, Done, Terminal, Active
<1> QED BY <1>3, <1>4, <1>5, <1>6, <1>7, <1>8, <1>9, OneJob, Zenon

\* A job in the queue has no worker yet.  If it is flagged nobody holds another
\* outcome than its cancellation.
LEMMA TakeStep == ASSUME IInv, NEW j \in Job, Take(j) PROVE Good
<1>1. up /\ TypeOK /\ JobOK(j) /\ QueueOK
  BY Zenon DEF IInv, DownOK, Take
<1>2. /\ exec[j] = "no" /\ Queued(j) /\ ~Queued(j)'
      /\ \A i \in Job : i # j => (Queued(i)' <=> Queued(i))
      /\ \/ /\ mem[j] = "none" /\ lost' = lost \cup {j}
            /\ UNCHANGED <<mem, exec, snap, keep>>
         \/ /\ mem[j] # "none" /\ j \in flag /\ mem'[j] = "cancelled" /\ snap'[j] = "cancelled"
            /\ exec'[j] = "persist" /\ keep'[j] = TRUE /\ UNCHANGED lost
         \/ /\ mem[j] # "none" /\ j \notin flag /\ exec'[j] = "start"
            /\ UNCHANGED <<mem, snap, keep, lost>>
      /\ \A i \in Job : i # j =>
            /\ mem'[i] = mem[i] /\ exec'[i] = exec[i] /\ snap'[i] = snap[i]
            /\ keep'[i] = keep[i]
      /\ UNCHANGED <<up, row, flag, tracked, func, cancels, ssnap>>
  <2>1. /\ queue # <<>> /\ Head(queue) = j /\ queue' = Tail(queue)
        /\ UNCHANGED <<up, row, flag, tracked, func, cancels, ssnap>>
    BY Zenon DEF Take
  <2>2. /\ Queued(j) /\ ~Queued(j)' /\ exec[j] = "no"
        /\ \A i \in Job : i # j => (Queued(i)' <=> Queued(i))
    BY <1>1, <2>1, Taken, Zenon DEF JobOK, WorkerOK
  <2> QED BY <1>1, <2>2 DEF Take, TypeOK, EndEarly, Settle, Goto
<1>3. queue' \in Seq(Job) /\ QueueOK'
  BY <1>1, Taken, Zenon DEF Take
<1>4. PoolOK' /\ free' \in 0..Workers
  <2>1. CASE mem[j] = "none"
    <3>1. free' \in Nat /\ free' <= free /\ free' \in 0..Workers /\ exec' = exec
      BY <1>1, <2>1, WorkersAssumption DEF Take, TypeOK
    <3> QED BY <3>1, PoolKept
  <2>2. CASE mem[j] # "none"
    <3>1. free > 0 /\ free' = free - 1 /\ free' \in 0..Workers
      BY <1>1, <2>2, WorkersAssumption DEF Take, TypeOK
    <3>2. Busy' = Busy \cup {j}
      BY <1>2, <2>2, Zenon DEF Busy
    <3> QED BY <3>1, <3>2, PoolTaken, Zenon
  <2> QED BY <2>1, <2>2, Zenon
<1>5. TypeOK'
  <2>1. mem' \in [Job -> Status \cup {"none"}] /\ lost' \subseteq Job
    BY <1>1 DEF Take, TypeOK, EndEarly, Settle, Status, Terminal
  <2>2. /\ exec' \in [Job -> {"no", "submitted", "start", "announce", "recheck", "call",
                             "wait", "persist", "notify"}]
        /\ snap' \in [Job -> Terminal \cup {"none"}] /\ keep' \in [Job -> BOOLEAN]
    <3>1. CASE mem[j] = "none"
      BY <1>1, <3>1 DEF Take, TypeOK
    <3>2. CASE mem[j] # "none" /\ j \in flag
      <4>1. /\ exec' = [exec EXCEPT ![j] = "persist"]
            /\ snap' = [snap EXCEPT ![j] = "cancelled"]
            /\ keep' = [keep EXCEPT ![j] = TRUE]
        BY <3>2, Zenon DEF Take, EndEarly, Settle, Goto
      <4> QED BY <1>1, <4>1, Zenon DEF TypeOK, Terminal
    <3>3. CASE mem[j] # "none" /\ j \notin flag
      BY <1>1, <3>3 DEF Take, TypeOK, Goto
    <3> QED BY <3>1, <3>2, <3>3, Zenon
  <2> QED BY <1>3, <1>1, <1>4, <2>1, <2>2, Zenon DEF Take, TypeOK, cancels
<1>6. PoolOK' /\ QueueOK'
  BY <1>3, <1>4
<1>7. Unique'
  BY <1>2, Zenon DEF IInv, Unique
<1>8. DownOK'
  BY <1>1, <1>2, Zenon DEF DownOK
<1>9. \A i \in Job : i # j => Frame(i)
  BY <1>2, Zenon DEF Frame, cancels
<1>10. JobOK(j)'
  <2>1. Fresh(j)' /\ WorkerOK(j)' /\ CancelOK(j)' /\ Tracked(j)'
    BY <1>1, <1>2, Zenon
       DEF JobOK, Fresh, CancelOK, Tracked, WorkerOK, Running, Active, Terminal,
           Status, cancels
  <2>2. FlagOK(j)'
    BY <1>1, <1>2, Zenon
       DEF JobOK, Fresh, CancelOK, WorkerOK, Running, FlagOK, Early, Active, cancels
  <2>3. Unsettled(j)' /\ Accepted(j)'
    BY <1>1, <1>2, Zenon
       DEF JobOK, Fresh, Running, Early, Unsettled, Accepted, Open, Done, Terminal,
           Status, cancels
  <2>4. Verdict(j)'
    BY <1>1, <1>2, Zenon
       DEF JobOK, WorkerOK, Running, FlagOK, Unsettled, Open, Verdict, Active,
           Terminal, cancels
  <2> QED BY <2>1, <2>2, <2>3, <2>4 DEF JobOK
<1>11. RowLasts(j) /\ ViewLasts(j)
  BY <1>2, Zenon
     DEF RowLasts, ViewLasts, View, Fresh, WorkerOK, FlagOK, Running, Unsettled,
         Verdict, Same, Early, Open, Done, Terminal, Active
<1> QED BY <1>5, <1>6, <1>7, <1>8, <1>9, <1>10, <1>11, OneJob, Zenon

\* Memory says running again although the job may have been cancelled: the flag
\* stays set.
LEMMA StartStep == ASSUME IInv, NEW j \in Job, Start(j) PROVE Good
<1>1. up /\ TypeOK /\ JobOK(j) /\ QueueOK
  BY Zenon DEF IInv, DownOK, Start
<1>2. /\ exec[j] = "start" /\ mem'[j] = "running" /\ exec'[j] = "announce"
      /\ \A i \in Job : i # j => mem'[i] = mem[i] /\ exec'[i] = exec[i]
      /\ UNCHANGED <<up, row, flag, tracked, queue, free, snap, keep, func,
                     cancels, ssnap, lost>>
      /\ Queued(j)' = Queued(j)
  BY <1>1, SameQueue DEF Start, TypeOK, SetMem, Goto
<1>3. TypeOK'
  BY <1>1, Zenon
     DEF Start, TypeOK, SetMem, Goto, worker, cancels, Status, Active, Terminal
<1>4. PoolOK' /\ QueueOK'
  BY <1>1, <1>2, PoolKept, SameQueue DEF TypeOK
<1>5. Unique'
  BY <1>2, Zenon DEF IInv, Unique
<1>6. DownOK'
  BY <1>1, <1>2, Zenon DEF DownOK
<1>7. \A i \in Job : i # j => Frame(i)
  BY <1>2, SameQueue, Zenon DEF Frame, cancels
<1>8. JobOK(j)'
  BY <1>1, <1>2, Zenon
     DEF JobOK, Fresh, CancelOK, Tracked, WorkerOK, Running, FlagOK, Early,
         Unsettled, Accepted, Open, Done, Verdict, Same, Terminal, Active, Status,
         cancels
<1>9. RowLasts(j) /\ ViewLasts(j)
  BY <1>1, <1>2, Zenon
     DEF RowLasts, ViewLasts, View, JobOK, Fresh, WorkerOK, FlagOK, Running,
         Unsettled, Verdict, Same, Early, Open, Done, Terminal, Active
<1> QED BY <1>3, <1>4, <1>5, <1>6, <1>7, <1>8, <1>9, OneJob, Zenon

\* "running" does not replace a cancellation that is in the row already, and one
\* that is in memory has set the flag.
LEMMA AnnounceStep == ASSUME IInv, NEW j \in Job, Announce(j) PROVE Good
<1>1. up /\ TypeOK /\ JobOK(j) /\ QueueOK
  BY Zenon DEF IInv, DownOK, Announce
<1>m. mem[j] \in {"running", "cancelled"} /\ (mem[j] = "cancelled" => j \in flag)
  BY <1>1, Zenon DEF Announce, JobOK, WorkerOK, FlagOK, Running
<1>w. \E s \in {"running", "cancelled"} :
        Wrote(j, s) /\ (s = "cancelled" => j \in flag) /\ events' \in 0..MaxEvents
  BY <1>1, <1>m, WriteWrites, Zenon DEF Announce, TypeOK, Status, Active, Terminal
<1>s. PICK s \in {"running", "cancelled"} :
        Wrote(j, s) /\ (s = "cancelled" => j \in flag) /\ events' \in 0..MaxEvents
  BY <1>w, Zenon
<1>2. /\ exec[j] = "announce" /\ exec'[j] = "recheck"
      /\ \A i \in Job : i # j => exec'[i] = exec[i]
      /\ UNCHANGED <<up, mem, flag, tracked, queue, free, snap, keep, func,
                     cancels, ssnap, lost>>
      /\ Queued(j)' = Queued(j)
  BY <1>1, SameQueue, Zenon DEF Announce, TypeOK, memory, Goto
<1>3. TypeOK'
  BY <1>1, <1>2, <1>s
     DEF Announce, TypeOK, Goto, memory, cancels, Wrote, Status, Active, Terminal
<1>4. PoolOK' /\ QueueOK'
  BY <1>1, <1>2, PoolKept, SameQueue DEF TypeOK
<1>5. Unique'
  BY <1>1, <1>2, <1>s, WriteCalm, CalmUnique, Zenon
     DEF JobOK, Fresh, Status, Active, Terminal
<1>6. DownOK'
  BY <1>1, <1>2, Zenon DEF DownOK
<1>7. \A i \in Job : i # j => Frame(i)
  BY <1>2, <1>s, SameQueue, Zenon DEF Frame, cancels, Wrote
<1>8. JobOK(j)'
  <2>1. Fresh(j)' /\ WorkerOK(j)' /\ CancelOK(j)' /\ Tracked(j)'
    BY <1>1, <1>2, <1>s, Zenon
       DEF JobOK, Fresh, CancelOK, Tracked, WorkerOK, Running, Active, Terminal,
           Status, cancels, Wrote
  <2>2. FlagOK(j)'
    BY <1>1, <1>2, <1>s, Zenon
       DEF JobOK, Fresh, CancelOK, WorkerOK, Running, FlagOK, Early, Active,
           cancels, Wrote
  <2>3. Unsettled(j)' /\ Accepted(j)'
    BY <1>1, <1>2, <1>s, Zenon
       DEF JobOK, WorkerOK, Running, Early, Unsettled, Accepted, Open, Done, Active,
           Terminal, Status, cancels, Wrote
  <2>4. Verdict(j)'
    BY <1>1, <1>2, <1>s, Zenon
       DEF JobOK, Early, Unsettled, Open, Verdict, Same, Done, Active, Terminal,
           Status, cancels, Wrote
  <2> QED BY <2>1, <2>2, <2>3, <2>4, Zenon DEF JobOK
<1>9. RowLasts(j) /\ ViewLasts(j)
  BY <1>1, <1>2, <1>s, Zenon
     DEF RowLasts, ViewLasts, View, JobOK, Fresh, WorkerOK, FlagOK, Running,
         Unsettled, Verdict, Same, Early, Open, Done, Terminal, Active, Wrote
<1> QED BY <1>3, <1>4, <1>5, <1>6, <1>7, <1>8, <1>9, OneJob, Zenon

\* The function is called only while the flag is not set.
LEMMA RecheckStep == ASSUME IInv, NEW j \in Job, Recheck(j) PROVE Good
<1>1. up /\ TypeOK /\ JobOK(j) /\ QueueOK
  BY Zenon DEF IInv, DownOK, Recheck
<1>2. /\ exec[j] = "recheck"
      /\ \/ /\ j \in flag /\ mem'[j] = "cancelled" /\ snap'[j] = "cancelled"
            /\ exec'[j] = "persist" /\ keep'[j] = TRUE /\ UNCHANGED func
         \/ /\ j \notin flag /\ exec'[j] \in {"call", "wait"} /\ func' = func \cup {j}
            /\ UNCHANGED <<mem, snap, keep>>
      /\ \A i \in Job : i # j =>
            /\ mem'[i] = mem[i] /\ snap'[i] = snap[i] /\ exec'[i] = exec[i]
            /\ keep'[i] = keep[i]
      /\ UNCHANGED <<up, row, flag, tracked, queue, free, cancels, ssnap, lost>>
      /\ Queued(j)' = Queued(j)
  BY <1>1, SameQueue DEF Recheck, TypeOK, EndEarly, Settle, Goto
<1>3. TypeOK'
  <2>1. CASE j \in flag
    <3>1. keep' \in [Job -> BOOLEAN]
      BY <1>1, <2>1, Zenon DEF Recheck, TypeOK, EndEarly
    <3>2. /\ mem' = [mem EXCEPT ![j] = "cancelled"] /\ func' = func
          /\ snap' = [snap EXCEPT ![j] = "cancelled"]
          /\ exec' = [exec EXCEPT ![j] = "persist"]
          /\ UNCHANGED <<up, stopping, row, flag, tracked, queue, free, cancels,
                         ssnap, lost, events>>
      BY <2>1, Zenon DEF Recheck, EndEarly, Settle, Goto
    <3> QED BY <1>1, <3>1, <3>2 DEF TypeOK, cancels, Status, Terminal
  <2>2. CASE j \notin flag
    BY <1>1, <2>2 DEF Recheck, TypeOK, Goto, cancels
  <2> QED BY <2>1, <2>2
<1>4. PoolOK' /\ QueueOK'
  BY <1>1, <1>2, PoolKept, SameQueue DEF TypeOK
<1>5. Unique'
  BY <1>2, Zenon DEF IInv, Unique
<1>6. DownOK'
  BY <1>1, <1>2, Zenon DEF DownOK
<1>7. \A i \in Job : i # j => Frame(i)
  BY <1>2, SameQueue DEF Frame, cancels
<1>8. JobOK(j)'
  BY <1>1, <1>2, Zenon
     DEF JobOK, Fresh, CancelOK, Tracked, WorkerOK, Running, FlagOK, Early,
         Unsettled, Accepted, Open, Done, Verdict, Same, Terminal, Status, cancels
<1>9. RowLasts(j) /\ ViewLasts(j)
  BY <1>1, <1>2, Zenon
     DEF RowLasts, ViewLasts, View, JobOK, Fresh, WorkerOK, FlagOK, Running,
         Unsettled, Verdict, Same, Early, Open, Done, Terminal, Active
<1> QED BY <1>3, <1>4, <1>5, <1>6, <1>7, <1>8, <1>9, OneJob, Zenon

\* The row is open, and a cancellation found in it sets the flag.
LEMMA TickStep == ASSUME IInv, NEW j \in Job, Tick(j) PROVE Good
<1>1. up /\ TypeOK /\ JobOK(j) /\ QueueOK
  BY Zenon DEF IInv, DownOK, Tick
<1>2. /\ exec[j] \in {"call", "wait"} /\ mem[j] \in {"running", "cancelled"}
      /\ Wrote(j, mem[j])
      /\ flag' = IF row'[j] = "cancelled" THEN flag \cup {j} ELSE flag
      /\ UNCHANGED <<up, mem, exec, tracked, queue, free, snap, keep, func,
                     cancels, ssnap, lost>>
      /\ Queued(j)' = Queued(j)
  <2>1. exec[j] \in {"call", "wait"} /\ mem[j] \in {"running", "cancelled"}
    BY <1>1 DEF Tick, JobOK, WorkerOK, Running
  <2>2. Wrote(j, mem[j])
    <3>1. CASE row' = row
      BY <1>1, <3>1 DEF TypeOK, Wrote
    <3>2. CASE row' = [row EXCEPT ![j] = UpdateJob(@, mem[j])]
      BY <1>1, <2>1, <3>2 DEF TypeOK, Wrote, UpdateJob, Status, Active, Terminal
    <3> QED BY <3>1, <3>2, Zenon DEF Tick
  <2> QED BY <2>1, <2>2, SameQueue, Zenon DEF Tick, worker
<1>3. TypeOK'
  BY <1>1, <1>2 DEF Tick, TypeOK, cancels, Wrote
<1>4. PoolOK' /\ QueueOK'
  BY <1>1, <1>2, PoolKept, SameQueue DEF TypeOK
<1>5. Unique'
  BY <1>1, <1>2, WriteCalm, CalmUnique, Zenon
     DEF JobOK, Fresh, Status, Active, Terminal
<1>6. DownOK'
  BY <1>1, <1>2, Zenon DEF DownOK
<1>7. \A i \in Job : i # j => Frame(i)
  BY <1>2, SameQueue, Zenon DEF Frame, cancels, Wrote
<1>8. JobOK(j)'
  <2>1. Fresh(j)' /\ WorkerOK(j)' /\ CancelOK(j)' /\ Tracked(j)'
    BY <1>1, <1>2, Zenon
       DEF JobOK, Fresh, CancelOK, Tracked, WorkerOK, Running, Active, Terminal,
           Status, cancels, Wrote
  <2>2. FlagOK(j)'
    BY <1>1, <1>2, Zenon
       DEF JobOK, Fresh, CancelOK, WorkerOK, Running, FlagOK, Early, Active,
           cancels, Wrote
  <2>3. Unsettled(j)' /\ Accepted(j)'
    BY <1>1, <1>2, Zenon
       DEF JobOK, Fresh, WorkerOK, Running, Early, Unsettled, Accepted, Active,
           cancels, Wrote
  <2>4. Verdict(j)'
    BY <1>1, <1>2, Zenon
       DEF JobOK, WorkerOK, Running, FlagOK, Verdict, Same, Done, Active, Status,
           cancels, Wrote
  <2> QED BY <2>1, <2>2, <2>3, <2>4, Zenon DEF JobOK
<1>9. RowLasts(j) /\ ViewLasts(j)
  BY <1>1, <1>2, Zenon
     DEF RowLasts, ViewLasts, View, JobOK, Fresh, WorkerOK, FlagOK, Running,
         Unsettled, Verdict, Same, Early, Open, Done, Terminal, Active, Wrote
<1> QED BY <1>3, <1>4, <1>5, <1>6, <1>7, <1>8, <1>9, OneJob, Zenon

\* The outcome is decided here.  Without the flag no snapshot of a cancellation is
\* under way, and a cancelled row is the work of another node.
LEMMA ReturnStep ==
    ASSUME IInv, NEW j \in Job, NEW s \in {"completed", "completed_partial", "failed"},
           Return(j, s)
    PROVE Good
<1>1. up /\ TypeOK /\ JobOK(j) /\ QueueOK
  BY Zenon DEF IInv, DownOK, Return
<1>2. /\ exec[j] \in {"call", "wait"} /\ exec'[j] = "persist" /\ func' = func \ {j}
      /\ mem'[j] = (IF j \in flag THEN "cancelled" ELSE s) /\ snap'[j] = mem'[j]
      /\ \A i \in Job : i # j =>
            /\ mem'[i] = mem[i] /\ snap'[i] = snap[i] /\ exec'[i] = exec[i]
      /\ UNCHANGED <<up, row, flag, tracked, queue, free, keep, cancels, ssnap,
                     lost>>
      /\ Queued(j)' = Queued(j)
  BY <1>1, SameQueue DEF Return, TypeOK, Outcome, Settle, Goto
<1>3. TypeOK'
  BY <1>1, Zenon
     DEF Return, TypeOK, Outcome, Settle, Goto, cancels, Status, Terminal
<1>4. PoolOK' /\ QueueOK'
  BY <1>1, <1>2, PoolKept, SameQueue DEF TypeOK
<1>5. Unique'
  BY <1>2, Zenon DEF IInv, Unique
<1>6. DownOK'
  BY <1>1, <1>2, Zenon DEF DownOK
<1>7. \A i \in Job : i # j => Frame(i)
  BY <1>2, SameQueue, Zenon DEF Frame, cancels
<1>8. JobOK(j)'
  BY <1>1, <1>2
     DEF JobOK, Fresh, CancelOK, Tracked, WorkerOK, Running, FlagOK, Early,
         Unsettled, Accepted, Open, Done, Verdict, Same, Terminal, Active, cancels
<1>9. RowLasts(j) /\ ViewLasts(j)
  BY <1>1, <1>2, Zenon
     DEF RowLasts, ViewLasts, View, JobOK, Fresh, WorkerOK, FlagOK, Running,
         Unsettled, Verdict, Same, Early, Open, Done, Terminal, Active
<1> QED BY <1>3, <1>4, <1>5, <1>6, <1>7, <1>8, <1>9, OneJob, Zenon

\* A cancellation ends the waiting; the function is still in func.
LEMMA AbandonStep == ASSUME IInv, NEW j \in Job, Abandon(j) PROVE Good
<1>1. up /\ TypeOK /\ JobOK(j) /\ QueueOK
  BY Zenon DEF IInv, DownOK, Abandon
<1>2. /\ exec[j] = "wait" /\ exec'[j] = "persist" /\ j \in flag
      /\ mem'[j] = "cancelled" /\ snap'[j] = "cancelled"
      /\ \A i \in Job : i # j =>
            /\ mem'[i] = mem[i] /\ snap'[i] = snap[i] /\ exec'[i] = exec[i]
      /\ UNCHANGED <<up, row, flag, tracked, queue, free, keep, func, cancels,
                     ssnap, lost>>
      /\ Queued(j)' = Queued(j)
  BY <1>1, SameQueue DEF Abandon, TypeOK, Settle, Goto
<1>3. TypeOK'
  BY <1>1, Zenon DEF Abandon, TypeOK, Settle, Goto, cancels, Status, Terminal
<1>4. PoolOK' /\ QueueOK'
  BY <1>1, <1>2, PoolKept, SameQueue DEF TypeOK
<1>5. Unique'
  BY <1>2, Zenon DEF IInv, Unique
<1>6. DownOK'
  BY <1>1, <1>2, Zenon DEF DownOK
<1>7. \A i \in Job : i # j => Frame(i)
  BY <1>2, SameQueue, Zenon DEF Frame, cancels
<1>8. JobOK(j)'
  BY <1>1, <1>2, Zenon
     DEF JobOK, Fresh, CancelOK, Tracked, WorkerOK, FlagOK, Early, Unsettled,
         Accepted, Open, Done, Verdict, Same, Terminal, Active, Status, cancels
<1>9. RowLasts(j) /\ ViewLasts(j)
  BY <1>1, <1>2, Zenon
     DEF RowLasts, ViewLasts, View, JobOK, Fresh, WorkerOK, FlagOK, Running,
         Unsettled, Verdict, Same, Early, Open, Done, Terminal, Active
<1> QED BY <1>3, <1>4, <1>5, <1>6, <1>7, <1>8, <1>9, OneJob, Zenon

\* An abandoned function ends.
LEMMA FunctionEndsStep == ASSUME IInv, NEW j \in Job, FunctionEnds(j) PROVE Good
<1>1. up /\ TypeOK /\ JobOK(j) /\ QueueOK
  BY Zenon DEF IInv, DownOK, FunctionEnds
<1>2. /\ func' = func \ {j}
      /\ UNCHANGED <<up, row, mem, flag, exec, snap, tracked, queue, free, keep,
                     cancels, ssnap, lost>>
      /\ Queued(j)' = Queued(j)
  BY <1>1, SameQueue, Zenon DEF FunctionEnds, memory, worker
<1>3. TypeOK'
  BY <1>1, Zenon DEF FunctionEnds, TypeOK, memory, worker, cancels
<1>4. PoolOK' /\ QueueOK'
  BY <1>1, <1>2, PoolKept, SameQueue DEF TypeOK
<1>5. Unique'
  BY <1>2, Zenon DEF IInv, Unique
<1>6. DownOK'
  BY <1>1, <1>2, Zenon DEF DownOK
<1>7. \A i \in Job : i # j => Frame(i)
  BY <1>2, SameQueue, Zenon DEF Frame, cancels
<1>8. JobOK(j)'
  BY <1>1, <1>2
     DEF JobOK, Fresh, CancelOK, Tracked, WorkerOK, Running, FlagOK, Unsettled,
         Accepted, Open, Verdict, Active, Status, cancels
<1>9. RowLasts(j) /\ ViewLasts(j)
  BY <1>2, Zenon
     DEF RowLasts, ViewLasts, View, Running, Unsettled, Verdict, Same, Open, Done
<1> QED BY <1>3, <1>4, <1>5, <1>6, <1>7, <1>8, <1>9, OneJob, Zenon

\* What is written agrees with what the row says, or overrides another node.
LEMMA PersistStep == ASSUME IInv, NEW j \in Job, Persist(j) PROVE Good
<1>1. up /\ TypeOK /\ JobOK(j) /\ QueueOK
  BY Zenon DEF IInv, DownOK, Persist
<1>2. /\ exec[j] = "persist" /\ exec'[j] = "notify"
      /\ Wrote(j, snap[j]) /\ events' \in 0..MaxEvents
      /\ row'[j] \in Terminal \/ keep'[j] = TRUE
      /\ \A i \in Job : i # j => exec'[i] = exec[i] /\ keep'[i] = keep[i]
      /\ UNCHANGED <<up, mem, flag, tracked, queue, free, snap, func, cancels,
                     ssnap, lost>>
      /\ Queued(j)' = Queued(j)
  <2>1. snap[j] \in Terminal
    BY <1>1, Zenon DEF Persist, JobOK, WorkerOK
  <2>2. WriteRow(j, snap[j]) => row'[j] \in Terminal
    BY <1>1, <2>1 DEF WriteRow, UpdateJob, TypeOK
  <2>3. Wrote(j, snap[j]) /\ events' \in 0..MaxEvents
    BY <1>1, <2>1, WriteWrites, Zenon DEF Persist, Status
  <2> QED BY <1>1, <2>2, <2>3, SameQueue DEF Persist, TypeOK, memory, Goto
<1>3. TypeOK'
  <2>1. keep' \in [Job -> BOOLEAN]
    BY <1>1, Zenon DEF Persist, TypeOK
  <2> QED BY <1>1, <1>2, <2>1 DEF Persist, TypeOK, Goto, cancels, Wrote
<1>4. PoolOK' /\ QueueOK'
  BY <1>1, <1>2, PoolKept, SameQueue DEF TypeOK
<1>5. Unique'
  BY <1>1, <1>2, WriteCalm, CalmUnique, Zenon DEF JobOK, Fresh, WorkerOK, Status
<1>6. DownOK'
  BY <1>1, <1>2, Zenon DEF DownOK
<1>7. \A i \in Job : i # j => Frame(i)
  BY <1>2, SameQueue, Zenon DEF Frame, cancels, Wrote
<1>8. JobOK(j)'
  <2>1. Fresh(j)' /\ WorkerOK(j)' /\ CancelOK(j)' /\ Tracked(j)'
    BY <1>1, <1>2, Zenon
       DEF JobOK, Fresh, CancelOK, Tracked, WorkerOK, Running, Terminal, Status,
           cancels, Wrote
  <2>2. FlagOK(j)'
    BY <1>1, <1>2, Zenon
       DEF JobOK, Fresh, CancelOK, WorkerOK, Running, FlagOK, Early, Active,
           cancels, Wrote
  <2>3. Unsettled(j)' /\ Accepted(j)'
    BY <1>1, <1>2, Zenon
       DEF JobOK, WorkerOK, Running, Early, Unsettled, Accepted, Done, cancels,
           Wrote
  <2>4. Verdict(j)'
    BY <1>1, <1>2, Zenon
       DEF JobOK, WorkerOK, Running, Early, Open, Verdict, Same, Active, cancels,
           Wrote
  <2> QED BY <2>1, <2>2, <2>3, <2>4, Zenon DEF JobOK
<1>9. RowLasts(j) /\ ViewLasts(j)
  BY <1>1, <1>2, Zenon
     DEF RowLasts, ViewLasts, View, JobOK, WorkerOK, Running, Verdict, Same, Open,
         Done, Active, Wrote
<1> QED BY <1>3, <1>4, <1>5, <1>6, <1>7, <1>8, <1>9, OneJob, Zenon

\* The tracker writes the same outcome, up to a partial completion; a job that is
\* evicted has a terminal row.
LEMMA NotifyStep == ASSUME IInv, NEW j \in Job, Notify(j) PROVE Good
<1>1. up /\ TypeOK /\ JobOK(j) /\ QueueOK
  BY Zenon DEF IInv, DownOK, Notify
<1>2. /\ exec[j] = "notify" /\ exec'[j] = "no" /\ snap'[j] = "none"
      /\ tracked' = tracked \ {j}
      /\ Wrote(j, TrackerStatus(snap[j])) /\ events' \in 0..MaxEvents
      /\ \/ keep[j] = TRUE /\ UNCHANGED <<mem, flag>>
         \/ keep[j] = FALSE /\ mem'[j] = "none" /\ flag' = flag \ {j}
      /\ \A i \in Job : i # j =>
            /\ mem'[i] = mem[i] /\ exec'[i] = exec[i] /\ snap'[i] = snap[i]
            /\ keep'[i] = keep[i]
      /\ free' \in Nat /\ free' <= free + 1
      /\ UNCHANGED <<up, queue, func, cancels, ssnap, lost>>
      /\ Queued(j)' = Queued(j)
  <2>1. snap[j] \in Terminal /\ TrackerStatus(snap[j]) \in Terminal
    BY <1>1, Zenon DEF Notify, JobOK, WorkerOK, TrackerStatus, Terminal
  <2>2. Wrote(j, TrackerStatus(snap[j])) /\ events' \in 0..MaxEvents
    BY <1>1, <2>1, WriteWrites, Zenon DEF Notify, Status
  <2>3. free' \in Nat /\ free' <= free + 1
    BY <1>1 DEF Notify, Release, TypeOK
  <2> QED BY <1>1, <2>2, <2>3, SameQueue
             DEF Notify, TypeOK, memory, Goto, Forget, SetMem, Untrack
<1>3. PoolOK' /\ free' \in 0..Workers
  <2>1. j \in Busy /\ Busy' = Busy \ {j}
    BY <1>2, Zenon DEF Busy
  <2>2. PoolOK'
    BY <1>2, <2>1, PoolReleased, Zenon
  <2> QED BY <1>2, <2>2, PoolBound, Zenon
<1>4. TypeOK'
  BY <1>3, <1>1, <1>2
     DEF Notify, TypeOK, Goto, Forget, SetMem, memory, cancels, Wrote
<1>5. PoolOK' /\ QueueOK'
  BY <1>3, <1>1, <1>2, SameQueue, Zenon
<1>6. Unique'
  BY <1>1, <1>2, WriteCalm, CalmUnique, Zenon
     DEF JobOK, Fresh, WorkerOK, Status, Terminal, TrackerStatus
<1>7. DownOK'
  BY <1>1, <1>2, Zenon DEF DownOK
<1>8. \A i \in Job : i # j => Frame(i)
  BY <1>2, SameQueue, Zenon DEF Frame, cancels, Wrote
<1>9. JobOK(j)'
  <2>1. Fresh(j)' /\ WorkerOK(j)' /\ CancelOK(j)' /\ Tracked(j)'
    BY <1>1, <1>2, Zenon
       DEF JobOK, Fresh, CancelOK, Tracked, WorkerOK, Running, Active, Terminal,
           Status, cancels, Wrote, TrackerStatus
  <2>2. FlagOK(j)'
    BY <1>1, <1>2, Zenon
       DEF JobOK, Fresh, CancelOK, WorkerOK, Running, FlagOK, Early, Active,
           cancels, Wrote, TrackerStatus
  <2>3. Unsettled(j)'
    BY <1>1, <1>2, Zenon
       DEF JobOK, Fresh, WorkerOK, Running, Early, Unsettled, Open, Active,
           Terminal, Status, cancels, Wrote, TrackerStatus
  <2>4. Accepted(j)'
    BY <1>1, <1>2, Zenon
       DEF JobOK, WorkerOK, Running, Early, Accepted, Done, Active, Terminal,
           Status, cancels, Wrote, TrackerStatus
  <2>5. Verdict(j)'
    BY <1>1, <1>2, Zenon
       DEF JobOK, WorkerOK, Running, Early, Verdict, Same, Done, Active, Terminal,
           Status, cancels, Wrote, TrackerStatus
  <2> QED BY <2>1, <2>2, <2>3, <2>4, <2>5, Zenon DEF JobOK
<1>10. RowLasts(j)
  BY <1>1, <1>2, Zenon
     DEF RowLasts, JobOK, WorkerOK, Verdict, Same, Done, Active, Terminal, Wrote,
         TrackerStatus
<1>11. ViewLasts(j)
  BY <1>1, <1>2, Zenon
     DEF ViewLasts, View, JobOK, WorkerOK, Done, Active, Terminal, Wrote,
         TrackerStatus
<1> QED BY <1>4, <1>5, <1>6, <1>7, <1>8, <1>9, <1>10, <1>11, OneJob, Zenon

\* The flag decides the outcome from here on.
LEMMA CancelStep == ASSUME IInv, NEW j \in Job, Cancel(j) PROVE Good
<1>1. up /\ TypeOK /\ JobOK(j) /\ QueueOK
  BY Zenon DEF IInv, DownOK, Cancel
<1>2. /\ mem[j] \in Active /\ flag' = flag \cup {j} /\ accepted' = accepted \cup {j}
      /\ mem'[j] = (IF mem[j] = "pending" THEN "cancelled" ELSE mem[j])
      /\ cancel[j] = "no" /\ cancel'[j] = "snapshot" /\ events' \in 0..MaxEvents
      /\ \A i \in Job : i # j => mem'[i] = mem[i] /\ cancel'[i] = cancel[i]
      /\ UNCHANGED <<up, row, tracked, queue, free, exec, snap, keep, func, csnap,
                     remote, ssnap, lost>>
      /\ Queued(j)' = Queued(j)
  BY <1>1, SameQueue, EventsAssumption DEF Cancel, TypeOK, Event, worker
<1>3. TypeOK'
  BY <1>1, <1>2 DEF Cancel, TypeOK, Status, Terminal
<1>4. PoolOK' /\ QueueOK'
  BY <1>1, <1>2, PoolKept, SameQueue DEF TypeOK
<1>5. Unique'
  BY <1>2, Zenon DEF IInv, Unique
<1>6. DownOK'
  BY <1>1, <1>2, Zenon DEF DownOK
<1>7. \A i \in Job : i # j => Frame(i)
  BY <1>2, SameQueue, Zenon DEF Frame
<1>8. JobOK(j)'
  BY <1>1, <1>2, Zenon
     DEF JobOK, Fresh, CancelOK, Tracked, WorkerOK, Running, FlagOK, Early,
         Unsettled, Accepted, Open, Done, Verdict, Same, Terminal, Active, Status,
         cancels
<1>9. RowLasts(j) /\ ViewLasts(j)
  BY <1>1, <1>2, Zenon
     DEF RowLasts, ViewLasts, View, JobOK, Fresh, WorkerOK, FlagOK, Running,
         Unsettled, Verdict, Same, Early, Open, Done, Terminal, Active
<1> QED BY <1>3, <1>4, <1>5, <1>6, <1>7, <1>8, <1>9, OneJob, Zenon

\* The snapshot is what memory says, possibly the outcome already.
LEMMA CancelSnapshotStep == ASSUME IInv, NEW j \in Job, CancelSnapshot(j) PROVE Good
<1>1. up /\ TypeOK /\ JobOK(j) /\ QueueOK
  BY Zenon DEF IInv, DownOK, CancelSnapshot
<1>2. /\ cancel[j] = "snapshot" /\ csnap'[j] = mem[j]
      /\ cancel'[j] = (IF mem[j] = "none" THEN "no" ELSE "write")
      /\ \A i \in Job : i # j => csnap'[i] = csnap[i] /\ cancel'[i] = cancel[i]
      /\ UNCHANGED <<up, row, mem, flag, tracked, queue, free, exec, snap, keep,
                     func, remote, accepted, ssnap, lost>>
      /\ Queued(j)' = Queued(j)
  BY <1>1, SameQueue DEF CancelSnapshot, TypeOK, worker, memory
<1>3. TypeOK'
  BY <1>1, Zenon DEF CancelSnapshot, TypeOK, worker, memory, Status
<1>4. PoolOK' /\ QueueOK'
  BY <1>1, <1>2, PoolKept, SameQueue DEF TypeOK
<1>5. Unique'
  BY <1>2, Zenon DEF IInv, Unique
<1>6. DownOK'
  BY <1>1, <1>2, Zenon DEF DownOK
<1>7. \A i \in Job : i # j => Frame(i)
  BY <1>2, SameQueue, Zenon DEF Frame
<1>8. JobOK(j)'
  <2>1. Fresh(j)' /\ WorkerOK(j)' /\ Tracked(j)'
    BY <1>1, <1>2, Zenon DEF JobOK, Fresh, Tracked, WorkerOK, Running
  <2>2. CancelOK(j)'
    BY <1>1, <1>2, Zenon DEF CancelOK
  <2>3. FlagOK(j)'
    BY <1>1, <1>2, Zenon DEF JobOK, FlagOK
  <2>4. Unsettled(j)'
    BY <1>1, <1>2, Zenon DEF JobOK, Unsettled
  <2>5. Accepted(j)'
    BY <1>1, <1>2, Zenon DEF JobOK, Accepted
  <2>6. Verdict(j)'
    BY <1>1, <1>2, Zenon DEF JobOK, Verdict, Same
  <2> QED BY <2>1, <2>2, <2>3, <2>4, <2>5, <2>6, Zenon DEF JobOK
<1>9. RowLasts(j) /\ ViewLasts(j)
  BY <1>2, Zenon
     DEF RowLasts, ViewLasts, View, Fresh, Running, Unsettled, Verdict, Same, Early,
         Open, Done
<1> QED BY <1>3, <1>4, <1>5, <1>6, <1>7, <1>8, <1>9, OneJob, Zenon

\* A late snapshot agrees with the outcome.
LEMMA CancelWriteStep == ASSUME IInv, NEW j \in Job, CancelWrite(j) PROVE Good
<1>1. up /\ TypeOK /\ JobOK(j) /\ QueueOK
  BY Zenon DEF IInv, DownOK, CancelWrite
<1>2. /\ cancel[j] = "write" /\ cancel'[j] = "no" /\ csnap'[j] = "none"
      /\ Wrote(j, csnap[j]) /\ csnap[j] \in Status /\ events' \in 0..MaxEvents
      /\ \A i \in Job : i # j => csnap'[i] = csnap[i] /\ cancel'[i] = cancel[i]
      /\ UNCHANGED <<up, mem, flag, tracked, queue, free, exec, snap, keep, func,
                     remote, accepted, ssnap, lost>>
      /\ Queued(j)' = Queued(j)
  <2>1. csnap[j] \in Status
    BY <1>1, Zenon DEF CancelWrite, JobOK, CancelOK, TypeOK
  <2>2. Wrote(j, csnap[j]) /\ events' \in 0..MaxEvents
    BY <1>1, <2>1, WriteWrites, Zenon DEF CancelWrite
  <2> QED BY <1>1, <2>1, <2>2, SameQueue DEF CancelWrite, TypeOK, worker, memory
<1>3. TypeOK'
  BY <1>1, <1>2 DEF CancelWrite, TypeOK, Wrote
<1>4. PoolOK' /\ QueueOK'
  BY <1>1, <1>2, PoolKept, SameQueue DEF TypeOK
<1>5. Unique'
  BY <1>1, <1>2, WriteCalm, CalmUnique, Zenon DEF JobOK, Fresh
<1>6. DownOK'
  BY <1>1, <1>2, Zenon DEF DownOK
<1>7. \A i \in Job : i # j => Frame(i)
  BY <1>2, SameQueue, Zenon DEF Frame, Wrote
<1>8. JobOK(j)'
  <2>1. Fresh(j)' /\ WorkerOK(j)' /\ CancelOK(j)' /\ Tracked(j)'
    BY <1>1, <1>2, Zenon
       DEF JobOK, Fresh, CancelOK, Tracked, WorkerOK, Active, Status, cancels, Wrote
  <2>2. FlagOK(j)'
    BY <1>1, <1>2, Zenon
       DEF JobOK, Fresh, WorkerOK, Running, FlagOK, Early, cancels, Wrote
  <2>3. Unsettled(j)' /\ Accepted(j)'
    BY <1>1, <1>2, Zenon
       DEF JobOK, Fresh, Running, Unsettled, Accepted, Open, Done, Active, Terminal,
           cancels, Wrote
  <2>4. Verdict(j)'
    BY <1>1, <1>2, Zenon
       DEF JobOK, Running, Early, Verdict, Same, Active, Terminal, Status, cancels,
           Wrote
  <2> QED BY <2>1, <2>2, <2>3, <2>4, Zenon DEF JobOK
<1>9. RowLasts(j) /\ ViewLasts(j)
  BY <1>1, <1>2, Zenon
     DEF RowLasts, ViewLasts, View, JobOK, Running, Verdict, Same, Open, Done,
         Active, Wrote
<1> QED BY <1>3, <1>4, <1>5, <1>6, <1>7, <1>8, <1>9, OneJob, Zenon

\* Another node reads an active row.
LEMMA RemoteCancelStep == ASSUME IInv, NEW j \in Job, RemoteCancel(j) PROVE Good
<1>1. TypeOK /\ JobOK(j) /\ QueueOK
  BY DEF IInv
<1>2. /\ row[j] \in Active /\ remote'[j] = "write" /\ events' \in 0..MaxEvents
      /\ \A i \in Job : i # j => remote'[i] = remote[i]
      /\ UNCHANGED <<up, row, mem, flag, tracked, queue, free, exec, snap, keep,
                     func, cancel, csnap, accepted, ssnap, lost>>
      /\ Queued(j)' = Queued(j)
  BY <1>1, SameQueue, EventsAssumption
     DEF RemoteCancel, TypeOK, Event, worker, memory
<1>3. TypeOK'
  BY <1>1, <1>2 DEF RemoteCancel, TypeOK, memory
<1>4. PoolOK' /\ QueueOK'
  BY <1>1, <1>2, PoolKept, SameQueue DEF TypeOK
<1>5. Unique'
  BY <1>2, Zenon DEF IInv, Unique
<1>6. DownOK'
  BY <1>2, Zenon DEF IInv, DownOK
<1>7. \A i \in Job : i # j => Frame(i)
  BY <1>2, SameQueue, Zenon DEF Frame
<1>8. JobOK(j)'
  <2>1. Fresh(j)' /\ WorkerOK(j)' /\ CancelOK(j)' /\ Tracked(j)'
    BY <1>1, <1>2, Zenon
       DEF JobOK, Fresh, CancelOK, Tracked, WorkerOK, Running, Active, Terminal,
           Status, cancels
  <2>2. FlagOK(j)'
    BY <1>1, <1>2, Zenon
       DEF JobOK, Fresh, CancelOK, WorkerOK, Running, FlagOK, Early, Active, cancels
  <2>3. Unsettled(j)' /\ Accepted(j)'
    BY <1>1, <1>2, Zenon
       DEF JobOK, Fresh, Running, Early, Unsettled, Accepted, Active, Terminal,
           Status
  <2>4. Verdict(j)'
    BY <1>1, <1>2, Zenon
       DEF JobOK, WorkerOK, Running, Early, Unsettled, Verdict, Done, Active
  <2> QED BY <2>1, <2>2, <2>3, <2>4, Zenon DEF JobOK
<1>9. RowLasts(j) /\ ViewLasts(j)
  BY <1>1, <1>2, Zenon
     DEF RowLasts, ViewLasts, View, JobOK, Fresh, WorkerOK, FlagOK, Running,
         Unsettled, Verdict, Same, Early, Open, Done, Terminal, Active
<1> QED BY <1>3, <1>4, <1>5, <1>6, <1>7, <1>8, <1>9, OneJob, Zenon

\* It writes the row whatever it has become meanwhile.
LEMMA RemoteWriteStep == ASSUME IInv, NEW j \in Job, RemoteWrite(j) PROVE Good
<1>1. TypeOK /\ JobOK(j) /\ QueueOK
  BY DEF IInv
<1>2. /\ row'[j] = "cancelled" /\ remote[j] = "write" /\ remote'[j] = "done"
      /\ \A i \in Job : i # j => row'[i] = row[i] /\ remote'[i] = remote[i]
      /\ UNCHANGED <<up, mem, flag, tracked, queue, free, exec, snap, keep, func,
                     cancel, csnap, accepted, ssnap, lost>>
      /\ Queued(j)' = Queued(j)
  BY <1>1, SameQueue DEF RemoteWrite, TypeOK, worker, memory
<1>3. TypeOK'
  BY <1>1, Zenon DEF RemoteWrite, TypeOK, worker, memory, Status, Terminal
<1>4. PoolOK' /\ QueueOK'
  BY <1>1, <1>2, PoolKept, SameQueue DEF TypeOK
<1>5. Unique'
  BY <1>1, <1>2, CalmUnique, Zenon DEF Calm, Active
<1>6. DownOK'
  BY <1>2, Zenon DEF IInv, DownOK
<1>7. \A i \in Job : i # j => Frame(i)
  BY <1>2, SameQueue, Zenon DEF Frame
<1>8. JobOK(j)'
  <2>1. Fresh(j)' /\ WorkerOK(j)' /\ CancelOK(j)' /\ Tracked(j)'
    BY <1>1, <1>2, Zenon
       DEF JobOK, Fresh, CancelOK, Tracked, WorkerOK, Active, Terminal, cancels
  <2>2. FlagOK(j)'
    BY <1>1, <1>2, Zenon
       DEF JobOK, Fresh, CancelOK, WorkerOK, Running, FlagOK, Early, Active, cancels
  <2>3. Unsettled(j)' /\ Accepted(j)'
    BY <1>1, <1>2, Zenon
       DEF JobOK, Early, Unsettled, Accepted, Open, Done, Active, Terminal, Status,
           cancels
  <2>4. Verdict(j)'
    BY <1>1, <1>2, Zenon DEF JobOK, Running, Unsettled, Verdict, cancels
  <2> QED BY <2>1, <2>2, <2>3, <2>4, Zenon DEF JobOK
<1>9. RowLasts(j) /\ ViewLasts(j)
  BY <1>2, Zenon
     DEF RowLasts, ViewLasts, View, WorkerOK, FlagOK, Running, Unsettled, Verdict,
         Same, Early, Open, Done, Terminal, Active
<1> QED BY <1>3, <1>4, <1>5, <1>6, <1>7, <1>8, <1>9, OneJob, Zenon

\* A finished job leaves memory, with or without a terminal row.
LEMMA CleanupStep == ASSUME IInv, NEW j \in Job, Cleanup(j) PROVE Good
<1>1. up /\ TypeOK /\ JobOK(j) /\ QueueOK
  BY Zenon DEF IInv, DownOK, Cleanup
<1>2. /\ exec[j] = "no" /\ mem[j] \in Terminal /\ cancel[j] = "no" /\ ssnap[j] = "none"
      /\ mem'[j] = "none" /\ flag' = flag \ {j}
      /\ \A i \in Job : i # j => mem'[i] = mem[i]
      /\ UNCHANGED <<up, row, tracked, queue, free, exec, snap, keep, func,
                     cancels, ssnap, lost>>
      /\ Queued(j)' = Queued(j)
  BY <1>1, SameQueue DEF Cleanup, TypeOK, Forget, SetMem, worker
<1>3. TypeOK'
  BY <1>1, Zenon DEF Cleanup, TypeOK, Forget, SetMem, worker, cancels
<1>4. PoolOK' /\ QueueOK'
  BY <1>1, <1>2, PoolKept, SameQueue DEF TypeOK
<1>5. Unique'
  BY <1>2, Zenon DEF IInv, Unique
<1>6. DownOK'
  BY <1>1, <1>2, Zenon DEF DownOK
<1>7. \A i \in Job : i # j => Frame(i)
  BY <1>2, SameQueue, Zenon DEF Frame, cancels
<1>8. JobOK(j)'
  BY <1>1, <1>2, Zenon
     DEF JobOK, Fresh, CancelOK, Tracked, WorkerOK, Running, FlagOK, Early,
         Unsettled, Accepted, Open, Verdict, Same, Terminal, Active, Status, cancels
<1>9. RowLasts(j) /\ ViewLasts(j)
  BY <1>1, <1>2, Zenon
     DEF RowLasts, ViewLasts, View, JobOK, Fresh, WorkerOK, Unsettled, Same, Early,
         Open, Terminal, Active, TypeOK, Status
<1> QED BY <1>3, <1>4, <1>5, <1>6, <1>7, <1>8, <1>9, OneJob, Zenon

\* A late snapshot of shutdown agrees with the outcome.
LEMMA StopWriteStep == ASSUME IInv, NEW j \in Job, StopWrite(j) PROVE Good
<1>1. up /\ TypeOK /\ JobOK(j) /\ QueueOK
  BY Zenon DEF IInv, DownOK, StopWrite
<1>2. /\ ssnap'[j] = "none"
      /\ Wrote(j, ssnap[j]) /\ ssnap[j] \in Status /\ events' \in 0..MaxEvents
      /\ \A i \in Job : i # j => ssnap'[i] = ssnap[i]
      /\ UNCHANGED <<up, mem, flag, tracked, queue, free, exec, snap, keep, func,
                     cancels, lost>>
      /\ Queued(j)' = Queued(j)
  <2>1. ssnap[j] \in Status
    BY <1>1, Zenon DEF StopWrite, TypeOK
  <2>2. Wrote(j, ssnap[j]) /\ events' \in 0..MaxEvents
    BY <1>1, <2>1, WriteWrites, Zenon DEF StopWrite
  <2> QED BY <1>1, <2>2, SameQueue DEF StopWrite, TypeOK, worker, memory
<1>3. TypeOK'
  BY <1>1, <1>2 DEF StopWrite, TypeOK, memory, cancels, Wrote
<1>4. PoolOK' /\ QueueOK'
  BY <1>1, <1>2, PoolKept, SameQueue DEF TypeOK
<1>5. Unique'
  BY <1>1, <1>2, WriteCalm, CalmUnique, Zenon
     DEF JobOK, Fresh, Status, Active, Terminal
<1>6. DownOK'
  BY <1>1, <1>2, Zenon DEF DownOK
<1>7. \A i \in Job : i # j => Frame(i)
  BY <1>2, SameQueue, Zenon DEF Frame, cancels, Wrote
<1>8. JobOK(j)'
  <2>1. Fresh(j)' /\ WorkerOK(j)' /\ CancelOK(j)' /\ Tracked(j)'
    BY <1>1, <1>2, Zenon
       DEF JobOK, Fresh, CancelOK, Tracked, WorkerOK, Running, Active, Terminal,
           Status, cancels, Wrote
  <2>2. FlagOK(j)'
    BY <1>1, <1>2, Zenon
       DEF JobOK, Fresh, WorkerOK, Running, FlagOK, Early, Active, cancels, Wrote
  <2>3. Unsettled(j)' /\ Accepted(j)'
    BY <1>1, <1>2, Zenon
       DEF JobOK, Fresh, Running, Early, Unsettled, Accepted, Open, Done, Active,
           cancels, Wrote
  <2>4. Verdict(j)'
    BY <1>1, <1>2, Zenon
       DEF JobOK, Running, Early, Open, Verdict, Same, Active, Terminal, Status,
           cancels, Wrote
  <2> QED BY <2>1, <2>2, <2>3, <2>4, Zenon DEF JobOK
<1>9. RowLasts(j) /\ ViewLasts(j)
  BY <1>1, <1>2, Zenon
     DEF RowLasts, ViewLasts, View, JobOK, Fresh, Running, Unsettled, Verdict, Same,
         Early, Open, Done, Terminal, Active, Wrote
<1> QED BY <1>3, <1>4, <1>5, <1>6, <1>7, <1>8, <1>9, OneJob, Zenon

(* Shutdown, the end of the process and its restart concern all jobs *)

\* Shutdown takes a snapshot of all jobs and cancels the running ones.
LEMMA StopStep == ASSUME IInv, Stop PROVE Good
<1>1. up /\ TypeOK /\ QueueOK
  BY Zenon DEF IInv, Stop
<1>2. /\ UNCHANGED <<up, row, tracked, queue, free, exec, snap, keep, func,
                     cancels, lost>>
      /\ events' \in 0..MaxEvents /\ stopping' = TRUE /\ ssnap' = mem'
  BY <1>1, EventsAssumption DEF Stop, Event, TypeOK, worker
<1>3. ASSUME NEW i \in Job
      PROVE  IF exec[i] # "no" /\ mem[i] = "running"
             THEN i \in flag' /\ mem'[i] = "cancelled"
             ELSE (i \in flag' <=> i \in flag) /\ mem'[i] = mem[i]
  BY Zenon DEF Stop
<1>4. TypeOK'
  <2>1. mem' \in [Job -> Status \cup {"none"}] /\ flag' \subseteq Job
    BY <1>1, Zenon DEF Stop, TypeOK, Status, Terminal
  <2> QED BY <1>1, <1>2, <2>1, Zenon DEF TypeOK, cancels
<1>5. PoolOK' /\ QueueOK' /\ Unique' /\ DownOK'
  BY <1>1, <1>2, PoolKept, SameQueue DEF IInv, Unique, DownOK, TypeOK
<1>6. ASSUME NEW i \in Job PROVE JobOK(i)'
  <2>1. JobOK(i) /\ Queued(i)' = Queued(i) /\ ssnap'[i] = mem'[i]
    BY <1>2, SameQueue, Zenon DEF IInv
  <2>2. Fresh(i)' /\ WorkerOK(i)' /\ CancelOK(i)' /\ Tracked(i)'
    BY <1>2, <1>3, <2>1, Zenon
       DEF JobOK, Fresh, CancelOK, Tracked, WorkerOK, Running, cancels
  <2>3. FlagOK(i)'
    BY <1>2, <1>3, <2>1, Zenon DEF JobOK, Fresh, WorkerOK, FlagOK, cancels
  <2>4. Unsettled(i)' /\ Accepted(i)'
    BY <1>2, <1>3, <2>1, Zenon
       DEF JobOK, FlagOK, Unsettled, Accepted, Open, Done, cancels
  <2>5. Verdict(i)'
    BY <1>2, <1>3, <2>1, Zenon
       DEF JobOK, WorkerOK, Running, Early, Unsettled, Open, Verdict, Same,
           Terminal, cancels
  <2> QED BY <2>2, <2>3, <2>4, <2>5, Zenon DEF JobOK
<1>7. ASSUME NEW i \in Job PROVE RowLasts(i) /\ ViewLasts(i)
  BY <1>2, <1>3, Zenon DEF RowLasts, ViewLasts, View, Terminal
<1> QED BY <1>4, <1>5, <1>6, <1>7, Zenon DEF IInv, Good

\* Only rows survive the process, and what was accepted is not completed there.
LEMMA DieStep == ASSUME IInv, Die PROVE Good
<1>1. TypeOK'
  <2>1. events' \in 0..MaxEvents
    BY EventsAssumption DEF IInv, TypeOK, Die, Event
  <2>2. queue' \in Seq(Job) /\ free' \in 0..Workers
    BY WorkersAssumption DEF Die
  <2> QED BY <2>1, <2>2, Zenon DEF IInv, TypeOK, Die
<1>2. /\ queue' = <<>> /\ QueueOK' /\ \A i \in Job : ~Queued(i)'
  BY DEF Die, QueueOK, Queued, IsInjective, Range
<1>3. PoolOK'
  <2>1. Busy' = {}
    BY Zenon DEF Busy, Die
  <2> QED BY <2>1, FS_EmptySet, WorkersAssumption DEF PoolOK, Die
<1>4. Unique' /\ DownOK'
  BY <1>2, Zenon DEF Die, IInv, Unique, DownOK
<1>5. ASSUME NEW i \in Job PROVE JobOK(i)'
  <2>1. /\ JobOK(i) /\ ~Queued(i)'
        /\ mem'[i] = "none" /\ i \notin flag' /\ i \notin tracked' /\ i \notin func'
        /\ exec'[i] = "no" /\ snap'[i] = "none" /\ cancel'[i] = "no" /\ csnap'[i] = "none"
        /\ ssnap'[i] = "none"
        /\ UNCHANGED <<row, remote, accepted, lost>>
    BY <1>2, Zenon DEF IInv, Die
  <2> QED
    BY <2>1, Zenon
       DEF JobOK, Fresh, CancelOK, Tracked, WorkerOK, Running, FlagOK, Early,
           Unsettled, Accepted, Open, Done, Verdict, Same, Terminal, Active, Status
<1>6. ASSUME NEW i \in Job PROVE RowLasts(i) /\ ViewLasts(i)
  BY Zenon DEF Die, RowLasts, ViewLasts
<1> QED BY <1>1, <1>2, <1>3, <1>4, <1>5, <1>6, Zenon DEF IInv, Good

\* Nobody holds a snapshot when the rows of the previous process are failed.
LEMMA RestartStep == ASSUME IInv, Restart PROVE Good
<1>1. /\ ~up /\ up' = TRUE /\ free' = Workers
      /\ UNCHANGED <<stopping, mem, flag, tracked, queue, exec, snap, keep, func, cancels,
                     ssnap, lost, events>>
      /\ \A i \in Job : row'[i] = Orphan(row[i])
      /\ DownOK /\ TypeOK /\ QueueOK
  BY Zenon DEF Restart, IInv, memory
<1>2. TypeOK'
  BY <1>1, WorkersAssumption
     DEF Restart, TypeOK, Orphan, Status, Terminal, Active, cancels
<1>3. PoolOK'
  <2>1. Busy' = {}
    BY <1>1, Zenon DEF Busy, DownOK
  <2> QED BY <1>1, <2>1, FS_EmptySet, WorkersAssumption DEF PoolOK
<1>4. Unique' /\ QueueOK' /\ DownOK'
  BY <1>1, CalmUnique, SameQueue, Zenon DEF Calm, Orphan, DownOK
<1>5. ASSUME NEW i \in Job PROVE JobOK(i)'
  <2>1. /\ JobOK(i) /\ Queued(i)' = Queued(i) /\ row'[i] = Orphan(row[i])
        /\ exec[i] = "no" /\ mem[i] = "none" /\ i \notin func /\ i \notin tracked
        /\ cancel[i] = "no" /\ ssnap[i] = "none" /\ ~Queued(i)
    BY <1>1 DEF IInv, DownOK, Queued, Range
  <2> QED
    BY <1>1, <2>1, Zenon
       DEF Orphan, JobOK, Fresh, CancelOK, Tracked, WorkerOK, Running, FlagOK,
           Early, Unsettled, Accepted, Open, Done, Verdict, Same, Terminal, Active,
           Status, cancels
<1>6. ASSUME NEW i \in Job PROVE RowLasts(i) /\ ViewLasts(i)
  BY <1>1, Zenon DEF DownOK, RowLasts, ViewLasts, View, Orphan, Terminal, Active
<1> QED BY <1>2, <1>3, <1>4, <1>5, <1>6, Zenon DEF IInv, Good

\* A cleanup that fails leaves rows that nobody works on, and nothing else.
LEMMA RestartFailsStep == ASSUME IInv, RestartFails PROVE Good
<1>1. /\ ~up /\ up' = TRUE /\ free' = Workers
      /\ UNCHANGED <<stopping, row, mem, flag, tracked, queue, exec, snap, keep, func,
                     cancels, ssnap>>
      /\ lost' = lost \cup {j \in Job : row[j] \in Active}
      /\ DownOK /\ TypeOK /\ QueueOK
  BY Zenon DEF RestartFails, IInv, memory
<1>2. TypeOK'
  <2>1. lost' \subseteq Job
    BY <1>1, Zenon DEF TypeOK
  <2>2. free' \in 0..Workers /\ events' \in 0..MaxEvents
    BY <1>1, WorkersAssumption, EventsAssumption DEF RestartFails, Event, TypeOK
  <2> QED BY <1>1, <2>1, <2>2, Zenon DEF TypeOK, cancels
<1>3. PoolOK'
  <2>1. Busy' = {}
    BY <1>1, Zenon DEF Busy, DownOK
  <2> QED BY <1>1, <2>1, FS_EmptySet, WorkersAssumption DEF PoolOK
<1>4. Unique' /\ QueueOK' /\ DownOK'
  BY <1>1, CalmUnique, SameQueue, Zenon DEF Calm, DownOK
<1>5. ASSUME NEW i \in Job PROVE JobOK(i)'
  <2>1. JobOK(i)
    BY Zenon DEF IInv
  <2>2. Frame(i)
    BY <1>1, SameQueue, Zenon DEF Frame, cancels
  <2> QED BY <2>1, <2>2, FrameKeeps, Zenon
<1>6. ASSUME NEW i \in Job PROVE RowLasts(i) /\ ViewLasts(i)
  BY <1>1, Zenon DEF RowLasts, ViewLasts, View
<1> QED BY <1>2, <1>3, <1>4, <1>5, <1>6, Zenon DEF IInv, Good

----------------------------------------------------------------------------
(* The theorems *)

\* The initial state.
LEMMA InitOK == ASSUME Init PROVE IInv
<1>1. TypeOK
  <2>1. queue \in Seq(Job) /\ free \in 0..Workers /\ events \in 0..MaxEvents
    BY WorkersAssumption, EventsAssumption DEF Init
  <2> QED BY <2>1, Zenon DEF Init, TypeOK
<1>2. QueueOK /\ \A j \in Job : ~Queued(j)
  BY DEF Init, QueueOK, Queued, IsInjective, Range
<1>3. PoolOK
  <2>1. Busy = {}
    BY Zenon DEF Init, Busy
  <2> QED BY <2>1, FS_EmptySet, WorkersAssumption DEF Init, PoolOK
<1>4. Unique /\ DownOK
  BY Zenon DEF Init, Unique, DownOK, Active
<1>5. ASSUME NEW j \in Job PROVE JobOK(j)
  BY <1>2, Zenon
     DEF Init, JobOK, Fresh, CancelOK, Tracked, WorkerOK, Running, FlagOK, Early,
         Unsettled, Accepted, Open, Done, Verdict, Same, Terminal, Active, Status
<1> QED BY <1>1, <1>2, <1>3, <1>4, <1>5 DEF IInv

\* Every step is good.
LEMMA NextGood == ASSUME IInv, Next PROVE Good
<1>1. ASSUME NEW j \in Job, WorkerStep(j) PROVE Good
  BY <1>1, EnqueueStep, TakeStep, StartStep, AnnounceStep, RecheckStep, AbandonStep,
     PersistStep, NotifyStep, ReturnStep, Zenon
     DEF WorkerStep
<1>2. ASSUME NEW j \in Job,
             \/ Submit(j) \/ Defer(j) \/ Tick(j) \/ FunctionEnds(j)
             \/ Cancel(j) \/ CancelSnapshot(j) \/ CancelWrite(j)
             \/ RemoteCancel(j) \/ RemoteWrite(j) \/ Cleanup(j) \/ StopWrite(j)
      PROVE  Good
  BY <1>2, SubmitStep, DeferStep, TickStep, FunctionEndsStep, CancelStep,
     CancelSnapshotStep, CancelWriteStep, RemoteCancelStep, RemoteWriteStep,
     CleanupStep, StopWriteStep, Zenon
<1> QED BY <1>1, <1>2, StopStep, DieStep, RestartStep, RestartFailsStep, Zenon
       DEF Next

\* So is one that changes nothing.
LEMMA StutterOK == ASSUME IInv, UNCHANGED vars PROVE IInv'
<1>1. /\ \A i \in Job : Frame(i)
      /\ UNCHANGED <<up, queue>>
  BY SameQueue, Zenon DEF vars, memory, worker, cancels, Frame
<1>2. TypeOK'
  BY Zenon DEF IInv, TypeOK, vars, memory, worker, cancels
<1>3. PoolOK' /\ QueueOK' /\ Unique' /\ DownOK'
  BY Zenon
     DEF IInv, vars, memory, worker, cancels, PoolOK, Busy, QueueOK, Unique, DownOK
<1> QED BY <1>1, <1>2, <1>3, FrameKeeps, Zenon DEF IInv

\* The inductive invariant holds in every reachable state.
THEOREM Invariance == Spec => []IInv
<1>1. Init => IInv
  BY InitOK
<1>2. IInv /\ [Next]_vars => IInv'
  BY NextGood, StutterOK, Zenon DEF Good
<1> QED BY <1>1, <1>2, PTL DEF Spec

\* Type correctness: among others the workers that wait for an item are never
\* more than the pool has, whatever was cancelled, deferred or stopped.
THEOREM TypeCorrect == Spec => []TypeOK
<1>1. IInv => TypeOK
  BY DEF IInv
<1> QED BY <1>1, Invariance, PTL

\* A job whose cancellation was accepted is never shown as completed.
THEOREM CancellationsStick == Spec => []CancelSticks
<1>1. IInv => CancelSticks
  BY Zenon DEF IInv, TypeOK, JobOK, Accepted, CancelSticks, View, Done
<1> QED BY <1>1, Invariance, PTL

\* The functions of two jobs of one key do not run together, unless the row of
\* one of them is cancelled.
THEOREM ExclusiveFunctions == Spec => []ExclusiveUnlessCancelled
<1>1. ASSUME IInv PROVE ExclusiveUnlessCancelled
  <2>1. ASSUME NEW i \in func PROVE i \in Job /\ (row[i] \in Active \/ row[i] = "cancelled")
    BY <1>1, Zenon DEF IInv, TypeOK, JobOK, Fresh, Unsettled, Open, Active
  <2> QED BY <1>1, <2>1, Zenon DEF IInv, Unique, ExclusiveUnlessCancelled
<1> QED BY <1>1, Invariance, PTL

\* The tracker forgets every job that nobody works on any more.
THEOREM TrackerIsExact == Spec => []TrackerForgets
<1>1. IInv => TrackerForgets
  BY Zenon DEF IInv, TypeOK, JobOK, Tracked, TrackerForgets, Queued, Range
<1> QED BY <1>1, Invariance, PTL

\* A finished row is never revived, and one outcome of the worker never replaced
\* by another, however late the snapshots of cancel_job and shutdown are written.
THEOREM OutcomesStand == Spec => LateWritesRevokeNothing
<1>1. IInv /\ [Next]_vars => [\A j \in Job : RowLasts(j)]_vars
  BY NextGood, Zenon DEF Good
<1>2. IInv /\ [Next]_vars => [\A j \in Job : row[j] \in Terminal /\ row'[j] # row[j] =>
         /\ row'[j] \in Terminal
         /\ \/ {row[j], row'[j]} = {"completed", "completed_partial"}
            \/ row[j] = "cancelled" /\ remote[j] = "done"
            \/ row'[j] = "cancelled" /\ remote[j] = "write"]_vars
  BY <1>1, Zenon DEF RowLasts
<1> QED BY <1>2, Invariance, PTL DEF Spec, LateWritesRevokeNothing

\* A job seen finished stays finished, but for four races.
THEOREM FinishedStaysVisible == Spec => VisibleStaysFinished
<1>1. IInv /\ [Next]_vars => [\A j \in Job : ViewLasts(j)]_vars
  BY NextGood, Zenon DEF Good
<1>2. IInv /\ [Next]_vars => [\A j \in Job : View(j) \in Terminal =>
         \/ View(j)' \in Terminal
         \/ exec[j] = "start" /\ j \in flag
         \/ exec[j] = "submitted" /\ remote[j] = "done"
         \/ exec[j] = "no" /\ row[j] \in Active
         \/ ~up']_vars
  BY <1>1, Zenon DEF ViewLasts
<1> QED BY <1>2, Invariance, PTL DEF Spec, VisibleStaysFinished
=============================================================================
