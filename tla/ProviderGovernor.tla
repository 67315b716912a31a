-------------------------- MODULE ProviderGovernor --------------------------
(***************************************************************************)
(* One lane of the provider concurrency governor: ResizableLimiter (a      *)
(* condition-variable limiter whose bound moves at run time), the          *)
(* AimdController that moves it, and ProviderConcurrencyGovernor.execute,  *)
(* which wraps one HTTP attempt in acquire ... record ... release.         *)
(* Lanes share nothing, so one lane is the whole story.                    *)
(*                                                                         *)
(* Every `with self._cond` block is one atomic step.  Condition.wait       *)
(* splits acquire: a thread parks in the condition's waiter queue and      *)
(* leaves it by a notify or, when its wait times out, by itself -- but     *)
(* only once it has the lock again, so a notify can still reach a waiter   *)
(* that has already timed out ("expired").                                 *)
(***************************************************************************)
EXTENDS Integers, FiniteSets

CONSTANTS Thread,           \* the worker threads that call execute
          KMin, KMax,       \* config.coalesce_k_min, config.coalesce_k_max
          Seed,             \* the per-node seed divided by the workers
          SuccessThreshold  \* consecutive successes before K grows by one

ASSUME ThreadAssumption == IsFiniteSet(Thread)
ASSUME BoundsAssumption == /\ KMin \in Nat \ {0} /\ KMax \in Nat
                           /\ KMin <= KMax
                           /\ Seed \in Nat
                           /\ SuccessThreshold \in Nat \ {0}

VARIABLES pc,           \* where each thread is in execute
          due,          \* has the monotonic deadline of its acquire passed?
          limit,        \* ResizableLimiter._limit
          in_flight,    \* ResizableLimiter._in_flight
          high_water,   \* ResizableLimiter._high_water
          k,            \* AimdController._k
          success_run,  \* AimdController._success_run
          cooling       \* time_fn() < AimdController._cooldown_until

vars == <<pc, due, limit, in_flight, high_water, k, success_run, cooling>>

aimd == <<k, success_run, cooling>>

----------------------------------------------------------------------------
Clamp(v) == IF v < KMin THEN KMin ELSE IF v > KMax THEN KMax ELSE v

\* The waiter queue of the condition: threads inside Condition.wait that no
\* notify has taken out.  "woken" threads were taken out and wait for the lock.
At(s)   == {t \in Thread : pc[t] = s}
Queue   == At("parked") \cup At("expired")
Holders == At("calling") \cup At("recorded")

----------------------------------------------------------------------------
Init == /\ pc = [t \in Thread |-> "idle"]
        /\ due = [t \in Thread |-> FALSE]
        /\ limit = Clamp(Seed)
        /\ in_flight = 0
        /\ high_water = 0
        /\ k = limit
        /\ success_run = 0
        /\ cooling = FALSE

\* The tail of acquire: the slot is taken.
Take(t) == /\ in_flight' = in_flight + 1
           /\ high_water' = IF in_flight + 1 > high_water
                            THEN in_flight + 1 ELSE high_water
           /\ pc' = [pc EXCEPT ![t] = "calling"]
           /\ due' = [due EXCEPT ![t] = FALSE]
           /\ UNCHANGED <<limit, aimd>>

\* acquire returns False and execute raises GovernorBusyError.
GiveUp(t) == /\ pc' = [pc EXCEPT ![t] = "idle"]
             /\ due' = [due EXCEPT ![t] = FALSE]
             /\ UNCHANGED <<limit, in_flight, high_water, aimd>>

\* Condition.wait: append to the queue and give the lock up.
Park(t) == /\ pc' = [pc EXCEPT ![t] = "parked"]
           /\ UNCHANGED <<due, limit, in_flight, high_water, aimd>>

\* acquire, first evaluation of the loop; a timeout <= 0 never waits.
Acquire(t) == /\ pc[t] = "idle"
              /\ \/ in_flight < limit /\ Take(t)
                 \/ in_flight >= limit /\ GiveUp(t)
                 \/ in_flight >= limit /\ Park(t)

\* Mutants: the loop's predicate is not evaluated again after a wait; the
\* deadline is not compared after a wait.
RecheckOnce(t) == pc[t] \in {"woken", "expired"} /\ Take(t)
RecheckForever(t) == /\ pc[t] \in {"woken", "expired"}
                     /\ \/ in_flight < limit /\ Take(t)
                        \/ in_flight >= limit /\ Park(t)

\* A waiter has the lock again and re-evaluates the loop.  An expired waiter
\* removes itself from the queue as part of the same step.
Recheck(t) == /\ pc[t] \in {"woken", "expired"}
              /\ \/ in_flight < limit /\ Take(t)
                 \/ in_flight >= limit /\ due[t] /\ GiveUp(t)
                 \/ in_flight >= limit /\ ~due[t] /\ Park(t)

\* The monotonic clock passes the deadline of a pending acquire.
DeadlinePasses(t) == /\ pc[t] \in {"parked", "woken"}
                     /\ ~due[t]
                     /\ due' = [due EXCEPT ![t] = TRUE]
                     /\ UNCHANGED <<pc, limit, in_flight, high_water, aimd>>

\* The timed wait of a queued thread ends without a notify.
Expire(t) == /\ pc[t] = "parked"
             /\ due[t]
             /\ pc' = [pc EXCEPT ![t] = "expired"]
             /\ UNCHANGED <<due, limit, in_flight, high_water, aimd>>

\* Mutant: the limit changes and nobody is told.
SetLimitSilently(new, p) == limit' = Clamp(new) /\ pc' = p

\* set_limit from inside record, with its notify_all: every queued thread is
\* taken out of the queue.  `p' is the program counter before the notify.
SetLimit(new, p) ==
    /\ limit' = Clamp(new)
    /\ pc' = [t \in Thread |-> IF p[t] \in {"parked", "expired"}
                               THEN "woken" ELSE p[t]]

\* record(success=False): multiplicative decrease and a fresh cooldown.
Decrease(t) ==
    /\ k' = IF k \div 2 > KMin THEN k \div 2 ELSE KMin
    /\ success_run' = 0
    /\ cooling' = TRUE
    /\ SetLimit(k', [pc EXCEPT ![t] = "recorded"])
    /\ UNCHANGED <<due, in_flight, high_water>>

\* record(success=True).  Past the threshold (K already at KMax) the run's
\* exact length is never read again, so it saturates there.
Succeed(t) ==
    /\ UNCHANGED <<due, in_flight, high_water, cooling>>
    /\ \/ /\ cooling
          /\ pc' = [pc EXCEPT ![t] = "recorded"]
          /\ UNCHANGED <<limit, k, success_run>>
       \/ /\ ~cooling
          /\ success_run + 1 >= SuccessThreshold
          /\ k < KMax
          /\ k' = k + 1
          /\ success_run' = 0
          /\ SetLimit(k + 1, [pc EXCEPT ![t] = "recorded"])
       \/ /\ ~cooling
          /\ success_run + 1 < SuccessThreshold \/ k >= KMax
          /\ success_run' = IF success_run < SuccessThreshold
                            THEN success_run + 1 ELSE success_run
          /\ pc' = [pc EXCEPT ![t] = "recorded"]
          /\ UNCHANGED <<limit, k>>

\* Mutant: an exception that is not a rate limit skips the finally clause.
OtherFailureLeaks(t) == /\ pc' = [pc EXCEPT ![t] = "idle"]
                        /\ UNCHANGED <<due, limit, in_flight, high_water, aimd>>

\* fn raised something that is not a rate limit: nothing is recorded.
OtherFailure(t) == /\ pc' = [pc EXCEPT ![t] = "recorded"]
                   /\ UNCHANGED <<due, limit, in_flight, high_water, aimd>>

\* fn() ends: its outcome reaches the AIMD controller before the slot is freed.
FnReturns(t) == /\ pc[t] = "calling"
                /\ Succeed(t) \/ Decrease(t) \/ OtherFailure(t)

\* The finally clause: release() frees the slot and notifies one waiter.
Release(t) ==
    /\ pc[t] = "recorded"
    /\ in_flight' = in_flight - 1
    /\ \/ /\ Queue = {}
          /\ pc' = [pc EXCEPT ![t] = "idle"]
       \/ \E w \in Queue : pc' = [pc EXCEPT ![t] = "idle", ![w] = "woken"]
    /\ UNCHANGED <<due, limit, high_water, aimd>>

CooldownEnds == /\ cooling
                /\ cooling' = FALSE
                /\ UNCHANGED <<pc, due, limit, in_flight, high_water,
                               k, success_run>>

Next == \/ \E t \in Thread : \/ Acquire(t) \/ Recheck(t) \/ DeadlinePasses(t)
                             \/ Expire(t) \/ FnReturns(t) \/ Release(t)
        \/ CooldownEnds

\* The clock advances, a timed wait ends once its time is over, and a thread
\* that waits for the lock gets it: nothing else is needed of the scheduler.
Fairness == \A t \in Thread : /\ WF_vars(DeadlinePasses(t))
                              /\ WF_vars(Expire(t))
                              /\ WF_vars(Recheck(t))

Spec == Init /\ [][Next]_vars

FairSpec == Spec /\ Fairness

----------------------------------------------------------------------------
Where == {"idle", "parked", "expired", "woken", "calling", "recorded"}

\* Type correctness; the limit never leaves the configured band.
TypeOK == /\ pc \in [Thread -> Where]
          /\ due \in [Thread -> BOOLEAN]
          /\ limit \in KMin..KMax
          /\ in_flight \in Nat
          /\ high_water \in Nat
          /\ k \in KMin..KMax
          /\ success_run \in 0..SuccessThreshold
          /\ cooling \in BOOLEAN

\* Every path out of execute (success, 429, other exception, busy) gives back
\* exactly what it took: _in_flight counts the threads between acquire and
\* release, and never exceeds KMax or the recorded peak.
SlotsAccounted == /\ in_flight = Cardinality(Holders)
                  /\ in_flight <= high_water
                  /\ high_water <= KMax

\* No lost wakeup: while a thread sits in the waiter queue, every free slot
\* has a woken thread on its way to it, so no waiter sleeps next to a free
\* slot until its deadline.  release() notifies one thread only, and that
\* one may already have timed out.
NoLostWakeup == Queue # {} => Cardinality(At("woken")) >= limit - in_flight

\* Shrinking the limit leaves in-flight work alone and the excess only drains:
\* while in_flight exceeds the limit, woken and new callers alike wait.
ExcessOnlyDrains == [][in_flight > limit' => in_flight' <= in_flight]_vars

\* acquire never hangs: a thread that waits gets a slot or gives up, whatever
\* the other threads do and even if no call ever returns.
AcquireReturns == \A t \in Thread :
    pc[t] \in {"parked", "woken", "expired"} ~> pc[t] \in {"idle", "calling"}

=============================================================================
