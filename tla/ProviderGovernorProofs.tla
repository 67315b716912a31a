----------------------- MODULE ProviderGovernorProofs -----------------------
(***************************************************************************)
(* The limiter's safety properties for any number of threads and any       *)
(* bounds.  NoLostWakeup is inductive only next to the exact slot count:   *)
(* a release adds a free slot and a woken thread, a woken thread that      *)
(* takes a slot removes one of each, and a thread joins the queue only     *)
(* when no slot is free.                                                   *)
(***************************************************************************)
EXTENDS ProviderGovernor, FiniteSetTheorems, TLAPS

\* The AIMD target and the limit the limiter enforces are two variables of two
\* objects; they agree in every state another thread can see.
LimitFollowsK == limit = k

IInv == TypeOK /\ SlotsAccounted /\ NoLostWakeup /\ LimitFollowsK

\* The sets of threads the cardinalities are taken of are finite.
LEMMA FiniteSlots ==
    /\ IsFiniteSet(Holders) /\ Cardinality(Holders) \in Nat
    /\ \A s \in Where : IsFiniteSet(At(s)) /\ Cardinality(At(s)) \in Nat
<1>1. Holders \subseteq Thread /\ \A s \in Where : At(s) \subseteq Thread
  BY Zenon DEF Holders, At
<1>2. QED
  BY <1>1, FS_Subset, FS_CardinalityType, ThreadAssumption, Zenon

\* The same in the next state.
LEMMA FiniteSlotsNext ==
    /\ IsFiniteSet(Holders') /\ Cardinality(Holders') \in Nat
    /\ \A s \in Where : IsFiniteSet(At(s)') /\ Cardinality(At(s)') \in Nat
<1>1. Holders' \subseteq Thread /\ \A s \in Where : At(s)' \subseteq Thread
  BY Zenon DEF Holders, At
<1>2. QED
  BY <1>1, FS_Subset, FS_CardinalityType, ThreadAssumption, Zenon

\* Removing an element lowers a cardinality by at most one.
LEMMA RemoveAtMostOne ==
    ASSUME NEW S, IsFiniteSet(S), NEW x
    PROVE  Cardinality(S \ {x}) >= Cardinality(S) - 1
<1>1. Cardinality(S) \in Nat
  BY FS_CardinalityType, Zenon
<1>2. \/ Cardinality(S \ {x}) = Cardinality(S) - 1
      \/ Cardinality(S \ {x}) = Cardinality(S)
  BY FS_RemoveElement, Zenon
<1>3. QED
  BY <1>1, <1>2

\* Clamp lands in the configured band and keeps what is already in it.
LEMMA ClampBand ==
    ASSUME NEW v \in Int
    PROVE  Clamp(v) \in KMin..KMax /\ (v \in KMin..KMax => Clamp(v) = v)
BY BoundsAssumption DEF Clamp

\* Taking a slot: one more holder, at most one woken thread fewer.
LEMMA TakeStep ==
    ASSUME IInv, NEW t \in Thread, pc[t] \in {"idle", "woken", "expired"},
           in_flight < limit, Take(t)
    PROVE  IInv'
<1>1. TypeOK'
  BY BoundsAssumption DEF IInv, TypeOK, Take, Where, aimd
<1>2. Holders' = Holders \cup {t} /\ t \notin Holders
  BY Zenon DEF IInv, TypeOK, Take, Holders, At
<1>3. Cardinality(Holders') = Cardinality(Holders) + 1
  BY <1>2, FiniteSlots, FS_AddElement, Zenon
<1>4. SlotsAccounted'
  BY <1>3, BoundsAssumption DEF IInv, TypeOK, SlotsAccounted, Take
<1>5. Queue' \subseteq Queue
  BY Zenon DEF IInv, TypeOK, Take, Queue, At
<1>6. At("woken")' = At("woken") \ {t}
  BY Zenon DEF IInv, TypeOK, Take, At
<1>7. IsFiniteSet(At("woken")) /\ Cardinality(At("woken")) \in Nat
  BY FiniteSlots, Zenon DEF Where
<1>8. Cardinality(At("woken")') >= Cardinality(At("woken")) - 1
  BY <1>6, <1>7, RemoveAtMostOne, Zenon
<1>9. NoLostWakeup'
  <2>1. Cardinality(At("woken")') \in Nat
    BY FiniteSlotsNext, Zenon DEF Where
  <2>2. SUFFICES ASSUME Queue' # {}
                 PROVE  Cardinality(At("woken")') >= limit' - in_flight'
    BY Zenon DEF NoLostWakeup
  <2>3. Cardinality(At("woken")) >= limit - in_flight
    BY <1>5, <2>2, Zenon DEF IInv, NoLostWakeup
  <2>4. limit' = limit /\ in_flight' = in_flight + 1
        /\ limit \in Int /\ in_flight \in Int
    BY BoundsAssumption DEF Take, IInv, TypeOK
  <2>5. QED
    BY <1>7, <1>8, <2>1, <2>3, <2>4
<1>10. QED
  BY <1>1, <1>4, <1>9, Zenon DEF IInv, LimitFollowsK, Take, aimd

\* Giving up and parking happen only when no slot is free.
LEMMA WaitStep ==
    ASSUME IInv, NEW t \in Thread, pc[t] \in {"idle", "woken", "expired"},
           in_flight >= limit, GiveUp(t) \/ Park(t)
    PROVE  IInv'
<1>1. TypeOK'
  BY Zenon DEF IInv, TypeOK, GiveUp, Park, Where, aimd
<1>2. Holders' = Holders
  BY Zenon DEF IInv, TypeOK, GiveUp, Park, Holders, At
<1>3. SlotsAccounted'
  BY <1>2, Zenon DEF IInv, SlotsAccounted, GiveUp, Park
<1>4. NoLostWakeup'
  BY FiniteSlotsNext, BoundsAssumption
     DEF IInv, TypeOK, NoLostWakeup, GiveUp, Park, Where
<1>5. QED
  BY <1>1, <1>3, <1>4, Zenon DEF IInv, LimitFollowsK, GiveUp, Park, aimd

\* The clock and an expiring wait move no thread between the counted sets.
LEMMA TimeStep ==
    ASSUME IInv, NEW t \in Thread, DeadlinePasses(t) \/ Expire(t)
    PROVE  IInv'
<1>1. TypeOK'
  BY Zenon DEF IInv, TypeOK, DeadlinePasses, Expire, Where, aimd
<1>2. Holders' = Holders /\ At("woken")' = At("woken") /\ Queue' = Queue
  BY Zenon DEF IInv, TypeOK, DeadlinePasses, Expire, Holders, Queue, At
<1>3. QED
  BY <1>1, <1>2, Zenon
     DEF IInv, SlotsAccounted, NoLostWakeup, LimitFollowsK, DeadlinePasses, Expire,
         aimd

\* set_limit empties the queue; the caller keeps its slot until release.
LEMMA SetLimitStep ==
    ASSUME IInv, NEW t \in Thread, pc[t] = "calling", NEW new \in KMin..KMax,
           SetLimit(new, [pc EXCEPT ![t] = "recorded"]), k' = new,
           success_run' = 0, cooling' \in BOOLEAN,
           UNCHANGED <<due, in_flight, high_water>>
    PROVE  IInv'
<1>1. limit' = new
  BY ClampBand, BoundsAssumption DEF SetLimit
<1>2. TypeOK'
  BY <1>1, BoundsAssumption DEF IInv, TypeOK, SetLimit, Where
<1>3. Holders' = Holders /\ Queue' = {}
  BY Zenon DEF IInv, TypeOK, SetLimit, Holders, Queue, At, Where
<1>4. QED
  BY <1>1, <1>2, <1>3, Zenon DEF IInv, SlotsAccounted, NoLostWakeup, LimitFollowsK

\* Every way fn() can end.
LEMMA FnReturnsStep ==
    ASSUME IInv, NEW t \in Thread, FnReturns(t)
    PROVE  IInv'
<1>1. CASE pc' = [pc EXCEPT ![t] = "recorded"]
           /\ UNCHANGED <<due, limit, in_flight, high_water, k, cooling>>
           /\ success_run' \in 0..SuccessThreshold
  <2>1. TypeOK'
    BY <1>1, Zenon DEF IInv, TypeOK, Where
  <2>2. Holders' = Holders /\ At("woken")' = At("woken") /\ Queue' = Queue
    BY <1>1, Zenon DEF IInv, TypeOK, FnReturns, Holders, Queue, At
  <2>3. QED
    BY <1>1, <2>1, <2>2, Zenon DEF IInv, SlotsAccounted, NoLostWakeup, LimitFollowsK
<1>2. CASE Decrease(t)
  <2>1. k' \in KMin..KMax
    BY <1>2, BoundsAssumption DEF Decrease, IInv, TypeOK
  <2>2. QED
    BY <1>2, <2>1, SetLimitStep, Zenon DEF Decrease, FnReturns
<1>3. CASE Succeed(t)
  <2>1. CASE k' = k + 1 /\ k < KMax /\ success_run' = 0
             /\ SetLimit(k + 1, [pc EXCEPT ![t] = "recorded"])
    <3>1. k + 1 \in KMin..KMax
      BY <2>1, BoundsAssumption DEF IInv, TypeOK
    <3>2. QED
      BY <1>3, <2>1, <3>1, SetLimitStep, Zenon DEF Succeed, FnReturns, IInv, TypeOK
  <2>2. QED
    BY <1>1, <1>3, <2>1, BoundsAssumption DEF Succeed, IInv, TypeOK
<1>4. CASE OtherFailure(t)
  BY <1>1, <1>4, Zenon DEF OtherFailure, aimd, IInv, TypeOK
<1>5. QED
  BY <1>2, <1>3, <1>4, Zenon DEF FnReturns

\* Releasing frees one slot and wakes one queued thread if there is one.
LEMMA ReleaseStep ==
    ASSUME IInv, NEW t \in Thread, Release(t)
    PROVE  IInv'
<1>1. Holders' = Holders \ {t} /\ t \in Holders
  BY Zenon DEF IInv, TypeOK, Release, Holders, Queue, At
<1>2. Cardinality(Holders') = Cardinality(Holders) - 1
  BY <1>1, FiniteSlots, FS_RemoveElement, Zenon
<1>3. in_flight' = Cardinality(Holders') /\ in_flight' \in Nat
  BY <1>2, FiniteSlotsNext, Zenon DEF IInv, SlotsAccounted, Release
<1>4. TypeOK'
  BY <1>3, Zenon DEF IInv, TypeOK, Release, Where, aimd, Queue, At
<1>5. SlotsAccounted'
  BY <1>3, BoundsAssumption DEF IInv, TypeOK, SlotsAccounted, Release
<1>6. NoLostWakeup'
  <2>1. CASE Queue = {}
    <3>1. Queue' = {}
      BY <2>1 DEF IInv, TypeOK, Release, Queue, At
    <3>2. QED
      BY <3>1, Zenon DEF NoLostWakeup
  <2>2. CASE Queue # {}
    <3>1. PICK w \in Queue : pc' = [pc EXCEPT ![t] = "idle", ![w] = "woken"]
      BY <2>2, Zenon DEF Release
    <3>2. At("woken")' = At("woken") \cup {w} /\ w \notin At("woken")
      BY <3>1 DEF IInv, TypeOK, Release, Queue, At
    <3>3. Cardinality(At("woken")') = Cardinality(At("woken")) + 1
      BY <3>2, FiniteSlots, FS_AddElement, Zenon DEF Where
    <3>4. Cardinality(At("woken")) >= limit - in_flight
      BY <2>2, Zenon DEF IInv, NoLostWakeup
    <3>5. limit' = limit /\ in_flight' = in_flight - 1
          /\ limit \in Int /\ in_flight \in Int
          /\ Cardinality(At("woken")) \in Nat
      BY FiniteSlots, BoundsAssumption DEF Release, IInv, TypeOK, Where
    <3>6. QED
      BY <3>3, <3>4, <3>5 DEF NoLostWakeup
  <2>3. QED
    BY <2>1, <2>2, Zenon
<1>7. QED
  BY <1>4, <1>5, <1>6, Zenon DEF IInv, LimitFollowsK, Release, aimd

\* The invariant holds initially and every step of the lane preserves it.
LEMMA Inductive == (Init => IInv) /\ (IInv /\ [Next]_vars => IInv')
<1>1. Init => IInv
  <2> SUFFICES ASSUME Init PROVE IInv
    OBVIOUS
  <2>2. limit \in KMin..KMax
    BY ClampBand, BoundsAssumption DEF Init
  <2>3. TypeOK
    <3>1. pc \in [Thread -> Where] /\ due \in [Thread -> BOOLEAN]
          /\ cooling \in BOOLEAN
      BY Zenon DEF Init, Where
    <3>2. k \in KMin..KMax /\ in_flight \in Nat /\ high_water \in Nat
          /\ success_run \in 0..SuccessThreshold
      BY <2>2, BoundsAssumption DEF Init
    <3>3. QED
      BY <2>2, <3>1, <3>2, Zenon DEF TypeOK
  <2>4. Holders = {} /\ Queue = {}
    BY Zenon DEF Init, Holders, Queue, At
  <2>5. Cardinality(Holders) = 0
    BY <2>4, FS_EmptySet
  <2>6. SlotsAccounted
    BY <2>5, BoundsAssumption DEF Init, SlotsAccounted
  <2>7. QED
    BY <2>3, <2>4, <2>6, Zenon DEF Init, IInv, NoLostWakeup, LimitFollowsK
<1>2. ASSUME IInv, [Next]_vars PROVE IInv'
  <2>1. CASE UNCHANGED vars
    BY <1>2, <2>1, Zenon
       DEF vars, IInv, TypeOK, SlotsAccounted, NoLostWakeup, LimitFollowsK, Holders,
           Queue, At
  <2>2. ASSUME NEW t \in Thread, Acquire(t) PROVE IInv'
    BY <1>2, <2>2, TakeStep, WaitStep, Zenon DEF Acquire
  <2>3. ASSUME NEW t \in Thread, Recheck(t) PROVE IInv'
    BY <1>2, <2>3, TakeStep, WaitStep, Zenon DEF Recheck
  <2>4. ASSUME NEW t \in Thread, DeadlinePasses(t) \/ Expire(t) PROVE IInv'
    BY <1>2, <2>4, TimeStep
  <2>5. CASE CooldownEnds
    <3>1. Holders' = Holders /\ At("woken")' = At("woken") /\ Queue' = Queue
      BY <2>5, Zenon DEF CooldownEnds, Holders, Queue, At
    <3>2. QED
      BY <1>2, <2>5, <3>1, Zenon
         DEF CooldownEnds, IInv, TypeOK, SlotsAccounted, NoLostWakeup, LimitFollowsK
  <2>6. QED
    BY <1>2, <2>1, <2>2, <2>3, <2>4, <2>5, FnReturnsStep, ReleaseStep, Zenon
       DEF Next
<1>3. QED
  BY <1>1, <1>2

\* The limit stays in [KMin, KMax] and every variable keeps its type.
THEOREM TypeCorrect == Spec => []TypeOK
BY Inductive, PTL DEF Spec, IInv

\* No release is missed or doubled on any path out of execute.
THEOREM SlotsAreAccounted == Spec => []SlotsAccounted
BY Inductive, PTL DEF Spec, IInv

\* A waiter never sleeps beside a free slot nobody is on the way to.
THEOREM NoWakeupIsLost == Spec => []NoLostWakeup
BY Inductive, PTL DEF Spec, IInv

\* A shrunk limit admits nobody until the excess has drained.
THEOREM ShrinkOnlyDrains == Spec => ExcessOnlyDrains
<1>1. IInv /\ [Next]_vars => [in_flight > limit' => in_flight' <= in_flight]_vars
  <2>1. SUFFICES ASSUME IInv, Next, in_flight > limit'
                 PROVE  in_flight' <= in_flight
    OBVIOUS
  <2>2. limit \in Int /\ in_flight \in Int
    BY <2>1, BoundsAssumption DEF IInv, TypeOK
  <2>3. ASSUME NEW t \in Thread, Acquire(t) \/ Recheck(t)
        PROVE  in_flight' <= in_flight
    BY <2>1, <2>2, <2>3 DEF Acquire, Recheck, Take, GiveUp, Park
  <2>4. ASSUME NEW t \in Thread, FnReturns(t) PROVE in_flight' <= in_flight
    BY <2>2, <2>4 DEF FnReturns, Succeed, Decrease, OtherFailure
  <2>5. QED
    BY <2>1, <2>2, <2>3, <2>4
       DEF Next, DeadlinePasses, Expire, Release, CooldownEnds
<1>2. QED
  BY <1>1, Inductive, PTL DEF Spec, ExcessOnlyDrains

=============================================================================
