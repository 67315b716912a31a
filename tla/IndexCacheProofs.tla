-------------------------- MODULE IndexCacheProofs --------------------------
(***************************************************************************)
(* The safety properties of IndexCache for any number of threads,          *)
(* collections and versions, every cap and all sizes.                      *)
(*                                                                         *)
(* Control: neither OneLoader nor WaitsForLoader is inductive alone.  That *)
(* a sentinel has one owner needs the owner to know its key, and that a    *)
(* waiter waits for a loader needs the sentinel it read to have one.       *)
(*                                                                         *)
(* Content: Data says how old entries and what is being loaded can be.     *)
(* InCap says that the caches are within their caps.  They rest on what    *)
(* Filter and Total compute, which is shown by induction over the length   *)
(* of a sequence: a property that fails has a least length at which it     *)
(* does.                                                                   *)
(***************************************************************************)
EXTENDS IndexCache, WellFoundedInduction, TLAPS

Where == {"idle", "check", "wait", "load", "stat", "store", "pop", "set"}

Types == /\ pc \in [Thread -> Where]
         /\ at \in [Thread -> Cache]
         /\ key \in [Thread -> Key \cup {None}]
         /\ ev \in [Thread -> Thread \cup {None}]
         /\ loading \in [Cache -> [Key -> Thread \cup {None}]]

\* A thread inside a search has a collection, and only waiters have an Event.
Control == \A t \in Thread : /\ pc[t] # "idle" => key[t] \in Key
                             /\ pc[t] = "wait" <=> ev[t] # None

IInv == Types /\ Control /\ OneLoader /\ WaitsForLoader

\* The invariant holds when the server starts.
LEMMA InitIInv == Init => IInv
  BY NoneAssumption
     DEF Init, IInv, Types, Control, OneLoader, WaitsForLoader, Where, Loads, Cache

\* What an action that leaves the control state alone preserves.
LEMMA Frame == IInv /\ UNCHANGED <<thread, loading>> => IInv'
  BY DEF IInv, Types, Control, OneLoader, WaitsForLoader, Loads, thread

\* A search asks the HNSW cache first and holds no sentinel yet.
LEMMA StartIInv == ASSUME IInv, NEW t \in Thread, NEW k \in Key, StartSearch(t, k)
                   PROVE  IInv'
  <1> USE NoneAssumption DEF StartSearch, Loads
  <1>1. Types' BY Zenon DEF IInv, Types, Where, Cache
  <1>2. Control' BY Zenon DEF IInv, Types, Control
  <1>3. OneLoader' BY DEF IInv, OneLoader
  <1>4. WaitsForLoader' BY DEF IInv, Types, WaitsForLoader
  <1> QED BY <1>1, <1>2, <1>3, <1>4, Zenon DEF IInv

\* After a hit a thread goes on to the id cache, or is done.
LEMMA HitIInv == ASSUME IInv, NEW t \in Thread, Hit(t) PROVE IInv'
  <1> USE NoneAssumption DEF Hit, Return, Loads
  <1>1. Types' BY Zenon DEF IInv, Types, Where, Cache
  <1>2. Control' BY Zenon DEF IInv, Types, Control
  <1>3. OneLoader' BY DEF IInv, Types, OneLoader
  <1>4. WaitsForLoader' BY DEF IInv, Types, WaitsForLoader, Control
  <1> QED BY <1>1, <1>2, <1>3, <1>4, Zenon DEF IInv

\* A thread that misses plants the sentinel, or waits for the one who did.
LEMMA MissIInv == ASSUME IInv, NEW t \in Thread, Miss(t) PROVE IInv'
  <1> USE NoneAssumption DEF Miss, Loads
  <1>1. Types' BY DEF IInv, Types, Where, Cache, Control
  <1>2. Control' BY Zenon DEF IInv, Types, Control
  <1>3. OneLoader' BY DEF IInv, Types, OneLoader
  <1>4. WaitsForLoader'
    <2> SUFFICES ASSUME NEW w \in Thread, pc'[w] = "wait"
                 PROVE  LET u == ev'[w]
                        IN /\ u \in Thread \ {w} /\ u # t
                           /\ Loads(u) \/ pc[u] = "set"
                           /\ at[u] = at[w] /\ key[u] = key[w]
      BY DEF IInv, Types, WaitsForLoader
    <2>1. CASE w = t
      <3>1. loading[at[t]][key[t]] # None /\ ev'[t] = loading[at[t]][key[t]]
        BY <2>1, Zenon DEF IInv, Types
      <3>2. /\ at[t] \in Cache /\ key[t] \in Key
            /\ loading[at[t]][key[t]] \in Thread
        BY <3>1 DEF IInv, Types, Control
      <3> QED BY <2>1, <3>1, <3>2 DEF IInv, OneLoader
    <2>2. CASE w # t BY <2>2 DEF IInv, Types, WaitsForLoader
    <2> QED BY <2>1, <2>2, Zenon
  <1> QED BY <1>1, <1>2, <1>3, <1>4, Zenon DEF IInv

\* The loaders, a failed load, Stat and Store only move the loader along.
LEMMA MoveIInv ==
    ASSUME IInv, NEW t \in Thread, NEW p \in {"stat", "store", "pop"},
           pc[t] \in {"load", "stat", "store"}, pc' = [pc EXCEPT ![t] = p],
           UNCHANGED <<at, key, ev, loading>>
    PROVE  IInv'
  <1> USE DEF Loads
  <1>1. Types' BY Zenon DEF IInv, Types, Where
  <1>2. Control' BY Zenon DEF IInv, Types, Control
  <1>3. OneLoader' BY DEF IInv, Types, OneLoader
  <1>4. WaitsForLoader' BY DEF IInv, Types, WaitsForLoader
  <1> QED BY <1>1, <1>2, <1>3, <1>4, Zenon DEF IInv

\* The finally clause takes the sentinel away; the waiters still wait for t.
LEMMA PopIInv == ASSUME IInv, NEW t \in Thread, Pop(t) PROVE IInv'
  <1> USE NoneAssumption DEF Pop, Loads
  <1>1. Types' BY Zenon DEF IInv, Types, Where
  <1>2. Control' BY Zenon DEF IInv, Types, Control
  <1>3. OneLoader' BY DEF IInv, Types, OneLoader
  <1>4. WaitsForLoader' BY Zenon DEF IInv, Types, WaitsForLoader
  <1> QED BY <1>1, <1>2, <1>3, <1>4, Zenon DEF IInv

\* event.set() wakes exactly the threads that wait for this loader.
LEMMA SetIInv == ASSUME IInv, NEW t \in Thread, SetEvent(t) PROVE IInv'
  <1> DEFINE goesOn == ~buf[t].raised /\ at[t] = "hnsw"
  <1>0. /\ pc[t] = "set"
        /\ \E p \in {"check", "idle"} :
             /\ pc' = [u \in Thread |-> IF u = t THEN p
                                        ELSE IF ev[u] = t THEN "check" ELSE pc[u]]
             /\ \E k \in {key[t], None} : /\ key' = [key EXCEPT ![t] = k]
                                          /\ p = "check" => k = key[t]
        /\ ev' = [u \in Thread |-> IF ev[u] = t THEN None ELSE ev[u]]
        /\ \E a \in Cache : at' = [at EXCEPT ![t] = a]
        /\ loading' = loading
    <2>1. CASE goesOn BY <2>1, Zenon DEF SetEvent, Cache
    <2>2. CASE ~goesOn BY Zenon DEF SetEvent, Cache
    <2> QED BY <2>1, <2>2, Zenon
  <1> USE NoneAssumption DEF Loads
  <1>1. Types' BY <1>0 DEF IInv, Types, Where
  <1>2. Control' BY <1>0 DEF IInv, Control
  <1>3. OneLoader' BY <1>0 DEF IInv, OneLoader, Control
  <1>4. WaitsForLoader' BY <1>0 DEF IInv, Types, WaitsForLoader, Control
  <1> QED BY <1>1, <1>2, <1>3, <1>4 DEF IInv

\* IInv is inductive.
LEMMA NextIInv == IInv /\ [Next]_vars => IInv'
  <1> SUFFICES ASSUME IInv, [Next]_vars PROVE IInv'
    OBVIOUS
  <1>1. ASSUME NEW t \in Thread, LoadStep(t) PROVE IInv'
    <2>1. CASE LoadHnsw(t)
      <3>1. PICK p \in {"stat", "store", "pop"} : pc' = [pc EXCEPT ![t] = p]
        BY <2>1, Zenon DEF LoadHnsw
      <3> QED BY <2>1, MoveIInv, Zenon DEF LoadHnsw
    <2>5. CASE LoadIds(t) BY <2>5, MoveIInv, Zenon DEF LoadIds
    <2>2. CASE LoadRaises(t) BY <2>2, MoveIInv, Zenon DEF LoadRaises
    <2>3. CASE Stat(t) BY <2>3, MoveIInv, Zenon DEF Stat
    <2>4. CASE Store(t) BY <2>4, MoveIInv, Zenon DEF Store
    <2> QED BY <1>1, <2>1, <2>2, <2>3, <2>4, <2>5, PopIInv, SetIInv, Zenon
               DEF LoadStep
  <1>2. ASSUME NEW k \in Clone, \/ PublishBin(k) \/ PublishIds(k)
                                \/ ReindexFails(k) \/ EvictHnsw(k) \/ EvictIds(k)
        PROVE  IInv'
    BY <1>2, Frame, Zenon
       DEF PublishBin, PublishIds, ReindexFails, EvictHnsw, EvictIds, Invalidate
  <1>3. ASSUME NEW k \in Snapshot, SwapOut(k) \/ EvictSwapped(k) PROVE IInv'
    BY <1>3, Frame, Zenon DEF SwapOut, EvictSwapped, Invalidate
  <1>4. ASSUME NEW c \in Cache, Sweep(c) \/ \E k \in Key : Expire(c, k) PROVE IInv'
    BY <1>4, Frame, Zenon DEF Sweep, Expire, thread
  <1>5. ASSUME NEW n, EvictLru(n) PROVE IInv'
    BY <1>5, Frame, Zenon DEF EvictLru
  <1>6. CASE UNCHANGED vars BY <1>6, Frame, Zenon DEF vars, thread
  <1> QED BY <1>1, <1>2, <1>3, <1>4, <1>5, <1>6, StartIInv, HitIInv, MissIInv, Zenon
             DEF Next

----------------------------------------------------------------------------
\* A set of numbers that is not empty has a least element.
LEMMA Least ==
    ASSUME NEW S, S \subseteq Nat, S # {}
    PROVE  \E m \in S : \A v \in S : m <= v
<1>1. \E m \in S : \A v \in S : ~(<<v, m>> \in OpToRel(<, Nat))
  BY NatLessThanWellFounded, WFMin, Zenon
<1>2. \A m, v \in Nat : v < m => <<v, m>> \in OpToRel(<, Nat)
  BY DEF OpToRel
<1>3. \A m, v \in Nat : ~(v < m) => m <= v
  OBVIOUS
<1>4. QED
  BY <1>1, <1>2, <1>3, Zenon

\* So it has a Min.
LEMMA MinIn ==
    ASSUME NEW A, A \subseteq Nat, A # {}
    PROVE  Min(A) \in A /\ \A v \in A : Min(A) <= v
<1>1. \E m \in A : \A v \in A : m <= v BY Least, Zenon
<1> QED BY <1>1, Zenon DEF Min

\* Induction up to n, for a set instead of a predicate.
LEMMA Induct ==
    ASSUME NEW n \in Nat, NEW P, 0 \in P, \A i \in 0..n - 1 : i \in P => i + 1 \in P
    PROVE  \A i \in 0..n : i \in P
<1> DEFINE Bad == (0..n) \ P
<1>1. SUFFICES ASSUME Bad # {} PROVE FALSE OBVIOUS
<1>2. Bad \subseteq Nat OBVIOUS
<1>3. PICK m \in Bad : \A v \in Bad : m <= v
  <2> HIDE DEF Bad
  <2> QED BY <1>1, <1>2, Least, Zenon
<1>4. m - 1 \in 0..n - 1 /\ ~(m <= m - 1) /\ m - 1 + 1 = m OBVIOUS
<1>5. m - 1 \in P BY <1>3
<1> QED BY <1>5

\* Seq is monotonic.
LEMMA SeqMono == ASSUME NEW S, NEW T, S \subseteq T, NEW s \in Seq(S) PROVE s \in Seq(T)
  OBVIOUS

\* One step of Kept.
Step(s, keep, f, i) == IF i = 0 THEN <<>>
                       ELSE IF s[i] \in keep THEN Append(f[i - 1], s[i])
                       ELSE f[i - 1]

\* The recursion of Kept has a solution.
LEMMA KeptExists ==
    ASSUME NEW S, NEW s \in Seq(S), NEW keep
    PROVE  \E f \in [0..Len(s) -> Seq(S)] :
              \A i \in 0..Len(s) : f[i] = Step(s, keep, f, i)
<1> DEFINE Solved(n) == \E f \in [0..n -> Seq(S)] :
                          \A i \in 0..n : f[i] = Step(s, keep, f, i)
           P == {n \in 0..Len(s) : Solved(n)}
<1>1. 0 \in P
  <2> DEFINE g == [i \in 0..0 |-> <<>>]
  <2>1. g \in [0..0 -> Seq(S)] OBVIOUS
  <2>2. \A i \in 0..0 : g[i] = Step(s, keep, g, i) BY DEF Step
  <2> HIDE DEF g
  <2>3. Solved(0) BY <2>1, <2>2, Zenon
  <2> HIDE DEF Solved
  <2> QED BY <2>3
<1>2. ASSUME NEW n \in 0..Len(s) - 1, n \in P PROVE n + 1 \in P
  <2>1. PICK f \in [0..n -> Seq(S)] : \A i \in 0..n : f[i] = Step(s, keep, f, i) BY
                                                                                    <1>2,
                                                                                    Zenon
  <2> DEFINE m == n + 1
             g == [i \in 0..m |-> IF i = m THEN Step(s, keep, f, m) ELSE f[i]]
  <2>2. m \in 1..Len(s) /\ s[m] \in S /\ f[m - 1] \in Seq(S) OBVIOUS
  <2>3. Step(s, keep, f, m) \in Seq(S) BY DEF Step
  <2>4. g \in [0..m -> Seq(S)] BY <2>3
  <2>5. ASSUME NEW i \in 0..m PROVE g[i] = Step(s, keep, g, i)
    <3>1. i = 0 \/ (i - 1 \in 0..m /\ i - 1 # m) OBVIOUS
    <3>2. i = 0 \/ g[i - 1] = f[i - 1] BY <3>1, Zenon
    <3>3. Step(s, keep, g, i) = Step(s, keep, f, i)
      <4> HIDE DEF g
      <4>1. CASE i = 0 BY <4>1, Zenon DEF Step
      <4>2. CASE g[i - 1] = f[i - 1] BY <4>2, Zenon DEF Step
      <4> QED BY <3>2, <4>1, <4>2, Zenon
    <3>4. g[i] = Step(s, keep, f, i) BY <2>1
    <3> QED BY <3>3, <3>4, Zenon
  <2>6. Solved(m)
    <3> HIDE DEF g, m
    <3> QED BY <2>4, <2>5, Zenon
  <2> HIDE DEF Solved
  <2> QED BY <2>6
<1>3. Len(s) \in 0..Len(s) /\ Len(s) \in Nat OBVIOUS
<1>4. Len(s) \in P
  <2> HIDE DEF P
  <2> QED BY <1>1, <1>2, <1>3, Induct, Zenon
<1> QED BY <1>4, Zenon

\* Kept follows that recursion.
LEMMA KeptIs ==
    ASSUME NEW S, NEW s \in Seq(S), NEW keep
    PROVE  \A i \in 0..Len(s) : Kept(s, keep)[i] = Step(s, keep, Kept(s, keep), i)
<1> DEFINE G(f) == [i \in 0..Len(s) |-> IF i = 0 THEN <<>>
                              ELSE IF s[i] \in keep THEN Append(f[i - 1], s[i])
                              ELSE f[i - 1]]
           F == Kept(s, keep)
<1>1. PICK f \in [0..Len(s) -> Seq(S)] : \A i \in 0..Len(s) : f[i] = Step(s, keep, f, i)
  BY KeptExists, Zenon
<1>2. f = G(f) BY <1>1 DEF Step
<1>3. F = CHOOSE h : h = G(h) BY DEF Kept
<1>4. F = G(F)
  <2> HIDE DEF G, F
  <2> QED BY <1>2, <1>3, Zenon
<1> HIDE DEF F
<1>5. \A i \in 0..Len(s) : F[i] = Step(s, keep, F, i) BY <1>4, Zenon DEF Step
<1> QED BY <1>5, Zenon DEF F

\* One more element is kept or not.
Grows(s, keep, f, n) ==
    /\ s[n + 1] \in keep => f[n + 1] = Append(f[n], s[n + 1])
    /\ s[n + 1] \notin keep => f[n + 1] = f[n]

LEMMA KeptNext ==
    ASSUME NEW S, NEW s \in Seq(S), NEW keep, NEW n \in 0..Len(s) - 1
    PROVE  Grows(s, keep, Kept(s, keep), n)
<1> DEFINE F == Kept(s, keep)
<1>1. n + 1 \in 0..Len(s) /\ n + 1 # 0 /\ n + 1 - 1 = n OBVIOUS
<1>2. F[n + 1] = Step(s, keep, F, n + 1) BY KeptIs, <1>1, Zenon
<1> HIDE DEF F
<1>3. Grows(s, keep, F, n)
  BY <1>1, <1>2 DEF Step, Grows
<1> QED BY <1>3, Zenon DEF F

\* On each prefix Kept is a sequence of elements that are kept.
LEMMA KeptStep ==
    ASSUME NEW S, NEW s \in Seq(S), NEW keep
    PROVE  /\ Kept(s, keep)[0] = <<>>
           /\ \A n \in 0..Len(s) : Kept(s, keep)[n] \in Seq(S \cap keep)
<1> DEFINE F == Kept(s, keep)
           T == S \cap keep
           P == {i \in 0..Len(s) : F[i] \in Seq(T)}
<1>1. F[0] = <<>>
  <2>1. 0 \in 0..Len(s) OBVIOUS
  <2>2. F[0] = Step(s, keep, F, 0) BY KeptIs, <2>1, Zenon
  <2> QED BY <2>2, Zenon DEF Step
<1>2. ASSUME NEW n \in 0..Len(s) - 1
      PROVE  Grows(s, keep, F, n)
  BY KeptNext, Zenon
<1> HIDE DEF F
<1>3. 0 \in P
  <2>1. 0 \in 0..Len(s) /\ <<>> \in Seq(T) OBVIOUS
  <2> QED BY <1>1, <2>1, Zenon
<1>4. ASSUME NEW n \in 0..Len(s) - 1, n \in P PROVE n + 1 \in P
  <2>1. n + 1 \in 0..Len(s) /\ s[n + 1] \in S OBVIOUS
  <2>2. F[n] \in Seq(T) BY <1>4, Zenon
  <2>3. s[n + 1] \in T => Append(F[n], s[n + 1]) \in Seq(T)
    <3> HIDE DEF T
    <3> QED BY <2>2
  <2> QED BY <1>2, <2>1, <2>2, <2>3, Zenon DEF Grows
<1>5. \A n \in 0..Len(s) : n \in P
  <2>1. Len(s) \in Nat OBVIOUS
  <2> HIDE DEF P
  <2> QED BY <1>3, <1>4, <2>1, Induct, Zenon
<1> QED BY <1>1, <1>5, Zenon DEF F

\* What is left of a sequence is a sequence of its elements that are kept.
LEMMA FilterKeeps ==
    ASSUME NEW S, NEW s \in Seq(S), NEW keep
    PROVE  Filter(s, keep) \in Seq(S \cap keep)
<1>1. Len(s) \in 0..Len(s) OBVIOUS
<1> QED BY <1>1, KeptStep, Zenon DEF Filter

\* ... and so a sequence of the same elements.
LEMMA FilterIn ==
    ASSUME NEW S, NEW s \in Seq(S), NEW keep
    PROVE  Filter(s, keep) \in Seq(S)
<1>1. Filter(s, keep) \in Seq(S \cap keep) BY FilterKeeps, Zenon
<1>2. S \cap keep \subseteq S OBVIOUS
<1> QED BY <1>1, SeqMono, Zenon

----------------------------------------------------------------------------
\* What a loader brings.
Buffer == [data : 0..MaxVersion, mtime : 0..MaxVersion, over : BOOLEAN,
           raised : BOOLEAN]

\* What a cache may hold.  An HNSW entry is no newer than the mtime it is
\* remembered under, which is no newer than the file's; an id entry older than
\* the last sweep of its clone survived that in flight.
Good(c) == {e \in Entry :
    /\ c = "hnsw" => e.data <= e.mtime /\ e.mtime <= bin[e.key]
    /\ c = "id" /\ e.key \in Clone /\ e.data < swept[e.key] => e.over}

\* Both caches hold entries that are good for them.
Caches == /\ cache \in [Cache -> Seq(Entry)]
          /\ \A c \in Cache : cache[c] \in Seq(Good(c))

\* id_index.bin is published after hnsw_index.bin, and evicted after both.
Files == /\ bin \in [Key -> 0..MaxVersion]
         /\ ids \in [Key -> 0..MaxVersion]
         /\ swept \in [Clone -> 0..MaxVersion]
         /\ \A k \in Key : ids[k] <= bin[k]
         /\ \A k \in Clone : swept[k] <= ids[k]

\* What a load has read is as good as what a cache may hold.
Loaded(t) ==
    /\ buf[t] \in Buffer
    /\ pc[t] = "stat" => at[t] = "hnsw" /\ buf[t].data <= bin[key[t]]
    /\ pc[t] = "store" /\ at[t] = "hnsw" => /\ buf[t].data <= buf[t].mtime
                                            /\ buf[t].mtime <= bin[key[t]]
    /\ pc[t] = "store" /\ at[t] = "id" /\ key[t] \in Clone =>
         (buf[t].data < swept[key[t]] => buf[t].over)

Data == Caches /\ Files /\ buf \in [Thread -> Buffer] /\ \A t \in Thread : Loaded(t)

\* A tail of a sequence over S is one.
LEMMA SubSeqIn == ASSUME NEW S, NEW s \in Seq(S), NEW m \in 1..Len(s) + 1
                  PROVE  SubSeq(s, m, Len(s)) \in Seq(S)
  OBVIOUS

\* The elements of a sequence over S are in S.
LEMMA RangeIn == ASSUME NEW S, NEW s \in Seq(S) PROVE Range(s) \subseteq S
  BY DEF Range

\* Invalidation leaves entries of other keys only.
LEMMA WithoutIn == ASSUME NEW S, NEW c, cache[c] \in Seq(S), NEW K
                   PROVE  Without(c, K) \in Seq({e \in S : e.key \notin K})
  <1> DEFINE keep == {e \in Range(cache[c]) : e.key \notin K}
  <1>1. Filter(cache[c], keep) \in Seq(S \cap keep) 
    <2> HIDE DEF keep
    <2> QED BY FilterKeeps
  <1>2. S \cap keep \subseteq {e \in S : e.key \notin K} OBVIOUS
  <1>3. Filter(cache[c], keep) \in Seq({e \in S : e.key \notin K})
    <2> HIDE DEF keep
    <2> QED BY <1>1, <1>2, SeqMono, Zenon
  <1> QED BY <1>3 DEF Without

\* Enforcing the cap brings no entry in.
LEMMA EnforceIn == ASSUME NEW S, NEW c, NEW s \in Seq(S)
                   PROVE  Enforce(c, s) \in Seq(S)
  <1> DEFINE keep == {e \in Range(s) : Weight(c, e) <= Cap[c]}
             fit == Filter(s, keep)
             from == {i \in 1..Len(fit) : Total(c, SubSeq(fit, i, Len(fit))) <= Cap[c]}
             all == from \cup {Len(fit) + 1}
  <1>1. fit \in Seq(S)
    <2> HIDE DEF keep
    <2> QED BY FilterIn, Zenon
  <1>2. Min(all) \in 1..Len(fit) + 1
    <2>1. all \subseteq 1..Len(fit) + 1 /\ all \subseteq Nat /\ all # {}
      <3> HIDE DEF fit
      <3> QED BY <1>1
    <2> HIDE DEF all
    <2> QED BY <2>1, MinIn, Zenon
  <1>3. SubSeq(fit, Min(all), Len(fit)) \in Seq(S)
    <2> HIDE DEF fit, all
    <2> QED BY <1>1, <1>2
  <1> QED BY <1>3, Zenon DEF Enforce

\* An action that replaces the content of one cache.
LEMMA Replace ==
    ASSUME Caches, NEW c \in Cache, NEW x, x \in Seq(Good(c)),
           cache' = [cache EXCEPT ![c] = x], UNCHANGED <<bin, swept>>
    PROVE  Caches'
  <1>1. \A d : Good(d)' = Good(d) BY Zenon DEF Good
  <1>2. x \in Seq(Entry)
    <2>1. Good(c) \subseteq Entry BY Zenon DEF Good
    <2> QED BY <2>1, SeqMono, Zenon
  <1>3. \A d \in Cache : cache'[d] = IF d = c THEN x ELSE cache[d]
    BY Zenon DEF Caches
  <1>4. cache' \in [Cache -> Seq(Entry)] BY <1>2, Zenon DEF Caches
  <1>5. \A d \in Cache : cache'[d] \in Seq(Good(d)') BY <1>1, Zenon DEF Caches
  <1> QED BY <1>4, <1>5, Zenon DEF Caches

\* What a lookup of a key that is present returns.
LEMMA LookupIn == ASSUME Caches, NEW c \in Cache, NEW k \in Keys(c)
                  PROVE  Lookup(c, k) \in Good(c) /\ Lookup(c, k).key = k
  <1>1. \E e \in Range(cache[c]) : e.key = k BY Zenon DEF Keys, Range
  <1>2. Lookup(c, k) \in Range(cache[c]) /\ Lookup(c, k).key = k
    BY <1>1, Zenon DEF Lookup
  <1> QED BY <1>2, RangeIn, Zenon DEF Caches

\* Removing the entries of some collections leaves a good cache.
LEMMA WithoutGood == ASSUME Caches, NEW c \in Cache, NEW K
                     PROVE  Without(c, K) \in Seq(Good(c))
  <1>1. Without(c, K) \in Seq({e \in Good(c) : e.key \notin K})
    BY WithoutIn, Zenon DEF Caches
  <1>2. {e \in Good(c) : e.key \notin K} \subseteq Good(c) BY Zenon
  <1> QED BY <1>1, SeqMono, Zenon

\* Data holds when the server starts.
LEMMA DataInit == Init => Data
  <1> SUFFICES ASSUME Init PROVE Data OBVIOUS
  <1>1. Caches
    <2>1. \A S : <<>> \in Seq(S) OBVIOUS
    <2> QED BY <2>1, Zenon DEF Init, Caches
  <1>2. 0..1 \subseteq 0..MaxVersion /\ 0 \in 0..MaxVersion BY VersionAssumption
  <1>3. Files BY <1>2, VersionAssumption DEF Init, Files, Key
  <1>4. NoData \in Buffer BY <1>2, Zenon DEF NoData, Buffer
  <1>5. buf \in [Thread -> Buffer] BY <1>4, Zenon DEF Init
  <1>6. \A t \in Thread : Loaded(t) BY <1>4, Zenon DEF Init, Loaded
  <1> QED BY <1>1, <1>3, <1>5, <1>6, Zenon DEF Data

\* A step of one thread that leaves the files alone.
LEMMA Others ==
    ASSUME Types, Data, NEW t \in Thread, NEW b \in Buffer, buf' = [buf EXCEPT ![t] = b],
           UNCHANGED <<bin, ids, swept>>, Loaded(t)', Caches',
           \A u \in Thread \ {t} : /\ pc'[u] = pc[u] \/ pc'[u] = "check"
                                   /\ at'[u] = at[u] /\ key'[u] = key[u]
    PROVE  Data'
  <1>1. Files' BY Zenon DEF Data, Files
  <1>2. buf' \in [Thread -> Buffer] BY Zenon DEF Data
  <1>3. ASSUME NEW u \in Thread PROVE Loaded(u)'
    <2>1. CASE u = t BY <2>1, Zenon
    <2>2. CASE u # t
      <3>1. Loaded(u) BY Zenon DEF Data
      <3>2. buf'[u] = buf[u] BY <2>2, Zenon DEF Data
      <3>3. pc'[u] = pc[u] \/ pc'[u] \notin {"stat", "store"} BY <2>2, Zenon
      <3> QED BY <3>1, <3>2, Zenon DEF Loaded
    <2> QED BY <2>2, Zenon
  <1> QED BY <1>1, <1>3, Zenon DEF Data

\* The same when the step leaves the buffers alone.
LEMMA OthersSame ==
    ASSUME Types, Data, NEW t \in Thread, UNCHANGED <<buf, bin, ids, swept>>, Caches',
           pc'[t] \notin {"stat", "store"},
           \A u \in Thread \ {t} : pc'[u] = pc[u] /\ at'[u] = at[u] /\ key'[u] = key[u]
    PROVE  Data'
  <1>1. Files' BY Zenon DEF Data, Files
  <1>2. buf' \in [Thread -> Buffer] BY Zenon DEF Data
  <1>3. ASSUME NEW u \in Thread PROVE Loaded(u)'
    <2>1. CASE u = t BY Zenon DEF Data, Loaded
    <2>2. CASE u # t BY <2>2, Zenon DEF Data, Loaded
    <2> QED BY <2>1, <2>2, Zenon
  <1> QED BY <1>1, <1>3, Zenon DEF Data

\* Caches depends on the caches and the files alone.
LEMMA CachesSame == Caches /\ UNCHANGED <<cache, bin, swept>> => Caches'
  BY Zenon DEF Caches, Good

\* Searches: a thread that starts has nothing loaded.
LEMMA StartData == ASSUME IInv, Data, NEW t \in Thread, NEW k \in Key, StartSearch(t, k)
                   PROVE  Data'
  <1>1. Caches' BY CachesSame, Zenon DEF StartSearch, disk, Data
  <1>2. pc'[t] = "check" BY Zenon DEF StartSearch, IInv, Types
  <1>3. \A u \in Thread \ {t} : pc'[u] = pc[u] /\ at'[u] = at[u] /\ key'[u] = key[u]
    BY Zenon DEF StartSearch, IInv, Types
  <1>4. pc'[t] \notin {"stat", "store"} BY <1>2
  <1> QED BY <1>1, <1>3, <1>4, OthersSame, Zenon DEF StartSearch, disk, IInv

\* A hit moves an entry to the end.
LEMMA HitData == ASSUME IInv, Data, NEW t \in Thread, Hit(t) PROVE Data'
  <1> DEFINE c == at[t]
             k == key[t]
  <1>1. c \in Cache /\ k \in Keys(c) BY Zenon DEF Hit, IsHit, IInv, Types
  <1>2. Without(c, {k}) \in Seq(Good(c)) BY <1>1, WithoutGood, Zenon DEF Data
  <1>3. Lookup(c, k) \in Good(c) BY <1>1, LookupIn, Zenon DEF Data
  <1>4. Append(Without(c, {k}), Lookup(c, k)) \in Seq(Good(c)) BY <1>2, <1>3
  <1>5. cache' = [cache EXCEPT ![c] = Append(Without(c, {k}), Lookup(c, k))] BY
                                                                                Zenon
                                                                                DEF
                                                                                    Hit
  <1>6. Caches'
    <2> HIDE DEF c, k
    <2> QED BY <1>1, <1>4, <1>5, Replace, Zenon DEF Hit, disk, Data
  <1>7. pc'[t] \in {"check", "idle"} BY Zenon DEF Hit, Return, IInv, Types
  <1>8. \A u \in Thread \ {t} : pc'[u] = pc[u] /\ at'[u] = at[u] /\ key'[u] = key[u]
    BY Zenon DEF Hit, Return, IInv, Types
  <1>9. pc'[t] \notin {"stat", "store"} BY <1>7
  <1> QED BY <1>6, <1>8, <1>9, OthersSame, Zenon DEF Hit, disk, IInv

\* A miss may drop an entry that expired or is outdated.
LEMMA MissData == ASSUME IInv, Data, NEW t \in Thread, Miss(t) PROVE Data'
  <1> DEFINE c == at[t]
             k == key[t]
  <1>1. c \in Cache BY Zenon DEF IInv, Types
  <1>2. Without(c, {k}) \in Seq(Good(c)) BY <1>1, WithoutGood, Zenon DEF Data
  <1>5. cache' = [cache EXCEPT ![c] = Without(c, {k})] BY Zenon DEF Miss
  <1>6. Caches'
    <2> HIDE DEF c, k
    <2> QED BY <1>1, <1>2, <1>5, Replace, Zenon DEF Miss, disk, Data
  <1>7. pc'[t] \in {"wait", "load"} BY Zenon DEF Miss, IInv, Types
  <1>8. \A u \in Thread \ {t} : pc'[u] = pc[u] /\ at'[u] = at[u] /\ key'[u] = key[u]
    BY Zenon DEF Miss, IInv, Types
  <1>9. pc'[t] \notin {"stat", "store"} BY <1>7
  <1> QED BY <1>6, <1>8, <1>9, OthersSame, Zenon DEF Miss, disk, IInv

\* The loader brings what is on disk, and the stat an mtime no older.
LEMMA LoadData ==
    ASSUME IInv, Data, NEW t \in Thread,
           LoadHnsw(t) \/ LoadIds(t) \/ LoadRaises(t) \/ Stat(t)
    PROVE  Data'
  <1>0. /\ pc[t] \in {"load", "stat"} /\ key[t] \in Key /\ at[t] \in Cache
        /\ UNCHANGED <<at, key, cache, bin, ids, swept>>
    BY Zenon DEF LoadHnsw, LoadIds, LoadRaises, Stat, disk, IInv, Control, Types
  <1>1. Caches' BY <1>0, CachesSame, Zenon DEF Data
  <1>2. /\ bin[key[t]] \in 0..MaxVersion /\ ids[key[t]] \in 0..MaxVersion
        /\ 0 \in 0..MaxVersion
    BY <1>0, VersionAssumption DEF Data, Files
  <1>3. NoData \in Buffer BY <1>2, Zenon DEF NoData, Buffer
  <1>4. ASSUME NEW v \in 0..MaxVersion
        PROVE  [NoData EXCEPT !.data = v] \in Buffer /\ [NoData EXCEPT !.data = v].data = v
    BY <1>3 DEF Buffer
  <1>5. buf[t] \in Buffer BY Zenon DEF Data
  <1>6. \A u \in Thread \ {t} : pc'[u] = pc[u] /\ at'[u] = at[u] /\ key'[u] = key[u]
    BY Zenon DEF LoadHnsw, LoadIds, LoadRaises, Stat, IInv, Types
  <1>7. ASSUME NEW b \in Buffer, buf' = [buf EXCEPT ![t] = b], Loaded(t)' PROVE Data'
    BY <1>0, <1>1, <1>6, <1>7, Others, Zenon DEF IInv
  <1>8. CASE LoadHnsw(t)
    <2> DEFINE b == [NoData EXCEPT !.data = bin[key[t]]]
    <2>1. b \in Buffer /\ b.data = bin[key[t]] BY <1>2, <1>4, Zenon
    <2>2. buf' = [buf EXCEPT ![t] = b] BY <1>8, Zenon DEF LoadHnsw
    <2>3. at[t] = "hnsw" /\ pc'[t] \in {"pop", "stat"}
      BY <1>8, Zenon DEF LoadHnsw, IInv, Types
    <2>4. buf'[t] = b BY <2>2, Zenon DEF Data
    <2>5. b.data <= bin[key[t]]
      <3> HIDE DEF b
      <3> QED BY <1>2, <2>1
    <2>6. Loaded(t)'
      <3> HIDE DEF b
      <3> QED BY <1>0, <2>1, <2>3, <2>4, <2>5, Zenon DEF Loaded
    <2> QED BY <1>7, <2>1, <2>2, <2>6, Zenon
  <1>9. CASE LoadIds(t)
    <2> DEFINE b == [NoData EXCEPT !.data = ids[key[t]]]
    <2>1. b \in Buffer /\ b.data = ids[key[t]] BY <1>2, <1>4, Zenon
    <2>2. buf' = [buf EXCEPT ![t] = b] BY <1>9, Zenon DEF LoadIds
    <2>3. at[t] = "id" /\ pc'[t] = "store" BY <1>9, Zenon DEF LoadIds, IInv, Types
    <2>4. buf'[t] = b BY <2>2, Zenon DEF Data
    <2>5. key[t] \in Clone => ~(b.data < swept[key[t]])
      <3> HIDE DEF b
      <3> QED BY <1>2, <2>1 DEF Data, Files
    <2>6. Loaded(t)'
      <3> HIDE DEF b
      <3> QED BY <1>0, <2>1, <2>3, <2>4, <2>5, Zenon DEF Loaded
    <2> QED BY <1>7, <2>1, <2>2, <2>6, Zenon
  <1>10. CASE LoadRaises(t)
    <2> DEFINE b == [NoData EXCEPT !.raised = TRUE]
    <2>1. b \in Buffer BY <1>3, Zenon DEF Buffer
    <2>2. buf' = [buf EXCEPT ![t] = b] BY <1>10, Zenon DEF LoadRaises
    <2>3. pc'[t] = "pop" BY <1>10, Zenon DEF LoadRaises, IInv, Types
    <2>4. buf'[t] = b BY <2>2, Zenon DEF Data
    <2>6. Loaded(t)'
      <3> HIDE DEF b
      <3> QED BY <2>1, <2>3, <2>4, Zenon DEF Loaded
    <2> QED BY <1>7, <2>1, <2>2, <2>6, Zenon
  <1>11. CASE Stat(t)
    <2> DEFINE b == [buf[t] EXCEPT !.mtime = bin[key[t]]]
    <2>1. b \in Buffer BY <1>2, <1>5, Zenon DEF Buffer
    <2>2. buf' = [buf EXCEPT ![t] = b] BY <1>11, Zenon DEF Stat
    <2>3. at[t] = "hnsw" /\ pc'[t] = "store" /\ buf[t].data <= bin[key[t]]
      BY <1>11, Zenon DEF Stat, IInv, Types, Data, Loaded
    <2>4. buf'[t] = b BY <2>2, Zenon DEF Data
    <2>5. b.data <= b.mtime /\ b.mtime <= bin[key[t]] BY <1>2, <2>3
    <2>6. Loaded(t)'
      <3> HIDE DEF b
      <3> QED BY <1>0, <2>1, <2>3, <2>4, <2>5, Zenon DEF Loaded
    <2> QED BY <1>7, <2>1, <2>2, <2>6, Zenon
  <1> QED BY <1>8, <1>9, <1>10, <1>11

\* What is stored is as good as an entry of the cache has to be.
LEMMA StoreData == ASSUME IInv, Data, NEW t \in Thread, Store(t) PROVE Data'
  <1> DEFINE c == at[t]
             e == [key |-> key[t], data |-> buf[t].data, mtime |-> buf[t].mtime,
                   expired |-> FALSE, over |-> buf[t].over]
             x == Append(Without(c, {e.key}), e)
  <1>1. c \in Cache /\ key[t] \in Key /\ buf[t] \in Buffer /\ Loaded(t) /\ pc[t] = "store"
    BY Zenon DEF Store, IInv, Types, Control, Data
  <1>2. e \in Entry BY <1>1, Zenon DEF Entry, Buffer
  <1>3. e \in Good(c) BY <1>1, <1>2, Zenon DEF Good, Loaded
  <1>4. x \in Seq(Good(c))
    <2>1. Without(c, {e.key}) \in Seq(Good(c)) BY <1>1, WithoutGood, Zenon DEF Data
    <2> HIDE DEF e, c
    <2> QED BY <1>3, <2>1
  <1>5. Enforce(c, x) \in Seq(Good(c))
    <2> HIDE DEF x, c
    <2> QED BY <1>4, EnforceIn
  <1>6. cache' = [cache EXCEPT ![c] = Enforce(c, x)] BY Zenon DEF Store
  <1>7. Caches'
    <2> HIDE DEF c, x
    <2> QED BY <1>1, <1>5, <1>6, Replace, Zenon DEF Store, disk, Data
  <1>8. pc'[t] = "pop" BY Zenon DEF Store, IInv, Types
  <1>9. \A u \in Thread \ {t} : pc'[u] = pc[u] /\ at'[u] = at[u] /\ key'[u] = key[u]
    BY Zenon DEF Store, IInv, Types
  <1>10. pc'[t] \notin {"stat", "store"} BY <1>8
  <1> QED BY <1>7, <1>9, <1>10, OthersSame, Zenon DEF Store, disk, IInv

\* The finally clause leaves caches and buffers alone, ...
LEMMA PopData == ASSUME IInv, Data, NEW t \in Thread, Pop(t) PROVE Data'
  <1>1. Caches' BY CachesSame, Zenon DEF Pop, disk, Data
  <1>2. pc'[t] = "set" BY Zenon DEF Pop, IInv, Types
  <1>3. \A u \in Thread \ {t} : pc'[u] = pc[u] /\ at'[u] = at[u] /\ key'[u] = key[u]
    BY Zenon DEF Pop, IInv, Types
  <1>4. pc'[t] \notin {"stat", "store"} BY <1>2
  <1> QED BY <1>1, <1>3, <1>4, OthersSame, Zenon DEF Pop, disk, IInv

\* ... and so does event.set(), which sends the waiters to look again.
LEMMA SetData == ASSUME IInv, Data, NEW t \in Thread, SetEvent(t) PROVE Data'
  <1>1. Caches' BY CachesSame, Zenon DEF SetEvent, disk, Data
  <1>2. pc'[t] \in {"check", "idle"} BY Zenon DEF SetEvent
  <1>3. \A u \in Thread \ {t} : /\ pc'[u] = pc[u] \/ pc'[u] = "check"
                                /\ at'[u] = at[u] /\ key'[u] = key[u]
    BY Zenon DEF SetEvent, IInv, Types
  <1>4. NoData \in Buffer BY VersionAssumption DEF NoData, Buffer
  <1>5. buf'[t] = NoData BY Zenon DEF SetEvent, Data
  <1>6. Loaded(t)' BY <1>2, <1>4, <1>5, Zenon DEF Loaded
  <1> QED BY <1>1, <1>3, <1>4, <1>6, Others, Zenon DEF SetEvent, disk, IInv

\* A step that touches neither the threads' control, the buffers nor the files.
LEMMA CacheOnly == ASSUME Data, UNCHANGED <<thread, buf, bin, ids, swept>>, Caches'
                   PROVE  Data'
  BY Zenon DEF Data, Files, Loaded, thread

\* A new hnsw_index.bin has a newer mtime, so no entry becomes better than it was.
LEMMA PublishBinData == ASSUME IInv, Data, NEW k \in Clone, PublishBin(k) PROVE Data'
  <1>0. k \in Key /\ bin[k] \in Nat /\ bin[k] + 1 \in 0..MaxVersion
    BY VersionAssumption DEF PublishBin, Key
  <1>1. \A j \in Key : bin'[j] \in 0..MaxVersion /\ bin[j] <= bin'[j]
    BY <1>0 DEF PublishBin, Data, Files
  <1>2. Files' BY <1>0 DEF PublishBin, Data, Files
  <1>3. Caches'
    <2>1. ASSUME NEW c PROVE Good(c) \subseteq Good(c)'
      <3> SUFFICES ASSUME NEW e \in Good(c) PROVE e \in Good(c)' OBVIOUS
      <3>1. e \in Entry /\ e.key \in Key /\ e.mtime \in 0..MaxVersion
        BY Zenon DEF Good, Entry
      <3>2. e.mtime <= bin[e.key] => e.mtime <= bin'[e.key]
        BY <1>1, <3>1 DEF Data, Files
      <3>3. swept' = swept BY Zenon DEF PublishBin
      <3> QED BY <3>2, <3>3, Zenon DEF Good
    <2>2. cache' = cache BY Zenon DEF PublishBin
    <2>3. \A c \in Cache : cache'[c] \in Seq(Good(c)')
      BY <2>1, <2>2, SeqMono, Zenon DEF Data, Caches
    <2> QED BY <2>2, <2>3, Zenon DEF Data, Caches
  <1>4. ASSUME NEW t \in Thread PROVE Loaded(t)'
    <2>1. Loaded(t) /\ buf[t] \in Buffer BY Zenon DEF Data
    <2>2. pc[t] \in {"stat", "store"} => key[t] \in Key BY Zenon DEF IInv, Control
    <2>3. pc' = pc /\ at' = at /\ key' = key /\ buf' = buf /\ swept' = swept
      BY Zenon DEF PublishBin, thread
    <2>4. pc[t] \in {"stat", "store"} =>
            bin[key[t]] <= bin'[key[t]] /\ bin[key[t]] \in Nat /\ bin'[key[t]] \in Nat
      BY <1>1, <2>2 DEF Data, Files
    <2>5. buf[t].data \in Nat /\ buf[t].mtime \in Nat BY <2>1 DEF Buffer
    <2>6. pc[t] = "stat" => at[t] = "hnsw" /\ buf[t].data <= bin'[key[t]]
      BY <2>1, <2>4, <2>5 DEF Loaded
    <2>7. pc[t] = "store" /\ at[t] = "hnsw" => buf[t].mtime <= bin'[key[t]]
      BY <2>1, <2>4, <2>5 DEF Loaded
    <2> QED BY <2>1, <2>3, <2>6, <2>7, Zenon DEF Loaded
  <1> QED BY <1>2, <1>3, <1>4, Zenon DEF PublishBin, Data

\* A new id_index.bin changes what is stale only when the caches are evicted.
LEMMA PublishIdsData == ASSUME IInv, Data, NEW k \in Clone, PublishIds(k) PROVE Data'
  <1>1. Files'
    <2>1. k \in Key BY DEF Key
    <2> QED BY <2>1 DEF PublishIds, Data, Files
  <1>2. Caches' BY CachesSame, Zenon DEF PublishIds, Data
  <1> QED BY <1>1, <1>2, Zenon DEF PublishIds, Data, Loaded, thread

\* invalidate_prefix in a step that leaves the last sweep as it was.
LEMMA InvalidateCaches ==
    ASSUME IInv, Data, NEW c \in Cache, NEW k, Invalidate(c, k), swept' = swept
    PROVE  Caches'
  <1>1. Without(c, {k}) \in Seq(Good(c)) BY WithoutGood, Zenon DEF Data
  <1>2. cache' = [cache EXCEPT ![c] = Without(c, {k})] /\ bin' = bin
    BY Zenon DEF Invalidate
  <1> QED BY <1>1, <1>2, Replace, Zenon DEF Data

\* The evictions of the HNSW cache that follow a re-index and a swap.
LEMMA HnswInvalid ==
    ASSUME IInv, Data, NEW k, Invalidate("hnsw", k), swept' = swept
    PROVE  Data'
  <1>1. Caches' BY InvalidateCaches, Zenon DEF Cache
  <1>2. buf' = buf
    <2>1. buf' = [t \in Thread |-> buf[t]] BY DEF Invalidate
    <2> QED BY <2>1, Zenon DEF Data
  <1> QED BY <1>1, <1>2, CacheOnly, Zenon DEF Invalidate

\* After the id cache was evicted the clone has no entry in it, and every load that
\* has read the older file is marked.
LEMMA EvictIdsData == ASSUME IInv, Data, NEW k \in Clone, EvictIds(k) PROVE Data'
  <1>0. /\ k \in Key /\ pc' = pc /\ at' = at /\ key' = key /\ bin' = bin /\ ids' = ids
        /\ swept' = [swept EXCEPT ![k] = ids[k]]
        /\ cache' = [cache EXCEPT !["id"] = Without("id", {k})]
    BY Zenon DEF EvictIds, Invalidate, thread, Key
  <1>1. Files' BY <1>0 DEF Data, Files
  <1>2. \A j \in Clone \ {k} : swept'[j] = swept[j] BY <1>0, Zenon DEF Data, Files
  <1>3. Caches'
    <2>1. Without("id", {k}) \in Seq({e \in Good("id") : e.key \notin {k}})
      <3>1. cache["id"] \in Seq(Good("id")) BY Zenon DEF Data, Caches, Cache
      <3> QED BY <3>1, WithoutIn
    <2>2. {e \in Good("id") : e.key \notin {k}} \subseteq Good("id")'
      <3> SUFFICES ASSUME NEW e \in Good("id"), e.key # k PROVE e \in Good("id")'
        BY Zenon
      <3>1. e.key \in Clone => swept'[e.key] = swept[e.key] BY <1>2, Zenon
      <3> QED BY <3>1, Zenon DEF Good
    <2>3. Without("id", {k}) \in Seq(Good("id")') BY <2>1, <2>2, SeqMono, Zenon
    <2>4. Good("hnsw")' = Good("hnsw") BY <1>0, Zenon DEF Good
    <2>5. cache'["hnsw"] = cache["hnsw"] /\ cache'["id"] = Without("id", {k})
      BY <1>0, Zenon DEF Data, Caches, Cache
    <2>6. \A c \in Cache : cache'[c] \in Seq(Good(c)')
      BY <2>3, <2>4, <2>5, Zenon DEF Data, Caches, Cache
    <2>7. Without("id", {k}) \in Seq(Entry)
      <3>1. Good("id")' \subseteq Entry BY DEF Good
      <3> QED BY <2>3, <3>1, SeqMono, Zenon
    <2>8. cache' \in [Cache -> Seq(Entry)] BY <1>0, <2>7, Zenon DEF Data, Caches
    <2> QED BY <2>6, <2>8, Zenon DEF Caches
  <1>4. ASSUME NEW t \in Thread PROVE buf'[t] \in Buffer /\ Loaded(t)'
    <2> DEFINE hit == pc[t] = "store" /\ at[t] = "id" /\ key[t] = k
    <2>1. buf'[t] = IF hit THEN [buf[t] EXCEPT !.over = TRUE] ELSE buf[t]
      BY Zenon DEF EvictIds, Invalidate
    <2>2. buf[t] \in Buffer /\ Loaded(t) BY Zenon DEF Data
    <2>3. CASE hit
      <3>1. [buf[t] EXCEPT !.over = TRUE] \in Buffer BY <2>2, Zenon DEF Buffer
      <3>2. [buf[t] EXCEPT !.over = TRUE].over = TRUE BY <2>2, Zenon DEF Buffer
      <3> HIDE DEF hit
      <3>3. buf'[t] \in Buffer /\ buf'[t].over = TRUE
        BY <2>1, <2>3, <3>1, <3>2, Zenon
      <3>4. pc'[t] = "store" /\ at'[t] = "id" BY <1>0, <2>3, Zenon DEF hit
      <3> QED BY <3>3, <3>4, Zenon DEF Loaded
    <2>4. CASE ~hit
      <3>1. buf'[t] = buf[t] BY <2>1, <2>4
      <3>2. pc[t] = "store" /\ at[t] = "id" /\ key[t] \in Clone =>
              swept'[key[t]] = swept[key[t]]
        BY <1>2, <2>4, Zenon
      <3> QED BY <1>0, <2>2, <3>1, <3>2, Zenon DEF Loaded
    <2> QED BY <2>3, <2>4, Zenon
  <1>5. buf' \in [Thread -> Buffer]
    <2>1. buf' = [t \in Thread |-> buf'[t]] BY Zenon DEF EvictIds, Invalidate
    <2> QED BY <1>4, <2>1, Zenon
  <1> QED BY <1>1, <1>3, <1>4, <1>5, Zenon DEF Data

\* Sweeping filters.
LEMMA SweepData == ASSUME IInv, Data, NEW c \in Cache, Sweep(c) PROVE Data'
  <1> DEFINE keep == {e \in Range(cache[c]) : ~e.expired}
  <1>1. cache' = [cache EXCEPT ![c] = Filter(cache[c], keep)]
    BY Zenon DEF Sweep, Data, Caches
  <1>2. Filter(cache[c], keep) \in Seq(Good(c))
    <2> HIDE DEF keep
    <2> QED BY FilterIn, Zenon DEF Data, Caches
  <1>3. Caches'
    <2> HIDE DEF keep
    <2> QED BY <1>1, <1>2, Replace, Zenon DEF Sweep, disk, Data
  <1> QED BY <1>3, CacheOnly, Zenon DEF Sweep, disk

\* Expiry changes no data.
LEMMA ExpireData == ASSUME IInv, Data, NEW c \in Cache, NEW k \in Key, Expire(c, k)
                    PROVE  Data'
  <1> DEFINE s == cache[c]
             x == [i \in DOMAIN s |-> [s[i] EXCEPT !.expired = s[i].expired \/ s[i].key = k]]
  <1>1. cache' = [cache EXCEPT ![c] = x] BY Zenon DEF Expire, Data, Caches
  <1>2. s \in Seq(Good(c)) BY Zenon DEF Data, Caches
  <1>3. \A i \in DOMAIN s : s[i] \in Good(c) BY <1>2
  <1>4. ASSUME NEW e \in Good(c), NEW b \in BOOLEAN PROVE [e EXCEPT !.expired = b] \in Good(c)
    <2>1. e \in Entry BY Zenon DEF Good
    <2>2. [e EXCEPT !.expired = b] \in Entry BY <2>1, Zenon DEF Entry
    <2>3. /\ [e EXCEPT !.expired = b].key = e.key /\ [e EXCEPT !.expired = b].data = e.data
          /\ [e EXCEPT !.expired = b].mtime = e.mtime
          /\ [e EXCEPT !.expired = b].over = e.over
      BY <2>1
    <2> QED BY <2>2, <2>3, Zenon DEF Good
  <1>5. ASSUME NEW i \in DOMAIN s PROVE x[i] \in Good(c)
    <2>1. (s[i].expired \/ s[i].key = k) \in BOOLEAN BY Zenon
    <2>2. x[i] = [s[i] EXCEPT !.expired = s[i].expired \/ s[i].key = k] OBVIOUS
    <2> HIDE DEF x, s
    <2> QED BY <1>3, <1>4, <2>2, Zenon
  <1>6. x \in Seq(Good(c))
    <2>1. DOMAIN x = 1..Len(s) /\ Len(s) \in Nat BY <1>2
    <2>2. x \in [1..Len(s) -> Good(c)] BY <1>5, <2>1, Zenon
    <2> HIDE DEF x, s
    <2> QED BY <2>2
  <1>7. Caches'
    <2> HIDE DEF x
    <2> QED BY <1>1, <1>6, Replace, Zenon DEF Expire, disk, Data
  <1> QED BY <1>7, CacheOnly, Zenon DEF Expire, disk

\* The memory governor drops the entries accessed least recently.
LEMMA EvictLruData == ASSUME IInv, Data, NEW n \in 1..Len(cache["hnsw"]), EvictLru(n)
                      PROVE  Data'
  <1> DEFINE s == cache["hnsw"]
             x == SubSeq(s, n + 1, Len(s))
  <1>1. cache' = [cache EXCEPT !["hnsw"] = x]
    BY Zenon DEF EvictLru, Data, Caches, Cache
  <1>2. s \in Seq(Good("hnsw")) BY Zenon DEF Data, Caches, Cache
  <1>3. n + 1 \in 1..Len(s) + 1 BY <1>2
  <1>4. x \in Seq(Good("hnsw")) BY <1>2, <1>3, SubSeqIn, Zenon
  <1>5. Caches'
    <2> HIDE DEF x
    <2> QED BY <1>1, <1>4, Replace, Zenon DEF EvictLru, disk, Data, Cache
  <1> QED BY <1>5, CacheOnly, Zenon DEF EvictLru, disk

\* Data is inductive relative to IInv.
LEMMA DataNext == IInv /\ Data /\ [Next]_vars => Data'
  <1> SUFFICES ASSUME IInv, Data, [Next]_vars PROVE Data' OBVIOUS
  <1>1. ASSUME NEW t \in Thread, LoadStep(t) PROVE Data'
    BY <1>1, LoadData, StoreData, PopData, SetData, Zenon DEF LoadStep
  <1>2. ASSUME NEW k \in Clone, ReindexFails(k) PROVE Data'
    BY <1>2, CachesSame, CacheOnly, Zenon DEF ReindexFails, Data
  <1>3. ASSUME NEW k \in Clone, EvictHnsw(k) PROVE Data'
    BY <1>3, HnswInvalid, Zenon DEF EvictHnsw
  <1>4. ASSUME NEW k \in Snapshot, SwapOut(k) \/ EvictSwapped(k) PROVE Data'
    <2>1. CASE SwapOut(k) BY <2>1, CachesSame, CacheOnly, Zenon DEF SwapOut, Data
    <2>2. CASE EvictSwapped(k) BY <2>2, HnswInvalid, Zenon DEF EvictSwapped
    <2> QED BY <1>4, <2>1, <2>2
  <1>5. CASE UNCHANGED vars BY <1>5, CachesSame, CacheOnly, Zenon
                               DEF vars, thread, Data
  <1>6. CASE \E t \in Thread : \/ Hit(t) \/ Miss(t) \/ LoadStep(t)
                           \/ \E k \in Key : StartSearch(t, k)
    BY <1>1, <1>6, HitData, MissData, StartData, Zenon
  <1>7. CASE \E k \in Clone : \/ PublishBin(k) \/ PublishIds(k) \/ ReindexFails(k)
                              \/ EvictHnsw(k) \/ EvictIds(k)
    BY <1>2, <1>3, <1>7, PublishBinData, PublishIdsData, EvictIdsData, Zenon
  <1>8. CASE \E c \in Cache : Sweep(c) \/ \E k \in Key : Expire(c, k)
    BY <1>8, SweepData, ExpireData, Zenon
  <1>9. CASE \E n \in 1..Len(cache["hnsw"]) : EvictLru(n)
    BY <1>9, EvictLruData, Zenon
  <1> QED BY <1>4, <1>5, <1>6, <1>7, <1>8, <1>9, Zenon DEF Next

\* Both hold in every reachable state.
LEMMA Invariance == Spec => [](IInv /\ Data)
  <1>1. Init => IInv /\ Data BY InitIInv, DataInit
  <1>2. IInv /\ Data /\ [Next]_vars => (IInv /\ Data)' BY NextIInv, DataNext
  <1> QED BY <1>1, <1>2, PTL DEF Spec

\* Type correctness, for any number of threads, collections and versions.
THEOREM TypeCorrect == Spec => []TypeOK
  <1>1. IInv /\ Data => TypeOK
    <2>1. Caches => \A c \in Cache : Range(cache[c]) \subseteq Entry
      BY RangeIn, Zenon DEF Caches
    <2> QED BY <2>1, Zenon
               DEF IInv, Types, Control, Data, Files, Buffer, TypeOK, Where
  <1> QED BY Invariance, <1>1, PTL

\* What the HNSW cache would serve is what is on disk, whatever re-indexings and
\* evictions raced its load, unless the file was replaced between load and stat.
THEOREM HitsAreCurrent == Spec => []ServesCurrent
  <1>1. IInv /\ Data => ServesCurrent
    <2> SUFFICES ASSUME Data, NEW k \in Key, IsHit("hnsw", k)
                 PROVE  LET e == Lookup("hnsw", k) IN e.data = bin[k] \/ e.data < e.mtime
      BY Zenon DEF ServesCurrent
    <2> DEFINE e == Lookup("hnsw", k)
    <2>1. k \in Keys("hnsw") /\ ~(bin[e.key] > e.mtime) BY Zenon DEF IsHit, Newer
    <2>2. e \in Good("hnsw") /\ e.key = k BY <2>1, LookupIn, Zenon DEF Data, Cache
    <2> HIDE DEF e
    <2>3. /\ e.data \in Nat /\ e.mtime \in Nat /\ bin[k] \in Nat
          /\ e.data <= e.mtime /\ e.mtime <= bin[k]
      BY <2>2 DEF Good, Entry, Data, Files
    <2>4. e.data = bin[k] \/ e.data < e.mtime BY <2>1, <2>2, <2>3
    <2> QED BY <2>4, Zenon DEF e
  <1> QED BY Invariance, <1>1, PTL

\* invalidate_prefix misses no id index but one that a load in flight stores later.
THEOREM StaleIdsWereInFlight == Spec => []SurvivorsWereInFlight
  <1>1. IInv /\ Data => SurvivorsWereInFlight
    <2> SUFFICES ASSUME Data, NEW k \in Clone, k \in Keys("id")
                 PROVE  LET e == Lookup("id", k) IN e.data < swept[k] => e.over
      BY Zenon DEF SurvivorsWereInFlight
    <2> DEFINE e == Lookup("id", k)
    <2>2. e \in Good("id") /\ e.key = k BY LookupIn, Zenon DEF Data, Cache
    <2> HIDE DEF e
    <2>4. e.data < swept[k] => e.over BY <2>2, Zenon DEF Good
    <2> QED BY <2>4 DEF e
  <1> QED BY Invariance, <1>1, PTL

----------------------------------------------------------------------------
\* Entries have a weight: their size, or one each in the id cache.
LEMMA WeightNat == ASSUME NEW c \in Cache, NEW e \in Entry PROVE Weight(c, e) \in Nat
  <1>1. e.key \in Key /\ e.data \in 0..MaxVersion BY DEF Entry
  <1> QED BY <1>1, SizeAssumption, Zenon DEF Weight

\* One step of Sums.
Plus(c, s, f, i) == IF i = 0 THEN 0 ELSE f[i - 1] + Weight(c, s[i])

\* The recursion of Sums has a solution, ...
LEMMA SumsExist ==
    ASSUME NEW c \in Cache, NEW s \in Seq(Entry)
    PROVE  \E f \in [0..Len(s) -> Nat] : \A i \in 0..Len(s) : f[i] = Plus(c, s, f, i)
<1> DEFINE Solved(n) == \E f \in [0..n -> Nat] :
                          \A i \in 0..n : f[i] = Plus(c, s, f, i)
           P == {n \in 0..Len(s) : Solved(n)}
<1>1. 0 \in P
  <2> DEFINE g == [i \in 0..0 |-> 0]
  <2>1. g \in [0..0 -> Nat] OBVIOUS
  <2>2. \A i \in 0..0 : g[i] = Plus(c, s, g, i) BY DEF Plus
  <2> HIDE DEF g
  <2>3. Solved(0) BY <2>1, <2>2, Zenon
  <2> HIDE DEF Solved
  <2> QED BY <2>3
<1>2. ASSUME NEW n \in 0..Len(s) - 1, n \in P PROVE n + 1 \in P
  <2>1. PICK f \in [0..n -> Nat] : \A i \in 0..n : f[i] = Plus(c, s, f, i)
    BY <1>2, Zenon
  <2> DEFINE m == n + 1
             g == [i \in 0..m |-> IF i = m THEN Plus(c, s, f, m) ELSE f[i]]
  <2>2. m \in 1..Len(s) /\ s[m] \in Entry /\ f[m - 1] \in Nat OBVIOUS
  <2>3. Plus(c, s, f, m) \in Nat BY DEF Plus
  <2>4. g \in [0..m -> Nat] BY <2>3
  <2>5. ASSUME NEW i \in 0..m PROVE g[i] = Plus(c, s, g, i)
    <3>1. i = 0 \/ (i - 1 \in 0..m /\ i - 1 # m) OBVIOUS
    <3>2. i = 0 \/ g[i - 1] = f[i - 1] BY <3>1, Zenon
    <3>3. Plus(c, s, g, i) = Plus(c, s, f, i)
      <4> HIDE DEF g
      <4>1. CASE i = 0 BY <4>1, Zenon DEF Plus
      <4>2. CASE g[i - 1] = f[i - 1] BY <4>2, Zenon DEF Plus
      <4> QED BY <3>2, <4>1, <4>2, Zenon
    <3>4. g[i] = Plus(c, s, f, i) BY <2>1
    <3> QED BY <3>3, <3>4, Zenon
  <2>6. Solved(m)
    <3> HIDE DEF g, m
    <3> QED BY <2>4, <2>5, Zenon
  <2> HIDE DEF Solved
  <2> QED BY <2>6
<1>3. Len(s) \in 0..Len(s) /\ Len(s) \in Nat OBVIOUS
<1>4. Len(s) \in P
  <2> HIDE DEF P
  <2> QED BY <1>1, <1>2, <1>3, Induct, Zenon
<1> QED BY <1>4

\* ... which Sums follows.
LEMMA SumsIs ==
    ASSUME NEW c \in Cache, NEW s \in Seq(Entry)
    PROVE  /\ Sums(c, s) \in [0..Len(s) -> Nat]
           /\ \A i \in 0..Len(s) : Sums(c, s)[i] = Plus(c, s, Sums(c, s), i)
<1> DEFINE G(f) == [i \in 0..Len(s) |-> IF i = 0 THEN 0 ELSE f[i - 1] + Weight(c, s[i])]
           F == Sums(c, s)
<1>1. PICK f \in [0..Len(s) -> Nat] : \A i \in 0..Len(s) : f[i] = Plus(c, s, f, i)
  BY SumsExist, Zenon
<1>2. f = G(f) BY DEF Plus
<1>3. F = CHOOSE h : h = G(h) BY DEF Sums
<1>4. F = G(F)
  <2> HIDE DEF G
  <2> QED BY <1>2, <1>3, Zenon
<1>5. \A i \in 0..Len(s) : F[i] = Plus(c, s, F, i) BY <1>4, Zenon DEF Plus
<1>6. DOMAIN F = 0..Len(s) BY <1>4, Zenon
<1> HIDE DEF F
<1> DEFINE P == {n \in 0..Len(s) : F[n] \in Nat}
<1>7. 0 \in P BY <1>5
<1>8. ASSUME NEW n \in 0..Len(s) - 1, n \in P PROVE n + 1 \in P
  <2>1. n + 1 \in 0..Len(s) /\ n + 1 # 0 /\ n + 1 - 1 = n /\ s[n + 1] \in Entry OBVIOUS
  <2>2. F[n + 1] = F[n] + Weight(c, s[n + 1]) BY <1>5 DEF Plus
  <2>3. F[n] \in Nat BY <1>8
  <2> QED BY <2>3, WeightNat
<1>9. \A i \in 0..Len(s) : i \in P
  <2> HIDE DEF P
  <2> QED BY <1>7
<1>10. F = [i \in 0..Len(s) |-> F[i]] BY <1>4, Zenon DEF F
<1>11. F \in [0..Len(s) -> Nat] BY <1>10
<1> QED BY <1>5, <1>11, Zenon DEF F

\* The recursion of Sums, in the form the proofs below use it.
LEMMA SumsStep ==
    ASSUME NEW c \in Cache, NEW s \in Seq(Entry)
    PROVE  /\ Sums(c, s)[0] = 0
           /\ \A n \in 0..Len(s) : Sums(c, s)[n] \in Nat
           /\ \A n \in 0..Len(s) - 1 : /\ s[n + 1] \in Entry
                                       /\ Weight(c, s[n + 1]) \in Nat
                                       /\ Sums(c, s)[n + 1] =
                                            Sums(c, s)[n] + Weight(c, s[n + 1])
           /\ Total(c, s) \in Nat
<1>1. 0 \in 0..Len(s) /\ Len(s) \in 0..Len(s) OBVIOUS
<1>2. Sums(c, s)[0] = 0 BY SumsIs DEF Plus
<1>3. ASSUME NEW n \in 0..Len(s) - 1
      PROVE  /\ s[n + 1] \in Entry
             /\ Weight(c, s[n + 1]) \in Nat
             /\ Sums(c, s)[n + 1] =
                                            Sums(c, s)[n] + Weight(c, s[n + 1])
  <2>1. n + 1 \in 0..Len(s) /\ n + 1 # 0 /\ n + 1 - 1 = n /\ s[n + 1] \in Entry OBVIOUS
  <2>2. Sums(c, s)[n + 1] = Plus(c, s, Sums(c, s), n + 1) BY <2>1, SumsIs, Zenon
  <2> QED BY <2>2, WeightNat DEF Plus
<1>4. \A n \in 0..Len(s) : Sums(c, s)[n] \in Nat BY SumsIs, Zenon
<1> QED BY <1>1, <1>2, <1>3, <1>4, Zenon DEF Total

\* The sums of two sequences agree as far as their weights do.
LEMMA SumsAgree ==
    ASSUME NEW c \in Cache, NEW s \in Seq(Entry), NEW u \in Seq(Entry), NEW n \in Nat,
           n <= Len(s), n <= Len(u), \A i \in 1..n : Weight(c, s[i]) = Weight(c, u[i])
    PROVE  Sums(c, s)[n] = Sums(c, u)[n]
<1> DEFINE P == {i \in 0..n : Sums(c, s)[i] = Sums(c, u)[i]}
<1>1. 0 \in P BY SumsStep
<1>2. ASSUME NEW i \in 0..n - 1, i \in P PROVE i + 1 \in P
  <2>1. i \in 0..Len(s) - 1 /\ i \in 0..Len(u) - 1 /\ i + 1 \in 1..n /\ i + 1 \in 0..n OBVIOUS
  <2>2. Sums(c, s)[i + 1] = Sums(c, s)[i] + Weight(c, s[i + 1])
    BY <2>1, SumsStep, Zenon
  <2>3. Sums(c, u)[i + 1] = Sums(c, u)[i] + Weight(c, u[i + 1])
    BY <2>1, SumsStep, Zenon
  <2> QED BY <1>2, <2>1, <2>2, <2>3, Zenon
<1>3. n \in P
  <2> HIDE DEF P
  <2>1. n \in 0..n OBVIOUS
  <2> QED BY <1>1, <1>2, <2>1, Induct, Zenon
<1> QED BY <1>3, Zenon

\* An entry adds its weight to the total.
LEMMA TotalAppend ==
    ASSUME NEW c \in Cache, NEW s \in Seq(Entry), NEW e \in Entry
    PROVE  Total(c, Append(s, e)) = Total(c, s) + Weight(c, e)
<1> DEFINE u == Append(s, e)
<1>1. u \in Seq(Entry) /\ Len(u) = Len(s) + 1 /\ Len(s) \in Nat /\ u[Len(s) + 1] = e
  OBVIOUS
<1>2. \A i \in 1..Len(s) : Weight(c, u[i]) = Weight(c, s[i]) OBVIOUS
<1> HIDE DEF u
<1>3. Sums(c, u)[Len(s)] = Sums(c, s)[Len(s)]
  <2>1. Len(s) <= Len(u) /\ Len(s) <= Len(s) BY <1>1
  <2> QED BY <1>1, <1>2, <2>1, SumsAgree, Zenon
<1>4. Sums(c, u)[Len(s) + 1] = Sums(c, u)[Len(s)] + Weight(c, u[Len(s) + 1])
  <2>1. Len(s) \in 0..Len(u) - 1 BY <1>1
  <2> QED BY <1>1, <2>1, SumsStep, Zenon
<1> QED BY <1>1, <1>3, <1>4, Zenon DEF Total, u

\* An empty cache weighs nothing.
LEMMA TotalEmpty == ASSUME NEW c \in Cache PROVE Total(c, <<>>) = 0
  <1>1. <<>> \in Seq(Entry) /\ Len(<<>>) = 0 OBVIOUS
  <1> QED BY <1>1, SumsStep, Zenon DEF Total

\* Filtering never makes a sequence heavier, and each entry that it drops makes
\* it lighter by its weight.
LEMMA FilterWeighs ==
    ASSUME NEW c \in Cache, NEW s \in Seq(Entry), NEW keep, NEW j \in 0..Len(s),
           j = 0 \/ s[j] \notin keep
    PROVE  /\ Total(c, Filter(s, keep)) <= Total(c, s)
           /\ j # 0 => Total(c, Filter(s, keep)) + Weight(c, s[j]) <= Total(c, s)
<1> DEFINE F == Kept(s, keep)
           T(n) == Total(c, F[n])
           P == {n \in 0..Len(s) :
                   /\ T(n) <= Sums(c, s)[n]
                   /\ j # 0 /\ j <= n => T(n) + Weight(c, s[j]) <= Sums(c, s)[n]}
<1>0. /\ F[0] = <<>>
      /\ \A n \in 0..Len(s) : F[n] \in Seq(Entry)
      /\ \A n \in 0..Len(s) - 1 : Grows(s, keep, F, n)
  <2>1. /\ F[0] = <<>>
        /\ \A n \in 0..Len(s) : F[n] \in Seq(Entry \cap keep)
        /\ \A n \in 0..Len(s) - 1 : Grows(s, keep, F, n)
    <3>1. F[0] = <<>> BY KeptStep, Zenon
    <3>2. \A n \in 0..Len(s) : F[n] \in Seq(Entry \cap keep) BY KeptStep, Zenon
    <3>3. ASSUME NEW n \in 0..Len(s) - 1
          PROVE  Grows(s, keep, F, n)
      BY KeptNext, Zenon
    <3> QED BY <3>1, <3>2, <3>3, Zenon
  <2>2. Entry \cap keep \subseteq Entry OBVIOUS
  <2> HIDE DEF F
  <2>3. \A n \in 0..Len(s) : F[n] \in Seq(Entry) BY <2>1, SeqMono, Zenon
  <2> QED BY <2>1, <2>3, Zenon
<1>1. j # 0 => Weight(c, s[j]) \in Nat
  <2>1. j # 0 => s[j] \in Entry OBVIOUS
  <2> QED BY <2>1, WeightNat, Zenon
<1> HIDE DEF F
<1>2. 0 \in P
  <2>1. T(0) = 0 BY <1>0, TotalEmpty, Zenon
  <2>2. Sums(c, s)[0] = 0 BY SumsStep, Zenon
  <2> HIDE DEF T
  <2> QED BY <2>1, <2>2
<1>3. ASSUME NEW n \in 0..Len(s) - 1, n \in P PROVE n + 1 \in P
  <2>1. n \in 0..Len(s) /\ n + 1 \in 0..Len(s) OBVIOUS
  <2>2. /\ Sums(c, s)[n + 1] =
                                            Sums(c, s)[n] + Weight(c, s[n + 1])
        /\ Sums(c, s)[n] \in Nat /\ Weight(c, s[n + 1]) \in Nat /\ s[n + 1] \in Entry
    BY <2>1, SumsStep, Zenon
  <2>3. T(n) \in Nat BY <1>0, <2>1, SumsStep, Zenon
  <2>4. CASE s[n + 1] \in keep
    <3>1. T(n + 1) = T(n) + Weight(c, s[n + 1])
      <4>1. F[n + 1] = Append(F[n], s[n + 1]) BY <1>0, <2>4, Zenon DEF Grows
      <4> QED BY <1>0, <2>1, <2>2, <4>1, TotalAppend, Zenon
    <3>2. j # n + 1 \/ j = 0 BY <2>4
    <3> HIDE DEF T
    <3> QED BY <1>1, <1>3, <2>2, <2>3, <3>1, <3>2
  <2>5. CASE s[n + 1] \notin keep
    <3>1. T(n + 1) = T(n) BY <1>0, <2>5, Zenon DEF Grows
    <3> HIDE DEF T
    <3>2. T(n + 1) <= Sums(c, s)[n + 1] BY <1>3, <2>2, <2>3, <3>1
    <3>3. j = n + 1 => T(n + 1) + Weight(c, s[j]) <= Sums(c, s)[n + 1]
      BY <1>3, <2>2, <2>3, <3>1
    <3>4. j # 0 /\ j <= n => T(n + 1) + Weight(c, s[j]) <= Sums(c, s)[n + 1]
      BY <1>1, <1>3, <2>2, <2>3, <3>1
    <3> QED BY <3>2, <3>3, <3>4
  <2> QED BY <2>4, <2>5, Zenon
<1>4. Len(s) \in P
  <2>1. Len(s) \in Nat /\ Len(s) \in 0..Len(s) OBVIOUS
  <2> HIDE DEF P
  <2> QED BY <1>2, <1>3, <2>1, Induct, Zenon
<1> QED BY <1>4 DEF Filter, Total, F

\* No entry weighs more than all together.
LEMMA EntryWeighs ==
    ASSUME NEW c \in Cache, NEW s \in Seq(Entry), NEW j \in 1..Len(s)
    PROVE  Weight(c, s[j]) <= Total(c, s)
<1>1. j \in 0..Len(s) /\ j # 0 /\ s[j] \notin {} /\ s[j] \in Entry OBVIOUS
<1>2. Total(c, Filter(s, {})) + Weight(c, s[j]) <= Total(c, s)
  BY <1>1, FilterWeighs, Zenon
<1>3. Total(c, Filter(s, {})) \in Nat
  <2>1. Filter(s, {}) \in Seq(Entry) BY FilterIn, Zenon
  <2> QED BY <2>1, SumsStep, Zenon
<1>4. Weight(c, s[j]) \in Nat /\ Total(c, s) \in Nat
  BY <1>1, WeightNat, SumsStep, Zenon
<1> QED BY <1>2, <1>3, <1>4

\* The most recently used entries weigh no more than all.
LEMMA TailWeighs ==
    ASSUME NEW c \in Cache, NEW s \in Seq(Entry), NEW m \in 0..Len(s)
    PROVE  Total(c, SubSeq(s, m + 1, Len(s))) <= Total(c, s)
<1> DEFINE u == SubSeq(s, m + 1, Len(s))
           P == {n \in 0..Len(u) : Sums(c, u)[n] <= Sums(c, s)[m + n]}
<1>1. /\ u \in Seq(Entry) /\ Len(u) = Len(s) - m /\ Len(u) \in Nat
      /\ \A n \in 1..Len(u) : u[n] = s[m + n]
  OBVIOUS
<1> HIDE DEF u
<1>2. 0 \in P
  <2>1. m + 0 = m /\ m \in 0..Len(s) /\ 0 \in 0..Len(u) BY <1>1
  <2>2. Sums(c, u)[0] = 0 /\ Sums(c, s)[m] \in Nat BY <1>1, SumsStep, Zenon
  <2> QED BY <2>2
<1>3. ASSUME NEW n \in 0..Len(u) - 1, n \in P PROVE n + 1 \in P
  <2>1. /\ n \in 0..Len(u) /\ n + 1 \in 0..Len(u) /\ n + 1 \in 1..Len(u)
        /\ m + n \in 0..Len(s) - 1 /\ m + n \in 0..Len(s) /\ m + (n + 1) = (m + n) + 1
    BY <1>1
  <2>2. /\ Sums(c, u)[n + 1] = Sums(c, u)[n] + Weight(c, u[n + 1])
        /\ Sums(c, u)[n] \in Nat /\ Weight(c, u[n + 1]) \in Nat
    BY <1>1, <2>1, SumsStep, Zenon
  <2>3. /\ Sums(c, s)[(m + n) + 1] = Sums(c, s)[m + n] + Weight(c, s[(m + n) + 1])
        /\ Sums(c, s)[m + n] \in Nat
    BY <2>1, SumsStep, Zenon
  <2>4. u[n + 1] = s[(m + n) + 1] BY <1>1
  <2> QED BY <1>3, <2>2, <2>3, <2>4
<1>4. Len(u) \in P
  <2>1. Len(u) \in 0..Len(u) BY <1>1
  <2> HIDE DEF P
  <2> QED BY <1>1, <1>2, <1>3, <2>1, Induct, Zenon
<1>5. m + Len(u) = Len(s) BY <1>1
<1> QED BY <1>4, <1>5, Zenon DEF Total, u

\* Filtering leaves a sequence alone of which everything is kept, up to there.
LEMMA KeptAll ==
    ASSUME NEW S, NEW s \in Seq(S), NEW keep, NEW n \in 0..Len(s),
           \A i \in 1..n : s[i] \in keep
    PROVE  Kept(s, keep)[n] = SubSeq(s, 1, n)
<1> DEFINE F == Kept(s, keep)
           P == {i \in 0..n : F[i] = SubSeq(s, 1, i)}
<1>1. F[0] = <<>> BY KeptStep, Zenon
<1>2. ASSUME NEW i \in 0..Len(s) - 1, s[i + 1] \in keep
      PROVE  F[i + 1] = Append(F[i], s[i + 1])
  <2>1. Grows(s, keep, F, i) BY KeptNext, Zenon
  <2> HIDE DEF F
  <2> QED BY <1>2, <2>1, Zenon DEF Grows
<1> HIDE DEF F
<1>3. 0 \in P
  <2>1. 0 \in 0..n /\ <<>> = SubSeq(s, 1, 0) OBVIOUS
  <2> QED BY <1>1, <2>1, Zenon
<1>4. ASSUME NEW i \in 0..n - 1, i \in P PROVE i + 1 \in P
  <2>1. i + 1 \in 0..n /\ i + 1 \in 1..n /\ i \in 0..Len(s) - 1 OBVIOUS
  <2>2. F[i + 1] = Append(SubSeq(s, 1, i), s[i + 1]) BY <1>2, <1>4, <2>1, Zenon
  <2>3. Append(SubSeq(s, 1, i), s[i + 1]) = SubSeq(s, 1, i + 1) BY <2>1
  <2> QED BY <2>1, <2>2, <2>3, Zenon
<1>5. n \in P
  <2>1. n \in Nat /\ n \in 0..n OBVIOUS
  <2> HIDE DEF P
  <2> QED BY <1>3, <1>4, <2>1, Induct, Zenon
<1> QED BY <1>5, Zenon DEF F

\* After _enforce_size_limit the rest is within the cap.
LEMMA EnforceFits ==
    ASSUME NEW c \in Cache, NEW s \in Seq(Entry)
    PROVE  Total(c, Enforce(c, s)) <= Cap[c]
<1> DEFINE keep == {e \in Range(s) : Weight(c, e) <= Cap[c]}
           fit == Filter(s, keep)
           from == {i \in 1..Len(fit) : Total(c, SubSeq(fit, i, Len(fit))) <= Cap[c]}
           all == from \cup {Len(fit) + 1}
<1>1. fit \in Seq(Entry)
  <2> HIDE DEF keep
  <2> QED BY FilterIn, Zenon
<1>2. all \subseteq Nat /\ all # {}
  <2> HIDE DEF fit
  <2> QED BY <1>1
<1>3. Min(all) \in all
  <2> HIDE DEF all
  <2> QED BY <1>2, MinIn, Zenon
<1>4. Enforce(c, s) = SubSeq(fit, Min(all), Len(fit)) BY DEF Enforce
<1>5. CASE Min(all) \in from
  <2> HIDE DEF fit, all
  <2> QED BY <1>4, <1>5, Zenon
<1>6. CASE Min(all) = Len(fit) + 1
  <2>1. SubSeq(fit, Len(fit) + 1, Len(fit)) = <<>>
    <3> HIDE DEF fit
    <3> QED BY <1>1
  <2>2. Cap[c] \in Nat BY CapAssumption
  <2> HIDE DEF fit, all
  <2>3. Enforce(c, s) = <<>> BY <1>4, <1>6
  <2>4. Total(c, Enforce(c, s)) = 0 BY <2>3, TotalEmpty, Zenon
  <2> QED BY <2>2, <2>4
<1>7. Min(all) \in from \/ Min(all) = Len(fit) + 1
  <2> HIDE DEF fit, from
  <2> QED BY <1>3
<1> QED BY <1>5, <1>6, <1>7, Zenon

\* An entry larger than the cap is dropped and costs no other entry its place.
LEMMA EnforceOversized ==
    ASSUME NEW c \in Cache, NEW s \in Seq(Entry), NEW e \in Entry,
           Total(c, s) <= Cap[c], Weight(c, e) > Cap[c]
    PROVE  Enforce(c, Append(s, e)) = s
<1> DEFINE u == Append(s, e)
           keep == {x \in Range(u) : Weight(c, x) <= Cap[c]}
           fit == Filter(u, keep)
           from == {i \in 1..Len(fit) : Total(c, SubSeq(fit, i, Len(fit))) <= Cap[c]}
           all == from \cup {Len(fit) + 1}
<1>0. Cap[c] \in Nat /\ Weight(c, e) \in Nat /\ Total(c, s) \in Nat
  BY CapAssumption, WeightNat, SumsStep, Zenon
<1>1. /\ u \in Seq(Entry) /\ Len(u) = Len(s) + 1 /\ Len(s) \in Nat /\ u[Len(s) + 1] = e
      /\ \A i \in 1..Len(s) : u[i] = s[i] /\ s[i] \in Entry
      /\ SubSeq(u, 1, Len(s)) = s
  OBVIOUS
<1>2. \A i \in 1..Len(s) : u[i] \in keep
  <2> TAKE i \in 1..Len(s)
  <2>1. Weight(c, s[i]) <= Total(c, s) /\ Weight(c, s[i]) \in Nat
    BY <1>1, EntryWeighs, WeightNat, Zenon
  <2>2. Weight(c, s[i]) <= Cap[c] BY <1>0, <2>1
  <2>3. u[i] \in Range(u)
    <3>1. i \in DOMAIN u BY <1>1
    <3> HIDE DEF u
    <3> QED BY <3>1, Zenon DEF Range
  <2> HIDE DEF u
  <2> QED BY <1>1, <2>2, <2>3, Zenon
<1>3. u[Len(s) + 1] \notin keep
  <2>1. ~(Weight(c, e) <= Cap[c]) BY <1>0
  <2> HIDE DEF u
  <2> QED BY <1>1, <2>1, Zenon
<1>4. fit = s
  <2> HIDE DEF keep, u
  <2>1. Len(s) \in 0..Len(u) /\ Len(s) \in 0..Len(u) - 1 BY <1>1
  <2>2. Kept(u, keep)[Len(s)] = s BY <1>1, <1>2, <2>1, KeptAll, Zenon
  <2>3. Kept(u, keep)[Len(s) + 1] = Kept(u, keep)[Len(s)]
    <3>1. u \in Seq(Entry) /\ Len(s) \in 0..Len(u) - 1 BY <1>1, <2>1, Zenon
    <3>2. Grows(u, keep, Kept(u, keep), Len(s)) BY <3>1, KeptNext, Zenon
    <3> QED BY <1>3, <3>2, Zenon DEF Grows
  <2> QED BY <1>1, <2>2, <2>3, Zenon DEF Filter
<1>5. SubSeq(s, 1, Len(s)) = s OBVIOUS
<1>6. all \subseteq Nat /\ 1 \in all /\ \A v \in all : v >= 1
  <2>1. all = {i \in 1..Len(s) : Total(c, SubSeq(s, i, Len(s))) <= Cap[c]} \cup {Len(s) + 1}
    <3> HIDE DEF fit
    <3> QED BY <1>4, Zenon
  <2>2. Total(c, SubSeq(s, 1, Len(s))) <= Cap[c] BY <1>5, Zenon
  <2> HIDE DEF all
  <2>3. Len(s) = 0 \/ 1 \in 1..Len(s) BY <1>1
  <2>4. 1 \in all BY <2>1, <2>2
  <2> QED BY <2>1, <2>4
<1>7. Min(all) = 1
  <2> HIDE DEF all
  <2>1. Min(all) \in all /\ Min(all) <= 1 BY <1>6, MinIn, Zenon
  <2>2. Min(all) \in Nat /\ Min(all) >= 1 BY <1>6, <2>1, Zenon
  <2> QED BY <2>1, <2>2
<1>8. Enforce(c, u) = SubSeq(fit, Min(all), Len(fit)) BY Zenon DEF Enforce
<1> HIDE DEF fit, all
<1> QED BY <1>4, <1>7, <1>8

----------------------------------------------------------------------------
\* Each cache is within its cap.
InCap == \A c \in Cache : Total(c, cache[c]) <= Cap[c]

\* An action that replaces the content of one cache by something lighter.
LEMMA LighterCap ==
    ASSUME Caches, InCap, NEW c \in Cache, NEW x \in Seq(Entry),
           Total(c, x) <= Total(c, cache[c]) \/ Total(c, x) <= Cap[c],
           cache' = [cache EXCEPT ![c] = x]
    PROVE  InCap'
<1>1. cache[c] \in Seq(Entry) BY Zenon DEF Caches
<1>2. Total(c, x) \in Nat /\ Total(c, cache[c]) \in Nat BY <1>1, SumsStep, Zenon
<1>3. Total(c, x) <= Cap[c]
  <2>1. Cap[c] \in Nat /\ Total(c, cache[c]) <= Cap[c]
    BY CapAssumption, Zenon DEF InCap
  <2> QED BY <1>2, <2>1
<1>4. \A d \in Cache : cache'[d] = IF d = c THEN x ELSE cache[d] BY Zenon DEF Caches
<1>5. \A d \in Cache : Total(d, cache'[d]) <= Cap[d] BY <1>3, <1>4, Zenon DEF InCap
<1> QED BY <1>5, Zenon DEF InCap, Sums, Weight

\* Removing entries.
LEMMA FilterCap ==
    ASSUME Caches, InCap, NEW c \in Cache, NEW keep,
           cache' = [cache EXCEPT ![c] = Filter(cache[c], keep)]
    PROVE  InCap'
<1>1. cache[c] \in Seq(Entry) BY Zenon DEF Caches
<1>2. 0 \in 0..Len(cache[c]) BY <1>1
<1>3. Total(c, Filter(cache[c], keep)) <= Total(c, cache[c])
  BY <1>1, <1>2, FilterWeighs, Zenon
<1>4. Filter(cache[c], keep) \in Seq(Entry) BY <1>1, FilterIn, Zenon
<1> QED BY <1>3, <1>4, LighterCap, Zenon

\* Invalidation is a filter.
LEMMA WithoutCap ==
    ASSUME Caches, InCap, NEW c \in Cache, NEW K,
           cache' = [cache EXCEPT ![c] = Without(c, K)]
    PROVE  InCap'
  BY FilterCap, Zenon DEF Without

\* InCap depends on the caches alone.
LEMMA SameCap == ASSUME InCap, UNCHANGED cache PROVE InCap'
<1>1. \A c \in Cache : Total(c, cache'[c]) <= Cap[c] BY Zenon DEF InCap
<1> QED BY Zenon DEF InCap, Weight

\* A hit moves an entry and adds none.
LEMMA HitCap == ASSUME IInv, Data, InCap, NEW t \in Thread, Hit(t) PROVE InCap'
<1> DEFINE c == at[t]
           k == key[t]
           s == cache[c]
           keep == {e \in Range(s) : e.key \notin {k}}
           x == Append(Without(c, {k}), Lookup(c, k))
<1>1. c \in Cache /\ k \in Keys(c) BY Zenon DEF Hit, IsHit, IInv, Types
<1>2. Lookup(c, k) \in Range(s) /\ Lookup(c, k).key = k
  <2>1. \E e \in Range(s) : e.key = k BY <1>1, Zenon DEF Keys, Range
  <2> QED BY <2>1, Zenon DEF Lookup
<1>3. s \in Seq(Entry) BY <1>1, Zenon DEF Data, Caches
<1>4. PICK j \in 1..Len(s) : Lookup(c, k) = s[j]
  <2> HIDE DEF s
  <2> QED BY <1>2 DEF Range
<1>5. j \in 0..Len(s) /\ j # 0 /\ s[j] \in Entry
  <2> HIDE DEF s
  <2> QED BY <1>3
<1>6. s[j] \notin keep BY <1>2, <1>4, Zenon
<1>7. Total(c, Filter(s, keep)) + Weight(c, s[j]) <= Total(c, s)
  <2> HIDE DEF s, c, keep
  <2> QED BY <1>1, <1>3, <1>5, <1>6, FilterWeighs, Zenon
<1>8. Without(c, {k}) = Filter(s, keep) BY Zenon DEF Without
<1>9. Filter(s, keep) \in Seq(Entry)
  <2> HIDE DEF s, keep
  <2> QED BY <1>3, FilterIn, Zenon
<1>10. x \in Seq(Entry) /\ Total(c, x) <= Total(c, s)
  <2> HIDE DEF s, keep, c, k
  <2>1. x \in Seq(Entry) BY <1>4, <1>5, <1>8, <1>9
  <2>2. Total(c, x) = Total(c, Filter(s, keep)) + Weight(c, s[j])
    BY <1>1, <1>4, <1>5, <1>8, <1>9, TotalAppend, Zenon
  <2> QED BY <1>7, <2>1, <2>2, Zenon
<1>11. cache' = [cache EXCEPT ![c] = x] BY Zenon DEF Hit
<1> HIDE DEF x, c
<1> QED BY <1>1, <1>10, <1>11, LighterCap, Zenon DEF Data

\* Expiry changes no weight.
LEMMA ExpireCap == ASSUME IInv, Data, InCap, NEW c \in Cache, NEW k \in Key, Expire(c, k)
                   PROVE  InCap'
<1>1. Caches' BY ExpireData, Zenon DEF Data
<1>2. cache'[c] \in Seq(Entry) /\ cache[c] \in Seq(Entry)
  BY <1>1, Zenon DEF Data, Caches
<1> DEFINE s == cache[c]
           x == [i \in DOMAIN s |-> [s[i] EXCEPT !.expired = s[i].expired \/ s[i].key = k]]
<1>3. cache' = [cache EXCEPT ![c] = x] BY Zenon DEF Expire
<1>4. cache'[c] = x BY <1>3, Zenon DEF Data, Caches
<1>5. \A i \in DOMAIN s : x[i].key = s[i].key /\ x[i].data = s[i].data
  <2> TAKE i \in DOMAIN s
  <2>1. s[i] \in Entry BY <1>2
  <2>2. x[i] = [s[i] EXCEPT !.expired = s[i].expired \/ s[i].key = k] OBVIOUS
  <2>3. ASSUME NEW e \in Entry, NEW b \in BOOLEAN
        PROVE  [e EXCEPT !.expired = b].key = e.key /\ [e EXCEPT !.expired = b].data = e.data
    BY Zenon DEF Entry
  <2>4. (s[i].expired \/ s[i].key = k) \in BOOLEAN OBVIOUS
  <2> HIDE DEF s, x
  <2> QED BY <2>1, <2>2, <2>3, Zenon
<1>6. x \in Seq(Entry) BY <1>2, <1>4, Zenon
<1>7. DOMAIN x = DOMAIN s OBVIOUS
<1> HIDE DEF x, s
<1>8. Len(x) = Len(s) /\ Len(s) \in Nat /\ DOMAIN s = 1..Len(s) BY <1>7
<1>9. \A i \in 1..Len(s) : Weight(c, x[i]) = Weight(c, s[i])
  BY <1>5, <1>8, Zenon DEF Weight
<1>10. Total(c, x) = Total(c, s)
  <2>1. Len(s) <= Len(x) /\ Len(s) <= Len(s) BY <1>8
  <2>2. Sums(c, x)[Len(s)] = Sums(c, s)[Len(s)]
    BY <1>2, <1>6, <1>8, <1>9, <2>1, SumsAgree, Zenon DEF s
  <2> QED BY <1>8, <2>2, Zenon DEF Total
<1>11. Total(c, s) \in Nat BY <1>2, SumsStep, Zenon DEF s
<1>12. Total(c, x) <= Total(c, s) BY <1>10, <1>11
<1> QED BY <1>3, <1>6, <1>12, LighterCap, Zenon DEF Data, s

\* Empty caches are within their caps.
LEMMA CapInit == Init => InCap
<1> SUFFICES ASSUME Init PROVE InCap OBVIOUS
<1>1. \A c \in Cache : cache[c] = <<>> BY Zenon DEF Init
<1>2. \A c \in Cache : 0 <= Cap[c] BY CapAssumption
<1>3. \A c \in Cache : Total(c, <<>>) = 0 BY TotalEmpty, Zenon
<1> QED BY <1>1, <1>2, <1>3 DEF InCap

\* What Store puts into the cache before it enforces the limit.
LEMMA Stored ==
    ASSUME IInv, Data, NEW t \in Thread, Store(t)
    PROVE  LET e == [key |-> key[t], data |-> buf[t].data, mtime |-> buf[t].mtime,
                     expired |-> FALSE, over |-> buf[t].over]
           IN /\ at[t] \in Cache /\ e \in Entry
              /\ Without(at[t], {key[t]}) \in Seq(Entry)
              /\ cache' = [cache EXCEPT ![at[t]] =
                             Enforce(at[t], Append(Without(at[t], {key[t]}), e))]
<1> DEFINE e == [key |-> key[t], data |-> buf[t].data, mtime |-> buf[t].mtime,
                 expired |-> FALSE, over |-> buf[t].over]
<1>1. at[t] \in Cache /\ key[t] \in Key /\ buf[t] \in Buffer
  BY Zenon DEF Store, IInv, Types, Control, Data
<1>2. e \in Entry BY <1>1, Zenon DEF Entry, Buffer
<1>3. Without(at[t], {key[t]}) \in Seq(Entry)
  <2>1. Without(at[t], {key[t]}) \in Seq(Good(at[t]))
    BY <1>1, WithoutGood, Zenon DEF Data
  <2>2. Good(at[t]) \subseteq Entry BY Zenon DEF Good
  <2> QED BY <2>1, <2>2, SeqMono, Zenon
<1>4. e.key = key[t] OBVIOUS
<1>5. cache' = [cache EXCEPT ![at[t]] = Enforce(at[t], Append(Without(at[t], {e.key}), e))]
  BY Zenon DEF Store
<1> HIDE DEF e
<1>6. cache' = [cache EXCEPT ![at[t]] = Enforce(at[t], Append(Without(at[t], {key[t]}), e))]
  BY <1>4, <1>5, Zenon
<1> QED BY <1>1, <1>2, <1>3, <1>6, Zenon DEF e

\* Storing ends with the cap enforced.
LEMMA StoreCap == ASSUME IInv, Data, InCap, NEW t \in Thread, Store(t) PROVE InCap'
<1> DEFINE c == at[t]
           e == [key |-> key[t], data |-> buf[t].data, mtime |-> buf[t].mtime,
                 expired |-> FALSE, over |-> buf[t].over]
           s == Append(Without(c, {key[t]}), e)
<1>1. c \in Cache /\ e \in Entry /\ Without(c, {key[t]}) \in Seq(Entry)
      /\ cache' = [cache EXCEPT ![c] = Enforce(c, s)]
  BY Stored, Zenon
<1>2. s \in Seq(Entry)
  <2> HIDE DEF e, c
  <2> QED BY <1>1
<1> HIDE DEF s, c
<1>3. Enforce(c, s) \in Seq(Entry) BY <1>2, EnforceIn, Zenon
<1>4. Total(c, Enforce(c, s)) <= Cap[c] BY <1>1, <1>2, EnforceFits, Zenon
<1> QED BY <1>1, <1>3, <1>4, LighterCap, Zenon DEF Data

\* InCap is inductive relative to IInv and Data: no other step adds an entry.
LEMMA CapNext == IInv /\ Data /\ InCap /\ [Next]_vars => InCap'
<1> SUFFICES ASSUME IInv, Data, InCap, [Next]_vars PROVE InCap' OBVIOUS
<1>0. Caches BY Zenon DEF Data
<1>1. ASSUME NEW t \in Thread, LoadStep(t) PROVE InCap'
  <2>1. CASE Store(t) BY <2>1, StoreCap, Zenon
  <2>2. CASE ~Store(t)
    <3>1. UNCHANGED cache
      BY <1>1, <2>2, Zenon
         DEF LoadStep, LoadHnsw, LoadIds, LoadRaises, Stat, Pop, SetEvent
    <3> QED BY <3>1, SameCap, Zenon
  <2> QED BY <2>1, <2>2
<1>2. ASSUME NEW t \in Thread, Miss(t) PROVE InCap'
  <2>1. at[t] \in Cache BY Zenon DEF IInv, Types
  <2> QED BY <1>0, <1>2, <2>1, WithoutCap, Zenon DEF Miss
<1>3. ASSUME NEW c \in Cache, NEW k, Invalidate(c, k) PROVE InCap'
  BY <1>0, <1>3, WithoutCap, Zenon DEF Invalidate
<1>4. ASSUME NEW c \in Cache, Sweep(c) PROVE InCap'
  <2>1. cache' = [cache EXCEPT ![c] = Filter(cache[c], {e \in Range(cache[c]) : ~e.expired})]
    BY <1>4, Zenon DEF Sweep
  <2> QED BY <1>0, <2>1, FilterCap, Zenon
<1>5. ASSUME NEW n \in 1..Len(cache["hnsw"]), EvictLru(n) PROVE InCap'
  <2> DEFINE s == cache["hnsw"]
             x == SubSeq(s, n + 1, Len(s))
  <2>1. cache' = [cache EXCEPT !["hnsw"] = x] BY <1>5, Zenon DEF EvictLru
  <2>2. s \in Seq(Entry) /\ "hnsw" \in Cache BY <1>0 DEF Caches, Cache
  <2> HIDE DEF s
  <2>3. n \in 0..Len(s) /\ n + 1 \in 1..Len(s) + 1 BY DEF s
  <2>4. x \in Seq(Entry) BY <2>2, <2>3, SubSeqIn, Zenon
  <2>5. Total("hnsw", x) <= Total("hnsw", s) BY <2>2, <2>3, TailWeighs, Zenon
  <2> HIDE DEF x
  <2> QED BY <1>0, <2>1, <2>2, <2>4, <2>5, LighterCap, Zenon DEF s
<1>6. CASE \E t \in Thread : \/ Hit(t) \/ Miss(t) \/ LoadStep(t)
                           \/ \E k \in Key : StartSearch(t, k)
  <2>1. ASSUME NEW t \in Thread, NEW k \in Key, StartSearch(t, k) PROVE InCap'
    BY <2>1, SameCap, Zenon DEF StartSearch
  <2> QED BY <1>1, <1>2, <1>6, <2>1, HitCap, Zenon
<1>7. CASE \E k \in Clone : \/ PublishBin(k) \/ PublishIds(k) \/ ReindexFails(k)
                            \/ EvictHnsw(k) \/ EvictIds(k)
  <2>1. "hnsw" \in Cache /\ "id" \in Cache BY DEF Cache
  <2> QED BY <1>3, <1>7, <2>1, SameCap, Zenon
             DEF PublishBin, PublishIds, ReindexFails, EvictHnsw, EvictIds
<1>8. CASE \E k \in Snapshot : SwapOut(k) \/ EvictSwapped(k)
  <2>1. "hnsw" \in Cache BY DEF Cache
  <2> QED BY <1>3, <1>8, <2>1, SameCap, Zenon DEF SwapOut, EvictSwapped
<1>9. CASE \E c \in Cache : Sweep(c) \/ \E k \in Key : Expire(c, k)
  BY <1>4, <1>9, ExpireCap, Zenon
<1>10. CASE \E n \in 1..Len(cache["hnsw"]) : EvictLru(n) BY <1>5, <1>10, Zenon
<1>11. CASE UNCHANGED vars BY <1>11, SameCap, Zenon DEF vars
<1> QED BY <1>6, <1>7, <1>8, <1>9, <1>10, <1>11, Zenon DEF Next

\* Only Store takes a thread from "store" to "pop".
LEMMA OnlyStore ==
    ASSUME IInv, [Next]_vars, NEW t \in Thread, pc[t] = "store", pc'[t] = "pop"
    PROVE  Store(t)
<1>0. pc'[t] # pc[t] /\ pc \in [Thread -> Where] BY Zenon DEF IInv, Types
<1>1. ASSUME NEW u \in Thread, \/ Hit(u) \/ Miss(u) \/ LoadStep(u)
                               \/ \E k \in Key : StartSearch(u, k)
      PROVE  Store(t)
  <2>1. CASE u # t
    <3>1. pc'[t] \in {pc[t], "check"}
      BY <1>0, <1>1, <2>1, Zenon
         DEF Hit, Return, Miss, LoadStep, LoadHnsw, LoadIds, LoadRaises, Stat,
             Store, Pop, SetEvent, StartSearch
    <3> QED BY <3>1
  <2>2. CASE u = t
    BY <1>1, <2>2, Zenon
       DEF Hit, Miss, LoadStep, LoadHnsw, LoadIds, LoadRaises, Stat, Pop, SetEvent,
           StartSearch
  <2> QED BY <2>1, <2>2
<1>2. CASE \E k \in Clone : \/ PublishBin(k) \/ PublishIds(k) \/ ReindexFails(k)
                            \/ EvictHnsw(k) \/ EvictIds(k)
  BY <1>2, Zenon
     DEF PublishBin, PublishIds, ReindexFails, EvictHnsw, EvictIds, Invalidate,
         thread
<1>3. CASE \E k \in Snapshot : SwapOut(k) \/ EvictSwapped(k)
  BY <1>3, Zenon DEF SwapOut, EvictSwapped, Invalidate, thread
<1>4. CASE \E c \in Cache : Sweep(c) \/ \E k \in Key : Expire(c, k)
  BY <1>4, Zenon DEF Sweep, Expire, thread
<1>5. CASE \E n \in 1..Len(cache["hnsw"]) : EvictLru(n)
  BY <1>5, Zenon DEF EvictLru, thread
<1>6. CASE UNCHANGED vars BY <1>6, Zenon DEF vars
<1> QED BY <1>1, <1>2, <1>3, <1>4, <1>5, <1>6, Zenon DEF Next

\* What Store does to its cache: the cap holds, and an entry over the whole cap is
\* the only one that goes.
LEMMA StoreKeepsCap ==
    ASSUME IInv, Data, InCap, NEW t \in Thread, Store(t)
    PROVE  /\ Total(at[t], cache'[at[t]]) <= Cap[at[t]]
           /\ Weight(at[t], [key |-> key[t], data |-> buf[t].data]) > Cap[at[t]]
              => cache'[at[t]] = Without(at[t], {key[t]})
<1> DEFINE c == at[t]
           e == [key |-> key[t], data |-> buf[t].data, mtime |-> buf[t].mtime,
                 expired |-> FALSE, over |-> buf[t].over]
           w == Without(c, {key[t]})
<1>1. /\ c \in Cache /\ e \in Entry /\ w \in Seq(Entry)
      /\ cache' = [cache EXCEPT ![c] = Enforce(c, Append(w, e))]
  BY Stored, Zenon
<1>2. Weight(c, e) = Weight(c, [key |-> key[t], data |-> buf[t].data])
  BY Zenon DEF Weight
<1>3. Total(c, w) <= Cap[c]
  <2>1. cache[c] \in Seq(Entry) /\ 0 \in 0..Len(cache[c])
    <3>1. cache[c] \in Seq(Entry) BY <1>1, Zenon DEF Data, Caches
    <3> QED BY <3>1
  <2>2. Total(c, w) <= Total(c, cache[c])
    BY <1>1, <2>1, FilterWeighs, Zenon DEF Without
  <2>3. Total(c, cache[c]) <= Cap[c] /\ Cap[c] \in Nat
    BY <1>1, CapAssumption, Zenon DEF InCap
  <2>4. Total(c, w) \in Nat /\ Total(c, cache[c]) \in Nat
    BY <1>1, <2>1, SumsStep, Zenon
  <2> HIDE DEF c, w
  <2> QED BY <2>2, <2>3, <2>4
<1>4. cache'[c] = Enforce(c, Append(w, e))
  <2> HIDE DEF e, w, c
  <2> QED BY <1>1, Zenon DEF Data, Caches
<1>5. Append(w, e) \in Seq(Entry)
  <2> HIDE DEF e, w
  <2> QED BY <1>1
<1> HIDE DEF e, w
<1>6. Total(c, cache'[c]) <= Cap[c] BY <1>1, <1>4, <1>5, EnforceFits, Zenon
<1>7. Weight(c, e) > Cap[c] => cache'[c] = w
  BY <1>1, <1>3, <1>4, EnforceOversized, Zenon
<1> QED BY <1>2, <1>6, <1>7, Zenon DEF w

\* Storing an index leaves its cache within the cap, and one larger than the whole
\* cap costs no other entry its place (Bug #1377), for every cap and all sizes.
THEOREM CapIsKept == Spec => CapKept
<1>1. Init => InCap BY CapInit
<1>2. IInv /\ Data /\ InCap /\ [Next]_vars =>
        [\A t \in Thread : pc[t] = "store" /\ pc'[t] = "pop" =>
           /\ Total(at[t], cache'[at[t]]) <= Cap[at[t]]
           /\ Weight(at[t], [key |-> key[t], data |-> buf[t].data]) > Cap[at[t]]
              => cache'[at[t]] = Without(at[t], {key[t]})]_vars
  BY OnlyStore, StoreKeepsCap, Zenon
<1> QED BY Invariance, CapNext, <1>1, <1>2, PTL DEF Spec, CapKept

\* get_or_load never runs two loaders for one key of one cache, and never
\* leaves a sentinel behind, for any number of threads.
THEOREM LoadsAreDeduplicated == Spec => []OneLoader
  <1>1. IInv => OneLoader BY DEF IInv
  <1> QED BY InitIInv, NextIInv, <1>1, PTL DEF Spec

\* Every waiter waits for a thread that is still on its way to event.set().
THEOREM WaitersHaveALoader == Spec => []WaitsForLoader
  <1>1. IInv => WaitsForLoader BY DEF IInv
  <1> QED BY InitIInv, NextIInv, <1>1, PTL DEF Spec

=============================================================================
