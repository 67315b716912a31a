----------------------------- MODULE IndexCache -----------------------------
(***************************************************************************)
(* The in-memory index caches of the server, as one vector search uses     *)
(* them: HNSWIndexCache first, then IdIndexCache, both keyed by the        *)
(* collection's path and both with a per-key load sentinel (a              *)
(* threading.Event in _loading).  Around them: the TTL sweep, the memory   *)
(* governor's evictions, the re-index of a mutable clone with its          *)
(* evictions, and the swap that retires a versioned snapshot.              *)
(*                                                                         *)
(* Each `with self._cache_lock` block is one step; the loader, the stat of *)
(* the index file and event.set() run outside the lock and are steps of    *)
(* their own.  A file is the version of the index it holds (0: no file)    *)
(* and its mtime is that version, since os.replace always brings a newer   *)
(* one.                                                                    *)
(***************************************************************************)
EXTENDS Integers, Sequences, Functions, FiniteSetsExt

CONSTANTS Thread,      \* threads that search
          Clone,       \* collections that are re-indexed in place
          Snapshot,    \* collections of immutable versioned snapshots
          MaxVersion,  \* bound on the re-indexings of a clone
          Size,        \* Size[k][v]: index_size_bytes of version v of k
          Cap,         \* Cap[c]: max_cache_size_mb, max_entries
          None

Key   == Clone \cup Snapshot
Cache == {"hnsw", "id"}

ASSUME NoneAssumption == None \notin Thread
ASSUME KeyAssumption == Clone \cap Snapshot = {}
ASSUME VersionAssumption == MaxVersion \in Nat \ {0}
ASSUME SizeAssumption == Size \in [Key -> [0..MaxVersion -> Nat]]
ASSUME CapAssumption == Cap \in [Cache -> Nat]

VARIABLES pc,       \* where each thread is in load_index / get_or_load
          at,       \* the cache it is asking
          key,      \* the collection it searches
          ev,       \* the thread whose Event it waits on
          buf,      \* what its loader brought, and whether that was evicted
          loading,  \* _loading: the thread that planted the sentinel
          cache,    \* _cache, least recently accessed entry first
          bin, ids, \* hnsw_index.bin and id_index.bin of each collection
          indexer,  \* the re-index of each clone
          swept,    \* ids when caches were last evicted after a re-index
          swap      \* each snapshot: served, swapped out, swapped and evicted

vars == <<pc, at, key, ev, buf, loading, cache, bin, ids, indexer, swept, swap>>
thread == <<pc, at, key, ev>>
disk == <<bin, ids, indexer, swept, swap>>

----------------------------------------------------------------------------
Entry == [key : Key, data : 0..MaxVersion, mtime : 0..MaxVersion,
          expired : BOOLEAN, over : BOOLEAN]
NoData == [data |-> 0, mtime |-> 0, over |-> FALSE, raised |-> FALSE]

Keys(c)     == {cache[c][i].key : i \in DOMAIN cache[c]}
Lookup(c, k) == CHOOSE e \in Range(cache[c]) : e.key = k

\* SelectSeq with a set for the test, and its value on each prefix of s.
Kept(s, keep) ==
    LET F[i \in 0..Len(s)] == IF i = 0 THEN <<>>
                              ELSE IF s[i] \in keep THEN Append(F[i - 1], s[i])
                              ELSE F[i - 1]
    IN F
Filter(s, keep) == Kept(s, keep)[Len(s)]

Without(c, K) == Filter(cache[c], {e \in Range(cache[c]) : e.key \notin K})

Weight(c, e) == IF c = "hnsw" THEN Size[e.key][e.data] ELSE 1

\* What the first entries of s weigh together, and all of them.
Sums(c, s) == LET F[i \in 0..Len(s)] == IF i = 0 THEN 0
                                        ELSE F[i - 1] + Weight(c, s[i])
              IN F
Total(c, s) == Sums(c, s)[Len(s)]

\* Mutant: the LRU loop alone, as before Bug #1377.
EnforceLruOnly(c, s) ==
    LET fits == {i \in 1..Len(s) : Total(c, SubSeq(s, i, Len(s))) <= Cap[c]}
    IN SubSeq(s, Min(fits \cup {Len(s) + 1}), Len(s))

\* _enforce_size_limit: entries larger than the cap go first and alone, then
\* the least recently accessed until the rest fits or none is left.
\* _enforce_entry_limit of the id cache is the same with one unit per entry.
Enforce(c, s) ==
    LET fit  == Filter(s, {e \in Range(s) : Weight(c, e) <= Cap[c]})
        from == {i \in 1..Len(fit) : Total(c, SubSeq(fit, i, Len(fit))) <= Cap[c]}
    IN SubSeq(fit, Min(from \cup {Len(fit) + 1}), Len(fit))

----------------------------------------------------------------------------
Init == /\ pc = [t \in Thread |-> "idle"]
        /\ at = [t \in Thread |-> "hnsw"]
        /\ key = [t \in Thread |-> None]
        /\ ev = [t \in Thread |-> None]
        /\ buf = [t \in Thread |-> NoData]
        /\ loading = [c \in Cache |-> [k \in Key |-> None]]
        /\ cache = [c \in Cache |-> <<>>]
        /\ bin \in [Key -> 0..1] /\ \A k \in Snapshot : bin[k] = 1
        /\ ids = bin
        /\ indexer = [k \in Clone |-> "idle"]
        /\ swept = [k \in Clone |-> ids[k]]
        /\ swap = [k \in Snapshot |-> "served"]

\* A search resolves its collection, so never a snapshot swapped out before,
\* and asks the HNSW cache.
StartSearch(t, k) ==
    /\ pc[t] = "idle"
    /\ k \in Snapshot => swap[k] = "served"
    /\ pc' = [pc EXCEPT ![t] = "check"]
    /\ at' = [at EXCEPT ![t] = "hnsw"]
    /\ key' = [key EXCEPT ![t] = k]
    /\ UNCHANGED <<ev, buf, loading, cache, disk>>

\* get_or_load returns: the HNSW index first, then the id index, then done.
Return(t) == \/ /\ at[t] = "hnsw"
                /\ at' = [at EXCEPT ![t] = "id"]
                /\ UNCHANGED <<pc, key>>
             \/ /\ at[t] = "id"
                /\ at' = [at EXCEPT ![t] = "hnsw"]
                /\ pc' = [pc EXCEPT ![t] = "idle"]
                /\ key' = [key EXCEPT ![t] = None]

\* Mutant: the mtime is never compared.
NewerNever(e) == FALSE

\* _index_file_is_newer
Newer(e) == bin[e.key] > e.mtime

\* What the first branches of get_or_load let through as a hit.
IsHit(c, k) == /\ k \in Keys(c)
               /\ ~Lookup(c, k).expired
               /\ c = "hnsw" => ~Newer(Lookup(c, k))

\* A hit: record_access makes the entry the most recently used.
Hit(t) ==
    LET c == at[t]
        k == key[t]
    IN /\ pc[t] = "check"
       /\ IsHit(c, k)
       /\ cache' = [cache EXCEPT ![c] = Append(Without(c, {k}), Lookup(c, k))]
       /\ Return(t)
       /\ UNCHANGED <<ev, buf, loading, disk>>

\* Mutant: the sentinel is planted without looking for another one.
MissAlwaysLoads(t) ==
    LET c == at[t]
        k == key[t]
    IN /\ pc[t] = "check"
       /\ ~IsHit(c, k)
       /\ cache' = [cache EXCEPT ![c] = Without(c, {k})]
       /\ loading' = [loading EXCEPT ![c][k] = t]
       /\ pc' = [pc EXCEPT ![t] = "load"]
       /\ UNCHANGED <<ev, at, key, buf, disk>>

\* A miss: an expired or outdated entry is dropped, and the thread waits for
\* the load in progress or plants its own sentinel.
Miss(t) ==
    LET c == at[t]
        k == key[t]
    IN /\ pc[t] = "check"
       /\ ~IsHit(c, k)
       /\ cache' = [cache EXCEPT ![c] = Without(c, {k})]
       /\ \/ /\ loading[c][k] # None
             /\ ev' = [ev EXCEPT ![t] = loading[c][k]]
             /\ pc' = [pc EXCEPT ![t] = "wait"]
             /\ UNCHANGED loading
          \/ /\ loading[c][k] = None
             /\ loading' = [loading EXCEPT ![c][k] = t]
             /\ pc' = [pc EXCEPT ![t] = "load"]
             /\ UNCHANGED ev
       /\ UNCHANGED <<at, key, buf, disk>>

\* loader() of the HNSW cache: an absent hnsw_index.bin gives None, which is
\* returned and not cached.
LoadHnsw(t) ==
    LET v == bin[key[t]]
    IN /\ pc[t] = "load" /\ at[t] = "hnsw"
       /\ buf' = [buf EXCEPT ![t] = [NoData EXCEPT !.data = v]]
       /\ pc' = [pc EXCEPT ![t] = IF v = 0 THEN "pop" ELSE "stat"]
       /\ UNCHANGED <<at, key, ev, loading, cache, disk>>

\* loader() of the id cache: an absent id_index.bin gives the result of a
\* directory scan, which is cached.  (The rebuild of a corrupt one is left out.)
LoadIds(t) == /\ pc[t] = "load" /\ at[t] = "id"
              /\ buf' = [buf EXCEPT ![t] = [NoData EXCEPT !.data = ids[key[t]]]]
              /\ pc' = [pc EXCEPT ![t] = "store"]
              /\ UNCHANGED <<at, key, ev, loading, cache, disk>>

\* Mutant: no finally clause; the sentinel stays behind.
LoadRaisesLeaks(t) == /\ pc[t] = "load"
                      /\ pc' = [pc EXCEPT ![t] = "idle"]
                      /\ UNCHANGED <<at, key, ev, buf, loading, cache, disk>>

\* loader() raises (corrupt file, I/O error): straight to the finally clause.
LoadRaises(t) == /\ pc[t] = "load"
                 /\ buf' = [buf EXCEPT ![t] = [NoData EXCEPT !.raised = TRUE]]
                 /\ pc' = [pc EXCEPT ![t] = "pop"]
                 /\ UNCHANGED <<at, key, ev, loading, cache, disk>>

\* os.stat(index_file).st_mtime, after the load
Stat(t) == /\ pc[t] = "stat"
           /\ buf' = [buf EXCEPT ![t].mtime = bin[key[t]]]
           /\ pc' = [pc EXCEPT ![t] = "store"]
           /\ UNCHANGED <<at, key, ev, loading, cache, disk>>

\* The new entry replaces any other and the limit is enforced, in one block.
Store(t) ==
    LET c == at[t]
        e == [key |-> key[t], data |-> buf[t].data, mtime |-> buf[t].mtime,
              expired |-> FALSE, over |-> buf[t].over]
    IN /\ pc[t] = "store"
       /\ cache' = [cache EXCEPT
                      ![c] = Enforce(c, Append(Without(c, {e.key}), e))]
       /\ pc' = [pc EXCEPT ![t] = "pop"]
       /\ UNCHANGED <<at, key, ev, buf, loading, disk>>

\* finally: the sentinel leaves _loading ...
Pop(t) == /\ pc[t] = "pop"
          /\ loading' = [loading EXCEPT ![at[t]][key[t]] = None]
          /\ pc' = [pc EXCEPT ![t] = "set"]
          /\ UNCHANGED <<at, key, ev, buf, cache, disk>>

\* ... and event.set() wakes every waiter of this load; the call returns or
\* the exception ends the search.
SetEvent(t) ==
    LET goesOn == ~buf[t].raised /\ at[t] = "hnsw"
    IN /\ pc[t] = "set"
       /\ pc' = [u \in Thread |->
                   IF u = t THEN IF goesOn THEN "check" ELSE "idle"
                   ELSE IF ev[u] = t THEN "check" ELSE pc[u]]
       /\ ev' = [u \in Thread |-> IF ev[u] = t THEN None ELSE ev[u]]
       /\ at' = [at EXCEPT ![t] = IF goesOn THEN "id" ELSE "hnsw"]
       /\ key' = [key EXCEPT ![t] = IF goesOn THEN @ ELSE None]
       /\ buf' = [buf EXCEPT ![t] = NoData]
       /\ UNCHANGED <<loading, cache, disk>>

----------------------------------------------------------------------------
\* `cidx index` on a clone that has an index replaces hnsw_index.bin (the first
\* build is left out) ...
PublishBin(k) == /\ indexer[k] = "idle"
                 /\ bin[k] \in 1..MaxVersion - 1
                 /\ bin' = [bin EXCEPT ![k] = @ + 1]
                 /\ indexer' = [indexer EXCEPT ![k] = "bin"]
                 /\ UNCHANGED <<thread, buf, loading, cache, ids, swept, swap>>

\* ... and later id_index.bin; it may also die in between, and then nobody
\* evicts anything.
PublishIds(k) == /\ indexer[k] = "bin"
                 /\ ids' = [ids EXCEPT ![k] = bin[k]]
                 /\ indexer' = [indexer EXCEPT ![k] = "ids"]
                 /\ UNCHANGED <<thread, buf, loading, cache, bin, swept, swap>>

ReindexFails(k) == /\ indexer[k] \in {"bin", "ids"}
                   /\ indexer' = [indexer EXCEPT ![k] = "idle"]
                   /\ UNCHANGED <<thread, buf, loading, cache, bin, ids,
                                  swept, swap>>

\* invalidate_prefix: the entry goes; a load that already has its data is not
\* in _cache yet and is left alone (over records that for the id cache).
Invalidate(c, k) ==
    /\ cache' = [cache EXCEPT ![c] = Without(c, {k})]
    /\ buf' = [t \in Thread |->
                 IF c = "id" /\ pc[t] = "store" /\ at[t] = c /\ key[t] = k
                 THEN [buf[t] EXCEPT !.over = TRUE] ELSE buf[t]]
    /\ UNCHANGED <<thread, loading, bin, ids>>

EvictHnsw(k) == /\ indexer[k] = "ids"
                /\ Invalidate("hnsw", k)
                /\ indexer' = [indexer EXCEPT ![k] = "hnsw"]
                /\ UNCHANGED <<swept, swap>>

\* Mutant: as before Bug #1203, the id cache is not evicted with the other.
EvictIdsNot(k) == /\ indexer[k] = "hnsw"
                  /\ swept' = [swept EXCEPT ![k] = ids[k]]
                  /\ indexer' = [indexer EXCEPT ![k] = "idle"]
                  /\ UNCHANGED <<thread, buf, loading, cache, bin, ids, swap>>

EvictIds(k) == /\ indexer[k] = "hnsw"
               /\ Invalidate("id", k)
               /\ swept' = [swept EXCEPT ![k] = ids[k]]
               /\ indexer' = [indexer EXCEPT ![k] = "idle"]
               /\ UNCHANGED swap

\* A refresh swaps the alias away from a snapshot, then evicts it from the
\* HNSW cache; the id cache is not told.
SwapOut(k) == /\ swap[k] = "served"
              /\ swap' = [swap EXCEPT ![k] = "swapped"]
              /\ UNCHANGED <<thread, buf, loading, cache, bin, ids, indexer,
                             swept>>

EvictSwapped(k) == /\ swap[k] = "swapped"
                   /\ Invalidate("hnsw", k)
                   /\ swap' = [swap EXCEPT ![k] = "evicted"]
                   /\ UNCHANGED <<indexer, swept>>

----------------------------------------------------------------------------
\* The TTL of an entry runs out ...
Expire(c, k) ==
    LET s == cache[c]
    IN /\ k \in Keys(c)
       /\ ~Lookup(c, k).expired
       /\ cache' = [cache EXCEPT ![c] = [i \in DOMAIN s |->
                      [s[i] EXCEPT !.expired = s[i].expired \/ s[i].key = k]]]
       /\ UNCHANGED <<thread, buf, loading, disk>>

\* Mutant: the id cache has no cleanup thread.
SweepHnswOnly(c) == /\ c = "hnsw"
                    /\ \E e \in Range(cache[c]) : e.expired
                    /\ cache' = [cache EXCEPT
                                   ![c] = Filter(@, {e \in Range(@) : ~e.expired})]
                    /\ UNCHANGED <<thread, buf, loading, disk>>

\* ... and the cleanup thread removes what has expired.
Sweep(c) == /\ \E e \in Range(cache[c]) : e.expired
            /\ cache' = [cache EXCEPT
                           ![c] = Filter(@, {e \in Range(@) : ~e.expired})]
            /\ UNCHANGED <<thread, buf, loading, disk>>

\* evict_lru_entries(n), called by the memory governor
EvictLru(n) == /\ n <= Len(cache["hnsw"])
               /\ cache' = [cache EXCEPT !["hnsw"] = SubSeq(@, n + 1, Len(@))]
               /\ UNCHANGED <<thread, buf, loading, disk>>

\* The loader's way from its sentinel to event.set().
LoadStep(t) == \/ LoadHnsw(t) \/ LoadIds(t) \/ LoadRaises(t)
               \/ Stat(t) \/ Store(t) \/ Pop(t) \/ SetEvent(t)

Next == \/ \E t \in Thread : \/ Hit(t) \/ Miss(t) \/ LoadStep(t)
                             \/ \E k \in Key : StartSearch(t, k)
        \/ \E k \in Clone : \/ PublishBin(k) \/ PublishIds(k) \/ ReindexFails(k)
                            \/ EvictHnsw(k) \/ EvictIds(k)
        \/ \E k \in Snapshot : SwapOut(k) \/ EvictSwapped(k)
        \/ \E c \in Cache : Sweep(c) \/ \E k \in Key : Expire(c, k)
        \/ \E n \in 1..Len(cache["hnsw"]) : EvictLru(n)

Spec == Init /\ [][Next]_vars

\* Nobody can touch an entry of k any more: its time runs out.
Untouched(k) == k \in Snapshot /\ swap[k] # "served"
                               /\ \A t \in Thread : key[t] # k

\* The cleanup thread of each cache keeps sweeping, and the TTL of an entry
\* that is no longer accessed runs out.
Fairness == /\ \A c \in Cache : WF_vars(Sweep(c))
            /\ \A c \in Cache, k \in Snapshot :
                 WF_vars(Untouched(k) /\ Expire(c, k))

FairSpec == Spec /\ Fairness

----------------------------------------------------------------------------
Loads(t) == pc[t] \in {"load", "stat", "store", "pop"}

\* Types; a thread that waits knows whose Event it waits on.
TypeOK ==
    /\ pc \in [Thread -> {"idle", "check", "wait", "load", "stat", "store",
                          "pop", "set"}]
    /\ at \in [Thread -> Cache]
    /\ key \in [Thread -> Key \cup {None}]
    /\ ev \in [Thread -> Thread \cup {None}]
    /\ \A t \in Thread : pc[t] = "wait" <=> ev[t] # None
    /\ \A t \in Thread : buf[t] \in [data : 0..MaxVersion, mtime : 0..MaxVersion,
                                     over : BOOLEAN, raised : BOOLEAN]
    /\ loading \in [Cache -> [Key -> Thread \cup {None}]]
    /\ \A c \in Cache : Range(cache[c]) \subseteq Entry
    /\ bin \in [Key -> 0..MaxVersion] /\ ids \in [Key -> 0..MaxVersion]

\* Deduplication of concurrent loads (Story #277): a sentinel stands for
\* exactly one thread inside the loader, so no two threads ever load the same
\* key of the same cache at once, and no sentinel outlives its loader.
OneLoader == \A t \in Thread, c \in Cache, k \in Key :
    loading[c][k] = t <=> Loads(t) /\ at[t] = c /\ key[t] = k

\* "Waiters are never permanently blocked": whoever a thread waits for is
\* still loading that key, or has just removed its sentinel and is about to set
\* the Event -- also when another thread has planted a new sentinel by then.
WaitsForLoader == \A t \in Thread : pc[t] = "wait" =>
    LET u == ev[t] IN /\ u \in Thread \ {t}
                      /\ Loads(u) \/ pc[u] = "set"
                      /\ at[u] = at[t] /\ key[u] = key[t]

\* What the HNSW cache would serve now is what is on disk now, whatever
\* re-indexings and evictions raced its load -- with one exception: an index
\* replaced between the load and the stat is remembered under its successor's
\* mtime, and the comparison on later hits cannot see it.
ServesCurrent == \A k \in Key : IsHit("hnsw", k) =>
    LET e == Lookup("hnsw", k) IN e.data = bin[k] \/ e.data < e.mtime

\* After a re-index has evicted the clone from both caches ("the next query
\* reloads the freshly written on-disk index"), an older id index is served
\* only if its load had read the file before and stored it after the eviction:
\* the id cache has no mtime to notice it by.
SurvivorsWereInFlight == \A k \in Clone : k \in Keys("id") =>
    LET e == Lookup("id", k) IN e.data < swept[k] => e.over

\* Storing an entry leaves the cache within its cap, and one that is larger than
\* the whole cap costs no other entry its place (Bug #1377).
CapKept == [][\A t \in Thread : pc[t] = "store" /\ pc'[t] = "pop" =>
    /\ Total(at[t], cache'[at[t]]) <= Cap[at[t]]
    /\ Weight(at[t], [key |-> key[t], data |-> buf[t].data]) > Cap[at[t]]
       => cache'[at[t]] = Without(at[t], {key[t]})]_vars

\* A snapshot that was swapped out leaves both caches once the searches that
\* still use it are done (and cannot come back: nobody asks for it), although a
\* load in flight may have stored it after the eviction and the id cache is
\* never told of the swap.
RetiredLeaves == \A k \in Snapshot :
    Untouched(k) ~> \A c \in Cache : k \notin Keys(c)

=============================================================================
