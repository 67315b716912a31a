----------------------------- MODULE Coalescer ------------------------------
(***************************************************************************)
(* EmbeddingCoalescer.submit: concurrent single-text embedding requests    *)
(* are answered from the query embedding cache, join a request for the     *)
(* same key that is already in flight (_inflight_keys), or enter a batch   *)
(* whose first member dispatches it through the concurrency governor and   *)
(* fans the vectors out to the members.                                    *)
(*                                                                         *)
(* A text is a sequence of tokens and stands for its own vector too.  A    *)
(* request is one call of submit, numbered in the order of arrival; its    *)
(* batch, if it becomes a dispatcher, and its futures carry its number.    *)
(* The steps are the critical sections of _lock and _inflight_lock and the *)
(* calls that block.  A caller that only waits for a future returns in the *)
(* step that resolves it; what a call no longer needs is forgotten.        *)
(***************************************************************************)
EXTENDS Integers, Sequences, FiniteSets, TLC

CONSTANTS Requests,    \* how many calls of submit there are
          Mode,        \* the cache modes that are used
          Text,        \* a set of non-empty sequences of numbers
          Anchor,      \* anchor_tokens of build_key
          KeyCap,      \* build_key gives no key to a longer text
          RawCap,      \* texts per request of the provider
          TokenLimit,  \* tokens per request of the provider
          Slots,       \* the governor's limit for the lane
          MaxRetries,  \* of execute_with_backoff
          None, Failed

ASSUME ModeAssumption == Mode \subseteq {"on", "shadow", "bypass", "off"}
ASSUME TextAssumption == /\ Text \subseteq Seq(Nat)
                         /\ None \notin Text /\ Failed \notin Text /\ None # Failed
ASSUME LimitAssumption == RawCap \in Nat /\ TokenLimit \in Nat /\ MaxRetries \in Nat

Request == 1..Requests

ASSUME RequestAssumption == Requests \in Nat /\ None \notin Request

VARIABLES cache,   \* the vector stored under each key
          flight,  \* _inflight_keys: the owner of each key in flight
          open,    \* _open_batch (by its dispatcher) and _open_tokens
          batch,   \* the members of each dispatcher's batch
          pc, text,
          seen,    \* the cache mode a request read, or that it bypasses the cache
          joined,  \* the owner whose future a joiner waits for
          tries,   \* rate-limited attempts of a dispatcher
          fut,     \* entry.fut: None, or the text of its vector, or Failed
          answer   \* what submit returned or that it raised (Failed)

registry == <<flight, joined>>
vars == <<cache, registry, open, batch, pc, text, seen, tries, fut, answer>>

----------------------------------------------------------------------------
\* build_key: the leading tokens in their order, the others sorted; none at all
\* for a text over the cap.
BuildKey(t) ==
    IF Len(t) > KeyCap THEN None
    ELSE IF Anchor >= Len(t) THEN t
    ELSE SubSeq(t, 1, Anchor) \o SortSeq(SubSeq(t, Anchor + 1, Len(t)), <)

KeyOf == [t \in Text |-> BuildKey(t)]
Key == {KeyOf[t] : t \in Text} \ {None}

\* Within a batch a text without a key stands for itself.
DedupKey(t) == IF KeyOf[t] = None THEN <<"text", t>> ELSE <<"key", KeyOf[t]>>

TokenCount(t) == Len(t)

NoBatch == [batch |-> None, tokens |-> 0]

\* Earlier requests may have filled the cache.
Init == /\ cache \in [Key -> Text \cup {None}]
        /\ \A k \in Key : cache[k] # None => KeyOf[cache[k]] = k
        /\ flight = [k \in Key |-> None]
        /\ open = NoBatch
        /\ batch = [r \in Request |-> <<>>]
        /\ pc = [r \in Request |-> "idle"]
        /\ text = [r \in Request |-> None]
        /\ seen = [r \in Request |-> "off"]
        /\ joined = [r \in Request |-> None]
        /\ tries = [r \in Request |-> 0]
        /\ fut = [r \in Request |-> None]
        /\ answer = [r \in Request |-> None]

Goto(r, p) == pc' = [pc EXCEPT ![r] = p]
MyKey(r) == KeyOf[text[r]]

\* A request that looks at the registry: the cache is on or in shadow mode, the
\* request does not bypass it and its text has a key.
Looks(m, k) == m \in {"on", "shadow"} /\ k # None
Owner(r) == Looks(seen[r], MyKey(r))

----------------------------------------------------------------------------
\* submit up to the critical section of the registry: own the key or join.  The
\* cache mode is read from the live configuration, so m is any mode;
\* "bypass" is a request with no_embedding_cache_shortcut in a mode but off.
Submit(r, t, m) ==
    LET k == KeyOf[t] IN
    /\ pc[r] = "idle" /\ \A q \in Request : q < r => pc[q] # "idle"
    /\ text' = [text EXCEPT ![r] = t]
    /\ \/ /\ ~Looks(m, k)
          /\ seen' = [seen EXCEPT ![r] = m]
          /\ Goto(r, "count")
          /\ UNCHANGED registry
       \/ /\ Looks(m, k) /\ flight[k] = None
          /\ seen' = [seen EXCEPT ![r] = m]
          /\ flight' = [flight EXCEPT ![k] = r]
          /\ Goto(r, IF m = "on" THEN "lookup" ELSE "count")
          /\ UNCHANGED joined
       \/ /\ Looks(m, k) /\ flight[k] # None
          /\ joined' = [joined EXCEPT ![r] = flight[k]]
          /\ Goto(r, "join")
          /\ UNCHANGED <<flight, seen>>
    /\ UNCHANGED <<cache, open, batch, tries, fut, answer>>

\* The callers in S return (or raise) v[r] and forget their local state.
Finish(S, v) ==
    /\ answer' = [r \in Request |-> IF r \in S THEN v[r] ELSE answer[r]]
    /\ seen' = [r \in Request |-> IF r \in S THEN "off" ELSE seen[r]]
    /\ joined' = [r \in Request |-> IF r \in S THEN None ELSE joined[r]]
    /\ tries' = [r \in Request |-> IF r \in S THEN 0 ELSE tries[r]]

Joiners(r) == {q \in Request : joined[q] = r}

\* Mutant: the key is popped after a success only.
CompleteKeepsKey(r, v) ==
    /\ Finish({r} \cup Joiners(r), [q \in Request |-> v])
    /\ pc' = [q \in Request |-> IF q \in {r} \cup Joiners(r) THEN "done" ELSE pc[q]]
    /\ flight' = IF v = Failed THEN flight ELSE [flight EXCEPT ![MyKey(r)] = None]

\* An owner completes its future, which wakes the joiners, and removes the key.
\* (A request that joins between the two gets the same as one that joined
\* before.)
CompleteOwn(r, v) ==
    /\ Finish({r} \cup Joiners(r), [q \in Request |-> v])
    /\ pc' = [q \in Request |-> IF q \in {r} \cup Joiners(r) THEN "done" ELSE pc[q]]
    /\ flight' = [flight EXCEPT ![MyKey(r)] = None]

\* The owner finds the key in the cache ...
Hit(r) == /\ pc[r] = "lookup"
          /\ cache[MyKey(r)] # None
          /\ CompleteOwn(r, cache[MyKey(r)])
          /\ UNCHANGED <<cache, open, batch, text, fut>>

\* ... or not: no row, a corrupt one, or a lookup that failed (open).
Miss(r) == /\ pc[r] = "lookup"
           /\ Goto(r, "count")
           /\ UNCHANGED <<cache, registry, open, batch, text, seen, tries, fut, answer>>

\* Token counting raises (a tokenizer that cannot be loaded) outside of every
\* try block of submit: an owner leaves its key in the registry.
CountFails(r) == /\ pc[r] = "count"
                 /\ Finish({r}, [q \in Request |-> Failed])
                 /\ Goto(r, "raised")
                 /\ UNCHANGED <<cache, flight, open, batch, text, fut>>

\* _seal_if_full, with the live cap that effective_texts_cap gave to _enqueue.
SealIfFull(o, size, cap) ==
    IF size >= cap \/ o.tokens >= TokenLimit THEN NoBatch ELSE o

\* Mutant: the tokens of the new text are not counted.
FitsBefore(r, cap) == /\ open.batch # None
                      /\ Len(batch[open.batch]) < cap
                      /\ open.tokens <= TokenLimit

Fits(r, cap) == /\ open.batch # None
                /\ Len(batch[open.batch]) < cap
                /\ open.tokens + TokenCount(text[r]) <= TokenLimit

\* _enqueue: join the open batch if that keeps both limits, ...
EnqueueJoin(r, cap) ==
    /\ pc[r] = "count"
    /\ Fits(r, cap)
    /\ batch' = [batch EXCEPT ![open.batch] = Append(@, r)]
    /\ open' = SealIfFull([open EXCEPT !.tokens = @ + TokenCount(text[r])],
                          Len(batch[open.batch]) + 1, cap)
    /\ Goto(r, "await")
    /\ UNCHANGED <<cache, registry, text, seen, tries, fut, answer>>

\* ... else start a new one and be its dispatcher.
EnqueueNew(r, cap) ==
    /\ pc[r] = "count"
    /\ ~Fits(r, cap)
    /\ batch' = [batch EXCEPT ![r] = <<r>>]
    /\ open' = SealIfFull([batch |-> r, tokens |-> TokenCount(text[r])], 1, cap)
    /\ Goto(r, "slot")
    /\ UNCHANGED <<cache, registry, text, seen, tries, fut, answer>>

----------------------------------------------------------------------------
Close(r) == open' = IF open.batch = r THEN NoBatch ELSE open
Members(d) == {batch[d][i] : i \in DOMAIN batch[d]}

\* governor.execute grants a slot and do_call seals the batch (the first time).
SlotFree == Cardinality({d \in Request : pc[d] = "call"}) < Slots

\* Mutant: the batch is not sealed when it is sent.
AcquireOpen(r) == /\ pc[r] = "slot" /\ SlotFree
                  /\ Goto(r, "call")
                  /\ UNCHANGED <<cache, registry, open, batch, text, seen, tries, fut, answer>>

Acquire(r) == /\ pc[r] = "slot" /\ SlotFree
              /\ Close(r)
              /\ Goto(r, "call")
              /\ UNCHANGED <<cache, registry, batch, text, seen, tries, fut, answer>>

\* Mutant: the attempts are not counted.
RetriesForever(r) == /\ pc[r] = "call"
                     /\ Goto(r, "slot")
                     /\ UNCHANGED <<cache, registry, open, batch, text, seen, tries, fut, answer>>

\* 429: execute_with_backoff asks for a slot again until its attempts are used up.
RateLimited(r) == /\ pc[r] = "call"
                  /\ tries[r] < MaxRetries
                  /\ tries' = [tries EXCEPT ![r] = @ + 1]
                  /\ Goto(r, "slot")
                  /\ UNCHANGED <<cache, registry, open, batch, text, seen, fut, answer>>

\* The members of r's batch get v[m]; an owner has its future to complete yet,
\* and so has the dispatcher if there is a cache to be written first.
Later(r, write) == {m \in Members(r) : Owner(m) \/ (m = r /\ write)}
FanOut(r, v, write) ==
    /\ fut' = [m \in Request |-> IF m \in Later(r, write) THEN v[m] ELSE fut[m]]
    /\ Finish(Members(r) \ Later(r, write), v)
    /\ pc' = [m \in Request |-> IF m \in Members(r) \ Later(r, write) THEN "done"
                                ELSE IF m # r THEN pc[m]
                                ELSE IF write THEN "write" ELSE "await"]

\* Mutant: a batch that failed stays open.
FailsOpen(r) == /\ pc[r] \in {"slot", "call"}
                /\ FanOut(r, [m \in Request |-> Failed], FALSE)
                /\ batch' = [batch EXCEPT ![r] = <<>>]
                /\ UNCHANGED <<cache, flight, open, text>>

\* No slot within acquire_timeout, a provider in the sin bin, the last 429, any
\* other error or the wrong number of vectors.  Shared fate: the batch is sealed
\* and every member gets the exception.
Fails(r) == /\ pc[r] \in {"slot", "call"}
            /\ Close(r)
            /\ FanOut(r, [m \in Request |-> Failed], FALSE)
            /\ batch' = [batch EXCEPT ![r] = <<>>]
            /\ UNCHANGED <<cache, flight, text>>

\* Mutant: every member gets the first vector.
FirstMember(d, t) == text[batch[d][1]]

\* The text sent for a key: that of the first member with it (key_to_first_idx).
FirstText(d, t) ==
    LET same == {i \in DOMAIN batch[d] : DedupKey(text[batch[d][i]]) = DedupKey(t)}
    IN text[batch[d][CHOOSE i \in same : \A j \in same : i <= j]]

\* The provider answers and every member gets the vector of its key.
Fan(r) == /\ pc[r] = "call"
          /\ FanOut(r, [m \in Request |-> IF m \in Members(r) THEN FirstText(r, text[m])
                                          ELSE None], TRUE)
          /\ UNCHANGED <<cache, flight, open, batch, text>>

\* Then the cache is written, once per key, if the mode the dispatcher saw says
\* so.  Any of the writes may fail (open), or be left out in shadow mode, where a
\* row that was found is only touched.
Sent(r) == {FirstText(r, text[m]) : m \in {m \in Members(r) : MyKey(m) # None}}

Write(r) == /\ pc[r] = "write"
            /\ \E ts \in IF seen[r] = "off" THEN {{}} ELSE SUBSET Sent(r) :
                 cache' = [k \in Key |-> LET new == {t \in ts : KeyOf[t] = k}
                                         IN IF new = {} THEN cache[k]
                                            ELSE CHOOSE t \in new : TRUE]
            /\ batch' = [batch EXCEPT ![r] = <<>>]
            /\ \/ /\ Owner(r)
                  /\ Goto(r, "await")
                  /\ UNCHANGED <<joined, seen, tries, fut, answer>>
               \/ /\ ~Owner(r)
                  /\ Finish({r}, fut)
                  /\ fut' = [fut EXCEPT ![r] = None]
                  /\ Goto(r, "done")
            /\ UNCHANGED <<flight, open, text>>

----------------------------------------------------------------------------
\* After the batch an owner completes its future and leaves.
Complete(r) == /\ pc[r] = "await" /\ fut[r] # None
               /\ Owner(r)
               /\ CompleteOwn(r, fut[r])
               /\ fut' = [fut EXCEPT ![r] = None]
               /\ UNCHANGED <<cache, open, batch, text>>

\* A joiner gives up after a minute.
JoinTimesOut(r) == /\ pc[r] = "join"
                   /\ Finish({r}, [q \in Request |-> Failed])
                   /\ Goto(r, "done")
                   /\ UNCHANGED <<cache, flight, open, batch, text, fut>>

----------------------------------------------------------------------------
Step(r) == \/ Hit(r) \/ Miss(r) \/ CountFails(r)
           \/ \E cap \in 1..RawCap : EnqueueJoin(r, cap) \/ EnqueueNew(r, cap)
           \/ Acquire(r) \/ RateLimited(r) \/ Fails(r) \/ Fan(r) \/ Write(r)
           \/ Complete(r) \/ JoinTimesOut(r)

Idle == /\ \A r \in Request : pc[r] \in {"done", "raised"}
        /\ UNCHANGED vars

Next == \/ Idle
        \/ \E r \in Request : Step(r)
        \/ \E r \in Request, t \in Text, m \in Mode : Submit(r, t, m)

Spec == Init /\ [][Next]_vars

\* Some thread inside submit goes on: locks are held briefly, a provider call ends,
\* and waiting for a slot or for another request is bounded by a timeout.
FairSpec == Spec /\ WF_vars(\E r \in Request : Step(r))

----------------------------------------------------------------------------
Resolution == Text \cup {Failed, None}

TypeOK ==
    /\ cache \in [Key -> Text \cup {None}] /\ flight \in [Key -> Request \cup {None}]
    /\ open \in [batch : Request \cup {None}, tokens : 0..TokenLimit]
    /\ batch \in [Request -> Seq(Request)]
    /\ pc \in [Request -> {"idle", "lookup", "count", "await", "slot", "call",
                           "write", "join", "done", "raised"}]
    /\ text \in [Request -> Text \cup {None}]
    /\ seen \in [Request -> Mode \cup {"off"}]
    /\ joined \in [Request -> Request \cup {None}] /\ tries \in [Request -> 0..MaxRetries]
    /\ fut \in [Request -> Resolution] /\ answer \in [Request -> Resolution]

\* The promise to the caller: batching, joining, retrying and caching never mix
\* up two texts with different keys or answer a request twice.
Service == INSTANCE EmbeddingService
Implements == Service!Spec

\* Whoever called submit gets a vector or an exception in the end.
Answered == Service!Answered

AtWork(r) == pc[r] \in {"lookup", "count", "slot", "call", "write", "await"}

\* Token counting raised out of submit (CountFails).
Raised(r) == pc[r] = "raised"

\* Single flight: a request that looks a key up or embeds it is the one in the
\* registry, so that no two are at work on the same key; and who is in the
\* registry is at work on that key, so that every completion, a failing one
\* too, has popped it.  The one exit of submit that leaves a key behind is the
\* token count that raises.
SingleFlight ==
    /\ \A r \in Request : AtWork(r) /\ Owner(r) => flight[MyKey(r)] = r
    /\ \A k \in Key : flight[k] # None =>
         /\ MyKey(flight[k]) = k
         /\ (AtWork(flight[k]) /\ Owner(flight[k])) \/ Raised(flight[k])

\* Whoever waits for a batch is a member of it and its dispatcher is still on
\* its way to the fan-out: no caller is lost between two batches.
DispatcherAtWork == \A r \in Request : pc[r] = "await" /\ fut[r] = None =>
    \E d \in Request : r \in Members(d) /\ pc[d] \in {"slot", "call"}

\* One HTTP call per batch: what is sent keeps the provider's limits, so that
\* the provider never splits it, also while the ceiling changes.  A single text
\* over the token limit is sent alone.
Sums(w) == LET f[i \in 0..Len(w)] == IF i = 0 THEN 0 ELSE f[i - 1] + w[i] IN f
Counts(d) == [i \in DOMAIN batch[d] |-> TokenCount(text[batch[d][i]])]
TokensOf(d) == Sums(Counts(d))[Len(batch[d])]
BatchFits == \A d \in Request : /\ Len(batch[d]) <= RawCap
                                /\ Len(batch[d]) <= 1 \/ TokensOf(d) <= TokenLimit

\* A late arrival cannot attach to a batch that was sent: the members of a batch
\* stay the same from its first attempt on, through every retry, to its end.
BatchSent(d) == pc[d] \in {"call", "write"} \/ tries[d] > 0
MembersFixed == [][\A d \in Request : BatchSent(d) => batch'[d] \in {batch[d], <<>>}]_vars
=============================================================================
