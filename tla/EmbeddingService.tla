-------------------------- MODULE EmbeddingService --------------------------
(***************************************************************************)
(* What a caller of coalesced_query_embedding may rely on: a request is    *)
(* answered once, with the vector of a text of the same cache key or with  *)
(* an error.  Batching, deduplication, the cache and the single-flight     *)
(* registry of the coalescer must not show.                                *)
(***************************************************************************)
CONSTANTS Request, Text, None, Failed,
          DedupKey(_)  \* what two texts must agree on to share a vector

VARIABLES text,    \* what each request asked for
          answer   \* what it got: a text (standing for its vector) or Failed

vars == <<text, answer>>

Init == /\ text = [r \in Request |-> None]
        /\ answer = [r \in Request |-> None]

Ask(r) == /\ text[r] = None
          /\ \E t \in Text : text' = [text EXCEPT ![r] = t]
          /\ UNCHANGED answer

\* Some callers get their answers together: a batch, or an owner and its joiners.
Reply == /\ answer' \in [Request -> Text \cup {Failed, None}]
         /\ \A r \in Request : \/ answer'[r] = answer[r]
                               \/ /\ text[r] # None /\ answer[r] = None
                                  /\ \/ answer'[r] = Failed
                                     \/ DedupKey(answer'[r]) = DedupKey(text[r])
         /\ UNCHANGED text

Next == Reply \/ \E r \in Request : Ask(r)

Spec == Init /\ [][Next]_vars

\* Nobody waits for ever (a request asks once).
Answered == []<>(\A r \in Request : text[r] # None => answer[r] # None)
=============================================================================
