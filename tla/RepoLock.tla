------------------------------ MODULE RepoLock ------------------------------
(***************************************************************************)
(* What the users of the write lock of a repository can rely on: a lock    *)
(* that excludes, and that a crash gives back, until a file is removed     *)
(* under its living owner (struck).  From then on it may have several      *)
(* holders.                                                                *)
(***************************************************************************)
CONSTANT Client

VARIABLES holders, struck

vars == <<holders, struck>>

Init == holders = {} /\ struck = FALSE

Take(c) == /\ c \notin holders
           /\ holders = {} \/ struck
           /\ holders' = holders \cup {c}
           /\ UNCHANGED struck

\* By release, or because the holders' process died.
Drop(S) == /\ holders' = holders \ S
           /\ UNCHANGED struck

Strike == struck' = TRUE /\ UNCHANGED holders

Next == \/ \E c \in Client : Take(c)
        \/ \E S \in SUBSET Client : Drop(S)
        \/ Strike

Spec == Init /\ [][Next]_vars

=============================================================================
