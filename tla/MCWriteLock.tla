---------------------------- MODULE MCWriteLock ----------------------------
(* Two processes on two hosts, one of them with two threads that acquire.   *)
EXTENDS WriteLock, TLC

CONSTANTS c1, c2, c3, c4, p1, p2

ClientProc == [c \in Client |-> IF c \in {c1, c2} THEN p1 ELSE p2]
TwoHost == [p \in Process |-> IF p = p1 THEN "alpha" ELSE "beta"]

=============================================================================
