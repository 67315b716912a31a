----------------------------- MODULE MCJobPool ------------------------------
(* JobPool for TLC: both jobs refresh the same repository. *)
EXTENDS JobPool

OneKey == [j \in Job |-> "refresh"]

=============================================================================
