-------------------------- MODULE MCLeaderElection --------------------------
(* Two nodes; one service, of either kind, stands for those that the        *)
(* callbacks start and stop.                                                *)
EXTENDS LeaderElection

=============================================================================
