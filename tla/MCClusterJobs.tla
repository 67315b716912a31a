--------------------------- MODULE MCClusterJobs ---------------------------
(* Two nodes, one of which may fail, and jobs of one repository. *)
EXTENDS ClusterJobs

OneRepo == [j \in Job |-> "repo"]

=============================================================================
