------------------------ MODULE MCSnapshotLifecycle ------------------------
(* Small instances of SnapshotLifecycle for TLC; queries are alike. *)
EXTENDS SnapshotLifecycle, TLC

Symmetry == Permutations(Query)

=============================================================================
