---------------------------- MODULE MCIndexCache ----------------------------
(* IndexCache for TLC: a clone whose second version is larger than the cap. *)
EXTENDS IndexCache

MCSize == [k \in Key |-> [v \in 0..MaxVersion |-> IF k \in Clone /\ v > 1 THEN 2 ELSE 1]]
MCCap == [x \in Cache |-> 1]

=============================================================================
