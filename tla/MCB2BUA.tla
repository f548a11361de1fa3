------------------------------ MODULE MCB2BUA ------------------------------
(* Small instances of B2BUA for TLC. *)
EXTENDS B2BUA, TLC

Direct == {[nat |-> FALSE, fail |-> FALSE]}
Relayed == {[nat |-> TRUE, fail |-> FALSE]}
RelayedOrFull == {[nat |-> TRUE, fail |-> f] : f \in BOOLEAN}

LegSymmetry == Permutations(Leg)
=============================================================================
