----------------------------- MODULE MCMegaWeb -----------------------------
(* Small instances of MegaWeb for TLC. *)
EXTENDS MegaWeb, TLC

ClientSymmetry == Permutations(Client)
=============================================================================
