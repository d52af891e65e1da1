-------------------------- MODULE MCBeeReplication --------------------------
(* A small instance of BeeReplication for TLC. *)
EXTENDS BeeReplication, TLC

Symmetry == Permutations(Msg)
=============================================================================
