----------------------------- MODULE MCRegistry -----------------------------
(* Small instances of Registry for TLC. *)
EXTENDS Registry, TLC

\* Identifiers of the two hives' queens alternate.
hiveOf == [b \in BeeIDs |-> 1 + (b % MaxHiveID)]

Symmetry == Permutations(Cell)
=============================================================================
