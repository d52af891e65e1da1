------------------------------ MODULE MCQueen -------------------------------
(* Queen for TLC: what Map answers in each of the configurations. *)
EXTENDS Queen, TLC

CONSTANTS k1, k2, m1, m2, m3

MCHive == 1..MaxHiveID

\* Two messages with a common cell, one of them with a second cell, and a
\* message for all bees of a hive.
Shared == m1 :> {k1} @@ m2 :> {k1, k2} @@ m3 :> {}
=============================================================================
