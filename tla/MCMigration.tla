---------------------------- MODULE MCMigration -----------------------------
(***************************************************************************)
(* Two hives with a bee each.  Either both bees are asked to migrate while *)
(* one message is under way, or one is while two messages are under way    *)
(* and one call fails.                                                     *)
(***************************************************************************)
EXTENDS Migration, TLC

CONSTANTS k1, k2, m1, m2

MCHive == 1..MaxHiveID

MCStart == k1 :> 1 @@ k2 :> 2

MCCell == m1 :> k1 @@ m2 :> k1

Limits ==
  {[migrate |-> 2, fault |-> 0, msgs |-> {m1}],
   [migrate |-> 1, fault |-> 1, msgs |-> {m1, m2}]}
=============================================================================
