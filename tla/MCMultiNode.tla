---------------------------- MODULE MCMultiNode -----------------------------
(***************************************************************************)
(* A node with the hives' group and one bee's.  Request 1 is for the bee's *)
(* group and is made with ProposeRetry, request 2 for the hives' group.    *)
(***************************************************************************)
EXTENDS MultiNode

TwoGroups == 1..2

Targets == <<2, 1>>

\* A crash, a request that is tried again, and a bee whose state machine
\* blocks while others still replicate to it, each in an instance of its own.
Limits ==
  {[reqs |-> {1, 2}, tries |-> 0, others |-> <<1, 0>>, crashes |-> 1, blocks |-> 0],
   [reqs |-> {1, 2}, tries |-> 1, others |-> <<0, 0>>, crashes |-> 0, blocks |-> 0],
   [reqs |-> {2}, tries |-> 0, others |-> <<0, 4>>, crashes |-> 0, blocks |-> 1]}
=============================================================================
