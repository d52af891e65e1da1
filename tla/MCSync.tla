------------------------------- MODULE MCSync -------------------------------
(* A small instance of Sync for TLC. *)
EXTENDS Sync
=============================================================================
