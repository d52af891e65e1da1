---------------------------- MODULE MCMsgChannel ----------------------------
(* MsgChannel for TLC: the messages are numbered as they are sent. *)
EXTENDS MsgChannel

MCMsg == 1..MaxMsgs
=============================================================================
