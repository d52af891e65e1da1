------------------------------ MODULE MCBeeTx -------------------------------
(* BeeTx for TLC: the applications of each configuration. *)
EXTENDS BeeTx

app(persistent, batchSize, calls) ==
  [persistent |-> persistent, batchSize |-> batchSize, calls |-> calls]

\* Handlers that leave transactions to the bee; that begin and abort some;
\* every call, one message at a time; and every call of a persistent
\* application.
Mixed ==
  {app(FALSE, 3, {}),
   app(FALSE, 3, {"BeginTx", "AbortTx"}),
   app(FALSE, 1, {"BeginTx", "AbortTx", "CommitTx"}),
   app(TRUE, 3, {"BeginTx", "AbortTx", "CommitTx"})}
=============================================================================
