---------------------------- MODULE Transactions ----------------------------
(***************************************************************************)
(* What a bee promises the handler it runs (README.md, "Transactions"): a  *)
(* transaction stages the changes to the dictionaries and the messages the *)
(* handler emits; a commit applies and sends all of them, an abort drops   *)
(* all of them.  Outside of a transaction both take effect at once.        *)
(***************************************************************************)
EXTENDS Naturals

CONSTANTS Dict, Key, Val, None, Msg

VARIABLES
  store,     \* what the dictionaries hold
  open,      \* whether a transaction is open
  staged,    \* the dictionaries as the open transaction sees them
  buffered,  \* the messages of the open transaction
  sent       \* how often each message was sent

Stores == [Dict -> [Key -> Val \cup {None}]]

Init ==
  /\ store = [d \in Dict |-> [k \in Key |-> None]]
  /\ open = FALSE
  /\ staged = store
  /\ buffered = {}
  /\ sent = [m \in Msg |-> 0]

Begin ==
  /\ ~open
  /\ open' = TRUE
  /\ UNCHANGED <<store, staged, buffered, sent>>

\* v = None deletes the key.
Write(d, k, v) ==
  /\ staged' = [staged EXCEPT ![d][k] = v]
  /\ store' = IF open THEN store ELSE staged'
  /\ UNCHANGED <<open, buffered, sent>>

Emit(m) ==
  /\ sent[m] = 0 /\ m \notin buffered
  /\ IF open
     THEN buffered' = buffered \cup {m} /\ UNCHANGED sent
     ELSE sent' = [sent EXCEPT ![m] = 1] /\ UNCHANGED buffered
  /\ UNCHANGED <<store, open, staged>>

Commit ==
  /\ open
  /\ open' = FALSE
  /\ store' = staged
  /\ sent' = [m \in Msg |-> IF m \in buffered THEN sent[m] + 1 ELSE sent[m]]
  /\ buffered' = {}
  /\ UNCHANGED staged

Abort ==
  /\ open
  /\ open' = FALSE
  /\ staged' = store
  /\ buffered' = {}
  /\ UNCHANGED <<store, sent>>

Next ==
  \/ Begin
  \/ \E d \in Dict, k \in Key, v \in Val \cup {None} : Write(d, k, v)
  \/ \E m \in Msg : Emit(m)
  \/ Commit
  \/ Abort

vars == <<store, open, staged, buffered, sent>>

Spec == Init /\ [][Next]_vars
=============================================================================
