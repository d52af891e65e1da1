------------------------------- MODULE BeeTx --------------------------------
(***************************************************************************)
(* How a bee that leads its colony runs Rcv in transactions: the staged    *)
(* dictionaries of state/tx.go, and the two layers of bee.go.              *)
(*                                                                         *)
(* Layer 1 wraps the bee's state for good.  For a batch of several         *)
(* messages handleMsgLeader opens a transaction in layer 1 and puts a new  *)
(* layer 2 on top: every message commits to layer 1, the batch commits to  *)
(* the state.  A TxDict of layer 2 keeps a reference to the dictionary     *)
(* below it, which is a TxDict of layer 1 or, when layer 1 had no open     *)
(* transaction, the state itself: "under" records which.                   *)
(*                                                                         *)
(* Operators map a bee to the bee after the call.  Rcv itself is any       *)
(* sequence of the calls that a handler may make.  A handler asks for a    *)
(* dictionary each time it uses one.  When the application is persistent   *)
(* the commit is proposed to the colony's Raft group; here the proposal    *)
(* succeeds.                                                               *)
(***************************************************************************)
EXTENDS Naturals, Sequences, SequencesExt

CONSTANTS
  Dict, Key, Val,
  None,         \* no value; no operation
  Deleted,      \* the operation that deletes a key
  Apps,         \* the applications a bee may be of
  MaxEmit       \* bound: messages that handlers emit

ASSUME BeeTxAssumption ==
  /\ None \notin Val /\ Deleted \notin Val /\ None # Deleted
  /\ \A a \in Apps :
       /\ a.persistent \in BOOLEAN                         \* app.persistent
       /\ a.batchSize \in Nat \ {0}                        \* bee.batchSize
       /\ a.calls \subseteq {"BeginTx", "CommitTx", "AbortTx"}
                              \* the transaction calls its handlers make
  /\ MaxEmit \in Nat

Msg == 1..MaxEmit
Contents == [Key -> Val \cup {None}]
TxDicts ==
  [staged : BOOLEAN, open : BOOLEAN, ops : [Key -> Val \cup {None, Deleted}],
   under : {"state", "tx"}]
Transactionals == [open : BOOLEAN, stage : [Dict -> TxDicts]]

NoOps == [k \in Key |-> None]
Unstaged == [staged |-> FALSE, open |-> FALSE, ops |-> NoOps, under |-> "state"]

NewTransactional == [open |-> FALSE, stage |-> [d \in Dict |-> Unstaged]]
-----------------------------------------------------------------------------
(* state/tx.go *)

\* TxDict.Get, for all keys: the staged operations over the contents below.
overlay(ops, below) ==
  [k \in Key |-> IF ops[k] = None THEN below[k]
                 ELSE IF ops[k] = Deleted THEN None ELSE ops[k]]

\* The contents of a dictionary as layer 1's TxDict, layer 1, and layer 2
\* show it.
txDictL1(b, d) == overlay(b.stateL1.stage[d].ops, b.state[d])

dictL1(b, d) == IF b.stateL1.open THEN txDictL1(b, d) ELSE b.state[d]

underL2(b, d) ==
  LET t == b.stateL2.stage[d]
  IN  IF ~t.staged THEN dictL1(b, d)
      ELSE IF t.under = "tx" THEN txDictL1(b, d) ELSE b.state[d]

dictL2(b, d) ==
  IF b.stateL2.open
  THEN overlay(b.stateL2.stage[d].ops, underL2(b, d))
  ELSE dictL1(b, d)

\* Transactional.Dict: within a transaction the dictionary becomes staged.
stageL1(b, d) ==
  IF b.stateL1.open
  THEN [b EXCEPT !.stateL1.stage[d].staged = TRUE, !.stateL1.stage[d].open = TRUE]
  ELSE b

stageL2(b, d) ==
  IF ~b.stateL2.open THEN stageL1(b, d)
  ELSE IF b.stateL2.stage[d].staged THEN [b EXCEPT !.stateL2.stage[d].open = TRUE]
  ELSE [stageL1(b, d) EXCEPT !.stateL2.stage[d] =
         [staged |-> TRUE, open |-> TRUE, ops |-> NoOps,
          under |-> IF b.stateL1.open THEN "tx" ELSE "state"]]

\* Mutant of Reset: the operations stay.
ResetStatus(t) == [t EXCEPT !.open = FALSE]

Reset(t) ==
  [open |-> FALSE,
   stage |-> [d \in Dict |-> [t.stage[d] EXCEPT !.open = FALSE, !.ops = NoOps]]]

\* TxDict.Put and Del in a staged dictionary with operations ops and
\* contents f: to delete an absent key is an error and stages nothing.
stageOp(ops, f, k, o) ==
  IF o = Deleted /\ f[k] = None THEN ops ELSE [ops EXCEPT ![k] = o]

\* TxDict.CommitTx of every open dictionary of the layer, into the one below.
commitStageL1(b) ==
  [b EXCEPT !.state =
     [d \in Dict |-> IF b.stateL1.stage[d].open THEN txDictL1(b, d) ELSE @[d]],
   !.stateL1 = Reset(@)]

commitStageL2(b) ==
  LET commits(d, u) == b.stateL2.stage[d].open /\ b.stateL2.stage[d].under = u
      ops(d) == b.stateL2.stage[d].ops
      opsL1(d) == b.stateL1.stage[d].ops
      merged(d) ==
        [k \in Key |-> IF ops(d)[k] = None THEN opsL1(d)[k]
                       ELSE stageOp(opsL1(d), txDictL1(b, d), k, ops(d)[k])[k]]
  IN  [b EXCEPT
        !.state = [d \in Dict |-> IF commits(d, "state")
                                  THEN overlay(ops(d), @[d]) ELSE @[d]],
        !.stateL1.stage = [d \in Dict |-> IF commits(d, "tx")
                                          THEN [@[d] EXCEPT !.ops = merged(d)]
                                          ELSE @[d]],
        !.stateL2 = Reset(@)]

HasEmptyTx(t) == \A d \in Dict : ~t.stage[d].staged
-----------------------------------------------------------------------------
(* bee.go *)

throttle(b, msgs) == [b EXCEPT !.out = @ \o msgs]

\* Mutant of resetTxL1: the messages stay.
resetTxL1Dicts(b) == [b EXCEPT !.stateL1 = Reset(@)]

resetTxL1(b) == [b EXCEPT !.stateL1 = Reset(@), !.msgBufL1 = <<>>]
resetTxL2(b) == [b EXCEPT !.stateL2 = Reset(@), !.msgBufL2 = <<>>]

\* currentState: layer 2 when there is one.
currentOpen(b) == IF b.hasL2 THEN b.stateL2.open ELSE b.stateL1.open
currentDict(b, d) == IF b.hasL2 THEN dictL2(b, d) ELSE dictL1(b, d)

bufferOrEmit(b, m) ==
  IF ~currentOpen(b) THEN throttle(b, <<m>>)
  ELSE IF b.hasL2 THEN [b EXCEPT !.msgBufL2 = Append(@, m)]
  ELSE [b EXCEPT !.msgBufL1 = Append(@, m)]

\* ctx.Dict(d) and then Put or Del; o = None only looks at the dictionary.
useDict(b, d, k, o) ==
  LET s == IF b.hasL2 THEN stageL2(b, d) ELSE stageL1(b, d)
      f == currentDict(b, d)
  IN  IF o = None THEN s
      ELSE IF b.hasL2 /\ b.stateL2.open
      THEN [s EXCEPT !.stateL2.stage[d].ops = stageOp(@, f, k, o)]
      ELSE IF b.stateL1.open
      THEN [s EXCEPT !.stateL1.stage[d].ops = stageOp(@, f, k, o)]
      ELSE [s EXCEPT !.state[d][k] = IF o = Deleted THEN None ELSE o]

beginTx(b) ==
  IF currentOpen(b) THEN b
  ELSE IF b.hasL2 THEN [b EXCEPT !.stateL2.open = TRUE]
  ELSE [b EXCEPT !.stateL1.open = TRUE]

\* Mutant of abortTx: the messages of layer 2 stay.
abortTxDicts(b) ==
  IF ~currentOpen(b) THEN b
  ELSE IF b.hasL2 THEN [b EXCEPT !.stateL2 = Reset(@)] ELSE resetTxL1(b)

abortTx(b) ==
  IF ~currentOpen(b) THEN b
  ELSE IF b.hasL2 THEN resetTxL2(b) ELSE resetTxL1(b)

\* Mutant of commitTxL2: the newer messages go first.
commitTxL2Prepends(b) ==
  IF b.stateL2.open
  THEN resetTxL2([commitStageL2(b) EXCEPT !.msgBufL1 = b.msgBufL2 \o @])
  ELSE resetTxL2(b)

commitTxL2(b) ==
  IF b.stateL2.open
  THEN resetTxL2([commitStageL2(b) EXCEPT !.msgBufL1 = @ \o b.msgBufL2])
  ELSE resetTxL2(b)

commitTxL1(b) ==
  IF b.stateL1.open
  THEN resetTxL1(throttle(commitStageL1(b), b.msgBufL1))
  ELSE resetTxL1(b)

\* The error of either commit leads to the reset of both layers.
commitTxBothLayers(b) ==
  LET c == IF b.hasL2 THEN commitStageL2(b) ELSE b
  IN  IF b.hasL2 /\ ~b.stateL2.open THEN resetTxL1(resetTxL2(b))
      ELSE IF ~c.stateL1.open
      THEN resetTxL1(IF b.hasL2 THEN resetTxL2(c) ELSE c)
      ELSE LET e == throttle(commitStageL1(c), b.msgBufL1)
           IN  IF b.hasL2
               THEN resetTxL1(resetTxL2(throttle(e, b.msgBufL2)))
               ELSE resetTxL1(e)

\* Mutant of applyTx: the leader's open transaction is not reset.
applyTxOpen(b) ==
  LET ops == [d \in Dict |-> b.stateL1.stage[d].ops]
  IN  throttle([b EXCEPT !.state = [d \in Dict |-> overlay(ops[d], @[d])]],
               b.msgBufL1)

\* bee.Apply of the transaction that replicate proposed, at the leader.
applyTx(b) ==
  LET ops == [d \in Dict |-> b.stateL1.stage[d].ops]
      r == resetTxL1([b EXCEPT !.hasL2 = FALSE])
  IN  throttle([r EXCEPT !.state = [d \in Dict |-> overlay(ops[d], @[d])]],
               b.msgBufL1)

\* Mutant of replicate: a transaction without operations is not committed.
replicateOps(b) ==
  LET c == IF b.hasL2 THEN [commitTxL2(b) EXCEPT !.hasL2 = FALSE] ELSE b
  IN  IF ~c.stateL1.open THEN c
      ELSE IF \A d \in Dict : c.stateL1.stage[d].ops = NoOps THEN resetTxL1(c)
      ELSE applyTx(c)

replicate(b) ==
  LET c == IF b.hasL2 THEN [commitTxL2(b) EXCEPT !.hasL2 = FALSE] ELSE b
  IN  IF ~c.stateL1.open THEN c
      ELSE IF \A d \in Dict : c.stateL1.stage[d].ops = NoOps THEN commitTxL1(c)
      ELSE applyTx(c)

commitTx(b) == IF b.app.persistent THEN replicate(b) ELSE commitTxBothLayers(b)

\* handleMsgLeader: before the first Rcv, after each Rcv, and after the last.
openBatch(b, n) ==
  IF n > 1
  THEN [b EXCEPT !.hasL2 = TRUE, !.stateL2 = NewTransactional,
                 !.stateL1.open = TRUE]
  ELSE b

finishMsg(b) ==
  IF ~b.hasL2 THEN commitTx(b)
  ELSE IF b.msgBufL1 = <<>> /\ HasEmptyTx(b.stateL2)
  THEN resetTxL2(throttle(b, b.msgBufL2))
  ELSE commitTxL2(b)

closeBatch(b) == IF b.hasL2 THEN commitTx([b EXCEPT !.hasL2 = FALSE]) ELSE b
-----------------------------------------------------------------------------
VARIABLES
  bee,      \* the fields of the bee
  left,     \* messages of the batch that Rcv has not returned from
  running,  \* whether Rcv is running
  emitted   \* how many messages handlers have emitted

vars == <<bee, left, running, emitted>>

Init ==
  /\ \E a \in Apps :
     bee = [app      |-> a,
            state    |-> [d \in Dict |-> [k \in Key |-> None]],
            stateL1  |-> NewTransactional,
            stateL2  |-> NewTransactional,
            hasL2    |-> FALSE,
            msgBufL1 |-> <<>>,
            msgBufL2 |-> <<>>,
            out      |-> <<>>]
  /\ left = 0
  /\ running = FALSE
  /\ emitted = 0

StartBatch(n) ==
  /\ left = 0
  /\ left' = n
  /\ running' = TRUE
  /\ bee' = beginTx(openBatch(bee, n))
  /\ UNCHANGED emitted

NextMsg ==
  /\ left > 0 /\ ~running
  /\ running' = TRUE
  /\ bee' = beginTx(bee)
  /\ UNCHANGED <<left, emitted>>

UseDict(d, k, o) ==
  /\ running
  /\ bee' = useDict(bee, d, k, o)
  /\ UNCHANGED <<left, running, emitted>>

EmitMsg ==
  /\ running
  /\ emitted < MaxEmit
  /\ emitted' = emitted + 1
  /\ bee' = bufferOrEmit(bee, emitted')
  /\ UNCHANGED <<left, running>>

CallTx(call) ==
  /\ running
  /\ bee' = CASE call = "BeginTx"  -> beginTx(bee)
              [] call = "CommitTx" -> commitTx(bee)
              [] call = "AbortTx"  -> abortTx(bee)
  /\ UNCHANGED <<left, running, emitted>>

\* Rcv returns, or it fails: recoverFromError then aborts the transaction.
Return(err) ==
  LET b == IF err THEN abortTx(bee) ELSE bee
  IN  /\ running
      /\ running' = FALSE
      /\ left' = left - 1
      /\ bee' = IF left = 1 THEN closeBatch(finishMsg(b)) ELSE finishMsg(b)
      /\ UNCHANGED emitted

Next ==
  \/ \E n \in 1..bee.app.batchSize : StartBatch(n)
  \/ NextMsg
  \/ \E d \in Dict, k \in Key, o \in Val \cup {None, Deleted} : UseDict(d, k, o)
  \/ EmitMsg
  \/ \E call \in bee.app.calls : CallTx(call)
  \/ \E err \in BOOLEAN : Return(err)

Spec == Init /\ [][Next]_vars
-----------------------------------------------------------------------------
(* Correctness *)

\* Type invariant: the fields of the bee (bee.go) and of its two
\* Transactionals (state/tx.go) are well formed.
TypeOK ==
  /\ bee.state \in [Dict -> Contents]
  /\ bee.stateL1 \in Transactionals /\ bee.stateL2 \in Transactionals
  /\ bee.hasL2 \in BOOLEAN
  /\ bee.msgBufL1 \in Seq(Msg) /\ bee.msgBufL2 \in Seq(Msg) /\ bee.out \in Seq(Msg)
  /\ bee.app \in Apps
  /\ left \in 0..bee.app.batchSize /\ running \in BOOLEAN /\ emitted \in 0..MaxEmit

\* As long as handlers leave transactions to the bee, messages leave it in the
\* order in which the handlers emitted them, whichever of the three ways out
\* (the layers, the shortcut of handleMsgLeader) each of them takes.
SentInOrder ==
  bee.app.calls = {} =>
    \A i, j \in DOMAIN bee.out : i < j => bee.out[i] < bee.out[j]

\* What handlers see of the two layers is a single transaction per message:
\* the batch, its layers and its one commit at the end are not observable.
Promise == INSTANCE Transactions WITH
  store <- [d \in Dict |-> IF bee.hasL2 THEN dictL1(bee, d) ELSE bee.state[d]],
  open <- currentOpen(bee),
  staged <- [d \in Dict |-> currentDict(bee, d)],
  buffered <- ToSet(IF bee.hasL2 THEN bee.msgBufL2 ELSE bee.msgBufL1),
  sent <- LET s == IF bee.hasL2 THEN bee.out \o bee.msgBufL1 ELSE bee.out
          IN  [m \in Msg |-> Len(SelectSeq(s, LAMBDA x : x = m))]

\* A bee implements Transactions: whatever a batch and its handlers do, a
\* transaction that ends with a commit applies all its changes and sends all
\* its messages exactly once, one that is aborted none, and a handler reads
\* its own writes (handleMsgLeader, CommitTx, AbortTx).
ImplementsTransactions == Promise!Spec
=============================================================================
