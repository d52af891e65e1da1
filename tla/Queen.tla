------------------------------- MODULE Queen --------------------------------
(***************************************************************************)
(* The queens of queen.go: one per hive, each a goroutine that takes a     *)
(* batch of messages, maps every message to cells, and hands it to the bee *)
(* that owns them.  Cells that nobody owns are collected, with their       *)
(* messages, and at the end of the batch locked for new bees by one        *)
(* request to the registry.                                                *)
(*                                                                         *)
(* The registry is a Raft log of requests and a replica per hive that has  *)
(* applied a prefix of the log: a queen reads its own replica, which may   *)
(* be behind, and waits for its own request to be applied there.  A        *)
(* request that takes too long is proposed again by ProposeRetry, and then *)
(* is in the log twice.                                                    *)
(*                                                                         *)
(* Modelled are applications with the default placement (placeBee answers  *)
(* the queen's own hive, so q.pendingCells stays empty), in a cluster      *)
(* whose colonies do not change and whose hives do not fail.  Every queen  *)
(* has been given a range of bee identifiers.                              *)
(***************************************************************************)
EXTENDS RegistryState, Sequences, Functions

CONSTANTS
  Hive,      \* the hives
  Msg,       \* the messages
  MsgCells,  \* what Map answers for a message; {} is a local broadcast
  MaxRetry   \* bound: requests that are proposed again

ASSUME QueenAssumption ==
  /\ Hive = 1..MaxHiveID
  /\ MsgCells \in [Msg -> SUBSET Cell]
  /\ MaxBeeID = hiveGroup + MaxHiveID * BatchSize
  /\ MaxRetry \in Nat

VARIABLES
  log,      \* requests in the order in which Raft commits them
  applied,  \* how much of the log each hive has applied
  reg,      \* the replica of the registry at each hive
  queen,    \* the queen of each hive
  bees,     \* q.bees of each hive, with the messages enqueued to each bee
  emitted,  \* the messages emitted at each hive, in order
  retries,  \* requests proposed again so far
  dropped,  \* messages that hive.handleMsg has given up ("no such bee")
  dead      \* hives that have met a glog.Fatal of the queen

vars == <<log, applied, reg, queen, bees, emitted, retries, dropped, dead>>

\* One pair of requests of a batch: addBee of a new bee, unless info is NoBee,
\* and lockMappedCell.
Request(info, c, S) == [info |-> info, col |-> c, cells |-> S]

\* A message and the bee it is for, Nil if the message is to be mapped.
Env(m, to) == [msg |-> m, to |-> to]

NoWait == [kind |-> "none", idx |-> 0, req |-> <<>>, res |-> <<>>, pcs |-> <<>>]

Init ==
  /\ log = <<>>
  /\ applied = [h \in Hive |-> 0]
  /\ reg = [h \in Hive |-> allocBeeIDs(newRegistry, MaxHiveID * BatchSize)]
  /\ queen = [h \in Hive |->
       [dataCh   |-> <<>>,                   \* messages for the queen
        batch    |-> <<>>,                   \* rest of the batch it handles
        pcs      |-> <<>>,                   \* the pendingCells it made
        pendingC |-> [k \in Cell |-> 0],     \* index into pcs, 0 if none
        wait     |-> NoWait,                 \* the request it waits for
        nextID   |-> hiveGroup + 1 + (h - 1) * BatchSize]]
  /\ bees = [h \in Hive |->
       [b \in BeeIDs |-> [kind |-> "none", dataCh |-> <<>>]]]
  /\ emitted = [h \in Hive |-> <<>>]
  /\ retries = 0
  /\ dropped = {} /\ dead = {}

Up(h) == h \notin dead /\ ~reg[h].dead

\* Between two messages of the loop of handleMsgs.
Running(h) == Up(h) /\ queen[h].wait.kind = "none"
-----------------------------------------------------------------------------
(* The registry as the queens see it *)

\* doApply of one pair: the registry after it and the leader that has the
\* cells then, which is what lockCell answers.
applyPair(acc, p) ==
  LET r == IF p.info = NoBee THEN acc.reg ELSE addBee(acc.reg, p.info)
  IN  [reg |-> lockCell(r, p.col, p.cells),
       res |-> Append(acc.res, lockWinner(r, p.col, p.cells).Leader)]

handleBatch(r, req) ==
  LET upTo[i \in 0..Len(req)] ==
        IF i = 0 THEN [reg |-> r, res |-> <<>>] ELSE applyPair(upTo[i - 1], req[i])
  IN  upTo[Len(req)]

\* Raft applies the next request of the log at h.
Apply(h) ==
  LET i == applied[h] + 1
      a == handleBatch(reg[h], log[i])
  IN  /\ Up(h)
      /\ i <= Len(log)
      /\ applied' = [applied EXCEPT ![h] = i]
      /\ reg' = [reg EXCEPT ![h] = a.reg]
      /\ queen' = IF queen[h].wait.idx = i
                  THEN [queen EXCEPT ![h].wait.res = a.res] ELSE queen
      /\ UNCHANGED <<log, bees, emitted, retries, dropped, dead>>

\* Mutant of Answered: the answer is awaited one request longer.
AnsweredLate(h) == queen[h].wait.idx < applied[h]

Answered(h) == queen[h].wait.idx <= applied[h]

\* ProposeRetry gives up on a proposal that it has no answer to and makes
\* it anew; the first one stays in the log.
Retry(h) ==
  /\ Up(h)
  /\ queen[h].wait.kind # "none" /\ ~Answered(h)
  /\ retries < MaxRetry
  /\ retries' = retries + 1
  /\ log' = Append(log, queen[h].wait.req)
  /\ queen' = [queen EXCEPT ![h].wait.idx = Len(log')]
  /\ UNCHANGED <<applied, reg, bees, emitted, dropped, dead>>

\* registry.beeForCells: the leaders it may answer with, none if no cell is
\* locked, and whether that leader has all the cells.
leadersOf(r, S) == {r.CellBees[k].Leader : k \in S} \ {Nil}
hasAll(r, S) == Cardinality({r.CellBees[k].Leader : k \in S}) = 1
-----------------------------------------------------------------------------
(* Bees of a hive *)

isLocalBee(h, b) == reg[h].Bees[b].Hive = h

\* The end of beeByCells and of handleUnicastMsg: the bee with that
\* identifier, a new proxy if it is on another hive, and the messages
\* enqueued to it.  A local bee must be there.
enqueTo(h, b, msgs) ==
  IF bees[h][b].kind # "none"
  THEN /\ bees' = [bees EXCEPT ![h][b].dataCh = @ \o msgs]
       /\ UNCHANGED dead
  ELSE IF isLocalBee(h, b)
  THEN dead' = dead \cup {h} /\ UNCHANGED bees
  ELSE /\ bees' = [bees EXCEPT ![h][b] = [kind |-> "proxy", dataCh |-> msgs]]
       /\ UNCHANGED dead

\* Mutant of Forward: the bee is looked for at the queen.
ForwardToQueen(h, b) ==
  LET g == reg[h].Bees[b].Hive
      m == Head(bees[h][b].dataCh)
  IN  /\ bees[h][b].kind = "proxy"
      /\ bees[h][b].dataCh # <<>>
      /\ Up(h) /\ Up(g)
      /\ bees' = [bees EXCEPT ![h][b].dataCh = Tail(@)]
      /\ IF bees[g][b].kind # "none"
         THEN /\ queen' = [queen EXCEPT ![g].dataCh = Append(@, Env(m, b))]
              /\ UNCHANGED dropped
         ELSE dropped' = dropped \cup {m} /\ UNCHANGED queen
      /\ UNCHANGED <<log, applied, reg, emitted, retries, dead>>

\* A proxy relays its oldest message to the hive of the bee, where
\* hive.handleMsg gives it up if that hive does not know of the bee yet.
Forward(h, b) ==
  LET g == reg[h].Bees[b].Hive
      m == Head(bees[h][b].dataCh)
  IN  /\ bees[h][b].kind = "proxy"
      /\ bees[h][b].dataCh # <<>>
      /\ Up(h) /\ Up(g)
      /\ bees' = [bees EXCEPT ![h][b].dataCh = Tail(@)]
      /\ IF HasBee(reg[g], b)
         THEN /\ queen' = [queen EXCEPT ![g].dataCh = Append(@, Env(m, b))]
              /\ UNCHANGED dropped
         ELSE dropped' = dropped \cup {m} /\ UNCHANGED queen
      /\ UNCHANGED <<log, applied, reg, emitted, retries, dead>>
-----------------------------------------------------------------------------
(* handleMsgs *)

Emit(h, m) ==
  /\ \A g \in Hive : m \notin Range(emitted[g])
  /\ emitted' = [emitted EXCEPT ![h] = Append(@, m)]
  /\ queen' = [queen EXCEPT ![h].dataCh = Append(@, Env(m, Nil))]
  /\ UNCHANGED <<log, applied, reg, bees, retries, dropped, dead>>

\* Mutant of TakeBatch: the last message of the batch stays in the channel.
TakeBatchShort(h, n) ==
  /\ Running(h)
  /\ queen[h].batch = <<>> /\ queen[h].pcs = <<>>
  /\ n <= Len(queen[h].dataCh)
  /\ queen' = [queen EXCEPT
       ![h].batch = SubSeq(queen[h].dataCh, 1, n),
       ![h].dataCh = SubSeq(@, n, Len(@))]
  /\ UNCHANGED <<log, applied, reg, bees, emitted, retries, dropped, dead>>

\* qee.start: as much of the channel as there is now, up to BatchSize.
TakeBatch(h, n) ==
  /\ Running(h)
  /\ queen[h].batch = <<>> /\ queen[h].pcs = <<>>
  /\ n <= Len(queen[h].dataCh)
  /\ queen' = [queen EXCEPT
       ![h].batch = SubSeq(queen[h].dataCh, 1, n),
       ![h].dataCh = SubSeq(@, n + 1, Len(@))]
  /\ UNCHANGED <<log, applied, reg, bees, emitted, retries, dropped, dead>>

\* Messages that are handled without waiting for the registry.
Advance(h) == queen' = [queen EXCEPT ![h].batch = Tail(@)]

HandleUnicast(h) ==
  LET x == Head(queen[h].batch)
  IN  /\ Running(h) /\ queen[h].batch # <<>>
      /\ x.to # Nil
      /\ Advance(h)
      /\ enqueTo(h, x.to, <<x.msg>>)
      /\ UNCHANGED <<log, applied, reg, emitted, retries, dropped>>

HandleLocalBcast(h) ==
  LET x == Head(queen[h].batch)
  IN  /\ Running(h) /\ queen[h].batch # <<>>
      /\ x.to = Nil /\ MsgCells[x.msg] = {}
      /\ Advance(h)
      /\ bees' = [bees EXCEPT ![h] =
           [b \in BeeIDs |-> IF @[b].kind = "local"
                             THEN [@[b] EXCEPT !.dataCh = Append(@, x.msg)]
                             ELSE @[b]]]
      /\ UNCHANGED <<log, applied, reg, emitted, retries, dropped, dead>>

Mapped(h, x) ==
  /\ Running(h) /\ queen[h].batch # <<>>
  /\ x = Head(queen[h].batch)
  /\ x.to = Nil /\ MsgCells[x.msg] # {}

\* beeByCells finds the bee of all cells.
HandleOwned(h, b) ==
  LET x == Head(queen[h].batch)
      S == MsgCells[x.msg]
  IN  /\ Mapped(h, x)
      /\ b \in leadersOf(reg[h], S)
      /\ hasAll(reg[h], S)
      /\ Advance(h)
      /\ enqueTo(h, b, <<x.msg>>)
      /\ UNCHANGED <<log, applied, reg, emitted, retries, dropped>>

propose(h, kind, req, pcs, q) ==
  /\ log' = Append(log, req)
  /\ queen' = [queen EXCEPT ![h] =
       [q EXCEPT !.wait = [kind |-> kind, idx |-> Len(log'), req |-> req,
                           res |-> <<>>, pcs |-> pcs]]]

\* beeByCells finds a bee, locks the other cells for it, and waits.
HandlePartlyOwned(h, b) ==
  LET x == Head(queen[h].batch)
      S == MsgCells[x.msg]
  IN  /\ Mapped(h, x)
      /\ b \in leadersOf(reg[h], S)
      /\ ~hasAll(reg[h], S)
      /\ propose(h, "cells", <<Request(NoBee, reg[h].Bees[b].Colony, S)>>,
                 <<b>>, queen[h])
      /\ UNCHANGED <<applied, reg, bees, emitted, retries, dropped, dead>>

\* Mutant of CellsLocked: the message is handled once more.
CellsLockedAgain(h) ==
  LET w == queen[h].wait
  IN  /\ Up(h) /\ w.kind = "cells" /\ Answered(h)
      /\ queen' = [queen EXCEPT ![h].wait = NoWait]
      /\ enqueTo(h, w.pcs[1], <<Head(queen[h].batch).msg>>)
      /\ UNCHANGED <<log, applied, reg, emitted, retries, dropped>>

\* The answer is not looked at: the message goes to the bee that had one of
\* the cells before.
CellsLocked(h) ==
  LET w == queen[h].wait
  IN  /\ Up(h) /\ w.kind = "cells" /\ Answered(h)
      /\ queen' = [queen EXCEPT ![h].batch = Tail(@), ![h].wait = NoWait]
      /\ enqueTo(h, w.pcs[1], <<Head(queen[h].batch).msg>>)
      /\ UNCHANGED <<log, applied, reg, emitted, retries, dropped>>

\* Mutant of joinable: every message gets a pendingCells of its own.
joinableNone(q, S) == {Len(q.pcs) + 1}

\* The pendingCells of this batch that have a cell of S (handleMsgs takes the
\* first in the order of Map's answer, hence any), or a new one.
joinable(q, S) ==
  LET have == {q.pendingC[k] : k \in S} \ {0}
  IN  IF have = {} THEN {Len(q.pcs) + 1} ELSE have

\* Mutant of addMsg: the newest message is the first.
addMsgFront(pc, S, m) == [pc EXCEPT !.cells = @ \cup S, !.msgs = <<m>> \o @]

addMsg(pc, S, m) == [pc EXCEPT !.cells = @ \cup S, !.msgs = Append(@, m)]

\* Nobody has a cell: the message waits in a pendingCells for the end of the
\* batch, and all its cells are then pending there.
Collect(h) ==
  LET q == queen[h]
      x == Head(q.batch)
      S == MsgCells[x.msg]
      new == [cells |-> {}, msgs |-> <<>>, bee |-> Nil]
  IN  /\ Mapped(h, x)
      /\ leadersOf(reg[h], S) = {}
      /\ \E p \in joinable(q, S) :
           LET pcs == IF p > Len(q.pcs) THEN Append(q.pcs, new) ELSE q.pcs
           IN  queen' = [queen EXCEPT ![h] = [q EXCEPT
                 !.batch = Tail(@),
                 !.pcs = [pcs EXCEPT ![p] = addMsg(@, S, x.msg)],
                 !.pendingC = [k \in Cell |-> IF k \in S THEN p ELSE @[k]]]]
      /\ UNCHANGED <<log, applied, reg, bees, emitted, retries, dropped, dead>>

\* The batch is mapped: one request registers a bee and locks the cells for
\* every pendingCells that is still in the map, in the map's (any) order.
ProposeLocks(h, order) ==
  LET q == queen[h]
      id(i) == q.nextID + i - 1
      pair(i) ==
        Request([ID |-> id(i), Hive |-> h, Colony |-> DefaultColony(id(i)),
                 Detached |-> FALSE],
                DefaultColony(id(i)), q.pcs[order[i]].cells)
      named == [p \in DOMAIN q.pcs |->
                  IF p \in Range(order)
                  THEN [q.pcs[p] EXCEPT !.bee = id(CHOOSE i \in DOMAIN order :
                                                     order[i] = p)]
                  ELSE q.pcs[p]]
  IN  /\ Running(h)
      /\ q.batch = <<>> /\ q.pcs # <<>>
      /\ Range(order) = {q.pendingC[k] : k \in Cell} \ {0}
      /\ q.nextID + Len(order) <= hiveGroup + 1 + h * BatchSize
      /\ propose(h, "locks", [i \in DOMAIN order |-> pair(i)], order,
                 [q EXCEPT !.pcs = named, !.nextID = @ + Len(order)])
      /\ UNCHANGED <<applied, reg, bees, emitted, retries, dropped, dead>>

\* One of the goroutines that handle the answer: with the bee that the cells
\* were locked for, or with the bee of another hive that was faster.
\* pendingC is asked for some cell of the lock (cells[0], in map order).
LocksAnswered(h, i, k) ==
  LET q == queen[h]
      w == q.wait
      pc == q.pcs[q.pendingC[k]]
      rest == [w EXCEPT !.pcs = [@ EXCEPT ![i] = 0]]
  IN  /\ Up(h) /\ w.kind = "locks" /\ Answered(h)
      /\ i \in DOMAIN w.pcs /\ w.pcs[i] # 0
      /\ k \in w.req[i].cells
      /\ IF w.res[i] = w.req[i].col.Leader
         THEN /\ bees' = [bees EXCEPT ![h][pc.bee] =
                            [kind |-> "local", dataCh |-> @.dataCh \o pc.msgs]]
              /\ UNCHANGED dead
         ELSE \E b \in leadersOf(reg[h], w.req[i].cells) : enqueTo(h, b, pc.msgs)
      /\ queen' = [queen EXCEPT ![h] =
           IF Range(rest.pcs) = {0}
           THEN [q EXCEPT !.wait = NoWait, !.pcs = <<>>,
                          !.pendingC = [c \in Cell |-> 0]]
           ELSE [q EXCEPT !.wait = rest]]
      /\ UNCHANGED <<log, applied, reg, emitted, retries, dropped>>

\* Sequences without repetition.
Orders == UNION {{s \in [1..n -> 1..BatchSize] : IsInjective(s)} : n \in 1..BatchSize}

QueenStep(h) ==
  \/ \E n \in 1..BatchSize : TakeBatch(h, n)
  \/ HandleUnicast(h)
  \/ HandleLocalBcast(h)
  \/ \E b \in BeeIDs : HandleOwned(h, b) \/ HandlePartlyOwned(h, b)
  \/ CellsLocked(h)
  \/ Collect(h)
  \/ \E order \in Orders : ProposeLocks(h, order)
  \/ \E i \in 1..BatchSize, k \in Cell : LocksAnswered(h, i, k)

Next ==
  \E h \in Hive :
    \/ \E m \in Msg : Emit(h, m)
    \/ QueenStep(h)
    \/ Apply(h)
    \/ Retry(h)
    \/ \E b \in BeeIDs : Forward(h, b)

\* Queens and proxies are goroutines that never return, and Raft applies what
\* it has committed.
Fairness ==
  \A h \in Hive :
    /\ WF_vars(QueenStep(h))
    /\ WF_vars(Apply(h))
    /\ \A b \in BeeIDs : WF_vars(Forward(h, b))

Spec == Init /\ [][Next]_vars /\ Fairness
-----------------------------------------------------------------------------
(* Correctness *)

Pairs == [info : BeeInfos, col : Colonies, cells : SUBSET Cell]
Envs == [msg : Msg, to : BeeIDs]

\* Type invariant: the replicas, the queens and their bees are well formed
\* (struct qee, pendingCells and registry).
TypeOK ==
  /\ log \in Seq(Seq(Pairs))
  /\ applied \in [Hive -> Nat]
  /\ reg \in [Hive -> Registries]
  /\ \A h \in Hive :
       /\ queen[h].dataCh \in Seq(Envs) /\ queen[h].batch \in Seq(Envs)
       /\ queen[h].pcs \in Seq([cells : SUBSET Cell, msgs : Seq(Msg), bee : BeeIDs])
       /\ queen[h].pendingC \in [Cell -> 0..BatchSize]
       /\ queen[h].wait.res \in Seq(BeeIDs)
       /\ queen[h].nextID \in Nat
       /\ emitted[h] \in Seq(Msg)
       /\ \A b \in BeeIDs :
            /\ bees[h][b].kind \in {"none", "local", "proxy"}
            /\ bees[h][b].dataCh \in Seq(Msg)
  /\ retries \in 0..MaxRetry
  /\ dropped \subseteq Msg /\ dead \subseteq Hive

\* No hive is stopped by a Fatal: the registry never meets conflicting
\* colonies (lockCell) and a bee that the registry places on a hive exists
\* there by the time its queen looks for it ("cannot find local bee").
NoFatal == \A h \in Hive : Up(h)

\* Each bee exclusively owns its cells: whatever hives the messages of a cell
\* are emitted at, and however their queens race for the cell, only one bee
\* receives them, and it is the one that the registry names.
OneBeePerCell ==
  \A h \in Hive, b \in BeeIDs :
    bees[h][b].kind = "local" =>
      \A m \in Range(bees[h][b].dataCh) : \A k \in MsgCells[m] :
        \A g \in Hive : Locked(reg[g], k) => reg[g].CellBees[k].Leader = b

Copies(s, m) == Len(SelectSeq(s, LAMBDA x : x = m))

SumOver(S, f(_)) == FoldFunction(+, 0, [x \in S |-> f(x)])

\* Where a message is: at a queen, in a pendingCells, or with a bee.
CopiesOf(m) ==
  SumOver(Hive, LAMBDA h :
    Len(SelectSeq(queen[h].dataCh \o queen[h].batch, LAMBDA x : x.msg = m))
    + SumOver({i \in DOMAIN queen[h].pcs :
                 queen[h].wait.kind = "locks" => i \in Range(queen[h].wait.pcs)},
              LAMBDA i : Copies(queen[h].pcs[i].msgs, m))
    + SumOver(BeeIDs, LAMBDA b : Copies(bees[h][b].dataCh, m)))

IsMapped(m) == MsgCells[m] # {}

\* A message that was emitted is in exactly one place, or its loss was
\* reported: none disappears silently or is handed to a bee twice, although
\* batches are collected, requests are repeated and the queens of other
\* hives win the cells in between.
ExactlyOnce ==
  \A m \in Msg : IsMapped(m) =>
    CopiesOf(m) + (IF m \in dropped THEN 1 ELSE 0)
      = IF \E h \in Hive : m \in Range(emitted[h]) THEN 1 ELSE 0

\* A message is relayed to the bee that has its cells (README.md, "Life of a
\* Message"), whatever the queen of that bee is doing: hive.handleMsg gives it
\* up only while the replica of one hive is behind that of another.
AllRelayed ==
  [][dropped' # dropped => \E g, h \in Hive : applied[g] < applied[h]]_vars

Received(m) ==
  \E h \in Hive, b \in BeeIDs :
    bees[h][b].kind = "local" /\ m \in Range(bees[h][b].dataCh)

\* Every message that is emitted reaches a bee or is reported: queens wait
\* for Raft and never for each other.
EveryMsgHandled ==
  \A m \in Msg : IsMapped(m) =>
    (\E h \in Hive : m \in Range(emitted[h])) ~> (Received(m) \/ m \in dropped)

Before(s, m, n) == \E i, j \in DOMAIN s : i < j /\ s[i] = m /\ s[j] = n

\* Two messages that share a cell and were emitted at one hive, one after the
\* other, reach a bee of that hive in that order, whichever of them waited
\* for the end of the batch.  (If a queen elsewhere wins the cell in between,
\* messages of one emitter do overtake each other.)
OrderKept ==
  \A h \in Hive, b \in BeeIDs, m, n \in Msg :
    /\ Before(emitted[h], m, n)
    /\ MsgCells[m] \cap MsgCells[n] # {}
    /\ bees[h][b].kind = "local"
    => ~Before(bees[h][b].dataCh, n, m)
=============================================================================
