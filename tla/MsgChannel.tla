----------------------------- MODULE MsgChannel -----------------------------
(***************************************************************************)
(* msgChannel of msg.go: two bounded Go channels, and a goroutine, pipe,   *)
(* that moves messages from the one to the other and keeps in a ring what  *)
(* the consumer is too slow to take, so that producers never wait for      *)
(* long.                                                                   *)
(*                                                                         *)
(* Producers and the consumer run between any two steps of pipe.  Only     *)
(* pipe receives from chin and sends to chout, so that a receive after     *)
(* len(chin) > 0 and a send after len(chout) < cap never wait.             *)
(***************************************************************************)
EXTENDS MsgRing

CONSTANTS
  BufSize,  \* the capacity of both channels and the first size of the ring
  MaxMsgs   \* bound: messages that producers send

ASSUME MsgChannelAssumption ==
  /\ BufSize \in Nat \ {0}
  /\ MaxMsgs \in Nat
  /\ Msg = 1..MaxMsgs

VARIABLES
  chin, chout,  \* the channels
  q,            \* the ring
  first,        \* the message taken from the ring, NoMsg if dequed is false
  pc,           \* where pipe is
  moves,        \* iterations left in the loop that pipe is in
  sent, rcvd    \* messages sent and received so far: message i is the i-th

vars == <<chin, chout, q, first, pc, moves, sent, rcvd>>

dequed == first # NoMsg

Init ==
  /\ chin = <<>> /\ chout = <<>>
  /\ q = NewRing(BufSize)
  /\ first = NoMsg
  /\ pc = "fastOut"
  /\ moves = 0
  /\ sent = 0 /\ rcvd = 0

Send ==
  /\ sent < MaxMsgs
  /\ Len(chin) < BufSize
  /\ sent' = sent + 1
  /\ chin' = Append(chin, sent')
  /\ UNCHANGED <<chout, q, first, pc, moves, rcvd>>

Receive ==
  /\ chout # <<>>
  /\ rcvd' = rcvd + 1
  /\ chout' = Tail(chout)
  /\ UNCHANGED <<chin, q, first, pc, moves, sent>>

\* maybeFastPipe reads the room in chout; when there is none it looks at chin
\* and tries again, unless chin is full too.
FastOut ==
  /\ pc = "fastOut"
  /\ moves' = BufSize - Len(chout)
  /\ pc' = IF moves' = 0 THEN "fastIn" ELSE "fastMove"
  /\ UNCHANGED <<chin, chout, q, first, sent, rcvd>>

FastIn ==
  /\ pc = "fastIn"
  /\ pc' = IF Len(chin) # BufSize THEN "fastOut" ELSE "select"
  /\ UNCHANGED <<chin, chout, q, first, moves, sent, rcvd>>

FastMove ==
  /\ pc = "fastMove"
  /\ chin # <<>>
  /\ chin' = Tail(chin)
  /\ chout' = Append(chout, Head(chin))
  /\ moves' = moves - 1
  /\ pc' = IF moves' = 0 THEN "fastOut" ELSE "fastMove"
  /\ UNCHANGED <<q, first, sent, rcvd>>

SelectIn ==
  /\ pc = "select"
  /\ chin # <<>>
  /\ chin' = Tail(chin)
  /\ q' = enque(q, Head(chin))
  /\ pc' = "readMore"
  /\ UNCHANGED <<chout, first, moves, sent, rcvd>>

\* deque into first, at the end of both cases of the select.
TakeFirst(r) ==
  /\ first' = front(r)
  /\ q' = deque(r)
  /\ pc' = IF empty(r) THEN "fastOut" ELSE "select"

\* Mutant of Selected: the first message of an empty ring is not taken.
SelectedLater(r) == q' = r /\ pc' = "select" /\ UNCHANGED first

Selected(r) ==
  IF dequed THEN q' = r /\ pc' = "select" /\ UNCHANGED first ELSE TakeFirst(r)

\* maybeReadMore: only when chin is full by now, all that is in it.
ReadMore ==
  /\ pc = "readMore"
  /\ moves' = Len(chin)
  /\ IF Len(chin) < BufSize
     THEN Selected(q)
     ELSE pc' = "reading" /\ UNCHANGED <<q, first>>
  /\ UNCHANGED <<chin, chout, sent, rcvd>>

Read ==
  /\ pc = "reading"
  /\ chin' = Tail(chin)
  /\ moves' = moves - 1
  /\ LET r == enque(q, Head(chin))
     IN  IF moves' = 0 THEN Selected(r)
         ELSE q' = r /\ UNCHANGED <<pc, first>>
  /\ UNCHANGED <<chout, sent, rcvd>>

SelectOut ==
  /\ pc = "select"
  /\ dequed
  /\ Len(chout) < BufSize
  /\ chout' = Append(chout, first)
  /\ pc' = "writeMore"
  /\ UNCHANGED <<chin, q, first, moves, sent, rcvd>>

\* maybeWriteMore: as much of the ring as chout has room for.
WriteMore ==
  LET room == BufSize - Len(chout)
  IN  /\ pc = "writeMore"
      /\ moves' = IF room < len(q) THEN room ELSE len(q)
      /\ IF moves' = 0 THEN TakeFirst(q)
         ELSE pc' = "writing" /\ UNCHANGED <<q, first>>
      /\ UNCHANGED <<chin, chout, sent, rcvd>>

Write ==
  /\ pc = "writing"
  /\ chout' = Append(chout, front(q))
  /\ moves' = moves - 1
  /\ IF moves' = 0 THEN TakeFirst(deque(q))
     ELSE q' = deque(q) /\ UNCHANGED <<pc, first>>
  /\ UNCHANGED <<chin, sent, rcvd>>

Pipe ==
  \/ FastOut \/ FastIn \/ FastMove
  \/ SelectIn \/ ReadMore \/ Read
  \/ SelectOut \/ WriteMore \/ Write

Next == Send \/ Receive \/ Pipe

\* pipe is a goroutine that never returns, and the loops of bees and queens
\* always come back to their channel.
Fairness == WF_vars(Pipe) /\ WF_vars(Receive)

Spec == Init /\ [][Next]_vars /\ Fairness
-----------------------------------------------------------------------------
(* Correctness *)

\* Type invariant: the channels are within their capacity and the ring is a
\* ring (struct msgChannel and the variables of pipe).
TypeOK ==
  /\ chin \in Seq(Msg) /\ Len(chin) <= BufSize
  /\ chout \in Seq(Msg) /\ Len(chout) <= BufSize
  /\ IsRing(q)
  /\ first \in Msg \cup {NoMsg}
  /\ pc \in {"fastOut", "fastIn", "fastMove", "select", "readMore", "reading",
            "writeMore", "writing"}
  /\ moves \in 0..BufSize
  /\ sent \in 0..MaxMsgs /\ rcvd \in 0..MaxMsgs

InRing == IF pc \in {"writeMore", "writing"} THEN contents(q)
          ELSE (IF dequed THEN <<first>> ELSE <<>>) \o contents(q)

Queue == INSTANCE FIFO WITH queue <- chout \o InRing \o chin

\* The two channels, the ring and first make up one queue: no message is
\* lost, duplicated or overtaken, whatever the order in which producers,
\* pipe and the consumer run (msg.go pipe).
ImplementsFIFO == Queue!Spec

\* Every message that is sent is received, although pipe may wait for chin
\* in maybeFastPipe and spin there while the consumer is slow.
EveryMsgReceived == \A m \in Msg : (sent >= m) ~> (rcvd >= m)
=============================================================================
