------------------------------ MODULE MsgRing -------------------------------
(***************************************************************************)
(* The ring buffer of msgChannel (msg.go): buf is a slice of size entries, *)
(* the messages are those from start up to but not including end.  One     *)
(* entry stays free so that start = end means empty; enque doubles the     *)
(* slice before it takes that entry.                                       *)
(***************************************************************************)
EXTENDS Naturals, Sequences

CONSTANTS Msg, NoMsg

ASSUME MsgRingAssumption == NoMsg \notin Msg

NewRing(n) ==
  [size |-> n, buf |-> [i \in 0..(n - 1) |-> NoMsg], start |-> 0, end |-> 0]

IsRing(q) ==
  /\ q = [size |-> q.size, buf |-> q.buf, start |-> q.start, end |-> q.end]
  /\ q.size \in Nat \ {0}
  /\ q.buf \in [0..(q.size - 1) -> Msg \cup {NoMsg}]
  /\ q.start \in 0..(q.size - 1)
  /\ q.end \in 0..(q.size - 1)

len(q) == IF q.end >= q.start THEN q.end - q.start ELSE q.size - (q.start - q.end)

empty(q) == len(q) = 0

full(q) == len(q) = q.size - 1

\* The entry that is i places after start.
slot(q, i) == IF q.start + i < q.size THEN q.start + i ELSE q.start + i - q.size

\* Mutant of maybeExpand: the part before start is not copied.
maybeExpandTail(q) ==
  IF ~full(q) THEN q
  ELSE [size |-> 2 * q.size,
        buf |-> [i \in 0..(2 * q.size - 1) |->
                   IF q.start + i < q.size THEN q.buf[q.start + i] ELSE NoMsg],
        start |-> 0,
        end |-> len(q)]

\* The copy of maybeExpand: from start to end when the messages do not wrap;
\* the whole tail from start and then what lies before end when they do.
maybeExpand(q) ==
  IF ~full(q) THEN q
  ELSE [size |-> 2 * q.size,
        buf |-> [i \in 0..(2 * q.size - 1) |->
                   IF q.start < q.end
                   THEN IF i < q.end - q.start THEN q.buf[q.start + i] ELSE NoMsg
                   ELSE IF i < q.size - q.start THEN q.buf[q.start + i]
                   ELSE IF i < q.size - q.start + q.end
                   THEN q.buf[i - (q.size - q.start)]
                   ELSE NoMsg],
        start |-> 0,
        end |-> len(q)]

next(q, i) == IF i + 1 >= q.size THEN 0 ELSE i + 1

enque(q, m) ==
  LET e == IF full(q) THEN maybeExpand(q) ELSE q
  IN  [e EXCEPT !.buf[e.end] = m, !.end = next(e, e.end)]

\* deque clears the entry and, on an empty ring, does nothing.
front(q) == IF empty(q) THEN NoMsg ELSE q.buf[q.start]

deque(q) ==
  IF empty(q) THEN q
  ELSE [q EXCEPT !.buf[q.start] = NoMsg, !.start = next(q, q.start)]

\* The messages of the ring, oldest first.
contents(q) == [i \in 1..len(q) |-> q.buf[slot(q, i - 1)]]
=============================================================================
