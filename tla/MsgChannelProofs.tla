-------------------------- MODULE MsgChannelProofs --------------------------
(***************************************************************************)
(* msgChannel is a queue, for every size of its channels and any number of *)
(* messages: what the ring does to its contents, and the refinement.       *)
(***************************************************************************)
EXTENDS MsgChannel, SequenceTheorems, TLAPS

\* A ring without holes: the entries from start to end hold messages.
Packed(r) ==
  /\ IsRing(r)
  /\ \A i \in 0..(r.size - 1) : i < len(r) => r.buf[slot(r, i)] \in Msg

LEMMA RingBounds ==
  ASSUME NEW r, IsRing(r)
  PROVE  /\ len(r) \in 0..(r.size - 1)
         /\ \A i \in 0..(r.size - 1) : slot(r, i) \in 0..(r.size - 1)
BY DEF IsRing, len, slot

LEMMA ContentsSeq ==
  ASSUME NEW r, Packed(r)
  PROVE  /\ contents(r) \in Seq(Msg)
         /\ Len(contents(r)) = len(r)
         /\ \A i \in 1..len(r) : contents(r)[i] = r.buf[slot(r, i - 1)]
<1>1. len(r) \in Nat /\ len(r) <= r.size - 1 /\ r.size \in Nat
  BY RingBounds DEF Packed, IsRing
<1>2. \A i \in 1..len(r) : r.buf[slot(r, i - 1)] \in Msg
  BY <1>1 DEF Packed
<1> QED
  BY <1>1, <1>2 DEF contents

\* maybeExpand copies the messages to the front of a larger slice.
LEMMA ExpandKeeps ==
  ASSUME NEW r, Packed(r)
  PROVE  /\ Packed(maybeExpand(r))
         /\ ~full(maybeExpand(r))
         /\ len(maybeExpand(r)) = len(r)
         /\ \A i \in 0..(r.size - 1) : i < len(r) =>
              maybeExpand(r).buf[slot(maybeExpand(r), i)] = r.buf[slot(r, i)]
<1>1. CASE ~full(r)
  BY <1>1 DEF maybeExpand, full
<1>2. CASE full(r)
  <2> DEFINE e == maybeExpand(r)
  <2>1. /\ r.size \in Nat \ {0} /\ r.buf \in [0..(r.size - 1) -> Msg \cup {NoMsg}]
        /\ r.start \in 0..(r.size - 1) /\ r.end \in 0..(r.size - 1)
    BY DEF Packed, IsRing
  <2>2. len(r) = r.size - 1
    BY <1>2 DEF full
  <2>3. /\ e.size = 2 * r.size /\ e.start = 0 /\ e.end = len(r)
        /\ e = [size |-> e.size, buf |-> e.buf, start |-> e.start, end |-> e.end]
    BY <1>2 DEF maybeExpand
  <2>4. e.buf = [i \in 0..(2 * r.size - 1) |->
                   IF r.start < r.end
                   THEN IF i < r.end - r.start THEN r.buf[r.start + i] ELSE NoMsg
                   ELSE IF i < r.size - r.start THEN r.buf[r.start + i]
                   ELSE IF i < r.size - r.start + r.end
                   THEN r.buf[i - (r.size - r.start)]
                   ELSE NoMsg]
    BY <1>2 DEF maybeExpand
  <2> HIDE DEF e
  <2>5. len(e) = len(r) /\ ~full(e)
    BY <2>1, <2>2, <2>3 DEF len, full
  <2>6. ASSUME NEW i \in 0..(2 * r.size - 1)
        PROVE  /\ e.buf[i] \in Msg \cup {NoMsg}
               /\ i < len(r) => e.buf[i] = r.buf[slot(r, i)]
    <3>1. CASE r.start < r.end
      <4>1. e.buf[i] = IF i < r.end - r.start THEN r.buf[r.start + i] ELSE NoMsg
        BY <2>4, <3>1
      <4>2. len(r) = r.end - r.start
        BY <2>1, <3>1 DEF len
      <4>3. i < len(r) => slot(r, i) = r.start + i /\ r.start + i \in 0..(r.size - 1)
        BY <2>1, <3>1, <4>2 DEF slot
      <4> QED
        BY <2>1, <4>1, <4>2, <4>3
    <3>2. CASE ~(r.start < r.end)
      <4>1. e.buf[i] = IF i < r.size - r.start THEN r.buf[r.start + i]
                       ELSE IF i < r.size - r.start + r.end
                       THEN r.buf[i - (r.size - r.start)]
                       ELSE NoMsg
        BY <2>4, <3>2
      <4>2. CASE i < r.size - r.start
        <5>1. e.buf[i] = r.buf[r.start + i]
          BY <4>1, <4>2
        <5>2. slot(r, i) = r.start + i /\ r.start + i \in 0..(r.size - 1)
          BY <2>1, <4>2 DEF slot
        <5> QED
          BY <2>1, <5>1, <5>2
      <4>3. CASE ~(i < r.size - r.start) /\ i < r.size - r.start + r.end
        <5>1. e.buf[i] = r.buf[i - (r.size - r.start)]
          BY <4>1, <4>3
        <5>2. /\ slot(r, i) = i - (r.size - r.start)
              /\ i - (r.size - r.start) \in 0..(r.size - 1)
          BY <2>1, <4>3 DEF slot
        <5> QED
          BY <2>1, <5>1, <5>2
      <4>4. CASE ~(i < r.size - r.start + r.end)
        <5>1. e.buf[i] = NoMsg
          BY <2>1, <4>1, <4>4
        <5>2. ~(i < len(r))
          BY <2>1, <2>2, <3>2, <4>4 DEF len
        <5> QED
          BY <5>1, <5>2
      <4> QED
        BY <2>1, <4>2, <4>3, <4>4
    <3> QED
      BY <3>1, <3>2
  <2>7. IsRing(e)
    <3>1. e.buf \in [0..(e.size - 1) -> Msg \cup {NoMsg}]
      BY <2>3, <2>4, <2>6
    <3> QED
      BY <2>1, <2>2, <2>3, <3>1 DEF IsRing
  <2>8. \A i \in 0..(r.size - 1) : i < len(r) => e.buf[slot(e, i)] = r.buf[slot(r, i)]
    <3>1. \A i \in 0..(r.size - 1) : slot(e, i) = i /\ i \in 0..(2 * r.size - 1)
      BY <2>1, <2>3 DEF slot
    <3> QED
      BY <2>6, <3>1
  <2>9. Packed(e)
    BY <2>1, <2>2, <2>3, <2>5, <2>7, <2>8 DEF Packed
  <2> QED
    BY <2>5, <2>8, <2>9 DEF e
<1> QED
  BY <1>1, <1>2

\* enque on a ring with room.
put(r, m) == [r EXCEPT !.buf[r.end] = m, !.end = next(r, r.end)]

LEMMA PutKeeps ==
  ASSUME NEW r, Packed(r), ~full(r), NEW m \in Msg, NEW p, p = put(r, m)
  PROVE  /\ Packed(p)
         /\ len(p) = len(r) + 1
         /\ \A i \in 0..(r.size - 1) : i < len(r) => p.buf[slot(p, i)] = r.buf[slot(r, i)]
         /\ p.buf[slot(p, len(r))] = m
<1>1. /\ r.size \in Nat \ {0} /\ r.buf \in [0..(r.size - 1) -> Msg \cup {NoMsg}]
      /\ r.start \in 0..(r.size - 1) /\ r.end \in 0..(r.size - 1)
      /\ r = [size |-> r.size, buf |-> r.buf, start |-> r.start, end |-> r.end]
  BY DEF Packed, IsRing
<1>2. /\ p.size = r.size /\ p.start = r.start /\ p.end = next(r, r.end)
      /\ p.buf = [r.buf EXCEPT ![r.end] = m]
      /\ p = [size |-> p.size, buf |-> p.buf, start |-> p.start, end |-> p.end]
  BY <1>1 DEF put
<1>3. len(r) # r.size - 1 /\ len(r) \in 0..(r.size - 1)
  BY <1>1 DEF full, len
<1>4. len(p) = len(r) + 1
  <2>1. /\ r.size \in Nat \ {0} /\ r.start \in 0..(r.size - 1) /\ r.end \in 0..(r.size - 1)
        /\ p.size = r.size /\ p.start = r.start
        /\ p.end = IF r.end + 1 >= r.size THEN 0 ELSE r.end + 1
    BY <1>1, <1>2 DEF next
  <2> QED
    BY <1>3, <2>1 DEF len
<1>5. slot(r, len(r)) = r.end
  BY <1>1, <1>3 DEF len, slot
<1>6. \A i \in 0..(r.size - 1) : slot(p, i) = slot(r, i) /\ slot(r, i) \in 0..(r.size - 1)
  BY <1>1, <1>2 DEF slot
<1>7. \A i \in 0..(r.size - 1) : i < len(r) => slot(r, i) # r.end
  BY <1>1, <1>3 DEF len, slot
<1>8. \A i \in 0..(r.size - 1) : i < len(r) => p.buf[slot(p, i)] = r.buf[slot(r, i)]
  BY <1>1, <1>2, <1>6, <1>7
<1>9. p.buf[slot(p, len(r))] = m
  BY <1>1, <1>2, <1>3, <1>5, <1>6
<1>10. IsRing(p)
  <2>1. p.buf \in [0..(r.size - 1) -> Msg \cup {NoMsg}]
    BY <1>1, <1>2
  <2>2. p.end \in 0..(r.size - 1)
    BY <1>1, <1>2 DEF next
  <2> QED
    BY <1>1, <1>2, <2>1, <2>2 DEF IsRing
<1>11. Packed(p)
  <2>1. ASSUME NEW i \in 0..(p.size - 1), i < len(p) PROVE p.buf[slot(p, i)] \in Msg
    <3>1. CASE i = len(r)
      BY <1>9, <3>1
    <3>2. CASE i < len(r)
      BY <1>2, <1>8, <3>2 DEF Packed
    <3> QED
      BY <1>1, <1>2, <1>3, <1>4, <2>1, <3>1, <3>2
  <2> QED
    BY <1>10, <2>1 DEF Packed
<1> QED
  BY <1>4, <1>8, <1>9, <1>11

\* enque adds a message at the end, whether or not it expands the slice.
LEMMA EnqueAppends ==
  ASSUME NEW r, Packed(r), NEW m \in Msg
  PROVE  /\ Packed(enque(r, m))
         /\ contents(enque(r, m)) = Append(contents(r), m)
<1> DEFINE e == IF full(r) THEN maybeExpand(r) ELSE r
           p == enque(r, m)
<1>1. /\ Packed(e) /\ ~full(e) /\ len(e) = len(r)
      /\ \A i \in 0..(r.size - 1) : i < len(r) => e.buf[slot(e, i)] = r.buf[slot(r, i)]
  BY ExpandKeeps
<1>2. p = put(e, m)
  BY DEF enque, put
<1> HIDE DEF e, p
<1>3. /\ Packed(p) /\ len(p) = len(e) + 1
      /\ \A i \in 0..(e.size - 1) : i < len(e) => p.buf[slot(p, i)] = e.buf[slot(e, i)]
      /\ p.buf[slot(p, len(e))] = m
  BY <1>1, <1>2, PutKeeps
<1>4. /\ len(r) \in 0..(r.size - 1) /\ len(e) \in 0..(e.size - 1)
      /\ r.size \in Nat /\ e.size \in Nat
  BY <1>1, RingBounds DEF Packed, IsRing
<1>5. /\ contents(p) \in Seq(Msg) /\ Len(contents(p)) = len(r) + 1
      /\ contents(r) \in Seq(Msg) /\ Len(contents(r)) = len(r)
  BY <1>1, <1>3, ContentsSeq
<1>6. ASSUME NEW i \in 1..len(r) PROVE contents(p)[i] = contents(r)[i]
  <2>1. i - 1 \in 0..(r.size - 1) /\ i - 1 \in 0..(e.size - 1) /\ i - 1 < len(r)
        /\ i \in 1..len(p)
    BY <1>1, <1>3, <1>4
  <2>2. contents(p)[i] = p.buf[slot(p, i - 1)] /\ contents(r)[i] = r.buf[slot(r, i - 1)]
    BY <1>3, <2>1, ContentsSeq
  <2> QED
    BY <1>1, <1>3, <2>1, <2>2
<1>7. contents(p)[len(r) + 1] = m
  <2>1. len(r) + 1 \in 1..len(p) /\ (len(r) + 1) - 1 = len(e)
    BY <1>1, <1>3, <1>4
  <2> QED
    BY <1>3, <2>1, ContentsSeq
<1>8. contents(p) = Append(contents(r), m)
  BY <1>4, <1>5, <1>6, <1>7, AppendProperties, SeqEqual
<1> QED
  BY <1>3, <1>8 DEF p

\* deque removes the message at the front.
LEMMA DequeRemoves ==
  ASSUME NEW r, Packed(r), ~empty(r)
  PROVE  /\ Packed(deque(r))
         /\ front(r) \in Msg
         /\ len(deque(r)) = len(r) - 1
         /\ contents(r) = <<front(r)>> \o contents(deque(r))
<1> DEFINE p == deque(r)
<1>1. /\ r.size \in Nat \ {0} /\ r.buf \in [0..(r.size - 1) -> Msg \cup {NoMsg}]
      /\ r.start \in 0..(r.size - 1) /\ r.end \in 0..(r.size - 1)
      /\ r = [size |-> r.size, buf |-> r.buf, start |-> r.start, end |-> r.end]
  BY DEF Packed, IsRing
<1>2. /\ p.size = r.size /\ p.start = next(r, r.start) /\ p.end = r.end
      /\ p.buf = [r.buf EXCEPT ![r.start] = NoMsg]
      /\ p = [size |-> p.size, buf |-> p.buf, start |-> p.start, end |-> p.end]
  BY <1>1 DEF deque
<1> HIDE DEF p
<1>3. len(r) # 0 /\ len(r) \in 0..(r.size - 1)
  BY <1>1 DEF empty, len
<1>a. /\ r.size \in Nat \ {0} /\ r.start \in 0..(r.size - 1) /\ r.end \in 0..(r.size - 1)
      /\ p.size = r.size /\ p.end = r.end
      /\ p.start = IF r.start + 1 >= r.size THEN 0 ELSE r.start + 1
  BY <1>1, <1>2 DEF next
<1>4. len(p) = len(r) - 1
  BY <1>3, <1>a DEF len
<1>5. slot(r, 0) = r.start
  BY <1>1 DEF slot
<1>6. front(r) = r.buf[r.start] /\ front(r) \in Msg
  BY <1>1, <1>3, <1>5 DEF front, Packed
<1>7. \A i \in 0..(r.size - 1) : i < len(p) =>
        /\ slot(p, i) = slot(r, i + 1) /\ slot(p, i) \in 0..(r.size - 1)
        /\ slot(p, i) # r.start
  <2> SUFFICES ASSUME NEW i \in 0..(r.size - 1), i < len(p)
               PROVE  /\ slot(p, i) = slot(r, i + 1) /\ slot(p, i) \in 0..(r.size - 1)
                      /\ slot(p, i) # r.start
    OBVIOUS
  <2> QED
    BY <1>3, <1>4, <1>a DEF slot
<1>8. \A i \in 0..(r.size - 1) : i < len(p) => p.buf[slot(p, i)] = r.buf[slot(r, i + 1)]
  BY <1>1, <1>2, <1>7
<1>9. IsRing(p)
  <2>1. p.buf \in [0..(r.size - 1) -> Msg \cup {NoMsg}]
    BY <1>1, <1>2
  <2>2. p.start \in 0..(r.size - 1)
    BY <1>1, <1>2 DEF next
  <2> QED
    BY <1>1, <1>2, <2>1, <2>2 DEF IsRing
<1>10. Packed(p)
  <2>1. ASSUME NEW i \in 0..(p.size - 1), i < len(p) PROVE p.buf[slot(p, i)] \in Msg
    <3>1. i \in 0..(r.size - 1) /\ i + 1 \in 0..(r.size - 1) /\ i + 1 < len(r)
      BY <1>1, <1>2, <1>3, <1>4, <2>1
    <3> QED
      BY <1>8, <2>1, <3>1 DEF Packed
  <2> QED
    BY <1>9, <2>1 DEF Packed
<1>11. /\ contents(p) \in Seq(Msg) /\ Len(contents(p)) = len(r) - 1
       /\ contents(r) \in Seq(Msg) /\ Len(contents(r)) = len(r)
  BY <1>4, <1>10, ContentsSeq
<1>12. ASSUME NEW i \in 1..len(r)
       PROVE  contents(r)[i] = (<<front(r)>> \o contents(p))[i]
  <2>1. contents(r)[i] = r.buf[slot(r, i - 1)]
    BY ContentsSeq
  <2>2. CASE i = 1
    BY <1>5, <1>6, <1>11, <2>1, <2>2
  <2>3. CASE i # 1
    <3>1. i - 2 \in 0..(r.size - 1) /\ i - 2 < len(p) /\ i - 1 \in 1..len(p)
      BY <1>1, <1>3, <1>4, <2>3
    <3>2. contents(p)[i - 1] = p.buf[slot(p, (i - 1) - 1)]
      BY <1>10, <3>1, ContentsSeq
    <3>3. (i - 1) - 1 = i - 2 /\ (i - 2) + 1 = i - 1
      BY <3>1
    <3>4. contents(p)[i - 1] = contents(r)[i]
      BY <1>8, <2>1, <3>1, <3>2, <3>3
    <3>5. (<<front(r)>> \o contents(p))[i] = contents(p)[i - 1]
      BY <1>3, <1>6, <1>11, <2>3
    <3> QED
      BY <3>4, <3>5
  <2> QED
    BY <2>2, <2>3
<1>13. contents(r) = <<front(r)>> \o contents(p)
  <2>1. <<front(r)>> \in Seq(Msg) /\ Len(<<front(r)>>) = 1
    BY <1>6
  <2>2. /\ <<front(r)>> \o contents(p) \in Seq(Msg)
        /\ Len(<<front(r)>> \o contents(p)) = len(r)
    BY <1>3, <1>11, <2>1, ConcatProperties
  <2> QED
    BY <1>11, <1>12, <2>2, SeqEqual
<1> QED
  BY <1>4, <1>6, <1>10, <1>13 DEF p
-----------------------------------------------------------------------------
(* Sequences *)

LEMMA ShiftLeft ==
  ASSUME NEW a \in Seq(Msg), NEW c \in Seq(Msg), c # <<>>
  PROVE  Append(a, Head(c)) \o Tail(c) = a \o c
<1>1. /\ Head(c) \in Msg /\ Tail(c) \in Seq(Msg) /\ Len(Tail(c)) = Len(c) - 1
      /\ Head(c) = c[1] /\ \A i \in 1..Len(Tail(c)) : Tail(c)[i] = c[i + 1]
      /\ Len(c) \in Nat \ {0} /\ Len(a) \in Nat
  BY HeadTailProperties, EmptySeq
<1> DEFINE l == Append(a, Head(c)) \o Tail(c)
           r == a \o c
<1>2. /\ l \in Seq(Msg) /\ Len(l) = Len(a) + Len(c)
      /\ \A i \in 1..Len(l) : l[i] = IF i <= Len(a) + 1 THEN Append(a, Head(c))[i]
                                     ELSE Tail(c)[i - (Len(a) + 1)]
  BY <1>1, AppendProperties, ConcatProperties
<1>3. /\ r \in Seq(Msg) /\ Len(r) = Len(a) + Len(c)
      /\ \A i \in 1..Len(r) : r[i] = IF i <= Len(a) THEN a[i] ELSE c[i - Len(a)]
  BY <1>1, ConcatProperties
<1>4. ASSUME NEW i \in 1..Len(l) PROVE l[i] = r[i]
  <2>1. CASE i <= Len(a)
    BY <1>1, <1>2, <1>3, <2>1, AppendProperties
  <2>2. CASE i = Len(a) + 1
    BY <1>1, <1>2, <1>3, <2>2, AppendProperties
  <2>3. CASE i > Len(a) + 1
    <3>1. i - (Len(a) + 1) \in 1..Len(Tail(c)) /\ (i - (Len(a) + 1)) + 1 = i - Len(a)
      BY <1>1, <1>2, <2>3
    <3> QED
      BY <1>1, <1>2, <1>3, <2>3, <3>1
  <2> QED
    BY <1>1, <2>1, <2>2, <2>3
<1> HIDE DEF l, r
<1> QED
  BY <1>2, <1>3, <1>4, SeqEqual DEF l, r

LEMMA AppendInside ==
  ASSUME NEW a \in Seq(Msg), NEW c \in Seq(Msg), NEW m \in Msg
  PROVE  a \o Append(c, m) = Append(a \o c, m)
BY AppendIsConcat, ConcatAssociative, ConcatProperties

LEMMA MoveOut ==
  ASSUME NEW a \in Seq(Msg), NEW c \in Seq(Msg), NEW m \in Msg
  PROVE  Append(a, m) \o c = a \o (<<m>> \o c)
BY AppendIsConcat, ConcatAssociative
-----------------------------------------------------------------------------
(* The inductive invariant *)

\* Between maybeFastPipe and the select nothing is kept back, and each loop
\* has room and messages for the iterations that are left.
IInv ==
  /\ chin \in Seq(Msg) /\ Len(chin) <= BufSize
  /\ chout \in Seq(Msg) /\ Len(chout) <= BufSize
  /\ Packed(q)
  /\ first \in Msg \cup {NoMsg}
  /\ pc \in {"fastOut", "fastIn", "fastMove", "select", "readMore", "reading",
             "writeMore", "writing"}
  /\ moves \in 0..BufSize
  /\ sent \in 0..MaxMsgs
  /\ pc \in {"fastOut", "fastIn", "fastMove"} => ~dequed /\ empty(q)
  /\ pc = "select" /\ ~dequed => empty(q)
  /\ pc \in {"writeMore", "writing"} => dequed
  /\ pc = "fastMove" => moves > 0 /\ moves + Len(chout) <= BufSize
  /\ pc = "reading" => moves > 0 /\ moves <= Len(chin)
  /\ pc = "writing" => moves > 0 /\ moves <= len(q) /\ moves + Len(chout) <= BufSize

Held == IF dequed THEN <<first>> ELSE <<>>

Pending == chout \o InRing \o chin

LEMMA InitIInv ==
  Init => IInv /\ Pending = <<>>
<1> SUFFICES ASSUME Init PROVE IInv /\ Pending = <<>>
  OBVIOUS
<1>1. BufSize \in Nat \ {0} /\ MaxMsgs \in Nat
  BY MsgChannelAssumption
<1>2. q = [size |-> BufSize, buf |-> [i \in 0..(BufSize - 1) |-> NoMsg], start |-> 0, end |-> 0]
  BY DEF Init, NewRing
<1>3. len(q) = 0
  BY <1>1, <1>2 DEF len
<1>4. IsRing(q)
  BY <1>1, <1>2 DEF IsRing
<1>5. Packed(q)
  BY <1>1, <1>3, <1>4 DEF Packed, IsRing
<1>6. IInv
  BY <1>1, <1>3, <1>5, EmptySeq DEF Init, IInv, dequed, empty
<1>7. contents(q) = <<>>
  BY <1>3, <1>5, ContentsSeq, EmptySeq
<1>8. Pending = <<>>
  BY <1>7 DEF Init, Pending, InRing, dequed
<1> QED
  BY <1>6, <1>8

LEMMA HeldSeq ==
  ASSUME first \in Msg \cup {NoMsg}
  PROVE  Held \in Seq(Msg)
BY DEF Held, dequed

LEMMA EmptyRing ==
  ASSUME NEW r, Packed(r), empty(r)
  PROVE  contents(r) = <<>>
BY ContentsSeq, EmptySeq DEF empty

\* deque at the end of the select takes the oldest message out of the ring.
LEMMA TakeFirstKeeps ==
  ASSUME NEW r, Packed(r), TakeFirst(r)
  PROVE  /\ Packed(q') /\ first' \in Msg \cup {NoMsg}
         /\ pc' \in {"fastOut", "select"}
         /\ pc' = "fastOut" => ~dequed' /\ empty(q')
         /\ pc' = "select" => dequed'
         /\ InRing' = contents(r)
<1>1. CASE empty(r)
  <2>1. first' = NoMsg /\ q' = r /\ pc' = "fastOut"
    BY <1>1 DEF TakeFirst, front, deque
  <2>2. contents(r) = <<>>
    BY <1>1, EmptyRing
  <2>3. InRing' = contents(r)
    BY <2>1, <2>2 DEF InRing, dequed
  <2> QED
    BY <1>1, <2>1, <2>3 DEF dequed
<1>2. CASE ~empty(r)
  <2>1. first' = front(r) /\ q' = deque(r) /\ pc' = "select"
    BY <1>2 DEF TakeFirst
  <2>2. /\ Packed(deque(r)) /\ front(r) \in Msg
        /\ contents(r) = <<front(r)>> \o contents(deque(r))
    BY <1>2, DequeRemoves
  <2>3. first' # NoMsg
    BY <2>1, <2>2, MsgRingAssumption
  <2>4. InRing' = contents(r)
    BY <2>1, <2>2, <2>3 DEF InRing, dequed
  <2> QED
    BY <2>1, <2>2, <2>3, <2>4 DEF dequed
<1> QED
  BY <1>1, <1>2

LEMMA SelectedKeeps ==
  ASSUME NEW r, Packed(r), first \in Msg \cup {NoMsg}, Selected(r)
  PROVE  /\ Packed(q') /\ first' \in Msg \cup {NoMsg}
         /\ pc' \in {"fastOut", "select"}
         /\ pc' = "fastOut" => ~dequed' /\ empty(q')
         /\ pc' = "select" => dequed'
         /\ InRing' = Held \o contents(r)
<1>1. CASE dequed
  BY <1>1 DEF Selected, InRing, Held, dequed
<1>2. CASE ~dequed
  <2>1. Held \o contents(r) = contents(r)
    BY <1>2, ContentsSeq, ConcatEmptySeq DEF Held
  <2>2. TakeFirst(r)
    BY <1>2 DEF Selected
  <2> QED
    BY <2>1, <2>2, TakeFirstKeeps
<1> QED
  BY <1>1, <1>2
-----------------------------------------------------------------------------
(* The steps of pipe: none changes what is pending. *)

LEMMA RingSeq ==
  ASSUME IInv
  PROVE  /\ InRing \in Seq(Msg) /\ Held \in Seq(Msg) /\ contents(q) \in Seq(Msg)
         /\ InRing = IF pc \in {"writeMore", "writing"} THEN contents(q)
                     ELSE Held \o contents(q)
BY HeldSeq, ContentsSeq, ConcatProperties DEF IInv, InRing, Held

LEMMA FastOutKeeps ==
  ASSUME IInv, FastOut
  PROVE  IInv' /\ Pending' = Pending
<1>1. moves' = BufSize - Len(chout) /\ moves' \in 0..BufSize
  BY MsgChannelAssumption DEF IInv, FastOut
<1>2. IInv'
  BY <1>1, MsgChannelAssumption DEF IInv, FastOut, dequed
<1>3. InRing' = InRing
  BY <1>1 DEF IInv, FastOut, InRing, dequed
<1> QED
  BY <1>2, <1>3 DEF FastOut, Pending

LEMMA FastInKeeps ==
  ASSUME IInv, FastIn
  PROVE  IInv' /\ Pending' = Pending
<1>1. IInv'
  BY DEF IInv, FastIn, dequed
<1>2. InRing' = InRing
  BY DEF IInv, FastIn, InRing, dequed
<1> QED
  BY <1>1, <1>2 DEF FastIn, Pending

LEMMA FastMoveKeeps ==
  ASSUME IInv, FastMove
  PROVE  IInv' /\ Pending' = Pending
<1>1. /\ chin \in Seq(Msg) /\ chin # <<>> /\ chout \in Seq(Msg)
      /\ chin' = Tail(chin) /\ chout' = Append(chout, Head(chin))
      /\ moves' = moves - 1 /\ moves \in 0..BufSize /\ BufSize \in Nat
      /\ moves > 0 /\ moves + Len(chout) <= BufSize /\ Len(chin) <= BufSize
  BY MsgChannelAssumption DEF IInv, FastMove
<1>2. /\ chin' \in Seq(Msg) /\ Len(chin') <= BufSize
      /\ chout' \in Seq(Msg) /\ Len(chout') = Len(chout) + 1
      /\ moves' \in 0..BufSize /\ moves' + Len(chout') <= BufSize
      /\ Len(chout') <= BufSize
  BY <1>1
<1>3. pc' \in {"fastOut", "fastMove"} /\ (pc' = "fastMove" => moves' > 0)
  BY <1>1, <1>2 DEF FastMove
<1>4. IInv'
  BY <1>2, <1>3 DEF IInv, FastMove, dequed
<1>5. InRing = <<>> /\ InRing' = <<>>
  <2>1. contents(q) = <<>>
    BY EmptyRing DEF IInv, FastMove
  <2> QED
    BY <1>3, <2>1 DEF InRing, dequed, IInv, FastMove
<1>6. Pending = chout \o chin
  BY <1>1, <1>5, ConcatEmptySeq DEF Pending
<1>7. Pending' = Append(chout, Head(chin)) \o Tail(chin)
  BY <1>1, <1>2, <1>5, ConcatEmptySeq DEF Pending
<1> QED
  BY <1>1, <1>4, <1>6, <1>7, ShiftLeft

\* A message moves from chin to the end of the ring.
LEMMA Enqued ==
  ASSUME IInv, chin # <<>>, chin' = Tail(chin), chout' = chout,
         pc \notin {"writeMore", "writing"},
         InRing' = Held \o contents(enque(q, Head(chin)))
  PROVE  /\ Packed(enque(q, Head(chin)))
         /\ chin' \in Seq(Msg) /\ Len(chin') = Len(chin) - 1
         /\ Pending' = Pending
<1>1. chin \in Seq(Msg) /\ Packed(q) /\ chout \in Seq(Msg) /\ Head(chin) \in Msg
  BY HeadTailProperties DEF IInv
<1>2. Held \in Seq(Msg) /\ contents(q) \in Seq(Msg) /\ InRing = Held \o contents(q)
      /\ InRing \in Seq(Msg)
  BY RingSeq
<1>3. /\ Packed(enque(q, Head(chin)))
      /\ contents(enque(q, Head(chin))) = Append(contents(q), Head(chin))
  BY <1>1, EnqueAppends
<1>4. InRing' = Append(InRing, Head(chin))
  <2>1. Held \o Append(contents(q), Head(chin)) = Append(Held \o contents(q), Head(chin))
    BY <1>1, <1>2, AppendInside, Zenon
  <2> QED
    BY <1>2, <1>3, <2>1, Zenon
<1>5. chout' \o InRing' = Append(chout \o InRing, Head(chin))
  <2>1. chout \o Append(InRing, Head(chin)) = Append(chout \o InRing, Head(chin))
    BY <1>1, <1>2, AppendInside, Zenon
  <2> QED
    BY <1>4, <2>1, Zenon
<1>6. chout \o InRing \in Seq(Msg)
  BY <1>1, <1>2, ConcatProperties
<1>7. Pending' = Pending
  BY <1>1, <1>5, <1>6, ShiftLeft DEF Pending
<1> QED
  BY <1>1, <1>3, <1>7, HeadTailProperties

LEMMA SelectInKeeps ==
  ASSUME IInv, SelectIn
  PROVE  IInv' /\ Pending' = Pending
<1>1. /\ pc = "select" /\ chin # <<>> /\ chin' = Tail(chin) /\ chout' = chout
      /\ q' = enque(q, Head(chin)) /\ first' = first /\ pc' = "readMore"
      /\ moves' = moves /\ sent' = sent
  BY DEF SelectIn
<1>2. InRing' = Held \o contents(enque(q, Head(chin)))
  BY <1>1 DEF InRing, Held, dequed
<1>3. /\ Packed(enque(q, Head(chin)))
      /\ chin' \in Seq(Msg) /\ Len(chin') = Len(chin) - 1
      /\ Pending' = Pending
  BY <1>1, <1>2, Enqued
<1>4. Len(chin') <= BufSize
  BY <1>3, MsgChannelAssumption DEF IInv
<1>5. IInv'
  BY <1>1, <1>3, <1>4 DEF IInv
<1> QED
  BY <1>3, <1>5

LEMMA ReadMoreKeeps ==
  ASSUME IInv, ReadMore
  PROVE  IInv' /\ Pending' = Pending
<1>1. /\ pc = "readMore" /\ moves' = Len(chin) /\ chin' = chin /\ chout' = chout
      /\ sent' = sent
  BY DEF ReadMore
<1>2. moves' \in 0..BufSize
  BY <1>1, MsgChannelAssumption DEF IInv
<1>3. CASE Len(chin) < BufSize
  <2>1. Selected(q)
    BY <1>3 DEF ReadMore
  <2>2. /\ Packed(q') /\ first' \in Msg \cup {NoMsg}
        /\ pc' \in {"fastOut", "select"}
        /\ pc' = "fastOut" => ~dequed' /\ empty(q')
        /\ pc' = "select" => dequed'
        /\ InRing' = Held \o contents(q)
    BY <2>1, SelectedKeeps DEF IInv
  <2>3. IInv'
    BY <1>1, <1>2, <2>2 DEF IInv
  <2>4. InRing' = InRing
    BY <1>1, <2>2, RingSeq
  <2> QED
    BY <1>1, <2>3, <2>4 DEF Pending
<1>4. CASE ~(Len(chin) < BufSize)
  <2>1. pc' = "reading" /\ q' = q /\ first' = first
    BY <1>4 DEF ReadMore
  <2>2. moves' > 0
    BY <1>1, <1>4, MsgChannelAssumption DEF IInv
  <2>3. IInv'
    BY <1>1, <1>2, <2>1, <2>2 DEF IInv
  <2>4. InRing' = InRing
    BY <1>1, <2>1 DEF InRing, dequed
  <2> QED
    BY <1>1, <2>3, <2>4 DEF Pending
<1> QED
  BY <1>3, <1>4

LEMMA ReadKeeps ==
  ASSUME IInv, Read
  PROVE  IInv' /\ Pending' = Pending
<1> DEFINE r == enque(q, Head(chin))
<1>1. /\ pc = "reading" /\ chin' = Tail(chin) /\ moves' = moves - 1
      /\ chout' = chout /\ sent' = sent
      /\ IF moves' = 0 THEN Selected(r) ELSE q' = r /\ pc' = pc /\ first' = first
  BY DEF Read
<1>2. moves > 0 /\ moves <= Len(chin) /\ moves \in 0..BufSize /\ BufSize \in Nat
      /\ chin \in Seq(Msg) /\ Len(chin) <= BufSize
  BY <1>1, MsgChannelAssumption DEF IInv
<1>3. chin # <<>> /\ Head(chin) \in Msg /\ moves' \in 0..BufSize
  BY <1>1, <1>2
<1>4. Packed(r)
  BY <1>3, EnqueAppends DEF IInv
<1> HIDE DEF r
<1>5. CASE moves' = 0
  <2>1. /\ Packed(q') /\ first' \in Msg \cup {NoMsg}
        /\ pc' \in {"fastOut", "select"}
        /\ pc' = "fastOut" => ~dequed' /\ empty(q')
        /\ pc' = "select" => dequed'
        /\ InRing' = Held \o contents(r)
    BY <1>1, <1>4, <1>5, SelectedKeeps DEF IInv
  <2>2. chin' \in Seq(Msg) /\ Len(chin') = Len(chin) - 1 /\ Pending' = Pending
    BY <1>1, <1>3, <2>1, Enqued DEF r
  <2>3. Len(chin') <= BufSize
    BY <1>2, <2>2
  <2> QED
    BY <1>1, <1>3, <2>1, <2>2, <2>3 DEF IInv
<1>6. CASE moves' # 0
  <2>1. q' = r /\ pc' = "reading" /\ first' = first
    BY <1>1, <1>6
  <2>2. InRing' = Held \o contents(r)
    BY <2>1 DEF InRing, Held, dequed
  <2>3. chin' \in Seq(Msg) /\ Len(chin') = Len(chin) - 1 /\ Pending' = Pending
    BY <1>1, <1>3, <2>2, Enqued DEF r
  <2>4. moves' > 0 /\ moves' <= Len(chin') /\ Len(chin') <= BufSize
    BY <1>1, <1>2, <1>6, <2>3
  <2> QED
    BY <1>1, <1>3, <1>4, <2>1, <2>3, <2>4 DEF IInv
<1> QED
  BY <1>5, <1>6

LEMMA SelectOutKeeps ==
  ASSUME IInv, SelectOut
  PROVE  IInv' /\ Pending' = Pending
<1>1. /\ pc = "select" /\ first # NoMsg /\ first \in Msg
      /\ Len(chout) < BufSize /\ chout' = Append(chout, first)
      /\ pc' = "writeMore" /\ chin' = chin /\ q' = q /\ first' = first
      /\ moves' = moves /\ sent' = sent
  BY DEF IInv, SelectOut, dequed
<1>2. chout' \in Seq(Msg) /\ Len(chout') <= BufSize
  BY <1>1, MsgChannelAssumption DEF IInv
<1>3. IInv'
  BY <1>1, <1>2 DEF IInv, dequed
<1>4. InRing' = contents(q) /\ InRing = <<first>> \o contents(q) /\ contents(q) \in Seq(Msg)
  BY <1>1, RingSeq DEF InRing, Held, dequed
<1>5. chout' \o InRing' = chout \o InRing
  BY <1>1, <1>4, MoveOut DEF IInv
<1> QED
  BY <1>1, <1>3, <1>5 DEF Pending

LEMMA WriteMoreKeeps ==
  ASSUME IInv, WriteMore
  PROVE  IInv' /\ Pending' = Pending
<1> DEFINE room == BufSize - Len(chout)
<1>1. /\ pc = "writeMore" /\ chin' = chin /\ chout' = chout /\ sent' = sent
      /\ moves' = IF room < len(q) THEN room ELSE len(q)
      /\ IF moves' = 0 THEN TakeFirst(q)
         ELSE pc' = "writing" /\ q' = q /\ first' = first
  BY DEF WriteMore
<1>2. Packed(q) /\ dequed /\ InRing = contents(q)
  BY <1>1, RingSeq DEF IInv
<1>3. len(q) \in Nat
  BY <1>2, RingBounds DEF Packed, IsRing
<1>4. /\ moves' \in 0..BufSize /\ moves' <= len(q) /\ moves' + Len(chout) <= BufSize
  BY <1>1, <1>3, MsgChannelAssumption DEF IInv
<1>5. CASE moves' = 0
  <2>1. TakeFirst(q)
    BY <1>1, <1>5
  <2>2. /\ Packed(q') /\ first' \in Msg \cup {NoMsg}
        /\ pc' \in {"fastOut", "select"}
        /\ pc' = "fastOut" => ~dequed' /\ empty(q')
        /\ pc' = "select" => dequed'
        /\ InRing' = contents(q)
    BY <1>2, <2>1, TakeFirstKeeps
  <2>3. IInv'
    BY <1>1, <1>4, <2>2 DEF IInv
  <2> QED
    BY <1>1, <1>2, <2>2, <2>3 DEF Pending
<1>6. CASE moves' # 0
  <2>1. pc' = "writing" /\ q' = q /\ first' = first
    BY <1>1, <1>6
  <2>2. moves' > 0
    BY <1>4, <1>6
  <2>3. IInv'
    BY <1>1, <1>2, <1>4, <2>1, <2>2 DEF IInv, dequed
  <2>4. InRing' = contents(q)
    BY <2>1 DEF InRing
  <2> QED
    BY <1>1, <1>2, <2>3, <2>4 DEF Pending
<1> QED
  BY <1>5, <1>6

LEMMA WriteKeeps ==
  ASSUME IInv, Write
  PROVE  IInv' /\ Pending' = Pending
<1>1. /\ pc = "writing" /\ chin' = chin /\ chout' = Append(chout, front(q))
      /\ moves' = moves - 1 /\ sent' = sent
      /\ IF moves' = 0 THEN TakeFirst(deque(q))
         ELSE q' = deque(q) /\ pc' = pc /\ first' = first
  BY DEF Write
<1>2. Packed(q) /\ dequed /\ InRing = contents(q)
  BY <1>1, RingSeq DEF IInv
<1>3. /\ moves > 0 /\ moves <= len(q) /\ moves + Len(chout) <= BufSize
      /\ moves \in 0..BufSize /\ BufSize \in Nat /\ chout \in Seq(Msg)
  BY <1>1, MsgChannelAssumption DEF IInv
<1>4. len(q) \in Nat /\ ~empty(q)
  BY <1>2, <1>3, RingBounds DEF Packed, IsRing, empty
<1>5. /\ Packed(deque(q)) /\ front(q) \in Msg /\ len(deque(q)) = len(q) - 1
      /\ contents(q) = <<front(q)>> \o contents(deque(q))
  BY <1>2, <1>4, DequeRemoves
<1>6. /\ chout' \in Seq(Msg) /\ Len(chout') = Len(chout) + 1
      /\ moves' \in 0..BufSize /\ moves' + Len(chout') <= BufSize
      /\ Len(chout') <= BufSize /\ moves' <= len(deque(q))
  BY <1>1, <1>3, <1>4, <1>5
<1>7. chout' \o contents(deque(q)) = chout \o InRing
  <2>1. contents(deque(q)) \in Seq(Msg)
    BY <1>5, ContentsSeq
  <2> QED
    BY <1>1, <1>2, <1>3, <1>5, <2>1, MoveOut
<1>8. CASE moves' = 0
  <2>1. TakeFirst(deque(q))
    BY <1>1, <1>8
  <2>2. /\ Packed(q') /\ first' \in Msg \cup {NoMsg}
        /\ pc' \in {"fastOut", "select"}
        /\ pc' = "fastOut" => ~dequed' /\ empty(q')
        /\ pc' = "select" => dequed'
        /\ InRing' = contents(deque(q))
    BY <1>5, <2>1, TakeFirstKeeps
  <2>3. IInv'
    BY <1>1, <1>6, <2>2 DEF IInv
  <2> QED
    BY <1>1, <1>7, <2>2, <2>3 DEF Pending
<1>9. CASE moves' # 0
  <2>1. q' = deque(q) /\ pc' = "writing" /\ first' = first
    BY <1>1, <1>9
  <2>2. moves' > 0
    BY <1>6, <1>9
  <2>3. IInv'
    BY <1>1, <1>2, <1>5, <1>6, <2>1, <2>2 DEF IInv, dequed
  <2>4. InRing' = contents(deque(q))
    BY <2>1 DEF InRing
  <2> QED
    BY <1>1, <1>7, <2>3, <2>4 DEF Pending
<1> QED
  BY <1>8, <1>9

LEMMA PipeKeeps ==
  ASSUME IInv, Pipe
  PROVE  IInv' /\ Pending' = Pending
BY FastOutKeeps, FastInKeeps, FastMoveKeeps, SelectInKeeps, ReadMoreKeeps, ReadKeeps,
   SelectOutKeeps, WriteMoreKeeps, WriteKeeps DEF Pipe
-----------------------------------------------------------------------------
(* The two ends *)

LEMMA PendingSeq ==
  ASSUME IInv
  PROVE  Pending \in Seq(Msg)
BY RingSeq, ConcatProperties DEF IInv, Pending

LEMMA SendKeeps ==
  ASSUME IInv, Send
  PROVE  IInv' /\ sent + 1 \in Msg /\ Pending' = Append(Pending, sent + 1)
<1>1. /\ sent < MaxMsgs /\ Len(chin) < BufSize /\ sent' = sent + 1
      /\ chin' = Append(chin, sent + 1) /\ chout' = chout /\ q' = q /\ first' = first
      /\ pc' = pc /\ moves' = moves
  BY DEF Send
<1>2. sent + 1 \in Msg /\ sent + 1 \in 0..MaxMsgs
  BY <1>1, MsgChannelAssumption DEF IInv
<1>3. chin' \in Seq(Msg) /\ Len(chin') = Len(chin) + 1 /\ Len(chin') <= BufSize
  BY <1>1, <1>2, MsgChannelAssumption DEF IInv
<1>4. pc = "reading" => moves <= Len(chin')
  BY <1>3, MsgChannelAssumption DEF IInv
<1>5. IInv'
  BY <1>1, <1>2, <1>3, <1>4 DEF IInv, dequed
<1>6. InRing' = InRing
  BY <1>1 DEF InRing, dequed
<1>7. chout \o InRing \in Seq(Msg) /\ chin \in Seq(Msg)
  BY RingSeq, ConcatProperties DEF IInv
<1>8. Pending' = (chout \o InRing) \o Append(chin, sent + 1)
  BY <1>1, <1>6 DEF Pending
<1>9. (chout \o InRing) \o Append(chin, sent + 1) = Append(Pending, sent + 1)
  BY <1>2, <1>7, AppendInside DEF Pending
<1> QED
  BY <1>2, <1>5, <1>8, <1>9

LEMMA ReceiveKeeps ==
  ASSUME IInv, Receive
  PROVE  IInv' /\ Pending # <<>> /\ Pending' = Tail(Pending) /\ Head(Pending) = Head(chout)
<1>1. /\ chout # <<>> /\ chout' = Tail(chout) /\ chin' = chin /\ q' = q /\ first' = first
      /\ pc' = pc /\ moves' = moves /\ sent' = sent
  BY DEF Receive
<1>2. /\ chout \in Seq(Msg) /\ chout' \in Seq(Msg) /\ Len(chout') = Len(chout) - 1
      /\ Len(chout) \in Nat \ {0}
  BY <1>1, HeadTailProperties, EmptySeq DEF IInv
<1>3. /\ Len(chout') <= BufSize
      /\ pc \in {"fastMove", "writing"} => moves + Len(chout') <= BufSize
  BY <1>2, MsgChannelAssumption DEF IInv
<1>4. IInv'
  BY <1>1, <1>2, <1>3 DEF IInv, dequed
<1>5. InRing' = InRing /\ InRing \in Seq(Msg) /\ chin \in Seq(Msg)
  BY <1>1, RingSeq DEF InRing, dequed, IInv
<1>6. ASSUME NEW a \in Seq(Msg), NEW c \in Seq(Msg), a # <<>>
      PROVE  /\ a \o c \in Seq(Msg) /\ a \o c # <<>>
             /\ Tail(a \o c) = Tail(a) \o c /\ Head(a \o c) = Head(a)
  <2>1. a \o c \in Seq(Msg) /\ Len(a \o c) = Len(a) + Len(c) /\ Len(a) \in Nat \ {0}
        /\ \A i \in 1..(Len(a) + Len(c)) : (a \o c)[i] = IF i <= Len(a) THEN a[i] ELSE c[i - Len(a)]
    BY <1>6, ConcatProperties, EmptySeq
  <2>2. a \o c # <<>> /\ Len(c) \in Nat
    BY <2>1
  <2>3. Head(a \o c) = Head(a)
    BY <1>6, <2>1, <2>2
  <2>4. /\ Tail(a \o c) \in Seq(Msg) /\ Len(Tail(a \o c)) = Len(a) + Len(c) - 1
        /\ \A i \in 1..(Len(a) + Len(c) - 1) : Tail(a \o c)[i] = (a \o c)[i + 1]
    BY <2>1, <2>2, HeadTailProperties
  <2>5. /\ Tail(a) \in Seq(Msg) /\ Len(Tail(a)) = Len(a) - 1
        /\ \A i \in 1..(Len(a) - 1) : Tail(a)[i] = a[i + 1]
    BY <1>6, HeadTailProperties
  <2>6. /\ Tail(a) \o c \in Seq(Msg) /\ Len(Tail(a) \o c) = Len(a) + Len(c) - 1
        /\ \A i \in 1..(Len(a) + Len(c) - 1) :
             (Tail(a) \o c)[i] = IF i <= Len(a) - 1 THEN Tail(a)[i] ELSE c[i - (Len(a) - 1)]
    BY <2>1, <2>2, <2>5, ConcatProperties
  <2>7. ASSUME NEW i \in 1..(Len(a) + Len(c) - 1)
        PROVE  Tail(a \o c)[i] = (Tail(a) \o c)[i]
    BY <2>1, <2>2, <2>4, <2>5, <2>6
  <2>8. Tail(a \o c) = Tail(a) \o c
    BY <2>4, <2>6, <2>7, SeqEqual
  <2> QED
    BY <2>1, <2>2, <2>3, <2>8
<1>7. /\ chout \o InRing \in Seq(Msg) /\ chout \o InRing # <<>>
      /\ Tail(chout \o InRing) = Tail(chout) \o InRing
      /\ Head(chout \o InRing) = Head(chout)
  BY <1>1, <1>2, <1>5, <1>6
<1>8. /\ Pending # <<>> /\ Tail(Pending) = Tail(chout \o InRing) \o chin
      /\ Head(Pending) = Head(chout)
  BY <1>5, <1>6, <1>7 DEF Pending
<1> QED
  BY <1>1, <1>4, <1>5, <1>7, <1>8 DEF Pending
-----------------------------------------------------------------------------
(* Theorems *)

LEMMA NextIInv ==
  IInv /\ [Next]_vars => IInv'
<1> SUFFICES ASSUME IInv, [Next]_vars PROVE IInv'
  OBVIOUS
<1>1. CASE UNCHANGED vars
  BY <1>1 DEF vars, IInv, dequed
<1> QED
  BY <1>1, PipeKeeps, SendKeeps, ReceiveKeeps DEF Next

LEMMA AlwaysIInv ==
  Spec => []IInv
BY InitIInv, NextIInv, PTL DEF Spec

\* Whatever the size of the channels, and however producers, pipe and the
\* consumer interleave, msgChannel is a queue: no message is lost, duplicated
\* or overtaken (msg.go pipe, enque, deque and maybeExpand).
THEOREM ChannelIsFIFO ==
  Spec => ImplementsFIFO
<1>1. Init => Queue!Init
  BY InitIInv DEF Queue!Init, Pending
<1>2. IInv /\ [Next]_vars => [Queue!Next]_Pending
  <2> SUFFICES ASSUME IInv, [Next]_vars PROVE [Queue!Next]_Pending
    OBVIOUS
  <2>1. CASE Send
    <3>1. sent + 1 \in Msg /\ Pending' = Append(Pending, sent + 1)
      BY <2>1, SendKeeps
    <3> QED
      BY <3>1 DEF Queue!Next, Queue!Put, Pending
  <2>2. CASE Receive
    BY <2>2, ReceiveKeeps DEF Queue!Next, Queue!Get, Pending
  <2>3. CASE Pipe
    BY <2>3, PipeKeeps
  <2>4. CASE UNCHANGED vars
    BY <2>4 DEF vars, Pending, InRing, dequed
  <2> QED
    BY <2>1, <2>2, <2>3, <2>4 DEF Next
<1> QED
  BY <1>1, <1>2, AlwaysIInv, PTL DEF Spec, ImplementsFIFO, Queue!Spec, Pending

\* What has been sent and not received, in order: messages are numbered as
\* they are sent.
Numbered ==
  /\ rcvd \in Nat /\ Len(Pending) = sent - rcvd
  /\ \A i \in 1..Len(Pending) : Pending[i] = rcvd + i

\* The next message that the consumer receives is the one after the last it
\* has received, and all that has been sent and not received is on its way.
GivesInOrder ==
  /\ chout # <<>> => Head(chout) = rcvd + 1
  /\ Len(chout) + Len(InRing) + Len(chin) = sent - rcvd

LEMMA NextNumbered ==
  ASSUME IInv, Numbered, [Next]_vars
  PROVE  Numbered'
<1>1. Pending \in Seq(Msg) /\ Len(Pending) \in Nat /\ sent \in Nat
  BY PendingSeq, MsgChannelAssumption DEF IInv
<1>2. CASE Send
  <2>1. /\ sent + 1 \in Msg /\ Pending' = Append(Pending, sent + 1)
        /\ sent' = sent + 1 /\ rcvd' = rcvd
    BY <1>2, SendKeeps DEF Send
  <2>2. /\ Len(Pending') = Len(Pending) + 1
        /\ \A i \in 1..Len(Pending) : Pending'[i] = Pending[i]
        /\ Pending'[Len(Pending) + 1] = sent + 1
    BY <1>1, <2>1
  <2> QED
    BY <1>1, <2>1, <2>2 DEF Numbered
<1>3. CASE Receive
  <2>1. Pending # <<>> /\ Pending' = Tail(Pending) /\ sent' = sent /\ rcvd' = rcvd + 1
    BY <1>3, ReceiveKeeps DEF Receive
  <2>2. /\ Len(Pending') = Len(Pending) - 1
        /\ \A i \in 1..Len(Pending') : Pending'[i] = Pending[i + 1]
    BY <1>1, <2>1, HeadTailProperties
  <2> QED
    BY <1>1, <2>1, <2>2 DEF Numbered
<1>4. CASE Pipe
  <2>1. sent' = sent /\ rcvd' = rcvd
    BY <1>4 DEF Pipe, FastOut, FastIn, FastMove, SelectIn, ReadMore, Read, SelectOut,
                WriteMore, Write
  <2> QED
    BY <1>4, <2>1, PipeKeeps DEF Numbered
<1>5. CASE UNCHANGED vars
  <2>1. Pending' = Pending /\ sent' = sent /\ rcvd' = rcvd
    BY <1>5 DEF vars, Pending, InRing, dequed
  <2> QED
    BY <2>1 DEF Numbered
<1> QED
  BY <1>2, <1>3, <1>4, <1>5 DEF Next

\* Counted in messages: the consumer gets message n + 1 after message n, and
\* the channels, the ring and first hold exactly what is due (msg.go pipe).
THEOREM MessagesInOrder ==
  Spec => []GivesInOrder
<1>1. Init => Numbered
  <2> SUFFICES ASSUME Init PROVE Numbered
    OBVIOUS
  <2>1. Pending = <<>> /\ sent = 0 /\ rcvd = 0
    BY InitIInv DEF Init
  <2> QED
    BY <2>1 DEF Numbered
<1>2. IInv /\ Numbered /\ [Next]_vars => Numbered'
  BY NextNumbered
<1>3. IInv /\ Numbered => GivesInOrder
  <2> SUFFICES ASSUME IInv, Numbered PROVE GivesInOrder
    OBVIOUS
  <2>1. chout \in Seq(Msg) /\ InRing \in Seq(Msg) /\ chin \in Seq(Msg)
        /\ chout \o InRing \in Seq(Msg)
    BY RingSeq, ConcatProperties DEF IInv
  <2>2. Len(chout \o InRing) = Len(chout) + Len(InRing)
        /\ Len(Pending) = Len(chout \o InRing) + Len(chin)
    BY <2>1, ConcatProperties DEF Pending
  <2>3. ASSUME chout # <<>> PROVE Head(chout) = rcvd + 1
    <3>1. Len(chout) \in Nat \ {0} /\ Len(InRing) \in Nat /\ Len(chin) \in Nat
      BY <2>1, <2>3, EmptySeq
    <3>2. 1 \in 1..Len(Pending)
      BY <2>2, <3>1
    <3>3. (chout \o InRing)[1] = chout[1] /\ Pending[1] = (chout \o InRing)[1]
      BY <2>1, <2>2, <3>1, ConcatProperties DEF Pending
    <3> QED
      BY <2>1, <2>3, <3>2, <3>3 DEF Numbered
  <2> QED
    BY <2>1, <2>2, <2>3 DEF Numbered, GivesInOrder
<1> QED
  BY <1>1, <1>2, <1>3, AlwaysIInv, PTL DEF Spec
=============================================================================
