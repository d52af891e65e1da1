-------------------------------- MODULE Rates --------------------------------
(***************************************************************************)
(* The loop of a bee (bee.start) whose incoming and outgoing messages go   *)
(* through token buckets.  One goroutine does everything: it receives a    *)
(* batch, waits for tokens if it has to, handles the batch, and puts what  *)
(* the handler emits on outCh (throttle), from which it takes it again to  *)
(* send it when the outgoing bucket has the tokens.                        *)
(*                                                                         *)
(* Slices share memory: what throttle puts on outCh is a part of the array *)
(* of msgBufL1, which resetTx clears when the transaction is over and the  *)
(* next transaction fills again.  heap holds the arrays, the last one is   *)
(* that of msgBufL1, and a chunk is a part of an array; arr is 0 if it is  *)
(* the one message that a handler without a transaction has emitted.       *)
(*                                                                         *)
(* Messages are numbered in the order they are emitted.  The queue of the  *)
(* incoming messages, which never blocks, is in MsgChannel.                *)
(* Left out are commands and stopping, Apply, which throttles messages of  *)
(* persistent applications in the goroutine of the Raft node, and the      *)
(* second layer of transactions, which is in BeeTx.                        *)
(***************************************************************************)
EXTENDS Bucket, Sequences

CONSTANTS
  App,       \* applications: [inRate, inMax, outRate, outMax, batch, cap (of
             \* outCh), emits (per message), tx (transactional)]
  Second,    \* ticks in a second
  MaxUint,   \* the largest number of tokens
  MaxTime,   \* bound: time goes on after it only while a timer is running
  MaxMsgs    \* bound: incoming messages

ASSUME RatesAssumption ==
  /\ {Second, MaxUint} \subseteq Nat \ {0} /\ {MaxTime, MaxMsgs} \subseteq Nat
  /\ \A a \in App : /\ {a.inRate, a.inMax, a.outRate, a.outMax, a.emits} \subseteq Nat
                    /\ {a.batch, a.cap} \subseteq Nat \ {0}
                    /\ a.tx \in BOOLEAN

\* minimizeResolution divides by a common divisor.
ASSUME GcdAssumption ==
  \A a \in App : \A r \in {a.inRate, a.outRate} \ {0} :
    gcd[<<r, Second>>] \in 1..r /\ gcd[<<r, Second>>] \in 1..Second

VARIABLES
  app,      \* the application, chosen at first
  now,      \* the time
  status,   \* "started", or "fatal": a panic or a Fatal
  arrived,  \* number of messages that have arrived
  dataCh,   \* number of messages that wait
  batch,    \* number of messages in the batch that waits for tokens
  inB, outB,\* the buckets
  inT, outT,\* when the timers fire; -1: there is no timer
  heap,     \* the arrays of messages; 0 is nil
  chunks,   \* the chunks that throttle has not put on outCh yet
  outCh,
  outM,     \* the chunk that waits for tokens
  in,       \* when each message was handled (history)
  out,      \* the messages sent (history)
  outAt     \* when each message was sent (history)

vars == <<app, now, status, arrived, dataCh, batch, inB, outB, inT, outT, heap,
          chunks, outCh, outM, in, out, outAt>>
inVars == <<dataCh, batch, inB, inT, in>>
outVars == <<outB, outT, outCh, outM, out, outAt>>
-----------------------------------------------------------------------------
NoTimer == -1
NoChunk == [arr |-> 0, from |-> 1, to |-> 0]
Size(c) == c.to - c.from + 1

\* defaultLocalBee: a batch is never larger than the incoming bucket.
batchSize(a) ==
  LET max == MaxTokens(New(a.inRate, a.inMax, Second, MaxUint), MaxUint)
  IN  IF max < a.batch THEN max ELSE a.batch

Init ==
  /\ app \in App
  /\ now = 0 /\ status = "started"
  /\ arrived = 0 /\ dataCh = 0 /\ batch = 0
  /\ inB = Reset(New(app.inRate, app.inMax, Second, MaxUint), 0)
  /\ outB = Reset(New(app.outRate, app.outMax, Second, MaxUint), 0)
  /\ inT = NoTimer /\ outT = NoTimer
  /\ heap = <<<<>>>> /\ chunks = <<>> /\ outCh = <<>> /\ outM = NoChunk
  /\ in = <<>> /\ out = <<>> /\ outAt = <<>>

\* The goroutine is in the select of its loop, not in throttle.
Selecting == status = "started" /\ chunks = <<>>

Tick ==
  /\ now < MaxTime \/ now < inT \/ now < outT
  /\ now' = now + 1
  /\ UNCHANGED <<app, status, arrived, heap, chunks, inVars, outVars>>

Arrive ==
  /\ arrived < MaxMsgs
  /\ arrived' = arrived + 1 /\ dataCh' = dataCh + 1
  /\ UNCHANGED <<app, now, status, batch, inB, inT, in, heap, chunks, outVars>>
-----------------------------------------------------------------------------
\* append: n messages, the first of them m, in msgBufL1; an array that is too
\* small is filled and then left for one whose size is a power of two.
Appended(h, n, m) ==
  LET a == h[Len(h)]
      size == CHOOSE s \in {2 ^ k : k \in 0..n} : s >= n /\ s < 2 * n
      put(k) == [i \in 1..k |-> IF i <= n THEN m + i - 1 ELSE 0]
  IN  IF n <= Len(a) THEN [h EXCEPT ![Len(h)] = put(Len(a))]
      ELSE Append([h EXCEPT ![Len(h)] = put(Len(a))], put(size))

\* resetTx: nil the messages in msgBufL1.
resetTx(h) == [h EXCEPT ![Len(h)] = [i \in DOMAIN @ |-> 0]]

\* throttle cuts n messages of an array into chunks of at most max messages.
Cut(arr, n, max) ==
  [i \in 1..Ceil(n, max) |-> [arr |-> arr, from |-> (i - 1) * max + 1,
                              to |-> IF i * max < n THEN i * max ELSE n]]

\* doEmit: the messages of a chunk are read when it is sent.
doEmit(c) ==
  /\ out' = out \o [i \in 1..Size(c) |->
                      IF c.arr = 0 THEN c.from ELSE heap[c.arr][c.from + i - 1]]
  /\ outAt' = outAt \o [i \in 1..Size(c) |-> now]

\* handleMsg: each of the n messages makes the handler emit app.emits.
handleMsg(n) ==
  LET first == Len(in) * app.emits + 1
      k == n * app.emits
  IN  /\ in' = in \o [i \in 1..n |-> now]
      /\ IF Unlimited(outB)
         THEN /\ out' = out \o [i \in 1..k |-> first + i - 1]
              /\ outAt' = outAt \o [i \in 1..k |-> now]
              /\ UNCHANGED <<heap, chunks>>
         ELSE IF app.tx
         THEN /\ heap' = Appended(heap, k, first)
              /\ chunks' = Cut(Len(heap'), k, outB.max)
              /\ UNCHANGED <<out, outAt>>
         ELSE /\ chunks' = [i \in 1..k |-> [arr |-> 0, from |-> first + i - 1,
                                            to |-> first + i - 1]]
              /\ UNCHANGED <<heap, out, outAt>>
      /\ UNCHANGED <<outB, outT, outCh, outM>>

\* case mh := <-dataCh.  A message that has just arrived may miss the batch.
RcvData ==
  /\ Selecting /\ inT = NoTimer /\ dataCh > 0
  /\ \E n \in 1..batchSize(app) :
       /\ n <= dataCh
       /\ dataCh' = dataCh - n
       /\ inB' = Got(inB, n, now)
       /\ IF Ok(inB, n, now)
          THEN handleMsg(n) /\ UNCHANGED <<batch, inT, status>>
          ELSE /\ batch' = n
               /\ inT' = now + When(inB, n, now)
               /\ status' = IF TooMany(inB, n) THEN "fatal" ELSE status
               /\ UNCHANGED <<in, heap, chunks, outVars>>
  /\ UNCHANGED <<app, now, arrived>>

\* case <-inT
InTimer ==
  /\ Selecting /\ inT # NoTimer /\ inT <= now
  /\ IF Ok(inB, batch, now)
     THEN /\ inB' = Got(inB, batch, now)
          /\ handleMsg(batch)
          /\ batch' = 0 /\ inT' = NoTimer
          /\ UNCHANGED <<dataCh, status>>
     ELSE status' = "fatal" /\ UNCHANGED <<inVars, outVars, heap, chunks>>
  /\ UNCHANGED <<app, now, arrived>>

\* Mutant: room for one chunk is left.
ThrottleEarly ==
  /\ status = "started" /\ chunks # <<>>
  /\ Len(outCh) + 1 < app.cap
  /\ outCh' = Append(outCh, Head(chunks))
  /\ chunks' = Tail(chunks)
  /\ heap' = IF app.tx /\ chunks' = <<>> THEN resetTx(heap) ELSE heap
  /\ UNCHANGED <<app, now, status, arrived, inVars, outB, outT, outM, out, outAt>>

\* throttle puts a chunk on outCh, or waits until there is room; when it has
\* put the last one there, the transaction is over.
Throttle ==
  /\ status = "started" /\ chunks # <<>>
  /\ Len(outCh) < app.cap
  /\ outCh' = Append(outCh, Head(chunks))
  /\ chunks' = Tail(chunks)
  /\ heap' = IF app.tx /\ chunks' = <<>> THEN resetTx(heap) ELSE heap
  /\ UNCHANGED <<app, now, status, arrived, inVars, outB, outT, outM, out, outAt>>

\* Mutant: outCh stays open while a chunk waits for tokens.
RcvOutOpen ==
  /\ Selecting /\ outCh # <<>>
  /\ LET c == Head(outCh)
         n == Size(c)
     IN  /\ outCh' = Tail(outCh)
         /\ outB' = Got(outB, n, now)
         /\ IF Ok(outB, n, now)
            THEN doEmit(c) /\ UNCHANGED <<outM, outT>>
            ELSE /\ outM' = c /\ outT' = now + When(outB, n, now)
                 /\ UNCHANGED <<out, outAt>>
  /\ UNCHANGED <<app, now, status, arrived, inVars, heap, chunks>>

\* case outM = <-outCh
RcvOut ==
  /\ Selecting /\ outT = NoTimer /\ outCh # <<>>
  /\ LET c == Head(outCh)
         n == Size(c)
     IN  /\ outCh' = Tail(outCh)
         /\ outB' = Got(outB, n, now)
         /\ status' = IF TooMany(outB, n) THEN "fatal" ELSE status
         /\ IF Ok(outB, n, now)
            THEN doEmit(c) /\ UNCHANGED <<outM, outT>>
            ELSE /\ outM' = c /\ outT' = now + When(outB, n, now)
                 /\ UNCHANGED <<out, outAt>>
  /\ UNCHANGED <<app, now, arrived, inVars, heap, chunks>>

\* case <-outT
OutTimer ==
  /\ Selecting /\ outT # NoTimer /\ outT <= now
  /\ outB' = Got(outB, Size(outM), now)
  /\ IF Ok(outB, Size(outM), now)
     THEN doEmit(outM) /\ outM' = NoChunk /\ outT' = NoTimer /\ UNCHANGED status
     ELSE status' = "fatal" /\ UNCHANGED <<out, outAt, outM, outT>>
  /\ UNCHANGED <<app, now, arrived, inVars, heap, chunks, outCh>>

Next == Tick \/ Arrive \/ RcvData \/ InTimer \/ Throttle \/ RcvOut \/ OutTimer

\* Time goes on, and a select whose case is ready again and again takes it.
Fairness ==
  /\ WF_vars(Tick) /\ WF_vars(Throttle)
  /\ SF_vars(RcvData) /\ SF_vars(InTimer) /\ SF_vars(RcvOut) /\ SF_vars(OutTimer)

Spec == Init /\ [][Next]_vars /\ Fairness
-----------------------------------------------------------------------------
\* The variables have their types, and only a bee with a batch or a chunk in
\* its hands waits for tokens.
TypeOK ==
  /\ app \in App /\ now \in Nat
  /\ status \in {"started", "fatal"}
  /\ arrived = dataCh + batch + Len(in)
  /\ (inT # NoTimer) <=> (batch > 0)
  /\ (outT # NoTimer) <=> (outM # NoChunk)
  /\ Len(outCh) <= app.cap

\* The wait that When computes is long enough: the bee never meets "cannot get
\* tokens after the wait", and never asks for more than a bucket can hold.
NoFatal == status # "fatal"

\* at[i]..at[j] are j - i + 1 events of a bucket b.
Within(at, b) ==
  ~Unlimited(b) =>
    /\ Len(at) <= (now \div b.resolution) * b.quantum
    /\ \A i, j \in DOMAIN at : i <= j =>
         j - i + 1 <= b.max + Ceil(at[j] - at[i], b.resolution) * b.quantum

\* The rates hold over any stretch of time: the messages handled, and the
\* messages sent, are no more than a full bucket and what was added meanwhile.
RatesKept ==
  /\ Within(in, inB)
  /\ Within(outAt, outB)

\* What the handlers emit is sent once, in order, and nothing else is.
SentInOrder == \A i \in DOMAIN out : out[i] = i

\* throttle waits for room on outCh, which only its own goroutine makes.
Stuck == chunks # <<>> /\ Len(outCh) = app.cap

\* A batch that has arrived is handled, and what it makes the handler emit is
\* sent, unless the goroutine waits for itself in throttle.
EveryMsgSent ==
  []<>(Stuck \/ (Len(in) = arrived /\ Len(out) = Len(in) * app.emits))
=============================================================================
