----------------------------- MODULE SyncProofs -----------------------------
(***************************************************************************)
(* Synchronous requests, for any number of calls and workers: a call's     *)
(* answer tells the outcome, and no worker blocks on an answer channel.    *)
(***************************************************************************)
EXTENDS Sync, SequenceTheorems, TLAPS

Answers == {"data", "empty", "error"}

IsRcv(c) == {"req", "from", "buf"} \subseteq DOMAIN c

TypesClient ==
  /\ call \in [Req -> {"none", "waiting", "cancelled", "stopped"} \cup Answers]
  /\ sender \in [Req -> {"none", "trying", "done"}]
  /\ \A r \in Req : call[r] = "none" => sender[r] = "none"
  /\ ch \in [Req -> Seq({"stopped"} \cup Answers)]

TypesWorker ==
  /\ syncCh \in Seq(Req)
  /\ reqs \in [Worker -> SUBSET Req]
  /\ start \in [Worker -> [pc : {"select", "enque", "emit", "drain", "locked", "panicked"},
                           req : Req \cup {Nil}]]
  /\ \A w \in Worker : start[w].pc \in {"enque", "emit"} => start[w].req \in Req
  /\ loop \in [Worker -> [pc : {"loop", "delete", "send", "stop", "stopped"},
                          res : Responses \cup {Nil}]]
  /\ \A w \in Worker : loop[w].pc \in {"delete", "send"} => loop[w].res \in Responses

TypesMsgs ==
  /\ inbox \in [Worker -> Seq(Responses)]
  /\ emitted \subseteq [req : Req, from : Worker]

TypesRcv ==
  /\ IsRcv(rcv)
  /\ rcv.req \in Req \cup {Nil}
  /\ rcv.req \in Req => rcv.from \in Worker
  /\ rcv.buf \in Seq(Responses)

TypesApp ==
  /\ effects \subseteq Req
  /\ deferred \in [Req -> [from : Worker \cup {Nil}, left : Nat]]
  /\ \A r \in Req : deferred[r].left > 0 => deferred[r].from \in Worker

Types == TypesClient /\ TypesWorker /\ TypesMsgs /\ TypesRcv /\ TypesApp

\* The requests in syncCh, in the hands of Start, and on their way to or in
\* the handler.
Queued == {syncCh[i] : i \in 1..Len(syncCh)}
Starting(w) == IF start[w].pc \in {"enque", "emit"} THEN {start[w].req} ELSE {}
OnTheWay == {e.req : e \in emitted}
Handled == {rcv.req} \ {Nil}

\* A request is at one of these places at most, and it has been sent.
Places ==
  /\ \A i, j \in 1..Len(syncCh) : syncCh[i] = syncCh[j] => i = j
  /\ \A r \in Queued : sender[r] = "done"
  /\ \A w \in Worker : \A r \in Starting(w) :
       /\ sender[r] = "done" /\ r \notin Queued
       /\ \A v \in Worker : r \in Starting(v) => v = w
  /\ \A r \in OnTheWay :
       sender[r] = "done" /\ r \notin Queued /\ \A w \in Worker : r \notin Starting(w)
  /\ \A e, f \in emitted : e.req = f.req => e = f
  /\ \A r \in Handled :
       /\ sender[r] = "done" /\ r \notin Queued /\ r \notin OnTheWay
       /\ \A w \in Worker : r \notin Starting(w)

\* The requests a worker has yet to answer.
ToEnque(w) == IF start[w].pc = "enque" THEN {start[w].req} ELSE {}
ToSend(w) == IF loop[w].pc = "send" THEN {loop[w].res.req} ELSE {}
Taken(w) == ToEnque(w) \cup reqs[w] \cup ToSend(w)

\* A request that a worker has yet to answer is with this worker alone, once,
\* and has no answer; neither has one that no worker has taken.
Unanswered ==
  /\ \A r \in Req : sender[r] # "done" \/ r \in Queued =>
       ch[r] = <<>> /\ \A w \in Worker : r \notin Taken(w)
  /\ \A w \in Worker : \A r \in Taken(w) :
       ch[r] = <<>> /\ \A v \in Worker : r \in Taken(v) => v = w
  /\ \A w \in Worker : ToEnque(w) \cap (reqs[w] \cup ToSend(w)) = {}
  /\ \A w \in Worker : reqs[w] \cap ToSend(w) = {}

\* The requests whose handler has not returned.
Fresh ==
  {r \in Req : \/ sender[r] # "done"
               \/ r \in Queued \cup OnTheWay \cup Handled
               \/ \E w \in Worker : r \in Starting(w)}

\* ans tells what became of r, for good: an error is told after the handler.
Told(r, ans) ==
  /\ ans \in {"data", "empty"} => r \in effects
  /\ ans = "error" => r \notin effects /\ r \notin Fresh

CallTold == \A r \in Req : Told(r, call[r])
ChTold == \A r \in Req : \A i \in 1..Len(ch[r]) : Told(r, ch[r][i])
InboxTold ==
  \A w \in Worker : \A i \in 1..Len(inbox[w]) : Told(inbox[w][i].req, inbox[w][i].ans)
LoopTold ==
  \A w \in Worker : loop[w].pc \in {"delete", "send"} =>
                      Told(loop[w].res.req, loop[w].res.ans)
BufHeld ==
  \A i \in 1..Len(rcv.buf) : rcv.buf[i].req = rcv.req /\ rcv.buf[i].ans = "data"
DeferredTold == \A r \in Req : deferred[r].left > 0 => r \in effects

\* Every answer that exists, wherever it is on its way to the call, tells the
\* outcome; a request whose handler has not returned has had no effect.
Outcome ==
  transactional =>
    /\ Fresh \cap effects = {}
    /\ CallTold /\ ChTold /\ InboxTold /\ LoopTold /\ BufHeld /\ DeferredTold

\* While its loop deletes a request from reqs, a worker still remembers it:
\* drain, which also deletes, runs when the loop waits in Stop.
Draining ==
  \A w \in Worker :
    /\ loop[w].pc = "delete" => loop[w].res.req \in reqs[w]
    /\ start[w].pc \in {"drain", "locked"} => loop[w].pc = "stop"

IInv == Types /\ Places /\ Unanswered /\ Draining /\ Outcome
-----------------------------------------------------------------------------
(* What the handler's steps do to rcv *)

LEMMA NoRcvFields ==
  /\ NoRcv.req = Nil /\ NoRcv.from = Nil /\ NoRcv.buf = <<>> /\ IsRcv(NoRcv)
BY DEF NoRcv, IsRcv

SetReplied(c) == [c EXCEPT !.replied = TRUE]
SetDeferred(c) == [c EXCEPT !.replied = TRUE, !.deferred = TRUE]
SetBuf(c, v) == [c EXCEPT !.buf = v]

LEMMA SetRepliedFields ==
  ASSUME NEW c, IsRcv(c)
  PROVE  /\ SetReplied(c).req = c.req /\ SetReplied(c).from = c.from
         /\ SetReplied(c).buf = c.buf /\ IsRcv(SetReplied(c))
<1>1. SetReplied(c).req = c.req
  BY DEF IsRcv, SetReplied
<1>2. SetReplied(c).from = c.from
  BY DEF IsRcv, SetReplied
<1>3. SetReplied(c).buf = c.buf
  BY DEF IsRcv, SetReplied
<1>4. IsRcv(SetReplied(c))
  BY DEF IsRcv, SetReplied
<1> QED
  BY <1>1, <1>2, <1>3, <1>4

LEMMA SetDeferredFields ==
  ASSUME NEW c, IsRcv(c)
  PROVE  /\ SetDeferred(c).req = c.req /\ SetDeferred(c).from = c.from
         /\ SetDeferred(c).buf = c.buf /\ IsRcv(SetDeferred(c))
<1>1. SetDeferred(c).req = c.req
  BY DEF IsRcv, SetDeferred
<1>2. SetDeferred(c).from = c.from
  BY DEF IsRcv, SetDeferred
<1>3. SetDeferred(c).buf = c.buf
  BY DEF IsRcv, SetDeferred
<1>4. IsRcv(SetDeferred(c))
  BY DEF IsRcv, SetDeferred
<1> QED
  BY <1>1, <1>2, <1>3, <1>4

LEMMA SetBufFields ==
  ASSUME NEW c, IsRcv(c), NEW v
  PROVE  /\ SetBuf(c, v).req = c.req /\ SetBuf(c, v).from = c.from
         /\ SetBuf(c, v).buf = v /\ IsRcv(SetBuf(c, v))
BY DEF IsRcv, SetBuf

LEMMA HandleRcv ==
  ASSUME NEW e, Handle(e)
  PROVE  rcv'.req = e.req /\ rcv'.from = e.from /\ rcv'.buf = <<>> /\ IsRcv(rcv')
BY DEF Handle, NoRcv, IsRcv

LEMMA ReplyRcv ==
  ASSUME IsRcv(rcv), Reply
  PROVE  /\ rcv'.req = rcv.req /\ rcv'.from = rcv.from /\ IsRcv(rcv')
         /\ \/ transactional /\ rcv'.buf = rcv.buf \o response("data") /\ inbox' = inbox
            \/ /\ ~transactional /\ rcv'.buf = rcv.buf
               /\ inbox' = [inbox EXCEPT ![rcv.from] = @ \o response("data")]
<1> DEFINE c == SetReplied(rcv)
<1>1. c.req = rcv.req /\ c.from = rcv.from /\ c.buf = rcv.buf /\ IsRcv(c)
  BY SetRepliedFields
<1>2. reply("data", c)
  BY DEF Reply, SetReplied
<1> HIDE DEF c
<1>3. CASE transactional
  <2>1. rcv' = SetBuf(c, c.buf \o response("data")) /\ inbox' = inbox
    BY <1>2, <1>3 DEF reply, SetBuf
  <2>2. /\ rcv'.req = rcv.req /\ rcv'.from = rcv.from /\ IsRcv(rcv')
        /\ rcv'.buf = rcv.buf \o response("data")
    <3> DEFINE v == c.buf \o response("data")
    <3>1. rcv' = SetBuf(c, v)
      BY <2>1
    <3>2. v = rcv.buf \o response("data")
      BY <1>1
    <3> HIDE DEF v
    <3> QED
      BY ZenonT(40), <1>1, <3>1, <3>2, SetBufFields
  <2> QED
    BY <1>3, <2>1, <2>2, Zenon
<1>4. CASE ~transactional
  <2>1. rcv' = c /\ inbox' = [inbox EXCEPT ![rcv.from] = @ \o response("data")]
    BY <1>2, <1>4 DEF reply, deliver
  <2> QED
    BY <1>1, <1>4, <2>1
<1> QED
  BY <1>3, <1>4

LEMMA DeferReplyRcv ==
  ASSUME IsRcv(rcv), DeferReply
  PROVE  rcv'.req = rcv.req /\ rcv'.from = rcv.from /\ rcv'.buf = rcv.buf /\ IsRcv(rcv')
BY Zenon, SetDeferredFields DEF DeferReply, SetDeferred

\* ReturnOK, ReturnErr and Panic end the handler and leave the rest alone.
LEMMA ReturnRcv ==
  ASSUME Types, ReturnOK \/ ReturnErr \/ Panic
  PROVE  /\ rcv' = NoRcv /\ rcv.req \in Req /\ rcv.from \in Worker
         /\ effects' = effects \/ effects' = effects \cup {rcv.req}
         /\ \/ deferred' = deferred
            \/ /\ rcv.req \in effects'
               /\ deferred' = [deferred EXCEPT ![rcv.req] =
                                 [from |-> rcv.from, left |-> MaxReplies]]
<1>1. PICK yes \in BOOLEAN : takeEffect(yes) /\ rcv.req # Nil
  <2>1. CASE ReturnOK
    BY <2>1, Zenon DEF ReturnOK
  <2>2. CASE ReturnErr
    <3>1. CASE transactional
      <4>1. (~transactional) = FALSE
        BY <3>1
      <4> QED
        BY <2>2, <4>1, Zenon DEF ReturnErr
    <3>2. CASE ~transactional
      <4>1. (~transactional) = TRUE
        BY <3>2
      <4> QED
        BY <2>2, <4>1, Zenon DEF ReturnErr
    <3> QED
      BY <3>1, <3>2
  <2>3. CASE Panic
    <3>1. CASE transactional
      <4>1. (~transactional) = FALSE
        BY <3>1
      <4> QED
        BY <2>3, <4>1, Zenon DEF Panic
    <3>2. CASE ~transactional
      <4>1. (~transactional) = TRUE
        BY <3>2
      <4> QED
        BY <2>3, <4>1, Zenon DEF Panic
    <3> QED
      BY <3>1, <3>2
  <2> QED
    BY <2>1, <2>2, <2>3
<1>2. rcv.req \in Req /\ rcv.from \in Worker /\ rcv' = NoRcv
  BY <1>1 DEF Types, TypesRcv, takeEffect
<1>3. CASE yes
  <2>1. effects' = effects \cup {rcv.req}
    BY <1>1, <1>3, Zenon DEF takeEffect
  <2>2. CASE rcv.deferred
    BY <1>1, <1>2, <1>3, <2>1, <2>2, Zenon DEF takeEffect
  <2>3. CASE ~rcv.deferred
    BY <1>1, <1>2, <1>3, <2>1, <2>3, Zenon DEF takeEffect
  <2> QED
    BY <2>2, <2>3
<1>4. CASE ~yes
  BY <1>1, <1>2, <1>4, Zenon DEF takeEffect
<1> QED
  BY <1>3, <1>4

LEMMA ReturnSends ==
  ASSUME Types, ReturnOK \/ ReturnErr \/ Panic
  PROVE  \E s \in Seq(Responses) : inbox' = [inbox EXCEPT ![rcv.from] = @ \o s]
<1>1. rcv.req \in Req /\ rcv.from \in Worker
  BY ReturnRcv
<1>2. \A a \in Answers : response(a) \in Seq(Responses)
  BY <1>1 DEF response, Responses, Answers
<1>3. CASE ReturnOK
  <2>1. rcv.buf \o (IF rcv.replied THEN <<>> ELSE response("empty")) \in Seq(Responses)
    <3>1. rcv.buf \in Seq(Responses) /\ response("empty") \in Seq(Responses)
      BY <1>2 DEF Types, TypesRcv, Answers
    <3>2. (IF rcv.replied THEN <<>> ELSE response("empty")) \in Seq(Responses)
      <4>1. CASE rcv.replied
        BY <4>1, EmptySeq
      <4>2. CASE ~rcv.replied
        BY <3>1, <4>2
      <4> QED
        BY <4>1, <4>2
    <3> QED
      BY <3>1, <3>2, ConcatProperties
  <2> QED
    BY <1>3, <2>1, Zenon DEF ReturnOK, deliver
<1>4. CASE ReturnErr
  BY <1>2, <1>4, Zenon DEF ReturnErr, deliver, Answers
<1>5. CASE Panic
  <2>1. inbox' = inbox
    BY <1>5 DEF Panic
  <2>2. inbox = [inbox EXCEPT ![rcv.from] = @ \o <<>>]
    BY <1>1, ConcatEmptySeq DEF Types, TypesMsgs
  <2> QED
    BY Zenon, <2>1, <2>2, EmptySeq
<1> QED
  BY Zenon, <1>3, <1>4, <1>5
-----------------------------------------------------------------------------
(* Frames *)

LEMMA QueuedFrame ==
  ASSUME syncCh' = syncCh
  PROVE  Queued' = Queued
BY DEF Queued

LEMMA StartFrame ==
  ASSUME start' = start
  PROVE  \A w \in Worker : Starting(w)' = Starting(w) /\ ToEnque(w)' = ToEnque(w)
BY DEF Starting, ToEnque

LEMMA AppFrame ==
  ASSUME rcv' = rcv, emitted' = emitted
  PROVE  Handled' = Handled /\ OnTheWay' = OnTheWay
BY DEF Handled, OnTheWay

LEMMA LoopFrame ==
  ASSUME loop' = loop
  PROVE  \A w \in Worker : ToSend(w)' = ToSend(w)
BY DEF ToSend

\* Nothing moves from one place to another.
LEMMA PlacesFrame ==
  ASSUME Places, syncCh' = syncCh, emitted' = emitted, Handled' = Handled,
         \A r \in Req : sender'[r] = "done" <=> sender[r] = "done",
         Queued \subseteq Req, OnTheWay \subseteq Req, Handled \subseteq Req,
         \A w \in Worker : Starting(w)' = Starting(w) /\ Starting(w) \subseteq Req
  PROVE  Places' /\ Fresh' = Fresh
<1>1. Queued' = Queued /\ OnTheWay' = OnTheWay
  BY QueuedFrame DEF OnTheWay
<1>2. Places'
  BY <1>1 DEF Places
<1>3. Fresh' = Fresh
  BY <1>1 DEF Fresh
<1> QED
  BY <1>2, <1>3

LEMMA PlacesTyped ==
  ASSUME Types
  PROVE  /\ Queued \subseteq Req /\ OnTheWay \subseteq Req /\ Handled \subseteq Req
         /\ \A w \in Worker : /\ Starting(w) \subseteq Req /\ ToEnque(w) \subseteq Req
                              /\ ToSend(w) \subseteq Req /\ Taken(w) \subseteq Req
<1>1. Queued \subseteq Req
  BY DEF Types, TypesWorker, Queued
<1>2. OnTheWay \subseteq Req
  BY DEF Types, TypesMsgs, OnTheWay
<1>3. Handled \subseteq Req
  BY DEF Types, TypesRcv, Handled
<1>4. ASSUME NEW w \in Worker
      PROVE  Starting(w) \subseteq Req /\ ToEnque(w) \subseteq Req
  BY DEF Types, TypesWorker, Starting, ToEnque
<1>5. ASSUME NEW w \in Worker PROVE ToSend(w) \subseteq Req
  BY DEF Types, TypesWorker, ToSend, Responses
<1>6. ASSUME NEW w \in Worker PROVE Taken(w) \subseteq Req
  BY <1>4, <1>5 DEF Types, TypesWorker, Taken
<1> QED
  BY <1>1, <1>2, <1>3, <1>4, <1>5, <1>6

\* No worker takes or answers anything.
LEMMA UnansweredFrame ==
  ASSUME Types, Unanswered, ch' = ch, reqs' = reqs, Queued' \subseteq Queued,
         \A r \in Req : sender'[r] # "done" => sender[r] # "done",
         \A w \in Worker : ToEnque(w)' = ToEnque(w) /\ ToSend(w)' = ToSend(w)
  PROVE  Unanswered'
<1>1. \A w \in Worker : Taken(w)' = Taken(w)
  BY DEF Taken
<1> QED
  BY <1>1 DEF Unanswered

\* A worker's loop has no response to pass on any more, or not yet.
LEMMA LoopLeaves ==
  ASSUME Types, Unanswered, ch' = ch, reqs' = reqs, Queued' = Queued, sender' = sender,
         \A v \in Worker : ToEnque(v)' = ToEnque(v),
         NEW w \in Worker, loop'[w].pc # "send", \A v \in Worker : v # w => loop'[v] = loop[v]
  PROVE  Unanswered'
<1>1. ToSend(w)' = {} /\ \A v \in Worker : v # w => ToSend(v)' = ToSend(v)
  BY DEF ToSend
<1>2. \A v \in Worker : Taken(v)' \subseteq Taken(v)
  BY <1>1 DEF Taken
<1> QED
  BY <1>1, <1>2 DEF Unanswered

\* A worker answers a request that it has taken.
LEMMA AnsweredOnce ==
  ASSUME Types, Unanswered, Queued' = Queued, sender' = sender,
         NEW w \in Worker, NEW r \in Taken(w), Taken(w)' = Taken(w) \ {r},
         \A v \in Worker : v # w => Taken(v)' = Taken(v),
         \A s \in Req : s # r => ch'[s] = ch[s],
         \A v \in Worker : /\ ToEnque(v)' \subseteq ToEnque(v)
                           /\ ToSend(v)' \subseteq ToSend(v)
                           /\ reqs'[v] \subseteq reqs[v]
  PROVE  Unanswered'
<1>1. \A v \in Worker : Taken(v) \subseteq Req
  BY PlacesTyped
<1>2. sender[r] = "done" /\ r \notin Queued /\ \A v \in Worker : r \notin Taken(v)'
  BY <1>1 DEF Unanswered
<1> QED
  BY <1>1, <1>2 DEF Unanswered

LEMMA DrainingFrame ==
  ASSUME Draining, reqs' = reqs, start' = start, loop' = loop
  PROVE  Draining'
BY DEF Draining

\* What has been told stays true: the effects that are added are those of the
\* handler that returns.
Stable == \A r, a : Told(r, a) => Told(r, a)'

LEMMA ToldStable ==
  ASSUME Fresh' \subseteq Fresh, effects \subseteq effects', effects' \subseteq effects \cup Fresh
  PROVE  Stable
BY DEF Told, Stable

LEMMA ToldFrame ==
  ASSUME Stable
  PROVE  /\ CallTold /\ call' = call => CallTold'
         /\ ChTold /\ ch' = ch => ChTold'
         /\ LoopTold /\ loop' = loop => LoopTold'
         /\ InboxTold /\ inbox' = inbox => InboxTold'
<1>1. CallTold /\ call' = call => CallTold'
  BY DEF CallTold, Stable
<1>2. ChTold /\ ch' = ch => ChTold'
  BY DEF ChTold, Stable
<1>3. LoopTold /\ loop' = loop => LoopTold'
  BY DEF LoopTold, Stable
<1>4. InboxTold /\ inbox' = inbox => InboxTold'
  BY DEF InboxTold, Stable
<1> QED
  BY <1>1, <1>2, <1>3, <1>4

\* Responses are added to the inbox of one worker.
LEMMA InboxGrows ==
  ASSUME InboxTold, Stable, NEW w \in Worker, NEW s \in Seq(Responses),
         inbox[w] \in Seq(Responses), inbox'[w] = inbox[w] \o s,
         \A v \in Worker : v # w => inbox'[v] = inbox[v],
         \A i \in 1..Len(s) : \E r, a : s[i].req = r /\ s[i].ans = a /\ Told(r, a)'
  PROVE  InboxTold'
<1>1. Len(inbox'[w]) = Len(inbox[w]) + Len(s) /\ Len(s) \in Nat /\ Len(inbox[w]) \in Nat
  BY ConcatProperties
<1>2. ASSUME NEW i \in 1..Len(inbox'[w])
      PROVE  Told(inbox[w][i].req, inbox[w][i].ans)'
  <2>1. inbox'[w][i] = IF i <= Len(inbox[w]) THEN inbox[w][i] ELSE s[i - Len(inbox[w])]
    BY <1>1, ConcatProperties
  <2>2. CASE i <= Len(inbox[w])
    <3>1. i \in 1..Len(inbox[w])
      BY <1>1, <2>2
    <3> QED
      BY <2>1, <2>2, <3>1 DEF InboxTold, Stable
  <2>3. CASE ~(i <= Len(inbox[w]))
    <3>1. i - Len(inbox[w]) \in 1..Len(s)
      BY <1>1, <2>3
    <3> QED
      BY Zenon, <2>1, <2>3, <3>1
  <2> QED
    BY <2>2, <2>3
<1>3. ASSUME NEW v \in Worker, v # w, NEW i \in 1..Len(inbox'[v])
      PROVE  Told(inbox[v][i].req, inbox[v][i].ans)'
  BY <1>3 DEF InboxTold, Stable
<1> QED
  BY Zenon, <1>2, <1>3 DEF InboxTold

LEMMA OutcomeStep ==
  ASSUME Outcome, transactional' = transactional, Fresh' \subseteq Fresh,
         effects \subseteq effects', effects' \subseteq effects \cup (Fresh \ Fresh'),
         transactional /\ BufHeld => BufHeld',
         transactional /\ DeferredTold => DeferredTold',
         transactional /\ CallTold /\ ChTold /\ InboxTold /\ LoopTold /\ Stable
           => CallTold' /\ ChTold' /\ InboxTold' /\ LoopTold'
  PROVE  Outcome'
<1> SUFFICES ASSUME transactional PROVE Outcome'
  BY DEF Outcome
<1>1. Stable
  BY ToldStable
<1>2. CallTold' /\ ChTold' /\ LoopTold' /\ InboxTold'
  BY <1>1 DEF Outcome
<1>3. BufHeld' /\ DeferredTold' /\ Fresh' \cap effects' = {}
  BY DEF Outcome
<1> QED
  BY <1>2, <1>3 DEF Outcome

\* No handler returns.
LEMMA OutcomeFrame ==
  ASSUME Outcome, transactional' = transactional, Fresh' \subseteq Fresh, effects' = effects,
         rcv' = rcv, \A r \in Req : deferred'[r].left > 0 => deferred[r].left > 0,
         transactional /\ CallTold /\ ChTold /\ InboxTold /\ LoopTold /\ Stable
           => CallTold' /\ ChTold' /\ InboxTold' /\ LoopTold'
  PROVE  Outcome'
<1>1. BufHeld => BufHeld'
  BY DEF BufHeld
<1>2. DeferredTold => DeferredTold'
  BY DEF DeferredTold
<1> QED
  BY <1>1, <1>2, OutcomeStep
-----------------------------------------------------------------------------
(* hive.Sync *)

LEMMA SyncKeeps ==
  ASSUME IInv, NEW r \in Req, Sync(r)
  PROVE  IInv'
<1>1. Types /\ Places /\ Unanswered /\ Draining /\ Outcome
  BY DEF IInv
<1>2. /\ call[r] = "none" /\ call' = [call EXCEPT ![r] = "waiting"]
      /\ sender' = [sender EXCEPT ![r] = "trying"]
      /\ UNCHANGED <<ch, syncCh, reqs, start, loop, rcv, effects, deferred,
                     transactional, inbox, emitted>>
  BY DEF Sync, worker, app
<1>3. Types'
  BY SMTT(30), <1>1, <1>2 DEF Types, TypesClient, TypesWorker, TypesMsgs, TypesRcv, TypesApp
<1>4. sender[r] = "none" /\ \A s \in Req : sender'[s] = "done" <=> sender[s] = "done"
  BY <1>1, <1>2 DEF Types, TypesClient
<1>5. Places' /\ Fresh' = Fresh
  BY <1>1, <1>2, <1>4, PlacesFrame, PlacesTyped, StartFrame, AppFrame
<1>6. Unanswered'
  BY <1>1, <1>2, <1>4, UnansweredFrame, QueuedFrame, StartFrame, LoopFrame
<1>7. ASSUME CallTold, Stable PROVE CallTold'
  <2>1. \A s \in Req : call'[s] = call[s] \/ call'[s] = "waiting"
    BY <1>1, <1>2 DEF Types, TypesClient
  <2> QED
    BY <1>7, <2>1 DEF CallTold, Stable, Told
<1>8. Outcome'
  BY <1>1, <1>2, <1>5, <1>7, OutcomeFrame, ToldFrame
<1>d. Draining'
  BY <1>1, <1>2, DrainingFrame
<1> QED
  BY <1>3, <1>5, <1>6, <1>8, <1>d DEF IInv

LEMMA CancelKeeps ==
  ASSUME IInv, NEW r \in Req, Cancel(r)
  PROVE  IInv'
<1>1. Types /\ Places /\ Unanswered /\ Draining /\ Outcome
  BY DEF IInv
<1>2. /\ call[r] = "waiting" /\ call' = [call EXCEPT ![r] = "cancelled"]
      /\ UNCHANGED <<sender, ch, syncCh, reqs, start, loop, rcv, effects, deferred,
                     transactional, inbox, emitted>>
  BY DEF Cancel, worker, app
<1>3. Types'
  BY <1>1, <1>2 DEF Types, TypesClient, TypesWorker, TypesMsgs, TypesRcv, TypesApp
<1>4. Places' /\ Fresh' = Fresh
  BY <1>1, <1>2, PlacesFrame, PlacesTyped, StartFrame, AppFrame
<1>5. Unanswered'
  BY <1>1, <1>2, UnansweredFrame, QueuedFrame, StartFrame, LoopFrame
<1>6. ASSUME CallTold, Stable PROVE CallTold'
  <2>1. \A s \in Req : call'[s] = call[s] \/ call'[s] = "cancelled"
    BY <1>1, <1>2 DEF Types, TypesClient
  <2> QED
    BY <1>6, <2>1 DEF CallTold, Stable, Told
<1>7. Outcome'
  BY <1>1, <1>2, <1>4, <1>6, OutcomeFrame, ToldFrame
<1>d. Draining'
  BY <1>1, <1>2, DrainingFrame
<1> QED
  BY <1>3, <1>4, <1>5, <1>7, <1>d DEF IInv

LEMMA AnswerKeeps ==
  ASSUME IInv, NEW r \in Req, Answer(r)
  PROVE  IInv'
<1>1. Types /\ Places /\ Unanswered /\ Draining /\ Outcome
  BY DEF IInv
<1>2. /\ call[r] = "waiting" /\ ch[r] # <<>> /\ call' = [call EXCEPT ![r] = Head(ch[r])]
      /\ ch' = [ch EXCEPT ![r] = <<>>]
      /\ UNCHANGED <<sender, syncCh, reqs, start, loop, rcv, effects, deferred,
                     transactional, inbox, emitted>>
  BY DEF Answer, worker, app
<1>3. /\ ch[r] \in Seq({"stopped"} \cup Answers) /\ Head(ch[r]) = ch[r][1]
      /\ 1 \in 1..Len(ch[r]) /\ Head(ch[r]) \in {"stopped"} \cup Answers
  BY <1>1, <1>2 DEF Types, TypesClient
<1>4. Types'
  <2>1. TypesClient'
    BY <1>1, <1>2, <1>3 DEF Types, TypesClient, Answers
  <2> QED
    BY <1>1, <1>2, <2>1 DEF Types, TypesWorker, TypesMsgs, TypesRcv, TypesApp
<1>5. Places' /\ Fresh' = Fresh
  BY <1>1, <1>2, PlacesFrame, PlacesTyped, StartFrame, AppFrame
<1>6. Unanswered'
  <2>1. \A s \in Req : ch[s] = <<>> => ch'[s] = <<>>
    BY <1>1, <1>2 DEF Types, TypesClient
  <2>2. Queued' = Queued /\ \A w \in Worker : /\ ToEnque(w)' = ToEnque(w)
                                              /\ ToSend(w)' = ToSend(w)
                                              /\ Taken(w)' = Taken(w)
    BY <1>2, QueuedFrame, StartFrame, LoopFrame DEF Taken
  <2>3. \A w \in Worker : Taken(w) \subseteq Req
    BY <1>1, PlacesTyped
  <2> QED
    BY <1>1, <1>2, <2>1, <2>2, <2>3 DEF Unanswered
<1>7. ASSUME CallTold, ChTold, Stable PROVE CallTold' /\ ChTold'
  <2>1. \A s \in Req : \/ call'[s] = call[s] /\ ch'[s] = ch[s]
                       \/ s = r /\ call'[s] = ch[r][1] /\ ch'[s] = <<>>
    BY <1>1, <1>2, <1>3 DEF Types, TypesClient
  <2>2. Told(r, ch[r][1])
    BY <1>3, <1>7 DEF ChTold
  <2>3. CallTold'
    BY <1>7, <2>1, <2>2 DEF CallTold, Stable
  <2>4. ChTold'
    BY <1>7, <2>1 DEF ChTold, Stable
  <2> QED
    BY <2>3, <2>4
<1>8. Outcome'
  BY <1>1, <1>2, <1>5, <1>7, OutcomeFrame, ToldFrame
<1>d. Draining'
  BY <1>1, <1>2, DrainingFrame
<1> QED
  BY <1>4, <1>5, <1>6, <1>8, <1>d DEF IInv

LEMMA GiveUpKeeps ==
  ASSUME IInv, NEW r \in Req, GiveUp(r)
  PROVE  IInv'
<1>1. Types /\ Places /\ Unanswered /\ Draining /\ Outcome
  BY DEF IInv
<1>2. /\ sender[r] = "trying" /\ call[r] = "cancelled"
      /\ sender' = [sender EXCEPT ![r] = "done"]
      /\ UNCHANGED <<call, ch, syncCh, reqs, start, loop, rcv, effects, deferred,
                     transactional, inbox, emitted>>
  BY DEF GiveUp, worker, app
<1>3. Types'
  BY <1>1, <1>2 DEF Types, TypesClient, TypesWorker, TypesMsgs, TypesRcv, TypesApp
<1>4. \A s \in Req : sender'[s] = IF s = r THEN "done" ELSE sender[s]
  BY <1>1, <1>2 DEF Types, TypesClient
<1>5. /\ Queued' = Queued /\ OnTheWay' = OnTheWay /\ Handled' = Handled
      /\ \A w \in Worker : Starting(w)' = Starting(w) /\ ToEnque(w)' = ToEnque(w)
  BY <1>2, QueuedFrame, StartFrame, AppFrame
<1>6. Places'
  BY <1>1, <1>2, <1>4, <1>5, PlacesTyped DEF Places
<1>7. Fresh' \subseteq Fresh
  BY <1>4, <1>5 DEF Fresh
<1>8. Unanswered'
  BY <1>1, <1>2, <1>4, <1>5, UnansweredFrame, LoopFrame
<1>9. Outcome'
  BY <1>1, <1>2, <1>7, OutcomeFrame, ToldFrame
<1>d. Draining'
  BY <1>1, <1>2, DrainingFrame
<1> QED
  BY <1>3, <1>6, <1>8, <1>9, <1>d DEF IInv

LEMMA SendReqKeeps ==
  ASSUME IInv, NEW r \in Req, SendReq(r)
  PROVE  IInv'
<1>1. Types /\ Places /\ Unanswered /\ Draining /\ Outcome
  BY DEF IInv
<1>2. /\ sender[r] = "trying" /\ syncCh' = Append(syncCh, r)
      /\ sender' = [sender EXCEPT ![r] = "done"]
      /\ UNCHANGED <<call, ch, reqs, start, loop, rcv, effects, deferred,
                     transactional, inbox, emitted>>
  BY DEF SendReq, app
<1>3. Types'
  <2>1. TypesClient' /\ TypesWorker'
    BY <1>1, <1>2 DEF Types, TypesClient, TypesWorker
  <2> QED
    BY <1>1, <1>2, <2>1 DEF Types, TypesMsgs, TypesRcv, TypesApp
<1>4. \A s \in Req : sender'[s] = IF s = r THEN "done" ELSE sender[s]
  BY <1>1, <1>2 DEF Types, TypesClient
<1>5. /\ OnTheWay' = OnTheWay /\ Handled' = Handled
      /\ \A w \in Worker : /\ Starting(w)' = Starting(w) /\ ToEnque(w)' = ToEnque(w)
                           /\ ToSend(w)' = ToSend(w) /\ Taken(w)' = Taken(w)
  BY <1>2, StartFrame, AppFrame, LoopFrame DEF Taken
<1>6. /\ syncCh \in Seq(Req) /\ Len(syncCh') = Len(syncCh) + 1 /\ Len(syncCh) \in Nat
      /\ \A i \in 1..Len(syncCh) : syncCh'[i] = syncCh[i]
      /\ syncCh'[Len(syncCh) + 1] = r
  BY <1>1, <1>2 DEF Types, TypesWorker
<1>7. Queued' = Queued \cup {r}
  BY <1>6 DEF Queued
<1>8. /\ r \notin Queued /\ r \notin OnTheWay /\ r \notin Handled
      /\ \A w \in Worker : r \notin Starting(w)
  BY <1>1, <1>2 DEF Places
<1>9. Places'
  <2>1. ASSUME NEW i \in 1..Len(syncCh'), NEW j \in 1..Len(syncCh'), syncCh'[i] = syncCh'[j]
        PROVE  i = j
    <3>1. \A k \in 1..Len(syncCh) : syncCh[k] # r
      BY <1>8 DEF Queued
    <3>2. \A k \in 1..Len(syncCh') : k = Len(syncCh) + 1 \/ k \in 1..Len(syncCh)
      BY <1>6
    <3> QED
      BY <1>1, <1>6, <2>1, <3>1, <3>2 DEF Places
  <2> QED
    BY SMTT(30), <1>1, <1>2, <1>4, <1>5, <1>7, <1>8, <2>1, PlacesTyped DEF Places
<1>10. Fresh' = Fresh
  BY SMTT(30), <1>2, <1>4, <1>5, <1>7 DEF Fresh
<1>11. Unanswered'
  BY SMTT(30), <1>1, <1>2, <1>4, <1>5, <1>7, PlacesTyped DEF Unanswered
<1>12. Outcome'
  BY <1>1, <1>2, <1>10, OutcomeFrame, ToldFrame
<1>d. Draining'
  BY <1>1, <1>2, DrainingFrame
<1> QED
  BY <1>3, <1>9, <1>11, <1>12, <1>d DEF IInv
-----------------------------------------------------------------------------
(* The goroutine Start of a worker *)

LEMMA TakeReqKeeps ==
  ASSUME IInv, NEW w \in Worker, TakeReq(w)
  PROVE  IInv'
<1> DEFINE h == Head(syncCh)
<1>1. Types /\ Places /\ Unanswered /\ Draining /\ Outcome
  BY DEF IInv
<1>2. /\ start[w].pc = "select" /\ syncCh # <<>> /\ syncCh' = Tail(syncCh)
      /\ start' = [start EXCEPT ![w] = [@ EXCEPT !.pc = "enque", !.req = h]]
      /\ UNCHANGED <<call, sender, ch, reqs, loop, rcv, effects, deferred,
                     transactional, inbox, emitted>>
  BY DEF TakeReq, client, app
<1>3. /\ syncCh \in Seq(Req) /\ Len(syncCh) \in Nat \ {0} /\ h \in Req /\ h = syncCh[1]
      /\ syncCh' \in Seq(Req) /\ Len(syncCh') = Len(syncCh) - 1
      /\ \A i \in 1..Len(syncCh') : syncCh'[i] = syncCh[i + 1]
  BY <1>1, <1>2, HeadTailProperties, EmptySeq DEF Types, TypesWorker
<1> HIDE DEF h
<1>4. /\ start' \in [Worker -> [pc : {"select", "enque", "emit", "drain", "locked", "panicked"},
                                req : Req \cup {Nil}]]
      /\ start'[w].pc = "enque" /\ start'[w].req = h
      /\ \A v \in Worker : v # w => start'[v] = start[v]
  BY ZenonT(40), <1>1, <1>2, <1>3 DEF Types, TypesWorker
<1>5. Types'
  <2>1. TypesWorker'
    BY <1>1, <1>2, <1>3, <1>4 DEF Types, TypesWorker
  <2> QED
    BY <1>1, <1>2, <2>1 DEF Types, TypesClient, TypesMsgs, TypesRcv, TypesApp
<1>6. /\ Starting(w) = {} /\ ToEnque(w) = {} /\ Starting(w)' = {h} /\ ToEnque(w)' = {h}
      /\ \A v \in Worker : v # w => Starting(v)' = Starting(v) /\ ToEnque(v)' = ToEnque(v)
  BY <1>2, <1>4 DEF Starting, ToEnque
<1>7. h \in Queued /\ Queued' = Queued \ {h}
  <2>1. \A i \in 1..Len(syncCh) : syncCh[i] = h => i = 1
    BY <1>1, <1>3 DEF Places
  <2>2. \A x \in Queued' : x \in Queued /\ x # h
    BY <1>3, <2>1 DEF Queued
  <2>3. ASSUME NEW x \in Queued, x # h PROVE x \in Queued'
    <3>1. PICK i \in 1..Len(syncCh) : x = syncCh[i]
      BY DEF Queued
    <3>2. i - 1 \in 1..Len(syncCh') /\ (i - 1) + 1 = i
      BY <1>3, <2>3, <3>1
    <3> QED
      BY ZenonT(40), <1>3, <3>1, <3>2 DEF Queued
  <2>4. h \in Queued
    BY <1>3 DEF Queued
  <2> QED
    BY <2>2, <2>3, <2>4
<1>8. OnTheWay' = OnTheWay /\ Handled' = Handled
  BY <1>2, AppFrame
<1>9. Places'
  <2>1. ASSUME NEW i \in 1..Len(syncCh'), NEW j \in 1..Len(syncCh'), syncCh'[i] = syncCh'[j]
        PROVE  i = j
    <3>1. i + 1 \in 1..Len(syncCh) /\ j + 1 \in 1..Len(syncCh) /\ syncCh[i + 1] = syncCh[j + 1]
      BY <1>3, <2>1
    <3>2. i + 1 = j + 1
      BY <1>1, <3>1 DEF Places
    <3> QED
      BY <1>3, <3>2
  <2>2. sender[h] = "done" /\ h \notin OnTheWay /\ h \notin Handled
        /\ \A v \in Worker : h \notin Starting(v)
    BY <1>1, <1>7 DEF Places
  <2> QED
    BY <1>1, <1>2, <1>6, <1>7, <1>8, <2>1, <2>2 DEF Places
<1>10. Fresh' = Fresh
  BY <1>2, <1>3, <1>6, <1>7, <1>8 DEF Fresh
<1>11. Unanswered'
  <2>1. /\ ToSend(w)' = ToSend(w) /\ Taken(w)' = Taken(w) \cup {h}
        /\ \A v \in Worker : v # w => ToSend(v)' = ToSend(v) /\ Taken(v)' = Taken(v)
    BY <1>2, <1>6, LoopFrame DEF Taken
  <2>2. ch[h] = <<>> /\ \A v \in Worker : h \notin Taken(v)
    BY <1>1, <1>3, <1>7 DEF Unanswered
  <2>3. h \notin reqs[w] /\ h \notin ToSend(w)
    BY <2>2 DEF Taken
  <2>4. sender[h] = "done"
    BY <1>1, <1>7 DEF Places
  <2> QED
    BY <1>1, <1>2, <1>6, <1>7, <2>1, <2>2, <2>3, <2>4 DEF Unanswered
<1>12. Outcome'
  BY <1>1, <1>2, <1>10, OutcomeFrame, ToldFrame
<1>d. Draining'
  BY <1>1, <1>2, <1>4 DEF Draining
<1> QED
  BY <1>5, <1>9, <1>11, <1>12, <1>d DEF IInv

LEMMA EnqueKeeps ==
  ASSUME IInv, NEW w \in Worker, enque(w)
  PROVE  IInv'
<1> DEFINE h == start[w].req
<1>1. Types /\ Places /\ Unanswered /\ Draining /\ Outcome
  BY DEF IInv
<1>2. /\ start[w].pc = "enque" /\ start' = [start EXCEPT ![w].pc = "emit"]
      /\ reqs' = [reqs EXCEPT ![w] = @ \cup {h}]
      /\ UNCHANGED <<call, sender, ch, syncCh, loop, rcv, effects, deferred,
                     transactional, inbox, emitted>>
  BY DEF enque, client, app
<1>3. /\ start' \in [Worker -> [pc : {"select", "enque", "emit", "drain", "locked", "panicked"},
                                req : Req \cup {Nil}]]
      /\ start'[w].pc = "emit" /\ start'[w].req = h /\ h \in Req
      /\ \A v \in Worker : v # w => start'[v] = start[v]
  BY <1>1, <1>2 DEF Types, TypesWorker
<1>4. /\ reqs' \in [Worker -> SUBSET Req] /\ reqs'[w] = reqs[w] \cup {h}
      /\ \A v \in Worker : v # w => reqs'[v] = reqs[v]
  BY <1>1, <1>2, <1>3 DEF Types, TypesWorker
<1>5. /\ Starting(w) = {h} /\ ToEnque(w) = {h} /\ Starting(w)' = {h} /\ ToEnque(w)' = {}
      /\ \A v \in Worker : v # w => Starting(v)' = Starting(v) /\ ToEnque(v)' = ToEnque(v)
  BY <1>2, <1>3 DEF Starting, ToEnque
<1> HIDE DEF h
<1>6. Types'
  <2>1. TypesWorker'
    BY <1>1, <1>2, <1>3, <1>4 DEF Types, TypesWorker
  <2> QED
    BY <1>1, <1>2, <2>1 DEF Types, TypesClient, TypesMsgs, TypesRcv, TypesApp
<1>7. Places' /\ Fresh' = Fresh
  <2>1. \A v \in Worker : Starting(v)' = Starting(v)
    BY <1>5
  <2> QED
    BY <1>1, <1>2, <2>1, PlacesFrame, PlacesTyped, AppFrame
<1>8. Unanswered'
  <2>1. \A v \in Worker : ToSend(v)' = ToSend(v)
    BY <1>2, LoopFrame
  <2>2. \A v \in Worker : Taken(v)' = Taken(v)
    BY <1>4, <1>5, <2>1 DEF Taken
  <2>3. Queued' = Queued
    BY <1>2, QueuedFrame
  <2>4. h \notin ToSend(w)
    BY <1>1, <1>5 DEF Unanswered
  <2> QED
    BY <1>1, <1>2, <1>4, <1>5, <2>1, <2>2, <2>3, <2>4 DEF Unanswered
<1>9. Outcome'
  BY <1>1, <1>2, <1>7, OutcomeFrame, ToldFrame
<1>d. Draining'
  BY <1>1, <1>2, <1>3, <1>4 DEF Draining
<1> QED
  BY <1>6, <1>7, <1>8, <1>9, <1>d DEF IInv

LEMMA EmitReqKeeps ==
  ASSUME IInv, NEW w \in Worker, EmitReq(w)
  PROVE  IInv'
<1> DEFINE h == start[w].req
<1>1. Types /\ Places /\ Unanswered /\ Draining /\ Outcome
  BY DEF IInv
<1>2. /\ start[w].pc = "emit"
      /\ start' = [start EXCEPT ![w] = [@ EXCEPT !.pc = "select", !.req = Nil]]
      /\ emitted' = emitted \cup {[req |-> h, from |-> w]}
      /\ UNCHANGED <<call, sender, ch, syncCh, reqs, loop, rcv, effects, deferred,
                     transactional, inbox>>
  BY DEF EmitReq, client, app
<1>3. /\ start' \in [Worker -> [pc : {"select", "enque", "emit", "drain", "locked", "panicked"},
                                req : Req \cup {Nil}]]
      /\ start'[w].pc = "select" /\ h \in Req
      /\ \A v \in Worker : v # w => start'[v] = start[v]
  BY ZenonT(40), <1>1, <1>2 DEF Types, TypesWorker
<1>4. /\ Starting(w) = {h} /\ ToEnque(w) = {} /\ Starting(w)' = {} /\ ToEnque(w)' = {}
      /\ \A v \in Worker : v # w => Starting(v)' = Starting(v) /\ ToEnque(v)' = ToEnque(v)
  BY <1>2, <1>3 DEF Starting, ToEnque
<1> HIDE DEF h
<1>5. Types'
  <2>1. TypesWorker'
    BY <1>1, <1>2, <1>3 DEF Types, TypesWorker
  <2>2. TypesMsgs'
    BY <1>1, <1>2, <1>3 DEF Types, TypesMsgs
  <2> QED
    BY <1>1, <1>2, <2>1, <2>2 DEF Types, TypesClient, TypesRcv, TypesApp
<1>6. OnTheWay' = OnTheWay \cup {h} /\ Handled' = Handled /\ Queued' = Queued
  <2>1. OnTheWay' = OnTheWay \cup {h}
    <3> DEFINE e == [req |-> h, from |-> w]
    <3>1. emitted' = emitted \cup {e} /\ e.req = h
      BY <1>2
    <3> HIDE DEF e
    <3> QED
      BY <3>1 DEF OnTheWay
  <2> QED
    BY <1>2, <2>1, QueuedFrame DEF Handled
<1>7. /\ sender[h] = "done" /\ h \notin Queued /\ h \notin OnTheWay /\ h \notin Handled
      /\ \A v \in Worker : h \in Starting(v) => v = w
  BY <1>1, <1>4 DEF Places
<1>8. Places'
  <2>1. \A e, f \in emitted' : e.req = f.req => e = f
    <3>1. \A e \in emitted : e.req # h
      BY <1>7 DEF OnTheWay
    <3> QED
      BY <1>1, <1>2, <3>1 DEF Places
  <2> QED
    BY <1>1, <1>2, <1>4, <1>6, <1>7, <2>1 DEF Places
<1>9. Fresh' = Fresh
  BY <1>2, <1>4, <1>6, <1>3 DEF Fresh
<1>10. Unanswered'
  BY <1>1, <1>2, <1>4, <1>6, UnansweredFrame, LoopFrame
<1>11. Outcome'
  BY <1>1, <1>2, <1>9, OutcomeFrame, ToldFrame
<1>d. Draining'
  BY <1>1, <1>2, <1>3 DEF Draining
<1> QED
  BY <1>5, <1>8, <1>10, <1>11, <1>d DEF IInv

\* The steps of Start that only change where it is.
LEMMA StartMoves ==
  ASSUME IInv, NEW w \in Worker, NEW p \in {"drain", "locked", "select", "panicked"},
         start[w].pc \notin {"enque", "emit"}, start' = [start EXCEPT ![w].pc = p]
  PROVE  /\ start' \in [Worker -> [pc : {"select", "enque", "emit", "drain", "locked", "panicked"},
                                   req : Req \cup {Nil}]]
         /\ \A v \in Worker : start'[v].pc \in {"enque", "emit"} => start'[v].req \in Req
         /\ \A v \in Worker : Starting(v)' = Starting(v) /\ ToEnque(v)' = ToEnque(v)
         /\ start'[w].pc = p /\ \A v \in Worker : v # w => start'[v] = start[v]
<1>1. /\ start' \in [Worker -> [pc : {"select", "enque", "emit", "drain", "locked", "panicked"},
                                req : Req \cup {Nil}]]
      /\ start'[w].pc = p /\ \A v \in Worker : v # w => start'[v] = start[v]
  <2> DEFINE S == [pc : {"select", "enque", "emit", "drain", "locked", "panicked"},
                   req : Req \cup {Nil}]
  <2>1. start \in [Worker -> S]
    BY DEF IInv, Types, TypesWorker
  <2>2. [start[w] EXCEPT !.pc = p] \in S /\ [start[w] EXCEPT !.pc = p].pc = p
    BY <2>1
  <2>3. start' = [start EXCEPT ![w] = [start[w] EXCEPT !.pc = p]]
    OBVIOUS
  <2> HIDE DEF S
  <2>4. start' \in [Worker -> S] /\ start'[w].pc = p
        /\ \A v \in Worker : v # w => start'[v] = start[v]
    BY <2>1, <2>2, <2>3
  <2> QED
    BY <2>4 DEF S
<1>2. \A v \in Worker : start'[v].pc \in {"enque", "emit"} => start'[v].req \in Req
  BY <1>1 DEF IInv, Types, TypesWorker
<1>3. \A v \in Worker : Starting(v)' = Starting(v) /\ ToEnque(v)' = ToEnque(v)
  BY <1>1 DEF Starting, ToEnque
<1> QED
  BY <1>1, <1>2, <1>3

LEMMA StartMovesKeeps ==
  ASSUME IInv, NEW w \in Worker, NEW p \in {"drain", "panicked"},
         start[w].pc \notin {"enque", "emit"}, start' = [start EXCEPT ![w].pc = p],
         p = "drain" => loop[w].pc = "stop",
         UNCHANGED <<call, sender, ch, syncCh, reqs, loop, rcv, effects, deferred,
                     transactional, inbox, emitted>>
  PROVE  IInv'
<1>1. Types /\ Places /\ Unanswered /\ Draining /\ Outcome
  BY DEF IInv
<1>2. /\ start' \in [Worker -> [pc : {"select", "enque", "emit", "drain", "locked", "panicked"},
                                req : Req \cup {Nil}]]
      /\ \A v \in Worker : start'[v].pc \in {"enque", "emit"} => start'[v].req \in Req
      /\ \A v \in Worker : Starting(v)' = Starting(v) /\ ToEnque(v)' = ToEnque(v)
  BY Zenon, StartMoves
<1>3. Types'
  BY SMTT(30), <1>1, <1>2 DEF Types, TypesClient, TypesWorker, TypesMsgs, TypesRcv, TypesApp
<1>4. Places' /\ Fresh' = Fresh
  BY <1>1, <1>2, PlacesFrame, PlacesTyped, AppFrame
<1>5. Unanswered'
  BY <1>1, <1>2, UnansweredFrame, QueuedFrame, LoopFrame
<1>6. Outcome'
  BY <1>1, <1>4, OutcomeFrame, ToldFrame
<1>s. start'[w].pc = p /\ \A v \in Worker : v # w => start'[v] = start[v]
  BY Zenon, StartMoves
<1>d. Draining'
  BY <1>1, <1>s DEF Draining
<1> QED
  BY <1>3, <1>4, <1>5, <1>6, <1>d DEF IInv

LEMMA DoneKeeps ==
  ASSUME IInv, NEW w \in Worker, Done(w)
  PROVE  IInv'
<1>1. /\ start[w].pc \notin {"enque", "emit"} /\ start' = [start EXCEPT ![w].pc = "drain"]
      /\ loop[w].pc = "stop"
      /\ UNCHANGED <<call, sender, ch, syncCh, reqs, loop, rcv, effects, deferred,
                     transactional, inbox, emitted>>
  BY DEF Done, client, app
<1> QED
  BY Zenon, <1>1, StartMovesKeeps

LEMMA UnlockPanicKeeps ==
  ASSUME IInv, NEW w \in Worker, UnlockPanic(w)
  PROVE  IInv'
<1>1. /\ start[w].pc \notin {"enque", "emit"} /\ start' = [start EXCEPT ![w].pc = "panicked"]
      /\ UNCHANGED <<call, sender, ch, syncCh, reqs, loop, rcv, effects, deferred,
                     transactional, inbox, emitted>>
  BY DEF UnlockPanic, client, app
<1> QED
  BY Zenon, <1>1, StartMovesKeeps

LEMMA DrainedKeeps ==
  ASSUME IInv, NEW w \in Worker, Drained(w)
  PROVE  IInv'
<1>1. Types /\ Places /\ Unanswered /\ Draining /\ Outcome
  BY DEF IInv
<1>2. /\ start[w].pc = "locked" /\ start' = [start EXCEPT ![w].pc = "select"]
      /\ loop' = [loop EXCEPT ![w].pc = "stopped"]
      /\ UNCHANGED <<call, sender, ch, syncCh, reqs, rcv, effects, deferred,
                     transactional, inbox, emitted>>
  BY DEF Drained, client, app
<1>3. /\ start' \in [Worker -> [pc : {"select", "enque", "emit", "drain", "locked", "panicked"},
                                req : Req \cup {Nil}]]
      /\ \A v \in Worker : start'[v].pc \in {"enque", "emit"} => start'[v].req \in Req
      /\ \A v \in Worker : Starting(v)' = Starting(v) /\ ToEnque(v)' = ToEnque(v)
  BY Zenon, <1>2, StartMoves
<1>4. /\ loop' \in [Worker -> [pc : {"loop", "delete", "send", "stop", "stopped"},
                               res : Responses \cup {Nil}]]
      /\ loop'[w].pc = "stopped" /\ \A v \in Worker : v # w => loop'[v] = loop[v]
  BY <1>1, <1>2 DEF Types, TypesWorker
<1>5. Types'
  <2>1. TypesWorker'
    BY <1>1, <1>2, <1>3, <1>4 DEF Types, TypesWorker
  <2> QED
    BY <1>1, <1>2, <2>1 DEF Types, TypesClient, TypesMsgs, TypesRcv, TypesApp
<1>6. Places' /\ Fresh' = Fresh
  BY <1>1, <1>2, <1>3, PlacesFrame, PlacesTyped, AppFrame
<1>7. Unanswered'
  BY SMTT(30), <1>1, <1>2, <1>3, <1>4, LoopLeaves, QueuedFrame
<1>8. ASSUME LoopTold, Stable PROVE LoopTold'
  BY <1>4, <1>8 DEF LoopTold, Stable
<1>9. Outcome'
  BY SMTT(30), <1>1, <1>2, <1>6, <1>8, OutcomeFrame, ToldFrame
<1>s. start'[w].pc = "select" /\ \A v \in Worker : v # w => start'[v] = start[v]
  BY Zenon, <1>2, StartMoves
<1>d. Draining'
  BY <1>1, <1>2, <1>s, <1>4 DEF Draining
<1> QED
  BY <1>5, <1>6, <1>7, <1>9, <1>d DEF IInv

LEMMA DrainKeeps ==
  ASSUME IInv, NEW w \in Worker, NEW r \in Req, drain(w, r)
  PROVE  IInv'
<1>1. Types /\ Places /\ Unanswered /\ Draining /\ Outcome
  BY DEF IInv
<1>2. /\ start[w].pc = "drain" /\ start' = [start EXCEPT ![w].pc = "locked"]
      /\ r \in reqs[w] /\ ch' = [ch EXCEPT ![r] = <<"stopped">>]
      /\ reqs' = [reqs EXCEPT ![w] = @ \ {r}]
      /\ UNCHANGED <<call, sender, syncCh, loop, rcv, effects, deferred,
                     transactional, inbox, emitted>>
  BY DEF drain, app
<1>3. /\ start' \in [Worker -> [pc : {"select", "enque", "emit", "drain", "locked", "panicked"},
                                req : Req \cup {Nil}]]
      /\ \A v \in Worker : start'[v].pc \in {"enque", "emit"} => start'[v].req \in Req
      /\ \A v \in Worker : Starting(v)' = Starting(v) /\ ToEnque(v)' = ToEnque(v)
  BY Zenon, <1>2, StartMoves
<1>4. /\ reqs' \in [Worker -> SUBSET Req] /\ reqs'[w] = reqs[w] \ {r}
      /\ \A v \in Worker : v # w => reqs'[v] = reqs[v]
  BY <1>1, <1>2 DEF Types, TypesWorker
<1>5. /\ ch' \in [Req -> Seq({"stopped"} \cup Answers)] /\ ch'[r] = <<"stopped">>
      /\ \A s \in Req : s # r => ch'[s] = ch[s]
  BY <1>1, <1>2 DEF Types, TypesClient
<1>6. Types'
  <2>1. TypesWorker'
    BY <1>1, <1>2, <1>3, <1>4 DEF Types, TypesWorker
  <2>2. TypesClient'
    BY <1>1, <1>2, <1>5 DEF Types, TypesClient
  <2> QED
    BY <1>1, <1>2, <2>1, <2>2 DEF Types, TypesMsgs, TypesRcv, TypesApp
<1>7. Places' /\ Fresh' = Fresh
  BY <1>1, <1>2, <1>3, PlacesFrame, PlacesTyped, AppFrame
<1>8. Unanswered'
  <2>1. \A v \in Worker : ToSend(v)' = ToSend(v)
    BY <1>2, LoopFrame
  <2>2. r \notin ToEnque(w) /\ r \notin ToSend(w) /\ r \in Taken(w)
    BY SMTT(30), <1>1, <1>2 DEF Unanswered, Taken
  <2>3. Taken(w)' = Taken(w) \ {r} /\ \A v \in Worker : v # w => Taken(v)' = Taken(v)
    BY SMTT(30), <1>3, <1>4, <2>1, <2>2 DEF Taken
  <2> QED
    BY <1>1, <2>1, <2>2, <2>3, <1>2, <1>3, <1>4, <1>5, AnsweredOnce, QueuedFrame
<1>9. ASSUME ChTold, Stable PROVE ChTold'
  <2>1. \A i \in 1..Len(ch'[r]) : ch'[r][i] = "stopped"
    BY <1>5
  <2>2. \A s : Told(s, "stopped")'
    BY DEF Told
  <2> QED
    BY <1>5, <1>9, <2>1, <2>2 DEF ChTold, Stable
<1>10. Outcome'
  BY SMTT(30), <1>1, <1>2, <1>7, <1>9, OutcomeFrame, ToldFrame
<1>s. start'[w].pc = "locked" /\ \A v \in Worker : v # w => start'[v] = start[v]
  BY Zenon, <1>2, StartMoves
<1>d. Draining'
  <2>1. loop[w].pc = "stop"
    BY <1>1, <1>2 DEF Draining
  <2> QED
    BY <1>1, <1>2, <1>s, <1>4, <2>1 DEF Draining
<1> QED
  BY <1>6, <1>7, <1>8, <1>10, <1>d DEF IInv
-----------------------------------------------------------------------------
(* The loop of a worker's bee *)

LEMMA StopKeeps ==
  ASSUME IInv, NEW w \in Worker, Stop(w)
  PROVE  IInv'
<1>1. Types /\ Places /\ Unanswered /\ Draining /\ Outcome
  BY DEF IInv
<1>2. /\ loop' = [loop EXCEPT ![w].pc = "stop"]
      /\ UNCHANGED <<call, sender, ch, syncCh, reqs, start, rcv, effects, deferred,
                     transactional, inbox, emitted>>
  BY DEF Stop, client, app
<1>3. /\ loop' \in [Worker -> [pc : {"loop", "delete", "send", "stop", "stopped"},
                               res : Responses \cup {Nil}]]
      /\ loop'[w].pc = "stop" /\ \A v \in Worker : v # w => loop'[v] = loop[v]
  BY SMTT(30), <1>1, <1>2 DEF Types, TypesWorker
<1>4. Types'
  <2>1. TypesWorker'
    BY <1>1, <1>2, <1>3 DEF Types, TypesWorker
  <2> QED
    BY <1>1, <1>2, <2>1 DEF Types, TypesClient, TypesMsgs, TypesRcv, TypesApp
<1>5. Places' /\ Fresh' = Fresh
  BY <1>1, <1>2, PlacesFrame, PlacesTyped, StartFrame, AppFrame
<1>6. Unanswered'
  BY <1>1, <1>2, <1>3, LoopLeaves, QueuedFrame, StartFrame
<1>7. ASSUME LoopTold, Stable PROVE LoopTold'
  BY <1>3, <1>7 DEF LoopTold, Stable
<1>8. Outcome'
  BY <1>1, <1>2, <1>5, <1>7, OutcomeFrame, ToldFrame
<1>d. Draining'
  <2>1. \A v \in Worker : start[v].pc \in {"drain", "locked"} => loop'[v].pc = "stop"
    BY SMTT(30), <1>1, <1>3 DEF Draining
  <2> QED
    BY <1>1, <1>2, <1>3, <2>1 DEF Draining
<1> QED
  BY <1>4, <1>5, <1>6, <1>8, <1>d DEF IInv

LEMMA RcvKeeps ==
  ASSUME IInv, NEW w \in Worker, Rcv(w)
  PROVE  IInv'
<1> DEFINE res == Head(inbox[w])
<1>1. Types /\ Places /\ Unanswered /\ Draining /\ Outcome
  BY DEF IInv
<1>2. /\ loop[w].pc = "loop" /\ inbox[w] # <<>>
      /\ inbox' = [inbox EXCEPT ![w] = Tail(@)]
      /\ loop' = IF res.req \in reqs[w]
                 THEN [loop EXCEPT ![w] = [pc |-> "delete", res |-> res]]
                 ELSE loop
      /\ UNCHANGED <<call, sender, ch, syncCh, reqs, start, rcv, effects, deferred,
                     transactional, emitted>>
  BY DEF Rcv, client, app
<1>3. /\ inbox[w] \in Seq(Responses) /\ res \in Responses /\ res = inbox[w][1]
      /\ 1 \in 1..Len(inbox[w])
  BY <1>1, <1>2 DEF Types, TypesMsgs
<1>4. /\ inbox' \in [Worker -> Seq(Responses)] /\ inbox'[w] = Tail(inbox[w])
      /\ \A v \in Worker : v # w => inbox'[v] = inbox[v]
  BY <1>1, <1>2, <1>3 DEF Types, TypesMsgs
<1> HIDE DEF res
<1>5. /\ loop' \in [Worker -> [pc : {"loop", "delete", "send", "stop", "stopped"},
                               res : Responses \cup {Nil}]]
      /\ \A v \in Worker : v # w => loop'[v] = loop[v]
      /\ \/ loop'[w] = loop[w]
         \/ loop'[w].pc = "delete" /\ loop'[w].res = res /\ res.req \in reqs[w]
  <2>1. loop \in [Worker -> [pc : {"loop", "delete", "send", "stop", "stopped"},
                             res : Responses \cup {Nil}]]
    BY <1>1 DEF Types, TypesWorker
  <2>2. CASE res.req \in reqs[w]
    <3>1. loop' = [loop EXCEPT ![w] = [pc |-> "delete", res |-> res]]
      BY <1>2, <2>2
    <3> QED
      BY <1>3, <2>1, <2>2, <3>1
  <2>3. CASE res.req \notin reqs[w]
    BY SMTT(30), <1>2, <2>1, <2>3
  <2> QED
    BY <2>2, <2>3
<1>6. Types'
  <2>1. TypesWorker'
    <3>1. \A v \in Worker : loop'[v].pc \in {"delete", "send"} => loop'[v].res \in Responses
      BY SMTT(30), <1>1, <1>3, <1>5 DEF Types, TypesWorker
    <3> QED
      BY <1>1, <1>2, <1>5, <3>1 DEF Types, TypesWorker
  <2>2. TypesMsgs'
    BY SMTT(30), <1>1, <1>2, <1>4 DEF Types, TypesMsgs
  <2> QED
    BY SMTT(30), <1>1, <1>2, <2>1, <2>2 DEF Types, TypesClient, TypesRcv, TypesApp
<1>7. Places' /\ Fresh' = Fresh
  BY SMTT(30), <1>1, <1>2, PlacesFrame, PlacesTyped, StartFrame, AppFrame
<1>8. Unanswered'
  <2>1. loop'[w].pc # "send"
    BY <1>2, <1>5
  <2> QED
    BY SMTT(30), <1>1, <1>2, <1>5, <2>1, LoopLeaves, QueuedFrame, StartFrame
<1>9. ASSUME InboxTold, LoopTold, Stable PROVE InboxTold' /\ LoopTold'
  <2>1. Told(res.req, res.ans)
    BY <1>3, <1>9 DEF InboxTold
  <2>2. LoopTold'
    BY SMTT(30), <1>5, <1>9, <2>1 DEF LoopTold, Stable
  <2>3. \A i \in 1..Len(inbox'[w]) : i + 1 \in 1..Len(inbox[w]) /\ inbox'[w][i] = inbox[w][i + 1]
    BY SMTT(30), <1>2, <1>3, <1>4, HeadTailProperties
  <2>4. InboxTold'
    BY ZenonT(40), <1>4, <1>9, <2>3 DEF InboxTold, Stable
  <2> QED
    BY <2>2, <2>4
<1>10. Outcome'
  BY <1>1, <1>2, <1>7, <1>9, OutcomeFrame, ToldFrame
<1>d. Draining'
  BY <1>1, <1>2, <1>5 DEF Draining
<1> QED
  BY <1>6, <1>7, <1>8, <1>10, <1>d DEF IInv

LEMMA DequeKeeps ==
  ASSUME IInv, NEW w \in Worker, deque(w)
  PROVE  IInv'
<1> DEFINE r == loop[w].res.req
<1>1. Types /\ Places /\ Unanswered /\ Draining /\ Outcome
  BY DEF IInv
<1>2. /\ loop[w].pc = "delete" /\ loop' = [loop EXCEPT ![w].pc = "send"]
      /\ reqs' = [reqs EXCEPT ![w] = @ \ {r}]
      /\ UNCHANGED <<call, sender, ch, syncCh, start, rcv, effects, deferred,
                     transactional, inbox, emitted>>
  BY DEF deque, client, app
<1>3. /\ loop' \in [Worker -> [pc : {"loop", "delete", "send", "stop", "stopped"},
                               res : Responses \cup {Nil}]]
      /\ loop'[w].pc = "send" /\ loop'[w].res = loop[w].res
      /\ \A v \in Worker : v # w => loop'[v] = loop[v]
  BY <1>1, <1>2 DEF Types, TypesWorker
<1>4. /\ reqs' \in [Worker -> SUBSET Req] /\ reqs'[w] = reqs[w] \ {r}
      /\ \A v \in Worker : v # w => reqs'[v] = reqs[v]
  BY <1>1, <1>2 DEF Types, TypesWorker
<1>5. Types'
  <2>1. TypesWorker'
    BY <1>1, <1>2, <1>3, <1>4 DEF Types, TypesWorker
  <2> QED
    BY <1>1, <1>2, <2>1 DEF Types, TypesClient, TypesMsgs, TypesRcv, TypesApp
<1>6. Places' /\ Fresh' = Fresh
  BY <1>1, <1>2, PlacesFrame, PlacesTyped, StartFrame, AppFrame
<1>7. /\ ToSend(w) = {} /\ ToSend(w)' = {r}
      /\ \A v \in Worker : v # w => ToSend(v)' = ToSend(v)
  BY <1>2, <1>3 DEF ToSend
<1> HIDE DEF r
<1>8. Unanswered'
  <2>1. r \in reqs[w]
    BY <1>1, <1>2 DEF Draining, r
  <2>2. Queued' = Queued /\ \A v \in Worker : ToEnque(v)' = ToEnque(v)
    BY <1>2, QueuedFrame, StartFrame
  <2>3. \A v \in Worker : Taken(v)' = Taken(v)
    BY SMTT(30), <1>4, <1>7, <2>1, <2>2 DEF Taken
  <2>4. r \notin ToEnque(w)
    BY <1>1, <2>1 DEF Unanswered
  <2> QED
    BY <1>1, <1>2, <1>4, <1>7, <2>1, <2>2, <2>3, <2>4 DEF Unanswered
<1>9. ASSUME LoopTold, Stable PROVE LoopTold'
  BY <1>2, <1>3, <1>9 DEF LoopTold, Stable
<1>10. Outcome'
  BY <1>1, <1>2, <1>6, <1>9, OutcomeFrame, ToldFrame
<1>d. Draining'
  BY SMTT(30), <1>1, <1>2, <1>3, <1>4 DEF Draining
<1> QED
  BY <1>5, <1>6, <1>8, <1>10, <1>d DEF IInv

LEMMA PassOnKeeps ==
  ASSUME IInv, NEW w \in Worker, PassOn(w)
  PROVE  IInv'
<1> DEFINE r == loop[w].res.req
           a == loop[w].res.ans
<1>1. Types /\ Places /\ Unanswered /\ Draining /\ Outcome
  BY DEF IInv
<1>2. /\ loop[w].pc = "send" /\ ch' = [ch EXCEPT ![r] = <<a>>]
      /\ loop' = [loop EXCEPT ![w] = [pc |-> "loop", res |-> Nil]]
      /\ UNCHANGED <<call, sender, syncCh, reqs, start, rcv, effects, deferred,
                     transactional, inbox, emitted>>
  BY DEF PassOn, app
<1>3. /\ loop' \in [Worker -> [pc : {"loop", "delete", "send", "stop", "stopped"},
                               res : Responses \cup {Nil}]]
      /\ loop'[w].pc = "loop" /\ \A v \in Worker : v # w => loop'[v] = loop[v]
  BY SMTT(30), <1>1, <1>2 DEF Types, TypesWorker
<1>4. r \in Req /\ a \in Answers
  BY <1>1, <1>2 DEF Types, TypesWorker, Responses, Answers
<1>5. /\ ToSend(w) = {r} /\ ToSend(w)' = {}
      /\ \A v \in Worker : v # w => ToSend(v)' = ToSend(v)
  BY <1>2, <1>3 DEF ToSend
<1>6. ASSUME LoopTold PROVE Told(r, a)
  BY <1>2, <1>6 DEF LoopTold
<1> HIDE DEF r, a
<1>7. /\ ch' \in [Req -> Seq({"stopped"} \cup Answers)] /\ ch'[r] = <<a>>
      /\ \A s \in Req : s # r => ch'[s] = ch[s]
  BY SMTT(30), <1>1, <1>2, <1>4 DEF Types, TypesClient
<1>8. Types'
  <2>1. TypesWorker'
    BY <1>1, <1>2, <1>3 DEF Types, TypesWorker
  <2>2. TypesClient'
    BY <1>1, <1>2, <1>7 DEF Types, TypesClient
  <2> QED
    BY SMTT(30), <1>1, <1>2, <2>1, <2>2 DEF Types, TypesMsgs, TypesRcv, TypesApp
<1>9. Places' /\ Fresh' = Fresh
  BY SMTT(30), <1>1, <1>2, PlacesFrame, PlacesTyped, StartFrame, AppFrame
<1>10. Unanswered'
  <2>1. Queued' = Queued /\ \A v \in Worker : ToEnque(v)' = ToEnque(v)
    BY SMTT(30), <1>2, QueuedFrame, StartFrame
  <2>2. r \notin ToEnque(w) /\ r \notin reqs[w] /\ r \in Taken(w)
    BY SMTT(30), <1>1, <1>5 DEF Unanswered, Taken
  <2>3. Taken(w)' = Taken(w) \ {r} /\ \A v \in Worker : v # w => Taken(v)' = Taken(v)
    BY SMTT(30), <1>2, <1>5, <2>1, <2>2 DEF Taken
  <2>4. \A v \in Worker : /\ ToEnque(v)' \subseteq ToEnque(v)
                          /\ ToSend(v)' \subseteq ToSend(v)
                          /\ reqs'[v] \subseteq reqs[v]
    BY SMTT(30), <1>2, <1>5, <2>1
  <2> QED
    BY SMTT(30), <1>1, <1>2, <1>7, <2>1, <2>2, <2>3, <2>4, AnsweredOnce
<1>11. ASSUME ChTold, LoopTold, Stable PROVE ChTold' /\ LoopTold'
  <2>1. ChTold'
    <3>1. \A i \in 1..Len(ch'[r]) : ch'[r][i] = a
      BY <1>7
    <3> QED
      BY <1>6, <1>7, <1>11, <3>1 DEF ChTold, Stable
  <2>2. LoopTold'
    BY SMTT(30), <1>3, <1>11 DEF LoopTold, Stable
  <2> QED
    BY <2>1, <2>2
<1>12. Outcome'
  BY SMTT(30), <1>1, <1>2, <1>9, <1>11, OutcomeFrame, ToldFrame
<1>d. Draining'
  BY <1>1, <1>2, <1>3 DEF Draining
<1> QED
  BY <1>8, <1>9, <1>10, <1>12, <1>d DEF IInv
-----------------------------------------------------------------------------
(* syncHandler.Rcv *)

LEMMA HandleKeeps ==
  ASSUME IInv, NEW e \in emitted, Handle(e)
  PROVE  IInv'
<1>1. Types /\ Places /\ Unanswered /\ Draining /\ Outcome
  BY DEF IInv
<1>2. /\ rcv.req = Nil /\ emitted' = emitted \ {e}
      /\ UNCHANGED <<call, sender, ch, syncCh, reqs, start, loop, effects, deferred,
                     transactional, inbox>>
  BY DEF Handle, client, worker
<1>3. rcv'.req = e.req /\ rcv'.from = e.from /\ rcv'.buf = <<>> /\ IsRcv(rcv')
  BY HandleRcv
<1>4. e.req \in Req /\ e.from \in Worker
  BY SMTT(30), <1>1 DEF Types, TypesMsgs
<1>5. Types'
  <2>1. TypesMsgs'
    BY SMTT(30), <1>1, <1>2 DEF Types, TypesMsgs
  <2>2. TypesRcv'
    BY SMTT(30), <1>3, <1>4, EmptySeq DEF TypesRcv
  <2> QED
    BY <1>1, <1>2, <2>1, <2>2 DEF Types, TypesClient, TypesWorker, TypesApp
<1>6. OnTheWay' = OnTheWay \ {e.req} /\ e.req \in OnTheWay
  BY SMTT(30), <1>1, <1>2 DEF OnTheWay, Places
<1>7. Handled = {} /\ Handled' = {e.req}
  BY <1>2, <1>3, <1>4, SyncAssumption DEF Handled
<1>8. /\ Queued' = Queued
      /\ \A w \in Worker : /\ Starting(w)' = Starting(w) /\ ToEnque(w)' = ToEnque(w)
                           /\ ToSend(w)' = ToSend(w)
  BY SMTT(30), <1>2, QueuedFrame, StartFrame, LoopFrame
<1>9. Places'
  BY SMTT(30), <1>1, <1>2, <1>6, <1>7, <1>8 DEF Places
<1>10. Fresh' = Fresh
  BY <1>2, <1>6, <1>7, <1>8 DEF Fresh
<1>11. Unanswered'
  BY <1>1, <1>2, <1>8, UnansweredFrame
<1>12. Outcome'
  <2>1. BufHeld'
    BY <1>3 DEF BufHeld
  <2>2. DeferredTold => DeferredTold'
    BY <1>2 DEF DeferredTold
  <2> QED
    BY SMTT(30), <1>1, <1>2, <1>10, <2>1, <2>2, OutcomeStep, ToldFrame
<1>13. Draining'
  BY <1>1, <1>2, DrainingFrame
<1> QED
  BY <1>5, <1>9, <1>11, <1>12, <1>13 DEF IInv

\* The handler goes on.
LEMMA RcvGoesOn ==
  ASSUME IInv, rcv'.req = rcv.req, rcv'.from = rcv.from, IsRcv(rcv'),
         rcv'.buf \in Seq(Responses), inbox' \in [Worker -> Seq(Responses)],
         transactional => BufHeld' /\ inbox' = inbox,
         UNCHANGED <<call, sender, ch, syncCh, reqs, start, loop, effects, deferred,
                     transactional, emitted>>
  PROVE  IInv'
<1>1. Types /\ Places /\ Unanswered /\ Draining /\ Outcome
  BY SMTT(30) DEF IInv
<1>2. Types'
  <2>1. TypesRcv'
    BY SMTT(30), <1>1 DEF Types, TypesRcv
  <2> QED
    BY <1>1, <2>1 DEF Types, TypesClient, TypesWorker, TypesMsgs, TypesApp
<1>3. Handled' = Handled
  BY ZenonT(40) DEF Handled
<1>4. Places' /\ Fresh' = Fresh
  BY SMTT(30), <1>1, <1>3, PlacesFrame, PlacesTyped, StartFrame
<1>5. Unanswered'
  BY SMTT(30), <1>1, UnansweredFrame, QueuedFrame, StartFrame, LoopFrame
<1>6. Outcome'
  <2>1. DeferredTold => DeferredTold'
    BY DEF DeferredTold
  <2> QED
    BY <1>1, <1>4, <2>1, OutcomeStep, ToldFrame
<1>7. Draining'
  BY <1>1, DrainingFrame
<1> QED
  BY <1>2, <1>4, <1>5, <1>6, <1>7 DEF IInv

LEMMA DeferReplyKeeps ==
  ASSUME IInv, DeferReply
  PROVE  IInv'
<1>1. rcv'.req = rcv.req /\ rcv'.from = rcv.from /\ rcv'.buf = rcv.buf /\ IsRcv(rcv')
  BY DeferReplyRcv DEF IInv, Types, TypesRcv
<1>2. UNCHANGED <<call, sender, ch, syncCh, reqs, start, loop, effects, deferred,
                  transactional, inbox, emitted>>
  BY DEF DeferReply, client, worker
<1>3. rcv'.buf \in Seq(Responses) /\ inbox' \in [Worker -> Seq(Responses)]
  BY SMTT(30), <1>1, <1>2 DEF IInv, Types, TypesRcv, TypesMsgs
<1>4. transactional => BufHeld' /\ inbox' = inbox
  BY <1>1, <1>2 DEF IInv, Outcome, BufHeld
<1> QED
  BY <1>1, <1>2, <1>3, <1>4, RcvGoesOn

LEMMA ReplyKeeps ==
  ASSUME IInv, Reply
  PROVE  IInv'
<1>1. /\ rcv'.req = rcv.req /\ rcv'.from = rcv.from /\ IsRcv(rcv')
      /\ \/ transactional /\ rcv'.buf = rcv.buf \o response("data") /\ inbox' = inbox
         \/ /\ ~transactional /\ rcv'.buf = rcv.buf
            /\ inbox' = [inbox EXCEPT ![rcv.from] = @ \o response("data")]
  BY ReplyRcv DEF IInv, Types, TypesRcv
<1>2. UNCHANGED <<call, sender, ch, syncCh, reqs, start, loop, effects, deferred,
                  transactional, emitted>>
  BY DEF Reply, client, worker
<1>3. /\ rcv.req \in Req /\ rcv.from \in Worker /\ rcv.buf \in Seq(Responses)
      /\ inbox \in [Worker -> Seq(Responses)]
  BY DEF IInv, Types, TypesRcv, TypesMsgs, Reply
<1>4. response("data") \in Seq(Responses) /\ Len(response("data")) = 1
      /\ response("data")[1].req = rcv.req /\ response("data")[1].ans = "data"
  BY SMTT(30), <1>3 DEF response, Responses
<1>5. CASE transactional
  <2>1. rcv'.buf = rcv.buf \o response("data") /\ inbox' = inbox
    BY <1>1, <1>5
  <2>2. /\ rcv'.buf \in Seq(Responses) /\ Len(rcv'.buf) = Len(rcv.buf) + 1
        /\ \A i \in 1..Len(rcv'.buf) : rcv'.buf[i] = IF i <= Len(rcv.buf) THEN rcv.buf[i]
                                                     ELSE response("data")[i - Len(rcv.buf)]
    BY SMTT(30), <1>3, <1>4, <2>1, ConcatProperties
  <2>3. BufHeld
    BY <1>5 DEF IInv, Outcome
  <2>4. ASSUME NEW i \in 1..Len(rcv'.buf)
        PROVE  rcv'.buf[i].req = rcv'.req /\ rcv'.buf[i].ans = "data"
    <3>1. CASE i <= Len(rcv.buf)
      <4>1. i \in 1..Len(rcv.buf) /\ rcv'.buf[i] = rcv.buf[i]
        BY SMTT(30), <1>3, <2>2, <3>1
      <4> QED
        BY SMTT(30), <1>1, <2>3, <4>1 DEF BufHeld
    <3>2. CASE ~(i <= Len(rcv.buf))
      <4>1. i - Len(rcv.buf) = 1
        BY <1>3, <2>2, <3>2
      <4> QED
        BY <1>1, <1>4, <2>2, <3>2, <4>1
    <3> QED
      BY SMTT(30), <3>1, <3>2
  <2>5. BufHeld'
    BY SMTT(30), <2>4 DEF BufHeld
  <2> QED
    BY SMTT(30), <1>1, <1>2, <1>3, <2>1, <2>2, <2>5, RcvGoesOn
<1>6. CASE ~transactional
  <2>1. /\ rcv'.buf = rcv.buf
        /\ inbox' = [inbox EXCEPT ![rcv.from] = @ \o response("data")]
    BY <1>1, <1>6
  <2>2. inbox' \in [Worker -> Seq(Responses)]
    <3>1. inbox[rcv.from] \o response("data") \in Seq(Responses)
      BY SMTT(30), <1>3, <1>4, ConcatProperties
    <3> QED
      BY <1>3, <2>1, <3>1
  <2> QED
    BY SMTT(30), <1>1, <1>2, <1>3, <1>6, <2>1, <2>2, RcvGoesOn
<1> QED
  BY SMTT(30), <1>5, <1>6

LEMMA ReplyDeferredKeeps ==
  ASSUME IInv, NEW r \in Req, ReplyDeferred(r)
  PROVE  IInv'
<1> DEFINE w == deferred[r].from
           s == <<[req |-> r, ans |-> "data"]>>
<1>1. Types /\ Places /\ Unanswered /\ Draining /\ Outcome
  BY DEF IInv
<1>2. /\ deferred[r].left > 0 /\ deferred' = [deferred EXCEPT ![r].left = @ - 1]
      /\ inbox' = [inbox EXCEPT ![w] = @ \o s]
      /\ UNCHANGED <<call, sender, ch, syncCh, reqs, start, loop, effects, rcv,
                     transactional, emitted>>
  BY DEF ReplyDeferred, client, worker, deliver
<1>3. w \in Worker
  BY <1>1, <1>2 DEF Types, TypesApp
<1>4. /\ deferred' \in [Req -> [from : Worker \cup {Nil}, left : Nat]]
      /\ \A q \in Req : /\ deferred'[q].left > 0 => deferred[q].left > 0
                        /\ deferred'[q].from = deferred[q].from
  BY <1>1, <1>2 DEF Types, TypesApp
<1>5. s \in Seq(Responses) /\ Len(s) = 1 /\ s[1].req = r /\ s[1].ans = "data"
  BY DEF Responses
<1> HIDE DEF w, s
<1>6. /\ inbox' \in [Worker -> Seq(Responses)] /\ inbox'[w] = inbox[w] \o s
      /\ \A v \in Worker : v # w => inbox'[v] = inbox[v]
      /\ inbox[w] \in Seq(Responses)
  <2>1. inbox \in [Worker -> Seq(Responses)]
    BY <1>1 DEF Types, TypesMsgs
  <2>2. inbox[w] \o s \in Seq(Responses)
    BY <1>3, <1>5, <2>1, ConcatProperties
  <2> QED
    BY <1>2, <1>3, <2>1, <2>2
<1>7. Types'
  <2>1. TypesApp'
    BY <1>1, <1>2, <1>4 DEF Types, TypesApp
  <2>2. TypesMsgs'
    BY <1>1, <1>2, <1>6 DEF Types, TypesMsgs
  <2> QED
    BY <1>1, <1>2, <2>1, <2>2 DEF Types, TypesClient, TypesWorker, TypesRcv
<1>8. Places' /\ Fresh' = Fresh
  BY <1>1, <1>2, PlacesFrame, PlacesTyped, StartFrame, AppFrame
<1>9. Unanswered'
  BY SMTT(30), <1>1, <1>2, UnansweredFrame, QueuedFrame, StartFrame, LoopFrame
<1>10. ASSUME transactional, InboxTold, Stable PROVE InboxTold'
  <2>1. r \in effects
    BY <1>1, <1>2, <1>10 DEF Outcome, DeferredTold
  <2>2. Told(r, "data")'
    BY <1>2, <2>1 DEF Told
  <2>3. \A i \in 1..Len(s) : \E q, a : s[i].req = q /\ s[i].ans = a /\ Told(q, a)'
    <3>1. \A i \in 1..Len(s) : s[i].req = r /\ s[i].ans = "data"
      BY <1>5
    <3> QED
      BY <2>2, <3>1
  <2> QED
    BY Zenon, <1>3, <1>5, <1>6, <1>10, <2>3, InboxGrows
<1>11. Outcome'
  BY <1>1, <1>2, <1>4, <1>8, <1>10, OutcomeFrame, ToldFrame
<1>12. Draining'
  BY SMTT(30), <1>1, <1>2, DrainingFrame
<1> QED
  BY <1>7, <1>8, <1>9, <1>11, <1>12 DEF IInv

\* What the handler's return sends when its application is transactional.
LEMMA ReturnTells ==
  ASSUME IInv, transactional, ReturnOK \/ ReturnErr \/ Panic,
         Fresh' \subseteq Fresh, rcv.req \notin Fresh'
  PROVE  \E s \in Seq(Responses) :
           /\ inbox' = [inbox EXCEPT ![rcv.from] = @ \o s]
           /\ \A i \in 1..Len(s) : \E r, a : s[i].req = r /\ s[i].ans = a /\ Told(r, a)'
<1>1. Types /\ Outcome /\ rcv.req \in Req /\ rcv.from \in Worker
  BY ReturnRcv DEF IInv
<1>2. /\ rcv.buf \in Seq(Responses) /\ inbox \in [Worker -> Seq(Responses)]
      /\ BufHeld /\ Fresh \cap effects = {} /\ rcv.req \in Fresh
  <2>1. rcv.req \in Handled
    BY <1>1, SyncAssumption DEF Handled
  <2> QED
    BY <1>1, <2>1 DEF Types, TypesRcv, TypesMsgs, Outcome, Fresh
<1>3. ASSUME NEW a \in Answers
      PROVE  /\ response(a) \in Seq(Responses) /\ Len(response(a)) = 1
             /\ response(a)[1].req = rcv.req /\ response(a)[1].ans = a
  BY SMTT(30), <1>1 DEF response, Responses, Answers
<1>4. CASE ReturnOK
  <2> DEFINE x == IF rcv.replied THEN <<>> ELSE response("empty")
             s == rcv.buf \o x
  <2>1. inbox' = [inbox EXCEPT ![rcv.from] = @ \o s] /\ effects' = effects \cup {rcv.req}
    BY <1>4, Zenon DEF ReturnOK, deliver, takeEffect
  <2>2. /\ x \in Seq(Responses)
        /\ \A i \in 1..Len(x) : x[i].req = rcv.req /\ x[i].ans = "empty"
    <3>1. CASE rcv.replied
      <4>1. x = <<>>
        BY <3>1
      <4> HIDE DEF x
      <4> QED
        BY <4>1, EmptySeq
    <3>2. CASE ~rcv.replied
      <4>1. x = response("empty")
        BY <3>2
      <4>2. /\ response("empty") \in Seq(Responses) /\ Len(response("empty")) = 1
            /\ response("empty")[1].req = rcv.req /\ response("empty")[1].ans = "empty"
        BY <1>3 DEF Answers
      <4> HIDE DEF x
      <4> QED
        BY <4>1, <4>2
    <3> QED
      BY <3>1, <3>2
  <2> HIDE DEF x
  <2>3. /\ s \in Seq(Responses) /\ Len(s) = Len(rcv.buf) + Len(x)
        /\ \A i \in 1..Len(s) : s[i] = IF i <= Len(rcv.buf) THEN rcv.buf[i]
                                       ELSE x[i - Len(rcv.buf)]
    BY <1>2, <2>2, ConcatProperties
  <2> HIDE DEF s
  <2>4. \A i \in 1..Len(s) : s[i].req = rcv.req /\ s[i].ans \in {"data", "empty"}
    <3> TAKE i \in 1..Len(s)
    <3>1. CASE i <= Len(rcv.buf)
      <4>1. i \in 1..Len(rcv.buf) /\ s[i] = rcv.buf[i]
        BY <1>2, <2>3, <3>1
      <4> QED
        BY <1>2, <4>1 DEF BufHeld
    <3>2. CASE ~(i <= Len(rcv.buf))
      <4>1. i - Len(rcv.buf) \in 1..Len(x) /\ s[i] = x[i - Len(rcv.buf)]
        BY SMTT(30), <1>2, <2>2, <2>3, <3>2
      <4> QED
        BY <2>2, <4>1
    <3> QED
      BY <3>1, <3>2
  <2>5. \A r, a : r = rcv.req /\ a \in {"data", "empty"} => Told(r, a)'
    BY <2>1 DEF Told
  <2>6. \A i \in 1..Len(s) : \E r, a : s[i].req = r /\ s[i].ans = a /\ Told(r, a)'
    BY Zenon, <2>4, <2>5
  <2> QED
    BY Zenon, <2>1, <2>3, <2>6
<1>5. CASE ReturnErr
  <2>1. inbox' = [inbox EXCEPT ![rcv.from] = @ \o response("error")]
    BY <1>5 DEF ReturnErr, deliver
  <2>2. effects' = effects
    <3>1. (~transactional) = FALSE
      OBVIOUS
    <3>2. takeEffect(FALSE)
      BY <1>5, <3>1, Zenon DEF ReturnErr
    <3> QED
      BY <3>2 DEF takeEffect
  <2>3. \A r : r = rcv.req => Told(r, "error")'
    BY <1>2, <2>2 DEF Told
  <2>4. \A i \in 1..Len(response("error")) :
          response("error")[i].req = rcv.req /\ response("error")[i].ans = "error"
    BY <1>3 DEF Answers
  <2>5. \A i \in 1..Len(response("error")) :
          \E r, a : response("error")[i].req = r /\ response("error")[i].ans = a /\ Told(r, a)'
    BY <2>3, <2>4
  <2> QED
    BY Zenon, <1>3, <2>1, <2>5 DEF Answers
<1>6. CASE Panic
  <2>1. inbox' = inbox
    BY <1>6 DEF Panic
  <2>2. inbox = [inbox EXCEPT ![rcv.from] = @ \o <<>>]
    BY <1>1, <1>2, ConcatEmptySeq
  <2>3. <<>> \in Seq(Responses) /\ 1..Len(<<>>) = {}
    BY EmptySeq
  <2> QED
    BY Zenon, <2>1, <2>2, <2>3
<1> QED
  BY Zenon, <1>4, <1>5, <1>6

LEMMA ReturnKeeps ==
  ASSUME IInv, ReturnOK \/ ReturnErr \/ Panic
  PROVE  IInv'
<1> DEFINE r == rcv.req
<1>1. Types /\ Places /\ Unanswered /\ Draining /\ Outcome
  BY DEF IInv
<1>2. UNCHANGED <<call, sender, ch, syncCh, reqs, start, loop, transactional, emitted>>
  BY Zenon DEF ReturnOK, ReturnErr, Panic, client, worker
<1>3. /\ rcv' = NoRcv /\ r \in Req /\ rcv.from \in Worker
      /\ effects' = effects \/ effects' = effects \cup {r}
      /\ \/ deferred' = deferred
         \/ /\ r \in effects'
            /\ deferred' = [deferred EXCEPT ![r] = [from |-> rcv.from, left |-> MaxReplies]]
  BY <1>1, ReturnRcv
<1>4. Handled = {r} /\ Handled' = {} /\ OnTheWay' = OnTheWay
  BY <1>2, <1>3, NoRcvFields, SyncAssumption DEF Handled, OnTheWay
<1> HIDE DEF r
<1>5. /\ Queued' = Queued
      /\ \A w \in Worker : /\ Starting(w)' = Starting(w) /\ ToEnque(w)' = ToEnque(w)
                           /\ ToSend(w)' = ToSend(w)
  BY SMTT(30), <1>2, QueuedFrame, StartFrame, LoopFrame
<1>6. r \in Fresh /\ Fresh' = Fresh \ {r}
  <2>1. /\ sender[r] = "done" /\ r \notin Queued /\ r \notin OnTheWay
        /\ \A w \in Worker : r \notin Starting(w)
    BY SMTT(30), <1>1, <1>4 DEF Places
  <2> QED
    BY <1>2, <1>3, <1>4, <1>5, <2>1 DEF Fresh
<1>7. Types'
  <2>1. TypesRcv'
    BY ZenonT(40), <1>3, NoRcvFields, EmptySeq, SyncAssumption DEF TypesRcv
  <2>2. TypesApp'
    <3>1. effects' \subseteq Req
      BY Zenon, <1>1, <1>3 DEF Types, TypesApp
    <3>2. CASE deferred' = deferred
      BY SMTT(30), <1>1, <3>1, <3>2 DEF Types, TypesApp
    <3>3. CASE deferred' = [deferred EXCEPT ![r] = [from |-> rcv.from, left |-> MaxReplies]]
      BY <1>1, <1>3, <3>1, <3>3, SyncAssumption DEF Types, TypesApp
    <3> QED
      BY SMTT(30), <1>3, <3>2, <3>3
  <2>3. TypesMsgs'
    <3>1. PICK s \in Seq(Responses) : inbox' = [inbox EXCEPT ![rcv.from] = @ \o s]
      BY <1>1, ReturnSends
    <3>2. inbox \in [Worker -> Seq(Responses)]
      BY SMTT(30), <1>1 DEF Types, TypesMsgs
    <3>3. inbox[rcv.from] \o s \in Seq(Responses)
      BY <1>3, <3>2, ConcatProperties
    <3>4. inbox' \in [Worker -> Seq(Responses)]
      BY Zenon, <3>1, <3>2, <3>3
    <3> QED
      BY <1>1, <1>2, <3>4 DEF Types, TypesMsgs
  <2> QED
    BY SMTT(30), <1>1, <1>2, <2>1, <2>2, <2>3 DEF Types, TypesClient, TypesWorker
<1>8. Places'
  BY <1>1, <1>2, <1>4, <1>5 DEF Places
<1>9. Unanswered'
  BY <1>1, <1>2, <1>5, UnansweredFrame
<1>10. Draining'
  BY <1>1, <1>2, DrainingFrame
<1>11. Outcome'
  <2>1. BufHeld'
    BY <1>3, NoRcvFields DEF BufHeld
  <2>2. ASSUME DeferredTold PROVE DeferredTold'
    <3>1. CASE deferred' = deferred
      BY <1>3, <2>2, <3>1 DEF DeferredTold
    <3>2. CASE /\ r \in effects'
               /\ deferred' = [deferred EXCEPT ![r] = [from |-> rcv.from, left |-> MaxReplies]]
      <4>1. \A q \in Req : q # r => deferred'[q] = deferred[q]
        BY SMTT(30), <1>1, <3>2 DEF Types, TypesApp
      <4> QED
        BY SMTT(30), <1>3, <2>2, <3>2, <4>1 DEF DeferredTold
    <3> QED
      BY <1>3, <3>1, <3>2
  <2>3. ASSUME transactional, InboxTold, Stable PROVE InboxTold'
    <3>1. Fresh' \subseteq Fresh /\ rcv.req \notin Fresh'
      BY <1>6 DEF r
    <3>2. PICK s \in Seq(Responses) :
            /\ inbox' = [inbox EXCEPT ![rcv.from] = @ \o s]
            /\ \A i \in 1..Len(s) : \E q, a : s[i].req = q /\ s[i].ans = a /\ Told(q, a)'
      BY SMTT(30), <2>3, <3>1, ReturnTells
    <3>3. inbox \in [Worker -> Seq(Responses)]
      BY <1>1 DEF Types, TypesMsgs
    <3>4. /\ inbox[rcv.from] \in Seq(Responses) /\ inbox'[rcv.from] = inbox[rcv.from] \o s
          /\ \A v \in Worker : v # rcv.from => inbox'[v] = inbox[v]
      BY <1>3, <3>2, <3>3
    <3> QED
      BY Zenon, <1>3, <2>3, <3>2, <3>4, InboxGrows
  <2>4. Fresh' \subseteq Fresh /\ effects \subseteq effects'
        /\ effects' \subseteq effects \cup (Fresh \ Fresh')
    BY <1>3, <1>6
  <2> QED
    BY SMTT(30), <1>1, <1>2, <2>1, <2>2, <2>3, <2>4, OutcomeStep, ToldFrame
<1> QED
  BY <1>7, <1>8, <1>9, <1>10, <1>11 DEF IInv
-----------------------------------------------------------------------------
(* Theorems *)

LEMMA InitIInv ==
  Init => IInv
<1> SUFFICES ASSUME Init PROVE IInv
  OBVIOUS
<1>1. Types
  <2>1. TypesClient /\ TypesWorker
    BY SMTT(30), EmptySeq DEF Init, TypesClient, TypesWorker
  <2>2. TypesMsgs /\ TypesApp
    BY SMTT(30), EmptySeq DEF Init, TypesMsgs, TypesApp
  <2>3. TypesRcv
    BY ZenonT(40), NoRcvFields, EmptySeq, SyncAssumption DEF Init, TypesRcv
  <2> QED
    BY SMTT(30), <2>1, <2>2, <2>3 DEF Types
<1>2. /\ Queued = {} /\ OnTheWay = {} /\ Handled = {}
      /\ \A w \in Worker : Starting(w) = {} /\ ToEnque(w) = {} /\ ToSend(w) = {} /\ Taken(w) = {}
  BY NoRcvFields DEF Init, Queued, OnTheWay, Handled, Starting, ToEnque, ToSend, Taken
<1>3. Places
  BY SMTT(30), <1>2 DEF Init, Places
<1>4. Unanswered
  BY SMTT(30), <1>2 DEF Init, Unanswered
<1>5. Draining
  BY DEF Init, Draining
<1>6. Outcome
  <2>1. CallTold /\ ChTold /\ InboxTold /\ LoopTold
    BY SMTT(30) DEF Init, CallTold, ChTold, InboxTold, LoopTold, Told
  <2>2. BufHeld
    BY SMTT(30), NoRcvFields DEF Init, BufHeld
  <2>3. DeferredTold /\ Fresh \cap effects = {}
    BY DEF Init, DeferredTold
  <2> QED
    BY SMTT(30), <2>1, <2>2, <2>3 DEF Outcome
<1> QED
  BY <1>1, <1>3, <1>4, <1>5, <1>6 DEF IInv

\* Nothing but the end of the process, or nothing at all.
LEMMA StutterKeeps ==
  ASSUME IInv, UNCHANGED <<call, sender, ch, syncCh, reqs, start, loop, rcv, effects, deferred,
                           transactional, inbox, emitted>>
  PROVE  IInv'
<1>1. Types /\ Places /\ Unanswered /\ Draining /\ Outcome
  BY SMTT(30) DEF IInv
<1>2. Types'
  BY ZenonT(40), <1>1 DEF Types, TypesClient, TypesWorker, TypesMsgs, TypesRcv, TypesApp
<1>3. Places' /\ Fresh' = Fresh
  BY SMTT(30), <1>1, PlacesFrame, PlacesTyped, StartFrame, AppFrame
<1>4. Unanswered'
  BY SMTT(30), <1>1, UnansweredFrame, QueuedFrame, StartFrame, LoopFrame
<1>5. Draining'
  BY SMTT(30), <1>1, DrainingFrame
<1>6. Outcome'
  BY ZenonT(40), <1>1, <1>3, OutcomeFrame, ToldFrame
<1> QED
  BY <1>2, <1>3, <1>4, <1>5, <1>6 DEF IInv

LEMMA NextIInv ==
  IInv /\ [Next]_vars => IInv'
<1> SUFFICES ASSUME IInv, [Next]_vars PROVE IInv'
  OBVIOUS
<1>1. ASSUME NEW r \in Req, Sync(r) \/ Cancel(r) \/ CallStep(r) \/ ReplyDeferred(r)
      PROVE  IInv'
  BY SMTT(30), <1>1, SyncKeeps, CancelKeeps, SendReqKeeps, AnswerKeeps, GiveUpKeeps,
     ReplyDeferredKeeps DEF CallStep
<1>2. ASSUME NEW w \in Worker, StartStep(w) PROVE IInv'
  BY SMTT(30), <1>2, TakeReqKeeps, EnqueKeeps, EmitReqKeeps, DoneKeeps, DrainKeeps, DrainedKeeps
     DEF StartStep
<1>3. ASSUME NEW w \in Worker, LoopStep(w) \/ Stop(w) PROVE IInv'
  BY <1>3, RcvKeeps, DequeKeeps, PassOnKeeps, StopKeeps DEF LoopStep
<1>4. ASSUME NEW w \in Worker, MapRace(w) \/ UnlockPanic(w) PROVE IInv'
  <2>1. CASE MapRace(w)
    BY <2>1, StutterKeeps DEF MapRace, client, worker, app
  <2>2. CASE UnlockPanic(w)
    BY <2>2, UnlockPanicKeeps
  <2> QED
    BY SMTT(30), <1>4, <2>1, <2>2
<1>5. ASSUME RcvStep PROVE IInv'
  BY SMTT(30), <1>5, HandleKeeps, ReplyKeeps, DeferReplyKeeps, ReturnKeeps DEF RcvStep
<1>6. CASE UNCHANGED vars
  BY <1>6, StutterKeeps DEF vars, client, worker, app
<1> QED
  BY <1>1, <1>2, <1>3, <1>4, <1>5, <1>6 DEF Next, Running

LEMMA AlwaysIInv ==
  Spec => []IInv
BY InitIInv, NextIInv, PTL DEF Spec

\* However many calls and workers there are: what a call of a transactional
\* application returns tells what became of the request (syncHandler.Rcv with
\* AbortTx, and hive.Sync).
THEOREM AnswersTellOutcome ==
  Spec => []AnswerTellsOutcome
<1>1. IInv => AnswerTellsOutcome
  BY SMTT(30) DEF IInv, Outcome, CallTold, Told, AnswerTellsOutcome
<1> QED
  BY <1>1, AlwaysIInv, PTL

\* No worker ever blocks on the channel of a call, whatever calls are
\* cancelled, stopped, or answered several times (sync.go Rcv and drain).
THEOREM SendsNeverBlock ==
  Spec => []SendsDontBlock
<1>1. IInv => SendsDontBlock
  BY DEF IInv, Unanswered, Taken, ToSend, SendsDontBlock
<1> QED
  BY <1>1, AlwaysIInv, PTL
=============================================================================
