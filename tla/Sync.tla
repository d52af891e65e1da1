-------------------------------- MODULE Sync --------------------------------
(***************************************************************************)
(* Synchronous requests (hive.Sync and sync.go).  A call puts its request  *)
(* and a channel for the answer into syncCh.  A worker of the pool, a      *)
(* detached bee with two goroutines, takes it: Start remembers the channel *)
(* in reqs and emits the request, and the bee's own loop (Rcv) passes the  *)
(* response on to the channel.  In between the application's handler runs  *)
(* under syncHandler.Rcv, replies, defers the reply or fails.              *)
(*                                                                         *)
(* The two goroutines of a worker share reqs.  drain locks the mutex once  *)
(* per request and unlocks it once; deque deletes without the lock, which  *)
(* the Go runtime may answer by ending the process when enque writes at    *)
(* the same time.  Messages between bees of the hive are not lost.         *)
(***************************************************************************)
EXTENDS Naturals, Sequences, FiniteSets

CONSTANTS
  Req,        \* calls of Sync, each with the identifier of its request
  Worker,     \* the pool (SyncPoolSize)
  ChSize,     \* capacity of syncCh (DataChBufSize)
  MaxReplies, \* bound: answers to one deferred request
  Nil         \* no request

ASSUME SyncAssumption ==
  /\ ChSize \in Nat \ {0}
  /\ MaxReplies \in Nat
  /\ Nil \notin Req

VARIABLES
  transactional, \* whether the application of the handler is
  call,      \* how far each call is, and how it returned
  sender,    \* the goroutine of each call that puts it into syncCh
  syncCh,    \* requests no worker has taken
  ch,        \* the answer channel of each call, of capacity 1
  reqs,      \* the requests each worker remembers
  start,     \* the goroutine Start of each worker
  loop,      \* the goroutine of each worker's bee
  inbox,     \* the responses sent to each worker
  emitted,   \* requests on their way to the handler, with their worker
  rcv,       \* the handler's Rcv
  effects,   \* requests whose handler's changes took effect
  panicked,  \* requests whose handler panicked
  deferred,  \* requests with a Repliable, and the answers still possible
  crashed    \* the process has ended

client == <<call, sender, ch>>
worker == <<reqs, start, loop, syncCh>>
app == <<rcv, effects, panicked, deferred, transactional>>
vars == <<client, worker, app, inbox, emitted, crashed>>

NoRcv == [req |-> Nil, from |-> Nil, replied |-> FALSE, deferred |-> FALSE, buf |-> <<>>]
Responses == [req : Req, ans : {"data", "empty", "error"}]

Init ==
  /\ transactional \in BOOLEAN
  /\ call = [r \in Req |-> "none"]
  /\ sender = [r \in Req |-> "none"]
  /\ syncCh = <<>>
  /\ ch = [r \in Req |-> <<>>]
  /\ reqs = [w \in Worker |-> {}]
  /\ start = [w \in Worker |-> [pc |-> "select", req |-> Nil]]
  /\ loop = [w \in Worker |-> [pc |-> "loop", res |-> Nil]]
  /\ inbox = [w \in Worker |-> <<>>]
  /\ emitted = {}
  /\ rcv = NoRcv
  /\ effects = {} /\ panicked = {}
  /\ deferred = [r \in Req |-> [from |-> Nil, left |-> 0]]
  /\ crashed = FALSE
-----------------------------------------------------------------------------
(* hive.Sync *)

Sync(r) ==
  /\ call[r] = "none"
  /\ call' = [call EXCEPT ![r] = "waiting"]
  /\ sender' = [sender EXCEPT ![r] = "trying"]
  /\ UNCHANGED <<ch, worker, app, inbox, emitted>>

SendReq(r) ==
  /\ sender[r] = "trying"
  /\ Len(syncCh) < ChSize
  /\ syncCh' = Append(syncCh, r)
  /\ sender' = [sender EXCEPT ![r] = "done"]
  /\ UNCHANGED <<call, ch, reqs, start, loop, app, inbox, emitted>>

\* The context of the call is done: the goroutine may still send.
Cancel(r) ==
  /\ call[r] = "waiting"
  /\ call' = [call EXCEPT ![r] = "cancelled"]
  /\ UNCHANGED <<sender, ch, worker, app, inbox, emitted>>

GiveUp(r) ==
  /\ sender[r] = "trying" /\ call[r] = "cancelled"
  /\ sender' = [sender EXCEPT ![r] = "done"]
  /\ UNCHANGED <<call, ch, worker, app, inbox, emitted>>

Answer(r) ==
  /\ call[r] = "waiting"
  /\ ch[r] # <<>>
  /\ call' = [call EXCEPT ![r] = Head(ch[r])]
  /\ ch' = [ch EXCEPT ![r] = <<>>]
  /\ UNCHANGED <<sender, worker, app, inbox, emitted>>
-----------------------------------------------------------------------------
(* The goroutine Start of a worker *)

TakeReq(w) ==
  /\ start[w].pc = "select"
  /\ syncCh # <<>>
  /\ start' = [start EXCEPT ![w] = [@ EXCEPT !.pc = "enque", !.req = Head(syncCh)]]
  /\ syncCh' = Tail(syncCh)
  /\ UNCHANGED <<client, reqs, loop, app, inbox, emitted>>

enque(w) ==
  /\ start[w].pc = "enque"
  /\ reqs' = [reqs EXCEPT ![w] = @ \cup {start[w].req}]
  /\ start' = [start EXCEPT ![w].pc = "emit"]
  /\ UNCHANGED <<client, syncCh, loop, app, inbox, emitted>>

EmitReq(w) ==
  /\ start[w].pc = "emit"
  /\ emitted' = emitted \cup {[req |-> start[w].req, from |-> w]}
  /\ start' = [start EXCEPT ![w] = [@ EXCEPT !.pc = "select", !.req = Nil]]
  /\ UNCHANGED <<client, syncCh, reqs, loop, app, inbox>>

\* Stop hands over its channel when Start is in the select.
Done(w) ==
  /\ start[w].pc = "select" /\ loop[w].pc = "stop"
  /\ start' = [start EXCEPT ![w].pc = "drain"]
  /\ UNCHANGED <<client, syncCh, reqs, loop, app, inbox, emitted>>

\* Mutant of drain: the call is forgotten without an answer.
drainSilent(w, r) ==
  /\ start[w].pc = "drain"
  /\ r \in reqs[w] /\ ch[r] = <<>>
  /\ start' = [start EXCEPT ![w].pc = "locked"]
  /\ reqs' = [reqs EXCEPT ![w] = @ \ {r}]
  /\ UNCHANGED <<client, syncCh, loop, app, inbox, emitted>>

\* One iteration of drain.  The mutex is locked until the loop is over.
drain(w, r) ==
  /\ start[w].pc = "drain"
  /\ r \in reqs[w] /\ ch[r] = <<>>
  /\ start' = [start EXCEPT ![w].pc = "locked"]
  /\ ch' = [ch EXCEPT ![r] = <<"stopped">>]
  /\ reqs' = [reqs EXCEPT ![w] = @ \ {r}]
  /\ UNCHANGED <<call, sender, syncCh, loop, app, inbox, emitted>>

Drained(w) ==
  /\ start[w].pc = "locked" /\ reqs[w] = {}
  /\ start' = [start EXCEPT ![w].pc = "select"]
  /\ loop' = [loop EXCEPT ![w].pc = "stopped"]
  /\ UNCHANGED <<client, syncCh, reqs, app, inbox, emitted>>

\* There was nothing to drain: Unlock of a mutex that is not locked panics,
\* and startDetached recovers, or it ends the process.
UnlockPanic(w) ==
  /\ start[w].pc = "drain" /\ reqs[w] = {}
  /\ start' = [start EXCEPT ![w].pc = "panicked"]
  /\ crashed' \in BOOLEAN
  /\ UNCHANGED <<client, syncCh, reqs, loop, app, inbox, emitted>>
-----------------------------------------------------------------------------
(* The loop of a worker's bee *)

\* Mutant of deque: the request is not deleted.
dequeKept(w) ==
  /\ loop[w].pc = "delete"
  /\ loop' = [loop EXCEPT ![w].pc = "send"]
  /\ UNCHANGED <<client, syncCh, start, reqs, app, inbox, emitted>>

\* The second half of deque, without the lock.
deque(w) ==
  /\ loop[w].pc = "delete"
  /\ reqs' = [reqs EXCEPT ![w] = @ \ {loop[w].res.req}]
  /\ loop' = [loop EXCEPT ![w].pc = "send"]
  /\ UNCHANGED <<client, syncCh, start, app, inbox, emitted>>

\* Rcv with the first half of deque: a response without a request is an error.
Rcv(w) ==
  LET res == Head(inbox[w])
  IN  /\ loop[w].pc = "loop"
      /\ inbox[w] # <<>>
      /\ inbox' = [inbox EXCEPT ![w] = Tail(@)]
      /\ loop' = IF res.req \in reqs[w]
                 THEN [loop EXCEPT ![w] = [pc |-> "delete", res |-> res]]
                 ELSE loop
      /\ UNCHANGED <<client, syncCh, start, reqs, app, emitted>>

\* The runtime finds deque and enque writing to the map at once.
MapRace(w) ==
  /\ loop[w].pc = "delete" /\ start[w].pc = "enque"
  /\ crashed' = TRUE
  /\ UNCHANGED <<client, worker, app, inbox, emitted>>

PassOn(w) ==
  LET res == loop[w].res
  IN  /\ loop[w].pc = "send"
      /\ ch[res.req] = <<>>
      /\ ch' = [ch EXCEPT ![res.req] = <<res.ans>>]
      /\ loop' = [loop EXCEPT ![w] = [pc |-> "loop", res |-> Nil]]
      /\ UNCHANGED <<call, sender, syncCh, start, reqs, app, inbox, emitted>>

Stop(w) ==
  /\ loop[w].pc = "loop"
  /\ loop' = [loop EXCEPT ![w].pc = "stop"]
  /\ UNCHANGED <<client, syncCh, start, reqs, app, inbox, emitted>>
-----------------------------------------------------------------------------
(* syncHandler.Rcv around the application's handler *)

deliver(w, s) == inbox' = [inbox EXCEPT ![w] = @ \o s]

response(ans) == <<[req |-> rcv.req, ans |-> ans]>>

\* Emission inside Rcv: buffered by the transaction, if there is one.
reply(ans, c) ==
  IF transactional
  THEN rcv' = [c EXCEPT !.buf = @ \o response(ans)] /\ UNCHANGED inbox
  ELSE rcv' = c /\ deliver(rcv.from, response(ans))

Handle(e) ==
  /\ rcv.req = Nil
  /\ e \in emitted
  /\ emitted' = emitted \ {e}
  /\ rcv' = [NoRcv EXCEPT !.req = e.req, !.from = e.from]
  /\ UNCHANGED <<client, worker, effects, panicked, deferred, transactional, inbox>>

\* syncRcvContext.Reply; a second one is refused.
Reply ==
  /\ rcv.req # Nil /\ ~rcv.replied
  /\ reply("data", [rcv EXCEPT !.replied = TRUE])
  /\ UNCHANGED <<client, worker, effects, panicked, deferred, transactional, emitted>>

DeferReply ==
  /\ rcv.req # Nil /\ ~rcv.deferred
  /\ rcv' = [rcv EXCEPT !.replied = TRUE, !.deferred = TRUE]
  /\ UNCHANGED <<client, worker, effects, panicked, deferred, transactional, inbox, emitted>>

\* What Rcv has written, the Repliable included, takes effect.
takeEffect(yes) ==
  /\ effects' = IF yes THEN effects \cup {rcv.req} ELSE effects
  /\ deferred' = IF yes /\ rcv.deferred
                 THEN [deferred EXCEPT ![rcv.req] =
                         [from |-> rcv.from, left |-> MaxReplies]]
                 ELSE deferred
  /\ rcv' = NoRcv

\* Mutant of ReturnOK: a handler that did not reply is not replied for.
ReturnOKSilent ==
  /\ rcv.req # Nil
  /\ deliver(rcv.from, rcv.buf)
  /\ takeEffect(TRUE)
  /\ UNCHANGED <<client, worker, panicked, transactional, emitted>>

ReturnOK ==
  /\ rcv.req # Nil
  /\ deliver(rcv.from,
             rcv.buf \o IF rcv.replied THEN <<>> ELSE response("empty"))
  /\ takeEffect(TRUE)
  /\ UNCHANGED <<client, worker, panicked, transactional, emitted>>

\* Mutant of ReturnErr: the transaction is not aborted before the response.
ReturnErrKept ==
  /\ rcv.req # Nil
  /\ deliver(rcv.from, rcv.buf \o response("error"))
  /\ takeEffect(~transactional)
  /\ UNCHANGED <<client, worker, panicked, transactional, emitted>>

\* AbortTx, and then the error as the response, outside any transaction.
ReturnErr ==
  /\ rcv.req # Nil
  /\ deliver(rcv.from, response("error"))
  /\ takeEffect(~transactional)
  /\ UNCHANGED <<client, worker, panicked, transactional, emitted>>

\* bee.callRcv recovers and aborts: nobody responds.
Panic ==
  /\ rcv.req # Nil
  /\ panicked' = panicked \cup {rcv.req}
  /\ takeEffect(~transactional)
  /\ UNCHANGED <<client, worker, transactional, inbox, emitted>>

\* Repliable.Reply, any time later and from any handler.
ReplyDeferred(r) ==
  /\ deferred[r].left > 0
  /\ deferred' = [deferred EXCEPT ![r].left = @ - 1]
  /\ deliver(deferred[r].from, <<[req |-> r, ans |-> "data"]>>)
  /\ UNCHANGED <<client, worker, rcv, effects, panicked, transactional, emitted>>
-----------------------------------------------------------------------------
StartStep(w) ==
  \/ TakeReq(w) \/ enque(w) \/ EmitReq(w) \/ Done(w)
  \/ \E r \in Req : drain(w, r)
  \/ Drained(w)

LoopStep(w) == Rcv(w) \/ deque(w) \/ PassOn(w)

RcvStep ==
  \/ \E e \in emitted : Handle(e)
  \/ Reply \/ DeferReply \/ ReturnOK \/ ReturnErr \/ Panic

CallStep(r) == SendReq(r) \/ Answer(r) \/ GiveUp(r)

Running(A) == ~crashed /\ A /\ UNCHANGED crashed

Next ==
  \/ \E r \in Req : Running(Sync(r) \/ Cancel(r) \/ CallStep(r) \/ ReplyDeferred(r))
  \/ \E w \in Worker :
       \/ Running(StartStep(w) \/ LoopStep(w) \/ Stop(w))
       \/ ~crashed /\ (MapRace(w) \/ UnlockPanic(w))
  \/ Running(RcvStep)

\* Goroutines run, and handlers return.
Fairness ==
  /\ \A w \in Worker : WF_vars(Running(StartStep(w))) /\ WF_vars(Running(LoopStep(w)))
  /\ \A r \in Req : WF_vars(Running(CallStep(r)))
  /\ WF_vars(Running(RcvStep))

Spec == Init /\ [][Next]_vars /\ Fairness
-----------------------------------------------------------------------------
(* Correctness *)

\* Type invariant: the structures of sync.go are well formed, and a channel
\* for an answer holds at most one.
TypeOK ==
  /\ transactional \in BOOLEAN /\ crashed \in BOOLEAN
  /\ call \in [Req -> {"none", "waiting", "cancelled",
                       "data", "empty", "error", "stopped"}]
  /\ sender \in [Req -> {"none", "trying", "done"}]
  /\ syncCh \in Seq(Req) /\ Len(syncCh) <= ChSize
  /\ \A r \in Req : Len(ch[r]) <= 1
  /\ reqs \in [Worker -> SUBSET Req]
  /\ inbox \in [Worker -> Seq(Responses)]
  /\ rcv.buf \in Seq(Responses)
  /\ emitted \subseteq [req : Req, from : Worker]
  /\ effects \subseteq Req /\ panicked \subseteq Req

\* What a call returns tells what became of the request: with data, or without
\* an error, the handler's changes are in place, and with the handler's error
\* none is (AbortTx in syncHandler.Rcv drops the replies of the handler too).
AnswerTellsOutcome ==
  transactional =>
    \A r \in Req :
      /\ call[r] \in {"data", "empty"} => r \in effects
      /\ call[r] = "error" => r \notin effects

\* A worker never blocks on the channel of a call, not even of one that has
\* been cancelled or that is answered several times: a request that is still
\* remembered, or whose response is about to be passed on, has had none.
SendsDontBlock ==
  \A w \in Worker :
    /\ loop[w].pc = "send" => ch[loop[w].res.req] = <<>>
    /\ \A r \in reqs[w] : ch[r] = <<>>

\* Every call returns, unless the handler panics or puts the reply off, or the
\* pool is being stopped, or the process ends.
EveryCallReturns ==
  \A r \in Req :
    call[r] = "waiting" ~>
      \/ call[r] # "waiting"
      \/ r \in panicked \/ deferred[r].from # Nil
      \/ \E w \in Worker : loop[w].pc \in {"stop", "stopped"}
      \/ crashed

\* drain waits for the mutex that it has locked in the iteration before.
Relocks(w) == start[w].pc = "locked" /\ reqs[w] # {}

\* A call whose worker is stopped before the response returns: "ErrSyncStopped
\* returned when the sync handler is stopped before receiving the response".
\* This holds unless drain meets a second request and locks itself out.
StoppedReported ==
  \A r \in Req, w \in Worker :
    r \in reqs[w] /\ loop[w].pc = "stop" ~>
      call[r] # "waiting" \/ crashed \/ Relocks(w)
=============================================================================
