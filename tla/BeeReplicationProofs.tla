------------------------ MODULE BeeReplicationProofs ------------------------
(***************************************************************************)
(* Proofs about BeeReplication, for every colony, every set of messages    *)
(* and every number of elections, timeouts and crashes: a bee emits every  *)
(* transaction at most once and in the order of the log; without lost      *)
(* proposals, elections and crashes nothing is written beside the log;     *)
(* and, as long as no bee has restarted from a snapshot, the replicas      *)
(* agree and no acknowledged transaction is lost.                          *)
(***************************************************************************)
EXTENDS BeeReplication, SequenceTheorems, TLAPS

BeeFields ==
  {"pc", "leader", "role", "raftTerm", "seen", "emitInRaft", "txOpen", "tx",
   "dirty", "msg", "waits", "applied", "known", "txTerm", "state"}

Request == [id : Nat, term : 0..MaxTerm, msgs : Seq(Msg)]

Entry == [req : Request, raftTerm : Nat]

\* What a bee's fields hold.  The goroutine of the bee waits for a proposal
\* exactly while it replicates or restarts.
BeeTyped(r) ==
  /\ BeeFields \subseteq DOMAIN r
  /\ r.pc \in {"idle", "rcv", "commit", "waiting", "barrier", "down"}
  /\ r.leader \in Bee /\ r.role \in {"leader", "follower"}
  /\ r.raftTerm \in 0..MaxTerm /\ r.txTerm \in 0..MaxTerm
  /\ r.seen \in Nat /\ r.known \in Nat /\ r.applied \in Nat /\ r.waits \in Nat
  /\ r.tx \in Seq(Msg) /\ r.state \in Seq(Msg) /\ r.dirty \in Seq(Msg)
  /\ r.waits # 0 <=> r.pc \in {"waiting", "barrier"}

RaftTyped ==
  /\ proposed \in Nat
  /\ flight \subseteq Request /\ \A p \in flight : p.id \in 1..proposed
  /\ log \in Seq(Entry) /\ \A i \in 1..Len(log) : log[i].req.id \in 1..proposed
  /\ leaders \in Seq(Bee) /\ Len(leaders) <= MaxTerm
  /\ colony \in [leader : Bee, term : 0..MaxTerm]
  /\ updates \subseteq [leader : Bee, term : 0..MaxTerm]
  /\ timeouts \in Nat /\ crashes \in Nat

BeesTyped ==
  /\ DOMAIN bee = Bee
  /\ \A b \in Bee : BeeTyped(bee[b]) /\ bee[b].applied <= Len(log)

\* A snapshot of nothing holds nothing.
SnapTyped(s) ==
  /\ {"at", "state", "dirty"} \subseteq DOMAIN s
  /\ s.at \in Nat /\ s.state \in Seq(Msg) /\ s.dirty \in Seq(Msg)
  /\ s.at = 0 => s.state = <<>>

SnapsTyped ==
  /\ DOMAIN snap = Bee
  /\ \A b \in Bee : SnapTyped(snap[b]) /\ snap[b].at <= bee[b].applied

Types == RaftTyped /\ BeesTyped /\ SnapsTyped

\* Entries a bee has emitted the messages of are in the log; a bee that
\* emits has applied all of them; and one that restarts applies the entry of
\* its barrier after all of them.
EmitOK(b) ==
  /\ \A k \in 1..Len(out[b]) : out[b][k] <= Len(log)
  /\ bee[b].emitInRaft => \A k \in 1..Len(out[b]) : out[b][k] <= bee[b].applied
  /\ bee[b].emitInRaft \/ bee[b].pc \in {"barrier", "down"}
  /\ bee[b].pc = "barrier" =>
       /\ ~bee[b].emitInRaft
       /\ \A i \in 1..Len(log) : log[i].req.id = bee[b].waits =>
            \A k \in 1..Len(out[b]) : out[b][k] < i

Emitting ==
  /\ out \in [Bee -> Seq(Nat)]
  /\ \A b \in Bee : EmitOK(b)
  /\ EmitsOnce

Undisturbed == timeouts = 0 /\ leaders = <<>> /\ crashes = 0

\* Without lost proposals, elections and crashes the first leader is the only
\* one, nothing is in flight or unapplied by it but the proposal it waits for,
\* and so its transaction stays open while Rcv runs.
Alone ==
  /\ \A b \in Bee :
       /\ bee[b].leader = First /\ bee[b].dirty = <<>>
       /\ bee[b].pc \notin {"barrier", "down"}
       /\ b # First => bee[b].pc = "idle" /\ bee[b].role = "follower"
  /\ bee[First].pc = "rcv" => bee[First].txOpen
  /\ bee[First].pc # "waiting" => flight = {} /\ bee[First].applied = Len(log)
  /\ bee[First].pc = "waiting" =>
       \/ /\ bee[First].applied = Len(log)
          /\ \A p, q \in flight : p = q /\ p.id = bee[First].waits
       \/ /\ flight = {} /\ bee[First].applied + 1 = Len(log)
          /\ log[Len(log)].req.id = bee[First].waits

Quiet == Undisturbed => Alone

\* No bee has restarted from a snapshot, which does not hold txTerm.
FromTheLog == crashes = 0 \/ \A b \in Bee : snap[b].at = 0

\* What applying a request makes of a state and of the term it has got to.
Refuses(tm, req) == req.msgs = <<>> \/ req.term < tm
StateAfter(st, tm, req) == IF Refuses(tm, req) THEN st ELSE st \o req.msgs
TermAfter(tm, req) == IF Refuses(tm, req) THEN tm ELSE req.term

\* st[i] and tm[i]: what applying the first i entries of the log leads to.
Replay(st, tm) ==
  /\ st \in [0..Len(log) -> Seq(Msg)] /\ tm \in [0..Len(log) -> 0..MaxTerm]
  /\ st[0] = <<>> /\ tm[0] = 0
  /\ \A i \in 1..Len(log) :
       /\ st[i] = StateAfter(st[i - 1], tm[i - 1], log[i].req)
       /\ tm[i] = TermAfter(tm[i - 1], log[i].req)
  /\ \A i, j \in 0..Len(log) : i <= j => Range(st[i]) \subseteq Range(st[j])

\* Every bee is where the log leads to, and the acknowledged are in it.
Follows(st, tm) ==
  /\ \A b \in Bee :
       bee[b].state = st[bee[b].applied] /\ bee[b].txTerm = tm[bee[b].applied]
  /\ \A id \in acked : \E i \in 1..Len(log) :
       log[i].req.id = id /\ Range(log[i].req.msgs) \subseteq Range(st[i])

NoneDown == crashes = 0 => \A b \in Bee : bee[b].pc # "down"

Replicated == FromTheLog => \E st, tm : Replay(st, tm) /\ Follows(st, tm)

IInv == Types /\ Emitting /\ Quiet /\ NoneDown /\ Replicated
-----------------------------------------------------------------------------
(* What each step does to the bees *)

\* The step leaves all bees but b alone, and of b all fields but those in F.
Changes(b, F) ==
  /\ DOMAIN bee' = Bee
  /\ BeeFields \subseteq DOMAIN bee'[b]
  /\ \A c \in Bee \ {b} : bee'[c] = bee[c]
  /\ \A f \in BeeFields \ F : bee'[b][f] = bee[b][f]

\* An entry of the log holds a request with a number that was given out.
LEMMA LogEntry ==
  ASSUME Types, NEW i \in 1..Len(log)
  PROVE  /\ log[i].req \in Request /\ log[i].req.id \in 1..proposed
         /\ log[i].req.msgs \in Seq(Msg) /\ log[i].req.term \in 0..MaxTerm
<1>1. log \in Seq(Entry) /\ log[i].req.id \in 1..proposed
  BY DEF Types, RaftTyped
<1>2. log[i] \in Entry
  BY <1>1
<1> QED
  BY SMTT(30), <1>1, <1>2 DEF Entry, Request

LearnFields == {"seen", "leader", "raftTerm"}

\* ProcessStatusChange: the bee knows a newer leader, perhaps itself, with a
\* term that an election has given or none.
LEMMA LearnLeaderDoes ==
  ASSUME Types, NEW b \in Bee, NEW t \in 1..MaxTerm, NEW ev \in 0..MaxTerm,
         LearnLeader(b, t, ev)
  PROVE  /\ Changes(b, LearnFields)
         /\ leaders # <<>>
         /\ bee'[b].seen \in Nat /\ bee'[b].leader \in Bee
         /\ bee'[b].raftTerm \in 0..MaxTerm
         /\ updates' \subseteq [leader : Bee, term : 0..MaxTerm]
<1> DEFINE c == [bee[b] EXCEPT !.seen = t]
<1>1. DOMAIN bee = Bee /\ BeeTyped(bee[b])
  BY DEF Types, BeesTyped
<1>2. leaders \in Seq(Bee) /\ t \in 1..Len(leaders) /\ leaders[t] \in Bee /\ leaders # <<>>
  BY <1>1 DEF LearnLeader, Types, RaftTyped, BeeTyped
<1>3. updates \subseteq [leader : Bee, term : 0..MaxTerm]
  BY DEF Types, RaftTyped
<1>4. CASE bee' = [bee EXCEPT ![b] = c] /\ UNCHANGED updates
  BY SMTT(30), <1>1, <1>2, <1>3, <1>4 DEF Changes, LearnFields, BeeTyped, BeeFields
<1>5. CASE bee' = [bee EXCEPT ![b] = [c EXCEPT !.leader = leaders[t]]] /\ UNCHANGED updates
  <2> DEFINE d == [c EXCEPT !.leader = leaders[t]]
  <2>1. /\ BeeFields \subseteq DOMAIN d /\ d.leader = leaders[t] /\ d.seen = t
        /\ \A f \in BeeFields \ LearnFields : d[f] = bee[b][f]
        /\ d.raftTerm = bee[b].raftTerm
    BY Zenon, <1>1 DEF BeeFields, LearnFields, BeeTyped
  <2>2. bee'[b] = d /\ DOMAIN bee' = Bee /\ \A x \in Bee \ {b} : bee'[x] = bee[x]
    BY <1>1, <1>5
  <2> HIDE DEF d
  <2> QED
    BY <1>1, <1>2, <1>3, <1>5, <2>1, <2>2 DEF Changes, BeeTyped
<1>6. CASE /\ bee' = [bee EXCEPT ![b] = [c EXCEPT !.leader = b, !.raftTerm = ev]]
           /\ updates' = updates \cup {[leader |-> b, term |-> ev]}
  <2>1. updates' \subseteq [leader : Bee, term : 0..MaxTerm]
    BY <1>3, <1>6
  <2> DEFINE d == [c EXCEPT !.leader = b, !.raftTerm = ev]
  <2>2. /\ BeeFields \subseteq DOMAIN d /\ d.leader = b /\ d.seen = t /\ d.raftTerm = ev
        /\ \A f \in BeeFields \ LearnFields : d[f] = bee[b][f]
    BY Zenon, <1>1 DEF BeeFields, LearnFields, BeeTyped
  <2>3. bee'[b] = d /\ DOMAIN bee' = Bee /\ \A x \in Bee \ {b} : bee'[x] = bee[x]
    BY <1>1, <1>6
  <2> HIDE DEF d
  <2> QED
    BY <1>2, <2>1, <2>2, <2>3 DEF Changes
<1> QED
  BY <1>4, <1>5, <1>6 DEF LearnLeader

ApplyFields ==
  {"pc", "waits", "emitInRaft", "applied", "txTerm", "state", "txOpen", "tx"}

\* bee.Apply: a request that is refused, or holds nothing, changes nothing.
LEMMA ApplyTxDoes ==
  ASSUME NEW r, BeeTyped(r), NEW req \in Request
  PROVE  LET s == applyTx(r, req) IN
         /\ BeeFields \subseteq DOMAIN s
         /\ \A f \in BeeFields \ {"txTerm", "state", "txOpen", "tx"} : s[f] = r[f]
         /\ s.state = StateAfter(r.state, r.txTerm, req)
         /\ s.txTerm = TermAfter(r.txTerm, req)
         /\ s.tx \in Seq(Msg)
<1>0. req.term \in Nat /\ r.txTerm \in Nat
  BY DEF Request, BeeTyped
<1>1. CASE Refuses(r.txTerm, req)
  <2>1. applyTx(r, req) = r
    BY <1>0, <1>1 DEF applyTx, accepts, Refuses
  <2> QED
    BY <1>1, <2>1 DEF StateAfter, TermAfter, BeeTyped
<1>2. CASE ~Refuses(r.txTerm, req)
  <2> DEFINE e == IF r.txOpen THEN <<>> ELSE r.tx
  <2>1. applyTx(r, req) = [r EXCEPT !.txTerm = req.term, !.state = @ \o req.msgs,
                                    !.txOpen = FALSE, !.tx = e]
    BY <1>0, <1>2 DEF applyTx, accepts, Refuses
  <2>2. e \in Seq(Msg)
    BY DEF BeeTyped
  <2>3. BeeFields \subseteq DOMAIN r
    BY DEF BeeTyped
  <2> HIDE DEF e
  <2> QED
    BY Zenon, <1>2, <2>1, <2>2, <2>3 DEF StateAfter, TermAfter, BeeFields
<1> QED
  BY <1>1, <1>2

\* group.apply: the bee has applied one entry more, and when it waits for
\* that one it goes back to its loop; a barrier has it emit from there on.
LEMMA ApplyDoes ==
  ASSUME Types, NEW b \in Bee, Apply(b)
  PROVE  LET i == bee[b].applied + 1 IN
         /\ Changes(b, ApplyFields)
         /\ i \in 1..Len(log) /\ log[i].req \in Request
         /\ bee'[b].applied = i
         /\ bee'[b].state = StateAfter(bee[b].state, bee[b].txTerm, log[i].req)
         /\ bee'[b].txTerm = TermAfter(bee[b].txTerm, log[i].req)
         /\ bee'[b].tx \in Seq(Msg)
         /\ IF bee[b].waits = log[i].req.id
            THEN /\ bee'[b].pc = "idle" /\ bee'[b].waits = 0
                 /\ bee'[b].emitInRaft = (bee[b].emitInRaft \/ bee[b].pc = "barrier")
            ELSE /\ bee'[b].pc = bee[b].pc /\ bee'[b].waits = bee[b].waits
                 /\ bee'[b].emitInRaft = bee[b].emitInRaft
<1> DEFINE i == bee[b].applied + 1
           req == log[i].req
           a == applyTx(bee[b], req)
           r == [a EXCEPT !.applied = i]
           s == [r EXCEPT !.pc = "idle", !.waits = 0,
                          !.emitInRaft = @ \/ bee[b].pc = "barrier"]
<1>1. DOMAIN bee = Bee /\ BeeTyped(bee[b])
  BY DEF Types, BeesTyped
<1>2. i \in 1..Len(log) /\ req \in Request
  <2>0. bee[b].applied + 1 <= Len(log)
    BY DEF Apply
  <2>1. i \in 1..Len(log)
    BY SMTT(30), <1>1, <2>0 DEF BeeTyped, Types, RaftTyped
  <2> QED
    BY <2>1, LogEntry
<1>3. /\ BeeFields \subseteq DOMAIN a
      /\ \A f \in BeeFields \ {"txTerm", "state", "txOpen", "tx"} : a[f] = bee[b][f]
      /\ a.state = StateAfter(bee[b].state, bee[b].txTerm, req)
      /\ a.txTerm = TermAfter(bee[b].txTerm, req)
      /\ a.tx \in Seq(Msg)
  BY <1>1, <1>2, ApplyTxDoes
<1>4. bee' = [bee EXCEPT ![b] = IF bee[b].waits = req.id THEN s ELSE r]
  BY Zenon DEF Apply
<1> HIDE DEF a, req, i
<1>5. /\ BeeFields \subseteq DOMAIN r
      /\ \A f \in BeeFields \ {"applied"} : r[f] = a[f]
      /\ r.applied = i
  BY <1>3 DEF BeeFields
<1> HIDE DEF r
<1>6. /\ BeeFields \subseteq DOMAIN s
      /\ \A f \in BeeFields \ {"pc", "waits", "emitInRaft"} : s[f] = r[f]
      /\ s.pc = "idle" /\ s.waits = 0
      /\ s.emitInRaft = (r.emitInRaft \/ bee[b].pc = "barrier")
  BY Zenon, <1>5 DEF BeeFields
<1> HIDE DEF s
<1>7. CASE bee[b].waits = req.id
  <2>1. bee'[b] = s /\ DOMAIN bee' = Bee /\ \A c \in Bee \ {b} : bee'[c] = bee[c]
    BY <1>1, <1>4, <1>7
  <2>2. s.emitInRaft = (bee[b].emitInRaft \/ bee[b].pc = "barrier")
    <3>1. r.emitInRaft = a.emitInRaft /\ a.emitInRaft = bee[b].emitInRaft
      BY <1>3, <1>5 DEF BeeFields
    <3> QED
      BY <1>6, <3>1
  <2>3. Changes(b, ApplyFields)
    BY <1>3, <1>5, <1>6, <2>1 DEF Changes, ApplyFields, BeeFields
  <2>4. s.applied = i /\ s.state = a.state /\ s.txTerm = a.txTerm /\ s.tx = a.tx
    BY <1>5, <1>6 DEF BeeFields
  <2> QED
    BY <1>2, <1>3, <1>6, <1>7, <2>1, <2>2, <2>3, <2>4 DEF i, req
<1>8. CASE bee[b].waits # req.id
  <2>1. bee'[b] = r /\ DOMAIN bee' = Bee /\ \A c \in Bee \ {b} : bee'[c] = bee[c]
    BY <1>1, <1>4, <1>8
  <2>3. Changes(b, ApplyFields)
    BY <1>3, <1>5, <2>1 DEF Changes, ApplyFields, BeeFields
  <2>4. /\ r.state = a.state /\ r.txTerm = a.txTerm /\ r.tx = a.tx
        /\ r.pc = bee[b].pc /\ r.waits = bee[b].waits /\ r.emitInRaft = bee[b].emitInRaft
    BY <1>3, <1>5 DEF BeeFields
  <2> QED
    BY <1>2, <1>3, <1>5, <1>8, <2>1, <2>3, <2>4 DEF i, req
<1> QED
  BY <1>7, <1>8

\* cmdRefreshRole.
LEMMA RefreshRoleDoes ==
  ASSUME Types, NEW b \in Bee, RefreshRole(b)
  PROVE  /\ Changes(b, {"role"})
         /\ bee[b].pc = "idle"
         /\ bee'[b].role = IF bee[b].leader = b THEN "leader" ELSE "follower"
<1> DEFINE v == IF bee[b].leader = b THEN "leader" ELSE "follower"
<1>1. bee' = [bee EXCEPT ![b].role = v] /\ bee[b].pc = "idle"
  BY DEF RefreshRole
<1>2. DOMAIN bee = Bee /\ BeeFields \subseteq DOMAIN bee[b]
  BY DEF Types, BeesTyped, BeeTyped
<1> HIDE DEF v
<1>3. Changes(b, {"role"}) /\ bee'[b].role = v
  BY <1>1, <1>2 DEF Changes, BeeFields
<1> QED
  BY <1>1, <1>3 DEF v

\* handleMsgLeader opens the transaction.
LEMMA HandleDoes ==
  ASSUME Types, NEW b \in Bee, NEW m \in Msg, Handle(b, m)
  PROVE  /\ Changes(b, {"pc", "msg", "txOpen"})
         /\ bee[b].pc = "idle" /\ bee[b].role = "leader"
         /\ bee'[b].pc = "rcv" /\ bee'[b].txOpen
<1>1. bee' = [bee EXCEPT ![b].pc = "rcv", ![b].msg = {m}, ![b].txOpen = TRUE]
  BY DEF Handle
<1>2. DOMAIN bee = Bee /\ BeeFields \subseteq DOMAIN bee[b]
  BY DEF Types, BeesTyped, BeeTyped
<1>3. Changes(b, {"pc", "msg", "txOpen"}) /\ bee'[b].pc = "rcv" /\ bee'[b].txOpen
  BY Zenon, <1>1, <1>2 DEF Changes, BeeFields
<1> QED
  BY <1>3 DEF Handle

\* Rcv writes to the stage when the transaction is open.
LEMMA PutDoes ==
  ASSUME Types, NEW b \in Bee, NEW m \in Msg, Put(b, m)
  PROVE  /\ Changes(b, {"pc", "msg", "tx", "dirty"})
         /\ bee[b].pc = "rcv" /\ bee'[b].pc = "commit"
         /\ bee'[b].tx \in Seq(Msg) /\ bee'[b].dirty \in Seq(Msg)
         /\ bee[b].txOpen => bee'[b].dirty = bee[b].dirty
<1> DEFINE x == [bee[b] EXCEPT !.pc = "commit", !.msg = {}, !.tx = Append(@, m)]
           y == [bee[b] EXCEPT !.pc = "commit", !.msg = {}, !.dirty = Append(@, m)]
<1>1. PICK staged \in {TRUE, bee[b].txOpen} : bee' = [bee EXCEPT ![b] = IF staged THEN x ELSE y]
  BY Zenon DEF Put
<1>2. DOMAIN bee = Bee /\ BeeFields \subseteq DOMAIN bee[b]
      /\ bee[b].tx \in Seq(Msg) /\ bee[b].dirty \in Seq(Msg)
  BY DEF Types, BeesTyped, BeeTyped
<1>3. bee[b].pc = "rcv"
  BY DEF Put
<1>4. /\ BeeFields \subseteq DOMAIN x
      /\ \A f \in BeeFields \ {"pc", "msg", "tx", "dirty"} : x[f] = bee[b][f]
      /\ x.pc = "commit" /\ x.tx = Append(bee[b].tx, m) /\ x.dirty = bee[b].dirty
  BY Zenon, <1>2 DEF BeeFields
<1>5. /\ BeeFields \subseteq DOMAIN y
      /\ \A f \in BeeFields \ {"pc", "msg", "tx", "dirty"} : y[f] = bee[b][f]
      /\ y.pc = "commit" /\ y.tx = bee[b].tx /\ y.dirty = Append(bee[b].dirty, m)
  BY Zenon, <1>2 DEF BeeFields
<1>6. staged \/ ~bee[b].txOpen
  BY Zenon, <1>1
<1> HIDE DEF x, y
<1>7. DOMAIN bee' = Bee /\ \A c \in Bee \ {b} : bee'[c] = bee[c]
  BY <1>1, <1>2
<1>8. CASE staged
  <2>1. bee'[b] = x
    BY <1>1, <1>2, <1>8
  <2>2. x.tx \in Seq(Msg)
    BY <1>2, <1>4
  <2> QED
    BY Zenon, <1>2, <1>3, <1>4, <1>7, <2>1, <2>2 DEF Changes
<1>9. CASE ~staged
  <2>1. bee'[b] = y
    BY <1>1, <1>2, <1>9
  <2>2. y.dirty \in Seq(Msg)
    BY <1>2, <1>5
  <2> QED
    BY Zenon, <1>2, <1>3, <1>5, <1>6, <1>7, <1>9, <2>1, <2>2 DEF Changes
<1> QED
  BY <1>8, <1>9

\* CommitTx: the bee proposes its transaction and waits, or has none.
LEMMA ReplicateDoes ==
  ASSUME Types, NEW b \in Bee, replicate(b)
  PROVE  /\ Changes(b, {"pc", "waits"})
         /\ bee[b].pc = "commit"
         /\ \/ /\ Propose(b, bee[b].tx)
               /\ bee'[b].pc = "waiting" /\ bee'[b].waits = proposed'
            \/ /\ UNCHANGED <<flight, proposed>>
               /\ bee'[b].pc = "idle" /\ bee'[b].waits = bee[b].waits
<1>1. DOMAIN bee = Bee /\ BeeFields \subseteq DOMAIN bee[b]
  BY DEF Types, BeesTyped, BeeTyped
<1>2. bee[b].pc = "commit"
  BY DEF replicate
<1>3. CASE /\ Propose(b, bee[b].tx)
           /\ bee' = [bee EXCEPT ![b].pc = "waiting", ![b].waits = proposed']
  <2>1. Changes(b, {"pc", "waits"}) /\ bee'[b].pc = "waiting" /\ bee'[b].waits = proposed'
    BY Zenon, <1>1, <1>3 DEF Changes, BeeFields
  <2> QED
    BY <1>2, <1>3, <2>1
<1>4. CASE /\ bee' = [bee EXCEPT ![b].pc = "idle"] /\ UNCHANGED <<flight, proposed>>
  BY <1>1, <1>2, <1>4 DEF Changes, BeeFields
<1> QED
  BY <1>3, <1>4 DEF replicate

\* The context of Propose is done.
LEMMA TimeoutDoes ==
  ASSUME Types, NEW b \in Bee, Timeout(b)
  PROVE  /\ Changes(b, {"pc", "waits"})
         /\ bee[b].pc = "waiting" /\ bee'[b].pc = "idle" /\ bee'[b].waits = 0
         /\ timeouts' \in Nat /\ timeouts' # 0
<1>1. DOMAIN bee = Bee /\ BeeFields \subseteq DOMAIN bee[b] /\ timeouts \in Nat
  BY DEF Types, BeesTyped, BeeTyped, RaftTyped
<1>2. /\ bee' = [bee EXCEPT ![b].pc = "idle", ![b].waits = 0]
      /\ timeouts' = timeouts + 1 /\ bee[b].pc = "waiting"
  BY DEF Timeout
<1>3. timeouts' \in Nat /\ timeouts' # 0
  BY <1>1, <1>2
<1>4. /\ Changes(b, {"pc", "waits"})
      /\ bee'[b].pc = "idle" /\ bee'[b].waits = 0
  BY Zenon, <1>1, <1>2 DEF Changes, BeeFields
<1> QED
  BY <1>2, <1>3, <1>4

\* A hive stops.
LEMMA CrashDoes ==
  ASSUME Types, NEW b \in Bee, Crash(b)
  PROVE  /\ Changes(b, {"pc", "waits"})
         /\ bee'[b].pc = "down" /\ bee'[b].waits = 0
         /\ crashes' \in Nat /\ crashes' # 0
<1>1. DOMAIN bee = Bee /\ BeeFields \subseteq DOMAIN bee[b] /\ crashes \in Nat
  BY DEF Types, BeesTyped, BeeTyped, RaftTyped
<1>2. /\ bee' = [bee EXCEPT ![b].pc = "down", ![b].waits = 0]
      /\ crashes' = crashes + 1
  BY DEF Crash
<1>3. crashes' \in Nat /\ crashes' # 0
  BY <1>1, <1>2
<1>4. /\ Changes(b, {"pc", "waits"})
      /\ bee'[b].pc = "down" /\ bee'[b].waits = 0
  BY Zenon, <1>1, <1>2 DEF Changes, BeeFields
<1> QED
  BY <1>3, <1>4

\* queen.reloadBee: the bee starts from its snapshot and proposes a barrier.
LEMMA ReloadDoes ==
  ASSUME Types, NEW b \in Bee, reloadBee(b)
  PROVE  /\ Changes(b, BeeFields)
         /\ bee[b].pc = "down" /\ bee'[b].pc = "barrier"
         /\ Propose(b, <<>>) /\ bee'[b].waits = proposed'
         /\ ~bee'[b].emitInRaft
         /\ bee'[b].leader = colony.leader /\ bee'[b].role \in {"leader", "follower"}
         /\ bee'[b].raftTerm = 0 /\ bee'[b].seen = 0 /\ bee'[b].txTerm = 0
         /\ bee'[b].tx = <<>> /\ bee'[b].known = bee[b].applied
         /\ bee'[b].applied = snap[b].at
         /\ bee'[b].state = snap[b].state /\ bee'[b].dirty = snap[b].dirty
<1> DEFINE v == IF colony.leader = b THEN "leader" ELSE "follower"
           n == [NewBee(b) EXCEPT
                  !.pc = "barrier", !.waits = proposed', !.emitInRaft = FALSE,
                  !.leader = colony.leader, !.role = v,
                  !.applied = snap[b].at, !.known = bee[b].applied,
                  !.state = snap[b].state, !.dirty = snap[b].dirty]
<1>1. DOMAIN bee = Bee
  BY DEF Types, BeesTyped
<1>2. bee' = [bee EXCEPT ![b] = n] /\ bee[b].pc = "down" /\ Propose(b, <<>>)
  BY DEF reloadBee
<1>3. v \in {"leader", "follower"}
  OBVIOUS
<1> HIDE DEF v
<1>4. /\ BeeFields \subseteq DOMAIN n
      /\ n.pc = "barrier" /\ n.waits = proposed' /\ ~n.emitInRaft
      /\ n.leader = colony.leader /\ n.role = v
      /\ n.raftTerm = 0 /\ n.seen = 0 /\ n.txTerm = 0
      /\ n.tx = <<>> /\ n.known = bee[b].applied
      /\ n.applied = snap[b].at
      /\ n.state = snap[b].state /\ n.dirty = snap[b].dirty
  BY Zenon DEF NewBee, BeeFields
<1> HIDE DEF n
<1>5. bee'[b] = n /\ DOMAIN bee' = Bee /\ \A c \in Bee \ {b} : bee'[c] = bee[c]
  BY <1>1, <1>2
<1> QED
  BY <1>2, <1>3, <1>4, <1>5 DEF Changes

\* ProposeRetry of the barrier.
LEMMA RetryDoes ==
  ASSUME Types, NEW b \in Bee, RetryBarrier(b)
  PROVE  /\ Changes(b, {"waits"})
         /\ bee[b].pc = "barrier"
         /\ Propose(b, <<>>) /\ bee'[b].waits = proposed'
         /\ timeouts' \in Nat /\ timeouts' # 0
<1>1. DOMAIN bee = Bee /\ BeeFields \subseteq DOMAIN bee[b] /\ timeouts \in Nat
  BY DEF Types, BeesTyped, BeeTyped, RaftTyped
<1>2. bee' = [bee EXCEPT ![b].waits = proposed'] /\ timeouts' = timeouts + 1
      /\ bee[b].pc = "barrier" /\ Propose(b, <<>>)
  BY DEF RetryBarrier
<1> QED
  BY <1>1, <1>2 DEF Changes, BeeFields
-----------------------------------------------------------------------------
(* Types *)

\* A bee whose fields outside F have kept their values is well formed when
\* the ones in F are.
LEMMA StillTyped ==
  ASSUME NEW r, NEW s, BeeTyped(r), NEW F,
         BeeFields \subseteq DOMAIN s,
         \A f \in BeeFields \ F : s[f] = r[f],
         "pc" \in F => s.pc \in {"idle", "rcv", "commit", "waiting", "barrier", "down"},
         "leader" \in F => s.leader \in Bee,
         "role" \in F => s.role \in {"leader", "follower"},
         "raftTerm" \in F => s.raftTerm \in 0..MaxTerm,
         "txTerm" \in F => s.txTerm \in 0..MaxTerm,
         "seen" \in F => s.seen \in Nat,
         "known" \in F => s.known \in Nat,
         "applied" \in F => s.applied \in Nat,
         "waits" \in F => s.waits \in Nat,
         "tx" \in F => s.tx \in Seq(Msg),
         "state" \in F => s.state \in Seq(Msg),
         "dirty" \in F => s.dirty \in Seq(Msg),
         s.waits # 0 <=> s.pc \in {"waiting", "barrier"}
  PROVE  BeeTyped(s)
<1>1. s.pc \in {"idle", "rcv", "commit", "waiting", "barrier", "down"}
  BY DEF BeeTyped, BeeFields
<1>2. s.leader \in Bee /\ s.role \in {"leader", "follower"}
  BY DEF BeeTyped, BeeFields
<1>3. s.raftTerm \in 0..MaxTerm /\ s.txTerm \in 0..MaxTerm
  BY DEF BeeTyped, BeeFields
<1>4. s.seen \in Nat /\ s.known \in Nat /\ s.applied \in Nat /\ s.waits \in Nat
  BY DEF BeeTyped, BeeFields
<1>5. s.tx \in Seq(Msg) /\ s.state \in Seq(Msg) /\ s.dirty \in Seq(Msg)
  BY DEF BeeTyped, BeeFields
<1> QED
  BY <1>1, <1>2, <1>3, <1>4, <1>5 DEF BeeTyped

\* A proposal has a number of its own.
LEMMA ProposeTyped ==
  ASSUME Types, NEW b \in Bee, NEW msgs \in Seq(Msg), Propose(b, msgs)
  PROVE  /\ proposed' = proposed + 1 /\ proposed' \in Nat
         /\ flight' \subseteq Request /\ \A p \in flight' : p.id \in 1..proposed'
         /\ \E p : flight' = flight \cup {p} /\ p.id = proposed'
<1> DEFINE p == [id |-> proposed', term |-> bee[b].raftTerm, msgs |-> msgs]
<1>1. proposed \in Nat /\ flight \subseteq Request /\ \A q \in flight : q.id \in 1..proposed
  BY DEF Types, RaftTyped
<1>2. bee[b].raftTerm \in 0..MaxTerm
  BY DEF Types, BeesTyped, BeeTyped
<1>3. proposed' = proposed + 1 /\ flight' = flight \cup {p}
  BY DEF Propose
<1>4. p \in Request /\ p.id = proposed'
  BY <1>1, <1>2, <1>3 DEF Request
<1> HIDE DEF p
<1>5. \A q \in flight' : q.id \in 1..proposed'
  BY <1>1, <1>3, <1>4
<1> QED
  BY <1>1, <1>3, <1>4, <1>5

\* Steps of one bee that leave Raft and the snapshots alone.
LEMMA BeeStepTyped ==
  ASSUME Types, NEW b \in Bee, NEW F, Changes(b, F), "applied" \notin F,
         BeeTyped(bee'[b]),
         UNCHANGED <<log, leaders, colony, snap>>,
         proposed' = proposed \/ proposed' = proposed + 1,
         flight' \subseteq Request, \A p \in flight' : p.id \in 1..proposed',
         updates' \subseteq [leader : Bee, term : 0..MaxTerm],
         timeouts' \in Nat, crashes' \in Nat
  PROVE  Types'
<1>1. RaftTyped'
  <2>1. \A i \in 1..Len(log) : log[i].req.id \in 1..proposed'
    BY DEF Types, RaftTyped
  <2> QED
    BY <2>1 DEF Types, RaftTyped
<1>2. bee'[b].applied = bee[b].applied
  BY DEF Changes, BeeFields
<1>3. BeesTyped'
  BY <1>2 DEF Types, BeesTyped, Changes
<1>4. SnapsTyped'
  BY <1>2 DEF Types, SnapsTyped, Changes
<1> QED
  BY <1>1, <1>3, <1>4 DEF Types

LEMMA InitTypes == Init => Types
<1> SUFFICES ASSUME Init PROVE Types
  OBVIOUS
<1> USE BeeReplicationAssumption
<1>1. RaftTyped
  <2>1. flight = {} /\ proposed = 0 /\ log = <<>> /\ leaders = <<>> /\ updates = {}
        /\ colony = [leader |-> First, term |-> 0] /\ timeouts = 0 /\ crashes = 0
    BY DEF Init
  <2> QED
    BY <2>1 DEF RaftTyped
<1>2. ASSUME NEW b \in Bee
      PROVE  BeeTyped(bee[b]) /\ bee[b].applied = 0
  <2> DEFINE v == IF b = First THEN "leader" ELSE "follower"
  <2>1. v \in {"leader", "follower"}
    OBVIOUS
  <2>2. bee[b] = NewBee(b)
    BY DEF Init
  <2> HIDE DEF v
  <2> QED
    BY <2>1, <2>2 DEF NewBee, BeeTyped, BeeFields, v
<1>3. BeesTyped
  BY <1>1, <1>2 DEF BeesTyped, Init, RaftTyped
<1>4. SnapsTyped
  <2>1. snap = [b \in Bee |-> [at |-> 0, state |-> <<>>, dirty |-> <<>>]]
    BY DEF Init
  <2>2. ASSUME NEW b \in Bee
        PROVE  SnapTyped(snap[b]) /\ snap[b].at = 0
    <3>1. snap[b] = [at |-> 0, state |-> <<>>, dirty |-> <<>>]
      BY <2>1
    <3> QED
      BY <3>1 DEF SnapTyped
  <2>3. DOMAIN snap = Bee
    BY <2>1
  <2> QED
    BY <1>2, <2>2, <2>3 DEF SnapsTyped
<1> QED
  BY <1>1, <1>3, <1>4 DEF Types

LEMMA CommitTypes ==
  ASSUME Types, NEW p \in flight, Commit(p)
  PROVE  /\ Types'
         /\ Len(log') = Len(log) + 1 /\ log'[Len(log) + 1].req = p
         /\ \A i \in 1..Len(log) : log'[i] = log[i]
<1> DEFINE e == [req |-> p, raftTerm |-> Len(leaders)]
<1>1. /\ log \in Seq(Entry) /\ leaders \in Seq(Bee) /\ p \in Request /\ p.id \in 1..proposed
      /\ \A i \in 1..Len(log) : log[i].req.id \in 1..proposed
  BY DEF Types, RaftTyped
<1>2. log' = Append(log, e) /\ flight' = flight \ {p}
      /\ UNCHANGED <<proposed, leaders, colony, updates, bee, snap, timeouts, crashes>>
  BY DEF Commit, registry, bounds
<1>3. e \in Entry /\ e.req = p
  BY <1>1 DEF Entry
<1> HIDE DEF e
<1>4. /\ log' \in Seq(Entry) /\ Len(log') = Len(log) + 1 /\ log'[Len(log) + 1] = e
      /\ \A i \in 1..Len(log) : log'[i] = log[i]
  BY <1>1, <1>2, <1>3
<1>5. \A i \in 1..Len(log') : log'[i].req.id \in 1..proposed
  BY <1>1, <1>3, <1>4
<1>6. RaftTyped'
  BY <1>2, <1>4, <1>5 DEF Types, RaftTyped
<1>7. BeesTyped'
  BY <1>1, <1>2, <1>4 DEF Types, BeesTyped, BeeTyped
<1>8. SnapsTyped'
  BY <1>2 DEF Types, SnapsTyped
<1> QED
  BY <1>3, <1>4, <1>6, <1>7, <1>8 DEF Types

LEMMA ApplyTypes ==
  ASSUME Types, NEW b \in Bee, Apply(b)
  PROVE  /\ Types'
         /\ \A c \in Bee : snap[c].at # 0 => snap'[c].at # 0
<1> DEFINE i == bee[b].applied + 1
           req == log[i].req
           a == applyTx(bee[b], req)
           r == [a EXCEPT !.applied = i]
           n == [at |-> i, state |-> r.state, dirty |-> r.dirty]
<1>1. /\ Changes(b, ApplyFields)
      /\ i \in 1..Len(log) /\ req \in Request /\ bee'[b].applied = i
      /\ bee'[b].state = StateAfter(bee[b].state, bee[b].txTerm, req)
      /\ bee'[b].txTerm = TermAfter(bee[b].txTerm, req)
      /\ bee'[b].tx \in Seq(Msg)
      /\ IF bee[b].waits = req.id
         THEN bee'[b].pc = "idle" /\ bee'[b].waits = 0
         ELSE bee'[b].pc = bee[b].pc /\ bee'[b].waits = bee[b].waits
  BY ApplyDoes
<1>2. BeeTyped(bee[b])
  BY DEF Types, BeesTyped
<1>3. /\ StateAfter(bee[b].state, bee[b].txTerm, req) \in Seq(Msg)
      /\ TermAfter(bee[b].txTerm, req) \in 0..MaxTerm
  <2>1. req.msgs \in Seq(Msg) /\ req.term \in 0..MaxTerm
    BY SMTT(30), <1>1 DEF Request
  <2> HIDE DEF req
  <2> QED
    BY SMTT(30), <1>2, <2>1 DEF StateAfter, TermAfter, BeeTyped
<1>4. snap' = IF i - snap[b].at > SnapCount THEN [snap EXCEPT ![b] = n] ELSE snap
  BY SMTT(30) DEF Apply
<1>5. UNCHANGED <<flight, proposed, log, leaders, colony, updates, timeouts, crashes>>
  BY DEF Apply, raft, registry, bounds
<1>6. BeeTyped(a) /\ r.state \in Seq(Msg) /\ r.dirty \in Seq(Msg)
  <2>1. /\ BeeFields \subseteq DOMAIN a
        /\ \A f \in BeeFields \ {"txTerm", "state", "txOpen", "tx"} : a[f] = bee[b][f]
        /\ a.state \in Seq(Msg) /\ a.txTerm \in 0..MaxTerm /\ a.tx \in Seq(Msg)
    BY <1>1, <1>2, <1>3, ApplyTxDoes
  <2> HIDE DEF a
  <2>2. a.waits = bee[b].waits /\ a.pc = bee[b].pc
    BY <2>1 DEF BeeFields
  <2>3. BeeTyped(a)
    <3> DEFINE F == {"txTerm", "state", "txOpen", "tx"}
    <3>1. \A f \in {"pc", "leader", "role", "raftTerm", "seen", "known", "applied",
                     "waits", "dirty"} : f \notin F
      OBVIOUS
    <3>2. a.waits # 0 <=> a.pc \in {"waiting", "barrier"}
      BY <1>2, <2>2 DEF BeeTyped
    <3> HIDE DEF F
    <3> QED
      BY Zenon, <1>2, <2>1, <3>1, <3>2, StillTyped DEF F
  <2>4. r.state = a.state /\ r.dirty = a.dirty
    BY <2>1 DEF BeeFields
  <2> QED
    BY SMTT(30), <2>3, <2>4 DEF BeeTyped
<1> HIDE DEF req, r, a
<1>7. SnapTyped(n) /\ n.at = i
  BY <1>1, <1>6 DEF SnapTyped
<1> HIDE DEF n
<1>8. BeeTyped(bee'[b])
  <2>1. bee'[b].waits # 0 <=> bee'[b].pc \in {"waiting", "barrier"}
    BY SMTT(30), <1>1, <1>2 DEF BeeTyped
  <2>2. bee'[b].pc \in {"idle", "rcv", "commit", "waiting", "barrier", "down"}
        /\ bee'[b].waits \in Nat
    BY SMTT(30), <1>1, <1>2 DEF BeeTyped
  <2>3. \A f \in {"leader", "role", "raftTerm", "seen", "known", "dirty"} : f \notin ApplyFields
    BY DEF ApplyFields
  <2>4. bee'[b].applied \in Nat
    BY <1>1
  <2> QED
    BY SMTT(30), <1>1, <1>2, <1>3, <2>1, <2>2, <2>3, <2>4, StillTyped DEF Changes
<1>9. BeesTyped'
  BY <1>1, <1>5, <1>8 DEF Types, BeesTyped, Changes
<1>10. /\ DOMAIN snap' = Bee
       /\ \A c \in Bee \ {b} : snap'[c] = snap[c]
       /\ snap'[b] = snap[b] \/ snap'[b] = n
  BY <1>4 DEF Types, SnapsTyped
<1>11. SnapsTyped'
  <2>1. \A c \in Bee \ {b} : bee'[c] = bee[c]
    BY <1>1 DEF Changes
  <2>2. snap[b].at <= i /\ i # 0
    BY SMTT(30), <1>2 DEF Types, SnapsTyped, SnapTyped, BeeTyped
  <2> HIDE DEF i
  <2> QED
    BY <1>1, <1>7, <1>10, <2>1, <2>2 DEF Types, SnapsTyped
<1>12. RaftTyped'
  BY <1>5 DEF Types, RaftTyped
<1>13. \A c \in Bee : snap[c].at # 0 => snap'[c].at # 0
  BY <1>1, <1>7, <1>10
<1> QED
  BY SMTT(30), <1>9, <1>11, <1>12, <1>13 DEF Types

\* Every step keeps the types.
LEMMA NextTypes ==
  ASSUME Types, [Next]_vars
  PROVE  Types'
<1> USE BeeReplicationAssumption
<1> DEFINE Colonies == [leader : Bee, term : 0..MaxTerm]
<1>0. /\ proposed \in Nat /\ flight \subseteq Request
      /\ \A p \in flight : p.id \in 1..proposed
      /\ colony \in Colonies /\ updates \subseteq Colonies
      /\ timeouts \in Nat /\ crashes \in Nat /\ <<>> \in Seq(Msg)
  BY DEF Types, RaftTyped
<1>1. ASSUME NEW p \in flight, Commit(p) PROVE Types'
  BY <1>1, CommitTypes
<1>2. ASSUME NEW u \in updates, UpdateColony(u) PROVE Types'
  <2>1. UNCHANGED <<flight, proposed, log, leaders, bee, snap, timeouts, crashes>>
    BY <1>2 DEF UpdateColony, raft, bounds
  <2>2. colony' \in Colonies /\ updates' \subseteq Colonies
    BY <1>0, <1>2 DEF UpdateColony
  <2>3. RaftTyped'
    BY <2>1, <2>2 DEF Types, RaftTyped
  <2>4. BeesTyped' /\ SnapsTyped'
    BY <2>1 DEF Types, BeesTyped, SnapsTyped
  <2> QED
    BY <2>3, <2>4 DEF Types
<1>3. ASSUME NEW b \in Bee, Elect(b) PROVE Types'
  <2>1. UNCHANGED <<flight, proposed, log, colony, updates, bee, snap, timeouts, crashes>>
    BY <1>3 DEF Elect, registry, bounds
  <2>2. leaders' \in Seq(Bee) /\ Len(leaders') <= MaxTerm
    BY <1>3 DEF Elect, Types, RaftTyped
  <2>3. RaftTyped'
    BY <2>1, <2>2 DEF Types, RaftTyped
  <2>4. BeesTyped' /\ SnapsTyped'
    BY <2>1 DEF Types, BeesTyped, SnapsTyped
  <2> QED
    BY <2>3, <2>4 DEF Types
<1>4. ASSUME NEW b \in Bee, NEW t \in 1..MaxTerm, NEW ev \in 0..MaxTerm, LearnLeader(b, t, ev)
      PROVE  Types'
  <2>1. /\ Changes(b, LearnFields)
        /\ bee'[b].seen \in Nat /\ bee'[b].leader \in Bee /\ bee'[b].raftTerm \in 0..MaxTerm
        /\ updates' \subseteq [leader : Bee, term : 0..MaxTerm]
    BY <1>4, LearnLeaderDoes
  <2>2. UNCHANGED <<flight, proposed, log, leaders, colony, snap, timeouts, crashes>>
    BY <1>4 DEF LearnLeader, raft, bounds
  <2>3. bee'[b].waits = bee[b].waits /\ bee'[b].pc = bee[b].pc /\ BeeTyped(bee[b])
        /\ "applied" \notin LearnFields
    BY <2>1 DEF Changes, LearnFields, BeeFields, Types, BeesTyped
  <2>4. BeeTyped(bee'[b])
    <3>1. \A f \in {"pc", "role", "txTerm", "known", "applied", "waits", "tx", "state",
                     "dirty"} : f \notin LearnFields
      BY DEF LearnFields
    <3>2. bee'[b].waits # 0 <=> bee'[b].pc \in {"waiting", "barrier"}
      BY <2>3 DEF BeeTyped
    <3> QED
      BY <2>1, <2>3, <3>1, <3>2, StillTyped DEF Changes
  <2> QED
    BY <1>0, <2>1, <2>2, <2>3, <2>4, BeeStepTyped
<1>5. ASSUME NEW b \in Bee, Apply(b) PROVE Types'
  BY <1>5, ApplyTypes
<1>6. ASSUME NEW b \in Bee, RefreshRole(b) PROVE Types'
  <2> DEFINE F == {"role"}
  <2>1. Changes(b, F)
        /\ bee'[b].role \in {"leader", "follower"}
    BY <1>6, RefreshRoleDoes
  <2>2. UNCHANGED <<flight, proposed, log, leaders, colony, updates, snap, timeouts, crashes>>
    BY <1>6 DEF RefreshRole, raft, registry, bounds
  <2>3. \A f \in {"pc", "leader", "raftTerm", "txTerm", "seen", "known", "applied", "waits", "tx", "state", "dirty"} : f \notin F
    OBVIOUS
  <2> HIDE DEF F
  <2>4. BeeTyped(bee[b]) /\ \A f \in BeeFields \ F : bee'[b][f] = bee[b][f]
    BY <2>1 DEF Types, BeesTyped, Changes
  <2>5. bee'[b].waits # 0 <=> bee'[b].pc \in {"waiting", "barrier"}
    BY <2>1, <2>3, <2>4 DEF BeeTyped, BeeFields
  <2>6. BeeTyped(bee'[b])
    BY SMTT(30), <2>1, <2>3, <2>4, <2>5, StillTyped DEF Changes
  <2> QED
    BY <1>0, <2>1, <2>2, <2>3, <2>6, BeeStepTyped
<1>7. ASSUME NEW b \in Bee, NEW m \in Msg, Handle(b, m) PROVE Types'
  <2> DEFINE F == {"pc", "msg", "txOpen"}
  <2>1. Changes(b, F)
        /\ bee[b].pc = "idle" /\ bee'[b].pc = "rcv"
    BY <1>7, HandleDoes
  <2>2. UNCHANGED <<flight, proposed, log, leaders, colony, updates, snap, timeouts, crashes>>
    BY <1>7 DEF Handle, raft, registry, bounds
  <2>3. \A f \in {"leader", "role", "raftTerm", "txTerm", "seen", "known", "applied", "waits", "tx", "state", "dirty"} : f \notin F
    OBVIOUS
  <2> HIDE DEF F
  <2>4. BeeTyped(bee[b]) /\ \A f \in BeeFields \ F : bee'[b][f] = bee[b][f]
    BY <2>1 DEF Types, BeesTyped, Changes
  <2>5. bee'[b].waits # 0 <=> bee'[b].pc \in {"waiting", "barrier"}
    BY <2>1, <2>3, <2>4 DEF BeeTyped, BeeFields
  <2>6. BeeTyped(bee'[b])
    BY SMTT(30), <2>1, <2>3, <2>4, <2>5, StillTyped DEF Changes
  <2> QED
    BY <1>0, <2>1, <2>2, <2>3, <2>6, BeeStepTyped
<1>8. ASSUME NEW b \in Bee, NEW m \in Msg, Put(b, m) PROVE Types'
  <2> DEFINE F == {"pc", "msg", "tx", "dirty"}
  <2>1. Changes(b, F)
        /\ bee[b].pc = "rcv" /\ bee'[b].pc = "commit"
        /\ bee'[b].tx \in Seq(Msg) /\ bee'[b].dirty \in Seq(Msg)
    BY <1>8, PutDoes
  <2>2. UNCHANGED <<flight, proposed, log, leaders, colony, updates, snap, timeouts, crashes>>
    BY <1>8 DEF Put, raft, registry, bounds
  <2>3. \A f \in {"leader", "role", "raftTerm", "txTerm", "seen", "known", "applied", "waits", "state"} : f \notin F
    OBVIOUS
  <2> HIDE DEF F
  <2>4. BeeTyped(bee[b]) /\ \A f \in BeeFields \ F : bee'[b][f] = bee[b][f]
    BY <2>1 DEF Types, BeesTyped, Changes
  <2>5. bee'[b].waits # 0 <=> bee'[b].pc \in {"waiting", "barrier"}
    BY <2>1, <2>3, <2>4 DEF BeeTyped, BeeFields
  <2>6. BeeTyped(bee'[b])
    BY <2>1, <2>3, <2>4, <2>5, StillTyped DEF Changes
  <2> QED
    BY <1>0, <2>1, <2>2, <2>3, <2>6, BeeStepTyped
<1>10. ASSUME NEW b \in Bee, Timeout(b) PROVE Types'
  <2> DEFINE F == {"pc", "waits"}
  <2>1. Changes(b, F)
        /\ bee'[b].pc = "idle" /\ bee'[b].waits = 0
        /\ timeouts' \in Nat
    BY <1>10, TimeoutDoes
  <2>2. UNCHANGED <<flight, proposed, log, leaders, colony, updates, snap, crashes>>
    BY <1>10 DEF Timeout, raft, registry
  <2>3. \A f \in {"leader", "role", "raftTerm", "txTerm", "seen", "known", "applied", "tx", "state", "dirty"} : f \notin F
    OBVIOUS
  <2> HIDE DEF F
  <2>4. BeeTyped(bee[b]) /\ \A f \in BeeFields \ F : bee'[b][f] = bee[b][f]
    BY <2>1 DEF Types, BeesTyped, Changes
  <2>5. bee'[b].waits # 0 <=> bee'[b].pc \in {"waiting", "barrier"}
    BY <2>1, <2>3, <2>4 DEF BeeTyped, BeeFields
  <2>6. BeeTyped(bee'[b])
    BY SMTT(30), <2>1, <2>3, <2>4, <2>5, StillTyped DEF Changes
  <2> QED
    BY <1>0, <2>1, <2>2, <2>3, <2>6, BeeStepTyped
<1>11. ASSUME NEW b \in Bee, Crash(b) PROVE Types'
  <2> DEFINE F == {"pc", "waits"}
  <2>1. Changes(b, F)
        /\ bee'[b].pc = "down" /\ bee'[b].waits = 0
        /\ crashes' \in Nat
    BY <1>11, CrashDoes
  <2>2. UNCHANGED <<flight, proposed, log, leaders, colony, updates, snap, timeouts>>
    BY <1>11 DEF Crash, raft, registry
  <2>3. \A f \in {"leader", "role", "raftTerm", "txTerm", "seen", "known", "applied", "tx", "state", "dirty"} : f \notin F
    OBVIOUS
  <2> HIDE DEF F
  <2>4. BeeTyped(bee[b]) /\ \A f \in BeeFields \ F : bee'[b][f] = bee[b][f]
    BY <2>1 DEF Types, BeesTyped, Changes
  <2>5. bee'[b].waits # 0 <=> bee'[b].pc \in {"waiting", "barrier"}
    BY <2>1, <2>3, <2>4 DEF BeeTyped, BeeFields
  <2>6. BeeTyped(bee'[b])
    BY <2>1, <2>3, <2>4, <2>5, StillTyped DEF Changes
  <2> QED
    BY <1>0, <2>1, <2>2, <2>3, <2>6, BeeStepTyped
<1>9. ASSUME NEW b \in Bee, replicate(b) PROVE Types'
  <2> DEFINE F == {"pc", "waits"}
  <2>1. Changes(b, F)
        /\ bee[b].pc = "commit"
        /\ \/ /\ Propose(b, bee[b].tx)
              /\ bee'[b].pc = "waiting" /\ bee'[b].waits = proposed'
           \/ /\ UNCHANGED <<flight, proposed>>
              /\ bee'[b].pc = "idle" /\ bee'[b].waits = bee[b].waits
    BY <1>9, ReplicateDoes
  <2>2. UNCHANGED <<log, leaders, colony, updates, snap, timeouts, crashes>>
    BY <1>9 DEF replicate, registry, bounds
  <2>3. \A f \in {"leader", "role", "raftTerm", "txTerm", "seen", "known", "applied", "tx", "state", "dirty"} : f \notin F
    OBVIOUS
  <2> HIDE DEF F
  <2>4. BeeTyped(bee[b]) /\ \A f \in BeeFields \ F : bee'[b][f] = bee[b][f]
    BY <2>1 DEF Types, BeesTyped, Changes
  <2>7. Propose(b, bee[b].tx) => /\ proposed' = proposed + 1 /\ proposed' \in Nat
                             /\ flight' \subseteq Request
                             /\ \A p \in flight' : p.id \in 1..proposed'
    <3>1. bee[b].tx \in Seq(Msg)
      BY SMTT(30), <2>4 DEF BeeTyped
    <3> QED
      BY <3>1, ProposeTyped
  <2>5. /\ bee'[b].waits \in Nat
        /\ bee'[b].waits # 0 <=> bee'[b].pc \in {"waiting", "barrier"}
    BY SMTT(30), <1>0, <2>1, <2>4, <2>7 DEF BeeTyped
  <2>6. BeeTyped(bee'[b])
    BY <2>1, <2>3, <2>4, <2>5, StillTyped DEF Changes
  <2> QED
    BY SMTT(30), <1>0, <2>1, <2>2, <2>3, <2>6, <2>7, BeeStepTyped
<1>12. ASSUME NEW b \in Bee, reloadBee(b) PROVE Types'
  <2>1. /\ Changes(b, BeeFields)
        /\ bee[b].pc = "down" /\ bee'[b].pc = "barrier"
        /\ Propose(b, <<>>) /\ bee'[b].waits = proposed'
        /\ bee'[b].leader = colony.leader /\ bee'[b].role \in {"leader", "follower"}
        /\ bee'[b].raftTerm = 0 /\ bee'[b].seen = 0 /\ bee'[b].txTerm = 0
        /\ bee'[b].tx = <<>> /\ bee'[b].known = bee[b].applied
        /\ bee'[b].applied = snap[b].at
        /\ bee'[b].state = snap[b].state /\ bee'[b].dirty = snap[b].dirty
    BY <1>12, ReloadDoes
  <2>2. UNCHANGED <<log, leaders, colony, updates, snap, timeouts, crashes>>
    BY SMTT(30), <1>12 DEF reloadBee, registry, bounds
  <2>3. /\ proposed' = proposed + 1 /\ proposed' \in Nat /\ flight' \subseteq Request
        /\ \A p \in flight' : p.id \in 1..proposed'
    BY Zenon, <1>0, <2>1, ProposeTyped
  <2>4. BeeTyped(bee[b]) /\ SnapTyped(snap[b]) /\ snap[b].at <= bee[b].applied
        /\ bee[b].applied <= Len(log)
    BY DEF Types, BeesTyped, SnapsTyped
  <2>5. BeeTyped(bee'[b])
    BY SMTT(30), <1>0, <2>1, <2>3, <2>4 DEF BeeTyped, SnapTyped, Changes
  <2>6. BeesTyped'
    <3>1. bee'[b].applied <= Len(log)
      <4>1. snap[b].at \in Nat /\ bee[b].applied \in Nat
        BY Zenon, <2>4 DEF BeeTyped, SnapTyped
      <4>2. Len(log) \in Nat
        BY DEF Types, RaftTyped
      <4>3. bee'[b].applied = snap[b].at
        BY Zenon, <2>1
      <4> QED
        BY <2>4, <4>1, <4>2, <4>3
    <3> QED
      BY SMTT(30), <2>1, <2>2, <2>5, <3>1 DEF Types, BeesTyped, Changes
  <2>7. SnapsTyped'
    <3>1. snap[b].at <= bee'[b].applied
      BY <2>1, <2>4 DEF SnapTyped
    <3> QED
      BY ZenonT(40), <2>1, <2>2, <3>1 DEF Types, SnapsTyped, Changes
  <2>8. RaftTyped'
    <3>1. \A i \in 1..Len(log) : log[i].req.id \in 1..proposed'
      BY SMTT(30), <2>3 DEF Types, RaftTyped
    <3> QED
      BY ZenonT(40), <2>2, <2>3, <3>1 DEF Types, RaftTyped
  <2> QED
    BY SMTT(30), <2>6, <2>7, <2>8 DEF Types
<1>13. ASSUME NEW b \in Bee, RetryBarrier(b) PROVE Types'
  <2> DEFINE F == {"waits"}
  <2>1. Changes(b, F)
        /\ bee[b].pc = "barrier"
        /\ Propose(b, <<>>) /\ bee'[b].waits = proposed'
        /\ timeouts' \in Nat
    BY <1>13, RetryDoes
  <2>2. UNCHANGED <<log, leaders, colony, updates, snap, crashes>>
    BY <1>13 DEF RetryBarrier, registry
  <2>3. \A f \in {"pc", "leader", "role", "raftTerm", "txTerm", "seen", "known", "applied", "tx", "state", "dirty"} : f \notin F
    OBVIOUS
  <2> HIDE DEF F
  <2>4. BeeTyped(bee[b]) /\ \A f \in BeeFields \ F : bee'[b][f] = bee[b][f]
    BY <2>1 DEF Types, BeesTyped, Changes
  <2>7. /\ proposed' = proposed + 1 /\ proposed' \in Nat /\ flight' \subseteq Request
        /\ \A p \in flight' : p.id \in 1..proposed'
    BY ZenonT(40), <1>0, <2>1, ProposeTyped
  <2>8. bee'[b].pc = "barrier"
    BY <2>1, <2>3, <2>4 DEF BeeFields
  <2>5. /\ bee'[b].waits \in Nat
        /\ bee'[b].waits # 0 <=> bee'[b].pc \in {"waiting", "barrier"}
    BY <1>0, <2>1, <2>7, <2>8
  <2>6. BeeTyped(bee'[b])
    BY SMTT(30), <2>1, <2>3, <2>4, <2>5, StillTyped DEF Changes
  <2> QED
    BY ZenonT(40), <1>0, <2>1, <2>2, <2>3, <2>6, <2>7, BeeStepTyped
<1>14. CASE UNCHANGED vars
  BY SMTT(30), <1>14 DEF vars, raft, registry, bounds, Types, RaftTyped, BeesTyped, SnapsTyped
<1> QED
  BY <1>1, <1>2, <1>3, <1>4, <1>5, <1>6, <1>7, <1>8, <1>9, <1>10, <1>11, <1>12, <1>13,
     <1>14 DEF Next
-----------------------------------------------------------------------------
(* A bee emits once *)

\* Steps of one bee that neither apply nor restart.
LEMMA EmittingFrame ==
  ASSUME Emitting, NEW b \in Bee, NEW F, Changes(b, F), UNCHANGED <<log, out>>,
         F \cap {"emitInRaft", "applied"} = {},
         \/ F \cap {"pc", "waits"} = {}
         \/ bee'[b].pc = "down"
         \/ bee[b].pc \notin {"barrier", "down"} /\ bee'[b].pc # "barrier"
  PROVE  Emitting'
<1>1. /\ bee'[b].emitInRaft = bee[b].emitInRaft
      /\ bee'[b].applied = bee[b].applied
      /\ F \cap {"pc", "waits"} = {} =>
           bee'[b].pc = bee[b].pc /\ bee'[b].waits = bee[b].waits
  BY SMTT(30) DEF Changes, BeeFields
<1>2. EmitOK(b)
  BY DEF Emitting
<1>3. EmitOK(b)'
  <2>1. CASE F \cap {"pc", "waits"} = {}
    BY <1>1, <1>2, <2>1 DEF EmitOK
  <2>2. CASE bee'[b].pc = "down"
    BY SMTT(30), <1>1, <1>2, <2>2 DEF EmitOK
  <2>3. CASE bee[b].pc \notin {"barrier", "down"} /\ bee'[b].pc # "barrier"
    BY <1>1, <1>2, <2>3 DEF EmitOK
  <2> QED
    BY SMTT(30), <2>1, <2>2, <2>3
<1>4. \A c \in Bee \ {b} : EmitOK(c)'
  BY ZenonT(40) DEF Emitting, EmitOK, Changes
<1> QED
  BY <1>3, <1>4 DEF Emitting, EmitsOnce

\* Steps that restart a bee, or repeat its barrier: no entry has its number.
LEMMA EmittingBarrier ==
  ASSUME Types, Emitting, NEW b \in Bee, NEW F, Changes(b, F), UNCHANGED <<log, out>>,
         bee'[b].pc = "barrier", ~bee'[b].emitInRaft,
         bee'[b].waits = proposed', proposed' = proposed + 1
  PROVE  Emitting'
<1>1. \A i \in 1..Len(log) : log[i].req.id # bee'[b].waits
  BY DEF Types, RaftTyped
<1>2. EmitOK(b)
  BY DEF Emitting
<1>3. EmitOK(b)'
  BY <1>1, <1>2 DEF EmitOK
<1>4. \A c \in Bee \ {b} : EmitOK(c)'
  BY ZenonT(40) DEF Emitting, EmitOK, Changes
<1> QED
  BY <1>3, <1>4 DEF Emitting, EmitsOnce

\* A commit: the new entry is behind all that were emitted.
LEMMA EmittingCommit ==
  ASSUME Types, Emitting, NEW p \in flight, Commit(p)
  PROVE  Emitting'
<1>1. /\ Len(log') = Len(log) + 1 /\ \A i \in 1..Len(log) : log'[i] = log[i]
      /\ Len(log) \in Nat
  BY CommitTypes DEF Types, RaftTyped
<1>2. UNCHANGED <<bee, out>>
  BY DEF Commit
<1>3. ASSUME NEW b \in Bee PROVE EmitOK(b)'
  <2>1. EmitOK(b) /\ out[b] \in Seq(Nat)
    BY DEF Emitting
  <2>2. \A k \in 1..Len(out[b]) : out[b][k] <= Len(log') /\ out[b][k] < Len(log) + 1
    BY <1>1, <2>1 DEF EmitOK
  <2>3. ASSUME bee[b].pc = "barrier", NEW i \in 1..Len(log'), log'[i].req.id = bee[b].waits
        PROVE  \A k \in 1..Len(out[b]) : out[b][k] < i
    <3>1. CASE i = Len(log) + 1
      BY <2>2, <3>1
    <3>2. CASE i \in 1..Len(log)
      <4>1. log[i].req.id = bee[b].waits
        BY <1>1, <2>3, <3>2
      <4> QED
        BY <2>1, <2>3, <3>2, <4>1 DEF EmitOK
    <3> QED
      BY <1>1, <3>1, <3>2
  <2> QED
    BY <1>2, <2>1, <2>2, <2>3 DEF EmitOK
<1> QED
  BY <1>2, <1>3 DEF Emitting, EmitsOnce

Increasing(s) == \A k, l \in DOMAIN s : k < l => s[k] < s[l]

LEMMA EmitNext ==
  ASSUME NEW s \in Seq(Nat), NEW t \in Seq(Nat), NEW i \in Nat, NEW n \in Nat, i <= n,
         t = s \/ t = Append(s, i), \A k \in 1..Len(s) : s[k] < i
  PROVE  /\ \A k \in 1..Len(t) : t[k] <= i /\ t[k] <= n
         /\ Increasing(s) => Increasing(t)
<1>1. CASE t = s
  BY <1>1
<1>2. CASE t = Append(s, i)
  <2>1. Len(t) = Len(s) + 1 /\ t[Len(s) + 1] = i /\ \A k \in 1..Len(s) : t[k] = s[k]
    BY <1>2
  <2>2. \A k \in 1..Len(t) : k \in 1..Len(s) \/ k = Len(s) + 1
    BY <2>1
  <2>3. ASSUME NEW k \in 1..Len(t) PROVE t[k] <= i /\ t[k] <= n
    <3>1. CASE k \in 1..Len(s)
      <4>1. s[k] \in Nat /\ t[k] = s[k] /\ s[k] < i
        BY SMTT(30), <2>1, <3>1
      <4> QED
        BY <4>1
    <3>2. CASE k = Len(s) + 1
      BY <2>1, <3>2
    <3> QED
      BY <2>2, <3>1, <3>2
  <2>4. ASSUME Increasing(s), NEW k \in DOMAIN t, NEW l \in DOMAIN t, k < l
        PROVE  t[k] < t[l]
    <3>1. k \in 1..Len(s) /\ t[k] = s[k]
      BY <2>1, <2>2, <2>4
    <3>2. CASE l \in 1..Len(s)
      BY SMTT(30), <2>1, <2>4, <3>1, <3>2 DEF Increasing
    <3>3. CASE l = Len(s) + 1
      BY <2>1, <3>1, <3>3
    <3> QED
      BY <2>2, <3>2, <3>3
  <2> QED
    BY <2>3, <2>4 DEF Increasing
<1> QED
  BY <1>1, <1>2

\* group.apply: a bee that emits is past what it has emitted; one that ends
\* its restart has just passed it.
LEMMA EmittingApply ==
  ASSUME Types, Emitting, NEW b \in Bee, Apply(b)
  PROVE  Emitting'
<1> DEFINE i == bee[b].applied + 1
<1>1. /\ Changes(b, ApplyFields)
      /\ i \in 1..Len(log) /\ bee'[b].applied = i
      /\ IF bee[b].waits = log[i].req.id
         THEN /\ bee'[b].pc = "idle"
              /\ bee'[b].emitInRaft = (bee[b].emitInRaft \/ bee[b].pc = "barrier")
         ELSE /\ bee'[b].pc = bee[b].pc /\ bee'[b].waits = bee[b].waits
              /\ bee'[b].emitInRaft = bee[b].emitInRaft
  BY SMTT(30), ApplyDoes
<1>2. UNCHANGED log
  BY SMTT(30) DEF Apply, raft
<1>3. out' = out \/ (bee[b].emitInRaft /\ out' = [out EXCEPT ![b] = Append(@, i)])
  BY SMTT(30) DEF Apply, emits
<1>4. EmitOK(b) /\ out[b] \in Seq(Nat) /\ out \in [Bee -> Seq(Nat)] /\ bee[b].applied \in Nat
  BY DEF Emitting, Types, BeesTyped, BeeTyped
<1>5. /\ out' \in [Bee -> Seq(Nat)]
      /\ \A c \in Bee \ {b} : out'[c] = out[c]
      /\ out'[b] = out[b] \/ (bee[b].emitInRaft /\ out'[b] = Append(out[b], i))
  <2>1. i \in Nat
    BY <1>1
  <2> HIDE DEF i
  <2>2. CASE out' = out
    BY <1>4, <2>2
  <2>3. CASE bee[b].emitInRaft /\ out' = [out EXCEPT ![b] = Append(@, i)]
    BY SMTT(30), <1>4, <2>1, <2>3
  <2> QED
    BY <1>3, <2>2, <2>3 DEF i
<1>6. i \in Nat /\ Len(log) \in Nat /\ i <= Len(log) /\ out'[b] \in Seq(Nat)
  BY SMTT(30), <1>1, <1>4, <1>5
<1>7. /\ bee[b].emitInRaft => \A k \in 1..Len(out[b]) : out[b][k] < i
      /\ \A k \in 1..Len(out[b]) : out[b][k] <= Len(log)
  BY <1>4 DEF EmitOK
<1> HIDE DEF i
<1>8. /\ bee'[b].emitInRaft => \A k \in 1..Len(out'[b]) : out'[b][k] <= i
      /\ \A k \in 1..Len(out'[b]) : out'[b][k] <= Len(log)
      /\ Increasing(out[b]) => Increasing(out'[b])
  <2>1. CASE bee[b].emitInRaft
    BY ZenonT(40), <1>4, <1>5, <1>6, <1>7, <2>1, EmitNext
  <2>2. CASE ~bee[b].emitInRaft /\ bee'[b].emitInRaft
    <3>1. bee[b].waits = log[i].req.id /\ bee[b].pc = "barrier"
      BY Zenon, <1>1, <2>2 DEF i
    <3>2. \A k \in 1..Len(out[b]) : out[b][k] < i
      BY ZenonT(40), <1>1, <1>4, <3>1 DEF EmitOK, i
    <3> QED
      BY <1>4, <1>5, <1>6, <1>7, <2>2, <3>2, EmitNext
  <2>3. CASE ~bee[b].emitInRaft /\ ~bee'[b].emitInRaft
    BY <1>5, <1>7, <2>3
  <2> QED
    BY SMTT(30), <2>1, <2>2, <2>3
<1>9. EmitOK(b)'
  <2>1. CASE bee[b].waits = log[i].req.id
    <3>1. bee'[b].pc = "idle" /\ bee'[b].emitInRaft = (bee[b].emitInRaft \/ bee[b].pc = "barrier")
      BY SMTT(30), <1>1, <2>1 DEF i
    <3>2. bee[b].pc # "down"
      BY DEF Apply
    <3>3. bee'[b].emitInRaft
      BY Zenon, <1>4, <3>1, <3>2 DEF EmitOK
    <3> QED
      BY SMTT(30), <1>1, <1>2, <1>8, <3>1, <3>3 DEF EmitOK, i
  <2>2. CASE bee[b].waits # log[i].req.id
    <3>1. bee'[b].pc = bee[b].pc /\ bee'[b].waits = bee[b].waits
          /\ bee'[b].emitInRaft = bee[b].emitInRaft
      BY SMTT(30), <1>1, <2>2 DEF i
    <3>2. bee'[b].pc = "barrier" => ~bee[b].emitInRaft /\ out'[b] = out[b]
      BY SMTT(30), <1>4, <1>5, <3>1 DEF EmitOK
    <3> QED
      BY ZenonT(40), <1>1, <1>2, <1>4, <1>8, <3>1, <3>2 DEF EmitOK, i
  <2> QED
    BY SMTT(30), <2>1, <2>2
<1>10. ASSUME NEW c \in Bee \ {b} PROVE EmitOK(c)'
  <2>1. EmitOK(c) /\ bee'[c] = bee[c] /\ out'[c] = out[c]
    BY SMTT(30), <1>1, <1>5 DEF Emitting, Changes
  <2> QED
    BY SMTT(30), <1>2, <2>1 DEF EmitOK
<1>11. \A c \in Bee : Increasing(out'[c])
  BY Zenon, <1>5, <1>8 DEF Emitting, EmitsOnce, Increasing
<1> QED
  BY SMTT(30), <1>5, <1>9, <1>10, <1>11 DEF Emitting, EmitsOnce, Increasing
-----------------------------------------------------------------------------
(* Nothing is written beside the log *)

\* Steps of a bee other than the first that keep it idle and clean.
LEMMA AloneOther ==
  ASSUME Types, Alone, NEW b \in Bee, b # First, NEW F, Changes(b, F),
         UNCHANGED <<flight, log>>, F \cap {"leader", "dirty"} = {},
         bee'[b].pc = "idle", bee'[b].role = "follower"
  PROVE  Alone'
<1>1. bee'[b].leader = bee[b].leader /\ bee'[b].dirty = bee[b].dirty
  BY DEF Changes, BeeFields
<1>2. bee'[First] = bee[First]
  BY BeeReplicationAssumption DEF Changes
<1>3. \A c \in Bee \ {b} : bee'[c] = bee[c]
  BY DEF Changes
<1>4. ASSUME NEW c \in Bee
      PROVE  /\ bee'[c].leader = First /\ bee'[c].dirty = <<>>
             /\ bee'[c].pc \notin {"barrier", "down"}
             /\ c # First => bee'[c].pc = "idle" /\ bee'[c].role = "follower"
  <2>1. CASE c = b
    BY SMTT(30), <1>1, <2>1 DEF Alone
  <2>2. CASE c # b
    BY <1>3, <2>2 DEF Alone
  <2> QED
    BY SMTT(30), <2>1, <2>2
<1> QED
  BY <1>2, <1>4 DEF Alone

\* Steps of the first bee: the ones about the others stay.
LEMMA AloneFirst ==
  ASSUME Types, Alone, NEW F, Changes(First, F),
         "leader" \notin F, bee'[First].dirty = bee[First].dirty,
         bee'[First].pc \notin {"barrier", "down"}
  PROVE  \A c \in Bee :
           /\ bee'[c].leader = First /\ bee'[c].dirty = <<>>
           /\ bee'[c].pc \notin {"barrier", "down"}
           /\ c # First => bee'[c].pc = "idle" /\ bee'[c].role = "follower"
<1>1. bee'[First].leader = bee[First].leader
  BY DEF Changes, BeeFields
<1>2. \A c \in Bee \ {First} : bee'[c] = bee[c]
  BY DEF Changes
<1>3. ASSUME NEW c \in Bee
      PROVE  /\ bee'[c].leader = First /\ bee'[c].dirty = <<>>
             /\ bee'[c].pc \notin {"barrier", "down"}
             /\ c # First => bee'[c].pc = "idle" /\ bee'[c].role = "follower"
  <2>1. CASE c = First
    BY <1>1, <2>1 DEF Alone
  <2>2. CASE c # First
    BY SMTT(30), <1>2, <2>2 DEF Alone
  <2> QED
    BY SMTT(30), <2>1, <2>2
<1> QED
  BY <1>3

\* A commit: it is the proposal that the first bee waits for.
LEMMA AloneCommit ==
  ASSUME Types, Alone, NEW p \in flight, Commit(p)
  PROVE  Alone'
<1>1. /\ Len(log') = Len(log) + 1 /\ log'[Len(log) + 1].req = p /\ Len(log) \in Nat
      /\ flight' = flight \ {p} /\ bee' = bee
  BY SMTT(30), CommitTypes DEF Commit, Types, RaftTyped
<1>2. /\ bee[First].pc = "waiting" /\ bee[First].applied = Len(log)
      /\ \A q \in flight : q = p /\ p.id = bee[First].waits
  BY DEF Alone
<1>3. flight' = {} /\ bee'[First].applied + 1 = Len(log')
      /\ log'[Len(log')].req.id = bee'[First].waits
  BY <1>1, <1>2
<1> QED
  BY SMTT(30), <1>1, <1>2, <1>3 DEF Alone

\* group.apply: of the first bee only to what it waits for.
LEMMA AloneApply ==
  ASSUME Types, Alone, NEW b \in Bee, Apply(b)
  PROVE  Alone'
<1> DEFINE i == bee[b].applied + 1
<1>1. /\ Changes(b, ApplyFields)
      /\ i \in 1..Len(log) /\ bee'[b].applied = i
      /\ IF bee[b].waits = log[i].req.id
         THEN bee'[b].pc = "idle" /\ bee'[b].waits = 0
         ELSE bee'[b].pc = bee[b].pc /\ bee'[b].waits = bee[b].waits
  BY SMTT(30), ApplyDoes
<1>2. UNCHANGED <<flight, log>>
  BY DEF Apply, raft
<1>3. ApplyFields \cap {"leader", "dirty", "role"} = {}
  BY SMTT(30) DEF ApplyFields
<1>4. /\ bee'[b].role = bee[b].role /\ bee'[b].dirty = bee[b].dirty
      /\ "leader" \notin ApplyFields
  BY SMTT(30), <1>1, <1>3 DEF Changes, BeeFields
<1>5. BeeTyped(bee[b]) /\ log[i].req.id \in 1..proposed
  BY ZenonT(40), <1>1, LogEntry DEF Types, BeesTyped
<1>6. CASE b # First
  <2>1. bee[b].pc = "idle" /\ bee[b].role = "follower"
    BY SMTT(30), <1>6 DEF Alone
  <2>2. bee'[b].pc = "idle"
    BY SMTT(30), <1>1, <2>1
  <2> QED
    BY SMTT(30), <1>1, <1>2, <1>3, <1>4, <1>6, <2>1, <2>2, AloneOther
<1>7. CASE b = First
  <2>1. bee[First].applied # Len(log)
    BY SMTT(30), <1>1, <1>5, <1>7 DEF BeeTyped
  <2>2. /\ bee[First].pc = "waiting" /\ flight = {} /\ i = Len(log)
        /\ log[i].req.id = bee[First].waits
    BY SMTT(30), <1>1, <1>5, <1>7, <2>1 DEF Alone, BeeTyped
  <2>3. bee'[First].pc = "idle" /\ bee'[First].applied = Len(log)
    BY SMTT(30), <1>1, <1>7, <2>2
  <2>4. \A c \in Bee :
           /\ bee'[c].leader = First /\ bee'[c].dirty = <<>>
           /\ bee'[c].pc \notin {"barrier", "down"}
           /\ c # First => bee'[c].pc = "idle" /\ bee'[c].role = "follower"
    BY SMTT(30), <1>1, <1>4, <1>7, <2>3, AloneFirst
  <2> QED
    BY SMTT(30), <1>2, <2>2, <2>3, <2>4 DEF Alone
<1> QED
  BY SMTT(30), <1>6, <1>7

\* Every step keeps the first bee alone while nothing disturbs it.
LEMMA NextQuiet ==
  ASSUME Types, Quiet, Next
  PROVE  Quiet'
<1> USE BeeReplicationAssumption
<1> SUFFICES ASSUME Undisturbed' PROVE Alone'
  BY DEF Quiet
<1>0. timeouts \in Nat /\ crashes \in Nat /\ leaders \in Seq(Bee)
  BY DEF Types, RaftTyped
<1>1. ASSUME NEW p \in flight, Commit(p) PROVE Alone'
  <2>1. Alone
    BY SMTT(30), <1>1 DEF Commit, bounds, Undisturbed, Quiet
  <2> QED
    BY <1>1, <2>1, AloneCommit
<1>2. ASSUME NEW u \in updates, UpdateColony(u) PROVE Alone'
  <2>1. Alone /\ UNCHANGED <<bee, flight, log>>
    BY <1>2 DEF UpdateColony, raft, bounds, Undisturbed, Quiet
  <2> QED
    BY <2>1 DEF Alone
<1>3. ASSUME NEW b \in Bee, Elect(b) PROVE FALSE
  <2>1. leaders' = Append(leaders, b)
    BY <1>3 DEF Elect
  <2>2. Len(leaders') = Len(leaders) + 1 /\ Len(leaders) \in Nat
    BY <1>0, <2>1
  <2>3. Len(leaders') = 0
    BY DEF Undisturbed
  <2>4. Len(leaders') # 0
    BY <2>2
  <2> QED
    BY <2>3, <2>4
<1>4. ASSUME NEW b \in Bee, NEW t \in 1..MaxTerm, NEW ev \in 0..MaxTerm, LearnLeader(b, t, ev)
      PROVE  FALSE
  <2>1. leaders' = leaders
    BY <1>4 DEF LearnLeader, raft
  <2> QED
    BY <1>4, <2>1, LearnLeaderDoes DEF Undisturbed
<1>5. ASSUME NEW b \in Bee, Apply(b) PROVE Alone'
  <2>1. Alone
    BY <1>5 DEF Apply, raft, bounds, Undisturbed, Quiet
  <2> QED
    BY SMTT(30), <1>5, <2>1, AloneApply
<1>6. ASSUME NEW b \in Bee, RefreshRole(b) PROVE Alone'
  <2>1. Alone /\ UNCHANGED <<flight, log>>
    BY <1>6 DEF RefreshRole, raft, bounds, Undisturbed, Quiet
  <2>2. /\ Changes(b, {"role"}) /\ bee[b].pc = "idle"
        /\ bee'[b].role = IF bee[b].leader = b THEN "leader" ELSE "follower"
    BY <1>6, RefreshRoleDoes
  <2>3. /\ bee'[b].pc = "idle" /\ bee'[b].dirty = bee[b].dirty
        /\ bee'[b].applied = bee[b].applied
    BY SMTT(30), <2>2 DEF Changes, BeeFields
  <2>4. CASE b # First
    <3>1. bee'[b].role = "follower"
      BY SMTT(30), <2>1, <2>2, <2>4 DEF Alone
    <3> QED
      BY SMTT(30), <2>1, <2>2, <2>3, <2>4, <3>1, AloneOther
  <2>5. CASE b = First
    <3>1. \A c \in Bee :
            /\ bee'[c].leader = First /\ bee'[c].dirty = <<>>
            /\ bee'[c].pc \notin {"barrier", "down"}
            /\ c # First => bee'[c].pc = "idle" /\ bee'[c].role = "follower"
      BY SMTT(30), <2>1, <2>2, <2>3, <2>5, AloneFirst
    <3>2. flight = {} /\ bee[First].applied = Len(log)
      BY SMTT(30), <2>1, <2>2, <2>5 DEF Alone
    <3> QED
      BY ZenonT(40), <2>1, <2>3, <2>5, <3>1, <3>2 DEF Alone
  <2> QED
    BY <2>4, <2>5
<1>7. ASSUME NEW b \in Bee, NEW m \in Msg, Handle(b, m) PROVE Alone'
  <2>1. Alone /\ UNCHANGED <<flight, log>>
    BY SMTT(30), <1>7 DEF Handle, raft, bounds, Undisturbed, Quiet
  <2>2. /\ Changes(b, {"pc", "msg", "txOpen"})
        /\ bee[b].pc = "idle" /\ bee[b].role = "leader"
        /\ bee'[b].pc = "rcv" /\ bee'[b].txOpen
    BY SMTT(30), <1>7, HandleDoes
  <2>3. b = First
    BY <2>1, <2>2 DEF Alone
  <2>4. bee'[b].dirty = bee[b].dirty /\ bee'[b].applied = bee[b].applied
    BY SMTT(30), <2>2 DEF Changes, BeeFields
  <2>5. \A c \in Bee :
          /\ bee'[c].leader = First /\ bee'[c].dirty = <<>>
          /\ bee'[c].pc \notin {"barrier", "down"}
          /\ c # First => bee'[c].pc = "idle" /\ bee'[c].role = "follower"
    BY SMTT(30), <2>1, <2>2, <2>3, <2>4, AloneFirst
  <2>6. flight = {} /\ bee[First].applied = Len(log)
    BY SMTT(30), <2>1, <2>2, <2>3 DEF Alone
  <2> QED
    BY <2>1, <2>2, <2>3, <2>4, <2>5, <2>6 DEF Alone
<1>8. ASSUME NEW b \in Bee, NEW m \in Msg, Put(b, m) PROVE Alone'
  <2>1. Alone /\ UNCHANGED <<flight, log>>
    BY SMTT(30), <1>8 DEF Put, raft, bounds, Undisturbed, Quiet
  <2>2. /\ Changes(b, {"pc", "msg", "tx", "dirty"})
        /\ bee[b].pc = "rcv" /\ bee'[b].pc = "commit"
        /\ bee[b].txOpen => bee'[b].dirty = bee[b].dirty
    BY SMTT(30), <1>8, PutDoes
  <2>3. b = First /\ bee[First].txOpen
    BY <2>1, <2>2 DEF Alone
  <2>4. bee'[First].dirty = bee[First].dirty
    BY <2>2, <2>3
  <2>5. bee'[First].applied = bee[First].applied
    BY SMTT(30), <2>2, <2>3 DEF Changes, BeeFields
  <2>6. \A c \in Bee :
          /\ bee'[c].leader = First /\ bee'[c].dirty = <<>>
          /\ bee'[c].pc \notin {"barrier", "down"}
          /\ c # First => bee'[c].pc = "idle" /\ bee'[c].role = "follower"
    BY SMTT(30), <2>1, <2>2, <2>3, <2>4, AloneFirst
  <2>7. flight = {} /\ bee[First].applied = Len(log)
    BY SMTT(30), <2>1, <2>2, <2>3 DEF Alone
  <2> QED
    BY <2>1, <2>2, <2>3, <2>5, <2>6, <2>7 DEF Alone
<1>9. ASSUME NEW b \in Bee, replicate(b) PROVE Alone'
  <2>1. Alone /\ UNCHANGED log
    BY <1>9 DEF replicate, bounds, Undisturbed, Quiet
  <2>2. /\ Changes(b, {"pc", "waits"}) /\ bee[b].pc = "commit"
        /\ \/ /\ Propose(b, bee[b].tx)
              /\ bee'[b].pc = "waiting" /\ bee'[b].waits = proposed'
           \/ /\ UNCHANGED <<flight, proposed>>
              /\ bee'[b].pc = "idle" /\ bee'[b].waits = bee[b].waits
    BY SMTT(30), <1>9, ReplicateDoes
  <2>3. b = First
    BY SMTT(30), <2>1, <2>2 DEF Alone
  <2>4. bee'[First].dirty = bee[First].dirty /\ bee'[First].applied = bee[First].applied
    BY SMTT(30), <2>2, <2>3 DEF Changes, BeeFields
  <2>5. \A c \in Bee :
          /\ bee'[c].leader = First /\ bee'[c].dirty = <<>>
          /\ bee'[c].pc \notin {"barrier", "down"}
          /\ c # First => bee'[c].pc = "idle" /\ bee'[c].role = "follower"
    BY SMTT(30), <2>1, <2>2, <2>3, <2>4, AloneFirst
  <2>6. flight = {} /\ bee[First].applied = Len(log)
    BY SMTT(30), <2>1, <2>2, <2>3 DEF Alone
  <2>7. CASE Propose(b, bee[b].tx) /\ bee'[b].pc = "waiting" /\ bee'[b].waits = proposed'
    <3>1. bee[b].tx \in Seq(Msg)
      BY SMTT(30) DEF Types, BeesTyped, BeeTyped
    <3>2. PICK p : flight' = flight \cup {p} /\ p.id = proposed'
      BY <2>7, <3>1, ProposeTyped
    <3>3. \A q, r \in flight' : q = r /\ q.id = bee'[First].waits
      BY SMTT(30), <2>3, <2>6, <2>7, <3>2
    <3> QED
      BY SMTT(30), <2>1, <2>3, <2>4, <2>5, <2>6, <2>7, <3>3 DEF Alone
  <2>8. CASE UNCHANGED <<flight, proposed>> /\ bee'[b].pc = "idle"
    BY SMTT(30), <2>1, <2>3, <2>4, <2>5, <2>6, <2>8 DEF Alone
  <2> QED
    BY <2>2, <2>7, <2>8
<1>10. ASSUME NEW b \in Bee, Timeout(b) PROVE FALSE
  BY <1>10, TimeoutDoes DEF Undisturbed
<1>11. ASSUME NEW b \in Bee, Crash(b) PROVE FALSE
  BY SMTT(30), <1>11, CrashDoes DEF Undisturbed
<1>12. ASSUME NEW b \in Bee, reloadBee(b) PROVE FALSE
  <2>1. Alone
    BY SMTT(30), <1>12 DEF reloadBee, bounds, Undisturbed, Quiet
  <2> QED
    BY Zenon, <1>12, <2>1, ReloadDoes DEF Alone
<1>13. ASSUME NEW b \in Bee, RetryBarrier(b) PROVE FALSE
  BY <1>13, RetryDoes DEF Undisturbed
<1> QED
  BY SMTT(30), <1>1, <1>2, <1>3, <1>4, <1>5, <1>6, <1>7, <1>8, <1>9, <1>10, <1>11, <1>12, <1>13
     DEF Next
-----------------------------------------------------------------------------
(* The replicas follow the log *)

LEMMA RangeConcat ==
  ASSUME NEW s \in Seq(Msg), NEW t \in Seq(Msg)
  PROVE  /\ Range(s) \subseteq Range(s \o t)
         /\ Range(t) \subseteq Range(s \o t)
<1>1. /\ Len(s \o t) = Len(s) + Len(t) /\ s \o t \in Seq(Msg)
      /\ \A i \in 1..Len(s) : (s \o t)[i] = s[i]
      /\ \A i \in 1..Len(t) : (s \o t)[Len(s) + i] = t[i]
  OBVIOUS
<1>2. ASSUME NEW x \in Range(s) PROVE x \in Range(s \o t)
  <2>1. PICK i \in 1..Len(s) : s[i] = x
    BY DEF Range
  <2>2. i \in DOMAIN (s \o t) /\ (s \o t)[i] = x
    BY <1>1, <2>1
  <2> QED
    BY <2>2 DEF Range
<1>3. ASSUME NEW x \in Range(t) PROVE x \in Range(s \o t)
  <2>1. PICK i \in 1..Len(t) : t[i] = x
    BY DEF Range
  <2>2. Len(s) + i \in DOMAIN (s \o t) /\ (s \o t)[Len(s) + i] = x
    BY <1>1, <2>1
  <2> QED
    BY <2>2 DEF Range
<1> QED
  BY <1>2, <1>3

\* Applying a request keeps what there was, and adds what is accepted.
LEMMA AfterKeeps ==
  ASSUME NEW st \in Seq(Msg), NEW tm \in 0..MaxTerm, NEW req \in Request
  PROVE  /\ StateAfter(st, tm, req) \in Seq(Msg) /\ TermAfter(tm, req) \in 0..MaxTerm
         /\ Range(st) \subseteq Range(StateAfter(st, tm, req))
         /\ tm <= req.term => Range(req.msgs) \subseteq Range(StateAfter(st, tm, req))
<1>1. req.msgs \in Seq(Msg) /\ req.term \in 0..MaxTerm
  BY DEF Request
<1>2. CASE Refuses(tm, req)
  <2>1. tm <= req.term => req.msgs = <<>>
    BY <1>1, <1>2 DEF Refuses
  <2>2. Range(<<>>) = {}
    BY DEF Range
  <2> QED
    BY <1>2, <2>1, <2>2 DEF StateAfter, TermAfter
<1>3. CASE ~Refuses(tm, req)
  BY <1>1, <1>3, RangeConcat DEF StateAfter, TermAfter
<1> QED
  BY <1>2, <1>3

\* Steps that neither commit, apply nor restart.
LEMMA ReplicatedFrame ==
  ASSUME Types, Replicated, NEW b \in Bee, NEW F, Changes(b, F),
         F \cap {"state", "txTerm", "applied"} = {},
         UNCHANGED <<log, acked, snap>>, crashes' = 0 => crashes = 0
  PROVE  Replicated'
<1>1. ASSUME NEW c \in Bee
      PROVE  bee'[c].state = bee[c].state /\ bee'[c].txTerm = bee[c].txTerm
             /\ bee'[c].applied = bee[c].applied
  <2>1. CASE c = b
    BY <2>1 DEF Changes, BeeFields
  <2>2. CASE c # b
    BY <2>2 DEF Changes
  <2> QED
    BY <2>1, <2>2
<1> SUFFICES ASSUME FromTheLog'
             PROVE  \E st, tm : Replay(st, tm)' /\ Follows(st, tm)'
  BY DEF Replicated
<1>2. FromTheLog
  BY DEF FromTheLog
<1>3. PICK st, tm : Replay(st, tm) /\ Follows(st, tm)
  BY <1>2 DEF Replicated
<1>4. Replay(st, tm)'
  BY SMTT(30), <1>3 DEF Replay
<1>5. Follows(st, tm)'
  BY <1>1, <1>3 DEF Follows
<1> QED
  BY <1>4, <1>5

LEMMA ReplicatedStutter ==
  ASSUME Replicated, UNCHANGED <<log, bee, snap, acked, crashes>>
  PROVE  Replicated'
<1> SUFFICES ASSUME FromTheLog'
             PROVE  \E st, tm : Replay(st, tm)' /\ Follows(st, tm)'
  BY DEF Replicated
<1>1. PICK st, tm : Replay(st, tm) /\ Follows(st, tm)
  BY DEF Replicated, FromTheLog
<1>2. Replay(st, tm)'
  BY SMTT(30), <1>1 DEF Replay
<1>3. Follows(st, tm)'
  BY <1>1 DEF Follows
<1> QED
  BY <1>2, <1>3

\* A commit extends what the log leads to.
LEMMA ReplicatedCommit ==
  ASSUME Types, Replicated, NEW p \in flight, Commit(p)
  PROVE  Replicated'
<1> DEFINE n == Len(log)
<1>1. /\ Len(log') = n + 1 /\ log'[n + 1].req = p
      /\ \A i \in 1..n : log'[i] = log[i]
  BY CommitTypes
<1>2. UNCHANGED <<bee, snap, acked, crashes>> /\ n \in Nat /\ p \in Request
  BY DEF Commit, bounds, Types, RaftTyped
<1> SUFFICES ASSUME FromTheLog'
             PROVE  \E st, tm : Replay(st, tm)' /\ Follows(st, tm)'
  BY DEF Replicated
<1>3. PICK st, tm : Replay(st, tm) /\ Follows(st, tm)
  BY <1>2 DEF Replicated, FromTheLog
<1>4. /\ st \in [0..n -> Seq(Msg)] /\ tm \in [0..n -> 0..MaxTerm]
      /\ st[0] = <<>> /\ tm[0] = 0
      /\ \A i \in 1..n : /\ st[i] = StateAfter(st[i - 1], tm[i - 1], log[i].req)
                         /\ tm[i] = TermAfter(tm[i - 1], log[i].req)
      /\ \A i, j \in 0..n : i <= j => Range(st[i]) \subseteq Range(st[j])
  BY <1>3 DEF Replay
<1>5. PICK sa, ta : sa = StateAfter(st[n], tm[n], p) /\ ta = TermAfter(tm[n], p)
  BY SMTT(30)
<1>6. sa \in Seq(Msg) /\ ta \in 0..MaxTerm /\ Range(st[n]) \subseteq Range(sa)
  <2>1. st[n] \in Seq(Msg) /\ tm[n] \in 0..MaxTerm
    BY <1>2, <1>4
  <2> QED
    BY <1>2, <1>5, <2>1, AfterKeeps
<1>7. PICK s2, t2 : /\ s2 = [i \in 0..(n + 1) |-> IF i = n + 1 THEN sa ELSE st[i]]
                    /\ t2 = [i \in 0..(n + 1) |-> IF i = n + 1 THEN ta ELSE tm[i]]
  BY ZenonT(40)
<1>8. /\ s2 \in [0..(n + 1) -> Seq(Msg)] /\ t2 \in [0..(n + 1) -> 0..MaxTerm]
      /\ s2[n + 1] = sa /\ t2[n + 1] = ta
      /\ \A i \in 0..n : s2[i] = st[i] /\ t2[i] = tm[i]
  BY <1>2, <1>4, <1>6, <1>7
<1>9. ASSUME NEW i \in 1..(n + 1)
      PROVE  /\ s2[i] = StateAfter(s2[i - 1], t2[i - 1], log'[i].req)
             /\ t2[i] = TermAfter(t2[i - 1], log'[i].req)
  <2>1. CASE i = n + 1
    <3>1. i - 1 = n /\ n \in 0..n
      BY SMTT(30), <1>2, <2>1
    <3> QED
      BY <1>1, <1>5, <1>8, <2>1, <3>1
  <2>2. CASE i \in 1..n
    <3>1. i - 1 \in 0..n /\ i \in 0..n
      BY <1>2, <2>2
    <3> QED
      BY ZenonT(40), <1>1, <1>4, <1>8, <2>2, <3>1
  <2> QED
    BY <1>2, <2>1, <2>2
<1>10. ASSUME NEW i \in 0..(n + 1), NEW j \in 0..(n + 1), i <= j
       PROVE  Range(s2[i]) \subseteq Range(s2[j])
  <2>1. CASE j \in 0..n
    <3>1. i \in 0..n
      BY <1>2, <1>10, <2>1
    <3> QED
      BY <1>4, <1>8, <1>10, <2>1, <3>1
  <2>2. CASE j = n + 1 /\ i \in 0..n
    <3>1. n \in 0..n /\ i <= n
      BY <1>2, <2>2
    <3> QED
      BY Zenon, <1>4, <1>6, <1>8, <2>2, <3>1
  <2>3. CASE j = n + 1 /\ i = n + 1
    BY <2>3
  <2> QED
    BY <1>2, <2>1, <2>2, <2>3
<1>11. s2[0] = <<>> /\ t2[0] = 0
  BY <1>2, <1>4, <1>8
<1>12. Replay(s2, t2)'
  BY ZenonT(40), <1>1, <1>8, <1>9, <1>10, <1>11 DEF Replay
<1>13. \A b \in Bee : bee[b].applied \in 0..n
  BY <1>2 DEF Types, BeesTyped, BeeTyped
<1>14. ASSUME NEW id \in acked
       PROVE  \E i \in 1..(n + 1) :
                log'[i].req.id = id /\ Range(log'[i].req.msgs) \subseteq Range(s2[i])
  <2>1. PICK i \in 1..n : log[i].req.id = id /\ Range(log[i].req.msgs) \subseteq Range(st[i])
    BY <1>3 DEF Follows
  <2>2. i \in 1..(n + 1) /\ i \in 0..n
    BY SMTT(30), <1>2
  <2>3. log'[i] = log[i] /\ s2[i] = st[i]
    BY Zenon, <1>1, <1>8, <2>1, <2>2
  <2> QED
    BY Zenon, <2>1, <2>2, <2>3
<1>15. Follows(s2, t2)'
  <2>1. \A b \in Bee : bee[b].state = s2[bee[b].applied] /\ bee[b].txTerm = t2[bee[b].applied]
    BY <1>3, <1>8, <1>13 DEF Follows
  <2> QED
    BY Zenon, <1>1, <1>2, <1>14, <2>1 DEF Follows
<1> QED
  BY <1>12, <1>15

\* group.apply takes the bee to the next state of the log, and acknowledges
\* the proposal it waits for only when that state holds its changes.
LEMMA ReplicatedApply ==
  ASSUME Types, Replicated, NEW b \in Bee, Apply(b)
  PROVE  Replicated'
<1> DEFINE i == bee[b].applied + 1
           req == log[i].req
<1>1. /\ Changes(b, ApplyFields)
      /\ i \in 1..Len(log) /\ req \in Request /\ bee'[b].applied = i
      /\ bee'[b].state = StateAfter(bee[b].state, bee[b].txTerm, req)
      /\ bee'[b].txTerm = TermAfter(bee[b].txTerm, req)
  BY Zenon, ApplyDoes
<1>2. UNCHANGED <<log, crashes>> /\ \A c \in Bee : snap[c].at # 0 => snap'[c].at # 0
  BY ZenonT(40), ApplyTypes DEF Apply, raft, bounds
<1>3. acked' = acked \/ (acked' = acked \cup {req.id} /\ bee[b].txTerm <= req.term)
  BY ZenonT(40) DEF Apply, answersOK, accepts
<1>4. bee[b].applied \in 0..Len(log) /\ bee[b].applied = i - 1
  <2>1. bee[b].applied \in Nat /\ bee[b].applied <= Len(log)
    BY Zenon DEF Types, BeesTyped, BeeTyped
  <2>2. Len(log) \in Nat
    BY DEF Types, RaftTyped
  <2>3. PICK k : k = bee[b].applied
    OBVIOUS
  <2>4. k \in 0..Len(log) /\ k = (k + 1) - 1
    BY <2>1, <2>2, <2>3
  <2> QED
    BY Zenon, <2>3, <2>4
<1> SUFFICES ASSUME FromTheLog'
             PROVE  \E st, tm : Replay(st, tm)' /\ Follows(st, tm)'
  BY DEF Replicated
<1>5. FromTheLog
  BY <1>2 DEF FromTheLog
<1>6. PICK st, tm : Replay(st, tm) /\ Follows(st, tm)
  BY SMTT(30), <1>5 DEF Replicated
<1>7. Replay(st, tm)'
  BY ZenonT(40), <1>2, <1>6 DEF Replay
<1> HIDE DEF i, req
<1>8. /\ bee[b].state = st[i - 1] /\ bee[b].txTerm = tm[i - 1]
      /\ st[i - 1] \in Seq(Msg) /\ tm[i - 1] \in 0..MaxTerm
      /\ st[i] = StateAfter(st[i - 1], tm[i - 1], req)
      /\ tm[i] = TermAfter(tm[i - 1], req)
  BY ZenonT(40), <1>1, <1>4, <1>6 DEF Replay, Follows, req
<1>9. ASSUME NEW c \in Bee
      PROVE  bee'[c].state = st[bee'[c].applied] /\ bee'[c].txTerm = tm[bee'[c].applied]
  <2>1. CASE c = b
    BY ZenonT(40), <1>1, <1>8, <2>1
  <2>2. CASE c # b
    <3>1. bee'[c] = bee[c]
      BY SMTT(30), <1>1, <2>2 DEF Changes
    <3> QED
      BY Zenon, <1>6, <3>1 DEF Follows
  <2> QED
    BY Zenon, <2>1, <2>2
<1>10. bee[b].txTerm <= req.term => Range(req.msgs) \subseteq Range(st[i])
  BY ZenonT(40), <1>1, <1>8, AfterKeeps
<1>11. ASSUME NEW id \in acked'
       PROVE  \E k \in 1..Len(log) :
                log[k].req.id = id /\ Range(log[k].req.msgs) \subseteq Range(st[k])
  <2>1. CASE id \in acked
    BY ZenonT(40), <1>6, <2>1 DEF Follows
  <2>2. CASE id = req.id /\ bee[b].txTerm <= req.term
    BY <1>1, <1>10, <2>2 DEF req
  <2> QED
    BY Zenon, <1>3, <2>1, <2>2
<1>12. Follows(st, tm)'
  BY Zenon, <1>2, <1>9, <1>11 DEF Follows
<1> QED
  BY SMTT(30), <1>7, <1>12

\* queen.reloadBee: without a snapshot the bee starts where the log starts.
LEMMA ReplicatedReload ==
  ASSUME Types, NoneDown, Replicated, NEW b \in Bee, reloadBee(b)
  PROVE  Replicated'
<1>1. /\ Changes(b, BeeFields) /\ bee[b].pc = "down"
      /\ bee'[b].txTerm = 0 /\ bee'[b].applied = snap[b].at /\ bee'[b].state = snap[b].state
  BY ReloadDoes
<1>2. UNCHANGED <<log, snap, acked, crashes>>
  BY DEF reloadBee, bounds
<1> SUFFICES ASSUME FromTheLog'
             PROVE  \E st, tm : Replay(st, tm)' /\ Follows(st, tm)'
  BY SMTT(30) DEF Replicated
<1>3. FromTheLog /\ snap[b].at = 0
  BY SMTT(30), <1>1, <1>2 DEF FromTheLog, NoneDown
<1>4. bee'[b].applied = 0 /\ bee'[b].state = <<>>
  BY <1>1, <1>3 DEF Types, SnapsTyped, SnapTyped
<1>5. PICK st, tm : Replay(st, tm) /\ Follows(st, tm)
  BY <1>3 DEF Replicated
<1>6. Replay(st, tm)'
  BY SMTT(30), <1>2, <1>5 DEF Replay
<1>7. ASSUME NEW c \in Bee
      PROVE  bee'[c].state = st[bee'[c].applied] /\ bee'[c].txTerm = tm[bee'[c].applied]
  <2>1. CASE c = b
    BY SMTT(30), <1>1, <1>4, <1>5, <2>1 DEF Replay
  <2>2. CASE c # b
    <3>1. bee'[c] = bee[c]
      BY SMTT(30), <1>1, <2>2 DEF Changes
    <3> QED
      BY SMTT(30), <1>5, <3>1 DEF Follows
  <2> QED
    BY SMTT(30), <2>1, <2>2
<1>8. Follows(st, tm)'
  BY ZenonT(40), <1>2, <1>5, <1>7 DEF Follows
<1> QED
  BY SMTT(30), <1>6, <1>8
-----------------------------------------------------------------------------
(* The inductive invariant *)

\* What the steps of a bee's goroutine leave alone.
LEMMA BeeStepKeeps ==
  ASSUME Types, Emitting, NoneDown, Replicated, NEW b \in Bee, NEW F, Changes(b, F),
         UNCHANGED <<log, out, acked, snap>>,
         F \cap {"emitInRaft", "applied", "state", "txTerm"} = {},
         \/ F \cap {"pc", "waits"} = {}
         \/ bee'[b].pc = "down"
         \/ bee[b].pc \notin {"barrier", "down"} /\ bee'[b].pc # "barrier",
         crashes' = 0 => crashes = 0 /\ (bee'[b].pc = "down" => bee[b].pc = "down")
  PROVE  Emitting' /\ NoneDown' /\ Replicated'
<1>1. Emitting'
  BY EmittingFrame
<1>2. Replicated'
  BY ReplicatedFrame
<1>3. NoneDown'
  BY SMTT(30) DEF NoneDown, Changes
<1> QED
  BY <1>1, <1>2, <1>3

\* Every step keeps the rest of the invariant.
LEMMA NextKeeps ==
  ASSUME Types, Emitting, NoneDown, Replicated, Next
  PROVE  Emitting' /\ NoneDown' /\ Replicated'
<1>1. ASSUME NEW p \in flight, Commit(p) PROVE Emitting' /\ NoneDown' /\ Replicated'
  <2>1. NoneDown'
    BY <1>1 DEF Commit, bounds, NoneDown
  <2> QED
    BY SMTT(30), <1>1, <2>1, EmittingCommit, ReplicatedCommit
<1>2. ASSUME UNCHANGED <<log, bee, snap, acked, out, crashes>>
      PROVE  Emitting' /\ NoneDown' /\ Replicated'
  <2>1. Emitting'
    BY <1>2 DEF Emitting, EmitOK, EmitsOnce
  <2>2. Replicated'
    BY <1>2, ReplicatedStutter
  <2> QED
    BY SMTT(30), <1>2, <2>1, <2>2 DEF NoneDown
<1>3. ASSUME NEW u \in updates, UpdateColony(u) PROVE Emitting' /\ NoneDown' /\ Replicated'
  BY <1>2, <1>3 DEF UpdateColony, raft, bounds
<1>4. ASSUME NEW b \in Bee, Elect(b) PROVE Emitting' /\ NoneDown' /\ Replicated'
  BY <1>2, <1>4 DEF Elect, bounds
<1>5. ASSUME NEW b \in Bee, Apply(b) PROVE Emitting' /\ NoneDown' /\ Replicated'
  <2>1. /\ Changes(b, ApplyFields)
        /\ bee'[b].pc = "idle" \/ bee'[b].pc = bee[b].pc
    BY ZenonT(40), <1>5, ApplyDoes
  <2>2. NoneDown'
    BY Zenon, <1>5, <2>1 DEF Apply, bounds, NoneDown, Changes
  <2> QED
    BY SMTT(30), <1>5, <2>2, EmittingApply, ReplicatedApply
<1>6. ASSUME NEW b \in Bee, reloadBee(b) PROVE Emitting' /\ NoneDown' /\ Replicated'
  <2>1. /\ Changes(b, BeeFields) /\ bee'[b].pc = "barrier"
        /\ Propose(b, <<>>) /\ bee'[b].waits = proposed' /\ ~bee'[b].emitInRaft
    BY Zenon, <1>6, ReloadDoes
  <2>2. UNCHANGED <<log, out, crashes>> /\ proposed' = proposed + 1
    BY SMTT(30), <1>6, <2>1 DEF reloadBee, bounds, Propose
  <2>3. NoneDown'
    BY SMTT(30), <2>1, <2>2 DEF NoneDown, Changes
  <2>4. Emitting'
    BY <2>1, <2>2, EmittingBarrier
  <2> QED
    BY SMTT(30), <1>6, <2>3, <2>4, ReplicatedReload
<1>7. ASSUME NEW b \in Bee, RetryBarrier(b) PROVE Emitting' /\ NoneDown' /\ Replicated'
  <2>1. /\ Changes(b, {"waits"}) /\ bee[b].pc = "barrier"
        /\ Propose(b, <<>>) /\ bee'[b].waits = proposed'
    BY <1>7, RetryDoes
  <2>2. UNCHANGED <<log, out, snap, acked, crashes>> /\ proposed' = proposed + 1
    BY <1>7, <2>1 DEF RetryBarrier, Propose
  <2>3. bee'[b].pc = "barrier" /\ bee'[b].emitInRaft = bee[b].emitInRaft
    BY SMTT(30), <2>1 DEF Changes, BeeFields
  <2>4. ~bee'[b].emitInRaft
    BY SMTT(30), <2>1, <2>3 DEF Emitting, EmitOK
  <2>5. Emitting'
    BY SMTT(30), <2>1, <2>2, <2>3, <2>4, EmittingBarrier
  <2>6. NoneDown'
    BY SMTT(30), <2>1, <2>2, <2>3 DEF NoneDown, Changes
  <2>7. Replicated'
    BY SMTT(30), <2>1, <2>2, ReplicatedFrame
  <2> QED
    BY SMTT(30), <2>5, <2>6, <2>7
<1>8. ASSUME NEW b \in Bee, NEW t \in 1..MaxTerm, NEW ev \in 0..MaxTerm, LearnLeader(b, t, ev)
      PROVE  Emitting' /\ NoneDown' /\ Replicated'
  <2>1. Changes(b, LearnFields)
    BY <1>8, LearnLeaderDoes
  <2>2. UNCHANGED <<log, out, acked, snap, crashes>>
    BY <1>8 DEF LearnLeader, raft, bounds
  <2>3. /\ LearnFields \cap {"emitInRaft", "applied", "state", "txTerm"} = {}
        /\ LearnFields \cap {"pc", "waits"} = {}
    BY DEF LearnFields
  <2>4. bee'[b].pc = bee[b].pc
    BY SMTT(30), <2>1 DEF LearnFields, Changes, BeeFields
  <2> QED
    BY SMTT(30), <2>1, <2>2, <2>3, <2>4, BeeStepKeeps
<1>9. ASSUME NEW b \in Bee, RefreshRole(b)
      PROVE  Emitting' /\ NoneDown' /\ Replicated'
  <2>1. Changes(b, {"role"})
    BY <1>9, RefreshRoleDoes
  <2>2. UNCHANGED <<log, out, acked, snap, crashes>>
    BY <1>9 DEF RefreshRole, raft, bounds
  <2>3. bee'[b].pc = bee[b].pc
    BY <2>1 DEF Changes, BeeFields
  <2> QED
    BY <2>1, <2>2, <2>3, BeeStepKeeps
<1>10. ASSUME NEW b \in Bee, NEW m \in Msg, Handle(b, m)
      PROVE  Emitting' /\ NoneDown' /\ Replicated'
  <2>1. Changes(b, {"pc", "msg", "txOpen"})
        /\ bee[b].pc = "idle" /\ bee'[b].pc = "rcv"
    BY <1>10, HandleDoes
  <2>2. UNCHANGED <<log, out, acked, snap, crashes>>
    BY SMTT(30), <1>10 DEF Handle, raft, bounds
  <2> QED
    BY SMTT(30), <2>1, <2>2, BeeStepKeeps
<1>11. ASSUME NEW b \in Bee, NEW m \in Msg, Put(b, m)
      PROVE  Emitting' /\ NoneDown' /\ Replicated'
  <2>1. Changes(b, {"pc", "msg", "tx", "dirty"})
        /\ bee[b].pc = "rcv" /\ bee'[b].pc = "commit"
    BY <1>11, PutDoes
  <2>2. UNCHANGED <<log, out, acked, snap, crashes>>
    BY SMTT(30), <1>11 DEF Put, raft, bounds
  <2> QED
    BY SMTT(30), <2>1, <2>2, BeeStepKeeps
<1>12. ASSUME NEW b \in Bee, replicate(b)
      PROVE  Emitting' /\ NoneDown' /\ Replicated'
  <2>1. Changes(b, {"pc", "waits"})
        /\ bee[b].pc = "commit" /\ bee'[b].pc \in {"waiting", "idle"}
    BY <1>12, ReplicateDoes
  <2>2. UNCHANGED <<log, out, acked, snap, crashes>>
    BY SMTT(30), <1>12 DEF replicate, bounds
  <2> QED
    BY SMTT(30), <2>1, <2>2, BeeStepKeeps
<1>13. ASSUME NEW b \in Bee, Timeout(b)
      PROVE  Emitting' /\ NoneDown' /\ Replicated'
  <2>1. Changes(b, {"pc", "waits"})
        /\ bee[b].pc = "waiting" /\ bee'[b].pc = "idle"
    BY <1>13, TimeoutDoes
  <2>2. UNCHANGED <<log, out, acked, snap, crashes>>
    BY SMTT(30), <1>13 DEF Timeout, raft
  <2> QED
    BY <2>1, <2>2, BeeStepKeeps
<1>14. ASSUME NEW b \in Bee, Crash(b)
      PROVE  Emitting' /\ NoneDown' /\ Replicated'
  <2>1. Changes(b, {"pc", "waits"})
        /\ bee'[b].pc = "down" /\ crashes' # 0
    BY <1>14, CrashDoes
  <2>2. UNCHANGED <<log, out, acked, snap>>
    BY <1>14 DEF Crash, raft
  <2> QED
    BY <2>1, <2>2, BeeStepKeeps
<1> QED
  BY SMTT(30), <1>1, <1>3, <1>4, <1>5, <1>6, <1>7, <1>8, <1>9, <1>10, <1>11, <1>12, <1>13, <1>14
     DEF Next

LEMMA InitIInv == Init => IInv
<1> SUFFICES ASSUME Init PROVE IInv
  OBVIOUS
<1> USE BeeReplicationAssumption
<1>1. Types
  BY SMTT(30), InitTypes
<1>2. /\ log = <<>> /\ acked = {} /\ flight = {} /\ Len(log) = 0
      /\ out = [b \in Bee |-> <<>>] /\ bee = [b \in Bee |-> NewBee(b)]
  BY SMTT(30) DEF Init
<1>3. ASSUME NEW b \in Bee
      PROVE  /\ bee[b].pc = "idle" /\ bee[b].emitInRaft /\ bee[b].leader = First
             /\ bee[b].dirty = <<>> /\ bee[b].state = <<>> /\ bee[b].txTerm = 0
             /\ bee[b].applied = 0 /\ (b # First => bee[b].role = "follower")
  <2>1. bee[b] = NewBee(b)
    BY <1>2
  <2>2. bee[b].emitInRaft
    <3>1. NewBee(b).emitInRaft = TRUE
      BY DEF NewBee
    <3> QED
      BY <2>1, <3>1, Zenon
  <2>3. /\ bee[b].pc = "idle" /\ bee[b].leader = First
        /\ bee[b].dirty = <<>> /\ bee[b].state = <<>> /\ bee[b].txTerm = 0
        /\ bee[b].applied = 0
    BY <2>1 DEF NewBee
  <2>4. b # First => bee[b].role = "follower"
    BY <2>1 DEF NewBee
  <2> QED
    BY <2>2, <2>3, <2>4, Zenon
<1>4. Emitting
  <2>1. \A b \in Bee : out[b] = <<>> /\ Len(out[b]) = 0
    BY <1>2
  <2>2. out \in [Bee -> Seq(Nat)]
    BY <1>2
  <2>3. EmitsOnce
    BY SMTT(30), <2>1 DEF EmitsOnce
  <2>4. \A b \in Bee : EmitOK(b)
    BY SMTT(30), <1>3, <2>1 DEF EmitOK
  <2> QED
    BY <2>2, <2>3, <2>4 DEF Emitting
<1>5. Quiet
  <2>1. bee[First].pc = "idle" /\ bee[First].applied = 0
    BY <1>3
  <2> QED
    BY SMTT(30), <1>2, <1>3, <2>1 DEF Quiet, Alone
<1>6. NoneDown
  BY <1>3 DEF NoneDown
<1>7. Replicated
  <2> DEFINE st == [i \in {0} |-> <<>>]
             tm == [i \in {0} |-> 0]
  <2>1. 0..Len(log) = {0} /\ 1..Len(log) = {}
    BY <1>2
  <2>2. st \in [{0} -> Seq(Msg)] /\ tm \in [{0} -> 0..MaxTerm] /\ st[0] = <<>> /\ tm[0] = 0
    OBVIOUS
  <2> HIDE DEF st, tm
  <2>3. Replay(st, tm)
    BY SMTT(30), <2>1, <2>2 DEF Replay
  <2>4. Follows(st, tm)
    BY <1>2, <1>3, <2>2 DEF Follows
  <2> QED
    BY <2>3, <2>4 DEF Replicated
<1> QED
  BY <1>1, <1>4, <1>5, <1>6, <1>7 DEF IInv

LEMMA NextIInv == IInv /\ [Next]_vars => IInv'
<1> SUFFICES ASSUME IInv, [Next]_vars PROVE IInv'
  OBVIOUS
<1>1. Types'
  BY NextTypes DEF IInv
<1>2. CASE Next
  BY <1>1, <1>2, NextQuiet, NextKeeps DEF IInv
<1>3. CASE UNCHANGED vars
  <2>1. UNCHANGED <<flight, log, leaders, bee, snap, acked, out, timeouts, crashes>>
    BY SMTT(30), <1>3 DEF vars, raft, bounds
  <2>2. Emitting'
    BY ZenonT(40), <2>1 DEF IInv, Emitting, EmitOK, EmitsOnce
  <2>3. Quiet'
    BY <2>1 DEF IInv, Quiet, Undisturbed, Alone
  <2>4. NoneDown' /\ Replicated'
    BY <2>1, ReplicatedStutter DEF IInv, NoneDown
  <2> QED
    BY <1>1, <2>2, <2>3, <2>4 DEF IInv
<1> QED
  BY <1>2, <1>3

LEMMA AlwaysIInv == Spec => []IInv
<1>1. Init => IInv
  BY InitIInv
<1>2. IInv /\ [Next]_vars => IInv'
  BY NextIInv
<1> QED
  BY <1>1, <1>2, PTL DEF Spec
-----------------------------------------------------------------------------
(* The results *)

\* For every colony and any number of elections, timeouts, crashes and
\* snapshots: no bee emits the messages of an entry twice, nor before those of
\* an earlier entry (emitInRaft is off from a restart until the barrier).
THEOREM EmitsAtMostOnce == Spec => []EmitsOnce
<1>1. IInv => EmitsOnce
  BY SMTT(30) DEF IInv, Emitting
<1> QED
  BY <1>1, AlwaysIInv, PTL

\* As long as no proposal was given up, no leader elected and no hive stopped,
\* Rcv never writes to the dictionaries themselves: whoever applies what was
\* proposed, the transaction of a running handler stays open.
THEOREM WritesAreReplicated == Spec => []OnlyReplicated
<1>1. IInv => OnlyReplicated
  BY DEF IInv, Quiet, Undisturbed, Alone, OnlyReplicated, Up
<1> QED
  BY <1>1, AlwaysIInv, PTL

\* Bees that have applied the same part of the log are in the same state,
\* through any number of elections, lost proposals, crashes and restarts, as
\* long as no bee has restarted from a snapshot: the snapshot lacks txTerm, by
\* which bee.Apply refuses the transactions of an old leader.
THEOREM ReplicasFollowLog == Spec => [](FromTheLog => ReplicasAgree)
<1>1. IInv => (FromTheLog => ReplicasAgree)
  <2> SUFFICES ASSUME IInv, FromTheLog PROVE ReplicasAgree
    OBVIOUS
  <2>1. PICK st, tm : Replay(st, tm) /\ Follows(st, tm)
    BY SMTT(30) DEF IInv, Replicated
  <2> QED
    BY <2>1 DEF Follows, ReplicasAgree, Up
<1> QED
  BY <1>1, AlwaysIInv, PTL

\* Under the same condition a transaction whose CommitTx has succeeded is in
\* the log and in the state of every bee that has applied that part of it.
THEOREM AckedSurvives == Spec => [](FromTheLog => AckedDurable)
<1>1. IInv => (FromTheLog => AckedDurable)
  <2> SUFFICES ASSUME IInv, FromTheLog, NEW id \in acked
               PROVE  \E i \in DOMAIN log :
                        /\ log[i].req.id = id
                        /\ \A b \in Up : bee[b].applied >= i =>
                             Range(log[i].req.msgs) \subseteq Range(bee[b].state)
    BY DEF AckedDurable
  <2>1. PICK st, tm : Replay(st, tm) /\ Follows(st, tm)
    BY DEF IInv, Replicated
  <2>2. PICK i \in 1..Len(log) :
          log[i].req.id = id /\ Range(log[i].req.msgs) \subseteq Range(st[i])
    BY <2>1 DEF Follows
  <2>3. i \in DOMAIN log /\ i \in 0..Len(log)
    BY DEF IInv, Types, RaftTyped
  <2>4. ASSUME NEW b \in Up, bee[b].applied >= i
        PROVE  Range(log[i].req.msgs) \subseteq Range(bee[b].state)
    <3>1. b \in Bee
      BY SMTT(30) DEF Up
    <3>2. bee[b].applied \in 0..Len(log) /\ i <= bee[b].applied
      BY SMTT(30), <2>4, <3>1 DEF IInv, Types, RaftTyped, BeesTyped, BeeTyped
    <3>3. Range(st[i]) \subseteq Range(st[bee[b].applied]) /\ bee[b].state = st[bee[b].applied]
      BY <2>1, <2>3, <3>1, <3>2 DEF Replay, Follows
    <3> QED
      BY <2>2, <3>3
  <2> QED
    BY SMTT(30), <2>2, <2>3, <2>4
<1> QED
  BY <1>1, AlwaysIInv, PTL
=============================================================================
