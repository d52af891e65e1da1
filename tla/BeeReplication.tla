--------------------------- MODULE BeeReplication ---------------------------
(***************************************************************************)
(* A colony of a persistent application: one bee per hive, each a replica  *)
(* of the state machine of a Raft group.  The leader stages what handlers  *)
(* write in its transaction stateL1, proposes it (replicate), and every    *)
(* bee applies it in the order of the Raft log (Apply).  The messages of   *)
(* the transaction are emitted by the bee that takes itself for the leader *)
(* when it applies them.                                                   *)
(*                                                                         *)
(* Raft is external: proposals in flight, one committed log, elections     *)
(* that may lose proposals, and bees that learn of commits and leaders     *)
(* late.  The term in a LeaderChanged event is the one of the HardState of *)
(* the same Ready, which Raft leaves empty unless it has changed since the *)
(* Ready before: the term is the leader's or 0.                            *)
(*                                                                         *)
(* A transaction is the sequence of the messages whose changes it holds,   *)
(* and the state of a replica is the sequence of messages applied.  The    *)
(* members of the colony do not change, every message writes, and batches  *)
(* have one message (BeeTx has the second transaction layer).              *)
(***************************************************************************)
EXTENDS Naturals, Sequences, FiniteSets, Functions

CONSTANTS
  Bee,         \* the bees of the colony
  First,       \* the bee that leads the colony at first
  Msg,         \* messages for the bee that leads the colony
  SnapCount,   \* entries applied before a snapshot is made
  MaxTerm,     \* bound: elections
  MaxTimeout,  \* bound: proposals that time out
  MaxCrash     \* bound: crashes

ASSUME BeeReplicationAssumption ==
  /\ IsFiniteSet(Bee) /\ First \in Bee
  /\ SnapCount \in Nat /\ MaxTerm \in Nat
  /\ MaxTimeout \in Nat /\ MaxCrash \in Nat

VARIABLES
  flight,   \* proposals that are not committed
  proposed, \* how many proposals there have been
  log,      \* committed proposals
  leaders,  \* the Raft leader of each term
  colony,   \* the leader and the term of the colony in the registry
  updates,  \* updateColony requests that the registry has not applied
  bee,      \* the bees
  snap,     \* the latest snapshot of each bee
  todo,     \* messages no leader has handled
  acked,    \* commitTx proposals that were answered without an error
  out,      \* log entries each bee has emitted the messages of, in order
  timeouts, crashes

raft == <<flight, proposed, log, leaders>>
registry == <<colony, updates>>
bounds == <<timeouts, crashes>>
vars == <<raft, registry, bee, snap, todo, acked, out, bounds>>

Majority(S) == 2 * Cardinality(S) > Cardinality(Bee)
Up == {b \in Bee : bee[b].pc # "down"}

\* A proposal, numbered like its RequestID: a commitTx, or the noOp of a
\* barrier, which holds no messages.
Propose(b, msgs) ==
  /\ proposed' = proposed + 1
  /\ flight' = flight \cup
       {[id |-> proposed', term |-> bee[b].raftTerm, msgs |-> msgs]}

NewBee(b) ==
  [pc         |-> "idle",     \* idle, rcv, commit, waiting, barrier, down
   leader     |-> First,      \* beeColony.Leader
   role       |-> IF b = First THEN "leader" ELSE "follower",
   raftTerm   |-> 0,
   seen       |-> 0,          \* the term of the Raft leader it knows
   emitInRaft |-> TRUE,
   txOpen     |-> FALSE,      \* stateL1.status
   tx         |-> <<>>,       \* stateL1.stage, msgBufL1
   dirty      |-> <<>>,       \* written to the dictionaries by Rcv itself
   msg        |-> {},         \* the message in Rcv
   waits      |-> 0,          \* the proposal it waits for
   applied    |-> 0,
   known      |-> 0,          \* the commit index on its disk
   txTerm     |-> 0,
   state      |-> <<>>]

Init ==
  /\ flight = {} /\ proposed = 0 /\ log = <<>> /\ leaders = <<>>
  /\ colony = [leader |-> First, term |-> 0]
  /\ updates = {}
  /\ bee = [b \in Bee |-> NewBee(b)]
  /\ snap = [b \in Bee |-> [at |-> 0, state |-> <<>>, dirty |-> <<>>]]
  /\ todo = Msg
  /\ acked = {}
  /\ out = [b \in Bee |-> <<>>]
  /\ timeouts = 0 /\ crashes = 0
-----------------------------------------------------------------------------
(* Raft *)

Commit(p) ==
  /\ Majority(Up)
  /\ p \in flight
  /\ flight' = flight \ {p}
  /\ log' = Append(log, [req |-> p, raftTerm |-> Len(leaders)])
  /\ UNCHANGED <<proposed, leaders, registry, bee, snap, todo, acked, out, bounds>>

\* An election.  Proposals of the term before may survive it; those that stay
\* in flight for ever are lost.
Elect(b) ==
  /\ Majority(Up) /\ b \in Up
  /\ Len(leaders) < MaxTerm
  /\ leaders' = Append(leaders, b)
  /\ UNCHANGED <<flight, proposed, log, registry, bee, snap, todo, acked, out, bounds>>
-----------------------------------------------------------------------------
(* What the applier goroutine of a bee's group does *)

\* ProcessStatusChange: the bee learns of the leader of term t.
LearnLeader(b, t, evTerm) ==
  LET new == leaders[t]
      c == [bee[b] EXCEPT !.seen = t]
  IN  /\ bee[b].pc # "down"
      /\ t \in (bee[b].seen + 1)..Len(leaders)
      /\ evTerm \in {0, t}
      /\ IF bee[b].leader = new
         THEN bee' = [bee EXCEPT ![b] = c] /\ UNCHANGED updates
         ELSE IF new # b
         THEN bee' = [bee EXCEPT ![b] = [c EXCEPT !.leader = new]]
              /\ UNCHANGED updates
         ELSE /\ bee' = [bee EXCEPT ![b] = [c EXCEPT !.leader = b, !.raftTerm = evTerm]]
              /\ updates' = updates \cup {[leader |-> b, term |-> evTerm]}
      /\ UNCHANGED <<raft, colony, snap, todo, acked, out, bounds>>

\* Mutant of accepts: the term is compared with that of the bee.
acceptsOwn(r, req) == r.raftTerm <= req.term

accepts(r, req) == r.txTerm <= req.term

\* bee.Apply of a commitTx: an older term is refused; otherwise the open
\* transaction is reset, in whichever step the bee is, and the operations
\* are applied.
applyTx(r, req) ==
  IF req.msgs = <<>> \/ ~accepts(r, req)
  THEN r
  ELSE [r EXCEPT !.txTerm = req.term, !.state = @ \o req.msgs,
                 !.txOpen = FALSE, !.tx = IF r.txOpen THEN <<>> ELSE @]

\* Mutant of answersOK: a transaction that is refused is not an error.
answersOKAlways(r, req) == r.pc = "waiting"

answersOK(r, req) == r.pc = "waiting" /\ accepts(r, req)

emits(b, req) ==
  /\ req.msgs # <<>> /\ accepts(bee[b], req)
  /\ bee[b].leader = b /\ bee[b].emitInRaft

\* group.apply of the next entry, with the snapshot that may follow, and the
\* answer to the bee if it waits for it (line.call).
Apply(b) ==
  LET i == bee[b].applied + 1
      req == log[i].req
      r == [applyTx(bee[b], req) EXCEPT !.applied = i]
      mine == bee[b].waits = req.id
  IN  /\ bee[b].pc # "down"
      /\ i <= Len(log)
      /\ i <= bee[b].known \/ log[i].raftTerm <= bee[b].seen
      /\ bee' = [bee EXCEPT ![b] =
           IF ~mine THEN r
           ELSE [r EXCEPT !.pc = "idle", !.waits = 0,
                          !.emitInRaft = @ \/ bee[b].pc = "barrier"]]
      /\ acked' = IF mine /\ answersOK(bee[b], req) THEN acked \cup {req.id} ELSE acked
      /\ out' = IF emits(b, req) THEN [out EXCEPT ![b] = Append(@, i)] ELSE out
      /\ snap' = IF i - snap[b].at > SnapCount
                 THEN [snap EXCEPT ![b] = [at |-> i, state |-> r.state, dirty |-> r.dirty]]
                 ELSE snap
      /\ UNCHANGED <<raft, registry, todo, bounds>>
-----------------------------------------------------------------------------
(* What the goroutine of a bee does *)

\* cmdRefreshRole, once the bee is back in its loop.
RefreshRole(b) ==
  LET role == IF bee[b].leader = b THEN "leader" ELSE "follower"
  IN  /\ bee[b].pc = "idle" /\ bee[b].role # role
      /\ bee' = [bee EXCEPT ![b].role = role]
      /\ UNCHANGED <<raft, registry, snap, todo, acked, out, bounds>>

\* handleMsgLeader: BeginTx, which goes on with a transaction that a failed
\* replicate has left open.
Handle(b, m) ==
  /\ bee[b].pc = "idle" /\ bee[b].role = "leader"
  /\ m \in todo
  /\ todo' = todo \ {m}
  /\ bee' = [bee EXCEPT ![b].pc = "rcv", ![b].msg = {m}, ![b].txOpen = TRUE]
  /\ UNCHANGED <<raft, registry, snap, acked, out, bounds>>

\* Rcv: Dict(d).Put, in the stage when Dict has found the transaction open,
\* and else in the dictionary itself.
Put(b, m) ==
  /\ bee[b].pc = "rcv" /\ bee[b].msg = {m}
  /\ \E staged \in {TRUE, bee[b].txOpen} :
       bee' = [bee EXCEPT ![b] =
         IF staged
         THEN [bee[b] EXCEPT !.pc = "commit", !.msg = {}, !.tx = Append(@, m)]
         ELSE [bee[b] EXCEPT !.pc = "commit", !.msg = {}, !.dirty = Append(@, m)]]
  /\ UNCHANGED <<raft, registry, snap, todo, acked, out, bounds>>

\* Mutant of replicate: the bee does not wait for its proposal.
replicateAsync(b) ==
  /\ bee[b].pc = "commit" /\ bee[b].txOpen
  /\ Propose(b, bee[b].tx)
  /\ bee' = [bee EXCEPT ![b].pc = "idle"]
  /\ UNCHANGED <<log, leaders, registry, snap, todo, acked, out, bounds>>

\* CommitTx, that is replicate: ErrNoTx when Apply has reset the transaction.
replicate(b) ==
  /\ bee[b].pc = "commit"
  /\ IF bee[b].txOpen
     THEN /\ Propose(b, bee[b].tx)
          /\ bee' = [bee EXCEPT ![b].pc = "waiting", ![b].waits = proposed']
     ELSE /\ bee' = [bee EXCEPT ![b].pc = "idle"]
          /\ UNCHANGED <<flight, proposed>>
  /\ UNCHANGED <<log, leaders, registry, snap, todo, acked, out, bounds>>

\* The context of Propose is done; the transaction stays open.
Timeout(b) ==
  /\ bee[b].pc = "waiting"
  /\ timeouts < MaxTimeout /\ timeouts' = timeouts + 1
  /\ bee' = [bee EXCEPT ![b].pc = "idle", ![b].waits = 0]
  /\ UNCHANGED <<raft, registry, snap, todo, acked, out, crashes>>

\* registry.updateColony.
UpdateColony(u) ==
  /\ u \in updates
  /\ updates' = updates \ {u}
  /\ colony' = IF u.term < colony.term THEN colony ELSE u
  /\ UNCHANGED <<raft, bee, snap, todo, acked, out, bounds>>
-----------------------------------------------------------------------------
(* Crash and restart of a hive *)

Crash(b) ==
  /\ bee[b].pc # "down"
  /\ crashes < MaxCrash /\ crashes' = crashes + 1
  /\ bee' = [bee EXCEPT ![b].pc = "down", ![b].waits = 0]
  /\ UNCHANGED <<raft, registry, snap, todo, acked, out, timeouts>>

\* Mutant of reloadBee: messages are emitted from the start.
reloadBeeEmits(b) ==
  /\ bee[b].pc = "down"
  /\ Propose(b, <<>>)
  /\ bee' = [bee EXCEPT ![b] =
       [NewBee(b) EXCEPT
          !.pc = "barrier", !.waits = proposed',
          !.leader = colony.leader,
          !.role = IF colony.leader = b THEN "leader" ELSE "follower",
          !.applied = snap[b].at, !.known = bee[b].applied,
          !.state = snap[b].state, !.dirty = snap[b].dirty]]
  /\ UNCHANGED <<log, leaders, registry, snap, todo, acked, out, bounds>>

\* queen.reloadBee and bee.start: the colony comes from the registry, the
\* state from the snapshot and the log, the term and txTerm from nowhere.
\* createGroup waits for a barrier before the bee emits and handles messages.
reloadBee(b) ==
  /\ bee[b].pc = "down"
  /\ Propose(b, <<>>)
  /\ bee' = [bee EXCEPT ![b] =
       [NewBee(b) EXCEPT
          !.pc = "barrier", !.waits = proposed', !.emitInRaft = FALSE,
          !.leader = colony.leader,
          !.role = IF colony.leader = b THEN "leader" ELSE "follower",
          !.applied = snap[b].at, !.known = bee[b].applied,
          !.state = snap[b].state, !.dirty = snap[b].dirty]]
  /\ UNCHANGED <<log, leaders, registry, snap, todo, acked, out, bounds>>

\* ProposeRetry of the barrier, whose proposal was lost or is slow.
RetryBarrier(b) ==
  /\ bee[b].pc = "barrier"
  /\ timeouts < MaxTimeout /\ timeouts' = timeouts + 1
  /\ Propose(b, <<>>)
  /\ bee' = [bee EXCEPT ![b].waits = proposed']
  /\ UNCHANGED <<log, leaders, registry, snap, todo, acked, out, crashes>>
-----------------------------------------------------------------------------
Next ==
  \/ \E p \in flight : Commit(p)
  \/ \E u \in updates : UpdateColony(u)
  \/ \E b \in Bee :
       \/ Elect(b)
       \/ \E t \in 1..MaxTerm : \E evTerm \in 0..MaxTerm : LearnLeader(b, t, evTerm)
       \/ Apply(b)
       \/ RefreshRole(b)
       \/ \E m \in Msg : Handle(b, m) \/ Put(b, m)
       \/ replicate(b)
       \/ Timeout(b)
       \/ Crash(b) \/ reloadBee(b) \/ RetryBarrier(b)

Spec == Init /\ [][Next]_vars
-----------------------------------------------------------------------------
(* Correctness *)

Requests ==
  [id : 1..proposed, term : 0..MaxTerm, msgs : Seq(Msg)]

\* Type invariant: the fields of the bees (bee.go) and of the requests are
\* well formed, and nobody has applied more than Raft has committed.
TypeOK ==
  /\ flight \subseteq Requests
  /\ \A i \in DOMAIN log : log[i].req \in Requests /\ log[i].raftTerm \in 0..MaxTerm
  /\ leaders \in Seq(Bee)
  /\ colony \in [leader : Bee, term : 0..MaxTerm]
  /\ updates \subseteq [leader : Bee, term : 0..MaxTerm]
  /\ \A b \in Bee :
       /\ bee[b].pc \in {"idle", "rcv", "commit", "waiting", "barrier", "down"}
       /\ bee[b].leader \in Bee /\ bee[b].role \in {"leader", "follower"}
       /\ bee[b].tx \in Seq(Msg) /\ bee[b].state \in Seq(Msg)
       /\ bee[b].dirty \in Seq(Msg)
       /\ bee[b].applied \in snap[b].at..Len(log)
       /\ bee[b].waits # 0 <=> bee[b].pc \in {"waiting", "barrier"}
  /\ todo \subseteq Msg /\ acked \subseteq 1..proposed

\* Bees that have applied the same part of the log have applied the same
\* transactions: the late ones of an old leader are refused by all of them or
\* by none (ErrOldTx in bee.Apply).
ReplicasAgree ==
  \A b, c \in Up :
    bee[b].applied = bee[c].applied => bee[b].state = bee[c].state

\* A transaction whose CommitTx has succeeded is in the log, and its changes
\* are in the state of every bee that has got that far, whoever leads the
\* colony by then and whoever has crashed since.
AckedDurable ==
  \A id \in acked : \E i \in DOMAIN log :
    /\ log[i].req.id = id
    /\ \A b \in Up : bee[b].applied >= i =>
         Range(log[i].req.msgs) \subseteq Range(bee[b].state)

\* A bee emits the messages of transactions in the order of the log and never
\* twice, although it applies the log anew when it restarts (emitInRaft).
EmitsOnce ==
  \A b \in Bee : \A i, j \in DOMAIN out[b] : i < j => out[b][i] < out[b][j]

\* The dictionaries hold what has been replicated and nothing else: Apply, in
\* the goroutine of the Raft group, resets the open transaction, but not while
\* Rcv fills it, since the bee waits for each of its proposals.  This needs
\* that no proposal is given up, no leader deposed and no hive restarted.
OnlyReplicated ==
  timeouts = 0 /\ leaders = <<>> /\ crashes = 0 =>
    \A b \in Up : bee[b].dirty = <<>>
=============================================================================
