------------------------------ MODULE Migration -----------------------------
(***************************************************************************)
(* Live migration of bees: qee.migrate of queen.go with the commands that  *)
(* it sends, and the hand-off of bee.go.  The queen of the bee's hive asks *)
(* the queen of the other hive for a new bee, makes it a leader, waits for *)
(* its own replica of the registry, and tells the old bee to hand off; the *)
(* old bee copies its state to the new one, asks the registry to give the  *)
(* new one its cells, and becomes a proxy.  Queens keep routing messages   *)
(* meanwhile, each by its own replica of the registry, which may be        *)
(* behind.                                                                 *)
(*                                                                         *)
(* Modelled are applications that are not persistent, whose cells all have *)
(* a bee.  A queen is one goroutine and blocks in a command; so does a     *)
(* bee.  A command sent to another hive has no timeout, but it may fail:   *)
(* the connection is lost before it is carried out, or only its answer is. *)
(* The update of the registry is the one request of a migration that gives *)
(* up after a while: it is then still in flight, and may commit later.     *)
(* The other requests are repeated until they are applied, and here they   *)
(* commit at once.                                                         *)
(***************************************************************************)
EXTENDS RegistryState, Sequences, Functions

CONSTANTS
  Hive,        \* the hives
  Start,       \* the hive where the bee of a cell is at first
  Msg,         \* the messages
  MsgCell,     \* the cell Map answers for a message
  Limit        \* bounds: how many migrations are asked for, how many calls
               \* fail or updates are given up, and which messages are sent

ASSUME MigrationAssumption ==
  /\ Hive = 1..MaxHiveID
  /\ Start \in [Cell -> Hive] /\ IsInjective(Start)
  /\ MsgCell \in [Msg -> Cell]
  /\ MaxBeeID = hiveGroup + MaxHiveID * BatchSize
  /\ Limit \subseteq [migrate : 0..BatchSize - 1, fault : Nat, msgs : SUBSET Msg]

VARIABLES
  regs,    \* the registry after each committed request
  at,      \* how many of these each hive has applied
  ups,     \* updates of the registry that are in flight
  nextID,  \* q.nextID of each hive
  queen,   \* the queen of each hive and the migration it is at
  ctrl,    \* commands that wait at the queen of each hive
  inbox,   \* messages that wait at the queen of each hive
  bees,    \* q.bees of each hive
  seen,    \* messages handled, and lost with a connection, and the bees whose
           \* hand-off was given up
  left     \* migrations, faults and messages that may still come

registry == <<regs, at, ups>>
queens == <<nextID, queen, ctrl>>
vars == <<registry, queens, inbox, bees, seen, left>>

Replica(h) == regs[at[h]]

Latest == regs[Len(regs)]

FirstID(h) == hiveGroup + 1 + (h - 1) * BatchSize

NoJob == [bee |-> Nil, to |-> Nil, n |-> 0, newb |-> Nil]

idle == [pc |-> "idle", job |-> NoJob, idx |-> 0]

\* A bee that is not in q.bees has the role "none".
newBee(role, col) ==
  [role |-> role, col |-> col, st |-> {}, q |-> <<>>, pc |-> "idle",
   to |-> Nil, idx |-> 0]

Env(m, to) == [msg |-> m, to |-> to]

firstRegistry ==
  LET old == [b \in BeeIDs |-> {k \in Cell : FirstID(Start[k]) = b}]
  IN  [newRegistry EXCEPT
        !.BeeID = MaxBeeID + 1,
        !.Bees = [b \in BeeIDs |->
          IF old[b] = {} THEN NoBee
          ELSE [ID |-> b, Hive |-> Start[CHOOSE k \in old[b] : TRUE],
                Colony |-> DefaultColony(b), Detached |-> FALSE]],
        !.CellBees = [k \in Cell |-> DefaultColony(FirstID(Start[k]))],
        !.BeeCells = old]

Init ==
  /\ regs = <<firstRegistry>>
  /\ at = [h \in Hive |-> 1]
  /\ nextID = [h \in Hive |->
       IF h \in Range(Start) THEN FirstID(h) + 1 ELSE FirstID(h)]
  /\ queen = [h \in Hive |-> idle]
  /\ ctrl = [h \in Hive |-> {}]
  /\ inbox = [h \in Hive |-> {}]
  /\ bees = [h \in Hive |-> [b \in BeeIDs |->
       IF h \in Range(Start) /\ b = FirstID(h)
       THEN newBee("leader", DefaultColony(b))
       ELSE newBee("none", NilColony)]]
  /\ ups = {}
  /\ seen = [handled |-> {}, lost |-> {}, late |-> {}]
  /\ left \in Limit
-----------------------------------------------------------------------------
(* The environment: messages, requests to migrate, the registry's Raft *)

Emit(h, m) ==
  /\ m \in left.msgs
  /\ left' = [left EXCEPT !.msgs = @ \ {m}]
  /\ inbox' = [inbox EXCEPT ![h] = @ \cup {Env(m, Nil)}]
  /\ UNCHANGED <<registry, queens, bees, seen>>

\* The collector of a hive relays what the optimizer decided about a bee that
\* was there when it reported.
AskMigrate(h, b, to) ==
  /\ left.migrate > 0 /\ h # to
  /\ bees[h][b].role \in {"leader", "proxy"} /\ Latest.Bees[b].Hive = h
  /\ left' = [left EXCEPT !.migrate = @ - 1]
  /\ ctrl' = [ctrl EXCEPT ![h] = @ \cup
       {[op |-> "migrate", bee |-> b, to |-> to, n |-> left.migrate]}]
  /\ UNCHANGED <<registry, nextID, queen, inbox, bees, seen>>

Apply(h) ==
  /\ at[h] < Len(regs)
  /\ at' = [at EXCEPT ![h] = @ + 1]
  /\ UNCHANGED <<queens, regs, ups, inbox, bees, seen, left>>

\* An update commits; the bee that still waits for it learns the index.
Commit(u) ==
  /\ u \in ups
  /\ ups' = ups \ {u}
  /\ regs' = Append(regs, updateColony(Latest, u.old, u.new, 0))
  /\ bees' = IF u.wait
             THEN [bees EXCEPT ![u.hive][u.old.Leader].idx = Len(regs) + 1]
             ELSE bees
  /\ UNCHANGED <<queens, at, inbox, seen, left>>
-----------------------------------------------------------------------------
(* Routing: hive.handleMsg and qee.handleMsgs *)

beeByCells(h, m) == Replica(h).CellBees[MsgCell[m]].Leader

\* A message for cells goes to their bee, a unicast message to the bee it is
\* for; the bee is created as a proxy if q.bees lacks it.  A bee the replica
\* lacks costs the message, and a local one that q.bees lacks is fatal.
handleMsg(h, e) ==
  LET b == IF e.to = Nil THEN beeByCells(h, e.msg) ELSE e.to
      info == Replica(h).Bees[b]
  IN  /\ queen[h].pc = "idle" /\ e \in inbox[h]
      /\ inbox' = [inbox EXCEPT ![h] = @ \ {e}]
      /\ IF bees[h][b].role # "none" \/ info.Hive \notin {Nil, h}
         THEN bees' = [bees EXCEPT ![h][b] =
                [IF @.role = "none" THEN newBee("proxy", NilColony) ELSE @
                   EXCEPT !.q = Append(@, e.msg)]]
         ELSE UNCHANGED bees   \* no such bee: the message is dropped
      /\ UNCHANGED <<registry, queens, seen, left>>
-----------------------------------------------------------------------------
(* The bee's goroutine: messages *)

\* Mutant of ready: a bee handles messages while it hands off.
ready_Busy(h, b) == bees[h][b].q # <<>>

ready(h, b) == bees[h][b].pc = "idle" /\ bees[h][b].q # <<>>

\* Mutant of proxyTo: the proxy asks itself.
proxyTo_Self(h, b) == h

\* A proxy sends to the hive that the registry names for the bee's ID, which
\* is its own hive for a bee that has handed off.
proxyTo(h, b) == Replica(h).Bees[b].Hive

\* The message handler of a leader, a zombie (which drops the message) or a
\* proxy.
Rcv(h, b) ==
  LET m == Head(bees[h][b].q)
      role == bees[h][b].role
  IN  /\ ready(h, b)
      /\ bees' = [bees EXCEPT ![h][b].q = Tail(@),
                   ![h][b].st = IF role = "leader" THEN @ \cup {m} ELSE @]
      /\ seen' = IF role = "leader" THEN [seen EXCEPT !.handled = @ \cup {m}]
                                    ELSE seen
      /\ inbox' = IF role = "proxy"
                  THEN [inbox EXCEPT ![proxyTo(h, b)] = @ \cup {Env(m, b)}]
                  ELSE inbox
      /\ UNCHANGED <<registry, queens, left>>

fault == left.fault > 0 /\ left' = [left EXCEPT !.fault = @ - 1]

\* A call of a proxy fails: the message had arrived and is sent again, or the
\* connection cannot be made anew and the message is given up.
proxyFails(h, b, arrived) ==
  LET m == Head(bees[h][b].q)
  IN  /\ ready(h, b) /\ bees[h][b].role = "proxy" /\ proxyTo(h, b) # h
      /\ fault
      /\ IF arrived
         THEN /\ inbox' = [inbox EXCEPT ![proxyTo(h, b)] = @ \cup {Env(m, b)}]
              /\ UNCHANGED <<bees, seen>>
         ELSE /\ bees' = [bees EXCEPT ![h][b].q = Tail(@)]
              /\ seen' = [seen EXCEPT !.lost = @ \cup {m}]
              /\ UNCHANGED inbox
      /\ UNCHANGED <<registry, queens>>
-----------------------------------------------------------------------------
(* The queen: cmdMigrate and cmdCreateBee *)

\* migrate, up to the call of the other queen; a bee that is not a local one
\* by now is refused.
migrate(h, c) ==
  LET job == [bee |-> c.bee, to |-> c.to, n |-> c.n, newb |-> Nil]
  IN  /\ queen[h].pc = "idle" /\ c \in ctrl[h] /\ c.op = "migrate"
      /\ IF bees[h][c.bee].role \in {"none", "proxy"}
         THEN /\ ctrl' = [ctrl EXCEPT ![h] = @ \ {c}]
              /\ UNCHANGED queen
         ELSE /\ ctrl' = [ctrl EXCEPT ![h] = @ \ {c},
                  ![c.to] = @ \cup
                    {[op |-> "create", bee |-> Nil, to |-> h, n |-> c.n]}]
              /\ queen' = [queen EXCEPT
                  ![h] = [pc |-> "creating", job |-> job, idx |-> 0]]
      /\ UNCHANGED <<registry, nextID, inbox, bees, seen, left>>

newBeeID(b) == b + 1

\* newLocalBee(false): an ID, and the request that registers the bee.
createBee(h, c) ==
  LET b == nextID[h]
      info == [ID |-> b, Hive |-> h, Colony |-> NilColony, Detached |-> FALSE]
  IN  /\ queen[h].pc = "idle" /\ c \in ctrl[h] /\ c.op = "create"
      /\ ctrl' = [ctrl EXCEPT ![h] = @ \ {c}]
      /\ nextID' = [nextID EXCEPT ![h] = newBeeID(b)]
      /\ regs' = Append(regs, addBee(Latest, info))
      /\ queen' = [queen EXCEPT ![h] =
           [pc |-> "registering", idx |-> Len(regs) + 1,
            job |-> [bee |-> Nil, to |-> c.to, n |-> c.n, newb |-> b]]]
      /\ UNCHANGED <<at, ups, inbox, bees, seen, left>>

\* The call of hive g's migration n is still waiting for its answer.
awaits(g, n) == queen[g].pc = "creating" /\ queen[g].job.n = n

\* The bee starts as a zombie and its ID is the answer to the other queen.
beeCreated(h) ==
  LET job == queen[h].job
  IN  /\ queen[h].pc = "registering" /\ at[h] >= queen[h].idx
      /\ bees' = [bees EXCEPT ![h][job.newb] = newBee("zombie", NilColony)]
      /\ queen' =
           IF awaits(job.to, job.n)
           THEN [queen EXCEPT ![h] = idle,
                  ![job.to].pc = "joining", ![job.to].job.newb = job.newb]
           ELSE [queen EXCEPT ![h] = idle]
      /\ UNCHANGED <<registry, nextID, ctrl, inbox, seen, left>>

\* What cmdJoinColony makes of the new bee: the leader of a colony that has
\* no ID.
joinColony(h, b) ==
  [bees EXCEPT ![h][b].role = "leader",
               ![h][b].col = [NilColony EXCEPT !.Leader = b]]

join(h) ==
  /\ queen[h].pc = "joining"
  /\ bees' = joinColony(queen[h].job.to, queen[h].job.newb)
  /\ queen' = [queen EXCEPT ![h].pc = "joined"]
  /\ UNCHANGED <<registry, nextID, ctrl, inbox, seen, left>>

\* A call of migrate fails, before or after the other hive has done its part:
\* migrate returns the error and the new bee, if any, is left behind.
callFails(h, done) ==
  LET job == queen[h].job
      c == [op |-> "create", bee |-> Nil, to |-> h, n |-> job.n]
  IN  /\ queen[h].pc \in {"creating", "joining"}
      /\ fault
      /\ queen' = [queen EXCEPT ![h] = idle]
      /\ IF queen[h].pc = "creating" /\ ~done
         THEN /\ c \in ctrl[job.to]
              /\ ctrl' = [ctrl EXCEPT ![job.to] = @ \ {c}]
         ELSE UNCHANGED ctrl
      /\ IF queen[h].pc = "joining" /\ done
         THEN bees' = joinColony(job.to, job.newb)
         ELSE UNCHANGED bees
      /\ UNCHANGED <<registry, nextID, inbox, seen>>

\* Mutant of raftBarrier: it does not wait.
raftBarrier_Skip(h) ==
  /\ queen[h].pc = "joined"
  /\ queen' = [queen EXCEPT ![h].pc = "handoff"]
  /\ UNCHANGED <<registry, nextID, ctrl, inbox, bees, seen, left>>

\* hive.raftBarrier: an empty request, which the own replica must apply.
raftBarrier(h) ==
  /\ queen[h].pc = "joined"
  /\ queen' = [queen EXCEPT ![h].pc = "barrier", ![h].idx = Len(regs)]
  /\ UNCHANGED <<registry, nextID, ctrl, inbox, bees, seen, left>>

\* The barrier is passed and the old bee is sent cmdHandoff.
cmdHandoff(h) ==
  /\ queen[h].pc = "barrier" /\ at[h] >= queen[h].idx
  /\ queen' = [queen EXCEPT ![h].pc = "handoff"]
  /\ UNCHANGED <<registry, nextID, ctrl, inbox, bees, seen, left>>
-----------------------------------------------------------------------------
(* The old bee: handoffNonPersistent *)

\* The bee takes the command and looks up the new bee.  If the replica lacks
\* it the hand-off, and the migration, ends with an error.
handoff(h) ==
  LET job == queen[h].job
  IN  /\ queen[h].pc = "handoff" /\ bees[h][job.bee].pc = "idle"
      /\ IF HasBee(Replica(h), job.newb)
         THEN /\ bees' = [bees EXCEPT ![h][job.bee].pc = "restoring",
                                      ![h][job.bee].to = job.newb]
              /\ queen' = [queen EXCEPT ![h].pc = "waiting"]
         ELSE /\ queen' = [queen EXCEPT ![h] = idle]
              /\ UNCHANGED bees
      /\ UNCHANGED <<registry, nextID, ctrl, inbox, seen, left>>

\* The goroutine of the new bee carries out cmdRestoreState.
restored(h, b) ==
  LET new == bees[h][b].to
      g == Replica(h).Bees[new].Hive
  IN  [bees EXCEPT ![g][new].st = bees[h][b].st]

targetIdle(h, b) ==
  LET new == bees[h][b].to
  IN  bees[Replica(h).Bees[new].Hive][new].pc = "idle"

restoreState(h, b) ==
  /\ bees[h][b].pc = "restoring" /\ targetIdle(h, b)
  /\ bees' = [restored(h, b) EXCEPT ![h][b].pc = "restored"]
  /\ UNCHANGED <<registry, queens, inbox, seen, left>>

\* Mutant of ended: the queen is not answered.
ended_Silent(h, b, B) ==
  /\ bees' = [B EXCEPT ![h][b].pc = "idle", ![h][b].to = Nil, ![h][b].idx = 0]
  /\ UNCHANGED queen

\* The bee and its queen are done with the hand-off, with an error or not.
ended(h, b, B) ==
  /\ bees' = [B EXCEPT ![h][b].pc = "idle", ![h][b].to = Nil, ![h][b].idx = 0]
  /\ queen' = [queen EXCEPT ![h] = idle]

\* Mutant of restoreFails: the error is not looked at.
restoreFails_Ignored(h, b, done) ==
  /\ bees[h][b].pc = "restoring" /\ targetIdle(h, b)
  /\ fault
  /\ bees' = [IF done THEN restored(h, b) ELSE bees
               EXCEPT ![h][b].pc = "restored"]
  /\ UNCHANGED <<registry, queens, inbox, seen>>

restoreFails(h, b, done) ==
  /\ bees[h][b].pc = "restoring" /\ targetIdle(h, b)
  /\ fault
  /\ ended(h, b, IF done THEN restored(h, b) ELSE bees)
  /\ UNCHANGED <<registry, nextID, ctrl, inbox, seen>>

proposeUpdate(h, b) ==
  LET old == bees[h][b].col
  IN  /\ bees[h][b].pc = "restored"
      /\ ups' = ups \cup {[hive |-> h, old |-> old, wait |-> TRUE,
                           new |-> [old EXCEPT !.Leader = bees[h][b].to]]}
      /\ bees' = [bees EXCEPT ![h][b].pc = "updating"]
      /\ UNCHANGED <<queens, regs, at, inbox, seen, left>>

\* The update is applied at the own replica: the bee becomes a proxy.
becomeProxy(h, b) ==
  /\ bees[h][b].pc = "updating" /\ bees[h][b].idx \in 1..at[h]
  /\ ended(h, b, [bees EXCEPT ![h][b].role = "proxy"])
  /\ UNCHANGED <<registry, nextID, ctrl, inbox, seen, left>>

\* The context of the proposal expires first: the hand-off returns an error
\* and the bee goes on as before, whatever becomes of the update.
updateTimesOut(h, b) ==
  /\ bees[h][b].pc = "updating" /\ ~(bees[h][b].idx \in 1..at[h])
  /\ fault
  /\ seen' = [seen EXCEPT !.late = @ \cup {b}]
  /\ ups' = {IF u.hive = h /\ u.old.Leader = b THEN [u EXCEPT !.wait = FALSE]
             ELSE u : u \in ups}
  /\ ended(h, b, bees)
  /\ UNCHANGED <<regs, at, nextID, ctrl, inbox>>
-----------------------------------------------------------------------------
QueenCmd(h) ==
  \/ \E c \in ctrl[h] : migrate(h, c) \/ createBee(h, c)
  \/ beeCreated(h)
  \/ join(h)
  \/ raftBarrier(h)
  \/ cmdHandoff(h)

QueenMsg(h, m) == \E e \in inbox[h] : e.msg = m /\ handleMsg(h, e)

BeeStep(h, b) ==
  \/ Rcv(h, b)
  \/ queen[h].job.bee = b /\ handoff(h)
  \/ restoreState(h, b)
  \/ proposeUpdate(h, b)
  \/ becomeProxy(h, b)

Fault ==
  \E h \in Hive :
    \/ \E done \in BOOLEAN : callFails(h, done)
    \/ \E b \in BeeIDs :
         \/ \E done \in BOOLEAN : restoreFails(h, b, done) \/ proxyFails(h, b, done)
         \/ updateTimesOut(h, b)

Next ==
  \/ \E h \in Hive :
       \/ \E m \in left.msgs : Emit(h, m)
       \/ \E b \in BeeIDs, to \in Hive : AskMigrate(h, b, to)
       \/ Apply(h)
       \/ QueenCmd(h)
       \/ \E m \in Msg : QueenMsg(h, m)
       \/ \E b \in BeeIDs : BeeStep(h, b)
  \/ \E u \in ups : Commit(u)
  \/ Fault

\* Every goroutine runs, Raft brings every committed request to every hive,
\* and an update that is waited for commits in the end.  The select of a queen
\* leaves no command and no message aside forever.  Messages, requests to
\* migrate and faults need not happen, nor need an update commit late.
Fairness ==
  /\ WF_vars(\E u \in ups : u.wait /\ Commit(u))
  /\ \A h \in Hive :
       /\ WF_vars(Apply(h))
       /\ SF_vars(QueenCmd(h))
       /\ \A m \in Msg : SF_vars(QueenMsg(h, m))
       /\ \A b \in BeeIDs \ {Nil, hiveGroup} : WF_vars(BeeStep(h, b))

Spec == Init /\ [][Next]_vars /\ Fairness
-----------------------------------------------------------------------------
TypeOK ==
  /\ regs \in Seq(Registries)
  /\ at \in [Hive -> 1..Len(regs)]
  /\ nextID \in [Hive -> BeeIDs \cup {MaxBeeID + 1}]
  /\ \A h \in Hive :
       /\ queen[h].pc \in {"idle", "creating", "registering", "joining",
                           "joined", "barrier", "handoff", "waiting"}
       /\ queen[h].job \in [bee : BeeIDs, to : HiveIDs, newb : BeeIDs,
                            n : 0..BatchSize]
       /\ inbox[h] \subseteq [msg : Msg, to : BeeIDs]
       /\ \A b \in BeeIDs :
            /\ bees[h][b].role \in {"none", "zombie", "leader", "proxy"}
            /\ bees[h][b].col \in Colonies
            /\ bees[h][b].st \subseteq Msg
            /\ bees[h][b].q \in Seq(Msg)
  /\ seen \in [handled : SUBSET Msg, lost : SUBSET Msg, late : SUBSET BeeIDs]
  /\ left \in [migrate : Nat, fault : Nat, msgs : SUBSET Msg]

\* The bees that have owned a cell, and the bee that owns it now.
Owners(k) == {regs[i].CellBees[k].Leader : i \in 1..Len(regs)}

Owner(k) == Latest.CellBees[k].Leader

OwnerState(k) == bees[Latest.Bees[Owner(k)].Hive][Owner(k)].st

\* What a message did to a cell is in the state of the bee that the registry
\* names for the cell, through every migration and every call that fails in
\* one: the hand-off restores the state before it moves the cells, and the
\* old bee handles nothing in between.  The exception is a cell of a bee whose
\* update was given up and committed all the same.
NoUpdateLost ==
  \A k \in Cell :
    Owners(k) \cap seen.late = {} =>
      {m \in seen.handled : MsgCell[m] = k} \subseteq OwnerState(k)

\* A message is handled only by the bee that owns its cell at that moment,
\* not by one that its cells have left or have yet to reach, unless that bee
\* has given up a hand-off.
OnlyOwnerHandles ==
  [][\A h \in Hive, b \in BeeIDs :
       Rcv(h, b) /\ bees[h][b].role = "leader" /\ b \notin seen.late
         => Owner(MsgCell[Head(bees[h][b].q)]) = b]_vars

\* When the old bee is told to hand off, its hive knows the new bee: the
\* barrier orders the hand-off after the registration at the other hive, so
\* the look-up of sendCmdToBee cannot fail.
HandoffFindsBee ==
  \A h \in Hive :
    queen[h].pc = "handoff" => HasBee(Replica(h), queen[h].job.newb)

\* Queens that wait for one another: each asks for a bee at another one.
Deadlocked(h) ==
  \E S \in SUBSET Hive :
    /\ h \in S
    /\ \A g \in S : queen[g].pc = "creating" /\ queen[g].job.to \in S

\* A message at a bee that has handed off: the bee is a proxy of itself, and
\* sends the message to its own hive, where it comes back to the bee.
Looping(m) ==
  \E h \in Hive, b \in BeeIDs :
    /\ bees[h][b].role = "proxy" /\ Latest.Bees[b].Hive = h
    /\ m \in Range(bees[h][b].q) \/ Env(m, b) \in inbox[h]

\* A queen is free again in the end, with the migration done or refused,
\* unless it is in a circle of queens that migrate to one another.
EveryMigrationEnds ==
  \A h \in Hive : []<>(queen[h].pc = "idle" \/ Deadlocked(h))

\* A message waits at a queen or at a bee.
Waiting(m) ==
  \E h \in Hive :
    \/ \E e \in inbox[h] : e.msg = m
    \/ \E b \in BeeIDs : m \in Range(bees[h][b].q)

\* Every message that is emitted is handled in the end, unless the connection
\* failed, a queen is deadlocked, or the message came too late to a bee that
\* has handed off.  None reaches a zombie, which would drop it, or a hive whose
\* replica does not know the bee it is for: the new bee leads before the
\* registry names it, and it is registered at its own hive first.
EveryMsgHandled ==
  \A m \in Msg :
    Waiting(m) ~> \/ m \in seen.handled \cup seen.lost
                  \/ Looping(m)
                  \/ \E h \in Hive : Deadlocked(h)

\* The message is relayed to the bee that owns its cell, wherever the bee has
\* moved: it is handled in the end, unless the connection failed or a queen is
\* deadlocked.
EveryMsgRelayed ==
  \A m \in Msg :
    Waiting(m) ~> m \in seen.handled \cup seen.lost \/ \E h \in Hive : Deadlocked(h)
=============================================================================
