------------------------------ MODULE MultiNode -----------------------------
(***************************************************************************)
(* The Raft node of a hive, raft/node.go: goroutines that make requests    *)
(* and wait in the line for their answers, the main loop, the goroutine    *)
(* that handles what etcd's raft has ready for all groups, and a saver and *)
(* an applier for each group, connected by channels of bounded size.       *)
(*                                                                         *)
(* A request carries an ID, by which the answer finds its caller and by    *)
(* which decReq takes the request from the line instead of decoding it.    *)
(* The IDs of all groups come from one generator, which restarts with the  *)
(* process from a number that depends on the logs the node has opened.     *)
(*                                                                         *)
(* etcd's raft is what module Raft models; here it is, for each group, the *)
(* log of entries that are committed or will be.  A proposal is logged or  *)
(* dropped, and an entry is handed out once, to be saved and applied.  What *)
(* a ready holds besides entries, configuration changes, the messages to   *)
(* other nodes and waitElection are left out.  A request is its number; 0  *)
(* stands for the requests of other nodes.                                 *)
(***************************************************************************)
EXTENDS Naturals, Sequences, FiniteSets, Functions

CONSTANTS
  Group,      \* the groups 1..n, 1 is the hives' own and is opened first
  Req,        \* the requests of this node, numbers greater than 0
  Target,     \* the group that a request is for
  Retries,    \* the requests that are made with ProposeRetry
  SnapCount,  \* entries after which a group is snapshot, and the capacity of
              \* its applyc
  Shift,      \* IDs that an entry of a log stands for (2^8)
  Spaced,     \* whether a node only stops when it has used fewer IDs
  Limit       \* bounds: which requests are made, how often they are tried
              \* again, entries of others in each group, crashes, and state
              \* machines that block

ASSUME MultiNodeAssumption ==
  /\ IsFiniteSet(Group) /\ Group = 1..Cardinality(Group)
  /\ Req \subseteq Nat \ {0}
  /\ Target \in [Req -> Group] /\ Retries \subseteq Req
  /\ SnapCount \in Nat \ {0} /\ Shift \in Nat \ {0}
  /\ Spaced \in BOOLEAN
  /\ Limit \subseteq [reqs : SUBSET Req, tries : Nat, others : [Group -> Nat],
                     crashes : Nat, blocks : Nat]

VARIABLES
  gen,     \* the generator of IDs
  line,    \* requests that wait for their answer, by ID
  call,    \* the goroutine that makes a request
  log,     \* the entries of each group
  disk,    \* how many of them are saved
  snap,    \* how many of them the snapshot on disk covers
  open,    \* the groups that are created on the node
  given,   \* entries that etcd's raft has handed out
  rd,      \* the readies that are being handled
  pipe,    \* savec, saver, applyc and applier of each group
  applied, \* entries that the state machine of each group has applied
  wrong,   \* entries that were applied with another request than theirs
  stuck,   \* groups whose state machine blocks
  left     \* what may still happen

vars == <<gen, line, call, log, disk, snap, open, given, rd, pipe, applied,
          wrong, stuck, left>>

groups == <<log, disk, snap, open, given, rd, pipe, applied, wrong, stuck>>

noRd == [upto |-> [g \in Group |-> 0], push |-> {}, wait |-> {}]

\* The goroutine that handles readies is at work.
busy == \E g \in Group : rd.upto[g] # 0

\* The last index of the ready that waits in savec or is with the saver, 0 if
\* there is none; the same for those in applyc and the one with the applier.
noPipe == [savec |-> 0, saver |-> 0, applyc |-> <<>>, applier |-> 0]

newCall == [pc |-> "new", id |-> 0, ch |-> "empty"]

Init ==
  /\ gen = 1 /\ line = {}
  /\ call = [r \in Req |-> newCall]
  /\ log = [g \in Group |-> <<>>]
  /\ disk = [g \in Group |-> 0] /\ snap = [g \in Group |-> 0]
  /\ open = {} /\ given = [g \in Group |-> 0]
  /\ rd = noRd /\ pipe = [g \in Group |-> noPipe]
  /\ applied = [g \in Group |-> 0]
  /\ wrong = {} /\ stuck = {}
  /\ left \in Limit

Max2(a, b) == IF a < b THEN b ELSE a
-----------------------------------------------------------------------------
(* Callers: Propose and ProposeRetry *)

\* genID and line.wait, after which the request waits for the main loop.
sends(r, rest) ==
  /\ gen' = gen + 1
  /\ line' = rest \cup {[id |-> gen + 1, req |-> r]}
  /\ call' = [call EXCEPT ![r] = [pc |-> "sending", id |-> gen + 1, ch |-> "empty"]]

Propose(r) ==
  /\ call[r].pc = "new" /\ r \in left.reqs /\ Target[r] \in open
  /\ sends(r, line)
  /\ UNCHANGED <<groups, left>>

\* The main loop steps the message; etcd's raft logs the entry or, without a
\* leader, drops it.
Step(r, logged) ==
  /\ call[r].pc = "sending"
  /\ call' = [call EXCEPT ![r].pc = "waiting"]
  /\ log' = IF logged
            THEN [log EXCEPT ![Target[r]] =
                   Append(@, [node |-> "this", id |-> call[r].id, req |-> r])]
            ELSE log
  /\ UNCHANGED <<gen, line, disk, snap, open, given, rd, pipe, applied, wrong,
                 stuck, left>>

Answered(r) ==
  /\ call[r].pc = "waiting" /\ call[r].ch = "full"
  /\ call' = [call EXCEPT ![r].pc = "ok"]
  /\ UNCHANGED <<gen, line, groups, left>>

cancel(r) == {w \in line : w.id # call[r].id}

\* The context ends; the select may find an answer there as well.
Timeout(r) ==
  /\ call[r].pc \in {"sending", "waiting"} /\ r \notin Retries
  /\ call' = [call EXCEPT ![r].pc = "failed"]
  /\ line' = cancel(r)
  /\ UNCHANGED <<gen, groups, left>>

\* ProposeRetry: the same request under a new ID.
Retry(r) ==
  /\ call[r].pc \in {"sending", "waiting"} /\ r \in Retries
  /\ left.tries > 0 /\ left' = [left EXCEPT !.tries = @ - 1]
  /\ sends(r, cancel(r))
  /\ UNCHANGED groups

\* An entry of another node, whose generator may be where this one's is.
OtherEntry(g) ==
  /\ left.others[g] > 0 /\ left' = [left EXCEPT !.others[g] = @ - 1]
  /\ log' = [log EXCEPT ![g] = Append(@, [node |-> "other", id |-> gen, req |-> 0])]
  /\ UNCHANGED <<gen, line, call, disk, snap, open, given, rd, pipe, applied,
                 wrong, stuck>>
-----------------------------------------------------------------------------
(* Groups and readies: the main loop and handleReadies *)

\* Mutant of firstID: the length of the log is left out.
firstID_Snap(g) == SnapCount * Shift

firstID(g) == (disk[g] + SnapCount) * Shift

\* CreateGroup and handleGroupRequest, which waits while readies are handled.
CreateGroup(g) ==
  /\ g \notin open /\ \A f \in Group : f < g => f \in open
  /\ ~busy
  /\ open' = open \cup {g}
  /\ gen' = Max2(gen, firstID(g))
  /\ applied' = [applied EXCEPT ![g] = snap[g]]
  /\ given' = [given EXCEPT ![g] = snap[g]]
  /\ UNCHANGED <<line, call, log, disk, snap, rd, pipe, wrong, stuck, left>>

hasReady(g) == g \in open /\ given[g] < Len(log[g])

\* The main loop passes what is ready in all groups to handleReadies.
Ready ==
  LET some == {g \in Group : hasReady(g)}
  IN  /\ ~busy /\ some # {}
      /\ rd' = [push |-> some, wait |-> some,
                upto |-> [g \in Group |-> IF g \in some THEN Len(log[g]) ELSE 0]]
      /\ UNCHANGED <<gen, line, call, log, disk, snap, open, given, pipe,
                     applied, wrong, stuck, left>>

\* handleReadies gives a group's part to its saver, when there is room.
Push(g) ==
  /\ g \in rd.push /\ pipe[g].savec = 0
  /\ rd' = [rd EXCEPT !.push = @ \ {g}]
  /\ pipe' = [pipe EXCEPT ![g].savec = rd.upto[g]]
  /\ UNCHANGED <<gen, line, call, log, disk, snap, open, given, applied, wrong,
                 stuck, left>>

\* Everything is saved: the messages are sent and the main loop advances.
Advance ==
  /\ busy /\ rd.push = {} /\ rd.wait = {}
  /\ given' = [g \in Group |-> Max2(given[g], rd.upto[g])]
  /\ rd' = noRd
  /\ UNCHANGED <<gen, line, call, log, disk, snap, open, pipe, applied, wrong,
                 stuck, left>>
-----------------------------------------------------------------------------
(* The saver and the applier of a group *)

\* Mutant of Save: the saver does not tell handleReadies.
Save_Silent(g) ==
  LET e == pipe[g].savec
  IN  /\ e # 0 /\ pipe[g].saver = 0
      /\ disk' = [disk EXCEPT ![g] = Max2(@, e)]
      /\ pipe' = [pipe EXCEPT ![g].savec = 0, ![g].saver = e]
      /\ UNCHANGED <<gen, line, call, log, snap, open, given, rd, applied, wrong,
                     stuck, left>>

\* The saver writes the ready to disk and tells handleReadies.
Save(g) ==
  LET e == pipe[g].savec
  IN  /\ e # 0 /\ pipe[g].saver = 0
      /\ disk' = [disk EXCEPT ![g] = Max2(@, e)]
      /\ rd' = [rd EXCEPT !.wait = @ \ {g}]
      /\ pipe' = [pipe EXCEPT ![g].savec = 0, ![g].saver = e]
      /\ UNCHANGED <<gen, line, call, log, snap, open, given, applied, wrong,
                     stuck, left>>

\* The saver waits for room in applyc.
ToApplier(g) ==
  /\ pipe[g].saver # 0 /\ Len(pipe[g].applyc) < SnapCount
  /\ pipe' = [pipe EXCEPT ![g].applyc = Append(@, pipe[g].saver),
                          ![g].saver = 0]
  /\ UNCHANGED <<gen, line, call, log, disk, snap, open, given, rd, applied,
                 wrong, stuck, left>>

TakeReady(g) ==
  /\ pipe[g].applier = 0 /\ pipe[g].applyc # <<>>
  /\ pipe' = [pipe EXCEPT ![g].applyc = Tail(@), ![g].applier = Head(pipe[g].applyc)]
  /\ UNCHANGED <<gen, line, call, log, disk, snap, open, given, rd, applied,
                 wrong, stuck, left>>

\* decReq: the request that the applier finds for an entry.
decReq(e) ==
  IF e.node = "this" /\ \E w \in line : w.id = e.id
  THEN (CHOOSE w \in line : w.id = e.id).req
  ELSE e.req

\* Mutant of lineCall: the node of the ID is not compared.
lineCall_AnyNode(e) == {w \in line : w.id = e.id}

\* line.call: the waiters that the answer for an entry goes to.
lineCall(e) == {w \in line : e.node = "this" /\ w.id = e.id}

\* applyEntry, and the snapshot after the last entry of a ready; it is saved
\* by a goroutine of its own, before or after a crash.
ApplyEntry(g, snapped) ==
  LET i == applied[g] + 1
      e == log[g][i]
      to == lineCall(e)
  IN  /\ pipe[g].applier # 0 /\ g \notin stuck
      /\ applied' = [applied EXCEPT ![g] = i]
      /\ wrong' = IF decReq(e) = e.req THEN wrong ELSE wrong \cup {<<g, i>>}
      /\ line' = line \ to
      /\ call' = [r \in Req |->
           IF \E w \in to : w.req = r
           THEN [call[r] EXCEPT !.ch = "full"] ELSE call[r]]
      /\ pipe' = IF i = pipe[g].applier
                 THEN [pipe EXCEPT ![g].applier = 0] ELSE pipe
      /\ snapped => i = pipe[g].applier /\ i - snap[g] > SnapCount
      /\ snap' = IF snapped THEN [snap EXCEPT ![g] = i] ELSE snap
      /\ UNCHANGED <<gen, log, disk, open, given, rd, stuck, left>>
-----------------------------------------------------------------------------
(* Faults *)

\* A state machine blocks for good in Apply, as a bee does that waits for room in a
\* channel that only it empties (bee.throttle).
Block(g) ==
  /\ left.blocks > 0 /\ left' = [left EXCEPT !.blocks = @ - 1]
  /\ pipe[g].applier # 0
  /\ stuck' = stuck \cup {g}
  /\ UNCHANGED <<gen, line, call, log, disk, snap, open, given, rd, pipe,
                 applied, wrong>>

\* The process ends and starts again; its callers are gone.  Logged entries
\* that it had not saved come back from the other nodes.
Crash ==
  /\ left.crashes > 0 /\ left' = [left EXCEPT !.crashes = @ - 1]
  /\ open = Group
  /\ Spaced => gen <= (disk[1] + SnapCount) * Shift
  /\ gen' = 1 /\ line' = {} /\ open' = {} /\ stuck' = {} /\ rd' = noRd
  /\ pipe' = [g \in Group |-> noPipe]
  /\ call' = [r \in Req |->
       IF call[r].pc = "new" THEN call[r] ELSE [call[r] EXCEPT !.pc = "gone"]]
  /\ UNCHANGED <<log, disk, snap, given, applied, wrong>>
-----------------------------------------------------------------------------
CallerStep(r) == Step(r, TRUE) \/ Step(r, FALSE) \/ Answered(r)

NodeStep == Ready \/ Advance \/ \E g \in Group : CreateGroup(g)

GroupStep(g) ==
  \/ Push(g) \/ Save(g) \/ ToApplier(g) \/ TakeReady(g)
  \/ \E snapped \in BOOLEAN : ApplyEntry(g, snapped)

Next ==
  \/ \E r \in Req : Propose(r) \/ CallerStep(r) \/ Timeout(r) \/ Retry(r)
  \/ NodeStep
  \/ \E g \in Group : GroupStep(g) \/ OtherEntry(g) \/ Block(g)
  \/ Crash

\* Every goroutine that can go on does: the main loop, handleReadies, callers,
\* savers and appliers.
Fairness ==
  /\ WF_vars(NodeStep) /\ WF_vars(\E g \in Group : Push(g))
  /\ \A r \in Req : WF_vars(CallerStep(r))
  /\ \A g \in Group :
       /\ WF_vars(Save(g) \/ ToApplier(g))
       /\ WF_vars(TakeReady(g) \/ \E snapped \in BOOLEAN : ApplyEntry(g, snapped))

Spec == Init /\ [][Next]_vars /\ Fairness
-----------------------------------------------------------------------------
TypeOK ==
  /\ gen \in Nat
  /\ line \subseteq [id : Nat, req : Req]
  /\ call \in [Req -> [pc : {"new", "sending", "waiting", "ok", "failed", "gone"},
                       id : Nat, ch : {"empty", "full"}]]
  /\ \A g \in Group :
       /\ log[g] \in Seq([node : {"this", "other"}, id : Nat, req : Req \cup {0}])
       /\ snap[g] <= disk[g] /\ disk[g] <= Len(log[g])
       /\ applied[g] <= disk[g]
       /\ given[g] <= Len(log[g])
       /\ Len(pipe[g].applyc) <= SnapCount
  /\ open \subseteq Group /\ stuck \subseteq Group
  /\ rd.push \subseteq rd.wait /\ rd.wait \subseteq Group

\* An entry is applied with the request that it was logged with, although the
\* applier takes the request from the line if it finds the ID there.  IDs must
\* not come back while an entry that has them may be applied again.
AppliesItsRequest == wrong = {}

\* A caller that is answered has its own request applied, in the group that it
\* was for, and no other caller's.
AnswerIsOwn ==
  \A r \in Req :
    call[r].pc = "ok" \/ (call[r].pc = "waiting" /\ call[r].ch = "full") =>
      \E i \in 1..applied[Target[r]] : log[Target[r]][i].req = r

\* Only requests whose callers still wait are in the line: an answer, a timeout
\* and a new try each remove the one before.
LineHoldsWaiters ==
  \A w \in line :
    call[w.req].id = w.id /\ call[w.req].pc \in {"sending", "waiting"}

\* A group whose state machine blocks fills its channels up to the saver; then
\* handleReadies waits for the saver, and with it all other groups.
Jammed ==
  \E g \in stuck \cap rd.wait :
    pipe[g].applier # 0 /\ pipe[g].saver # 0 /\ Len(pipe[g].applyc) = SnapCount

\* A request that is logged is answered, unless its caller gives up or tries
\* again first, its state machine blocks, or that of another group has made
\* the node stop.
EveryRequestAnswered ==
  \A r \in Req :
    (/\ call[r].pc = "waiting"
     /\ [node |-> "this", id |-> call[r].id, req |-> r] \in Range(log[Target[r]]))
      ~> \/ call[r].pc # "waiting"
         \/ Target[r] \in stuck
         \/ Jammed
=============================================================================
