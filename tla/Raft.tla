-------------------------------- MODULE Raft --------------------------------
(***************************************************************************)
(* A Raft group: the etcd state machine of every node (raft.go, log.go,    *)
(* progress.go), the goroutine that runs it (multinode.go) and the         *)
(* goroutines of raft/node.go that save what it asks for, send its         *)
(* messages and apply what it commits.  A group starts with one member;    *)
(* the others are added one at a time by entries of its log.               *)
(*                                                                         *)
(* node[n] is what node n has in memory.  While one Ready is being saved   *)
(* (rd) the state machine goes on; what it asks for waits for the next     *)
(* Ready.  Timers are left to chance: a node may campaign, and a leader    *)
(* may send heartbeats, at any time.  Messages are lost (never received)   *)
(* and reordered; hive.sendRaft sends each batch once.                     *)
(*                                                                         *)
(* Left out: snapshots (the log is never compacted), removal of members,   *)
(* which nothing calls, the limits on the size and number of the messages  *)
(* in flight, and soft state (BeeReplication has it).                      *)
(***************************************************************************)
EXTENDS Naturals, Sequences, FiniteSets, FiniteSetsExt, SequencesExt

CONSTANTS
  Node,
  First,         \* the node that creates the group
  None,
  Limit          \* what may happen in a behaviour, one record per instance:
                 \*   boot      the members at first, {} for a new group
                 \*   ahead     TRUE if First alone has an entry of the term 3
                 \*   slow      nodes that go on while a Ready is being saved
                 \*   join      nodes for which AddNodeToGroup is called
                 \*   term      bound: the last term
                 \*   props     bound: proposals of data
                 \*   beats     bound: heartbeats
                 \*   reports   bound: batches reported as undelivered
                 \*   restarts  bound: restarts
                 \*   power     TRUE if a restart loses what is not synced
                 \*   early     TRUE if a node may restart without an entry

ASSUME RaftAssumption ==
  /\ IsFiniteSet(Node) /\ First \in Node /\ None \notin Node
  /\ \A l \in Limit : /\ l.boot = {} \/ First \in l.boot
                      /\ l.boot \cup l.slow \cup l.join \subseteq Node
                      /\ {l.term, l.props, l.beats, l.reports, l.restarts} \subseteq Nat
                      /\ {l.ahead, l.power, l.early} \subseteq BOOLEAN

VARIABLES
  node,      \* the memory of the nodes
  disk,      \* the WAL of each node, as written
  synced,    \* the WAL of each node, as it is after a loss of power
  net,       \* messages on their way
  clog,      \* the entries some state machine has applied (history)
  leaders,   \* the terms each node has been the leader of (history)
  left       \* what may still happen

history == <<clog, leaders>>
vars == <<node, disk, synced, net, history, left>>
-----------------------------------------------------------------------------
(* Entries and the log *)

Entry(t, type, data) == [term |-> t, type |-> type, data |-> data]
TermAt(log, i) == IF i \in DOMAIN log THEN log[i].term ELSE 0
LastTerm(log) == TermAt(log, Len(log))

\* Mutant: the length of the log is not compared.
isUpToDate_Term(log, i, t) == t >= LastTerm(log)

isUpToDate(log, i, t) ==
  t > LastTerm(log) \/ (t = LastTerm(log) /\ i >= Len(log))

\* The index of the first entry of ents that log does not have, or 0.
findConflict(log, prev, ents) ==
  LET C == {i \in DOMAIN ents : TermAt(log, prev + i) # ents[i].term}
  IN  IF C = {} THEN 0 ELSE prev + Min(C)

\* raftLog.append: the entries after index after are replaced by ents.
append(r, after, ents) ==
  IF ents = <<>> THEN r
  ELSE IF after < r.committed THEN [r EXCEPT !.panic = TRUE]
  ELSE [r EXCEPT !.log = SubSeq(@, 1, after) \o ents,
                 !.offset = Min({@, after + 1})]

commitTo(r, i) ==
  IF i <= r.committed THEN r
  ELSE IF i > Len(r.log) THEN [r EXCEPT !.panic = TRUE]
  ELSE [r EXCEPT !.committed = i]

\* Mutant: the term is not compared.
stableTo_Index(r, i, t) ==
  IF i \in r.offset..Len(r.log) THEN [r EXCEPT !.offset = i + 1] ELSE r

\* unstable.stableTo: the entries up to i are on disk, unless another entry
\* has taken the place of i since the Ready was made.
stableTo(r, i, t) ==
  IF i \in r.offset..Len(r.log) /\ r.log[i].term = t
  THEN [r EXCEPT !.offset = i + 1] ELSE r

appliedTo(r, i) ==
  IF i = 0 THEN r
  ELSE IF i > r.committed \/ i < r.applied THEN [r EXCEPT !.panic = TRUE]
  ELSE [r EXCEPT !.applied = i]
-----------------------------------------------------------------------------
(* Progress of the members, as their leader sees it.  Only a leader reads   *)
(* it, and becomeLeader resets it, so the other nodes have NoProgress.      *)

Progress(match, next) ==
  [Match |-> match, Next |-> next, State |-> "probe", Paused |-> FALSE]
NoProgress == [p \in Node |-> Progress(0, 1)]

becomeProbe(pr) == Progress(pr.Match, pr.Match + 1)
becomeReplicate(pr) == [becomeProbe(pr) EXCEPT !.State = "replicate"]
isPaused(pr) == pr.State = "probe" /\ pr.Paused

maybeUpdate(pr, i) ==
  [pr EXCEPT !.Match = Max({@, i}),
             !.Paused = @ /\ pr.Match >= i,
             !.Next = Max({@, i + 1})]

staleReject(pr, rejected) ==
  IF pr.State = "replicate" THEN rejected <= pr.Match
                            ELSE pr.Next - 1 # rejected
decrTo(pr, rejected, last) ==
  IF pr.State = "replicate" THEN becomeProbe(pr)
  ELSE [pr EXCEPT !.Next = Max({1, Min({rejected, last + 1})}),
                  !.Paused = FALSE]
-----------------------------------------------------------------------------
(* The state machine of a node.  Each operator maps the record r of node n  *)
(* to the record after the call.                                            *)

q(r) == Cardinality(r.conf) \div 2 + 1
HardState(r) == [Term |-> r.Term, Vote |-> r.Vote, Commit |-> r.Commit]
EmptyState == [Term |-> 0, Vote |-> None, Commit |-> 0]

send(r, m) == [r EXCEPT !.msgs = @ \cup {m}]

Reply(r, n, m, type) ==
  [type |-> type, from |-> n, to |-> m.from, term |-> r.Term]
AppResp(r, n, m, i) == Reply(r, n, m, "AppResp") @@
  [index |-> i, reject |-> FALSE, hint |-> 0]

MsgApp(r, n, to) ==
  [type |-> "App", from |-> n, to |-> to, term |-> r.Term,
   index |-> r.prs[to].Next - 1,
   logTerm |-> TermAt(r.log, r.prs[to].Next - 1),
   ents |-> SubSeq(r.log, r.prs[to].Next, Len(r.log)),
   commit |-> r.committed]

\* sendAppend to every member in S.
sendAppend(r, n, S) ==
  LET T == {p \in S : ~isPaused(r.prs[p])}
      sent(pr) == IF pr.Next > Len(r.log) THEN pr
                  ELSE IF pr.State = "probe" THEN [pr EXCEPT !.Paused = TRUE]
                  ELSE [pr EXCEPT !.Next = Len(r.log) + 1]
  IN  [r EXCEPT !.msgs = @ \cup {MsgApp(r, n, p) : p \in T},
                !.prs = [p \in Node |-> IF p \in T THEN sent(@[p]) ELSE @[p]]]

bcastAppend(r, n) == sendAppend(r, n, r.conf \ {n})

\* The highest index that a quorum has, if its entry is of this term.
maybeCommit(r) ==
  LET mci == Max({i \in 0..Len(r.log) :
                    Cardinality({p \in r.conf : r.prs[p].Match >= i}) >= q(r)})
  IN  IF mci > r.committed /\ TermAt(r.log, mci) = r.Term
      THEN commitTo(r, mci) ELSE r

appendEntry(r, n, e) ==
  LET s == append(r, Len(r.log), <<e>>)
  IN  maybeCommit([s EXCEPT !.prs[n] = maybeUpdate(@, Len(s.log))])

reset(r, term) ==
  [r EXCEPT !.Term = term, !.Vote = IF r.Term = term THEN @ ELSE None,
            !.lead = None, !.votes = {}, !.rejects = {},
            !.prs = NoProgress, !.pendingConf = FALSE]

becomeFollower(r, term, lead) ==
  [reset(r, term) EXCEPT !.lead = lead, !.state = "follower"]

becomeCandidate(r, n) ==
  [reset(r, r.Term + 1) EXCEPT !.Vote = n, !.state = "candidate"]

becomeLeader(r, n) ==
  LET last == Len(r.log)
      confs == {i \in (r.committed + 1)..last : r.log[i].type = "conf"}
      s == [reset(r, r.Term) EXCEPT
              !.lead = n, !.state = "leader",
              !.prs = [p \in Node |-> IF p = n THEN Progress(last, last + 1)
                                      ELSE IF p \in r.conf THEN Progress(0, last + 1)
                                      ELSE @[p]],
              !.pendingConf = confs # {},
              !.panic = @ \/ Cardinality(confs) > 1]
  IN  appendEntry(s, n, Entry(r.Term, "normal", 0))

poll(r, p, granted) ==
  IF p \in r.votes \cup r.rejects THEN r
  ELSE IF granted THEN [r EXCEPT !.votes = @ \cup {p}]
  ELSE [r EXCEPT !.rejects = @ \cup {p}]

campaign(r, n) ==
  LET s == poll(becomeCandidate(r, n), n, TRUE)
  IN  IF q(s) = 1 THEN becomeLeader(s, n)
      ELSE [s EXCEPT !.msgs = @ \cup
              {[type |-> "Vote", from |-> n, to |-> p, term |-> s.Term,
                index |-> Len(s.log), logTerm |-> LastTerm(s.log)]
                : p \in s.conf \ {n}}]

\* Mutant: the term of the entry before the new ones is not compared.
handleAppendEntries_Index(r, n, m) ==
  IF m.index < r.Commit THEN send(r, AppResp(r, n, m, r.Commit))
  ELSE IF m.index > Len(r.log)
  THEN send(r, [AppResp(r, n, m, m.index) EXCEPT
                  !.reject = TRUE, !.hint = Len(r.log)])
  ELSE LET ci == findConflict(r.log, m.index, m.ents)
           last == m.index + Len(m.ents)
           s == IF ci = 0 THEN r
                ELSE append(r, ci - 1, SubSeq(m.ents, ci - m.index, Len(m.ents)))
       IN  send(commitTo(s, Min({m.commit, last})), AppResp(r, n, m, last))

handleAppendEntries(r, n, m) ==
  IF m.index < r.Commit THEN send(r, AppResp(r, n, m, r.Commit))
  ELSE IF TermAt(r.log, m.index) # m.logTerm
  THEN send(r, [AppResp(r, n, m, m.index) EXCEPT
                  !.reject = TRUE, !.hint = Len(r.log)])
  ELSE LET ci == findConflict(r.log, m.index, m.ents)
           last == m.index + Len(m.ents)
           s == IF ci = 0 THEN r
                ELSE IF ci <= r.committed THEN [r EXCEPT !.panic = TRUE]
                ELSE append(r, ci - 1, SubSeq(m.ents, ci - m.index, Len(m.ents)))
       IN  send(commitTo(s, Min({m.commit, last})), AppResp(r, n, m, last))

handleHeartbeat(r, n, m) ==
  send(commitTo(r, m.commit), Reply(r, n, m, "HeartbeatResp"))

\* Mutant: the vote given before is not looked at.
handleVote_Again(r, n, m) ==
  LET resp == Reply(r, n, m, "VoteResp")
  IN  IF r.state = "follower" /\ isUpToDate(r.log, m.index, m.logTerm)
      THEN send([r EXCEPT !.Vote = m.from], resp @@ [reject |-> FALSE])
      ELSE send(r, resp @@ [reject |-> TRUE])

\* Only a follower grants its vote.
handleVote(r, n, m) ==
  LET resp == Reply(r, n, m, "VoteResp")
  IN  IF /\ r.state = "follower"
         /\ r.Vote \in {None, m.from}
         /\ isUpToDate(r.log, m.index, m.logTerm)
      THEN send([r EXCEPT !.Vote = m.from], resp @@ [reject |-> FALSE])
      ELSE send(r, resp @@ [reject |-> TRUE])

\* A proposal: a leader appends it, with at most one change of the
\* configuration at a time; a follower passes it to its leader.
handleProp(r, n, m) ==
  CASE r.state = "leader" ->
         LET drop == m.etype = "conf" /\ r.pendingConf
             s == [r EXCEPT !.pendingConf = @ \/ m.etype = "conf"]
         IN  bcastAppend(appendEntry(s, n,
               IF drop THEN Entry(r.Term, "normal", 0)
                       ELSE Entry(r.Term, m.etype, m.data)), n)
    [] r.state = "follower" /\ r.lead # None ->
         send(r, [m EXCEPT !.from = n, !.to = r.lead])
    [] OTHER -> r

handleVoteResp(r, n, m) ==
  LET s == poll(r, m.from, ~m.reject)
  IN  IF Cardinality(s.votes) = q(s) THEN bcastAppend(becomeLeader(s, n), n)
      ELSE IF Cardinality(s.rejects) = q(s) THEN becomeFollower(s, s.Term, None)
      ELSE s

handleAppResp(r, n, m) ==
  LET pr == r.prs[m.from]
      upd == maybeUpdate(pr, m.index)
      s == [r EXCEPT !.prs[m.from] =
              IF upd.State = "probe" THEN becomeReplicate(upd) ELSE upd]
      t == maybeCommit(s)
  IN  IF m.reject
      THEN IF staleReject(pr, m.index) THEN r
           ELSE sendAppend([r EXCEPT !.prs[m.from] = decrTo(@, m.index, m.hint)],
                           n, {m.from})
      ELSE IF pr.Match >= m.index THEN [r EXCEPT !.prs[m.from] = upd]
      ELSE IF t.committed > s.committed THEN bcastAppend(t, n)
      ELSE IF isPaused(pr) THEN sendAppend(s, n, {m.from})
      ELSE s

\* What a node does with a message of its own term, by its state.
step(r, n, m) ==
  CASE m.type = "Prop" -> handleProp(r, n, m)
    [] m.type = "Vote" -> handleVote(r, n, m)
    [] m.type = "App" /\ r.state # "leader" ->
         handleAppendEntries(IF r.state = "follower" THEN [r EXCEPT !.lead = m.from]
                             ELSE becomeFollower(r, r.Term, m.from), n, m)
    [] m.type = "Heartbeat" /\ r.state # "leader" ->
         handleHeartbeat(IF r.state = "follower" THEN [r EXCEPT !.lead = m.from]
                         ELSE becomeFollower(r, r.Term, m.from), n, m)
    [] m.type = "VoteResp" /\ r.state = "candidate" -> handleVoteResp(r, n, m)
    [] m.type = "AppResp" /\ r.state = "leader" -> handleAppResp(r, n, m)
    [] m.type = "HeartbeatResp" /\ r.state = "leader" ->
         IF r.prs[m.from].Match < Len(r.log) THEN sendAppend(r, n, {m.from}) ELSE r
    [] OTHER -> r

IsResponseMsg(m) == m.type \in {"AppResp", "VoteResp", "HeartbeatResp"}

\* raft.Step behind the filter of multiNode.run.
Step(r, n, m) ==
  LET lead == IF m.type = "Vote" THEN None ELSE m.from
      s == IF m.term > r.Term THEN becomeFollower(r, m.term, lead) ELSE r
      t == step(s, n, m)
  IN  IF \/ IsResponseMsg(m) /\ m.from \notin r.conf
         \/ m.term # 0 /\ m.term < r.Term
      THEN r
      ELSE [t EXCEPT !.Commit = t.committed]
-----------------------------------------------------------------------------
(* Ready: what the state machine asks raft/node.go to do *)

NoReady == [first |-> 0]

newReady(r) ==
  [first |-> r.offset,
   ents |-> SubSeq(r.log, r.offset, Len(r.log)),
   hs |-> IF HardState(r) = r.prevHardSt THEN EmptyState ELSE HardState(r),
   from |-> r.applied + 1,
   committed |-> SubSeq(r.log, r.applied + 1, r.committed),
   msgs |-> r.msgs]

containsUpdates(rd) ==
  rd.ents # <<>> \/ rd.hs # EmptyState \/ rd.committed # <<>> \/ rd.msgs # {}

\* save applies the changes of the configuration that rd commits.
\* validConfChange refuses a member that is there; addNode ignores the node
\* itself when it is there.
applyConfChanges(r, n, rd) ==
  LET I == {i \in DOMAIN rd.committed : /\ rd.committed[i].type = "conf"
                                        /\ rd.from + i - 1 > r.saved}
      new == {rd.committed[i].data : i \in I}
  IN  IF I = {} THEN r
      ELSE [r EXCEPT
             !.conf = @ \cup new,
             !.prs = [p \in Node |->
                        IF r.state = "leader" /\ p \in new \ r.conf
                        THEN Progress(0, Len(r.log) + 1) ELSE @[p]],
             !.pendingConf = @ /\ new \subseteq ({n} \cap r.conf),
             !.saved = rd.from + Max(I) - 1]

\* group.apply: entries that were applied before are skipped.
apply(r, rd) ==
  LET done == Len(r.sm)
  IN  IF rd.committed = <<>> THEN r
      ELSE IF rd.from > done + 1 THEN [r EXCEPT !.panic = TRUE]
      ELSE [r EXCEPT !.sm = @ \o SubSeq(rd.committed, done - rd.from + 2,
                                        Len(rd.committed))]

commitReady(r, rd) ==
  LET s == IF rd.hs = EmptyState THEN r ELSE [r EXCEPT !.prevHardSt = rd.hs]
      t == appliedTo(s, s.prevHardSt.Commit)
      last == rd.first + Len(rd.ents) - 1
  IN  IF rd.ents = <<>> THEN t ELSE stableTo(t, last, Last(rd.ents).term)

\* WAL.Save and MemoryStorage.Append.
save(d, rd) ==
  [log |-> IF rd.ents = <<>> THEN d.log
           ELSE SubSeq(d.log, 1, rd.first - 1) \o rd.ents,
   hs |-> IF rd.hs = EmptyState THEN d.hs ELSE rd.hs]

\* The state machine that newRaft makes from what OpenStorage has read.
newRaft(d) ==
  [Term |-> d.hs.Term, Vote |-> d.hs.Vote, Commit |-> d.hs.Commit,
   prevHardSt |-> d.hs,
   log |-> d.log, offset |-> Len(d.log) + 1,
   committed |-> d.hs.Commit, applied |-> 0,
   state |-> "follower", lead |-> None, votes |-> {}, rejects |-> {},
   conf |-> {}, prs |-> NoProgress, pendingConf |-> FALSE,
   msgs |-> {}, rd |-> NoReady,
   saved |-> 0, sm |-> <<>>,
   panic |-> d.hs.Commit > Len(d.log)]

\* multiNode.run creates a group: one whose log is empty is taken for a new
\* one.  Only First names a peer, itself; the others wait to be added.
newGroup(n, d) ==
  LET r == becomeFollower(newRaft(d), 1, None)
      first == [r EXCEPT !.log = <<Entry(1, "conf", n)>>, !.committed = 1, !.conf = {n}]
      new == IF n = First THEN first ELSE [r EXCEPT !.committed = 0]
  IN  IF d.log # <<>> THEN newRaft(d)
      ELSE [new EXCEPT !.prevHardSt = HardState(new)]

NoDisk == [log |-> <<>>, hs |-> EmptyState]

\* What the members of the group have applied before the behaviour starts:
\* the entry that creates the group and, if there are members, the first entry
\* of the first leader and the entries that added the other members.
BootLog(Boot) ==
  <<Entry(1, "conf", First)>> \o
    IF Boot = {} THEN <<>>
    ELSE <<Entry(2, "normal", 0)>> \o
         [i \in 1..(Cardinality(Boot) - 1) |->
            Entry(2, "conf", SetToSeq(Boot \ {First})[i])]

\* The WAL of n.  If the group is ahead, First has been elected once more, by
\* everyone, and has stopped before it sent its entry.
BootDisk(n, l) ==
  LET log == BootLog(l.boot)
  IN  IF n \notin l.boot THEN NoDisk
      ELSE [log |-> IF l.ahead /\ n = First THEN Append(log, Entry(3, "normal", 0)) ELSE log,
            hs |-> [Term |-> IF l.ahead THEN 3 ELSE 2, Vote |-> First, Commit |-> Len(log)]]

\* The memory of a node after save, apply and advance.
Handled(r, n, rd) ==
  commitReady(apply(applyConfChanges([r EXCEPT !.rd = NoReady], n, rd), rd), rd)

\* A node that is not slow saves and applies at once what it finds on disk.
Start(n, d, slow) ==
  LET r == newGroup(n, d)
      rd == newReady(r)
  IN  IF n \in slow THEN [mem |-> r, disk |-> d]
      ELSE [mem |-> Handled(r, n, rd), disk |-> save(d, rd)]

Init ==
  /\ left \in Limit
  /\ LET start(n) == Start(n, BootDisk(n, left), left.slow)
     IN  /\ node = [n \in Node |-> start(n).mem]
         /\ disk = [n \in Node |-> start(n).disk]
  /\ synced = disk
  /\ net = {}
  /\ clog = BootLog(left.boot)
  /\ leaders = [n \in Node |-> {}]
-----------------------------------------------------------------------------
Alive(n) == ~node[n].panic
Spend(f) == left[f] > 0 /\ left' = [left EXCEPT ![f] = @ - 1]

\* A message that its receiver ignores, now and later, is as good as lost.
Ignored(m, r) ==
  \/ m.term # 0 /\ m.term < r.Term
  \/ /\ m.term = r.Term
     /\ \/ m.type = "VoteResp" /\ r.state # "candidate"
        \/ m.type \in {"AppResp", "HeartbeatResp"} /\ r.state # "leader"

\* group.save and handleReadies: n writes rd, applies its changes of the
\* configuration, hands its entries to the state machine, sends its messages
\* and advances.  r is the memory of n and ms are the messages on their way.
Handle(n, r, rd, ms) ==
  /\ node' = [node EXCEPT ![n] = Handled(r, n, rd)]
  /\ disk' = [disk EXCEPT ![n] = save(@, rd)]
  /\ synced' = IF left.power THEN synced ELSE disk'
  /\ net' = {m \in ms \cup rd.msgs : ~Ignored(m, node'[m.to])}
  /\ clog' = IF Len(node'[n].sm) > Len(clog) THEN node'[n].sm ELSE clog

\* The state machine of n becomes r.
Set(n, r, ms) ==
  /\ IF n \in left.slow
     THEN /\ node' = [node EXCEPT ![n] = r]
          /\ net' = {m \in ms : ~Ignored(m, node'[m.to])}
          /\ UNCHANGED <<disk, synced, clog>>
     ELSE Handle(n, [r EXCEPT !.msgs = {}], newReady(r), ms)
  /\ leaders' = [leaders EXCEPT ![n] =
                   IF r.state = "leader" THEN @ \cup {r.Term} ELSE @]

\* tickElection, after the election timeout.
Hup(n) ==
  /\ Alive(n)
  /\ n \in node[n].conf /\ node[n].state # "leader"
  /\ node[n].Term < left.term
  /\ LET r == campaign(node[n], n) IN Set(n, [r EXCEPT !.Commit = r.committed], net)
  /\ UNCHANGED left

\* Mutant: the commit index is sent as it is.
Beat_Committed(n) ==
  LET r == node[n]
  IN  /\ Alive(n)
      /\ r.state = "leader" /\ r.conf # {n}
      /\ Spend("beats")
      /\ Set(n, [r EXCEPT
           !.msgs = @ \cup {[type |-> "Heartbeat", from |-> n, to |-> p,
                             term |-> r.Term, commit |-> r.committed]
                            : p \in r.conf \ {n}},
           !.prs = [p \in Node |-> [@[p] EXCEPT !.Paused = FALSE]]], net)

\* tickHeartbeat, after the heartbeat timeout.
Beat(n) ==
  LET r == node[n]
  IN  /\ Alive(n)
      /\ r.state = "leader" /\ r.conf # {n}
      /\ Spend("beats")
      /\ Set(n, [r EXCEPT
           !.msgs = @ \cup {[type |-> "Heartbeat", from |-> n, to |-> p,
                             term |-> r.Term,
                             commit |-> Min({r.prs[p].Match, r.committed})]
                            : p \in r.conf \ {n}},
           !.prs = [p \in Node |-> [@[p] EXCEPT !.Paused = FALSE]]], net)

Prop(n, type, data) ==
  [type |-> "Prop", from |-> n, to |-> n, term |-> 0, etype |-> type, data |-> data]

Propose(n) ==
  /\ Alive(n)
  /\ node[n].lead # None
  /\ Spend("props")
  /\ Set(n, Step(node[n], n, Prop(n, "normal", left.props)), net)

AddNodeToGroup(n, x) ==
  /\ Alive(n)
  /\ node[n].lead # None
  /\ x \in left.join
  /\ left' = [left EXCEPT !.join = @ \ {x}]
  /\ Set(n, Step(node[n], n, Prop(n, "conf", x)), net)

Receive(m) ==
  /\ Alive(m.to)
  /\ Set(m.to, Step(node[m.to], m.to, m), net \ {m})
  /\ UNCHANGED left

\* The transport tells the leader that a batch did not reach p.
ReportUnreachable(n, p) ==
  /\ Alive(n)
  /\ node[n].state = "leader" /\ p \in node[n].conf \ {n}
  /\ node[n].prs[p].State = "replicate"
  /\ Spend("reports")
  /\ Set(n, [node[n] EXCEPT !.prs[p] = becomeProbe(@)], net)

\* multiNode.run hands a Ready to MultiNode.start.
TakeReady(n) ==
  LET rd == newReady(node[n])
  IN  /\ Alive(n)
      /\ node[n].rd = NoReady
      /\ containsUpdates(rd)
      /\ node' = [node EXCEPT ![n].rd = rd, ![n].msgs = {}]
      /\ UNCHANGED <<disk, synced, net, history, left>>

HandleReady(n) ==
  /\ Alive(n)
  /\ node[n].rd # NoReady
  /\ Handle(n, node[n], node[n].rd, net)
  /\ UNCHANGED <<leaders, left>>

\* group.fsync, which startSaver calls when save has returned.
Fsync(n) ==
  /\ Alive(n)
  /\ synced[n] # disk[n]
  /\ synced' = [synced EXCEPT ![n] = disk[n]]
  /\ UNCHANGED <<node, disk, net, history, left>>

\* The hive stops and starts again.
Restart(n) ==
  /\ Alive(n)
  /\ synced[n].log # <<>> \/ left.early
  /\ Spend("restarts")
  /\ node' = [node EXCEPT ![n] = Start(n, synced[n], left.slow).mem]
  /\ disk' = [disk EXCEPT ![n] = Start(n, synced[n], left.slow).disk]
  /\ synced' = IF left.power THEN synced ELSE disk'
  /\ UNCHANGED <<net, history>>

Next ==
  \/ \E n \in Node : \/ Hup(n) \/ Beat(n) \/ Propose(n)
                     \/ TakeReady(n) \/ HandleReady(n)
                     \/ Fsync(n) \/ Restart(n)
                     \/ \E x \in Node : AddNodeToGroup(n, x) \/ ReportUnreachable(n, x)
  \/ \E m \in net : Receive(m)

Spec == Init /\ [][Next]_vars
-----------------------------------------------------------------------------
\* Every node's indices are in order.
TypeOK ==
  \A n \in Node : LET r == node[n] IN
    /\ r.Term \in Nat /\ r.Vote \in Node \cup {None}
    /\ r.state \in {"follower", "candidate", "leader"}
    /\ r.lead \in Node \cup {None}
    /\ r.applied <= r.committed /\ r.committed <= Len(r.log)
    /\ r.offset \in 1..(Len(r.log) + 1)
    /\ r.conf \subseteq Node /\ r.votes \cap r.rejects = {}
    /\ \A p \in Node : r.prs[p].Match < r.prs[p].Next

\* No node meets one of the panics of raft.go and log.go or the Fatal of
\* group.apply: a commit index beyond the log, a conflict with a committed
\* entry, two changes of the configuration at once, a gap between the
\* entries that are applied.
NoPanic == \A n \in Node : ~node[n].panic

\* A term has one leader, whoever joins, restarts or campaigns meanwhile.
OneLeaderPerTerm ==
  \A a, b \in Node : leaders[a] \cap leaders[b] # {} => a = b

\* Entries of one index and term are equal and have equal predecessors in any
\* two logs: what handleAppendEntries checks is enough.
LogMatching ==
  \A a, b \in Node : \A i \in DOMAIN node[a].log \cap DOMAIN node[b].log :
    node[a].log[i].term = node[b].log[i].term =>
      SubSeq(node[a].log, 1, i) = SubSeq(node[b].log, 1, i)

\* What raftLog takes for stable is on disk, although entries may be replaced
\* while a Ready that holds them is being saved.
StableOnDisk ==
  \A n \in Node : SubSeq(disk[n].log, 1, node[n].offset - 1)
                    = SubSeq(node[n].log, 1, node[n].offset - 1)

\* The group is a replicated log: the entries a state machine has applied are
\* never taken back, and every other state machine applies the same.
Log == INSTANCE ReplicatedLog WITH sm <- [n \in Node |-> node[n].sm]
ImplementsLog == Log!Spec
=============================================================================
