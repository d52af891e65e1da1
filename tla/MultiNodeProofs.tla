--------------------------- MODULE MultiNodeProofs --------------------------
(***************************************************************************)
(* If a node that stops has used fewer IDs than the length of the hives'   *)
(* log allows it after the restart (Spaced), an entry is always applied    *)
(* with its own request and an answer always goes to the caller that it is *)
(* for, for any number of groups, requests, crashes and retries.           *)
(***************************************************************************)
EXTENDS MultiNode, FiniteSetTheorems, TLAPS

Pcs == {"new", "sending", "waiting", "ok", "failed", "gone"}

CallType == [pc : Pcs, id : Nat, ch : {"empty", "full"}]

PipeType == [savec : Nat, saver : Nat, applyc : Seq(Nat), applier : Nat]

Entries == [node : {"this", "other"}, id : Nat, req : Req \cup {0}]

Types ==
  /\ gen \in Nat
  /\ line \subseteq [id : Nat, req : Req]
  /\ call \in [Req -> CallType]
  /\ log \in [Group -> Seq(Entries)]
  /\ disk \in [Group -> Nat] /\ snap \in [Group -> Nat]
  /\ given \in [Group -> Nat] /\ applied \in [Group -> Nat]
  /\ open \subseteq Group
  /\ rd \in [upto : [Group -> Nat], push : SUBSET Group, wait : SUBSET Group]
  /\ pipe \in [Group -> PipeType]

Active(r) == call[r].pc \in {"sending", "waiting"}

\* A restarted node continues from at least this ID.
Base == (disk[1] + SnapCount) * Shift

\* No entry has an ID that the generator is still to give.
Bound == IF 1 \in open THEN gen ELSE Base

Callers ==
  /\ \A r \in Req : Active(r) \/ call[r].pc = "ok" => Target[r] \in open
  /\ \A r \in Req : Active(r) => call[r].id <= gen
  /\ \A r, s \in Req : Active(r) /\ Active(s) /\ call[r].id = call[s].id => r = s
  /\ \A r \in Req : call[r].pc = "sending" => call[r].ch = "empty"
  /\ open # {} => 1 \in open

Waiters ==
  \A w \in line : Active(w.req) /\ call[w.req].id = w.id /\ call[w.req].ch = "empty"

\* What the log holds under an ID of this node.
IDs ==
  \A g \in Group : \A i \in 1..Len(log[g]) :
    log[g][i].node = "this" =>
      /\ log[g][i].id <= Bound
      /\ \A r \in Req : Active(r) /\ call[r].id = log[g][i].id =>
           call[r].pc = "waiting" /\ log[g][i].req = r /\ g = Target[r]

\* What is in the channels of a group is in order and not yet applied.
Tip(g) == IF rd.upto[g] # 0 /\ g \notin rd.push THEN rd.upto[g] ELSE given[g]

Ordered(done, applier, applyc, saver, savec, tip) ==
  /\ done <= tip
  /\ applier # 0 => done < applier /\ applier <= tip
  /\ \A k \in 1..Len(applyc) :
       /\ done < applyc[k] /\ applier < applyc[k] /\ applyc[k] <= tip
       /\ \A j \in 1..Len(applyc) : j < k => applyc[j] < applyc[k]
       /\ saver # 0 => applyc[k] < saver
       /\ savec # 0 => applyc[k] < savec
  /\ saver # 0 => done < saver /\ applier < saver /\ saver <= tip
  /\ savec # 0 => done < savec /\ applier < savec /\ saver < savec /\ savec <= tip

InOrder(g) ==
  Ordered(applied[g], pipe[g].applier, pipe[g].applyc, pipe[g].saver,
          pipe[g].savec, Tip(g))

Chan(g) ==
  /\ applied[g] <= Len(log[g]) /\ given[g] <= Len(log[g])
  /\ snap[g] <= Len(log[g]) /\ rd.upto[g] <= Len(log[g])
  /\ rd.upto[g] # 0 => given[g] < rd.upto[g]
  /\ g \in rd.push => rd.upto[g] # 0
  /\ g \in open => InOrder(g)
  /\ g \notin open => pipe[g] = noPipe /\ rd.upto[g] = 0

Channels == \A g \in Group : Chan(g)

IInv == Types /\ Callers /\ Waiters /\ IDs /\ Channels /\ AppliesItsRequest /\ AnswerIsOwn
-----------------------------------------------------------------------------
(* Groups are numbered from 1, which is the first that a node opens. *)
LEMMA FirstGroup ==
  ASSUME NEW g \in Group
  PROVE  /\ 1 \in Group /\ g \in Nat /\ 1 <= g
         /\ Types => Base \in Nat
<1>1. Cardinality(Group) \in Nat
  BY FS_CardinalityType, MultiNodeAssumption
<1>2. 1 \in Group /\ g \in Nat /\ 1 <= g
  BY <1>1, MultiNodeAssumption
<1>3. ASSUME Types PROVE Base \in Nat
  <2>1. disk[1] \in Nat
    BY <1>2, <1>3 DEF Types
  <2>2. disk[1] + SnapCount \in Nat /\ Shift \in Nat
    BY <2>1, MultiNodeAssumption
  <2>3. \A m, n \in Nat : m * n \in Nat
    OBVIOUS
  <2>. QED
    BY <2>2, <2>3 DEF Base
<1>. QED
  BY <1>2, <1>3

(* The fields of a caller and of a group's channels, changed one by one. *)
LEMMA CallFields ==
  ASSUME NEW c \in CallType, NEW pc \in Pcs
  PROVE  /\ [c EXCEPT !.ch = "full"] \in CallType
         /\ [c EXCEPT !.pc = pc] \in CallType
BY DEF CallType

LEMMA PipeFields ==
  ASSUME NEW p \in PipeType, NEW n \in Nat
  PROVE  /\ \A q \in Seq(Nat) : [p EXCEPT !.applyc = q, !.applier = n] \in PipeType
         /\ \A q \in Seq(Nat) : [p EXCEPT !.applyc = q, !.saver = n] \in PipeType
         /\ [p EXCEPT !.savec = n] \in PipeType
         /\ \A m \in Nat : [p EXCEPT !.savec = m, !.saver = n] \in PipeType
         /\ [p EXCEPT !.applier = n] \in PipeType
BY Zenon DEF PipeType

LEMMA TypesInit == Init => Types
<1>. SUFFICES ASSUME Init PROVE Types
  OBVIOUS
<1>1. call \in [Req -> CallType]
  BY DEF Init, newCall, Pcs, CallType
<1>2. log \in [Group -> Seq(Entries)]
  BY DEF Init
<1>3. rd \in [upto : [Group -> Nat], push : SUBSET Group, wait : SUBSET Group]
  BY DEF Init, noRd
<1>4. pipe \in [Group -> PipeType]
  BY DEF Init, noPipe, PipeType
<1>. QED
  BY <1>1, <1>2, <1>3, <1>4 DEF Init, Types

LEMMA InvInit == Init => IInv
<1>. SUFFICES ASSUME Init PROVE IInv
  OBVIOUS
<1>1. Types
  BY TypesInit
<1>2. Callers
  BY DEF Init, Callers, Active, newCall
<1>3. Waiters
  BY DEF Init, Waiters
<1>4. IDs
  BY DEF Init, IDs
<1>5. Channels
  BY DEF Init, Channels, Chan, noRd
<1>6. AppliesItsRequest /\ AnswerIsOwn
  BY DEF Init, AppliesItsRequest, AnswerIsOwn, newCall
<1>. QED
  BY <1>1, <1>2, <1>3, <1>4, <1>5, <1>6 DEF IInv

(* Every step keeps the types. *)
LEMMA TypesStep == Types /\ [Next]_vars => Types'
<1>. SUFFICES ASSUME Types, [Next]_vars PROVE Types'
  OBVIOUS
<1>. USE DEF Types
<1>s. ASSUME NEW r \in Req, NEW rest, rest \subseteq line, sends(r, rest), UNCHANGED groups
      PROVE  Types'
  <2>1. [pc |-> "sending", id |-> gen + 1, ch |-> "empty"]
          \in CallType
    BY DEF Pcs, CallType
  <2>2. call' \in [Req -> CallType]
    BY <1>s, <2>1 DEF sends
  <2>3. line' \subseteq [id : Nat, req : Req] /\ gen' \in Nat
    BY <1>s DEF sends
  <2>. QED
    BY <1>s, <2>2, <2>3 DEF groups
<1>l. ASSUME NEW g \in Group, NEW e \in Entries
      PROVE  [log EXCEPT ![g] = Append(@, e)] \in [Group -> Seq(Entries)]
  OBVIOUS
<1>1. ASSUME NEW r \in Req, Propose(r) PROVE Types'
  BY <1>1, <1>s, Zenon DEF Propose
<1>2. ASSUME NEW r \in Req, NEW logged \in BOOLEAN, Step(r, logged) PROVE Types'
  <2>1. call' \in [Req -> CallType]
    BY <1>2, CallFields, Zenon DEF Step, Pcs
  <2>2. [node |-> "this", id |-> call[r].id, req |-> r] \in Entries
    BY DEF Entries, CallType
  <2>3. log' \in [Group -> Seq(Entries)]
    BY <1>2, <2>2, <1>l, MultiNodeAssumption, Zenon DEF Step
  <2>. QED
    BY <1>2, <2>1, <2>3 DEF Step
<1>3. ASSUME NEW r \in Req, Answered(r) PROVE Types'
  BY <1>3, CallFields, Zenon DEF Answered, Pcs, groups
<1>4. ASSUME NEW r \in Req, Timeout(r) PROVE Types'
  BY <1>4, CallFields, Zenon DEF Timeout, Pcs, groups, cancel
<1>5. ASSUME NEW r \in Req, Retry(r) PROVE Types'
  <2>1. cancel(r) \subseteq line
    BY DEF cancel
  <2>. QED
    BY <1>5, <2>1, <1>s DEF Retry
<1>6. ASSUME NEW g \in Group, OtherEntry(g) PROVE Types'
  <2>1. [node |-> "other", id |-> gen, req |-> 0] \in Entries
    BY DEF Entries
  <2>2. log' \in [Group -> Seq(Entries)]
    BY <1>6, <2>1, <1>l DEF OtherEntry
  <2>. QED
    BY <1>6, <2>2 DEF OtherEntry
<1>7. ASSUME NEW g \in Group, CreateGroup(g) PROVE Types'
  <2>1. firstID(g) \in Nat
    <3>1. disk[g] + SnapCount \in Nat /\ Shift \in Nat
      BY MultiNodeAssumption
    <3>2. \A m, n \in Nat : m * n \in Nat
      OBVIOUS
    <3>. QED
      BY <3>1, <3>2 DEF firstID
  <2>. QED
    BY <1>7, <2>1 DEF CreateGroup, Max2
<1>8. ASSUME Ready PROVE Types'
  <2>1. rd' \in [upto : [Group -> Nat], push : SUBSET Group, wait : SUBSET Group]
    BY <1>8 DEF Ready
  <2>. QED
    BY <1>8, <2>1 DEF Ready
<1>9. ASSUME Advance PROVE Types'
  <2>1. given' \in [Group -> Nat]
    BY <1>9 DEF Advance, Max2
  <2>2. rd' \in [upto : [Group -> Nat], push : SUBSET Group, wait : SUBSET Group]
    BY <1>9 DEF Advance, noRd
  <2>. QED
    BY <1>9, <2>1, <2>2 DEF Advance
<1>10. ASSUME NEW g \in Group, Push(g) PROVE Types'
  <2>1. rd.upto[g] \in Nat
    OBVIOUS
  <2>2. pipe' \in [Group -> PipeType]
    BY <1>10, <2>1, PipeFields, Zenon DEF Push
  <2>3. rd' \in [upto : [Group -> Nat], push : SUBSET Group, wait : SUBSET Group]
    BY <1>10, Zenon DEF Push
  <2>. QED
    BY <1>10, <2>2, <2>3, Zenon DEF Push
<1>11. ASSUME NEW g \in Group, Save(g) PROVE Types'
  <2>1. pipe[g].savec \in Nat
    BY DEF PipeType
  <2>2. pipe' \in [Group -> PipeType]
    BY <1>11, <2>1, PipeFields, Zenon DEF Save
  <2>3. rd' \in [upto : [Group -> Nat], push : SUBSET Group, wait : SUBSET Group]
    BY <1>11, Zenon DEF Save
  <2>4. disk' \in [Group -> Nat]
    BY <1>11, <2>1 DEF Save, Max2
  <2>. QED
    BY <1>11, <2>2, <2>3, <2>4, Zenon DEF Save
<1>12. ASSUME NEW g \in Group, ToApplier(g) PROVE Types'
  <2>1. Append(pipe[g].applyc, pipe[g].saver) \in Seq(Nat)
    BY DEF PipeType
  <2>. QED
    BY <1>12, <2>1, PipeFields, Zenon DEF ToApplier
<1>13. ASSUME NEW g \in Group, TakeReady(g) PROVE Types'
  <2>1. Head(pipe[g].applyc) \in Nat /\ Tail(pipe[g].applyc) \in Seq(Nat)
    BY <1>13 DEF TakeReady, PipeType
  <2>2. pipe' \in [Group -> PipeType]
    BY <1>13, <2>1, PipeFields, Zenon DEF TakeReady
  <2>. QED
    BY <1>13, <2>2 DEF TakeReady
<1>14. ASSUME NEW g \in Group, NEW snapped \in BOOLEAN, ApplyEntry(g, snapped) PROVE Types'
  <2>1. call' \in [Req -> CallType]
    BY <1>14, CallFields, Zenon DEF ApplyEntry, Pcs
  <2>2. line' \subseteq [id : Nat, req : Req]
    BY <1>14 DEF ApplyEntry
  <2>3. pipe' \in [Group -> PipeType]
    BY <1>14, PipeFields, Zenon DEF ApplyEntry
  <2>4. snap' \in [Group -> Nat] /\ applied' \in [Group -> Nat]
    BY <1>14 DEF ApplyEntry
  <2>. QED
    BY <1>14, <2>1, <2>2, <2>3, <2>4 DEF ApplyEntry
<1>15. ASSUME NEW g \in Group, Block(g) PROVE Types'
  BY <1>15 DEF Block
<1>16. ASSUME Crash PROVE Types'
  <2>1. call' \in [Req -> CallType]
    BY <1>16, CallFields, Zenon DEF Crash, Pcs
  <2>2. rd' \in [upto : [Group -> Nat], push : SUBSET Group, wait : SUBSET Group]
    BY <1>16 DEF Crash, noRd
  <2>3. pipe' \in [Group -> PipeType]
    BY <1>16 DEF Crash, noPipe, PipeType
  <2>. QED
    BY <1>16, <2>1, <2>2, <2>3 DEF Crash
<1>17. CASE UNCHANGED vars
  BY <1>17 DEF vars
<1>. QED
  <2>. HIDE DEF Types
  <2>. QED
    BY <1>1, <1>2, <1>3, <1>4, <1>5, <1>6, <1>7, <1>8, <1>9, <1>10, <1>11, <1>12,
       <1>13, <1>14, <1>15, <1>16, <1>17, Zenon
    DEF Next, CallerStep, NodeStep, GroupStep
-----------------------------------------------------------------------------
(* What the applier works on is in the log. *)
LEMMA EntryThere ==
  ASSUME Types, Channels, NEW g \in Group, pipe[g].applier # 0
  PROVE  /\ applied[g] \in Nat /\ Len(log[g]) \in Nat /\ pipe[g].applier \in Nat
         /\ applied[g] < pipe[g].applier /\ pipe[g].applier <= Len(log[g])
         /\ log[g][applied[g] + 1] \in Entries
         /\ g \in open
<1>1. /\ applied[g] \in Nat /\ Len(log[g]) \in Nat /\ pipe[g].applier \in Nat
      /\ given[g] \in Nat /\ rd.upto[g] \in Nat
  BY DEF Types, PipeType
<1>2. g \in open
  BY DEF Channels, Chan, noPipe
<1>3. applied[g] < pipe[g].applier /\ pipe[g].applier <= Tip(g)
  BY <1>2 DEF Channels, Chan, InOrder, Ordered
<1>4. Tip(g) \in Nat /\ Tip(g) <= Len(log[g])
  BY <1>1 DEF Channels, Chan, Tip
<1>5. applied[g] < pipe[g].applier /\ pipe[g].applier <= Len(log[g])
  BY <1>1, <1>3, <1>4
<1>6. applied[g] + 1 \in 1..Len(log[g])
  BY <1>1, <1>5
<1>. QED
  BY <1>1, <1>2, <1>5, <1>6 DEF Types

Calls == Callers /\ Waiters /\ IDs

(* The main loop, handleReadies, a saver and a state machine that blocks leave *)
(* requests, entries and IDs alone.                                            *)
LEMMA QuietStep ==
  ASSUME Calls, UNCHANGED <<gen, line, call, log, open>>, disk' = disk \/ 1 \in open
  PROVE  Calls'
<1>1. Bound' = Bound
  BY DEF Bound, Base
<1>2. \A r : Active(r)' <=> Active(r)
  BY DEF Active
<1>3. Callers'
  BY <1>2 DEF Calls, Callers
<1>4. Waiters'
  BY <1>2 DEF Calls, Waiters
<1>5. IDs'
  BY <1>1, <1>2 DEF Calls, IDs
<1>. QED
  BY <1>3, <1>4, <1>5 DEF Calls

(* A new ID is not in the log and not in the line. *)
LEMMA SendsStep ==
  ASSUME Types, Types', Calls, NEW r \in Req, NEW rest, rest \subseteq line,
         \A w \in rest : w.req # r, Target[r] \in open,
         sends(r, rest), UNCHANGED <<log, open>>
  PROVE  Calls'
<1>1. gen \in Nat /\ gen' = gen + 1
  BY DEF Types, sends
<1>2. 1 \in open
  BY DEF Calls, Callers
<1>3. /\ call'[r].pc = "sending" /\ call'[r].id = gen + 1 /\ call'[r].ch = "empty"
      /\ \A s \in Req : s # r => call'[s] = call[s]
  BY DEF sends, Types
<1>4. \A s \in Req : call[s].id \in Nat
  BY DEF Types, CallType
<1>5. Callers'
  BY <1>1, <1>2, <1>3, <1>4 DEF Calls, Callers, Active
<1>6. Waiters'
  <2>. SUFFICES ASSUME NEW w \in line'
                PROVE  /\ Active(w.req)' /\ call'[w.req].id = w.id
                       /\ call'[w.req].ch = "empty"
    BY DEF Waiters
  <2>1. CASE w \in rest
    BY <2>1, <1>3 DEF Calls, Waiters, Active, Types
  <2>2. CASE w = [id |-> gen + 1, req |-> r]
    BY <2>2, <1>3 DEF Active
  <2>. QED
    BY <2>1, <2>2 DEF sends
<1>7. IDs'
  <2>. SUFFICES ASSUME NEW g \in Group, NEW i \in 1..Len(log[g]), log[g][i].node = "this"
                PROVE  /\ log[g][i].id <= Bound'
                       /\ \A s \in Req : Active(s)' /\ call'[s].id = log[g][i].id =>
                            call'[s].pc = "waiting" /\ log[g][i].req = s /\ g = Target[s]
    BY DEF IDs
  <2>1. log[g][i].id \in Nat
    <3>1. log[g][i] \in Entries
      BY DEF Types
    <3>. QED
      BY <3>1 DEF Entries
  <2>2. log[g][i].id <= gen
    BY <1>2 DEF Calls, IDs, Bound
  <2>3. Bound' = gen + 1
    BY <1>1, <1>2 DEF Bound
  <2>4. call'[r].id # log[g][i].id
    BY <1>1, <1>3, <2>1, <2>2
  <2>5. \A s \in Req : s # r => (Active(s)' <=> Active(s))
    BY <1>3 DEF Active
  <2>. QED
    BY <1>1, <1>3, <2>1, <2>2, <2>3, <2>4, <2>5 DEF Calls, IDs
<1>. QED
  BY <1>5, <1>6, <1>7 DEF Calls

(* A logged request is found under its ID only by its caller. *)
LEMMA StepStep ==
  ASSUME Types, Types', Calls, NEW r \in Req, NEW logged \in BOOLEAN, Step(r, logged)
  PROVE  Calls'
<1>1. /\ call'[r].pc = "waiting" /\ call'[r].id = call[r].id /\ call'[r].ch = call[r].ch
      /\ \A s \in Req : s # r => call'[s] = call[s]
      /\ call[r].pc = "sending"
      /\ UNCHANGED <<gen, line, open, disk>>
  BY DEF Step, Types, CallType
<1>2. \A s \in Req : Active(s)' <=> Active(s)
  BY <1>1 DEF Active
<1>3. Callers'
  BY <1>1, <1>2 DEF Calls, Callers, Active
<1>4. Waiters'
  <2>1. \A w \in line : w.req \in Req
    BY DEF Types
  <2>. QED
    BY <1>1, <1>2, <2>1 DEF Calls, Waiters
<1>5. IDs'
  <2>. SUFFICES ASSUME NEW g \in Group, NEW i \in 1..Len(log'[g]), log'[g][i].node = "this"
                PROVE  /\ log'[g][i].id <= Bound'
                       /\ \A s \in Req : Active(s)' /\ call'[s].id = log'[g][i].id =>
                            call'[s].pc = "waiting" /\ log'[g][i].req = s /\ g = Target[s]
    BY DEF IDs
  <2>1. Bound' = Bound /\ (Active(r) => Bound = gen)
    BY <1>1 DEF Bound, Base, Calls, Callers
  <2>2. CASE i \in 1..Len(log[g]) /\ log'[g][i] = log[g][i]
    BY <1>1, <1>2, <2>1, <2>2 DEF Calls, IDs
  <2>3. CASE g = Target[r] /\ log'[g][i] = [node |-> "this", id |-> call[r].id, req |-> r]
    BY <1>1, <1>2, <2>1, <2>3 DEF Calls, Callers, Active
  <2>. QED
    <3>. DEFINE e == [node |-> "this", id |-> call[r].id, req |-> r]
    <3>. HIDE DEF e
    <3>1. \/ log' = log
          \/ Target[r] \in Group /\ log' = [log EXCEPT ![Target[r]] = Append(@, e)]
      BY MultiNodeAssumption DEF Step, e
    <3>2. \A q \in Seq(Entries) : \A k \in 1..Len(Append(q, e)) :
            \/ k \in 1..Len(q) /\ Append(q, e)[k] = q[k]
            \/ Append(q, e)[k] = e
      OBVIOUS
    <3>3. log \in [Group -> Seq(Entries)]
      BY SMTT(30) DEF Types
    <3>4. CASE g = Target[r] /\ log' = [log EXCEPT ![Target[r]] = Append(@, e)]
      BY <3>2, <3>3, <3>4, <2>2, <2>3 DEF e
    <3>. QED
      BY <3>1, <3>3, <3>4, <2>2
<1>. QED
  BY <1>3, <1>4, <1>5 DEF Calls

(* A caller that goes leaves nothing in the line. *)
LEMMA LeaveStep ==
  ASSUME Types, Types', Calls, NEW r \in Req, NEW pc \in {"ok", "failed"},
         Active(r),
         call' = [call EXCEPT ![r].pc = pc],
         line' \subseteq line, \A w \in line' : w.req # r,
         UNCHANGED <<gen, log, open, disk>>
  PROVE  Calls'
<1>1. /\ call'[r].pc = pc /\ call'[r].id = call[r].id
      /\ \A s \in Req : s # r => call'[s] = call[s]
  BY DEF Types, CallType
<1>2. \A s \in Req : Active(s)' <=> Active(s) /\ s # r
  BY <1>1 DEF Active
<1>3. Callers'
  BY <1>1, <1>2 DEF Calls, Callers, Active
<1>4. Waiters'
  <2>1. \A w \in line : w.req \in Req
    BY DEF Types
  <2>. QED
    BY <1>1, <1>2, <2>1 DEF Calls, Waiters
<1>5. IDs'
  <2>1. Bound' = Bound
    BY DEF Bound, Base
  <2>. QED
    BY <1>1, <1>2, <2>1 DEF Calls, IDs
<1>. QED
  BY <1>3, <1>4, <1>5 DEF Calls

(* The entry of another node has none of this node's IDs. *)
LEMMA OtherStep ==
  ASSUME Types, Calls, NEW g \in Group, OtherEntry(g)
  PROVE  Calls'
<1>. DEFINE e == [node |-> "other", id |-> gen, req |-> 0]
<1>0. e.node # "this"
  OBVIOUS
<1>. HIDE DEF e
<1>1. log' = [log EXCEPT ![g] = Append(@, e)] /\ UNCHANGED <<gen, line, call, open, disk>>
  BY DEF OtherEntry, e
<1>2. \A q \in Seq(Entries) : \A k \in 1..Len(Append(q, e)) :
        \/ k \in 1..Len(q) /\ Append(q, e)[k] = q[k]
        \/ Append(q, e)[k] = e
  OBVIOUS
<1>3. log \in [Group -> Seq(Entries)]
  BY DEF Types
<1>4. \A f \in Group : \A i \in 1..Len(log'[f]) :
        log'[f][i].node = "this" => i \in 1..Len(log[f]) /\ log'[f][i] = log[f][i]
  <2>. TAKE f \in Group
  <2>1. CASE f = g
    BY <2>1, <1>0, <1>1, <1>2, <1>3
  <2>2. CASE f # g
    BY <2>2, <1>1, <1>3
  <2>. QED
    BY <2>1, <2>2
<1>5. Bound' = Bound /\ \A r : Active(r)' <=> Active(r)
  BY <1>1 DEF Bound, Base, Active
<1>6. Callers' /\ Waiters'
  BY <1>1, <1>5 DEF Calls, Callers, Waiters
<1>7. IDs'
  BY <1>1, <1>4, <1>5 DEF Calls, IDs
<1>. QED
  BY <1>6, <1>7 DEF Calls

(* The generator continues above all IDs in the log. *)
LEMMA CreateStep ==
  ASSUME Types, Types', Calls, NEW g \in Group, CreateGroup(g)
  PROVE  Calls'
<1>1. /\ gen \in Nat /\ Base \in Nat /\ 1 \in Group /\ g \in Nat /\ 1 <= g
  BY FirstGroup, Zenon DEF Types
<1>2. 1 \in open \/ g = 1
  BY <1>1 DEF CreateGroup
<1>3. 1 \in open'
  BY <1>2 DEF CreateGroup
<1>4. gen' \in Nat /\ gen <= gen' /\ (g = 1 => Base <= gen')
  <2>1. gen' = Max2(gen, firstID(g)) /\ gen' \in Nat
    BY DEF CreateGroup, Types
  <2>2. g = 1 => firstID(g) = Base
    BY DEF firstID, Base
  <2>3. CASE gen < firstID(g)
    BY <2>1, <2>2, <2>3, <1>1 DEF Max2
  <2>4. CASE ~(gen < firstID(g)) /\ g = 1
    BY <2>1, <2>2, <2>4, <1>1 DEF Max2
  <2>5. CASE ~(gen < firstID(g)) /\ g # 1
    BY <2>1, <2>5, <1>1 DEF Max2
  <2>. QED
    BY <2>3, <2>4, <2>5
<1>5. Bound \in Nat /\ Bound <= Bound'
  BY <1>1, <1>2, <1>3, <1>4 DEF Bound
<1>6. UNCHANGED <<line, call, log>> /\ open \subseteq open'
  BY DEF CreateGroup
<1>7. \A r : Active(r)' <=> Active(r)
  BY <1>6 DEF Active
<1>8. \A r \in Req : call[r].id \in Nat
  BY DEF Types, CallType
<1>9. Callers'
  BY <1>1, <1>3, <1>4, <1>6, <1>7, <1>8 DEF Calls, Callers
<1>10. Waiters'
  BY <1>6, <1>7 DEF Calls, Waiters
<1>11. IDs'
  <2>1. Bound' \in Nat
    BY <1>3, <1>4 DEF Bound
  <2>2. \A f \in Group : \A i \in 1..Len(log[f]) : log[f][i] \in Entries
    <3>. TAKE f \in Group
    <3>1. log[f] \in Seq(Entries)
      BY DEF Types
    <3>. QED
      BY <3>1
  <2>3. \A f \in Group : \A i \in 1..Len(log[f]) : log[f][i].id \in Nat
    BY <2>2 DEF Entries
  <2>4. \A f \in Group : \A i \in 1..Len(log[f]) :
          log[f][i].node = "this" => log[f][i].id <= Bound'
    BY <1>5, <2>1, <2>3 DEF Calls, IDs
  <2>. QED
    BY <1>6, <1>7, <2>4 DEF Calls, IDs
<1>. QED
  BY <1>9, <1>10, <1>11 DEF Calls

(* An answer takes its caller, and no other, out of the line. *)
LEMMA ApplyStep ==
  ASSUME Types, Types', Calls, Channels, NEW g \in Group, NEW snapped \in BOOLEAN,
         ApplyEntry(g, snapped)
  PROVE  Calls'
<1>. DEFINE e == log[g][applied[g] + 1]
            to == lineCall(e)
<1>1. applied[g] + 1 \in 1..Len(log[g])
  BY EntryThere DEF ApplyEntry
<1>2. /\ line' = line \ to
      /\ call' = [r \in Req |-> IF \E w \in to : w.req = r
                                THEN [call[r] EXCEPT !.ch = "full"] ELSE call[r]]
      /\ UNCHANGED <<gen, log, open, disk>>
  BY DEF ApplyEntry
<1>3. \A w \in to : w \in line /\ e.node = "this" /\ w.id = e.id
  BY DEF lineCall
<1>. HIDE DEF to, e
<1>4. \A r \in Req : /\ call'[r].pc = call[r].pc /\ call'[r].id = call[r].id
                     /\ (\A w \in to : w.req # r) => call'[r].ch = call[r].ch
  BY <1>2 DEF Types, CallType
<1>5. \A r \in Req : Active(r)' <=> Active(r)
  BY <1>4 DEF Active
<1>6. \A w \in line : w.req \in Req /\ w \in [id : Nat, req : Req]
  BY DEF Types
<1>7. \A w \in to : call[w.req].pc = "waiting"
  <2>1. \A w \in to : Active(w.req) /\ call[w.req].id = e.id
    BY <1>3 DEF Calls, Waiters
  <2>. QED
    BY <1>1, <1>3, <1>6, <2>1 DEF Calls, IDs, e
<1>8. Callers'
  BY <1>2, <1>4, <1>5, <1>7 DEF Calls, Callers
<1>9. Waiters'
  <2>. SUFFICES ASSUME NEW w \in line'
                PROVE  /\ Active(w.req)' /\ call'[w.req].id = w.id
                       /\ call'[w.req].ch = "empty"
    BY DEF Waiters
  <2>1. w \in line /\ w \notin to
    BY <1>2
  <2>2. ASSUME NEW v \in to, v.req = w.req PROVE FALSE
    <3>1. v.id = w.id
      BY <2>1, <2>2, <1>3 DEF Calls, Waiters
    <3>2. v = w
      BY <3>1, <2>1, <2>2, <1>3, <1>6
    <3>. QED
      BY <3>2, <2>1
  <2>. QED
    BY <2>1, <2>2, <1>4, <1>5, <1>6 DEF Calls, Waiters
<1>10. IDs'
  <2>1. Bound' = Bound
    BY <1>2 DEF Bound, Base
  <2>. QED
    BY <1>2, <1>4, <1>5, <2>1 DEF Calls, IDs
<1>. QED
  BY <1>8, <1>9, <1>10 DEF Calls

(* All requests are gone, and no entry has an ID above the next first one. *)
LEMMA CrashStep ==
  ASSUME Spaced, Types, Types', Calls, Crash
  PROVE  Calls'
<1>1. /\ \A r \in Req : call'[r].pc \in {"new", "gone"}
      /\ line' = {} /\ open' = {} /\ UNCHANGED <<log, disk>>
  BY DEF Crash, Types, CallType
<1>2. \A r \in Req : ~Active(r)'
  BY <1>1 DEF Active
<1>3. Callers' /\ Waiters'
  BY <1>1, <1>2 DEF Callers, Waiters
<1>4. IDs'
  <2>. SUFFICES ASSUME NEW g \in Group, NEW i \in 1..Len(log[g]), log[g][i].node = "this"
                PROVE  log[g][i].id <= Bound'
    BY <1>1, <1>2 DEF IDs
  <2>1. 1 \in Group /\ Base \in Nat /\ gen \in Nat
    BY FirstGroup, Zenon DEF Types
  <2>2. log[g][i].id <= gen
    BY <2>1 DEF Calls, IDs, Bound, Crash
  <2>3. gen <= Base
    BY DEF Crash, Base
  <2>4. Bound' = Base
    BY <1>1 DEF Bound, Base
  <2>5. log[g][i].id \in Nat
    <3>1. log[g][i] \in Entries
      BY DEF Types
    <3>. QED
      BY <3>1 DEF Entries
  <2>. QED
    BY <2>1, <2>2, <2>3, <2>4, <2>5
<1>. QED
  BY <1>3, <1>4 DEF Calls

(* Every step keeps what requests, entries and IDs have to do with each other. *)
LEMMA CallsStep ==
  ASSUME Spaced, Types, Types', Calls, Channels, [Next]_vars
  PROVE  Calls'
<1>w. \A r \in Req : \A w \in line : w.req = r => Active(r) /\ w.id = call[r].id
  BY DEF Calls, Waiters
<1>1. ASSUME NEW r \in Req, Propose(r) PROVE Calls'
  <2>1. \A w \in line : w.req # r
    BY <1>1, <1>w DEF Propose, Active
  <2>. QED
    BY <1>1, <2>1, SendsStep DEF Propose, groups
<1>2. ASSUME NEW r \in Req, NEW logged \in BOOLEAN, Step(r, logged) PROVE Calls'
  BY <1>2, StepStep
<1>3. ASSUME NEW r \in Req, Answered(r) PROVE Calls'
  <2>1. \A w \in line : w.req # r
    BY <1>3 DEF Calls, Waiters, Answered
  <2>. QED
    BY <1>3, <2>1, LeaveStep, Zenon DEF Answered, groups, Active
<1>4. ASSUME NEW r \in Req, Timeout(r) PROVE Calls'
  <2>1. line' \subseteq line /\ \A w \in line' : w.req # r
    BY <1>4, <1>w DEF Timeout, cancel
  <2>. QED
    BY <1>4, <2>1, LeaveStep, Zenon DEF Timeout, groups, Active
<1>5. ASSUME NEW r \in Req, Retry(r) PROVE Calls'
  <2>1. cancel(r) \subseteq line /\ \A w \in cancel(r) : w.req # r
    BY <1>w DEF cancel
  <2>2. Target[r] \in open
    BY <1>5 DEF Retry, Calls, Callers, Active
  <2>. QED
    BY <1>5, <2>1, <2>2, SendsStep DEF Retry, groups
<1>6. ASSUME NEW g \in Group, OtherEntry(g) PROVE Calls'
  BY <1>6, OtherStep
<1>7. ASSUME NEW g \in Group, CreateGroup(g) PROVE Calls'
  BY <1>7, CreateStep
<1>8. ASSUME Ready PROVE Calls'
  BY <1>8, QuietStep DEF Ready
<1>9. ASSUME Advance PROVE Calls'
  BY <1>9, QuietStep DEF Advance
<1>10. ASSUME NEW g \in Group, Push(g) PROVE Calls'
  BY <1>10, QuietStep DEF Push
<1>11. ASSUME NEW g \in Group, Save(g) PROVE Calls'
  <2>1. g \in open
    BY <1>11 DEF Save, Channels, Chan, noPipe
  <2>2. 1 \in open
    BY <2>1 DEF Calls, Callers
  <2>. QED
    BY <1>11, <2>2, QuietStep DEF Save
<1>12. ASSUME NEW g \in Group, ToApplier(g) PROVE Calls'
  BY <1>12, QuietStep DEF ToApplier
<1>13. ASSUME NEW g \in Group, TakeReady(g) PROVE Calls'
  BY <1>13, QuietStep DEF TakeReady
<1>14. ASSUME NEW g \in Group, NEW snapped \in BOOLEAN, ApplyEntry(g, snapped) PROVE Calls'
  BY <1>14, ApplyStep
<1>15. ASSUME NEW g \in Group, Block(g) PROVE Calls'
  BY <1>15, QuietStep DEF Block
<1>16. ASSUME Crash PROVE Calls'
  BY <1>16, CrashStep
<1>17. CASE UNCHANGED vars
  BY <1>17, QuietStep DEF vars
<1>. QED
  BY <1>1, <1>2, <1>3, <1>4, <1>5, <1>6, <1>7, <1>8, <1>9, <1>10, <1>11, <1>12,
     <1>13, <1>14, <1>15, <1>16, <1>17, Zenon
  DEF Next, CallerStep, NodeStep, GroupStep
-----------------------------------------------------------------------------
(* The numbers that the channels of a group are about. *)
LEMMA Numbers ==
  ASSUME Types, NEW g \in Group
  PROVE  /\ applied[g] \in Nat /\ given[g] \in Nat /\ snap[g] \in Nat
         /\ rd.upto[g] \in Nat /\ Len(log[g]) \in Nat /\ Tip(g) \in Nat
         /\ pipe[g].savec \in Nat /\ pipe[g].saver \in Nat /\ pipe[g].applier \in Nat
         /\ pipe[g].applyc \in Seq(Nat)
         /\ \A k \in 1..Len(pipe[g].applyc) : pipe[g].applyc[k] \in Nat
<1>1. pipe[g] \in PipeType /\ log[g] \in Seq(Entries)
  BY DEF Types
<1>2. given[g] \in Nat /\ rd.upto[g] \in Nat /\ applied[g] \in Nat /\ snap[g] \in Nat
  BY DEF Types
<1>3. pipe[g].applyc \in Seq(Nat)
  BY <1>1 DEF PipeType
<1>4. \A k \in 1..Len(pipe[g].applyc) : pipe[g].applyc[k] \in Nat
  BY <1>3
<1>5. pipe[g].savec \in Nat /\ pipe[g].saver \in Nat /\ pipe[g].applier \in Nat
  BY <1>1 DEF PipeType
<1>6. Tip(g) \in Nat
  BY <1>2 DEF Tip
<1>7. Len(log[g]) \in Nat
  BY <1>1
<1>. QED
  BY <1>2, <1>3, <1>4, <1>5, <1>6, <1>7

(* A group with something in its channels is open. *)
LEMMA Working ==
  ASSUME Channels, NEW g \in Group,
         \/ pipe[g].savec # 0 \/ pipe[g].saver # 0
         \/ pipe[g].applyc # <<>> \/ pipe[g].applier # 0
  PROVE  Chan(g) /\ g \in open /\ InOrder(g)
<1>1. Chan(g)
  BY DEF Channels
<1>2. g \in open
  BY <1>1 DEF Chan, noPipe
<1>. QED
  BY <1>1, <1>2 DEF Chan

(* A log that grows disturbs no channel. *)
LEMMA GrowStep ==
  ASSUME Types, Types', Channels,
         \A g \in Group : Len(log[g]) <= Len(log'[g]),
         UNCHANGED <<given, snap, rd, pipe, applied, open>>
  PROVE  Channels'
<1>. SUFFICES ASSUME NEW g \in Group PROVE Chan(g)'
  BY DEF Channels
<1>1. Chan(g) /\ Len(log'[g]) \in Nat /\ Len(log[g]) <= Len(log'[g])
  BY Numbers DEF Channels, Types
<1>2. InOrder(g)' <=> InOrder(g)
  BY DEF InOrder, Tip
<1>. QED
  BY <1>1, <1>2, Numbers, SMTT(30) DEF Chan

(* The readies that etcd's raft hands out continue where the last ones ended. *)
LEMMA ReadyStep ==
  ASSUME Types, Types', Channels, Ready
  PROVE  Channels'
<1>. SUFFICES ASSUME NEW g \in Group PROVE Chan(g)'
  BY SMTT(30) DEF Channels
<1>1. Chan(g) /\ rd.upto[g] = 0
  BY DEF Channels, Ready, busy
<1>2. /\ UNCHANGED <<log, given, snap, pipe, applied, open>>
      /\ (g \in rd'.push <=> hasReady(g))
      /\ rd'.upto[g] = IF hasReady(g) THEN Len(log[g]) ELSE 0
  BY DEF Ready
<1>3. Tip(g) = given[g]
  BY <1>1 DEF Tip
<1>4. Tip(g)' = given[g]
  BY <1>2 DEF Tip
<1>5. InOrder(g)' <=> InOrder(g)
  BY <1>2, <1>3, <1>4, SMTT(30) DEF InOrder
<1>. QED
  BY <1>1, <1>2, <1>5, Numbers DEF Chan, hasReady

LEMMA AdvanceStep ==
  ASSUME Types, Types', Channels, Advance
  PROVE  Channels'
<1>. SUFFICES ASSUME NEW g \in Group PROVE Chan(g)'
  BY DEF Channels
<1>1. Chan(g) /\ g \notin rd.push
  BY DEF Channels, Advance
<1>2. /\ UNCHANGED <<log, snap, pipe, applied, open>>
      /\ g \notin rd'.push /\ rd'.upto[g] = 0
      /\ given'[g] = Max2(given[g], rd.upto[g])
  BY DEF Advance, noRd
<1>3. given'[g] = Tip(g)
  BY <1>1, <1>2, Numbers DEF Tip, Chan, Max2
<1>4. Tip(g)' = Tip(g)
  BY <1>2, <1>3 DEF Tip
<1>5. InOrder(g)' <=> InOrder(g)
  BY <1>2, <1>4 DEF InOrder
<1>6. Tip(g) <= Len(log[g])
  BY <1>1, Numbers DEF Tip, Chan
<1>. QED
  BY <1>1, <1>2, <1>3, <1>5, <1>6, Numbers DEF Chan

(* What each goroutine does to the order of a group's channels. *)
LEMMA OrderedKept ==
  ASSUME NEW a \in Nat, NEW p \in Nat, NEW q \in Seq(Nat), NEW v \in Nat, NEW c \in Nat,
         NEW t \in Nat, Ordered(a, p, q, v, c, t)
  PROVE  /\ \A u \in Nat : c = 0 /\ t < u => Ordered(a, p, q, v, u, u)
         /\ v = 0 /\ c # 0 => Ordered(a, p, q, c, 0, t)
         /\ v # 0 => Ordered(a, p, Append(q, v), 0, c, t)
         /\ p = 0 /\ q # <<>> => Ordered(a, Head(q), Tail(q), v, c, t)
         /\ p # 0 /\ a + 1 # p => Ordered(a + 1, p, q, v, c, t)
         /\ p # 0 /\ a + 1 = p => Ordered(a + 1, 0, q, v, c, t)
<1>0. \A k \in 1..Len(q) : q[k] \in Nat
  OBVIOUS
<1>1. ASSUME NEW u \in Nat, c = 0, t < u PROVE Ordered(a, p, q, v, u, u)
  BY <1>0, <1>1 DEF Ordered
<1>2. ASSUME v = 0, c # 0 PROVE Ordered(a, p, q, c, 0, t)
  BY <1>0, <1>2 DEF Ordered
<1>3. ASSUME v # 0 PROVE Ordered(a, p, Append(q, v), 0, c, t)
  <2>. DEFINE r == Append(q, v)
  <2>1. /\ Len(q) \in Nat /\ Len(r) = Len(q) + 1 /\ r[Len(q) + 1] = v
        /\ \A k \in 1..Len(q) : r[k] = q[k]
    OBVIOUS
  <2>2. \A k \in 1..Len(r) : k \in 1..Len(q) \/ k = Len(q) + 1
    BY <2>1
  <2>. HIDE DEF r
  <2>3. \A k \in 1..Len(r) : a < r[k] /\ p < r[k] /\ r[k] <= t /\ (c # 0 => r[k] < c)
    BY <1>0, <1>3, <2>1, <2>2, SMTT(30) DEF Ordered
  <2>4. \A k \in 1..Len(r) : \A j \in 1..Len(r) : j < k => r[j] < r[k]
    BY <1>0, <1>3, <2>1, <2>2 DEF Ordered
  <2>5. Ordered(a, p, r, 0, c, t)
    BY <1>3, <2>3, <2>4 DEF Ordered
  <2>. QED
    BY <2>5 DEF r
<1>4. ASSUME p = 0, q # <<>> PROVE Ordered(a, Head(q), Tail(q), v, c, t)
  <2>. DEFINE r == Tail(q)
              h == Head(q)
  <2>1. /\ Len(q) \in Nat /\ 1 \in 1..Len(q) /\ h = q[1] /\ Len(r) = Len(q) - 1
        /\ r \in Seq(Nat)
    BY <1>4
  <2>0. \A k \in 1..Len(r) :
          k + 1 \in 1..Len(q) /\ r[k] = q[k + 1] /\ k \in Nat /\ 1 <= k
    BY <1>4, <2>1
  <2>. HIDE DEF r, h
  <2>2. h \in Nat /\ a < h /\ h <= t /\ (v # 0 => h < v) /\ (c # 0 => h < c)
    BY <1>0, <2>1 DEF Ordered
  <2>3. \A k \in 1..Len(r) : a < r[k] /\ h < r[k] /\ r[k] <= t
                             /\ (v # 0 => r[k] < v) /\ (c # 0 => r[k] < c)
    <3>. TAKE k \in 1..Len(r)
    <3>0. k + 1 \in 1..Len(q) /\ r[k] = q[k + 1] /\ k \in Nat /\ 1 <= k
      BY <2>0
    <3>1. k + 1 \in 1..Len(q) /\ r[k] = q[k + 1] /\ 1 < k + 1
      BY <3>0
    <3>2. a < q[k + 1] /\ q[k + 1] <= t /\ q[1] < q[k + 1]
          /\ (v # 0 => q[k + 1] < v) /\ (c # 0 => q[k + 1] < c)
      BY <2>1, <3>1 DEF Ordered
    <3>. QED
      BY <2>1, <3>1, <3>2
  <2>4. \A k \in 1..Len(r) : \A j \in 1..Len(r) : j < k => r[j] < r[k]
    <3>. TAKE k \in 1..Len(r)
    <3>. TAKE j \in 1..Len(r)
    <3>. HAVE j < k
    <3>1. /\ k + 1 \in 1..Len(q) /\ r[k] = q[k + 1]
          /\ j + 1 \in 1..Len(q) /\ r[j] = q[j + 1] /\ j \in Nat /\ k \in Nat
      BY <2>0, Zenon
    <3>2. j + 1 < k + 1
      BY <3>1
    <3>. QED
      BY <3>1, <3>2 DEF Ordered
  <2>5. Ordered(a, h, r, v, c, t)
    BY <2>2, <2>3, <2>4 DEF Ordered
  <2>. QED
    BY <2>5 DEF r, h
<1>5. ASSUME p # 0, a + 1 # p PROVE Ordered(a + 1, p, q, v, c, t)
  BY <1>0, <1>5 DEF Ordered
<1>6. ASSUME p # 0, a + 1 = p PROVE Ordered(a + 1, 0, q, v, c, t)
  BY <1>0, <1>6, SMTT(30) DEF Ordered
<1>. QED
  BY <1>1, <1>2, <1>3, <1>4, <1>5, <1>6

(* A step of one group leaves the channels of the others alone. *)
LEMMA OthersKept ==
  ASSUME Channels, NEW g \in Group, Chan(g)',
         \A f \in Group \ {g} :
           /\ pipe'[f] = pipe[f] /\ applied'[f] = applied[f] /\ snap'[f] = snap[f]
           /\ (f \in rd'.push <=> f \in rd.push),
         rd'.upto = rd.upto, UNCHANGED <<log, given, open>>
  PROVE  Channels'
<1>. SUFFICES ASSUME NEW f \in Group, f # g PROVE Chan(f)'
  BY DEF Channels
<1>1. Tip(f)' = Tip(f)
  BY DEF Tip
<1>2. InOrder(f)' <=> InOrder(f)
  BY <1>1 DEF InOrder
<1>. QED
  BY <1>2 DEF Channels, Chan

(* handleReadies passes a group a ready that is behind none before it. *)
LEMMA PushStep ==
  ASSUME Types, Types', Channels, NEW g \in Group, Push(g)
  PROVE  Channels'
<1>1. /\ pipe' = [pipe EXCEPT ![g] = [pipe[g] EXCEPT !.savec = rd.upto[g]]]
      /\ rd' = [rd EXCEPT !.push = rd.push \ {g}]
      /\ g \in rd.push /\ pipe[g].savec = 0
      /\ UNCHANGED <<log, given, snap, applied, open>>
  BY DEF Push
<1>2. /\ pipe'[g].savec = rd.upto[g] /\ pipe'[g].saver = pipe[g].saver
      /\ pipe'[g].applyc = pipe[g].applyc /\ pipe'[g].applier = pipe[g].applier
      /\ \A f \in Group \ {g} : pipe'[f] = pipe[f]
  BY <1>1 DEF Types, PipeType
<1>3. rd'.upto = rd.upto /\ rd'.push = rd.push \ {g}
  BY <1>1 DEF Types
<1>4. Chan(g) /\ g \in open /\ InOrder(g) /\ rd.upto[g] # 0 /\ given[g] < rd.upto[g]
  BY <1>1 DEF Channels, Chan
<1>5. Tip(g) = given[g] /\ Tip(g)' = rd.upto[g]
  BY <1>1, <1>3, <1>4 DEF Tip
<1>6. InOrder(g)'
  <2>1. Ordered(applied[g], pipe[g].applier, pipe[g].applyc, pipe[g].saver,
                rd.upto[g], rd.upto[g])
    BY <1>1, <1>4, <1>5, Numbers, OrderedKept, Zenon DEF InOrder
  <2>. QED
    BY <1>1, <1>2, <1>5, <2>1 DEF InOrder
<1>7. Chan(g)'
  BY <1>1, <1>3, <1>4, <1>6 DEF Chan
<1>. QED
  BY <1>1, <1>2, <1>3, <1>7, OthersKept

LEMMA SaveStep ==
  ASSUME Types, Types', Channels, NEW g \in Group, Save(g)
  PROVE  Channels'
<1>1. /\ pipe' = [pipe EXCEPT ![g] = [pipe[g] EXCEPT !.savec = 0, !.saver = pipe[g].savec]]
      /\ rd' = [rd EXCEPT !.wait = rd.wait \ {g}]
      /\ pipe[g].savec # 0 /\ pipe[g].saver = 0
      /\ UNCHANGED <<log, given, snap, applied, open>>
  BY Zenon DEF Save
<1>2. /\ pipe'[g].savec = 0 /\ pipe'[g].saver = pipe[g].savec
      /\ pipe'[g].applyc = pipe[g].applyc /\ pipe'[g].applier = pipe[g].applier
      /\ \A f \in Group \ {g} : pipe'[f] = pipe[f]
  BY <1>1 DEF Types, PipeType
<1>3. rd'.upto = rd.upto /\ rd'.push = rd.push
  BY <1>1 DEF Types
<1>4. Chan(g) /\ g \in open /\ InOrder(g)
  BY <1>1, Working
<1>5. Tip(g)' = Tip(g)
  BY <1>1, <1>3 DEF Tip
<1>6. InOrder(g)'
  <2>1. Ordered(applied[g], pipe[g].applier, pipe[g].applyc, pipe[g].savec, 0, Tip(g))
    BY <1>1, <1>4, Numbers, OrderedKept, Zenon DEF InOrder
  <2>. QED
    BY <1>1, <1>2, <1>5, <2>1 DEF InOrder
<1>7. Chan(g)'
  BY <1>1, <1>3, <1>4, <1>6 DEF Chan
<1>. QED
  BY <1>1, <1>2, <1>3, <1>7, OthersKept

LEMMA ToApplierStep ==
  ASSUME Types, Types', Channels, NEW g \in Group, ToApplier(g)
  PROVE  Channels'
<1>1. /\ pipe' = [pipe EXCEPT ![g] = [pipe[g] EXCEPT
                    !.applyc = Append(pipe[g].applyc, pipe[g].saver), !.saver = 0]]
      /\ pipe[g].saver # 0
      /\ UNCHANGED <<log, given, snap, applied, open, rd>>
  BY Zenon DEF ToApplier
<1>2. /\ pipe'[g].savec = pipe[g].savec /\ pipe'[g].saver = 0
      /\ pipe'[g].applyc = Append(pipe[g].applyc, pipe[g].saver)
      /\ pipe'[g].applier = pipe[g].applier
      /\ \A f \in Group \ {g} : pipe'[f] = pipe[f]
  <2>1. pipe \in [Group -> PipeType] /\ pipe[g] \in PipeType
    BY DEF Types
  <2>. QED
    BY <1>1, <2>1 DEF PipeType
<1>4. Chan(g) /\ g \in open /\ InOrder(g)
  BY <1>1, Working
<1>5. Tip(g)' = Tip(g)
  BY <1>1 DEF Tip
<1>6. InOrder(g)'
  BY <1>1, <1>2, <1>4, <1>5, Numbers, OrderedKept DEF InOrder
<1>7. Chan(g)'
  BY <1>1, <1>4, <1>6 DEF Chan
<1>. QED
  BY <1>1, <1>2, <1>7, OthersKept

LEMMA TakeReadyStep ==
  ASSUME Types, Types', Channels, NEW g \in Group, TakeReady(g)
  PROVE  Channels'
<1>1. /\ pipe' = [pipe EXCEPT ![g] = [pipe[g] EXCEPT
                    !.applyc = Tail(pipe[g].applyc), !.applier = Head(pipe[g].applyc)]]
      /\ pipe[g].applier = 0 /\ pipe[g].applyc # <<>>
      /\ UNCHANGED <<log, given, snap, applied, open, rd>>
  BY Zenon DEF TakeReady
<1>2. /\ pipe'[g].savec = pipe[g].savec /\ pipe'[g].saver = pipe[g].saver
      /\ pipe'[g].applyc = Tail(pipe[g].applyc)
      /\ pipe'[g].applier = Head(pipe[g].applyc)
      /\ \A f \in Group \ {g} : pipe'[f] = pipe[f]
  <2>1. pipe \in [Group -> PipeType] /\ pipe[g] \in PipeType
    BY DEF Types
  <2>. QED
    BY <1>1, <2>1 DEF PipeType
<1>4. Chan(g) /\ g \in open /\ InOrder(g)
  BY <1>1, Working
<1>5. Tip(g)' = Tip(g)
  BY <1>1 DEF Tip
<1>6. InOrder(g)'
  <2>1. Ordered(applied[g], Head(pipe[g].applyc), Tail(pipe[g].applyc), pipe[g].saver,
                pipe[g].savec, Tip(g))
    BY <1>1, <1>4, Numbers, OrderedKept, Zenon DEF InOrder
  <2>. QED
    BY <1>1, <1>2, <1>5, <2>1 DEF InOrder
<1>7. Chan(g)'
  BY <1>1, <1>4, <1>6, SMTT(30) DEF Chan
<1>. QED
  BY <1>1, <1>2, <1>7, OthersKept

LEMMA ApplyChannels ==
  ASSUME Types, Types', Channels, NEW g \in Group, NEW snapped \in BOOLEAN,
         ApplyEntry(g, snapped)
  PROVE  Channels'
<1>1. /\ applied' = [applied EXCEPT ![g] = applied[g] + 1]
      /\ pipe[g].applier # 0
      /\ UNCHANGED <<log, given, open, rd>>
  BY DEF ApplyEntry
<1>2. /\ applied'[g] = applied[g] + 1
      /\ \A f \in Group \ {g} : applied'[f] = applied[f]
  BY <1>1 DEF Types
<1>3. /\ snap'[g] \in {snap[g], applied[g] + 1}
      /\ \A f \in Group \ {g} : snap'[f] = snap[f]
  BY DEF ApplyEntry, Types
<1>4. /\ pipe'[g].savec = pipe[g].savec /\ pipe'[g].saver = pipe[g].saver
      /\ pipe'[g].applyc = pipe[g].applyc
      /\ applied[g] + 1 = pipe[g].applier => pipe'[g].applier = 0
      /\ applied[g] + 1 # pipe[g].applier => pipe'[g].applier = pipe[g].applier
      /\ \A f \in Group \ {g} : pipe'[f] = pipe[f]
  <2>1. pipe \in [Group -> PipeType] /\ pipe[g] \in PipeType
    BY DEF Types
  <2>2. pipe' = IF applied[g] + 1 = pipe[g].applier
                THEN [pipe EXCEPT ![g] = [pipe[g] EXCEPT !.applier = 0]] ELSE pipe
    BY SMTT(30) DEF ApplyEntry
  <2>. QED
    BY <2>1, <2>2 DEF PipeType
<1>5. Chan(g) /\ g \in open /\ InOrder(g)
  BY <1>1, Working, SMTT(30)
<1>6. Tip(g)' = Tip(g)
  BY <1>1, SMTT(30) DEF Tip
<1>7. Ordered(applied[g] + 1, pipe'[g].applier, pipe[g].applyc, pipe[g].saver,
              pipe[g].savec, Tip(g))
  <2>1. CASE applied[g] + 1 = pipe[g].applier
    <3>1. Ordered(applied[g] + 1, 0, pipe[g].applyc, pipe[g].saver, pipe[g].savec, Tip(g))
      BY <2>1, <1>1, <1>5, Numbers, OrderedKept, Zenon DEF InOrder
    <3>. QED
      BY <2>1, <1>4, <3>1
  <2>2. CASE applied[g] + 1 # pipe[g].applier
    BY <2>2, <1>1, <1>4, <1>5, Numbers, OrderedKept, Zenon DEF InOrder
  <2>. QED
    BY <2>1, <2>2, SMTT(30)
<1>8. InOrder(g)'
  BY <1>2, <1>4, <1>6, <1>7 DEF InOrder
<1>9. applied[g] + 1 <= Len(log[g])
  BY <1>1, EntryThere, SMTT(30)
<1>10. Chan(g)'
  <2>1. applied'[g] <= Len(log'[g]) /\ snap'[g] <= Len(log'[g])
    BY <1>1, <1>2, <1>3, <1>5, <1>9 DEF Chan
  <2>. QED
    BY <1>1, <1>5, <1>8, <2>1, SMTT(30) DEF Chan
<1>. QED
  BY <1>1, <1>2, <1>3, <1>4, <1>10, OthersKept

(* A group starts from its snapshot with empty channels. *)
LEMMA CreateChannels ==
  ASSUME Types, Types', Channels, NEW g \in Group, CreateGroup(g)
  PROVE  Channels'
<1>. SUFFICES ASSUME NEW f \in Group PROVE Chan(f)'
  BY DEF Channels
<1>1. /\ UNCHANGED <<log, snap, rd, pipe>> /\ open' = open \cup {g}
      /\ g \notin open /\ rd.upto[f] = 0
  BY DEF CreateGroup, busy
<1>2. f # g => applied'[f] = applied[f] /\ given'[f] = given[f]
  BY DEF CreateGroup, Types
<1>3. f = g => applied'[f] = snap[f] /\ given'[f] = snap[f]
  BY SMTT(30) DEF CreateGroup, Types
<1>4. Chan(f) /\ Tip(f) = given[f] /\ Tip(f)' = given'[f]
  BY <1>1, SMTT(30) DEF Channels, Tip
<1>5. CASE f # g
  <2>1. InOrder(f)' <=> InOrder(f)
    BY <1>1, <1>2, <1>4, <1>5 DEF InOrder
  <2>. QED
    BY <1>1, <1>2, <1>4, <1>5, <2>1, SMTT(30) DEF Chan
<1>6. CASE f = g
  <2>1. pipe[f] = noPipe
    BY <1>1, <1>4, <1>6 DEF Chan
  <2>2. snap[f] \in Nat /\ Ordered(snap[f], 0, <<>>, 0, 0, snap[f])
    BY Numbers DEF Ordered
  <2>3. InOrder(f)'
    BY <1>1, <1>3, <1>4, <1>6, <2>1, <2>2, SMTT(30) DEF InOrder, noPipe
  <2>. QED
    <3>1. snap[f] <= Len(log[f]) /\ f \in open' /\ f \notin rd.push
      BY <1>1, <1>4, <1>6, SMTT(30) DEF Chan
    <3>. QED
      BY <1>1, <1>3, <1>6, <2>2, <2>3, <3>1, SMTT(30) DEF Chan
<1>. QED
  BY <1>5, <1>6

LEMMA CrashChannels ==
  ASSUME Types, Types', Channels, Crash
  PROVE  Channels'
<1>. SUFFICES ASSUME NEW g \in Group PROVE Chan(g)'
  BY DEF Channels
<1>1. /\ UNCHANGED <<log, snap, given, applied>> /\ open' = {}
      /\ pipe'[g] = noPipe /\ rd'.upto[g] = 0 /\ rd'.push = {}
  BY DEF Crash, noRd
<1>. QED
  BY <1>1, Numbers DEF Channels, Chan

(* Every step keeps the channels in order. *)
LEMMA ChannelsStep ==
  ASSUME Types, Types', Channels, [Next]_vars
  PROVE  Channels'
<1>g. \A g \in Group : Len(log[g]) \in Nat
  BY Numbers
<1>q. ASSUME log' = log, UNCHANGED <<given, snap, rd, pipe, applied, open>> PROVE Channels'
  <2>1. \A g \in Group : Len(log[g]) <= Len(log'[g])
    BY <1>q, <1>g
  <2>. QED
    BY <1>q, <2>1, GrowStep
<1>l. ASSUME NEW f \in Group, NEW e \in Entries, log' = [log EXCEPT ![f] = Append(@, e)],
             UNCHANGED <<given, snap, rd, pipe, applied, open>>
      PROVE  Channels'
  <2>1. \A g \in Group : Len(log[g]) <= Len(log'[g])
    <3>1. \A q \in Seq(Entries) : Len(q) \in Nat /\ Len(Append(q, e)) = Len(q) + 1
      OBVIOUS
    <3>2. log \in [Group -> Seq(Entries)]
      BY DEF Types
    <3>3. \A g \in Group : log'[g] = IF g = f THEN Append(log[f], e) ELSE log[g]
      BY <1>l, <3>2
    <3>. TAKE g \in Group
    <3>4. CASE g = f
      <4>1. Len(log'[g]) = Len(log[g]) + 1
        BY <3>1, <3>2, <3>3, <3>4, Zenon
      <4>. QED
        BY <1>g, <4>1
    <3>5. CASE g # f
      BY <1>g, <3>3, <3>5, SMTT(30)
    <3>. QED
      BY <3>4, <3>5
  <2>. QED
    BY <1>l, <2>1, GrowStep
<1>1. ASSUME NEW r \in Req, Propose(r) PROVE Channels'
  BY <1>1, <1>q DEF Propose, groups
<1>2. ASSUME NEW r \in Req, NEW logged \in BOOLEAN, Step(r, logged) PROVE Channels'
  <2>1. [node |-> "this", id |-> call[r].id, req |-> r] \in Entries
    BY DEF Entries, Types, CallType
  <2>. QED
    BY <1>2, <2>1, <1>q, <1>l, MultiNodeAssumption DEF Step
<1>3. ASSUME NEW r \in Req, Answered(r) PROVE Channels'
  BY <1>3, <1>q DEF Answered, groups
<1>4. ASSUME NEW r \in Req, Timeout(r) PROVE Channels'
  BY <1>4, <1>q DEF Timeout, groups
<1>5. ASSUME NEW r \in Req, Retry(r) PROVE Channels'
  BY <1>5, <1>q DEF Retry, groups
<1>6. ASSUME NEW g \in Group, OtherEntry(g) PROVE Channels'
  <2>1. [node |-> "other", id |-> gen, req |-> 0] \in Entries
    BY DEF Entries, Types
  <2>. QED
    BY <1>6, <2>1, <1>l, Zenon DEF OtherEntry
<1>7. ASSUME NEW g \in Group, CreateGroup(g) PROVE Channels'
  BY <1>7, CreateChannels
<1>8. ASSUME Ready PROVE Channels'
  BY <1>8, ReadyStep
<1>9. ASSUME Advance PROVE Channels'
  BY <1>9, AdvanceStep
<1>10. ASSUME NEW g \in Group, Push(g) PROVE Channels'
  BY <1>10, PushStep
<1>11. ASSUME NEW g \in Group, Save(g) PROVE Channels'
  BY <1>11, SaveStep
<1>12. ASSUME NEW g \in Group, ToApplier(g) PROVE Channels'
  BY <1>12, ToApplierStep
<1>13. ASSUME NEW g \in Group, TakeReady(g) PROVE Channels'
  BY <1>13, TakeReadyStep
<1>14. ASSUME NEW g \in Group, NEW snapped \in BOOLEAN, ApplyEntry(g, snapped) PROVE Channels'
  BY <1>14, ApplyChannels
<1>15. ASSUME NEW g \in Group, Block(g) PROVE Channels'
  BY <1>15, <1>q DEF Block
<1>16. ASSUME Crash PROVE Channels'
  BY <1>16, CrashChannels
<1>17. CASE UNCHANGED vars
  BY <1>17, <1>q DEF vars
<1>. QED
  BY <1>1, <1>2, <1>3, <1>4, <1>5, <1>6, <1>7, <1>8, <1>9, <1>10, <1>11, <1>12,
     <1>13, <1>14, <1>15, <1>16, <1>17, Zenon
  DEF Next, CallerStep, NodeStep, GroupStep
-----------------------------------------------------------------------------
(* The request that decReq takes from the line is the one in the entry. *)
LEMMA AppliesStep ==
  ASSUME Types, Calls, Channels, AppliesItsRequest, [Next]_vars
  PROVE  AppliesItsRequest'
<1>1. ASSUME NEW g \in Group, NEW snapped \in BOOLEAN, ApplyEntry(g, snapped)
      PROVE  wrong' = wrong
  <2>. DEFINE e == log[g][applied[g] + 1]
  <2>1. applied[g] + 1 \in 1..Len(log[g])
    BY <1>1, EntryThere, SMTT(30) DEF ApplyEntry
  <2>2. ASSUME e.node = "this", NEW w \in line, w.id = e.id PROVE w.req = e.req
    <3>1. Active(w.req) /\ call[w.req].id = e.id /\ w.req \in Req
      BY <2>2 DEF Calls, Waiters, Types
    <3>. QED
      BY <2>1, <2>2, <3>1 DEF Calls, IDs
  <2>. HIDE DEF e
  <2>3. decReq(e) = e.req
    <3>1. CASE e.node = "this" /\ \E w \in line : w.id = e.id
      <4>1. PICK w \in line : w.id = e.id
        BY <3>1
      <4>2. (CHOOSE v \in line : v.id = e.id) \in line
            /\ (CHOOSE v \in line : v.id = e.id).id = e.id
        BY <4>1
      <4>. QED
        BY <2>2, <3>1, <4>2 DEF decReq
    <3>2. CASE ~(e.node = "this" /\ \E w \in line : w.id = e.id)
      BY <3>2 DEF decReq
    <3>. QED
      BY <3>1, <3>2
  <2>. QED
    BY <1>1, <2>3 DEF ApplyEntry, e
<1>2. wrong' = wrong
  BY <1>1, Zenon DEF Next, CallerStep, NodeStep, GroupStep, vars, groups, Propose, Step,
    Answered, Timeout, Retry, OtherEntry, CreateGroup, Ready, Push, Advance, Save,
    ToApplier, TakeReady, Block, Crash
<1>. QED
  BY <1>2 DEF AppliesItsRequest

Answer(r) == call[r].pc = "ok" \/ (call[r].pc = "waiting" /\ call[r].ch = "full")

Done(r) == \E i \in 1..applied[Target[r]] : log[Target[r]][i].req = r

(* What is applied stays applied while its caller is there. *)
LEMMA DoneKept ==
  ASSUME Types, Types', Channels, AnswerIsOwn, NEW r \in Req, Answer(r),
         1..applied[Target[r]] \subseteq 1..applied'[Target[r]],
         \A i \in 1..Len(log[Target[r]]) : log'[Target[r]][i] = log[Target[r]][i]
  PROVE  Done(r)'
<1>. DEFINE g == Target[r]
<1>1. g \in Group
  BY MultiNodeAssumption
<1>2. applied[g] \in Nat /\ Len(log[g]) \in Nat /\ applied[g] <= Len(log[g])
  BY <1>1, Numbers, Zenon DEF Channels, Chan
<1>3. PICK i \in 1..applied[g] : log[g][i].req = r
  BY DEF AnswerIsOwn, Answer
<1>4. i \in 1..applied'[g]
  BY <1>3, Zenon
<1>5. i \in 1..Len(log[g])
  BY <1>2, <1>3
<1>. QED
  BY <1>3, <1>4, <1>5, Zenon DEF Done

(* An answer is given for a request when the request is applied. *)
LEMMA AnswerStep ==
  ASSUME Types, Types', Calls, Channels, AnswerIsOwn, [Next]_vars
  PROVE  AnswerIsOwn'
<1>. SUFFICES ASSUME NEW r \in Req, Answer(r)' PROVE Done(r)'
  BY SMTT(30) DEF AnswerIsOwn, Answer, Done
<1>. DEFINE g == Target[r]
<1>0. g \in Group /\ applied[g] \in Nat /\ applied'[g] \in Nat
  BY MultiNodeAssumption DEF Types
<1>k. ASSUME Answer(r), applied' = applied, log' = log PROVE Done(r)'
  BY <1>k, DoneKept, Zenon
<1>a. \A s \in Req : sends(s, line) \/ sends(s, cancel(s)) => r # s /\ call'[r] = call[r]
  BY DEF sends, Answer, Types
<1>l. ASSUME NEW f \in Group, NEW e, log' = [log EXCEPT ![f] = Append(@, e)]
      PROVE  \A i \in 1..Len(log[g]) : log'[g][i] = log[g][i]
  <2>1. log \in [Group -> Seq(Entries)]
    BY DEF Types
  <2>. QED
    BY <1>0, <1>l, <2>1
<1>1. ASSUME NEW s \in Req, Propose(s) PROVE Done(r)'
  BY <1>1, <1>a, <1>k, Zenon DEF Propose, groups, Answer
<1>2. ASSUME NEW s \in Req, NEW logged \in BOOLEAN, Step(s, logged) PROVE Done(r)'
  <2>1. /\ applied' = applied
        /\ \A t \in Req : t # s => call'[t] = call[t]
        /\ call'[s].pc = "waiting" /\ call'[s].ch = call[s].ch /\ call[s].pc = "sending"
    BY <1>2, SMTT(30) DEF Step, Types, CallType
  <2>2. Answer(r)
    BY <2>1, SMTT(30) DEF Answer, Calls, Callers
  <2>3. \A i \in 1..Len(log[g]) : log'[g][i] = log[g][i]
    <3>1. CASE log' = log
      BY <3>1
    <3>2. CASE log' # log
      BY <1>2, <3>2, <1>l, MultiNodeAssumption DEF Step
    <3>. QED
      BY <3>1, <3>2, SMTT(30)
  <2>. QED
    BY <2>1, <2>2, <2>3, DoneKept, Zenon
<1>3. ASSUME NEW s \in Req, Answered(s) PROVE Done(r)'
  <2>1. Answer(r)
    BY <1>3 DEF Answered, Answer, Types
  <2>. QED
    BY <1>3, <2>1, <1>k DEF Answered, groups
<1>4. ASSUME NEW s \in Req, Timeout(s) PROVE Done(r)'
  <2>1. Answer(r)
    BY <1>4 DEF Timeout, Answer, Types, CallType
  <2>. QED
    BY <1>4, <2>1, <1>k DEF Timeout, groups
<1>5. ASSUME NEW s \in Req, Retry(s) PROVE Done(r)'
  BY <1>5, <1>a, <1>k DEF Retry, groups, Answer
<1>6. ASSUME NEW f \in Group, OtherEntry(f) PROVE Done(r)'
  <2>1. Answer(r) /\ applied' = applied
    BY <1>6 DEF OtherEntry, Answer
  <2>2. \A i \in 1..Len(log[g]) : log'[g][i] = log[g][i]
    BY <1>6, <1>l DEF OtherEntry
  <2>. QED
    BY <2>1, <2>2, DoneKept, Zenon
<1>7. ASSUME NEW f \in Group, CreateGroup(f) PROVE Done(r)'
  <2>1. Answer(r) /\ log' = log
    BY <1>7 DEF CreateGroup, Answer
  <2>2. g \in open
    BY <2>1, SMTT(30) DEF Answer, Calls, Callers, Active
  <2>3. applied'[g] = applied[g]
    BY <1>0, <1>7, <2>2 DEF CreateGroup, Types
  <2>. QED
    BY <2>1, <2>3, DoneKept, Zenon
<1>8. ASSUME Ready PROVE Done(r)'
  BY <1>8, <1>k, Zenon DEF Ready, Answer
<1>9. ASSUME Advance PROVE Done(r)'
  BY <1>9, <1>k, Zenon DEF Advance, Answer
<1>10. ASSUME NEW f \in Group, Push(f) PROVE Done(r)'
  BY <1>10, <1>k DEF Push, Answer
<1>11. ASSUME NEW f \in Group, Save(f) PROVE Done(r)'
  BY <1>11, <1>k DEF Save, Answer
<1>12. ASSUME NEW f \in Group, ToApplier(f) PROVE Done(r)'
  BY <1>12, <1>k DEF ToApplier, Answer
<1>13. ASSUME NEW f \in Group, TakeReady(f) PROVE Done(r)'
  BY <1>13, <1>k, SMTT(30) DEF TakeReady, Answer
<1>14. ASSUME NEW f \in Group, NEW snapped \in BOOLEAN, ApplyEntry(f, snapped) PROVE Done(r)'
  <2>. DEFINE i == applied[f] + 1
              e == log[f][i]
              to == lineCall(e)
  <2>1. i \in 1..Len(log[f])
    BY <1>14, EntryThere DEF ApplyEntry
  <2>2. /\ applied' = [applied EXCEPT ![f] = i] /\ log' = log
        /\ call' = [s \in Req |-> IF \E w \in to : w.req = s
                                  THEN [call[s] EXCEPT !.ch = "full"] ELSE call[s]]
    BY <1>14 DEF ApplyEntry
  <2>3. applied'[f] = i /\ applied[g] <= applied'[g]
    <3>1. applied \in [Group -> Nat]
      BY DEF Types
    <3>. HIDE DEF g
    <3>. QED
      BY <1>0, <2>2, <3>1
  <2>4. CASE \E w \in to : w.req = r
    <3>1. PICK w \in line : w.req = r /\ e.node = "this" /\ w.id = e.id
      BY <2>4 DEF lineCall
    <3>2. Active(r) /\ call[r].id = e.id
      BY <3>1, SMTT(30) DEF Calls, Waiters
    <3>3. e.req = r /\ f = g
      BY <2>1, <3>1, <3>2 DEF Calls, IDs
    <3>4. applied[f] \in Nat /\ i \in 1..applied'[g]
      BY <1>0, <2>3, <3>3
    <3>. QED
      BY <2>2, <3>3, <3>4 DEF Done
  <2>5. CASE ~\E w \in to : w.req = r
    <3>1. Answer(r)
      BY <2>2, <2>5 DEF Answer
    <3>2. 1..applied[g] \subseteq 1..applied'[g]
      BY <1>0, <2>3
    <3>. QED
      BY <2>2, <3>1, <3>2, DoneKept, Zenon
  <2>. QED
    BY <2>4, <2>5
<1>15. ASSUME NEW f \in Group, Block(f) PROVE Done(r)'
  BY <1>15, <1>k DEF Block, Answer
<1>16. ASSUME Crash PROVE Done(r)'
  <2>1. call'[r].pc \in {"new", "gone"}
    BY <1>16 DEF Crash, Types, CallType
  <2>. QED
    BY <2>1 DEF Answer
<1>17. CASE UNCHANGED vars
  BY <1>17, <1>k DEF vars, Answer
<1>. QED
  BY <1>1, <1>2, <1>3, <1>4, <1>5, <1>6, <1>7, <1>8, <1>9, <1>10, <1>11, <1>12,
     <1>13, <1>14, <1>15, <1>16, <1>17, Zenon
  DEF Next, CallerStep, NodeStep, GroupStep
-----------------------------------------------------------------------------
(* The inductive invariant holds of a node that keeps its IDs apart. *)
LEMMA Inductive ==
  ASSUME Spaced
  PROVE  Spec => []IInv
<1>1. ASSUME IInv, [Next]_vars PROVE IInv'
  <2>1. Types' /\ Calls
    BY <1>1, TypesStep DEF IInv, Calls
  <2>2. Calls' /\ Channels'
    BY <1>1, <2>1, CallsStep, ChannelsStep DEF IInv
  <2>3. AppliesItsRequest' /\ AnswerIsOwn'
    BY <1>1, <2>1, AppliesStep, AnswerStep DEF IInv
  <2>. QED
    BY <2>1, <2>2, <2>3 DEF IInv, Calls
<1>. QED
  BY <1>1, InvInit, PTL DEF Spec

(* MultiNode.decReq: whatever goroutines, groups, retries and restarts do, an  *)
(* entry is applied with the request that it was logged with.                  *)
THEOREM RequestsNeverMixed ==
  ASSUME Spaced
  PROVE  Spec => []AppliesItsRequest
<1>1. IInv => AppliesItsRequest
  BY DEF IInv
<1>. QED
  BY <1>1, Inductive, PTL

(* line.call: a caller is only answered after its own request was applied in   *)
(* the group that it was for.                                                  *)
THEOREM AnswersAreOwn ==
  ASSUME Spaced
  PROVE  Spec => []AnswerIsOwn
<1>1. IInv => AnswerIsOwn
  BY DEF IInv
<1>. QED
  BY <1>1, Inductive, PTL

(* line.wait, call and cancel: the line holds no request whose caller is gone. *)
THEOREM LineAlwaysHoldsWaiters ==
  ASSUME Spaced
  PROVE  Spec => []LineHoldsWaiters
<1>1. IInv => LineHoldsWaiters
  BY DEF IInv, Waiters, Active, LineHoldsWaiters
<1>. QED
  BY <1>1, Inductive, PTL
=============================================================================
