------------------------------ MODULE Registry ------------------------------
(***************************************************************************)
(* The registry as a state machine of its own: the requests of             *)
(* RegistryState in any order, each built the way its callers build it     *)
(* (queen.go, bee.go, hive.go) from what the registry holds when the       *)
(* request is applied.                                                     *)
(***************************************************************************)
EXTENDS RegistryState

\* The hive whose queen is given an identifier, and alone registers it.
CONSTANT HiveOf

ASSUME HiveOfAssumption == HiveOf \in [BeeIDs -> HiveIDs \ {Nil}]

VARIABLE reg

Init == reg = newRegistry

Live == ~reg.dead

NewHiveID ==
  /\ Live
  /\ reg.HiveID < MaxHiveID
  /\ reg' = newHiveID(reg)

AllocateBeeIDs ==
  /\ Live
  /\ reg.BeeID + BatchSize <= MaxBeeID + 1
  /\ reg' = allocBeeIDs(reg, BatchSize)

\* ApplyConfChange: a node with an address joins, or a node leaves.
AddHive(h, a) ==
  /\ Live
  /\ h \in 1..reg.HiveID
  /\ reg' = addHive(reg, h, a)

DelHive(h) ==
  /\ Live
  /\ reg' = delHive(reg, h)

\* Mutant of RegisterBee: the end of an allocated range is taken to be in it.
RegisterBeeInclusive(b, h, c, d) ==
  /\ Live
  /\ b \in (hiveGroup + 1)..reg.BeeID
  /\ ~HasBee(reg, b)
  /\ d => c = NilColony
  /\ reg' = addBee(reg, [ID |-> b, Hive |-> h, Colony |-> c, Detached |-> d])

\* A queen registers an identifier it was given: with a colony of its own,
\* without one (cmdCreateBee), or as a detached bee.
RegisterBee(b, h, c, d) ==
  /\ Live
  /\ b \in (hiveGroup + 1)..(reg.BeeID - 1)
  /\ ~HasBee(reg, b)
  /\ d => c = NilColony
  /\ reg' = addBee(reg, [ID |-> b, Hive |-> h, Colony |-> c, Detached |-> d])

\* A hive that restarts removes its detached bees and those in no colony.
RemoveBee(b) ==
  /\ Live
  /\ HasBee(reg, b)
  /\ reg.Bees[b].Detached \/ IsNil(reg.Bees[b].Colony)
  /\ reg' = delBee(reg, b)

IsLeader(b) == HasBee(reg, b) /\ reg.Bees[b].Colony.Leader = b

\* A bee that a queen has just created for a colony to recruit.
IsRecruit(b) ==
  /\ HasBee(reg, b)
  /\ ~reg.Bees[b].Detached
  /\ IsNil(reg.Bees[b].Colony)

LockCell(b, S) ==
  /\ Live
  /\ IsLeader(b)
  /\ reg' = lockCell(reg, reg.Bees[b].Colony, S)

\* bee.addFollower: the leader recruits f.
RecruitFollower(b, f, t) ==
  LET c == reg.Bees[b].Colony
  IN  /\ Live
      /\ IsLeader(b)
      /\ IsRecruit(f)
      /\ reg' = updateColony(reg, c, AddFollower(c, f), t)

\* bee.ProcessStatusChange: the follower f is the new Raft leader.
ElectFollower(b, f, t) ==
  LET c == reg.Bees[b].Colony
  IN  /\ Live
      /\ IsLeader(b)
      /\ IsFollower(c, f)
      /\ reg' = updateColony(reg, c, WithLeader(c, f), t)

\* bee.handoffNonPersistent: f replaces a leader that has no followers.  A
\* bee that was itself the target of a migration joined Colony{Leader: b},
\* so the colony it knows may have lost its identifier.
HandOff(b, f, id, t) ==
  LET c == [reg.Bees[b].Colony EXCEPT !.ID = id]
  IN  /\ Live
      /\ IsLeader(b)
      /\ IsRecruit(f)
      /\ id \in {reg.Bees[b].Colony.ID, Nil}
      /\ c.Followers = {}
      /\ reg' = updateColony(reg, c, [c EXCEPT !.Leader = f], t)

Next ==
  \/ NewHiveID
  \/ AllocateBeeIDs
  \/ \E h \in HiveIDs, a \in Addr : AddHive(h, a)
  \/ \E h \in HiveIDs : DelHive(h)
  \/ \E b \in BeeIDs, d \in BOOLEAN :
       \E c \in {DefaultColony(b), NilColony} : RegisterBee(b, HiveOf[b], c, d)
  \/ \E b \in BeeIDs : RemoveBee(b)
  \/ \E b \in BeeIDs, S \in SUBSET Cell : LockCell(b, S)
  \/ \E b, f \in BeeIDs, t \in Terms : RecruitFollower(b, f, t)
  \/ \E b, f \in BeeIDs, t \in Terms : ElectFollower(b, f, t)
  \/ \E b, f, id \in BeeIDs, t \in Terms : HandOff(b, f, id, t)

Spec == Init /\ [][Next]_reg
-----------------------------------------------------------------------------
(* Correctness *)

\* Type invariant: the registry is a well-formed value (registry.go, the
\* struct and the maps of the cell store).
TypeOK == reg \in Registries

\* Every registered bee carries the identifier it is stored under, and that
\* identifier is below the allocation counter, so that no later
\* allocateBeeIDs hands it out again and the Fatal of addBee and of
\* beeAndHive cannot be reached.
IDsAllocated ==
  \A b \in BeeIDs : HasBee(reg, b) => reg.Bees[b].ID = b /\ b < reg.BeeID

\* No two hives are registered under one address (addHive refuses the second),
\* and only identifiers that newHiveID gave out are registered.
HiveAddrsUnique ==
  \A g, h \in HiveIDs : reg.Hives[g] # NoAddr =>
    /\ g \in 1..reg.HiveID
    /\ reg.Hives[g] = reg.Hives[h] => g = h

\* The two maps of the cell store say the same: a bee lists a cell exactly
\* when the cell names that bee as the leader of its colony.  updateColony
\* reads one map to rewrite the other, so a disagreement would leave a cell
\* with a leader that is gone.
CellMapsAgree ==
  \A k \in Cell, b \in BeeIDs \ {Nil} :
    k \in reg.BeeCells[b] <=> reg.CellBees[k].Leader = b

\* The owner of a locked cell is a registered bee whose colony is the one
\* the cell names: beeForCells never meets its "invalid info" Fatal, and
\* a lock taken with the bee's colony never conflicts with its own cells.
OwnerRegistered ==
  \A k \in Cell : Locked(reg, k) =>
    LET b == reg.CellBees[k].Leader
    IN  HasBee(reg, b) /\ reg.Bees[b].Colony = reg.CellBees[k]

\* All members of a colony agree on it: a bee in a colony is one of its
\* members, its leader and its followers are registered, and each of them
\* has the same colony.
ColonyAgreement ==
  \A b \in BeeIDs : HasBee(reg, b) /\ ~IsNil(reg.Bees[b].Colony) =>
    LET c == reg.Bees[b].Colony
    IN  /\ Contains(c, b)
        /\ c.Leader \notin c.Followers
        /\ \A m \in BeeIDs :
             Contains(c, m) => HasBee(reg, m) /\ reg.Bees[m].Colony = c

SameOwner(j, k) == reg.CellBees[j].Leader = reg.CellBees[k].Leader

\* A cell that is locked stays locked, and it changes hands only within the
\* bees of its colony or to a bee that was recruited without cells: no
\* request takes a cell from one owner and gives it to another owner.
CellsChangeHandsWhole ==
  [][\A j, k \in Cell :
       /\ Locked(reg, k) => Locked(reg', k)
       /\ Locked(reg, j) /\ Locked(reg, k) => (SameOwner(j, k) <=> SameOwner(j, k)')
    ]_reg
=============================================================================
