--------------------------- MODULE RegistryProofs ---------------------------
(***************************************************************************)
(* The safety of Registry for every number of cells, bees, hives and       *)
(* terms.  The invariants are inductive only together: that a recruit owns *)
(* no cells, which keeps the two cell maps in step when it takes over a    *)
(* colony, follows from the owner of a cell being in the cell's colony.    *)
(***************************************************************************)
EXTENDS Registry, TLAPS

\* A detached bee is in no colony.
DetachedAlone ==
  \A b \in BeeIDs :
    HasBee(reg, b) /\ reg.Bees[b].Detached => IsNil(reg.Bees[b].Colony)

IInv ==
  /\ TypeOK
  /\ IDsAllocated
  /\ CellMapsAgree
  /\ OwnerRegistered
  /\ ColonyAgreement
  /\ DetachedAlone

\* What CellsChangeHandsWhole says of a step.
WholeStep ==
  \A j, k \in Cell :
    /\ Locked(reg, k) => Locked(reg', k)
    /\ Locked(reg, j) /\ Locked(reg, k) => (SameOwner(j, k) <=> SameOwner(j, k)')

USE MaxBeeIDAssumption, RegistryAssumption DEF Nil

\* newRegistry holds no hive, no bee and no cell.
LEMMA InitIInv == Init => IInv
  BY DEF Init, newRegistry, hiveGroup, IInv, TypeOK, Registries, IDsAllocated,
     CellMapsAgree, OwnerRegistered, ColonyAgreement, DetachedAlone, HasBee,
     Locked, NoBee, NilColony, Colonies, BeeInfos, BeeIDs, HiveIDs, Terms

\* A step that leaves the bees and the cells alone and does not lower the
\* allocation counter (identifiers, hives, glog.Fatal).
LEMMA BeesAndCellsUnchanged ==
  ASSUME IInv, TypeOK',
         reg'.Bees = reg.Bees,
         reg'.CellBees = reg.CellBees,
         reg'.BeeCells = reg.BeeCells,
         reg'.BeeID >= reg.BeeID
  PROVE  IInv' /\ WholeStep
  <1>1. IDsAllocated'
    BY DEF IInv, TypeOK, Registries, IDsAllocated, HasBee, BeeIDs
  <1>2. CellMapsAgree' /\ OwnerRegistered' /\ ColonyAgreement' /\ DetachedAlone'
    BY DEF IInv, CellMapsAgree, OwnerRegistered, ColonyAgreement, DetachedAlone,
       HasBee, Locked
  <1>3. WholeStep
    BY DEF WholeStep, Locked, SameOwner
  <1> QED
    BY <1>1, <1>2, <1>3 DEF IInv

\* glog.Fatal changes nothing but dead.
LEMMA FatalStep ==
  ASSUME IInv, reg' = Fatal(reg)
  PROVE  IInv' /\ WholeStep
  <1>1. TypeOK'
    BY DEF IInv, TypeOK, Registries, Fatal
  <1> QED
    BY <1>1, BeesAndCellsUnchanged DEF IInv, TypeOK, Registries, Fatal

\* The colony of a registered bee is a colony, and the zero bee is absent.
LEMMA BeeFacts ==
  ASSUME IInv, NEW b \in BeeIDs
  PROVE  /\ reg.Bees[b] \in BeeInfos
         /\ reg.Bees[b].Colony \in Colonies
         /\ HasBee(reg, b) => b # Nil
         /\ ~HasBee(reg, Nil)
  BY DEF IInv, TypeOK, Registries, BeeInfos, IDsAllocated, HasBee, BeeIDs

\* Only the leader of a colony owns cells.
LEMMA OnlyLeadersOwn ==
  ASSUME IInv, NEW b \in BeeIDs \ {Nil}, reg.BeeCells[b] # {}
  PROVE  reg.Bees[b].Colony.Leader = b
  <1>1. PICK k \in Cell : k \in reg.BeeCells[b]
    BY DEF IInv, TypeOK, Registries
  <1>2. reg.CellBees[k].Leader = b
    BY <1>1 DEF IInv, CellMapsAgree
  <1> QED
    BY <1>2 DEF IInv, OwnerRegistered, Locked
-----------------------------------------------------------------------------
\* addBee with an identifier below the counter and not yet in use.
LEMMA RegisterBeeStep ==
  ASSUME IInv, NEW b \in BeeIDs, NEW h \in HiveIDs, NEW d \in BOOLEAN,
         NEW c \in {DefaultColony(b), NilColony}, RegisterBee(b, h, c, d)
  PROVE  IInv' /\ WholeStep
  <1> DEFINE info == [ID |-> b, Hive |-> h, Colony |-> c, Detached |-> d]
  <1>1. /\ b # Nil /\ b < reg.BeeID /\ ~HasBee(reg, b)
        /\ c \in Colonies
        /\ info \in BeeInfos
    <2>1. b # Nil /\ b < reg.BeeID /\ ~HasBee(reg, b)
      BY DEF RegisterBee, hiveGroup, BeeIDs, IInv, TypeOK, Registries
    <2>2. c \in Colonies
      BY DEF Colonies, DefaultColony, NilColony, BeeIDs
    <2>3. info \in BeeInfos
      BY <2>2, Zenon DEF BeeInfos
    <2> QED
      BY <2>1, <2>2, <2>3
  <1>2. reg' = [reg EXCEPT !.Bees[b] = info]
    <2>1. reg' = addBee(reg, info)
      BY DEF RegisterBee
    <2>2. info.ID = b
      OBVIOUS
    <2>3. ~duplicateBee(reg, info) /\ ~(reg.BeeID < b)
      BY <1>1, <2>2 DEF duplicateBee, IInv, TypeOK, Registries, BeeIDs
    <2> QED
      BY <1>1, <2>1, <2>2, <2>3 DEF addBee
  <1>3. TypeOK'
    BY <1>1, <1>2 DEF IInv, TypeOK, Registries
  <1>4. /\ reg'.BeeID = reg.BeeID
        /\ reg'.CellBees = reg.CellBees
        /\ reg'.BeeCells = reg.BeeCells
        /\ reg'.Bees = [reg.Bees EXCEPT ![b] = info]
    BY <1>2 DEF IInv, TypeOK, Registries
  <1>5. \A m \in BeeIDs : m # b => reg'.Bees[m] = reg.Bees[m]
    BY <1>4 DEF IInv, TypeOK, Registries
  <1>6. reg'.Bees[b] = info
    BY <1>4 DEF IInv, TypeOK, Registries
  <1>7. IDsAllocated'
    BY <1>1, <1>4, <1>5, <1>6 DEF IInv, IDsAllocated, HasBee
  <1>8. CellMapsAgree'
    BY <1>4 DEF IInv, CellMapsAgree
  <1>9. OwnerRegistered'
    BY <1>1, <1>4, <1>5 DEF IInv, OwnerRegistered, Locked, HasBee, TypeOK,
       Registries, Colonies
  <1>10. ColonyAgreement'
    <2> SUFFICES ASSUME NEW m \in BeeIDs, HasBee(reg', m),
                        ~IsNil(reg'.Bees[m].Colony)
                 PROVE  LET e == reg'.Bees[m].Colony
                        IN  /\ Contains(e, m)
                            /\ e.Leader \notin e.Followers
                            /\ \A x \in BeeIDs : Contains(e, x) =>
                                 HasBee(reg', x) /\ reg'.Bees[x].Colony = e
      BY DEF ColonyAgreement
    <2>1. CASE m = b
      BY <1>1, <1>6, <2>1 DEF DefaultColony, NilColony, IsNil, Contains,
         IsFollower, HasBee
    <2>2. CASE m # b
      BY <1>1, <1>5, <2>2 DEF IInv, ColonyAgreement, HasBee
    <2> QED
      BY <2>1, <2>2
  <1>11. DetachedAlone'
    BY <1>1, <1>5, <1>6 DEF RegisterBee, IInv, DetachedAlone, HasBee, NilColony,
       IsNil
  <1>12. WholeStep
    BY <1>4 DEF WholeStep, Locked, SameOwner
  <1> QED
    BY <1>3, <1>7, <1>8, <1>9, <1>10, <1>11, <1>12 DEF IInv

\* delBee of a detached bee or of a bee in no colony: no cell names it.
LEMMA RemoveBeeStep ==
  ASSUME IInv, NEW b \in BeeIDs, RemoveBee(b)
  PROVE  IInv' /\ WholeStep
  <1>1. reg' = [reg EXCEPT !.Bees[b] = NoBee]
    BY DEF RemoveBee, delBee
  <1>2. NoBee \in BeeInfos
    BY DEF NoBee, BeeInfos, NilColony, Colonies, BeeIDs, HiveIDs
  <1>3. TypeOK'
    BY <1>1, <1>2 DEF IInv, TypeOK, Registries
  <1>4. /\ reg'.BeeID = reg.BeeID
        /\ reg'.CellBees = reg.CellBees
        /\ reg'.BeeCells = reg.BeeCells
        /\ \A m \in BeeIDs : m # b => reg'.Bees[m] = reg.Bees[m]
        /\ ~HasBee(reg', b)
    BY <1>1 DEF IInv, TypeOK, Registries, HasBee, NoBee
  <1>5. HasBee(reg, b) /\ IsNil(reg.Bees[b].Colony)
    BY DEF RemoveBee, IInv, DetachedAlone
  <1>6. IDsAllocated' /\ CellMapsAgree'
    BY <1>4 DEF IInv, IDsAllocated, CellMapsAgree, HasBee
  <1>7. OwnerRegistered'
    <2> SUFFICES ASSUME NEW k \in Cell, Locked(reg, k)
                 PROVE  /\ HasBee(reg', reg.CellBees[k].Leader)
                        /\ reg'.Bees[reg.CellBees[k].Leader].Colony
                             = reg.CellBees[k]
      BY <1>4 DEF OwnerRegistered, Locked
    <2>1. reg.CellBees[k].Leader \in BeeIDs \ {b}
      BY <1>5 DEF IInv, TypeOK, Registries, Colonies, OwnerRegistered, IsNil,
         Locked
    <2> QED
      BY <1>4, <2>1 DEF IInv, OwnerRegistered, HasBee
  <1>8. ColonyAgreement'
    <2> SUFFICES ASSUME NEW m \in BeeIDs, m # b, HasBee(reg, m),
                        ~IsNil(reg.Bees[m].Colony),
                        NEW x \in BeeIDs, Contains(reg.Bees[m].Colony, x)
                 PROVE  x # b
      BY <1>4 DEF ColonyAgreement, HasBee, IInv
    <2> QED
      BY <1>5 DEF IInv, ColonyAgreement
  <1>9. DetachedAlone'
    BY <1>4 DEF IInv, DetachedAlone, HasBee
  <1>10. WholeStep
    BY <1>4 DEF WholeStep, Locked, SameOwner
  <1> QED
    BY <1>3, <1>6, <1>7, <1>8, <1>9, <1>10 DEF IInv

\* lockCell with the colony of a leader: every cell that was open goes to one
\* colony, which is the colony of its registered leader.
LEMMA LockCellStep ==
  ASSUME IInv, NEW b \in BeeIDs, NEW S \in SUBSET Cell, LockCell(b, S)
  PROVE  IInv' /\ WholeStep
  <1> DEFINE c == reg.Bees[b].Colony
             w == lockWinner(reg, c, S)
             O == {k \in S : ~Locked(reg, k)}
  <1>1. c \in Colonies /\ HasBee(reg, b) /\ c.Leader = b /\ b # Nil
    BY BeeFacts DEF LockCell, IsLeader
  <1>2. /\ w \in Colonies
        /\ w.Leader \in BeeIDs \ {Nil}
        /\ HasBee(reg, w.Leader)
        /\ reg.Bees[w.Leader].Colony = w
    <2>1. CASE \E k \in S : Locked(reg, k)
      <3>1. PICK k \in S : Locked(reg, k) /\ w = reg.CellBees[k]
        BY <2>1 DEF lockWinner
      <3> QED
        BY <3>1 DEF IInv, TypeOK, Registries, Colonies, OwnerRegistered, Locked
    <2>2. CASE ~\E k \in S : Locked(reg, k)
      BY <1>1, <2>2 DEF lockWinner
    <2> QED
      BY <2>1, <2>2
  <1>3. CASE reg' = Fatal(reg)
    BY <1>3, FatalStep
  <1>4. CASE reg' # Fatal(reg)
    <2>1. reg' = [reg EXCEPT
                   !.CellBees = [k \in Cell |-> IF k \in O THEN w ELSE @[k]],
                   !.BeeCells[w.Leader] = @ \cup O]
      <3>1. ~lockConflict(reg, S) /\ reg' = assign(reg, O, w)
        BY <1>1, <1>4 DEF LockCell, lockCell
      <3> QED
        BY <1>4, <3>1 DEF assign
    <2>2. /\ reg'.Bees = reg.Bees
          /\ reg'.BeeID = reg.BeeID
          /\ reg'.CellBees =
               [k \in Cell |-> IF k \in O THEN w ELSE reg.CellBees[k]]
          /\ reg'.BeeCells =
               [reg.BeeCells EXCEPT ![w.Leader] = @ \cup O]
      BY <2>1 DEF IInv, TypeOK, Registries
    <2>3. TypeOK'
      <3>1. reg'.CellBees \in [Cell -> Colonies]
        BY <1>2, <2>2 DEF IInv, TypeOK, Registries
      <3>2. reg'.BeeCells \in [BeeIDs -> SUBSET Cell]
        BY <1>2, <2>2 DEF IInv, TypeOK, Registries
      <3> QED
        BY <2>1, <3>1, <3>2 DEF IInv, TypeOK, Registries
    <2>4. IDsAllocated' /\ ColonyAgreement' /\ DetachedAlone'
      BY <2>2 DEF IInv, IDsAllocated, ColonyAgreement, DetachedAlone, HasBee
    <2>5. CellMapsAgree'
      <3> SUFFICES ASSUME NEW k \in Cell, NEW m \in BeeIDs \ {Nil}
                   PROVE  k \in reg'.BeeCells[m] <=> reg'.CellBees[k].Leader = m
        BY DEF CellMapsAgree
      <3>1. reg'.BeeCells[m] = IF m = w.Leader THEN reg.BeeCells[m] \cup O
                               ELSE reg.BeeCells[m]
        BY <2>2 DEF IInv, TypeOK, Registries
      <3>2. k \in reg.BeeCells[m] <=> reg.CellBees[k].Leader = m
        BY DEF IInv, CellMapsAgree
      <3> QED
        BY <2>2, <3>1, <3>2 DEF Locked
    <2>6. OwnerRegistered'
      BY <1>2, <2>2 DEF IInv, OwnerRegistered, Locked, HasBee
    <2>7. WholeStep
      <3>1. \A k \in Cell : Locked(reg, k) => reg'.CellBees[k] = reg.CellBees[k]
        BY <2>2
      <3> QED
        BY <3>1 DEF WholeStep, Locked, SameOwner
    <2> QED
      BY <2>3, <2>4, <2>5, <2>6, <2>7 DEF IInv
  <1> QED
    BY <1>3, <1>4
-----------------------------------------------------------------------------
\* updateColony from the colony of a registered leader to one whose other
\* members were in no colony and whose new leader, if any, owns no cells.
LEMMA UpdateColonyStep ==
  ASSUME IInv, NEW old \in Colonies, NEW new \in Colonies, NEW t \in Terms,
         HasBee(reg, old.Leader),
         reg.Bees[old.Leader].Colony.Leader = old.Leader,
         reg.Bees[old.Leader].Colony.Followers = old.Followers,
         new.Leader \notin new.Followers,
         \A m \in BeeIDs : Contains(new, m) =>
            /\ HasBee(reg, m)
            /\ ~reg.Bees[m].Detached
            /\ Contains(old, m) \/ IsNil(reg.Bees[m].Colony),
         reg' = updateColony(reg, old, new, t)
  PROVE  IInv' /\ WholeStep
  <1> DEFINE c == reg.Bees[old.Leader].Colony
             mine == reg.BeeCells[old.Leader]
  <1>1. /\ old.Leader \in BeeIDs \ {Nil} /\ new.Leader \in BeeIDs \ {Nil}
        /\ old.Followers \subseteq BeeIDs /\ new.Followers \subseteq BeeIDs
        /\ new.ID \in BeeIDs /\ c \in Colonies /\ ~IsNil(c)
        /\ HasBee(reg, new.Leader)
    BY BeeFacts DEF Colonies, Contains, IsNil
  <1>2. /\ \A m \in BeeIDs : Contains(old, m) <=> Contains(c, m)
        /\ \A m \in BeeIDs : Contains(old, m) =>
             HasBee(reg, m) /\ reg.Bees[m].Colony = c
    BY <1>1 DEF IInv, ColonyAgreement, Contains, IsFollower
  <1>3. CASE reg' = reg
    BY <1>3 DEF IInv, TypeOK, IDsAllocated, CellMapsAgree, OwnerRegistered,
       ColonyAgreement, DetachedAlone, WholeStep, Locked, SameOwner
  <1>4. CASE reg' # reg
    <2> DEFINE mid == moveCells(reg, old, new, t)
    <2>1. reg' = setColonies(mid, old, new)
      BY <1>1, <1>2, <1>4 DEF updateColony, IsNil
    <2>2. new.Leader # old.Leader => reg.BeeCells[new.Leader] = {}
      <3> SUFFICES ASSUME new.Leader # old.Leader, reg.BeeCells[new.Leader] # {}
                   PROVE  FALSE
        OBVIOUS
      <3>1. reg.Bees[new.Leader].Colony.Leader = new.Leader
        BY <1>1, OnlyLeadersOwn
      <3>2. Contains(old, new.Leader) \/ IsNil(reg.Bees[new.Leader].Colony)
        BY <1>1 DEF Contains
      <3> QED
        BY <1>1, <1>2, <3>1, <3>2 DEF IsNil
    <2>3. /\ mid.Bees = reg.Bees
          /\ mid.BeeID = reg.BeeID
          /\ mid.CellBees =
               [k \in Cell |-> IF k \in mine THEN new ELSE reg.CellBees[k]]
          /\ mid.BeeCells =
               IF old.Leader = new.Leader THEN reg.BeeCells
               ELSE [reg.BeeCells EXCEPT ![new.Leader] = mine, ![old.Leader] = {}]
          /\ mid \in Registries
      <3> DEFINE named ==
             [reg EXCEPT
               !.Terms[new.ID] = t,
               !.CellBees = [k \in Cell |-> IF k \in mine THEN new ELSE @[k]]]
      <3>1. /\ named \in Registries
            /\ named.Bees = reg.Bees
            /\ named.BeeID = reg.BeeID
            /\ named.CellBees =
                 [k \in Cell |-> IF k \in mine THEN new ELSE reg.CellBees[k]]
            /\ named.BeeCells = reg.BeeCells
            /\ named.NilMaps = reg.NilMaps
        BY <1>1 DEF IInv, TypeOK, Registries
      <3>2. CASE old.Leader = new.Leader
        <4>1. mid = named
          BY <3>2 DEF moveCells
        <4> QED
          BY <3>1, <3>2, <4>1
      <3>3. CASE old.Leader # new.Leader
        <4> DEFINE nm == IF mine = {}
                         THEN (reg.NilMaps \ {old.Leader}) \cup {new.Leader}
                         ELSE reg.NilMaps \ {old.Leader, new.Leader}
                   bc == [reg.BeeCells EXCEPT ![new.Leader] = mine,
                                              ![old.Leader] = {}]
        <4>1. mid = [named EXCEPT !.BeeCells = bc, !.NilMaps = nm]
          BY <3>1, <3>3 DEF moveCells
        <4>2. nm \subseteq BeeIDs /\ bc \in [BeeIDs -> SUBSET Cell]
          BY <1>1 DEF IInv, TypeOK, Registries
        <4>3. mid \in Registries
          <5>1. ASSUME NEW r \in Registries, NEW x \in [BeeIDs -> SUBSET Cell],
                       NEW y \in SUBSET BeeIDs
                PROVE  [r EXCEPT !.BeeCells = x, !.NilMaps = y] \in Registries
            BY DEF Registries
          <5> HIDE DEF named, bc, nm, mid
          <5> QED
            BY <3>1, <4>1, <4>2, <5>1
        <4>4. mid.BeeCells = bc
          BY <3>1, <4>1 DEF Registries
        <4>5. mid.Bees = named.Bees /\ mid.BeeID = named.BeeID
              /\ mid.CellBees = named.CellBees
          BY <3>1, <4>1 DEF Registries
        <4> QED
          BY <3>1, <3>3, <4>3, <4>4, <4>5
      <3> QED
        BY <3>2, <3>3
    <2>4. /\ reg'.CellBees = mid.CellBees
          /\ reg'.BeeCells = mid.BeeCells
          /\ reg'.BeeID = reg.BeeID
          /\ reg'.Bees =
               [m \in BeeIDs |->
                 IF Contains(new, m) THEN [reg.Bees[m] EXCEPT !.Colony = new]
                 ELSE IF Contains(old, m)
                 THEN [reg.Bees[m] EXCEPT !.Colony = NilColony]
                 ELSE reg.Bees[m]]
      BY <2>1, <2>3 DEF setColonies, Registries
    <2>5. NilColony \in Colonies
      BY DEF NilColony, Colonies, BeeIDs
    <2>6. ASSUME NEW m \in BeeIDs
          PROVE  /\ reg'.Bees[m] \in BeeInfos
                 /\ reg'.Bees[m].ID = reg.Bees[m].ID
                 /\ reg'.Bees[m].Detached = reg.Bees[m].Detached
                 /\ reg'.Bees[m].Colony =
                      IF Contains(new, m) THEN new
                      ELSE IF Contains(old, m) THEN NilColony
                      ELSE reg.Bees[m].Colony
      <3>1. reg.Bees[m] \in BeeInfos
        BY BeeFacts
      <3>2. ASSUME NEW d \in Colonies
            PROVE  LET e == [reg.Bees[m] EXCEPT !.Colony = d]
                   IN  /\ e \in BeeInfos
                       /\ e.ID = reg.Bees[m].ID
                       /\ e.Detached = reg.Bees[m].Detached
                       /\ e.Colony = d
        BY <3>1, Zenon DEF BeeInfos
      <3> QED
        BY <2>4, <2>5, <3>1, <3>2
    <2>7. TypeOK'
      <3>1. reg'.Bees \in [BeeIDs -> BeeInfos]
        BY <2>4, <2>6
      <3> QED
        BY <2>1, <2>3, <3>1 DEF TypeOK, Registries, setColonies
    <2>8. IDsAllocated' /\ DetachedAlone'
      BY <2>4, <2>6 DEF IInv, IDsAllocated, DetachedAlone, HasBee, IsNil,
         NilColony
    <2>9. CellMapsAgree'
      <3> SUFFICES ASSUME NEW k \in Cell, NEW m \in BeeIDs \ {Nil}
                   PROVE  k \in reg'.BeeCells[m] <=> reg'.CellBees[k].Leader = m
        BY DEF CellMapsAgree
      <3>1. k \in reg.BeeCells[m] <=> reg.CellBees[k].Leader = m
        BY DEF IInv, CellMapsAgree
      <3>2. k \in mine <=> reg.CellBees[k].Leader = old.Leader
        BY <1>1 DEF IInv, CellMapsAgree
      <3>3. reg'.CellBees[k] = IF k \in mine THEN new ELSE reg.CellBees[k]
        BY <2>3, <2>4
      <3>4. CASE old.Leader = new.Leader
        BY <2>3, <2>4, <3>1, <3>2, <3>3, <3>4
      <3>5. CASE old.Leader # new.Leader
        <4>1. reg'.BeeCells[m] = IF m = old.Leader THEN {}
                                 ELSE IF m = new.Leader THEN mine
                                 ELSE reg.BeeCells[m]
          BY <1>1, <2>3, <2>4, <3>5 DEF IInv, TypeOK, Registries
        <4> QED
          BY <2>2, <3>1, <3>2, <3>3, <3>5, <4>1
      <3> QED
        BY <3>4, <3>5
    <2>10. OwnerRegistered'
      <3> SUFFICES ASSUME NEW k \in Cell, Locked(reg', k)
                   PROVE  /\ HasBee(reg', reg'.CellBees[k].Leader)
                          /\ reg'.Bees[reg'.CellBees[k].Leader].Colony
                               = reg'.CellBees[k]
        BY DEF OwnerRegistered
      <3>1. CASE k \in mine
        <4>1. reg'.CellBees[k] = new
          BY <2>3, <2>4, <3>1
        <4>2. Contains(new, new.Leader)
          BY DEF Contains
        <4>3. /\ reg'.Bees[new.Leader].ID = reg.Bees[new.Leader].ID
              /\ reg'.Bees[new.Leader].Colony = new
          BY <1>1, <2>6, <4>2
        <4> QED
          BY <1>1, <4>1, <4>3 DEF HasBee
      <3>2. CASE k \notin mine
        <4> DEFINE d == reg.CellBees[k]
        <4>1. reg'.CellBees[k] = d
          BY <2>3, <2>4, <3>2
        <4>2. /\ d.Leader \in BeeIDs \ {Nil} /\ d.Leader # old.Leader
              /\ HasBee(reg, d.Leader)
              /\ reg.Bees[d.Leader].Colony = d
              /\ ~IsNil(d)
          BY <1>1, <3>2, <4>1 DEF IInv, TypeOK, Registries, Colonies, Locked,
             CellMapsAgree, OwnerRegistered, IsNil
        <4>3. ~Contains(old, d.Leader)
          BY <1>2, <4>2
        <4>4. ~Contains(new, d.Leader)
          BY <4>2, <4>3
        <4> QED
          BY <2>6, <4>1, <4>2, <4>3, <4>4 DEF HasBee
      <3> QED
        BY <3>1, <3>2
    <2>11. ColonyAgreement'
      <3> SUFFICES ASSUME NEW m \in BeeIDs, HasBee(reg', m),
                          ~IsNil(reg'.Bees[m].Colony)
                   PROVE  LET e == reg'.Bees[m].Colony
                          IN  /\ Contains(e, m)
                              /\ e.Leader \notin e.Followers
                              /\ \A x \in BeeIDs : Contains(e, x) =>
                                   HasBee(reg', x) /\ reg'.Bees[x].Colony = e
        BY DEF ColonyAgreement
      <3>1. CASE Contains(new, m)
        BY <2>6, <3>1 DEF HasBee
      <3>2. CASE ~Contains(new, m) /\ Contains(old, m)
        BY <2>6, <3>2 DEF IsNil, NilColony
      <3>3. CASE ~Contains(new, m) /\ ~Contains(old, m)
        <4> DEFINE e == reg.Bees[m].Colony
        <4>1. reg'.Bees[m].Colony = e /\ HasBee(reg, m) /\ ~IsNil(e)
          BY <2>6, <3>3 DEF HasBee
        <4>2. /\ Contains(e, m)
              /\ e.Leader \notin e.Followers
              /\ \A x \in BeeIDs : Contains(e, x) =>
                   HasBee(reg, x) /\ reg.Bees[x].Colony = e
          BY <4>1 DEF IInv, ColonyAgreement
        <4>3. \A x \in BeeIDs : Contains(e, x) => ~Contains(old, x)
          BY <1>2, <3>3, <4>2
        <4>4. \A x \in BeeIDs : Contains(e, x) => ~Contains(new, x)
          BY <4>1, <4>2, <4>3
        <4> QED
          BY <2>6, <4>1, <4>2, <4>3, <4>4 DEF HasBee
      <3> QED
        BY <3>1, <3>2, <3>3
    <2>12. WholeStep
      <3>1. ASSUME NEW k \in Cell
            PROVE  /\ reg'.CellBees[k].Leader = IF reg.CellBees[k].Leader = old.Leader
                                                THEN new.Leader ELSE reg.CellBees[k].Leader
                   /\ new.Leader = old.Leader \/ reg.CellBees[k].Leader # new.Leader
        <4>1. k \in mine <=> reg.CellBees[k].Leader = old.Leader
          BY <1>1 DEF IInv, CellMapsAgree
        <4>2. k \in reg.BeeCells[new.Leader] <=> reg.CellBees[k].Leader = new.Leader
          BY <1>1 DEF IInv, CellMapsAgree
        <4>3. reg'.CellBees[k] = IF k \in mine THEN new ELSE reg.CellBees[k]
          BY <2>3, <2>4
        <4> QED
          BY <2>2, <4>1, <4>2, <4>3
      <3> QED
        BY <1>1, <3>1 DEF WholeStep, Locked, SameOwner
    <2> QED
      BY <2>7, <2>8, <2>9, <2>10, <2>11, <2>12 DEF IInv
  <1> QED
    BY <1>3, <1>4

\* addFollower: the recruit was in no colony.
LEMMA RecruitFollowerStep ==
  ASSUME IInv, NEW b \in BeeIDs, NEW f \in BeeIDs, NEW t \in Terms,
         RecruitFollower(b, f, t)
  PROVE  IInv' /\ WholeStep
  <1> DEFINE c == reg.Bees[b].Colony
             n == AddFollower(c, f)
  <1>1. /\ c \in Colonies /\ HasBee(reg, b) /\ c.Leader = b /\ b # Nil
        /\ HasBee(reg, f) /\ f # Nil /\ IsNil(reg.Bees[f].Colony)
        /\ ~reg.Bees[f].Detached
        /\ ~IsNil(c)
    BY BeeFacts DEF RecruitFollower, IsLeader, IsRecruit, IsNil
  <1>2. /\ ~Contains(c, f)
        /\ c.Leader \notin c.Followers
        /\ \A m \in BeeIDs : Contains(c, m) =>
             HasBee(reg, m) /\ ~reg.Bees[m].Detached
    BY <1>1 DEF IInv, ColonyAgreement, DetachedAlone
  <1>3. n = [c EXCEPT !.Followers = @ \cup {f}]
    BY <1>1, <1>2 DEF AddFollower
  <1>4. /\ n \in Colonies /\ n.Leader = b
        /\ n.Followers = c.Followers \cup {f}
    BY <1>1, <1>3 DEF Colonies
  <1>5. reg' = updateColony(reg, c, n, t)
    BY DEF RecruitFollower
  <1>6. n.Leader \notin n.Followers
    BY <1>1, <1>2, <1>4 DEF Contains
  <1>7. \A m \in BeeIDs : Contains(n, m) =>
          /\ HasBee(reg, m)
          /\ ~reg.Bees[m].Detached
          /\ Contains(c, m) \/ IsNil(reg.Bees[m].Colony)
    BY <1>1, <1>2, <1>4 DEF Contains, IsFollower
  <1> HIDE DEF c, n
  <1>8. /\ HasBee(reg, c.Leader)
        /\ reg.Bees[c.Leader].Colony.Leader = c.Leader
        /\ reg.Bees[c.Leader].Colony.Followers = c.Followers
    BY <1>1 DEF c
  <1> QED
    BY <1>1, <1>4, <1>5, <1>6, <1>7, <1>8, UpdateColonyStep

\* ProcessStatusChange: leader and follower change places.
LEMMA ElectFollowerStep ==
  ASSUME IInv, NEW b \in BeeIDs, NEW f \in BeeIDs, NEW t \in Terms,
         ElectFollower(b, f, t)
  PROVE  IInv' /\ WholeStep
  <1> DEFINE c == reg.Bees[b].Colony
             n == WithLeader(c, f)
  <1>1. /\ c \in Colonies /\ HasBee(reg, b) /\ c.Leader = b /\ b # Nil
        /\ f \in c.Followers /\ ~IsNil(c)
    BY BeeFacts DEF ElectFollower, IsLeader, IsFollower, IsNil
  <1>2. /\ c.Leader \notin c.Followers
        /\ \A m \in BeeIDs : Contains(c, m) =>
             HasBee(reg, m) /\ ~reg.Bees[m].Detached
    BY <1>1 DEF IInv, ColonyAgreement, DetachedAlone
  <1>3. f # Nil /\ f # b
    BY <1>1, <1>2, BeeFacts DEF Contains, IsFollower
  <1>4. /\ n \in Colonies /\ n.Leader = f
        /\ n.Followers = (c.Followers \cup {b}) \ {f}
    <2>1. ~Contains([c EXCEPT !.Leader = Nil], b)
      BY <1>1, <1>2 DEF Contains, IsFollower, Colonies
    <2> QED
      BY <1>1, <2>1 DEF WithLeader, AddFollower, DelFollower, Colonies
  <1>5. reg' = updateColony(reg, c, n, t)
    BY DEF ElectFollower
  <1>6. n.Leader \notin n.Followers
    BY <1>4
  <1>7. \A m \in BeeIDs : Contains(n, m) =>
          /\ HasBee(reg, m)
          /\ ~reg.Bees[m].Detached
          /\ Contains(c, m) \/ IsNil(reg.Bees[m].Colony)
    BY <1>1, <1>2, <1>4 DEF Contains, IsFollower
  <1> HIDE DEF c, n
  <1>8. /\ HasBee(reg, c.Leader)
        /\ reg.Bees[c.Leader].Colony.Leader = c.Leader
        /\ reg.Bees[c.Leader].Colony.Followers = c.Followers
    BY <1>1 DEF c
  <1> QED
    BY <1>1, <1>4, <1>5, <1>6, <1>7, <1>8, UpdateColonyStep

\* handoffNonPersistent: the recruit takes over a colony of one bee.
LEMMA HandOffStep ==
  ASSUME IInv, NEW b \in BeeIDs, NEW f \in BeeIDs, NEW id \in BeeIDs,
         NEW t \in Terms, HandOff(b, f, id, t)
  PROVE  IInv' /\ WholeStep
  <1> DEFINE c == [reg.Bees[b].Colony EXCEPT !.ID = id]
             n == [c EXCEPT !.Leader = f]
  <1>1. /\ reg.Bees[b].Colony \in Colonies
        /\ HasBee(reg, b) /\ reg.Bees[b].Colony.Leader = b /\ b # Nil
        /\ HasBee(reg, f) /\ f # Nil /\ IsNil(reg.Bees[f].Colony)
        /\ ~reg.Bees[f].Detached
    BY BeeFacts DEF HandOff, IsLeader, IsRecruit
  <1>2. /\ c \in Colonies /\ c.Leader = b
        /\ c.Followers = reg.Bees[b].Colony.Followers
    BY <1>1 DEF Colonies
  <1>3. c.Followers = {} /\ reg' = updateColony(reg, c, n, t)
    BY DEF HandOff
  <1>4. n \in Colonies /\ n.Leader = f /\ n.Followers = {}
    BY <1>2, <1>3 DEF Colonies
  <1>5. \A m \in BeeIDs : Contains(n, m) =>
          /\ HasBee(reg, m)
          /\ ~reg.Bees[m].Detached
          /\ Contains(c, m) \/ IsNil(reg.Bees[m].Colony)
    BY <1>1, <1>4 DEF Contains, IsFollower
  <1> HIDE DEF c, n
  <1> QED
    BY <1>1, <1>2, <1>3, <1>4, <1>5, UpdateColonyStep
-----------------------------------------------------------------------------
LEMMA NextIInv == IInv /\ [Next]_reg => IInv' /\ WholeStep
  <1> SUFFICES ASSUME IInv, [Next]_reg
               PROVE  IInv' /\ WholeStep
    OBVIOUS
  <1> DEFINE Untouched ==
        /\ reg'.Bees = reg.Bees
        /\ reg'.CellBees = reg.CellBees
        /\ reg'.BeeCells = reg.BeeCells
        /\ reg'.BeeID >= reg.BeeID
  <1>n. reg.BeeID \in Nat
    BY DEF IInv, TypeOK, Registries
  <1>r. reg \in Registries /\ TypeOK
    BY DEF IInv, TypeOK
  <1>u. TypeOK' /\ Untouched => IInv' /\ WholeStep
    BY BeesAndCellsUnchanged
  <1>1. CASE NewHiveID
    <2>1. reg.HiveID + 1 \in HiveIDs
      BY <1>1 DEF NewHiveID, IInv, TypeOK, Registries, HiveIDs
    <2>2. \A x \in HiveIDs : [reg EXCEPT !.HiveID = x] \in Registries
      BY Zenon DEF IInv, TypeOK, Registries
    <2>3. TypeOK'
      BY <1>1, <2>1, <2>2 DEF NewHiveID, newHiveID, TypeOK
    <2>4. Untouched
      BY <1>1, <1>n, <1>r DEF NewHiveID, newHiveID, Registries
    <2> QED
      BY <1>u, <2>3, <2>4
  <1>2. CASE AllocateBeeIDs
    <2>1. reg' = [reg EXCEPT !.BeeID = @ + BatchSize]
      BY <1>2 DEF AllocateBeeIDs, allocBeeIDs
    <2>2. reg.BeeID + BatchSize \in Nat /\ reg.BeeID + BatchSize >= reg.BeeID
      BY <1>n, RegistryAssumption
    <2>3. \A x \in Nat : [reg EXCEPT !.BeeID = x] \in Registries
      BY <1>r, Zenon DEF Registries
    <2>4. TypeOK'
      BY <2>1, <2>2, <2>3 DEF TypeOK
    <2>5. Untouched
      BY <1>r, <2>1, <2>2 DEF Registries
    <2> QED
      BY <1>u, <2>4, <2>5
  <1>h. ASSUME NEW f \in [HiveIDs -> Addr \cup {NoAddr}],
               reg' = [reg EXCEPT !.Hives = f]
        PROVE  IInv' /\ WholeStep
    <2>1. TypeOK'
      BY <1>h, <1>r, Zenon DEF TypeOK, Registries
    <2>2. Untouched
      BY <1>h, <1>n, <1>r DEF Registries
    <2> QED
      BY <1>u, <2>1, <2>2
  <1>s. ASSUME reg' = reg
        PROVE  IInv' /\ WholeStep
    BY <1>s, <1>n, <1>r, <1>u DEF TypeOK
  <1>3. ASSUME NEW h \in HiveIDs, NEW a \in Addr, AddHive(h, a)
        PROVE  IInv' /\ WholeStep
    <2>1. CASE reg' = reg
      BY <1>s, <2>1
    <2>2. CASE reg' = [reg EXCEPT !.Hives[h] = a]
      <3>1. [reg.Hives EXCEPT ![h] = a] \in [HiveIDs -> Addr \cup {NoAddr}]
        BY DEF IInv, TypeOK, Registries
      <3> QED
        BY <1>h, <2>2, <3>1
    <2> QED
      BY <1>3, <2>1, <2>2 DEF AddHive, addHive
  <1>4. ASSUME NEW h \in HiveIDs, DelHive(h)
        PROVE  IInv' /\ WholeStep
    <2>1. [reg.Hives EXCEPT ![h] = NoAddr] \in [HiveIDs -> Addr \cup {NoAddr}]
      BY DEF IInv, TypeOK, Registries
    <2> QED
      BY <1>h, <1>4, <2>1 DEF DelHive, delHive
  <1>5. CASE UNCHANGED reg
    BY <1>s, <1>5
  <1>6. \A b \in BeeIDs : HiveOf[b] \in HiveIDs
    BY HiveOfAssumption
  <1> HIDE DEF Untouched
  <1> QED
    BY <1>1, <1>2, <1>3, <1>4, <1>5, <1>6, RegisterBeeStep, RemoveBeeStep,
       LockCellStep, RecruitFollowerStep, ElectFollowerStep, HandOffStep
    DEF Next

\* The registry stays a well-formed value, its two cell maps always say the
\* same, and the owner of every locked cell is registered with the colony the
\* cell names: CellMapsAgree and OwnerRegistered hold for every number of
\* cells, bees and terms.
THEOREM CellOwnership == Spec => [](TypeOK /\ CellMapsAgree /\ OwnerRegistered)
  <1>1. IInv => TypeOK /\ CellMapsAgree /\ OwnerRegistered
    BY DEF IInv
  <1> QED
    BY <1>1, InitIInv, NextIInv, PTL DEF Spec

\* Members of one colony agree on it after every recruit, election and
\* migration the registry accepts.
THEOREM ColoniesAgree == Spec => []ColonyAgreement
  <1>1. IInv => ColonyAgreement
    BY DEF IInv
  <1> QED
    BY <1>1, InitIInv, NextIInv, PTL DEF Spec

\* An identifier is never allocated twice: registered ones stay below the
\* counter.
THEOREM IDsNeverReused == Spec => []IDsAllocated
  <1>1. IInv => IDsAllocated
    BY DEF IInv
  <1> QED
    BY <1>1, InitIInv, NextIInv, PTL DEF Spec

\* A locked cell stays locked, and the cells of a bee go to another all at once
\* and only if that one has none: whatever is recruited, elected or handed off,
\* no request splits the cells of an owner or joins those of two
\* (cellStore.assign and updateColony).
THEOREM CellsStayTogether == Spec => CellsChangeHandsWhole
  <1>1. IInv /\ [Next]_reg => [WholeStep]_reg
    BY NextIInv
  <1> QED
    BY <1>1, InitIInv, NextIInv, PTL DEF Spec, CellsChangeHandsWhole, WholeStep

\* Requests about bees and cells, Fatal included, leave the hives alone.
LEMMA HivesUntouched ==
  ASSUME TypeOK, NEW h \in HiveIDs, NEW b \in BeeIDs, NEW f \in BeeIDs,
         NEW id \in BeeIDs, NEW t \in Terms, NEW S \in SUBSET Cell,
         NEW c \in Colonies, NEW d \in BOOLEAN,
         \/ AllocateBeeIDs
         \/ RegisterBee(b, h, c, d)
         \/ RemoveBee(b)
         \/ LockCell(b, S)
         \/ RecruitFollower(b, f, t)
         \/ ElectFollower(b, f, t)
         \/ HandOff(b, f, id, t)
  PROVE  reg'.Hives = reg.Hives /\ reg'.HiveID = reg.HiveID
  <1>r. reg \in Registries
    BY DEF TypeOK
  <1>u. ASSUME NEW o \in Colonies, NEW n \in Colonies,
               reg' = updateColony(reg, o, n, t)
        PROVE  reg'.Hives = reg.Hives /\ reg'.HiveID = reg.HiveID
    <2>1. /\ setColonies(moveCells(reg, o, n, t), o, n).Hives = reg.Hives
          /\ setColonies(moveCells(reg, o, n, t), o, n).HiveID = reg.HiveID
      BY <1>r DEF Registries, setColonies, moveCells
    <2>2. Fatal(reg).Hives = reg.Hives /\ Fatal(reg).HiveID = reg.HiveID
      BY <1>r DEF Registries, Fatal
    <2> QED
      BY <1>u, <2>1, <2>2 DEF updateColony
  <1>c. reg.Bees[b].Colony \in Colonies
    BY <1>r DEF Registries, BeeInfos
  <1>1. CASE AllocateBeeIDs
    BY <1>1, <1>r DEF AllocateBeeIDs, allocBeeIDs, Registries
  <1>2. CASE RegisterBee(b, h, c, d)
    BY <1>2, <1>r DEF RegisterBee, addBee, Fatal, Registries
  <1>3. CASE RemoveBee(b)
    BY <1>3, <1>r DEF RemoveBee, delBee, Registries
  <1>4. CASE LockCell(b, S)
    BY <1>4, <1>r DEF LockCell, lockCell, assign, Fatal, Registries
  <1>5. CASE RecruitFollower(b, f, t)
    <2>1. AddFollower(reg.Bees[b].Colony, f) \in Colonies
      BY <1>c DEF AddFollower, Colonies
    <2> QED
      BY <1>5, <1>c, <1>u, <2>1 DEF RecruitFollower
  <1>6. CASE ElectFollower(b, f, t)
    <2>1. WithLeader(reg.Bees[b].Colony, f) \in Colonies
      BY <1>c DEF WithLeader, AddFollower, DelFollower, Colonies
    <2> QED
      BY <1>6, <1>c, <1>u, <2>1 DEF ElectFollower
  <1>7. CASE HandOff(b, f, id, t)
    <2>1. [reg.Bees[b].Colony EXCEPT !.ID = id] \in Colonies
      BY <1>c DEF Colonies
    <2>2. [[reg.Bees[b].Colony EXCEPT !.ID = id] EXCEPT !.Leader = f] \in Colonies
      BY <2>1 DEF Colonies
    <2> QED
      BY <1>7, <1>u, <2>1, <2>2 DEF HandOff
  <1> QED
    BY <1>1, <1>2, <1>3, <1>4, <1>5, <1>6, <1>7

\* However hives join, leave and join again at addresses that others have
\* used, no two registered hives share an address, and only identifiers that
\* newHiveID has given out are registered.
THEOREM HivesDistinct == Spec => []HiveAddrsUnique
  <1>1. Init => HiveAddrsUnique
    BY DEF Init, newRegistry, HiveAddrsUnique
  <1>2. TypeOK /\ HiveAddrsUnique /\ [Next]_reg => HiveAddrsUnique'
    <2> SUFFICES ASSUME TypeOK, HiveAddrsUnique, [Next]_reg
                 PROVE  HiveAddrsUnique'
      OBVIOUS
    <2>r. /\ reg \in Registries
          /\ reg.Hives \in [HiveIDs -> Addr \cup {NoAddr}]
          /\ reg.HiveID \in Nat
      BY DEF TypeOK, Registries, HiveIDs
    <2>s. reg'.Hives = reg.Hives /\ reg'.HiveID = reg.HiveID => HiveAddrsUnique'
      BY DEF HiveAddrsUnique
    <2>1. CASE NewHiveID
      <3>1. reg'.Hives = reg.Hives /\ reg'.HiveID = reg.HiveID + 1
        BY <2>1, <2>r DEF NewHiveID, newHiveID, Registries
      <3> QED
        BY <2>r, <3>1 DEF HiveAddrsUnique, HiveIDs
    <2>2. ASSUME NEW h \in HiveIDs, NEW a \in Addr, AddHive(h, a)
          PROVE  HiveAddrsUnique'
      <3>1. CASE \E g \in HiveIDs \ {h} : reg.Hives[g] = a
        BY <2>2, <2>s, <3>1 DEF AddHive, addHive
      <3>2. CASE ~ \E g \in HiveIDs \ {h} : reg.Hives[g] = a
        <4>1. reg' = [reg EXCEPT !.Hives[h] = a] /\ h \in 1..reg.HiveID
          BY <2>2, <3>2 DEF AddHive, addHive
        <4>2. /\ reg'.Hives = [reg.Hives EXCEPT ![h] = a]
              /\ reg'.HiveID = reg.HiveID
          BY <2>r, <4>1 DEF Registries
        <4> QED
          BY <2>r, <3>2, <4>1, <4>2 DEF HiveAddrsUnique
      <3> QED
        BY <3>1, <3>2
    <2>3. ASSUME NEW h \in HiveIDs, DelHive(h)
          PROVE  HiveAddrsUnique'
      <3>1. /\ reg'.Hives = [reg.Hives EXCEPT ![h] = NoAddr]
            /\ reg'.HiveID = reg.HiveID
        BY <2>3, <2>r DEF DelHive, delHive, Registries
      <3> QED
        BY <2>r, <3>1 DEF HiveAddrsUnique
    <2>4. CASE UNCHANGED reg
      BY <2>4, <2>s
    <2>5. \A b \in BeeIDs : DefaultColony(b) \in Colonies /\ NilColony \in Colonies
      BY DEF DefaultColony, NilColony, Colonies, BeeIDs
    <2>6. 0 \in BeeIDs /\ 0 \in HiveIDs /\ 0 \in Terms /\ {} \in SUBSET Cell
      BY DEF BeeIDs, HiveIDs, Terms
    <2>7. CASE AllocateBeeIDs
      BY <2>5, <2>6, <2>7, <2>s, HivesUntouched
    <2>8. ASSUME NEW b \in BeeIDs, NEW d \in BOOLEAN, NEW c \in Colonies,
                 RegisterBee(b, HiveOf[b], c, d)
          PROVE  HiveAddrsUnique'
      <3>1. HiveOf[b] \in HiveIDs
        BY HiveOfAssumption
      <3> QED
        BY <2>6, <2>8, <2>s, <3>1, HivesUntouched
    <2>9. ASSUME NEW b \in BeeIDs, RemoveBee(b)
          PROVE  HiveAddrsUnique'
      BY <2>5, <2>6, <2>9, <2>s, HivesUntouched
    <2>10. ASSUME NEW b \in BeeIDs, NEW S \in SUBSET Cell, LockCell(b, S)
           PROVE  HiveAddrsUnique'
      BY <2>5, <2>6, <2>10, <2>s, HivesUntouched
    <2>11. ASSUME NEW b \in BeeIDs, NEW f \in BeeIDs, NEW id \in BeeIDs, NEW t \in Terms,
                  \/ RecruitFollower(b, f, t)
                  \/ ElectFollower(b, f, t)
                  \/ HandOff(b, f, id, t)
           PROVE  HiveAddrsUnique'
      BY <2>5, <2>6, <2>11, <2>s, HivesUntouched
    <2> QED
      BY <2>1, <2>2, <2>3, <2>4, <2>5, <2>6, <2>7, <2>8, <2>9, <2>10, <2>11 DEF Next
  <1>3. IInv => TypeOK
    BY DEF IInv
  <1> QED
    BY <1>1, <1>2, <1>3, InitIInv, NextIInv, PTL DEF Spec
=============================================================================
