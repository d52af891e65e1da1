--------------------------- MODULE RegistryState ----------------------------
(***************************************************************************)
(* The registry of registry.go with the cell store of cell.go: the state   *)
(* machine that the hives replicate with Raft.  It allocates identifiers,  *)
(* records bees and their colonies, and decides which colony owns a cell.  *)
(*                                                                         *)
(* A Go map that lacks an entry answers with the zero value, so every map  *)
(* is a total function whose zero value stands for "no entry".  A request  *)
(* is an operator from a registry to the registry after it, so that a      *)
(* batch is the composition of its requests; a request that returns an     *)
(* error leaves the registry as it was.  glog.Fatal, and the panic of a    *)
(* write to a nil map, end the process of every hive that applies the      *)
(* request: the registry is then dead.                                     *)
(*                                                                         *)
(* One application is modelled: the outer level of the cell store's maps   *)
(* only separates applications, and a cell is an atomic value.             *)
(***************************************************************************)
EXTENDS Colony, FiniteSets

CONSTANTS
  Cell,       \* the cells of the application
  Addr,       \* the addresses hives listen on
  NoAddr,     \* stands for "no such hive" in Hives
  MaxHiveID,  \* bound: hive identifiers are 1..MaxHiveID
  MaxTerm,    \* bound: the Raft terms of a colony are 0..MaxTerm
  BatchSize   \* identifiers allocated by one request (HiveConfig.BatchSize)

ASSUME RegistryAssumption ==
  /\ NoAddr \notin Addr
  /\ MaxHiveID \in Nat \ {0}
  /\ MaxTerm \in Nat
  /\ BatchSize \in Nat \ {0}

HiveIDs == 0..MaxHiveID
Terms == 0..MaxTerm

BeeInfos ==
  [ID : BeeIDs, Hive : HiveIDs, Colony : Colonies, Detached : BOOLEAN]

NoBee == [ID |-> Nil, Hive |-> Nil, Colony |-> NilColony, Detached |-> FALSE]

Registries ==
  [HiveID   : HiveIDs,
   BeeID    : Nat,
   Hives    : [HiveIDs -> Addr \cup {NoAddr}],
   Bees     : [BeeIDs -> BeeInfos],
   Terms    : [BeeIDs -> Terms],          \* cellStore.Colonies
   CellBees : [Cell -> Colonies],
   BeeCells : [BeeIDs -> SUBSET Cell],
   NilMaps  : SUBSET BeeIDs,              \* bees whose BeeCells map is nil
   dead     : BOOLEAN]

hiveGroup == 1

newRegistry ==
  [HiveID   |-> 1,
   BeeID    |-> hiveGroup + 1,
   Hives    |-> [h \in HiveIDs |-> NoAddr],
   Bees     |-> [b \in BeeIDs |-> NoBee],
   Terms    |-> [b \in BeeIDs |-> 0],
   CellBees |-> [k \in Cell |-> NilColony],
   BeeCells |-> [b \in BeeIDs |-> {}],
   NilMaps  |-> {},
   dead     |-> FALSE]

Fatal(r) == [r EXCEPT !.dead = TRUE]

HasBee(r, b) == r.Bees[b].ID # Nil

Locked(r, k) == r.CellBees[k].Leader # Nil
-----------------------------------------------------------------------------
(* Hives and identifiers *)

newHiveID(r) == [r EXCEPT !.HiveID = @ + 1]

allocBeeIDs(r, n) == IF n = 0 THEN r ELSE [r EXCEPT !.BeeID = @ + n]

\* Mutant of addHive: the address is not looked for.
addHiveUnchecked(r, h, a) == [r EXCEPT !.Hives[h] = a]

addHive(r, h, a) ==
  IF \E g \in HiveIDs \ {h} : r.Hives[g] = a
  THEN r
  ELSE [r EXCEPT !.Hives[h] = a]

delHive(r, h) == [r EXCEPT !.Hives[h] = NoAddr]
-----------------------------------------------------------------------------
(* Bees *)

duplicateBee(r, info) == HasBee(r, info.ID) /\ r.Bees[info.ID] # info

addBee(r, info) ==
  CASE info.ID = Nil                            -> Fatal(r)
    [] info.ID # Nil /\ duplicateBee(r, info)   -> r
    [] info.ID # Nil /\ ~duplicateBee(r, info) ->
         IF r.BeeID < info.ID THEN Fatal(r)
         ELSE [r EXCEPT !.Bees[info.ID] = info]

delBee(r, b) == [r EXCEPT !.Bees[b] = NoBee]
-----------------------------------------------------------------------------
(* Cells *)

\* cellStore.assign, for every cell of S: both maps, in this order.
assign(r, S, c) ==
  IF S # {} /\ c.Leader \in r.NilMaps
  THEN Fatal(r)
  ELSE [r EXCEPT !.CellBees = [k \in Cell |-> IF k \in S THEN c ELSE @[k]],
                 !.BeeCells[c.Leader] = @ \cup S]

\* The colony that lockCell settles on: that of the cells that are locked
\* already, or else the one of the request.
lockWinner(r, c, S) ==
  IF \E k \in S : Locked(r, k)
  THEN r.CellBees[CHOOSE k \in S : Locked(r, k)]
  ELSE c

lockConflict(r, S) ==
  \E j, k \in S : Locked(r, j) /\ Locked(r, k) /\ r.CellBees[j] # r.CellBees[k]

\* Mutant of lockCell: cells that are locked already are assigned anew.
lockCellAnew(r, c, S) == IF c.Leader = Nil THEN r ELSE assign(r, S, c)

lockCell(r, c, S) ==
  CASE c.Leader = Nil                            -> r
    [] c.Leader # Nil /\ lockConflict(r, S)      -> Fatal(r)
    [] c.Leader # Nil /\ ~lockConflict(r, S)     ->
         assign(r, {k \in S : ~Locked(r, k)}, lockWinner(r, c, S))

\* Mutant of moveCells: the cells also stay listed under the old leader.
moveCellsCopied(r, old, new, term) ==
  LET mine == r.BeeCells[old.Leader]
  IN  [r EXCEPT
        !.Terms[new.ID] = term,
        !.CellBees = [k \in Cell |-> IF k \in mine THEN new ELSE @[k]],
        !.BeeCells[new.Leader] = mine]

\* cellStore.updateColony once the term is accepted: the cells of the old
\* leader go to the new one and name the new colony.
moveCells(r, old, new, term) ==
  LET mine == r.BeeCells[old.Leader]
      named == [r EXCEPT
        !.Terms[new.ID] = term,
        !.CellBees = [k \in Cell |-> IF k \in mine THEN new ELSE @[k]]]
  IN  IF old.Leader = new.Leader
      THEN named
      ELSE [named EXCEPT
        !.BeeCells = [@ EXCEPT ![new.Leader] = mine, ![old.Leader] = {}],
        !.NilMaps = IF mine = {} THEN (@ \ {old.Leader}) \cup {new.Leader}
                    ELSE @ \ {old.Leader, new.Leader}]

\* Mutant of setColonies: only the new leader learns of the new colony.
setColoniesOfLeader(r, old, new) ==
  [r EXCEPT !.Bees[new.Leader].Colony = new]

\* The bees whose entry updateColony rewrites: members of either colony.
setColonies(r, old, new) ==
  [r EXCEPT !.Bees =
    [b \in BeeIDs |->
      IF Contains(new, b) THEN [@[b] EXCEPT !.Colony = new]
      ELSE IF Contains(old, b) THEN [@[b] EXCEPT !.Colony = NilColony]
      ELSE @[b]]]

updateColony(r, old, new, term) ==
  IF IsNil(new) \/ IsNil(old)
  THEN r
  ELSE IF ~HasBee(r, new.Leader)
  THEN Fatal(r)
  ELSE IF term < r.Terms[new.ID]
  THEN r
  ELSE IF \E b \in BeeIDs : (Contains(old, b) \/ Contains(new, b)) /\ ~HasBee(r, b)
  THEN Fatal(r)
  ELSE setColonies(moveCells(r, old, new, term), old, new)
=============================================================================
