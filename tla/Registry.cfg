CONSTANTS
  Cell = {k1, k2}
  Addr = {a1}
  NoAddr = NoAddr
  MaxBeeID = 4
  MaxHiveID = 2
  MaxTerm = 1
  BatchSize = 1
  HiveOf <- hiveOf
SPECIFICATION Spec
INVARIANTS    HiveAddrsUnique
 
SYMMETRY Symmetry
CHECK_DEADLOCK FALSE
