\* Raft groups of three nodes; Limit gives the instances.
SPECIFICATION Spec
CONSTANTS
  n1 = n1
  n2 = n2
  n3 = n3
  Node = {n1, n2, n3}
  First = n1
  None = None
  Limit <- Limits
\* Elections, proposals and restarts are bounded.
CHECK_DEADLOCK FALSE
INVARIANTS NoPanic  LogMatching StableOnDisk
PROPERTY ImplementsLog
