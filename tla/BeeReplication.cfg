CONSTANTS
  Bee = {b1, b2}
  First = b1
  Msg = {m1, m2}
  SnapCount = 9
  MaxTerm = 1
  MaxTimeout = 1
  MaxCrash = 1
SYMMETRY Symmetry
SPECIFICATION Spec
INVARIANTS ReplicasAgree AckedDurable EmitsOnce OnlyReplicated
CHECK_DEADLOCK FALSE
