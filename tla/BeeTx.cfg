CONSTANTS
  Dict = {d1, d2}
  Key = {k1}
  Val = {v1}
  None = None
  Deleted = Deleted
  Apps <- Mixed
  MaxEmit = 2
SPECIFICATION Spec
INVARIANT SentInOrder
PROPERTY ImplementsTransactions
