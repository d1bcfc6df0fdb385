SPECIFICATION FairSpec
CONSTANTS
  Session = {s1, s2}
  Item = {i1, i2}
  Quantity = {0, 1}
  Target = {2}
  ReceiptKey = {k1}
  RowLocks = TRUE
  MaxLedger = 2
  None = None
INVARIANTS
  TypeOK
  KeysUnique
  AcknowledgedIsCommitted
PROPERTIES
  UndoGivesBack
  KeepsReceiptPromise
  EveryRequestAnswered
\* The requests stop when the ledger is full: a bound of the instance.
CHECK_DEADLOCK FALSE
