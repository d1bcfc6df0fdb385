SPECIFICATION Spec
CONSTANTS
  m1 = m1
  m2 = m2
  Manager = {m1}
  Job = auto
  Suggestion = {0, 1}
  Override = {2}
  Overlap = FALSE
  MaxDay = 2
  MaxRequest = 2
  MaxLine = 2
  None = None
INVARIANTS
  TypeOK
  OrdersAreKnown
  SubmittedIsOrdered
\* Nothing is left to do once the last day's request is submitted or cancelled.
CHECK_DEADLOCK FALSE
