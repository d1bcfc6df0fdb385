SPECIFICATION Spec
CONSTANTS
  m1 = m1
  m2 = m2
  Manager = {}
  Job = auto
  Suggestion = {1}
  Override = {2}
  Overlap = FALSE
  MaxDay = 2
  MaxRequest = 2
  MaxLine = 2
  None = None
INVARIANT
  RetriedUnderOneGuid
CHECK_DEADLOCK FALSE
