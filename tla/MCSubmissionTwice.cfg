SPECIFICATION Spec
CONSTANTS
  m1 = m1
  m2 = m2
  Manager = {m1, m2}
  Job = auto
  Suggestion = {1}
  Override = {2}
  Overlap = TRUE
  MaxDay = 1
  MaxRequest = 1
  MaxLine = 1
  None = None
SYMMETRY MCSymmetry
INVARIANT
  OneOrderPerRequest
CHECK_DEADLOCK FALSE
