SPECIFICATION Spec
CONSTANTS
  s1 = s1
  s2 = s2
  p1 = p1
  p2 = p2
  t1 = t1
  t2 = t2
  t3 = t3
  Store = {s1, s2}
  Product = {p1, p2}
  User = {u1}
  Admin = {a1, a2}
  Tag = {t1, t2, t3}
  TagOf <- MCTagOf
  SeedPlace <- MCSeedPlace
  Start <- MCStart
  MaxCommits = 2
  None = None
SYMMETRY MCSymmetry
INVARIANT
  TypeOK
PROPERTIES
  HistoryGoesConfirmed
  UndisturbedSucceeds
  AssignmentComplete
\* The bound on the commits ends every behaviour.
CHECK_DEADLOCK FALSE
