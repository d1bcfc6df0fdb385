SPECIFICATION Spec
CONSTANTS
  User = {u1, u2, u3}
  Role = {"ADMIN", "STORE_MANAGER"}
  Request = {r1, r2}
  None = None
SYMMETRY MCSymmetry
INVARIANTS
  TypeOK
  AdminRemains
PROPERTY
  HistoryForgottenConfirmed
\* Where overlapping requests have left no administrator, and nobody active,
\* the system really stops.
CHECK_DEADLOCK FALSE
