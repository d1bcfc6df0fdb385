SPECIFICATION FairSpec
CONSTANTS
  Request = {r1, r2}
  Hours = 2
  Default = 1
  None = None
INVARIANTS
  TypeOK
  JobMatchesSettings
PROPERTIES
  SavedAsAsked
  SweptDaily
