SPECIFICATION Spec
CONSTANTS
  Request = {r1}
  Hours = 2
  Default = 1
  None = None
PROPERTY
  RestartStillRuns
