SPECIFICATION Spec
CONSTANTS
  Calls = {a, b}
  Keepalives = {k}
  MaxIncoming = 1
  IdSpace = 4
  InitialRequestId = 3
  None = None
INVARIANT CutOffMeansEnded
CHECK_DEADLOCK FALSE
