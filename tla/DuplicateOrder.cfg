SPECIFICATION Spec
CONSTANTS
  Requests = {r1, r2}
  NoOrder = none
  Keys = {k}
  NoKey = nokey
  Bodies = {b1}
  NoBody = nobody
  Invalid = {}
  Missing = {}
  Unstorable = {}
  Threshold = 0
  MaxInFlight = 2
  Scenarios <- OverlapOnly
CHECK_DEADLOCK FALSE
INVARIANT
  SameKeyNoNewJob
