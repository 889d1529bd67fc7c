SPECIFICATION Spec
CONSTANTS
  Requests = {r1, r2, r3}
  NoOrder = none
  Keys = {k1, k2}
  NoKey = nokey
  Bodies = {b1, b2, bad, huge, void}
  NoBody = nobody
  Invalid = {bad, void}
  Missing = {void}
  Unstorable = {huge}
  Threshold = 0
  MaxInFlight = 2
  Scenarios <- SubmissionScenarios
SYMMETRY RequestSymmetry
CHECK_DEADLOCK FALSE
INVARIANTS
  TypeOK
  AnswerIsBacked
  ConflictIsReal
  RefusalCreatesNothing
  OneJobPerKey
  QueueOvershoot
  NoOrphanRow
