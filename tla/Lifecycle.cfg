SPECIFICATION Spec
CONSTANTS
  Signals = {SIGTERM, SIGINT}
  Concurrency = 2
  MaxRequests = 2
  Scenarios <- LifecycleScenarios
CHECK_DEADLOCK FALSE
INVARIANTS
  TypeOK
  NothingBroken
  CleanExit
PROPERTIES
  ShutdownEnds
