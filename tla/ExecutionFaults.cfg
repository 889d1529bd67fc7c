SPECIFICATION Spec
CONSTANTS
  Dex = {raydium, meteora}
  Orders = {o1}
  Oversized = {}
  NoOrder = none
  Processes = {api, worker}
  Api = api
  Concurrency = 1
  MaxRetries = 2
  MaxStalledCount = 1
  Scenarios <- FaultScenarios
SYMMETRY DexSymmetry
CHECK_DEADLOCK FALSE
INVARIANTS
  TypeOK
  IInv
  JobHasRow
  SwapBudget
  ConfirmedTrade
  CompletedConfirmed
  NoPrematureNews
  FailedMeansExhausted
  SoleProcessor
PROPERTIES
  FailedIsFinal
  ImplementsLifecycle
