SPECIFICATION Spec
CONSTANTS
  Dex = {raydium}
  Orders = {o1, o2}
  Oversized = {o2}
  NoOrder = none
  Processes = {api}
  Api = api
  Concurrency = 1
  MaxRetries = 2
  MaxStalledCount = 1
  Scenarios <- SettleScenarios
CHECK_DEADLOCK FALSE
PROPERTIES
  JobSettles
  OrderSettles
