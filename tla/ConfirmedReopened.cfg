SPECIFICATION Spec
CONSTANTS
  Dex = {raydium}
  Orders = {o1}
  Oversized = {}
  NoOrder = none
  Processes = {api, worker}
  Api = api
  Concurrency = 1
  MaxRetries = 2
  MaxStalledCount = 1
  Scenarios <- RedisOnly
CHECK_DEADLOCK FALSE
PROPERTY
  ConfirmedIsFinal
