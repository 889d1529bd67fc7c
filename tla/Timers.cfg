SPECIFICATION Spec
CONSTANTS
  RateLimit = 2
  Window = 3
  MaxStored = 4
  RedisFails = TRUE
  PingInterval = 2
  PongTimeouts = {1, 2, 3, 5}
INVARIANTS
  TypeOK
  WindowLimit
  AnsweringKept
  SilentDropped
PROPERTIES
  RefusalsEarned
