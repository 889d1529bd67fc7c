SPECIFICATION Spec
CONSTANTS
  Sockets = {s1, s2, s3}
  Orders = {o1, o2}
  Missing = {o2}
  NoOrder = none
  Ips = {ip1, ip2}
  NoIp = noip
  Limit = 1
  MaxOpening = 2
  Scenarios <- SessionScenarios
SYMMETRY SessionSymmetry
CHECK_DEADLOCK FALSE
INVARIANTS
  TypeOK
  CounterExact
  CounterAges
  ChannelKept
  NoIdleChannel
  NothingLeft
PROPERTIES
  CoverLostByExpiry
  LimitOvershoot
