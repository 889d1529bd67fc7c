SPECIFICATION Spec
CONSTANTS
  Sockets = {s1, s2}
  Orders = {o1}
  Missing = {}
  NoOrder = none
  Ips = {ip1}
  NoIp = noip
  Limit = 1
  MaxOpening = 1
  Scenarios <- NoFault
CHECK_DEADLOCK FALSE
INVARIANT
  EndReachesClient
