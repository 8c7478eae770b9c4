CONSTANTS
  Callers = {c1, c2}
  ServiceNames = {n1}
  MaxRequests = 1
  MaxConnections = 2
  MaxRestarts = 0
SPECIFICATION FairSpec
PROPERTY GoneClientLeft
CHECK_DEADLOCK FALSE
