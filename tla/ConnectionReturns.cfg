CONSTANTS
  Apis = {"call", "stream", "oneway"}
  Methods = {"unary", "stream"}
  Properties = {p}
  Setters = {}
  Pipe = TRUE
  SeqSpace = 8
  NoProperty = NoProperty
  Faults = {"crash", "timeout", "handler", "throw after end", "move", "blocking poll"}
  MaxRequests = 2
  MaxChunks = 2
  MaxChanges = 1
  MaxQueue = 1
SPECIFICATION FairSpec
INVARIANT StreamWhole
PROPERTY CallReturns
CHECK_DEADLOCK FALSE
