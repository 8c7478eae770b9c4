CONSTANTS
  Apis = {"call", "stream", "oneway"}
  Methods = {"unary", "stream"}
  Properties = {p}
  Setters = {s1, s2}
  Pipe = FALSE
  SeqSpace = 8
  NoProperty = NoProperty
  Faults = {"crash", "timeout", "handler"}
  MaxRequests = 2
  MaxChunks = 1
  MaxChanges = 2
  MaxQueue = 1
SPECIFICATION Spec
INVARIANTS TypeOK OwnReply StaysInSync UpToDate
PROPERTY ChannelSpec
SYMMETRY Symmetry
CONSTRAINT FewChanges
CHECK_DEADLOCK FALSE
