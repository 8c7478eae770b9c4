CONSTANTS
  Bufs = {1, 2}
  Blocks <- TheBlocks
  Inline = 1
  Writes <- TheWrites
  Lengths = {1}
  MaxSize = 3
  Links <- TheLinks
  MaxPayload = 2
  PipeBuf = 3
  Capacity = 3
  MaxFrames = 2
  Objects = {1, 2, 3}
  Descriptors = {1, 2, 3, 4}
  Callers = {c1, c2}
  ServiceNames = {"s"}
  MaxRequests = 2
  MaxConnections = 3
  MaxRestarts = 1
  Clients = {c1, c2}
  FileNames = {"f"}
  LocalContents <- TheContents
  Earlier <- TheEarlier
  ChunkSize = 1
  StreamChunk = 1
  SumPiece = 1
  MaxUploads = 3
  MaxFiles = 2
SPECIFICATION MCSpec
INVARIANTS
  MessagesDecode
  HandshakeAgrees
  BlocksOwned
  DeliveredInOrder
  OnlyAuthentic
  FdsOwned
  AnswersOwn
  PassedWasThere
  LoneUploadPasses
PROPERTIES
  Implements
CHECK_DEADLOCK FALSE
SYMMETRY Symmetry
