CONSTANTS
  Projects <- TheProjects
  Parsed <- Parse
  MaxText = 4
  MaxDigits = 2
  MaxHexDigits = 1
  HasReq = {"freq", "Freq"}
  HasResp = {"Corresp"}
SPECIFICATION MCSpec
INVARIANTS
  LexemesTile
  ParserExact
  ResolverExact
  CallsReachOwn
  HeaderCompiles
  PythonAgrees
  OkMeansCurrent
  FollowedReport
PROPERTY
  KeepsImplementation
CHECK_DEADLOCK FALSE
