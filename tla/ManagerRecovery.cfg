CONSTANTS
  Services = {s}
  Executables = {e1}
  Working = {e1}
  Flaky = {}
  Objects = {1,2,3,4}
  Pids = {1,2,3}
  Callers = {c1}
  Checkers = {m1}
  Limits = {2}
  DefaultLimit = 2
  PidReuse = FALSE
  CallbackThrows = FALSE
  MaxCount = 2
  MaxBorrowed = 1
  NoObject = NoObject
  NoPid = NoPid
  NoExecutable = NoExecutable
  NoService = NoService
SPECIFICATION FairSpec
PROPERTY CrashRecovered
CHECK_DEADLOCK FALSE
