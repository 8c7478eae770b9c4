CONSTANTS
  Services = {s}
  Executables = {e1}
  Working = {e1}
  Flaky = {e1}
  Objects = {1,2}
  Pids = {1,2}
  Callers = {}
  Checkers = {m1}
  Limits = {2}
  DefaultLimit = 0
  PidReuse = FALSE
  CallbackThrows = FALSE
  MaxCount = 2
  MaxBorrowed = 0
  NoObject = NoObject
  NoPid = NoPid
  NoExecutable = NoExecutable
  NoService = NoService
SPECIFICATION Spec
PROPERTY GivesUpOnlyAtLimit
CHECK_DEADLOCK FALSE
