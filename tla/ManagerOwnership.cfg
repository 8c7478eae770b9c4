CONSTANTS
  Services = {s}
  Executables = {e1}
  Working = {e1}
  Flaky = {e1}
  Objects = {1, 2, 3}
  Pids = {1, 2, 3}
  Callers = {c1,c2}
  Checkers = {m1,m2}
  Limits = {0}
  DefaultLimit = 0
  PidReuse = TRUE
  CallbackThrows = TRUE
  MaxCount = 1
  MaxBorrowed = 0
  NoObject = NoObject
  NoPid = NoPid
  NoExecutable = NoExecutable
  NoService = NoService
SPECIFICATION Spec
SYMMETRY Symmetry
ACTION_CONSTRAINT LeastFree
INVARIANTS TypeOK OneOwner NoOrphan NothingOutlives StopHolds RespawnBudget
CHECK_DEADLOCK FALSE
