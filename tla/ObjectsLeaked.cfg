CONSTANTS
  Transports = {t1,t2}
  Writers = {t1}
  CrossClient = FALSE
  Throws = TRUE
  MaxObjects = 1
  MaxValue = 1
  MaxRefs = 2
  MaxAccepts = 2
SPECIFICATION Spec
INVARIANT CreatorScoped
CHECK_DEADLOCK FALSE
