CONSTANTS
  Transports = {t1,t2}
  Writers = {t1}
  CrossClient = FALSE
  Throws = FALSE
  MaxObjects = 1
  MaxValue = 2
  MaxRefs = 2
  MaxAccepts = 3
SPECIFICATION Spec
INVARIANTS SubscribersOpen LastValueSeen
CHECK_DEADLOCK FALSE
