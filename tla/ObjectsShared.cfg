CONSTANTS
  Transports = {t1,t2}
  Writers = {t1}
  CrossClient = TRUE
  Throws = TRUE
  MaxObjects = 1
  MaxValue = 1
  MaxRefs = 2
  MaxAccepts = 2
SPECIFICATION FairSpec
INVARIANTS TypeOK RefsCounted OwnPointersLive
PROPERTIES CleanedUp NoReuse
CHECK_DEADLOCK FALSE
