SPECIFICATION SemSpec
CONSTANTS
  Users = {t1, t2, t3, t4}
  InitialCount = 1
  MaxCount = 4
INVARIANTS
  NoLostWakeup
PROPERTIES
  ImplementsSemaphore
