SPECIFICATION Spec
CONSTANTS
  Thread = {t1, t2, t3, t4}
  Nobody = Nobody
INVARIANTS
  MutualExclusion
  ChannelsExact
  LockNotForgotten
PROPERTIES
  ImplementsMonitor
CHECK_DEADLOCK FALSE
