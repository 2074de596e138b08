CONSTANTS
  Threads = {t1, t2, t3}
  Locks = {l1, l2, l3}
  NoThread = nothread
  NoLock = nolock
SPECIFICATION Spec
INVARIANTS NoSilentDeadlock ReportIsTrue OnlyDeadlock
PROPERTIES CheckEnds
