CONSTANTS
  Users = {u1, u2}
  kproc = kproc
  Nobody = nobody
  PROCS_MAX = 3
  PID_MAX = 5
  Statuses = {s1, s2}
  NoStatus = nostatus
SPECIFICATION Spec
INVARIANTS LoopEnds PidIsOwn NothingKeptForNobody ForkNamesAChild WaiterSeesExit
PROPERTIES ImplementsFamily WaitReturns
