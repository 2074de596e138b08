CONSTANTS
  Procs = {p1, p2}
  Infos = {x1, x2}
  NSlots = 2
  OPEN_MAX = 1
  Files = {f1, f2}
  Lengths = {1}
  MaxSize = 1
  NULL = null
  Zero = zero
SPECIFICATION OftSpec
INVARIANTS BufferKept
\* The kernel may panic.
CHECK_DEADLOCK FALSE
