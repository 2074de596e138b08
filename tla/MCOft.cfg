CONSTANTS
  Procs = {p1}
  Infos = {x1, x2, x3}
  NSlots = 3
  OPEN_MAX = 2
  Files = {f1}
  Lengths = {1}
  MaxSize = 1
  NULL = null
  Zero = zero
SYMMETRY Interchangeable
SPECIFICATION OftSpec
INVARIANTS CountsDescriptors
 
\* The kernel may panic.
CHECK_DEADLOCK FALSE
