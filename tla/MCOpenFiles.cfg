CONSTANTS
  Procs = {p1, p2}
  Opens = {o1, o2}
  Files = {file}
  OPEN_MAX = 2
  Lengths = {1}
  MaxSize = 1
  NULL = null
  Zero = zero
SYMMETRY Interchangeable
SPECIFICATION Spec
INVARIANTS RefcountExact NotFreedInUse LockGivenBack
PROPERTIES AtomicCalls
