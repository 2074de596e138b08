CONSTANTS
  Threads = {t1, t2, t3}
  Names = {n1, n2}
  Sems = {s1, s2}
  Vnodes = {v1, v2}
  None = none
SPECIFICATION Spec
INVARIANTS NoPanic
