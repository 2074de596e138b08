CONSTANTS
  NumCpus = 2
  Threads = {t1, t2, t3, t4, t5}
  None = none
SYMMETRY Symmetry
SPECIFICATION Spec
INVARIANTS OwnStack OnePlace NoLostUnidle
PROPERTIES HeadIsNext
