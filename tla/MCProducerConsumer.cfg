SPECIFICATION Spec
CONSTANTS
  Producers = {p1, p2}
  Consumers = {c1, c2}
  Main = main
  Nobody = nobody
  BufferSize = 2
  ItemsToProduce = 2
INVARIANTS
  RingExact
  CleanStop
PROPERTIES
  ImplementsFifo
  Terminates
