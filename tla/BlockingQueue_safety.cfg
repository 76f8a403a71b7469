\* Two producers and two consumers share three cells, so that the heap runs
\* out and cells are reused while stale pointers to them remain.
CONSTANTS
  Producers = {p1, p2}
  Consumers = {c1, c2}
  Node = {n1, n2, n3}
  Data = {d1, d2}
  NULL = NULL
SPECIFICATION Spec
SYMMETRY CellAndThreadSymmetry
INVARIANTS TypeOK MemorySafe IInv NoLostWakeup
PROPERTY ImplementsFifo
\* No CHECK_DEADLOCK FALSE: a producer can always call bq_push again.
