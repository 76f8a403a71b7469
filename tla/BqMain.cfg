\* Two cells: the second push can find the heap full while the consumer
\* still holds the first cell.
CONSTANTS
  Producer = p
  Consumer = c
  Node = {n1, n2}
  Data = {d1, d2}
  NULL = NULL
SPECIFICATION FairSpec
INVARIANT QueueOutlivesThreads
PROPERTIES ShutdownTerminates HeadIsPrinted
\* The program ends.
CHECK_DEADLOCK FALSE
