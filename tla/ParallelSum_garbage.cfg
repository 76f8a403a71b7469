\* Every thread is created; the memory of ti may hold a 5.
CONSTANTS
  ArrLen = 2
  ThreadCount = 2
  Value = {1}
  Garbage = {0, 5}
  Word = 8
  CreateFails = FALSE
SPECIFICATION Spec
INVARIANT PrintsTheTotal
\* The program ends.
CHECK_DEADLOCK FALSE
