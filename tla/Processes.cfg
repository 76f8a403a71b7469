\* timer: four signals among the alarms, at every point of main and the
\* handlers.  parallel_sum: two blocks of two elements; a thread may be
\* missing, the memory of ti may hold a 5, and sums wrap.  rotatelog: two
\* rotations and more, any call may fail, and the closed FILE is anything.
\* signalfd: up to four signals.
CONSTANTS
  MaxSends = 4
  Wrap = 3
  ArrLen = 4
  ThreadCount = 2
  Value = {1, 3}
  Garbage = {0, 5}
  Word = 8
  CreateFails = TRUE
  Output = 8
  ReadBuf = 2
  MaxFile = 3
  PipeSize = 3
  Closed = {"reused", "error", "crash"}
  Failures = {"fork", "exec", "signal", "fopen", "read", "fwrite", "fclose",
              "rename", "waitpid"}
  MaxKills = 4
SPECIFICATION MCSpec
INVARIANTS
  CounterIsExact BlocksAreDisjoint PrintsWhatWasSummed OutputIsKept
  FilesAreBounded
PROPERTIES RequestIsPrinted Finishes LogsUnlessACallFails SignalIsWorkedOn
\* The programs can end.
CHECK_DEADLOCK FALSE
