\* No call fails; the closed FILE may be anything.
CONSTANTS
  Output = 8
  ReadBuf = 2
  MaxFile = 3
  PipeSize = 3
  Closed = {"reused", "error", "crash"}
  Failures = {}
SPECIFICATION FairSpec
PROPERTY EverythingIsLogged
\* The program ends.
CHECK_DEADLOCK FALSE
