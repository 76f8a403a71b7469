\* Three children and an array with an element left over; statuses beyond 8
\* bits; an output that holds one chunk; a register of 8 bits; two processes
\* and another name in /proc, files of three lines; lines of two blocks of two
\* pixels; two names and a hidden one, any one file changed by others; three
\* connectors; two files of up to three bytes; strings of two characters across
\* a multiple of the page; two objects; words of three bits.
CONSTANTS
  ArrLen = 7
  ProcessCount = 3
  LineLen = 2
  StdoutSize = 3
  Programs = {prog}
  Statuses = {0, 1, 3, 256}
  ChunkSize = 2
  OutSize = 2
  MaxInput = 3
  Half = 128
  Entries = {p1, p2, self}
  Pids = {p1, p2}
  Paths = {1, 2, 3}
  OwnPath = 2
  MaxLines = 3
  Byte = 4
  Block = 2
  MaxLen = 4
  MaxAdded = 5
  Names = {a, b, h}
  Hidden = {h}
  Sizes = {1, 2, 3}
  MaxSz = 2
  MaxChanges = 1
  MaxConnectors = 3
  Files = 2
  MaxSize = 3
  BufferSize = 2
  Page = 3
  Letter = {1}
  Symbol = {1, 2}
  Capacity = 2
  Word = 8
  MaxCalls = 3
  SumHalf = 4
SPECIFICATION MCSpec
INVARIANTS
  DoubledOnce OutputIsInherited SuccessIsReported CopiesStdin TornInsideACopy
  FiguresAreSummed LibrariesAreListed OverflowIsExact SseIsNaive RemovesTheBig
  UsesWhatItHolds PrintsFilesInTurn ScanIsExact ObjectsKeepTheirState
  SumIsExact
\* Most of the programs end.
CHECK_DEADLOCK FALSE
