\* Two requests, the second between printf and to_print = 0.
CONSTANTS
  MaxSends = 2
  Wrap = 3
SPECIFICATION FairSpec
PROPERTY EveryRequestIsPrinted
\* A signal that comes before its handler ends the process.
CHECK_DEADLOCK FALSE
