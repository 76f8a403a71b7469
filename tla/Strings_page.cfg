\* Strings of two characters in a buffer that begins anywhere.
CONSTANTS
  Page = 3
  Letter = {1}
  Symbol = {1, 2}
SPECIFICATION Spec
INVARIANT FindsTheSymbol
\* The programs end.
CHECK_DEADLOCK FALSE
