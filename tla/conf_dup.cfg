CHECK_DEADLOCK FALSE
SPECIFICATION ConfSpec
CONSTANTS
  MaxLines = 0
  MaxPieces = 0
  MaxName = 0
  Files <- SpreadFiles
  Chars <- MCChars
  Hash <- SpreadHash
  W = 256
INVARIANTS
  DuplicatesDropped
