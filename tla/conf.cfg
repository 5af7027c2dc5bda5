CHECK_DEADLOCK FALSE
SPECIFICATION ConfSpec
CONSTANTS
  MaxLines = 3
  MaxPieces = 4
  MaxName = 4
  Files <- MCFiles
  Chars <- MCChars
  Hash <- MCHash
  W = 16
INVARIANTS
  ConfTypeOK
  DuplicatesDropped
  FirstOneWins
  NoneLost
  OrderOfFile
  ZonesResolved
  NamesReadBack
