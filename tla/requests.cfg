CHECK_DEADLOCK FALSE
SPECIFICATION Spec
CONSTANTS
  Files <- MCFiles
  Chars <- MCChars
  Hash <- MCHash
  W = 16
  Conns = {n1, n2}
  Requests <- MCRequests
  Keys <- MCKeys
  server_name <- MCName
  Options <- MCOptions
  Restored <- MCRestored
  Ranges <- MCRanges
  Upstreams <- MCUpstreams
  MaxRequests = 3
  MaxCommands = 1
SYMMETRY ConnSymmetry
INVARIANTS
  TypeOK
  CountsOwed
  LimitOvershoot
  ShownOnce
  StatusAgrees
  RoomForPage
