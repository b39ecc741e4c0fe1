\* Two histories, a move there and back, one writer that a move does not hold.
CONSTANTS
  d1 = d1
  d2 = d2
  a = a
  b = b
  w = w
  late = late
  Docs = {d1, d2}
  Folders = {a, b}
  Start = a
  Writers = {w, late}
  Late = {late}
  MaxWrites = 2
  MaxMoves = 2
  MaxFaults = 2
SPECIFICATION Spec
CHECK_DEADLOCK FALSE
INVARIANT NothingLost
INVARIANT OneCopy
