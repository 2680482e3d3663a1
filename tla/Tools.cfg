SPECIFICATION MCSpec
CONSTANTS
  Nodes = {n1, n2, n3, n4}
  Data = {a, b}
  NULL = NULL
  DomainLens = {0, 1, 3}
  PeerBytes = 1
  MaxStarts = 2
  Room = 7
  Widths = {0, 2, 3}
  LineSizes = {0, 1, 3, 4}
  MaxLines = 3
  Cols = {1, 2}
  Rows = {1, 2}
  Garbage <- MCGarbage
  Bytes = {0, 1, 90, 128, 255}
  MaxBytes = 5
  Lengths <- MCLengths
  Layouts <- MCLayouts
INVARIANTS OneExactOutcome TorOwned QueueKeepsOrder WidgetsInRange HelpersRight
CHECK_DEADLOCK FALSE
