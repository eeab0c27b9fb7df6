CONSTANTS
  a = a
  b = b
  c1 = c1
  c2 = c2
  c3 = c3
  c4 = c4
  c5 = c5
  c6 = c6
  Hole = Hole
  Nothing = Nothing
  Items <- TwoItems
  Cells <- SixCells
  MINIMUM_LIST_SIZE = 3
  MaxQueued = 4
SPECIFICATION Spec
SYMMETRY Symmetry
INVARIANTS RingIsWhole NoCellIsShared RingStaysSmall
PROPERTIES ImplementsQueue
CHECK_DEADLOCK FALSE
