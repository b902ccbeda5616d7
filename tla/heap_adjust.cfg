\* Five places, adjusted from the first or from the second on.
CONSTANTS
  Item = {1, 2, 3, 4, 5}
  Key = {1, 2, 3}
  Size = 5
  AdjustFrom = {0, 1}
  Junk = Junk
SPECIFICATION ArraySpec
VIEW Shape
INVARIANTS
  AdjustMakesHeap
CHECK_DEADLOCK FALSE
