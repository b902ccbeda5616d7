\* Seven places: three full levels, with ties between three keys.  The array is
\* adjusted from its beginning or from the second element on; the latter may leave
\* the array, and there the process stops.
CONSTANTS
  Item = {1, 2, 3, 4, 5, 6, 7}
  Key = {1, 2, 3}
  Size = 7
  AdjustFrom = {0, 1}
  Junk = Junk
SPECIFICATION ArraySpec
VIEW Shape
INVARIANTS
  ArrayOrdered
  ToldExact
CHECK_DEADLOCK FALSE
