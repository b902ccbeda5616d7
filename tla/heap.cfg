\* Seven places, grown in two steps, and eight elements with three keys: three
\* full levels, a last parent with one child and with two, and ties.
CONSTANTS
  Item = {i1, i2, i3, i4, i5, i6, i7, i8}
  Key = {1, 2, 3}
  Size = 7
  Inc = 4
  Junk = Junk
SPECIFICATION Spec
VIEW Shape
INVARIANTS
  Ordered
PROPERTIES
  ImplementsQueue
CHECK_DEADLOCK FALSE
