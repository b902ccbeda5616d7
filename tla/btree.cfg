\* Nine keys with fork 2 make three levels, in which an inner node can borrow from its
\* brother; forks 3 and 4 are the odd and the even case of a split.  The process stops
\* at an assertion.
CONSTANTS
  Key = {1, 2, 3, 4, 5, 6, 7, 8, 9}
  v1 = v1
  v2 = v2
  Val = {v1, v2}
  ValOf <- MCValOf
  Nodes = {n1, n2, n3, n4, n5, n6, n7, n8}
  Pool = Pool
  Forks = {2, 3, 4}
  MaxWalk = 7
  NULL = NULL
  Junk = Junk
  Front = Front
  End = End
SPECIFICATION Spec
VIEW Shape
INVARIANTS
  SearchTree
  Balanced
  LinksExact
PROPERTIES
  ImplementsMap
CHECK_DEADLOCK FALSE
