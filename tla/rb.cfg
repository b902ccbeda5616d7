\* Eight keys: enough for every case of i_adjust and d_adjust, on both sides and
\* above the lowest level.
CONSTANTS
  Key = {1, 2, 3, 4, 5, 6, 7, 8}
  u = u
  v = v
  Val = {u, v}
  ValOf <- MCValOf
  Nodes = {n1, n2, n3, n4, n5, n6, n7, n8}
  Forge = Forge
  NULL = NULL
SPECIFICATION Spec
VIEW Shape
INVARIANTS
  SearchTree
  RedBlack
  CountExact
  AdjustIsShort
PROPERTIES
  ImplementsMap
