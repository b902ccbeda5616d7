\* The 64-bit build, where leaf() is true of no leaf: the process stops at the first
\* erase of a key that is there.
CONSTANTS
  Key = {0, 1, 2, 3, 4, 5, 6, 7, 8, 9}
  v1 = v1
  v2 = v2
  Val = {v1, v2}
  ValOf <- LP64ValOf
  Nodes = {n1, n2, n3, n4, n5, n6, n7, n8, n9}
  Pool = Pool
  Configs <- LP64Configs
  NULL = NULL
  Junk = Junk
SPECIFICATION Spec
VIEW Shape
INVARIANTS
  AssertsHold
CHECK_DEADLOCK FALSE
