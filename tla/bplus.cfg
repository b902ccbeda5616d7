\* Ten keys, 0 among them: with fork 3 three levels, in which an inner node can take
\* from its neighbour; seven with fork 4.  The process stops where the first leaf has
\* no memory, and a failed split is not followed.
CONSTANTS
  Key = {0, 1, 2, 3, 4, 5, 6, 7, 8, 9}
  v1 = v1
  v2 = v2
  Val = {v1, v2}
  ValOf <- ILP32ValOf
  Nodes = {n1, n2, n3, n4, n5, n6, n7, n8, n9}
  Pool = Pool
  Configs <- ILP32Configs
  NULL = NULL
  Junk = Junk
SPECIFICATION Spec
VIEW Shape
INVARIANTS
  Indexed
  ChainExact
PROPERTIES
  ImplementsMap
CHECK_DEADLOCK FALSE
