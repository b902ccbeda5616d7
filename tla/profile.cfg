\* Four measurements of two names, without a limit on the depth and with one that
\* three of them pass.  Two microseconds are a second: all carries and borrows occur.
\* The process stops when it reads what is gone or when there is no memory.
CONSTANTS
  Func = {f, g}
  Entries = {e1, e2, e3, e4}
  Levels = {0, 1, 2}
  MaxLevel = 4
  Second = 2
  MaxTime = 4
  NULL = NULL
SPECIFICATION Spec
VIEW Shape
INVARIANTS
  TotalsExact
  ListsApart
PROPERTIES
  ImplementsTracer
CHECK_DEADLOCK FALSE
