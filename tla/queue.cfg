\* Three chunks of three elements: the middle chunk is full, spares queue up and
\* are taken again.  The symmetry is sound for the FIFO too, which names values
\* alike and no chunks.
CONSTANTS
  Val = {v1, v2}
  Chunks = {c1, c2, c3}
  CHUNK = 3
  NULL = NULL
  Junk = Junk
SPECIFICATION Spec
SYMMETRY Symmetry
INVARIANTS
  ChunksPartitioned
  HeldStays
  MemoryBounded
PROPERTIES
  ImplementsFifo
