\* Pages of 32 words and two slots: a list of up to three blocks of up to three
\* tags.  144 bytes need the loop over the last bucket, whose first tag may be too
\* small, and leave exactly the threshold of a whole page, which is no tag of its
\* own; 224 bytes are too large for the buckets.
CONSTANTS
  Base = 1
  PageS = 32
  PoolHdr = 3
  Slots = {33, 69}
  SlotS = 36
  MaxIdx = 6
  ThreshIdx = 5
  Requests = {32, 144, 224}
  CntMod = 1
SPECIFICATION Spec
INVARIANTS
  RegionsIntact
  BlocksWellFormed
  BucketsExact
  CountersExact
  LoopsBounded
  DestroyExact
PROPERTIES
  ImplementsArena
