\* The first block is [2, 6) or [2, 8), others lie in [8, 14): up to three.
CONSTANTS
  Addr = {2, 6, 8, 10, 12, 14}
  Base = 2
  Thresh = 1
  Gap = 1
SPECIFICATION Spec
INVARIANTS
  TagsDisjoint
  TagsTile
  FreeMerged
