\* Three threads; three versions, so that a copy can go stale by one and by two
\* releases and the version can wrap while a thread holds a copy.  No symmetry:
\* the run has a liveness property.
CONSTANTS
  Threads = {t1, t2, t3}
  MaxVer = 2
SPECIFICATION FairSpec
INVARIANTS
  MutualExclusion
  WordAgrees
  ReleaseNeverRetries
  StaleCopyFails
PROPERTIES
  TryFailsOnlyContended
  SomeoneGetsIt
