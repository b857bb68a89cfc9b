SPECIFICATION FairSpec
CONSTANTS
  t1 = t1
  t2 = t2
  Threads = {t1, t2}
  Buffers = {1, 2, 3, 4, 5, 6, 7, 8, 9, 10, 11, 12}
  MIN_POOL_CAPACITY = 2
  MAX_POOL_DEPTH = 2
  Directories <- MCDirectories
  Samples = {2, All}
  All = All
  Verify = {TRUE, FALSE}
  ArrayBytes = 1
  None = None
INVARIANTS
  BuffersAreAccounted
  ResultsAreExact
  RegionsKeepTheirBytes
PROPERTY
  RunEnds
CHECK_DEADLOCK FALSE
