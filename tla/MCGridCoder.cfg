SPECIFICATION Spec
CONSTANTS
  SEGMENT_SIDE = 2
  SECTION_SIDE = 3
  SectionCount = 2
  Regions <- MCRegions
INVARIANTS
  InStep
  RoundTrip
  FastPathIsExact
  MemoIsFresh
  SurvivorsExist
CHECK_DEADLOCK FALSE
