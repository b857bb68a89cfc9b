SPECIFICATION Spec
CONSTANTS
  SlotCount = 2
  SectionCount = 2
  BlockCells = {1, 2, 3, 4}
  BiomeCells = {1, 2}
  Regions <- MCRegions
  MAX_INDIRECT_PALETTE_SIZE = 3
  MAX_COUNT = 2
INVARIANTS
  RoundTrip
  NeverFails
  EveryFieldIsRead
PROPERTIES
  WrittenOnce
CHECK_DEADLOCK FALSE
