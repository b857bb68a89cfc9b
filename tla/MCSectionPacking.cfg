\* Stamps come round after two sections, so that a third meets a cleared
\* table.
SPECIFICATION Spec
CONSTANTS
  UNPACKED_SIZE = 8
  BYTE_BITS = 2
  WORD_BYTES = 4
  STAMPS = 3
  STATE_UNCHANGED = 15
  RANK_TABLE_SLOTS = 6
  Hash <- MCHash
  Remap <- MCRemap
  Grids <- MCGrids
  Foreign <- MCForeign
  Palettes <- MCPalettes
  MinBits = {0, 2}
  MaxCalls = 3
CHECK_DEADLOCK FALSE
INVARIANTS
  PackedIsTheSection
  DeltaRestores
  NextStampIsUnused
  MembersAreThePalette
