SPECIFICATION CodecSpec
CONSTANTS
  SlotCount = 2
  SectionCount = 2
  p = p
  q = q
  wide = wide
  short = short
  long = long
  Palettes = {p, q, wide}
  PaletteLength <- MCSingleEntry
  DIRECT_PALETTE = direct
  NoPalette = none
  Timestamps = {1, 2, 3}
  Cells = {short, long}
  PackedLength <- MCPackedLength
  Erase = erase
  Regions <- MCShortRegions
  MaxDeltas = {0}
  MAX_INDIRECT_PALETTE_SIZE = 2
  MAX_PALETTE_TABLE_LENGTH = 3
  MAX_DELTA_LENGTH = 2
  MAX_PACKED_LENGTH = 1
  MAX_SEGMENT_STATES_LENGTH = 1
  MAX_TILE_ENTITY_LIST_LENGTH = 2
  MAX_TILE_ENTITY_NBT_LENGTH = 1
INVARIANT RoundTripPreservesData
CHECK_DEADLOCK FALSE
