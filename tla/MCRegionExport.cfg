\* The sizes are those of the code, on either side of each of its bounds.
SPECIFICATION Spec
CONSTANTS
  a = a
  b = b
  te = te
  bad = bad
  vast = vast
  Overworld = Overworld
  Nether = Nether
  REGION_SIDE = 2
  SECTOR_SIZE = 4096
  MAX_PAYLOAD_BYTES = 1048571
  U32_MAX = 4
  I64_MAX = 15
  PayloadSizes = {4091, 4092, 1044475, 1044476, 1048571}
  SourceFiles <- MCSourceFiles
  Dimension = Overworld
  Protocols = {765, 769}
  BadNbt = {bad}
  UnwritableNbt = {vast}
  Erase = Erase
  Epoch = 6
  None = None
CHECK_DEADLOCK FALSE
INVARIANTS
  WrittenIsWhole
  TimestampIsLastChange
  FailsForACause
