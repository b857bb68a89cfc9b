SPECIFICATION RangeSpec
CONSTANTS
  BYTE = 4
  BYTES = 3
  TOP = 16
  RANGE = 8
  Probs = {0, 2, 4, 7}
  MaxBits = 5
INVARIANTS
  IntervalIsNeverEmpty
  DecodedIsEncoded
  NothingIsMadeUp
CHECK_DEADLOCK FALSE
