\* Three observations in all, at any of four times and in any order.
SPECIFICATION Spec
CONSTANTS
  a = a
  b = b
  p = p
  q = q
  SectionCount = 2
  Updates <- MCUpdates
  Positions = {p, q}
  Entities = {a, b}
  Slices <- MCSlices
  Erase = Erase
  StateTypes = {New, Old}
  Times <- MCTimes
  MaxCalls = 3
CHECK_DEADLOCK FALSE
INVARIANTS
  CutIsObserved
  NothingFromTheFuture
  NearestIsObserved
PROPERTIES
  PastIsImmutable
