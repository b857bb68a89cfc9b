SPECIFICATION FairSpec
CONSTANTS
  s1 = s1
  s2 = s2
  s3 = s3
  s4 = s4
  o1 = o1
  o2 = o2
  Sources = {s1, s2, s3, s4}
  Outputs = {o1, o2}
  OutputOf <- MCOutputOf
  Unusable = {s4}
  Threads = 2
  Absent = absent
  Empty = empty
  Torn = torn
  MaxRuns = 3
  MaxFaults = 1
INVARIANTS
  ReportIsExact
  SuccessMeansWhole
PROPERTIES
  OutputsArePreserved
  RunsEnd
CHECK_DEADLOCK FALSE
