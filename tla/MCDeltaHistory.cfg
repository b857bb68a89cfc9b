SPECIFICATION Spec
CONSTANTS
  SectionCount = 2
  Arcs = {v1, v2, v3}
  c1 = c1
  c2 = c2
  a = a
  b = b
  Cells = {c1, c2}
  Atoms = {a, b}
  Observed <- MCObserved
  STATE_UNCHANGED = unchanged
  Times = {1, 2, 3}
  Limits = {0, 1}
  MaxLength = 3
SYMMETRY Symmetry
INVARIANTS
  TypeOK
  GetMutSucceeds
  StoresTheTruth
  ReadIsHistorical
PROPERTIES
  InsertionIsIsolated
  ImplementsHistories
