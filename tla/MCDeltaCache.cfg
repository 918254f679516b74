SPECIFICATION Spec
CONSTANTS
  Signatures = {0, 1, 2}
  Distance <- LineDistance
  DeltaTolerance = 1
  MaxEntriesPerScope = 2
  ScopeKeys = {s1, s2}
  ResultCounts = {1, 2}
  Payloads = {r1, r2}
  NoAnswer = None
  MaxOps = 4
SYMMETRY Renamings
CHECK_DEADLOCK FALSE
INVARIANT
  StampsDistinct
PROPERTY
  ImplementsLRU
