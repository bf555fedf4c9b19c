CONSTANTS
  WordMax = 15
  RET = 195
  RET_IMM16 = 194
  DepthLimit = 5
  DefaultCapacity = 5
  HeaderSize = 1
  Objects <- MCObjects
SPECIFICATION ReportSpec
INVARIANTS
  WindowsInsideRegion
  StoredInOrder
  FactsOfTheWindow
  ReportIsTrue
PROPERTY
  EnumeratesEveryCandidate
