CONSTANTS
  WordMax = 15
  PhdrSize = 1
  RegionMax = 2
  InterpMax = 2
  MagicSize = 2
  EhdrSize = 4
  ShdrSize = 1
  HalfMax = 4
  SHN_LORESERVE = 3
  Objects <- MCObjects
  Ehdrs <- MCEhdrs
SPECIFICATION GateSpec
INVARIANTS
  GateExact
  AnalysisOfTheHeaders
