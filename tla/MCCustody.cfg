CONSTANTS
  Strangers = {"file", "tree", "hollow"}
  MaxActs = 2
  Above <- MCAbove
  Requests <- MCRequests
  FileOrder <- MCFileOrder
  Contents = {"A", "B"}
  Members = {"m", "n"}
  Intruders = {"i"}
  Drifts <- MCDrifts
SPECIFICATION Spec
INVARIANTS
  RecoveredIsTheTree
  ManifestIsASnapshot
  ForeignPreserved
  FailureLeavesNoName
  ModesRestored
  ModesNormalized
PROPERTY AlwaysEnds
