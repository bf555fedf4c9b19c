CONSTANTS
  Strangers = {"file", "tree", "hollow"}
  MaxActs = 0
  Above <- MCAbove
  Requests <- MCRequests
  FileOrder <- MCFileOrder
  Contents = {"A", "B"}
  Members = {"m", "n"}
  Intruders = {"i"}
  Drifts <- MCDrifts
SPECIFICATION Spec
INVARIANT
  PriorAbsence
