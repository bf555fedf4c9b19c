CONSTANTS
  WordMax = 16777215
  Commands = {"info", "mitigations", "gadgets", "analyze"}
  RecordMax = 4096
  PageSize = 4096
  Bases = {4096}
  MaxLength = 1
  Chunks = 2
  ArgumentWordMax = 127
  ArgumentSignedMax = 63
  ScanDepth = 8
  ScanDepthLimit = 12
  ArgumentVectors <- MCFollowed
  Followed <- MCFollowed
SPECIFICATION ProgramSpec
INVARIANT
  SuccessDeliversReport
