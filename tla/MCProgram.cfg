CONSTANTS
  WordMax = 16777215
  Commands = {"info", "mitigations", "gadgets", "analyze"}
  RecordMax = 4096
  PageSize = 4096
  Bases = {4096, 8192}
  MaxLength = 2
  Chunks = 2
  ArgumentWordMax = 127
  ArgumentSignedMax = 63
  ScanDepth = 8
  ScanDepthLimit = 12
  ArgumentVectors <- MCVectors
  Followed <- MCFollowed
SPECIFICATION ProgramSpec
INVARIANTS
  AnswersTheGrammar
  ExitSaysWhatHappened
  FailsBeforeOutput
  TablesAlwaysFit
  RecordsMatchKernel
PROPERTIES
  FirstFailureKept
  AlwaysExits
