CONSTANTS
  Paths <- MCPaths
  Base <- MCBase
  Candidate <- MCCandidate
  MaxEvents = 1
  MaxFaults = 1
SPECIFICATION Spec
PROPERTY LateForeignPreserved
