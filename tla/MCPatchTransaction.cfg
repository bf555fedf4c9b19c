CONSTANTS
  Paths <- MCPaths
  Base <- MCBase
  Candidate <- MCCandidate
  MaxEvents = 2
  MaxFaults = 2
SPECIFICATION Spec
INVARIANTS
  OutcomeIsTrue
  OneFailureRecovered
PROPERTIES
  OnlyOwnedRemoved
  AlwaysEnds
