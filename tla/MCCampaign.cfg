CONSTANTS
  Streams = {"stdout"}
  Foreign = {"f1"}
  MaxMoves = 3
  MaxTries = 2
  Plan <- MCPlan
  Builds <- MCBuilds
SPECIFICATION CampaignSpec
INVARIANTS
  CommittedTreeStands
  
  ForeignPreserved
  PrimaryRowsWhole
  NothingSurvives
PROPERTY AlwaysFinishes
