CONSTANTS
  Streams = {"stdout"}
  Foreign = {"f1"}
  MaxMoves = 0
  MaxTries = 2
  Plan <- MCPlan
  Builds <- MCBuilds
SPECIFICATION CampaignSpec
INVARIANT NoSilentResidue
