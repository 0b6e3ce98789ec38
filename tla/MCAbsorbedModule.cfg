SPECIFICATION Spec
CONSTANTS
  Graphs <- MCGraphs
  P <- MCP
  MissionTime = 2
  Series <- MCSeries
  Trials <- MCTrials
INVARIANT
  IntermediatesAreExact
