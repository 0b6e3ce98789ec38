SPECIFICATION Spec
CONSTANTS
  Graphs <- MCGraphs
  P <- MCP
  MissionTime = 2
  Series <- MCSeries
  Trials <- MCTrials
INVARIANTS
  TypeOK
  ConversionIsRight
  MemoIsBalanced
  ModulesAreContiguous
  MarksAreUniform
  TotalsAreExact
  ReachedModulesAreExact
  ImportanceIsExactForVertex
