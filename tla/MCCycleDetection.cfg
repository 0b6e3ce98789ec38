SPECIFICATION FairSpec
CONSTANTS
  n1 = n1
  n2 = n2
  n3 = n3
  n4 = n4
  Node <- MCNode
  Graphs <- MCGraphs
  Containers <- MCContainers
INVARIANTS
  TypeOK
  MarksMatchCalls
  ReportedCycleIsReal
PROPERTIES
  VerdictIsRight
  CheckTerminates
