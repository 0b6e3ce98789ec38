SPECIFICATION FairSpec
CONSTANTS
  Models <- MCModels
  None = None
INVARIANTS
  TypeOK
  AssertionsHold
  ContextIsOfPath
  GatesAreRight
PROPERTY
  EveryWalkEnds
