SPECIFICATION Spec
CONSTANTS
  DeleteTerms = DeleteTerms
  Nothing = Nothing
  None = None
  Inputs <- MCInputs
  Limits = {0, 1, 2, 3}
  PrimeLimits = {1, 4}
INVARIANTS
  TypeOK
  AssertionsHold
  TopEventsAreRight
  MembersKeepProbability
  SubstitutionsCommute
  FunctionIsKept
  ModulesAreModules
  ReadyForEngine
  ProductsAreExact
PROPERTY AnalysisEnds
CHECK_DEADLOCK FALSE
