SPECIFICATION FairSpec
CONSTANTS
  NumVariables = 3
  Order <- MCOrder
  MaxCalls = 2
  None = None
INVARIANTS
  TypeOK
  Structured
  Canonical
  ApplyIsRight
  ComputedIsRight
PROPERTY
  ApplyReturns
