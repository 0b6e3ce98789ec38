SPECIFICATION Spec
CONSTANTS
  DeleteTerms = DeleteTerms
  Nothing = Nothing
  None = None
  Inputs <- DuplicateVotes
  Limits = {0, 1, 2, 3}
  PrimeLimits = {1, 4}
INVARIANT
  DuplicatesKeepFunction
CHECK_DEADLOCK FALSE
