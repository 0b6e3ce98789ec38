SPECIFICATION Spec
INVARIANT
  ErrorsAreReported
