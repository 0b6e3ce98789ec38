SPECIFICATION Spec
INVARIANTS
  Consistent
  CommandLineIsObeyed
