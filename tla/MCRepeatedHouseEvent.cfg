SPECIFICATION Spec
CONSTANTS
  h1 = h1
  h2 = h2
  HouseEvent <- MCHouseEvent
  Phase = {p1, p2}
  NoContext = none
  Target = {g1, g2}
  Programs <- RepeatingPrograms
  Fractions <- MCFractions
  Whole = 4
  InitTime = 16
  TimeSteps = {0, 5}
INVARIANTS
  ModelIsPristine
