SPECIFICATION Spec
CONSTANTS
  Agents = {a1}
  Intents = {i1, i2}
  Policies <- TightPolicy
  DemoPolicy <- Demo
  Modes <- Autonomous
  Requests <- TwoRequests
  Screening <- MCScreening
  Capital = 3
  DepositReferences = {d1}
  DepositAmounts = {1}
  ManualBalances = {2}
SYMMETRY IntentSymmetry
INVARIANTS
  ReservationsCovered
  ManualCardNeedsOwner
