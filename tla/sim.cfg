SPECIFICATION Spec
CONSTANTS
  Agents = {a1}
  Intents = {i1, i2}
  Policies <- TwoPolicies
  DemoPolicy <- Demo
  Modes <- Autonomous
  Requests <- TwoRequests
  Screening <- MCScreening
  Capital = 2
  DepositReferences = {d1}
  DepositAmounts = {2}
  ManualBalances = {}
SYMMETRY IntentSymmetry
INVARIANTS
  TypeOK
  AuthorityNeverNegative
  AuthorityIsBacked
  LedgerTellsTheState
  UncertainIsReconcilable
PROPERTIES
  UsageGrowsWithinLimits
  ImplementsAuthority
