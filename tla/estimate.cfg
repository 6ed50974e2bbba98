SPECIFICATION Spec
CONSTANTS
  Agents = {a1}
  Intents = {i1}
  Policies <- OnePolicy
  DemoPolicy <- Demo
  Modes <- AutonomyMode
  Requests <- Siblings
  Screening <- MCScreening
  Capital = 3
  DepositReferences = {d1}
  DepositAmounts = {1}
  ManualBalances = {2}
PROPERTY
  EstimateNeverAuthorizes
