SPECIFICATION RefreshingSpec
CONSTANTS
  Agents = {a1}
  Intents = {i1}
  Policies <- OnePolicy
  DemoPolicy <- Demo
  Modes <- Autonomous
  Requests <- Siblings
  Screening <- MCScreening
  Capital = 3
  DepositReferences = {}
  DepositAmounts = {1}
  ManualBalances = {2}
PROPERTY
  StaleBalanceIsRefreshed
