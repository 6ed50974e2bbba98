SPECIFICATION BrokerSpec
CONSTANTS
  Agents = {a1}
  Intents = {i1}
  Policies <- OnePolicy
  DemoPolicy <- Wide
  Modes <- Autonomous
  Requests <- OneRequest
  Screening <- MCScreening
  Capital = 3
  DepositReferences = {}
  DepositAmounts = {1}
  ManualBalances = {2}
INVARIANTS
  SubmittedAtMostOnce
  SubmissionIsDurable
  DiskIsConsistent
PROPERTIES
  StopIsDurable
  ImplementsHandover
