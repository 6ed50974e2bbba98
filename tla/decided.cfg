SPECIFICATION DecidingSpec
CONSTANTS
  Agents = {a1, a2}
  Intents = {i1}
  Policies <- OnePolicy
  DemoPolicy <- Demo
  Modes <- Autonomous
  Requests <- OneRequest
  Screening <- MCScreening
  Capital = 1
  DepositReferences = {}
  DepositAmounts = {1}
  ManualBalances = {1}
PROPERTIES
  StopIsFinal
  StartedIsDecided
