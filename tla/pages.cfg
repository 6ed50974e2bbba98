SPECIFICATION PagesSpec
CONSTANTS
  a1 = a1
  a2 = a2
  owner = owner
  Agents = {a1, a2}
  Ids = {1, 2, 3}
  MaxTime = 1
  MaxAudit = 4
  PageLimit = 2
INVARIANTS TypeOK ListedOnce WalkIsComplete
PROPERTY WalksEnd
CHECK_DEADLOCK FALSE
