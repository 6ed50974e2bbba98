SPECIFICATION SessionSpec
CONSTANTS
  h1 = h1  h2 = h2  c1 = c1  c2 = c2
  Threads = {1}
  Helpers = {h1, h2}
  Connections = {c1, c2}
  max_operations = 2
INVARIANTS TypeOK CardSentOncePerGrant 
PROPERTY HelperEnds
CHECK_DEADLOCK FALSE
