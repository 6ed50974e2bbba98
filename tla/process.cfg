SPECIFICATION ProcessSpec
CONSTANTS
  Pids = {1, 2, 3}
  root = 1
  MaxStarts = 3
INVARIANTS TypeOK OnlyNotedSignalled NotedAreGone
PROPERTY CheckoutReturns
CHECK_DEADLOCK FALSE
