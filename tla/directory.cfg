SPECIFICATION DirectorySpec
CONSTANTS
  i1 = i1
  i2 = i2
  c1 = c1
  a1 = a1
  d1 = d1
  daemon = daemon
  none = none
  Inits = {i1, i2}
  Commands = {c1}
  Creations = {a1}
  Dashboards = {d1}
INVARIANTS StateHasItsKey AcknowledgedIsKept ActiveTokenKept OwnerTokenKept
CHECK_DEADLOCK FALSE
