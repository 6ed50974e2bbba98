SPECIFICATION QuotaSpec
CONSTANTS
  Intents = {i1, i2, i3}
  MAX_AUDIT_ENTRIES = 14
  AUDIT_SAFETY_RESERVE = 4
  EMERGENCY_AUDIT_RESERVE = 2
SYMMETRY IntentSymmetry
INVARIANTS
  LogCanBeLoaded
  RunningCanBeRecorded
PROPERTY
  SlotsAreKept
CHECK_DEADLOCK FALSE
