SPECIFICATION Spec
CONSTANTS
  HW_KEY_COUNTS = {2, 4}
  KeysWhileCharging = FALSE
  MaxPending = 1
INVARIANTS
  KeysMatchScreen
  TimersMatchScreen
  UpdateNeedsLink
