SPECIFICATION Spec
CONSTANTS
  DailyCap = 4
  ShiftHours = 6
  QuietFrom = 23
  QuietTo = 8
  Waits = {2}
  MaxHours = 24
  MaxTier = 2
  MaxRecruits = 1
  MaxSyncs = 2
INVARIANT NeverDeliveredTwice
CHECK_DEADLOCK FALSE
