SPECIFICATION RequestsSpec
CONSTANTS
  Attempts = {a1, a2}
  Purchases = {hire, sell}
  NoPurchase = none
  Stale = 1
  Retention = 2
  MaxDeaths = 1
  Keys = {k1, k2}
  Burst = 2
  Cost = 3
  Refill = 1
  PerSecond = 2
  Idle = 7
  Fields = {"depth"}
  Values = {1, 2}
  Window = 1
  PageSize = 1
  Filed <- MCFiled
  Budgets <- MCBudgets
INVARIANTS
  ChargedOnce
  ReplayTellsTheTruth
  RateHeld
  RetryAfterIsEnough
  LockedOutByANewKey
PROPERTIES
  KeyNeverJams
  SnapshotsNeverGoBack
  WritesShow
