SPECIFICATION Spec
CONSTANTS
  Accounts = {a1, bad}
  NoAccount = none
  Broken = {bad}
  Tokens = {t1, t2}
  Sweepers = {s1, s2}
  Orders = {"deep"}
  Files = {"bare"}
  Bare = "bare"
  Fatal <- MCFatal
  Away = 0
  Limit = 2
  Cap = 1
  Day = 3
  MaxTime = 1
  MaxRecruits = 2
INVARIANTS
  RungOnce
PROPERTIES
  NobodyWaitsForEver
