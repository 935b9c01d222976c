SPECIFICATION OfficesSpec
CONSTANTS
  Officers = {o1,o2}
  Heartbeat = heartbeat
  Unread = unread
  Targets <- MCTargets
  Purse = 4
  MinimumShare = 1
  Restrictions <- MCRestrictions
  NoSite = nosite
  MaxCycle = 3
  MaxWork = 2
  Refs = {1, 2}
  Clauses <- MCClauses
  Riders <- MCRiders
  MinGrade <- MCMinGrade
  ClauseSlots <- MCClauseSlots
  DrawerSlots = 2
  Policies = {"balanced", "officer"}
  Worth <- MCWorth
  FormTicks <- MCFormTicks
  FormGold <- MCFormGold
  FormStanding <- MCFormStanding
  Upkeep = 1
  Patronage = 1
  Audience = 1
  ArchivistTier = 3
  PerGrade = 1
  SkippedTicks = 2
  MaxDrawerTick = 4
  MaxGold = 3
  MaxStanding = 1
  MaxFinds = 3
  Areas = {"careers", "ledgers", "journal", "tavern", "push", "keys", "world"}
  Devices = {d1, d2}
  Requests = {q1, q2}
  Awards = {1, 2}
  Ledgers = {"orders", "pension", "guild"}
  Settings = {plain, other}
  Default = plain
  Tokens = {t1, t2}
  Events = {e1, e2}
  Calls = {sell, buy}
  Target = 2
  Limit = 2
  Cap = 1
  Away = 1
  Day = 1
  Stale = 0
  Retention = 1
  MaxTime = 2
  MaxRows = 3
INVARIANTS
  WorkSettledOnce
  BarIsTheWork
  WellFormedFiles
  FilingsInOrder
  AdaptersAgree
  OneAccountPerDevice
PROPERTIES
  PaidOnceWhenClosed
  FilesGoRightly
