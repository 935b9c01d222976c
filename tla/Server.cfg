SPECIFICATION Spec
CONSTANTS
  Servers = {s1, s2}
  Deploys = {d}
  Env <- MCEnv
  Hosts <- MCHosts
  s1 = s1
  s2 = s2
  d = d
  NoProcess = none
  LastMigration = 2
  Build <- MCBuild
  Heartbeat = 2
  Attempts = 2
  Skews = {0}
  Advances = {6}
  MaxNow = 3
  MaxStops = 1
  MaxOutages = 1
INVARIANTS
  ServesItsOwnSchema
PROPERTIES
  EveryServerServes
  WorldIsRepaired
