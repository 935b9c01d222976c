SPECIFICATION Spec
CONSTANTS
  MaxTick = 2
  MaxRecruits = 3
  MaxGold = 1
  MaxStock = 1
  MaxDepth = 1
  MaxPermit = 1
  StartingGold = 0
  MinService = 1
  PensionPerCommendation = 1
  ServiceRate = 75
  DepthFactor = 55
  EstateRate = 10
  Credit <- MCCredit
  Rungs <- MCRungs
  Requisitions <- MCRequisitions
  Commendations <- MCCommendations
  Posts = {"officer"}
  Licences = 1
  Wage = 1
  Fee = 1
  Assignments = {"unassisted", "sole"}
  SoleCharge = {"sole"}
  NoAssignment = "none"
  Reward = 1
INVARIANTS
  NoAwardLost
