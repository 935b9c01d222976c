SPECIFICATION Spec
CONSTANTS
  MaxTick = 2
  MaxRecruits = 3
  MaxGold = 0
  MaxStock = 1
  MaxDepth = 1
  MaxPermit = 2
  StartingGold = 0
  MinService = 1
  PensionPerCommendation = 2
  ServiceRate = 150
  DepthFactor = 55
  EstateRate = 10
  Credit <- MCCredit
  Rungs <- MCRungs
  Requisitions <- MCRequisitions
  Commendations <- MCCommendations
  Posts = {"officer"}
  Licences = 1
  Wage = 0
  Fee = 0
  Assignments = {"sole"}
  SoleCharge = {"sole"}
  NoAssignment = "none"
  Reward = 1
INVARIANTS
  AwardsAccounted
  LaddersClimbedInOrder
  OnlyNewestServes
  CareersDoNotOverlap
  OffersAreHonoured
  AdviceCanBeTaken
PROPERTIES
  ScreensSurviveFunerals
  DeathIsNotTheEnd
  KeepsThePromise
