SPECIFICATION SpanSpec
CONSTANTS
  Rolls <- MCRolls
  AllOrders <- MCOrders
  Ladders <- MCLadders
  MaxDepth = 3
  StartingHp = 10
  HpPerGrade = 2
  XpPerGrade = 1
  StartingGrade = 2
  StartingGold = 3
  FullSupplies = 2
  LowSupplies = 2
  SupplyPrice = 2
  DrainTicks = 1
  Slots = 1
  Processing = 4
  ExpediteFee = 1
  Stipend = 0
  Premium = 1
  RestPct = 60
  PullBackPct = 6
  HungerPct = 4
  VigourPct = 12
  BlowPct = 35
  GrievousPct = 60
  Granted = 1
  GradeCap = 3
  MaxCatchup = 3
  NoTick = notick
  MaxTick = 5
  MaxPromotions = 2
  Catalogue <- MCCatalogue
  NoAssignment = none
  NoCap = 9
  MinService = 2
  IntakeFloor = 1
  Intakes = {2}
  MaxFloor = 2
  MaxGrade = 2
  LastMinute = 4
  MaxSpan = 2
INVARIANTS
  CutsDoNotMatter
  LostOnlyBelow
  EachCompletesOnce
  PaidUnderItsRules
PROPERTIES
  NeverSentBeyond
  PermitsTakeTheirTime
CHECK_DEADLOCK FALSE
