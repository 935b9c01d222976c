SPECIFICATION Spec
CONSTANTS
    Requests <- MCRequests
    Mixes <- MCMixes
    MaxTick = 1
    StartingGold = 1
    StartingPension = 1
    Price = 1
    RungCost = 1
    PerCommendation = 1
    Award = 1
    MinService = 0
INVARIANTS
    MinutesServedOnce
    LostOnce
    OnlyUnguardedCross
PROPERTIES
    EveryoneIsServed
