CONSTANTS
    kNbLifeTickFood = 4
    kNbStartFood = 1
    kMaxNbCmd = 3
    kNbLevel = 1
    requiredTicks <- MCRequiredTicks
    MaxAccepted = 5
    MaxBuffer = 1
    MaxFood = 1
    MaxRituals = 2

SPECIFICATION Spec

INVARIANT
    StartedOrRefused

CHECK_DEADLOCK FALSE
