CONSTANTS
    kNbLifeTickFood = 4
    kNbStartFood = 1
    kMaxNbCmd = 3
    kNbLevel = 1
    requiredTicks <- MCRequiredTicks
    MaxAccepted = 5
    MaxBuffer = 1
    MaxFood = 1
    MaxRituals = 2

SPECIFICATION Spec

INVARIANTS
    TypeOK
    QueueIsServed
    RepliesInOrder

PROPERTIES
    TickCostsOneLife
    CommandsTakeTheirTime
    SleepMissesNothing

\* A dead player whose messages are flushed does nothing any more.
CHECK_DEADLOCK FALSE
