CONSTANTS
    a = a
    b = b
    c = c
    here = here
    there = there
    Players = {a, b, c}
    Tiles = {here, there}
    kNbLevel = 2
    nbPlayer <- MCNbPlayer
    Stones <- MCStones
    requiredTicks = 1
    TeamOf <- MCTeamOf
    kNbPlayerToWin = 2
    MaxStones = 1

SPECIFICATION Spec

INVARIANTS
    TypeOK
    FrozenOnlyByRituals

PROPERTIES
    ElevationIsEarned
    RitualsEnd

\* A world that everybody left only runs empty passes.
CHECK_DEADLOCK FALSE
