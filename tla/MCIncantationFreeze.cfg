CONSTANTS
    a = a
    b = b
    c = c
    here = here
    there = there
    Players = {a, b, c}
    Tiles = {here, there}
    kNbLevel = 2
    nbPlayer <- MCNbPlayer
    Stones <- MCStones
    requiredTicks = 1
    TeamOf <- MCTeamOf
    kNbPlayerToWin = 2
    MaxStones = 1

SPECIFICATION Spec

INVARIANT
    NoMutualFreeze

CHECK_DEADLOCK FALSE
