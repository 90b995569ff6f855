CONSTANTS
    red = red
    blue = blue
    Width = 3
    Height = 2
    Names = {red, blue}
    TeamNames <- MCTeamNames
    ClientLimit = 1
    MaxId = 3
    MaxPendingEvents = 1

SPECIFICATION Spec

INVARIANTS
    TypeOK
    TilesMirrorWorld
    TeamsPartitionPlayers
    IdsAreUnambiguous
    EverySlotIsBacked

PROPERTIES
    OnlyEggsHatch
    MovesAreAnnounced

\* A world without eggs and players is extinct: nothing happens in it any more.
CHECK_DEADLOCK FALSE
