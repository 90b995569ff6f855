CONSTANTS
    red = red
    blue = blue
    Width = 3
    Height = 2
    Names = {red, blue}
    TeamNames <- MCTwinNames
    ClientLimit = 1
    MaxId = 3
    MaxPendingEvents = 1

SPECIFICATION Spec

INVARIANT
    AuthorizedClients

CHECK_DEADLOCK FALSE
