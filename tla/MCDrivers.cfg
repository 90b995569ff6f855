CONSTANTS
    Millis = 4
    Freqs = {1, 2, 4, 5}
    MaxDue = 3
    HandlingTime = 2
    MaxNow = 8

    Folk = {"a1", "a2"}
    SideOf <- Sides
    Spots = {1, 2}
    Wares = {"food", "stone"}
    Quantity <- Densities
    kNbStartFood = 1
    Burns <- Needs
    TopLevel = 2
    kNbPlayerToWin = 2
    kNbTicksToRespawn = 2
    MaxCalls = 2

    MaxPending = 2
    MaxAsked = 3
    MaxNews = 1

    Team = {1, 2}
    JoinTimeout = 2
    MaxLevel = 3
    MaxRounds = 1

    Width = 4
    Height = 3
    SeenLevel = 2
    MaxSignals = 3

    Words <- AllWords
    Stol <- NumberOf
    Lines <- AllLines
    LocalHost = "home"
    IntSpan = 64
    PortSpan = 16
    MinSide = 2
    MaxSide = 4
    MaxClients = 3
    MaxTeams = 2
    DefaultFreq = 7

SPECIFICATION Spec

INVARIANTS
    TicksComeInTime
    ResourcesHold
    GetsThere
    ConfigIsPlayable
    LineMeansWhatItSays

PROPERTIES
    CatchUpEnds
    AnswersArePaired
    TeamSortsItselfOut

\* Every part but the team may come to the end of its bounds.
CHECK_DEADLOCK FALSE
