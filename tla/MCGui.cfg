CONSTANTS
    Parts = {"mirror", "stream", "screens", "layout", "stack", "settings", "panels", "motion", "sounds"}

    Width = 2
    Height = 1
    TeamNames <- TwoTeams
    Kinds = {"food", "linemate", "phiras"}
    StartBag <- Carried
    MaxOps = 3
    MaxGround = 1

    Chunk = 3
    MaxBuffer = 5
    MaxLines = 4
    MaxLine = 2

    Watched = {1, 2}

    GridCols = 4
    GridRows = 7
    DefaultLayout <- Drawn
    FixedSize = {3}
    Stood <- Piled
    Closable = {2, 4}
    Pinned = {3}
    Log = 1
    CellHeights = {6, 7}
    Begun = 15
    MaxRows = 2
    MaxDeeds = 4
    MaxEdits = 3

    Volumes = {1, 2}
    Views = {"fov"}
    Shows = {"showUI"}
    Modes = {"windowed", "fullscreen"}
    Actions = {"Sprint", "Pause"}
    Keys = {"W"}
    MaxChanges = 2

    Numbers = {0, 1, 2}
    TeamOf <- TeamOfEach
    Speeds = {1, 2}
    SliderMax = 1
    MaxLogs = 2
    MaxEvents = 2
    MaxClicks = 2
    MaxDone = 3
    MaxFall = 1

    Columns = 3
    Rows = 2
    MaxOrders = 2

    Played = {"walk"}
    Duration <- Lengths
    Strengths = {0, 2}
    Frequencies = {0, 400}
    MapHalf = 1
    Padding = 1
    FullDistance = 1
    MaxDistance = 3
    PanWidth = 2
    Slots = {1, 2}
    MaxInputs = 3

INIT Init
NEXT Next

INVARIANTS
    FolkCatchUp
    GroundCatchesUp
    LevelsCatchUp
    LinesComeThrough
    ScreensAgree
    LayoutIsSound
    SettingsHold
    PanelsCatchUp
    MotionSettles
    SoundsHold

\* Every part may come to the end of its bounds.
CHECK_DEADLOCK FALSE
