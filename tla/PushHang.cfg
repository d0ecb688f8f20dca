SPECIFICATION FairSpec
CONSTANTS
    FileUnits = 11
    Chunk = 2
    Window = 8
    Threshold = 4
    MaxCredit = 8
    RouteCap = 5
    WireCap = 2
    ShortReads = FALSE
    HostFaults = FALSE
    DeviceFaults = TRUE
    LinkFaults = FALSE
    Truncates = FALSE
PROPERTIES
    PushEnds
\* The upload ends: nothing is left to do.
CHECK_DEADLOCK FALSE
