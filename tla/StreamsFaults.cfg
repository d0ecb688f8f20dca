SPECIFICATION StreamsSpec
CONSTANTS
    Subjects = {"push", "pull"}
    Total = 0
    FileUnits = 4
    Chunk = 2
    Window = 4
    Threshold = 2
    MaxCredit = 4
    RouteCap = 1
    WireCap = 2
    ShortReads = TRUE
    HostFaults = TRUE
    DeviceFaults = TRUE
    LinkFaults = TRUE
    Truncates = TRUE
    Devices = {d1, d2}
    DirCount = 3
    LongPaths = {1}
    MaxPaths = 2
    MaxBytes = 2
    FileCount = 3
    Jobs = 2
    MaxChanges = 0
INVARIANTS
    OkMeansWhole
    NothingLeftBehind
PROPERTIES
    PullReturns
    DeviceReleased
    BreakEndsBoth
    OverflowEnds
\* The transfer ends: nothing is left to do.
CHECK_DEADLOCK FALSE
