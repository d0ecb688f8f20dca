SPECIFICATION Spec
CONSTANTS
    FileUnits = 11
    Chunk = 2
    Window = 8
    Threshold = 4
    MaxCredit = 8
    RouteCap = 4
    WireCap = 2
    ShortReads = TRUE
    HostFaults = FALSE
    DeviceFaults = FALSE
    LinkFaults = FALSE
    Truncates = FALSE
INVARIANTS
    NoOverflow
\* The download ends: nothing is left to do.
CHECK_DEADLOCK FALSE
