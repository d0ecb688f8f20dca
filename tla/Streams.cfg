\* The code's ratios in units of 128 KiB: 1 MiB, 512 KiB and 256 KiB, and the
\* smallest MAX_FLOW_CREDIT that fits the window (the code has 16 MiB).
SPECIFICATION StreamsSpec
CONSTANTS
    Subjects = {"window", "push", "pull", "command"}
    Total = 21
    FileUnits = 11
    Chunk = 2
    Window = 8
    Threshold = 4
    MaxCredit = 8
    RouteCap = 5
    WireCap = 2
    ShortReads = FALSE
    HostFaults = TRUE
    DeviceFaults = FALSE
    LinkFaults = FALSE
    Truncates = FALSE
    Devices = {d1, d2}
    DirCount = 3
    LongPaths = {1}
    MaxPaths = 2
    MaxBytes = 2
    FileCount = 3
    Jobs = 2
    MaxChanges = 2
INVARIANTS
    NeverShort
    CreditOrder
    NoOverflow
    TransferWhole
PROPERTIES
    FollowsCreditWindow
    TransferEnds
\* The transfer ends: nothing is left to do.
CHECK_DEADLOCK FALSE
