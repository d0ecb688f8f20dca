SPECIFICATION Spec
CONSTANTS
    Kinds = {"exec", "pty", "clipboard", "proxy", "tunnel"}
    MaxChunks = 2
    WireRoom = 1
    InboxRoom = 2
    MaxOutput = 2
    MaxInput = 2
    RouteRoom = 1
    Requests = {r1, r2, r3}
    MaxStarts = 2
    Tunnels = {t1, t2}
    Ports = {0, 1}
    Targets = {1}
    MaxDeaf = 1
    MaxData = 1
    TunnelRoom = 1
INVARIANTS
    ExitMeansAll
    TunnelWhole
    OwnAnswer
    ToldMeansListening
    ListenersEnd
PROPERTIES
    CancelKills
    WaitsEnd
\* Everything may be over.
CHECK_DEADLOCK FALSE
