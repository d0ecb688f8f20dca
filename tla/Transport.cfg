SPECIFICATION TransportSpec
CONSTANTS
    Streams = {s1, s2}
    IdSpace = 3
    RouteCap = 1
    NoStream = NoStream
    Reader = Reader
    Writer = Writer
    Closer = Closer
    Layers = {"records", "routes"}
    Payloads = {0, 1, 2, 4, 5}
    HeaderLen = 2
    RecordLen = 3
    LengthLen = 2
    Room = 4
INVARIANTS
    SweptClean
    OwnsRoute
PROPERTIES
    RecvReleased
    FramesArrive
\* A closed transport with no stream left has nothing to do.
CHECK_DEADLOCK FALSE
