SPECIFICATION FairSpec
CONSTANTS
    Sessions = {s1, s2, s3}
    Static = {k1}
    Discovered = {d1}
    Modes = {TRUE, FALSE}
    Permits = 1
    MaxMisses = 2
    Heartbeat = TRUE
    MaxFaults = 1
    NoSession = NoSession
    Listener = Listener
    Nobody = Nobody
INVARIANTS
    NoOrphan
    EntryWatched
    DelaysTolerated
PROPERTIES
    LiveKept
    DeadLeaves
    Settles
