SPECIFICATION FairSpec
CONSTANTS
    Sessions = {s1, s2}
    Static = {k1, k2}
    Discovered = {}
    Modes = {FALSE}
    Permits = 1
    MaxMisses = 2
    Heartbeat = TRUE
    MaxFaults = 0
    NoSession = NoSession
    Listener = Listener
    Nobody = Nobody
PROPERTIES
    Settles
