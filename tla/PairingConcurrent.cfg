SPECIFICATION Spec
CONSTANTS
    Machines = {{c1, c2}}
    Kinds = {"pair", "identify"}
    Permits = {2}
    MaxFailures = 2
    RateLimit = 2
    MaxPins = 2
    MaxSecrets = 4
    Unknown = Unknown
    MaxCrashes = 0
INVARIANT
    PairedIsAutomatic
CHECK_DEADLOCK FALSE
