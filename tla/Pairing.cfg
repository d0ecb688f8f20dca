SPECIFICATION Spec
CONSTANTS
    Machines = {{c1}, {c2}}
    Kinds = {"pair", "unpair", "identify"}
    Permits = {1, 2}
    MaxFailures = 2
    RateLimit = 1
    MaxPins = 2
    MaxSecrets = 4
    Unknown = Unknown
    MaxCrashes = 1
INVARIANTS
    PinUsedOnce
    GuessLimit
    PairedIsAutomatic
\* All commands are at rest and no PIN is left.
CHECK_DEADLOCK FALSE

SYMMETRY Symmetry
