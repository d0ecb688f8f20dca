SPECIFICATION FairSpec
CONSTANTS
    Ways = {"inbound", "outbound"}
    Modes = {"secure", "insecure"}
    Keys = {k1, k2}
    NoKey = NoKey
    MaxFaults = 1
    MaxDelay = 3
    Grace = 2
    Builds <- MCBuilds
INVARIANTS
    SessionsAgree
    SessionsAreWanted
    GraceMeansFast
PROPERTIES
    ReadyConnects
    HalfOpenEnds
\* In inbound mode the device has nothing to do without a server.
CHECK_DEADLOCK FALSE
