\* Two members that probe each other; one datagram that a probe may start with.
CONSTANTS
    Node = {n1, n2}
    Contact = n1
    MaxTransmits = 1
    MaxUpdates = 2
    IndirectPingCount = 0
    Prober = {n1, n2}
    Fragile = {}
    MaxIncarnation = 1
    MaxMessages = 1
    MaxCrashes = 0
SPECIFICATION CalmSpec
PROPERTY Recovers
\* A probe that fails for a member at MaxIncarnation is where the bound stops it.
CHECK_DEADLOCK FALSE
