\* Two members probe, and what they gossip is gossiped once: the loss of one
\* datagram stands for the loss of all that carry an update.
CONSTANTS
    Node = {n1, n2, n3}
    Contact = n1
    MaxTransmits = 1
    MaxUpdates = 1
    IndirectPingCount = 0
    Prober = {n1, n3}
    Fragile = {}
    MaxIncarnation = 2
    MaxMessages = 1
    MaxCrashes = 0
SPECIFICATION SuspicionSpec
INVARIANT SuspicionsEnd
SYMMETRY MemberSymmetry
\* A probe that fails for a member at MaxIncarnation is where the bound stops it.
CHECK_DEADLOCK FALSE
