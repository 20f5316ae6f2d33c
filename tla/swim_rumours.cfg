\* One prober, which may be wrong about two members that gossip.  Without gossip,
\* one of them may stop and come back, and two datagrams may be in flight.
CONSTANTS
    Node = {n1, n2, n3}
    Contact = n1
    MaxTransmits = 1
    MaxUpdates = 2
    IndirectPingCount = 1
    Prober = {n1}
    Fragile = {n2, n3}
    MaxIncarnation = 1
    MaxMessages = 1
    MaxCrashes = 0
    QuietMessages = 2
    QuietCrashes = 1
SPECIFICATION HistorySpec
INVARIANTS TypeOK GossipIsBelief DeathsAreTimedOut OnlyDeathsAreUndone
PROPERTIES AnsweredByLiving DeathsStand
SYMMETRY MemberSymmetry
\* A probe that fails for a member at MaxIncarnation is where the bound stops it.
CHECK_DEADLOCK FALSE
