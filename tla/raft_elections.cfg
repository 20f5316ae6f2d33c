\* Three elections, one crash; logs hold only no-ops.
CONSTANTS
    Node = {n1, n2, n3}
    Command = {}
    NoOp = NoOp
    Nil = Nil
    MaxTerm = 3
    MaxLog = 1
    MaxCalls = 1
    MaxInFlight = 2
    MaxCrashes = 1
SYMMETRY MemberSymmetry
VIEW LiveState
SPECIFICATION Spec
INVARIANTS ElectionSafety LogMatching LeaderCompleteness CommittedOnMajority
PROPERTIES VotesStand FreshTerm
\* At the bounds, and with every call lost, nothing is left to do.
CHECK_DEADLOCK FALSE
