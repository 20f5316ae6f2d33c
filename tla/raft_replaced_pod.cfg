\* One pod is replaced.
CONSTANTS
    Node = {n1, n2, n3}
    Command = {}
    NoOp = NoOp
    Nil = Nil
    MaxTerm = 2
    MaxLog = 1
    MaxCalls = 1
    MaxInFlight = 2
    MaxCrashes = 1
SYMMETRY MemberSymmetry
VIEW LiveState
SPECIFICATION DeploySpec
INVARIANT OneLeaderPerTerm
\* At the bounds, and with every call lost, nothing is left to do.
CHECK_DEADLOCK FALSE
