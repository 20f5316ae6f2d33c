\* No election at all; the agent crosses the border and comes back.
CONSTANTS
    Server = {n1, n2}
    Shard = {A, B}
    Agent = {x}
    Nowhere = Nowhere
    NoOp = NoOp
    MaxTerm = 1
    MaxLog = 5
    MaxMoves = 2
SPECIFICATION SettledSpec
INVARIANT NeverLost
SYMMETRY RegionSymmetry
