\* A third term: the server whose add failed is elected again.
CONSTANTS
    Server = {n1, n2, n3}
    Shard = {A}
    Agent = {x, y}
    Nowhere = Nowhere
    NoOp = NoOp
    MaxTerm = 3
    MaxLog = 3
    MaxMoves = 0
SPECIFICATION Spec
INVARIANT NeverLost
SYMMETRY RegionSymmetry
