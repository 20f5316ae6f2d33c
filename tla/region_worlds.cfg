\* First world: three servers, one shard, two elections; an agent that may be
\* spawned.  Four entries: no-op, spawn, the next leader's no-op, and its first tick.
\* Second world: two servers, two shards led by either, an election in each; two
\* agents, of whom one crosses the border.  The history ends with a mistake.
CONSTANTS
    Server = {n1, n2, n3}
    Shard = {A}
    Agent = {x}
    MaxTerm = 2
    MaxLog = 4
    MaxMoves = 0
    BorderServer = {m1, m2}
    BorderShard = {B, C}
    BorderAgent = {y, z}
    BorderTerm = 2
    BorderLog = 3
    BorderMoves = 1
    Nowhere = Nowhere
    NoOp = NoOp
SPECIFICATION WorldsSpec
INVARIANTS WellTyped NobodyIsLost
SYMMETRY WorldsSymmetry
CHECK_DEADLOCK FALSE
