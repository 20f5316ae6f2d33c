\* Three servers, two shards, two agents; two kills, one reset, and two moves in each life.
CONSTANTS
    Cols = 2
    Rows = 1
    CellWidth = 1
    CellHeight = 1
    MaxSpeed = 1
    ServerCount = 3
    AgentCount = 2
    Start <- Started
    Absent = Absent
    MaxResets = 1
    MaxKills = 2
    MaxTicks = 2
SPECIFICATION FairSpec
INVARIANTS TypeOK DeadIsQuiet SpawnedInOrder
PROPERTY Populated
\* Nothing is left to do once the world is populated and the bounds are met.
CHECK_DEADLOCK FALSE
