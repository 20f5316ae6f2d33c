\* From two leaders with diverging logs; one more crash.  No bound on calls in
\* flight is ever met: four append calls and no election that can win.
CONSTANTS
    Node = {n1, n2, n3}
    Old = n1
    New = n2
    Cmd = a
    Command = {a}
    NoOp = NoOp
    Nil = Nil
    MaxTerm = 2
    MaxLog = 2
    MaxCalls = 1
    MaxInFlight = 6
    MaxCrashes = 1
SPECIFICATION FairSpec
PROPERTY StableLeaderDelivers
\* A group whose only leader crashed has no term left for another election.
CHECK_DEADLOCK FALSE
