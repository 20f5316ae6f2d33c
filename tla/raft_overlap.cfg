\* Two leaders with diverging logs; two heartbeats to one peer in flight at
\* once, answered in any order; one more command.
CONSTANTS
    Node = {n1, n2, n3}
    Old = n1
    New = n2
    Cmd = a
    Command = {a}
    NoOp = NoOp
    Nil = Nil
    MaxTerm = 2
    MaxLog = 3
    MaxCalls = 2
    MaxInFlight = 2
    MaxCrashes = 0
VIEW AppliedState
SPECIFICATION DividedSpec
INVARIANTS TypeOK MatchSound
PROPERTIES CommittedStays ImplementsLog
\* With every command proposed and applied, a leader whose calls are lost at
\* the bounds may have nothing left to do.
CHECK_DEADLOCK FALSE
