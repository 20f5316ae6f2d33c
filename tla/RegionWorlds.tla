---------------------------- MODULE RegionWorlds ----------------------------
(***************************************************************************)
(* Two small worlds, one of which a behaviour is about: one shard whose    *)
(* leaders change, from the very start, and two shards with a border that  *)
(* is crossed, from a moment on at which everyone has a place.             *)
(***************************************************************************)
EXTENDS RegionHistory

CONSTANTS
    BorderServer, BorderShard, BorderAgent,       \* Server, Shard, Agent,
    BorderTerm, BorderLog, BorderMoves            \* MaxTerm, MaxLog, MaxMoves there

ASSUME WorldsAssumption ==
    /\ Shard # BorderShard
    /\ IsFiniteSet(BorderServer) /\ IsFiniteSet(BorderAgent)
    /\ "main" \notin BorderServer /\ "nobody" \notin BorderServer
    /\ Nowhere \notin BorderShard /\ NoOp \notin [BorderAgent -> BorderShard \cup {Nowhere}]
    /\ BorderTerm \in Nat \ {0} /\ BorderLog \in Nat /\ BorderMoves \in Nat

Border == INSTANCE RegionHistory WITH
            Server <- BorderServer, Shard <- BorderShard, Agent <- BorderAgent,
            MaxTerm <- BorderTerm, MaxLog <- BorderLog, MaxMoves <- BorderMoves

\* The state tells which world it is of.
InBorder == DOMAIN log = BorderShard

WorldsInit == (Init \/ Border!Settled) /\ HistoryInit
WorldsNext == IF InBorder THEN Border!HistoryNext ELSE HistoryNext
WorldsSpec == WorldsInit /\ [][WorldsNext]_<<vars, history>>

WorldsSymmetry == RegionSymmetry \cup Permutations(BorderServer) \cup Permutations(BorderAgent)

-----------------------------------------------------------------------------
\* What servers, calls and ticks hold is of its type in both worlds; a leader that
\* was elected without all that is applied would pull the logs below it
\* (shard_state.py, region_server.py).
WellTyped == IF InBorder THEN Border!TypeOK ELSE TypeOK

\* An agent that was placed is lost by one of the two mistakes only, when the leaders
\* of a shard change and across a border (add_agent, hand_off, the tick of a region
\* server).
NobodyIsLost == IF InBorder THEN Border!LostByMistake ELSE LostByMistake
=============================================================================
