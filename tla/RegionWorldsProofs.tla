------------------------- MODULE RegionWorldsProofs -------------------------
(***************************************************************************)
(* Proofs about RegionWorlds: what is proved of all worlds holds of either *)
(* of the two.                                                             *)
(***************************************************************************)
EXTENDS RegionWorlds, RegionsProofs

-----------------------------------------------------------------------------
(* What is proved of the first world holds of the other, too. *)

BP == INSTANCE RegionsProofs WITH
        Server <- BorderServer, Shard <- BorderShard, Agent <- BorderAgent,
        MaxTerm <- BorderTerm, MaxLog <- BorderLog, MaxMoves <- BorderMoves

\* What RegionsAssumption says of the constants of the other world.
LEMMA BorderAssumption ==
  /\ BP!IsFiniteSet(BorderServer) /\ BP!IsFiniteSet(BorderAgent)
  /\ "main" \notin BorderServer /\ "nobody" \notin BorderServer
  /\ Nowhere \notin BorderShard /\ NoOp \notin [BorderAgent -> BorderShard \cup {Nowhere}]
  /\ BorderTerm \in Nat \ {0} /\ BorderLog \in Nat /\ BorderMoves \in Nat
<1>1. IsFiniteSet(BorderServer) => BP!IsFiniteSet(BorderServer)
  BY DEF IsFiniteSet, BP!IsFiniteSet
<1>2. IsFiniteSet(BorderAgent) => BP!IsFiniteSet(BorderAgent)
  BY DEF IsFiniteSet, BP!IsFiniteSet
<1>. QED BY <1>1, <1>2, WorldsAssumption

\* The proofs are about the same steps,
LEMMA BorderSteps == Border!HistoryNext <=> BP!HistoryNext
  BY DEF
         Border!raftVars, BP!raftVars, Border!vars, BP!vars, Border!Nothing,
         BP!Nothing, Border!Idle, BP!Idle, Border!Locked, BP!Locked,
         Border!IsMajority, BP!IsMajority, Border!LastTerm, BP!LastTerm,
         Border!UpToDate, BP!UpToDate, Border!Applying, BP!Applying, Border!Elect,
         BP!Elect, Border!Replicate, BP!Replicate, Border!Commit, BP!Commit,
         Border!Propose, BP!Propose, Border!CaughtUp, BP!CaughtUp, Border!Applied,
         BP!Applied, Border!NotApplied, BP!NotApplied, Border!Asked, BP!Asked,
         Border!Return, BP!Return, Border!AddBegin, BP!AddBegin, Border!AddPropose,
         BP!AddPropose, Border!AddDone, BP!AddDone, Border!AddFails, BP!AddFails,
         Border!AddCancelled, BP!AddCancelled, Border!SpawnAgent, BP!SpawnAgent,
         Border!Onward, BP!Onward, Border!TickBegin, BP!TickBegin, Border!TickLooks,
         BP!TickLooks, Border!Moved, BP!Moved, Border!Crossings, BP!Crossings,
         Border!TickMoves, BP!TickMoves, Border!HandOff, BP!HandOff,
         Border!HandOffDeferred, BP!HandOffDeferred, Border!Accepted, BP!Accepted,
         Border!HandOffAnswered, BP!HandOffAnswered, Border!HandOffGivenUp,
         BP!HandOffGivenUp, Border!RemoveBegin, BP!RemoveBegin, Border!Remove,
         BP!Remove, Border!RemoveFails, BP!RemoveFails, Border!Raft, BP!Raft,
         Border!Add, BP!Add, Border!Tick, BP!Tick, Border!Next, BP!Next,
         Border!Departures, BP!Departures, Border!Proposing, BP!Proposing,
         Border!TakesBackNews, BP!TakesBackNews, Border!DropsReturned,
         BP!DropsReturned, Border!HistoryStep, BP!HistoryStep, Border!HistoryNext,
         BP!HistoryNext, Border!Cardinality, BP!Cardinality, Border!Max, BP!Max,
         Border!IsFiniteSet, BP!IsFiniteSet

\* the same start
LEMMA BorderStart == (Border!Settled <=> BP!Settled) /\ (HistoryInit <=> BP!HistoryInit)
  BY DEF HistoryInit, BP!HistoryInit, Border!Settled, BP!Settled, Border!Idle, BP!Idle

\* and the same properties.
LEMMA BorderShows == (Border!TypeOK <=> BP!TypeOK) /\ (Border!LostByMistake <=> BP!LostByMistake)
  BY DEF
         Border!TypeOK, BP!TypeOK, Border!Nothing, BP!Nothing, Border!Idle, BP!Idle,
         Border!LostByMistake, BP!LostByMistake, Border!NeverLost, BP!NeverLost,
         Border!Committed, BP!Committed, Border!Applying, BP!Applying, Border!Max,
         BP!Max

-----------------------------------------------------------------------------
(* The invariant: that of the world that the state is of. *)

WorldsInv == IF InBorder THEN BP!WorldInv ELSE WorldInv

\* The invariant tells the worlds apart.
LEMMA WorldsApart ==
  /\ WorldInv => ~InBorder /\ WorldsInv
  /\ WorldInv' => ~InBorder' /\ WorldsInv'
  /\ BP!WorldInv => InBorder /\ WorldsInv
  /\ BP!WorldInv' => InBorder' /\ WorldsInv'
<1>1. (WorldInv => DOMAIN log = Shard) /\ (WorldInv' => DOMAIN log' = Shard)
  BY DEF WorldInv, WorldTypes, Types, GroupTypes
<1>2. (BP!WorldInv => DOMAIN log = BorderShard) /\ (BP!WorldInv' => DOMAIN log' = BorderShard)
  BY DEF BP!WorldInv, BP!WorldTypes, BP!Types, BP!GroupTypes
<1>. QED BY <1>1, <1>2, WorldsAssumption DEF InBorder, WorldsInv

\* Either world starts with its invariant,
LEMMA WorldsStart == WorldsInit => WorldsInv
<1>1. Init /\ HistoryInit => WorldInv
  BY WorldStart
<1>2. BP!Settled /\ BP!HistoryInit => BP!WorldInv
  BY BorderAssumption, BP!SettledWorld
<1>. QED BY <1>1, <1>2, BorderStart, WorldsApart DEF WorldsInit

\* keeps it,
LEMMA WorldsStep == WorldsInv /\ [WorldsNext]_<<vars, history>> => WorldsInv'
<1>. SUFFICES ASSUME WorldsInv, [WorldsNext]_<<vars, history>>
              PROVE  WorldsInv'
  OBVIOUS
<1>1. CASE InBorder
  <2>1. BP!WorldInv
    BY <1>1 DEF WorldsInv
  <2>2. [BP!HistoryNext]_<<BP!vars, BP!history>>
    BY <1>1, BorderSteps DEF WorldsNext, vars, raftVars, history, BP!vars, BP!raftVars, BP!history
  <2>3. BP!WorldInv'
    BY <2>1, <2>2, BorderAssumption, BP!WorldStep
  <2>. QED BY <2>3, WorldsApart
<1>2. CASE ~InBorder
  <2>1. WorldInv /\ [HistoryNext]_<<vars, history>>
    BY <1>2 DEF WorldsInv, WorldsNext
  <2>2. WorldInv'
    BY <2>1, WorldStep
  <2>. QED BY <2>2, WorldsApart
<1>. QED BY <1>1, <1>2

\* and shows it.
LEMMA WorldsShow == WorldsInv => WellTyped /\ NobodyIsLost
<1>1. WorldInv => TypeOK /\ LostByMistake
  BY WorldShows
<1>2. BP!WorldInv => BP!TypeOK /\ BP!LostByMistake
  BY BorderAssumption, BP!WorldShows
<1>. QED BY <1>1, <1>2, BorderShows DEF WorldsInv, WellTyped, NobodyIsLost

\* Registries, logs, calls and ticks are of their types in either world, however many
\* servers, shards and agents it has, and no server has applied more than its log holds
\* (shard_state.py, region_server.py).
THEOREM WorldsWellTyped == WorldsSpec => []WellTyped
<1>1. WorldsInv => WellTyped
  BY WorldsShow
<1>. QED BY <1>1, WorldsStart, WorldsStep, PTL DEF WorldsSpec

\* In either world an agent that was placed durably stays in a committed registry unless
\* a failing add_agent took back what was applied meanwhile (shard_state.py:69) or phase 2
\* dropped an agent that had come back (region_server.py:79).
THEOREM WorldsLoseNobody == WorldsSpec => []NobodyIsLost
<1>1. WorldsInv => NobodyIsLost
  BY WorldsShow
<1>. QED BY <1>1, WorldsStart, WorldsStep, PTL DEF WorldsSpec
=============================================================================
