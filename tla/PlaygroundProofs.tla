-------------------------- MODULE PlaygroundProofs --------------------------
(***************************************************************************)
(* Proofs about World and Playground for grids, clusters and populations   *)
(* of every size and all bounds.                                           *)
(***************************************************************************)
EXTENDS Playground, TLAPS

-----------------------------------------------------------------------------
(* The world. *)

\* The world is at least as large as a cell.
LEMMA WorldSize ==
  Width \in Nat /\ Height \in Nat /\ MaxSpeed <= Width /\ MaxSpeed <= Height
<1>1. ASSUME NEW n \in Nat \ {0}, NEW c \in Nat \ {0}
      PROVE  n * c \in Nat /\ c <= n * c
  <2>1. n * c = (n - 1) * c + c /\ (n - 1) * c >= 0
    OBVIOUS
  <2>. QED BY <2>1
<1>2. Width \in Nat /\ CellWidth <= Width
  BY <1>1, SizesAssumption DEF Width
<1>3. Height \in Nat /\ CellHeight <= Height
  BY <1>1, SizesAssumption DEF Height
<1>. QED BY <1>2, <1>3, SpeedAssumption, SizesAssumption

\* One bounce is enough along an axis, for an agent that is not faster than the
\* axis is long: it lands inside, at the speed it had (_bounce).
LEMMA BounceStaysInside ==
  ASSUME NEW limit \in Nat, NEW pos \in 0..limit, NEW v \in Velocity, MaxSpeed <= limit
  PROVE  /\ NewPosition(pos + v, limit) \in 0..limit
         /\ NewVelocity(pos + v, v, limit) \in Velocity
  BY SpeedAssumption DEF NewPosition, NewVelocity, Velocity

\* An agent inside the world is inside after its step (AgentState.step).
LEMMA StepStaysInside ==
  ASSUME NEW a \in AgentState
  PROVE  Step(a) \in AgentState
<1>1. /\ a.x \in 0..Width /\ a.y \in 0..Height
      /\ a.vx \in Velocity /\ a.vy \in Velocity
  BY DEF AgentState
<1>2. /\ NewPosition(a.x + a.vx, Width) \in 0..Width
      /\ NewVelocity(a.x + a.vx, a.vx, Width) \in Velocity
  BY <1>1, WorldSize, BounceStaysInside
<1>3. /\ NewPosition(a.y + a.vy, Height) \in 0..Height
      /\ NewVelocity(a.y + a.vy, a.vy, Height) \in Velocity
  BY <1>1, WorldSize, BounceStaysInside
<1>. QED BY <1>2, <1>3 DEF Step, AgentState

\* Whatever its position, an agent belongs to a cell of the grid (shard_id_for).
LEMMA EveryPositionHasACell ==
  ASSUME NEW pos \in Int, NEW cell \in Nat \ {0}, NEW n \in Nat \ {0}
  PROVE  CellOf(pos, cell, n) \in 0..n - 1
<1>1. pos \div cell \in Int
  OBVIOUS
<1>. QED BY <1>1 DEF CellOf

LEMMA HomeIsShard ==
  ASSUME NEW a \in AgentState
  PROVE  Home(a) \in Shard
<1>1. a.x \in Int /\ a.y \in Int
  BY WorldSize DEF AgentState
<1>2. /\ CellOf(a.y, CellHeight, Rows) \in 0..Rows - 1
      /\ CellOf(a.x, CellWidth, Cols) \in 0..Cols - 1
  BY <1>1, EveryPositionHasACell, SizesAssumption
<1>. QED BY <1>2 DEF Home, Shard

-----------------------------------------------------------------------------
(* Types. *)

LEMMA FirstAgent == 1 \in Agent
  BY PlaygroundAssumption DEF Agent

\* A move leaves an agent inside the world.
LEMMA MoveType ==
  ASSUME NEW s \in Shard, NEW a \in Agent, TypeOK, Move(s, a)
  PROVE  agents' \in [Agent -> AgentState \cup {Absent}]
<1>1. agents[a] \in AgentState /\ agents' = [agents EXCEPT ![a] = Step(agents[a])]
  BY DEF TypeOK, Move
<1>2. Step(agents[a]) \in AgentState
  BY <1>1, StepStaysInside
<1>. QED BY <1>1, <1>2 DEF TypeOK

LEMMA TypeInit == Init => TypeOK
<1>. SUFFICES ASSUME Init PROVE TypeOK
  OBVIOUS
<1>1. agents \in [Agent -> AgentState \cup {Absent}]
  BY DEF Init, Nobody
<1>. QED BY <1>1 DEF Init, TypeOK

LEMMA TypeStep == TypeOK /\ [Next]_vars => TypeOK'
<1>. SUFFICES ASSUME TypeOK, [Next]_vars PROVE TypeOK'
  OBVIOUS
<1>. USE DEF TypeOK, clusterVars, serverVars, worldVars, spawnVars
<1>1. CASE Boot
  BY <1>1, FirstAgent DEF Boot, NewSpawner, Spawner, Part
<1>2. CASE Reset
  BY <1>2 DEF Reset, ToStop
<1>3. CASE Reinit
  <2>1. agents' \in [Agent -> AgentState \cup {Absent}]
    BY <1>3 DEF Reinit, Nobody
  <2>2. /\ life' \in Nat /\ phase' = "starting" /\ ticks' = 0
        /\ down' = {} /\ kills' = {} /\ expected' = {} /\ spawned' = FALSE
        /\ UNCHANGED <<halting, running, ticking, spawners, killed>>
    BY <1>3 DEF Reinit
  <2>. QED BY <2>1, <2>2
<1>4. ASSUME NEW p \in Part, ShutdownStop(p) PROVE TypeOK'
  BY <1>4 DEF ShutdownStop
<1>5. ASSUME NEW n \in Server, Kill(n) PROVE TypeOK'
  BY <1>5 DEF Kill, FirstShard
<1>6. ASSUME NEW n \in Server, Revive(n) PROVE TypeOK'
  BY <1>6 DEF Revive, Part
<1>7. ASSUME NEW k \in kills, KillStop(k) PROVE TypeOK'
  BY <1>7 DEF KillStop, FirstShard
<1>8. ASSUME NEW s \in Shard, NEW a \in Agent, Move(s, a) PROVE TypeOK'
  <2>1. agents' \in [Agent -> AgentState \cup {Absent}]
    BY <1>8, MoveType
  <2>2. ticks' \in Nat /\ UNCHANGED <<clusterVars, serverVars, spawnVars>>
    BY <1>8 DEF Move
  <2>. QED BY <2>1, <2>2
<1>9. ASSUME NEW p \in spawners, Ask(p) \/ Refused(p) PROVE TypeOK'
  <2>1. p \in Spawner
    OBVIOUS
  <2>2. [p EXCEPT !.stage = "adding", !.in = life] \in Spawner
        /\ [p EXCEPT !.stage = "between", !.in = life] \in Spawner
    BY <2>1 DEF Spawner
  <2>. QED BY <1>9, <2>2 DEF Ask, Refused, Becomes
<1>10. ASSUME NEW p \in spawners, Fall(p) PROVE TypeOK'
  BY <1>10 DEF Fall, Becomes
<1>11. ASSUME NEW p \in spawners, Added(p) PROVE TypeOK'
  <2>1. p \in Spawner /\ p.next \in Agent /\ Start[p.next] \in AgentState
    BY PlaygroundAssumption DEF Spawner
  <2>2. [p EXCEPT !.stage = "added"] \in Spawner
    BY <2>1 DEF Spawner
  <2>. QED BY <1>11, <2>1, <2>2 DEF Added, Becomes
<1>12. ASSUME NEW p \in spawners, Count(p) PROVE TypeOK'
  <2>1. p \in Spawner /\ p.next \in Agent
    BY DEF Spawner
  <2>2. p.next < AgentCount => p.next + 1 \in Agent
    BY <2>1, PlaygroundAssumption DEF Agent
  <2>3. p.next < AgentCount => [p EXCEPT !.next = @ + 1, !.stage = "between", !.in = life] \in Spawner
    BY <2>1, <2>2 DEF Spawner
  <2>. QED BY <1>12, <2>1, <2>3 DEF Count, Becomes
<1>13. CASE UNCHANGED vars
  BY <1>13 DEF vars
<1>. QED BY <1>1, <1>2, <1>3, <1>4, <1>5, <1>6, <1>7, <1>8, <1>9, <1>10, <1>11, <1>12, <1>13
         DEF Next, Cluster, Servers, Spawning

\* Every agent stays inside the world, and the bookkeeping is well formed, whatever
\* boots, resets, kills, ticks and spawns overlap.
THEOREM TypesHold == Spec => []TypeOK
  BY TypeInit, TypeStep, PTL DEF Spec

-----------------------------------------------------------------------------
(* What is stopped stays stopped. *)

\* What still runs of a server that is down is what its kill has yet to stop; a
\* shutdown misses nothing; and a life begins with no server down.
QuietInv ==
  /\ \A n \in down :
       /\ n \notin ticking
       /\ \A s \in Shard : <<n, s>> \in running => \E k \in kills : k.server = n /\ s \in k.todo
  /\ phase = "stopping" => running \subseteq halting /\ ticking = {}
  /\ phase = "starting" => running = {} /\ ticking = {} /\ down = {}

LEMMA QuietInit == Init => QuietInv
  BY DEF Init, QuietInv

LEMMA QuietStep == TypeOK /\ QuietInv /\ [Next]_vars => QuietInv'
<1>. SUFFICES ASSUME TypeOK, QuietInv, [Next]_vars PROVE QuietInv'
  OBVIOUS
<1>. USE DEF QuietInv, clusterVars, serverVars
<1>1. CASE Boot
  BY <1>1 DEF Boot
<1>2. CASE Reset
  BY <1>2 DEF Reset, ToStop, TypeOK
<1>3. CASE Reinit
  BY <1>3 DEF Reinit
<1>4. ASSUME NEW p \in Part, ShutdownStop(p) PROVE QuietInv'
  BY <1>4 DEF ShutdownStop
<1>5. ASSUME NEW n \in Server, Kill(n) PROVE QuietInv'
  <2>1. phase' = "ready" /\ down' = down \cup {n} /\ ticking' = ticking \ {n}
    BY <1>5 DEF Kill
  <2>2. PICK s \in Shard : /\ running' = running \ {<<n, s>>}
                           /\ kills' = kills \cup {[server |-> n, todo |-> Shard \ {s}]}
    BY <1>5 DEF Kill, FirstShard
  <2>3. ASSUME NEW m \in down', NEW t \in Shard, <<m, t>> \in running'
        PROVE  \E k \in kills' : k.server = m /\ t \in k.todo
    <3>1. CASE m = n
      <4>1. t \in Shard \ {s}
        BY <2>2, <2>3, <3>1
      <4>2. [server |-> n, todo |-> Shard \ {s}] \in kills'
        BY <2>2
      <4>. QED BY <3>1, <4>1, <4>2
    <3>2. CASE m # n
      BY <2>1, <2>2, <2>3, <3>2
    <3>. QED BY <3>1, <3>2
  <2>. QED BY <2>1, <2>3
<1>6. ASSUME NEW n \in Server, Revive(n) PROVE QuietInv'
  BY <1>6 DEF Revive
<1>7. ASSUME NEW k \in kills, KillStop(k) PROVE QuietInv'
  <2>1. UNCHANGED <<phase, down, ticking, halting>> /\ running' \subseteq running
    BY <1>7 DEF KillStop
  <2>2. ASSUME NEW n \in down', NEW s \in Shard, <<n, s>> \in running'
        PROVE  \E j \in kills' : j.server = n /\ s \in j.todo
    <3>1. PICK j \in kills : j.server = n /\ s \in j.todo
      BY <2>1, <2>2
    <3>2. CASE j # k
      BY <1>7, <3>1, <3>2 DEF KillStop
    <3>3. CASE j = k
      <4>1. PICK t \in k.todo : /\ running' = running \ {<<n, t>>}
                                /\ kills' = (kills \ {k}) \cup {[k EXCEPT !.todo = @ \ {t}]}
        BY <1>7, <3>1, <3>3 DEF KillStop, FirstShard
      <4>2. s # t
        BY <2>2, <4>1
      <4>3. k \in [server : Server, todo : SUBSET Shard]
        BY DEF TypeOK
      <4>4. /\ [k EXCEPT !.todo = @ \ {t}].server = n
            /\ s \in [k EXCEPT !.todo = @ \ {t}].todo
        BY <3>1, <3>3, <4>2, <4>3
      <4>. QED BY <4>1, <4>4
    <3>. QED BY <3>2, <3>3
  <2>. QED BY <2>1, <2>2
<1>8. ASSUME NEW s \in Shard, NEW a \in Agent, Move(s, a) PROVE QuietInv'
  BY <1>8 DEF Move
<1>9. ASSUME NEW p \in spawners, Ask(p) \/ Fall(p) \/ Added(p) \/ Refused(p) \/ Count(p)
      PROVE  QuietInv'
  BY <1>9 DEF Ask, Fall, Added, Refused, Count
<1>10. CASE UNCHANGED vars
  BY <1>10 DEF vars
<1>. QED BY <1>1, <1>2, <1>3, <1>4, <1>5, <1>6, <1>7, <1>8, <1>9, <1>10
         DEF Next, Cluster, Servers, Spawning

\* Nothing of a dead server or of an earlier life runs on, however kills, revivals
\* and resets overlap.
THEOREM DeadStaysQuiet == Spec => []DeadIsQuiet
<1>1. QuietInv => DeadIsQuiet
  BY DEF QuietInv, DeadIsQuiet
<1>. QED BY <1>1, TypeInit, TypeStep, QuietInit, QuietStep, PTL DEF Spec

-----------------------------------------------------------------------------
(* Who was spawned was added. *)

\* A spawner belongs to this life or an earlier one, and to an earlier one while a
\* life starts; what a spawner of this life takes for added was durably added in it.
SpawnInv ==
  /\ \A p \in spawners :
       /\ p.life <= life
       /\ phase = "starting" => p.life # life
       /\ p.life = life /\ p.stage = "added" => InWorld(p.next)
  /\ SpawnedInOrder

\* Whoever was added stays so.
Keeping == \A a \in Agent : InWorld(a) => InWorld(a)'

LEMMA SpawnInit == Init => SpawnInv
  BY DEF Init, SpawnInv, SpawnedInOrder

\* A move leaves an agent that was added in some state of the world.
LEMMA MoveKeeps ==
  ASSUME NEW s \in Shard, NEW a \in Agent, TypeOK, Move(s, a)
  PROVE  Keeping
<1>1. agents[a] \in AgentState /\ agents' = [agents EXCEPT ![a] = Step(agents[a])]
  BY DEF TypeOK, Move
<1>2. Step(agents[a]) # Absent
  BY <1>1, StepStaysInside, PlaygroundAssumption
<1>. QED BY <1>1, <1>2 DEF TypeOK, Keeping, InWorld

\* A step that leaves life and spawners alone, and keeps who was added.
LEMMA KeepingStep ==
  ASSUME SpawnInv, Keeping, TypeOK, UNCHANGED <<life, spawners, expected>>,
         phase' = "starting" => phase = "starting", phase = "starting" => phase' = "starting"
  PROVE  SpawnInv'
<1>1. \A p \in spawners : p.next \in Agent
  BY DEF TypeOK, Spawner
<1>2. ASSUME NEW p \in spawners'
      PROVE  /\ p.life <= life' /\ (phase' = "starting" => p.life # life')
             /\ p.life = life' /\ p.stage = "added" => InWorld(p.next)'
  BY <1>1 DEF SpawnInv, Keeping
<1>3. SpawnedInOrder'
  BY DEF SpawnInv, SpawnedInOrder, Keeping
<1>. QED BY <1>2, <1>3 DEF SpawnInv

\* A spawner that goes on with the same agent, in whatever stage.
LEMMA SameAgentStep ==
  ASSUME SpawnInv, Keeping, TypeOK, UNCHANGED <<life, phase, expected>>,
         NEW p \in spawners, NEW q \in Spawner, Becomes(p, {q}), q.life = p.life, q.next = p.next,
         q.stage = "added" => InWorld(q.next)'
  PROVE  SpawnInv'
<1>1. \A r \in spawners : r.next \in Agent
  BY DEF TypeOK, Spawner
<1>2. spawners' = (spawners \ {p}) \cup {q}
  BY DEF Becomes
<1>3. ASSUME NEW r \in spawners'
      PROVE  /\ r.life <= life' /\ (phase' = "starting" => r.life # life')
             /\ r.life = life' /\ r.stage = "added" => InWorld(r.next)'
  <2>1. CASE r = q
    BY <2>1 DEF SpawnInv
  <2>2. CASE r \in spawners
    BY <1>1, <2>2 DEF SpawnInv, Keeping
  <2>. QED BY <1>2, <2>1, <2>2
<1>4. SpawnedInOrder'
  <2>. SUFFICES ASSUME phase # "starting", NEW a \in Agent,
                       \A r \in spawners' : r.life = life => a < r.next
                PROVE  a \in expected /\ InWorld(a)'
    BY DEF SpawnedInOrder
  <2>1. \A r \in spawners : r.life = life => a < r.next
    BY <1>2
  <2>. QED BY <2>1 DEF SpawnInv, SpawnedInOrder, Keeping
<1>. QED BY <1>3, <1>4 DEF SpawnInv

\* The spawner that is past an agent of this life has seen it added.
LEMMA CountStep ==
  ASSUME SpawnInv, TypeOK, NEW p \in spawners, Count(p)
  PROVE  SpawnInv'
<1>1. /\ p.next \in Agent /\ p.life \in Nat
      /\ \A r \in spawners : r.next \in Agent /\ r.life \in Nat
  BY DEF TypeOK, Spawner
<1>2. /\ UNCHANGED <<life, phase, agents>>
      /\ expected' = expected \cup {p.next} /\ p.stage = "added"
  BY DEF Count, Placed, clusterVars, worldVars
<1>. DEFINE q == [p EXCEPT !.next = @ + 1, !.stage = "between", !.in = life]
<1>3. q.life = p.life /\ q.next = p.next + 1 /\ q.stage = "between"
  BY DEF TypeOK, Spawner
<1>4. \/ spawners' = (spawners \ {p}) \cup {q}
      \/ spawners' = spawners \ {p} /\ p.next = AgentCount
  BY DEF Count, Becomes
<1>5. \A a \in Agent : InWorld(a)' <=> InWorld(a)
  BY <1>2 DEF InWorld
<1>. HIDE DEF q
<1>6. ASSUME NEW r \in spawners'
      PROVE  /\ r.life <= life' /\ (phase' = "starting" => r.life # life')
             /\ r.life = life' /\ r.stage = "added" => InWorld(r.next)'
  <2>1. CASE r = q
    BY <1>2, <1>3, <2>1 DEF SpawnInv
  <2>2. CASE r \in spawners
    BY <1>1, <1>2, <1>5, <2>2 DEF SpawnInv
  <2>. QED BY <1>4, <2>1, <2>2
<1>7. SpawnedInOrder'
  <2>. SUFFICES ASSUME phase # "starting", NEW a \in Agent,
                       \A r \in spawners' : r.life = life => a < r.next
                PROVE  a \in expected' /\ InWorld(a)
    BY <1>2, <1>5 DEF SpawnedInOrder
  <2>1. CASE p.life = life /\ a = p.next
    BY <1>2, <2>1 DEF SpawnInv
  <2>2. CASE ~(p.life = life /\ a = p.next)
    <3>1. p.life = life => a < p.next
      BY <1>1, <1>3, <1>4, <2>2, PlaygroundAssumption DEF Agent
    <3>2. \A r \in spawners : r.life = life => a < r.next
      BY <1>4, <3>1
    <3>. QED BY <1>2, <3>2 DEF SpawnInv, SpawnedInOrder
  <2>. QED BY <2>1, <2>2
<1>. QED BY <1>6, <1>7 DEF SpawnInv

LEMMA SpawnStep == TypeOK /\ SpawnInv /\ [Next]_vars => SpawnInv'
<1>. SUFFICES ASSUME TypeOK, SpawnInv, [Next]_vars PROVE SpawnInv'
  OBVIOUS
<1>. USE DEF clusterVars, serverVars, worldVars, spawnVars
<1>1. CASE Boot
  <2>. DEFINE q == [life |-> life, next |-> 1, stage |-> "between", in |-> life]
  <2>1. /\ spawners' = spawners \cup {q} /\ phase = "starting" /\ phase' = "ready"
        /\ UNCHANGED <<life, agents, expected>>
    BY <1>1 DEF Boot, NewSpawner
  <2>2. \A a \in Agent : ~(a < q.next)
    BY PlaygroundAssumption DEF Agent
  <2>3. life \in Nat
    BY DEF TypeOK
  <2>4. SpawnedInOrder'
    BY <2>1, <2>2 DEF SpawnedInOrder
  <2>. QED BY <2>1, <2>3, <2>4 DEF SpawnInv
<1>2. CASE Reinit
  BY <1>2 DEF Reinit, SpawnInv, SpawnedInOrder, TypeOK, Spawner
<1>3. CASE Reset
  <2>1. Keeping /\ UNCHANGED <<life, spawners, expected>> /\ phase # "starting" /\ phase' # "starting"
    BY <1>3 DEF Reset, Keeping, InWorld
  <2>. QED BY <2>1, KeepingStep
<1>4. ASSUME \/ \E p \in Part : ShutdownStop(p)
             \/ \E n \in Server : Kill(n) \/ Revive(n)
             \/ \E k \in kills : KillStop(k)
      PROVE  SpawnInv'
  <2>1. UNCHANGED <<life, phase, agents, spawners, expected>>
    BY <1>4 DEF ShutdownStop, Kill, Revive, KillStop
  <2>2. Keeping
    BY <2>1 DEF Keeping, InWorld
  <2>. QED BY <2>1, <2>2, KeepingStep
<1>5. ASSUME NEW s \in Shard, NEW a \in Agent, Move(s, a) PROVE SpawnInv'
  <2>1. UNCHANGED <<life, phase, spawners, expected>>
    BY <1>5 DEF Move
  <2>. QED BY <1>5, <2>1, MoveKeeps, KeepingStep
<1>6. ASSUME NEW p \in spawners, NEW stage \in {"adding", "between"},
             Becomes(p, {[p EXCEPT !.stage = stage, !.in = life]}), Ask(p) \/ Refused(p)
      PROVE  SpawnInv'
  <2>. DEFINE q == [p EXCEPT !.stage = stage, !.in = life]
  <2>1. q \in Spawner /\ q.life = p.life /\ q.next = p.next /\ q.stage # "added"
    BY DEF TypeOK, Spawner
  <2>2. UNCHANGED <<life, phase, agents, expected>>
    BY <1>6 DEF Ask, Refused
  <2>3. Keeping
    BY <2>2 DEF Keeping, InWorld
  <2>. HIDE DEF q
  <2>4. Becomes(p, {q})
    BY <1>6 DEF q
  <2>. QED BY <2>1, <2>2, <2>3, <2>4, SameAgentStep
<1>7. ASSUME NEW p \in spawners, Fall(p) PROVE SpawnInv'
  <2>1. /\ phase = "starting" /\ spawners' = spawners \ {p}
        /\ UNCHANGED <<life, phase, agents, expected>>
    BY <1>7 DEF Fall, Becomes
  <2>. QED BY <2>1 DEF SpawnInv, SpawnedInOrder
<1>8. ASSUME NEW p \in spawners, Added(p) PROVE SpawnInv'
  <2>. DEFINE q == [p EXCEPT !.stage = "added"]
  <2>1. /\ q \in Spawner /\ q.life = p.life /\ q.next = p.next /\ p.next \in Agent
    BY DEF TypeOK, Spawner
  <2>2. Start[p.next] # Absent
    BY <2>1, PlaygroundAssumption
  <2>3. /\ \/ agents' = [agents EXCEPT ![p.next] = Start[p.next]]
           \/ agents[p.next] # Absent /\ agents' = agents
        /\ Becomes(p, {q}) /\ UNCHANGED <<life, phase, expected>>
    BY <1>8 DEF Added
  <2>. HIDE DEF q
  <2>4. Keeping /\ InWorld(q.next)'
    BY <2>1, <2>2, <2>3 DEF TypeOK, Keeping, InWorld
  <2>. QED BY <2>1, <2>3, <2>4, SameAgentStep
<1>9. ASSUME NEW p \in spawners, Count(p) PROVE SpawnInv'
  BY <1>9, CountStep
<1>10. CASE UNCHANGED vars
  <2>1. UNCHANGED <<life, phase, agents, spawners, expected>>
    BY <1>10 DEF vars
  <2>2. Keeping
    BY <2>1 DEF Keeping, InWorld
  <2>. QED BY <2>1, <2>2, KeepingStep
<1>11. ASSUME NEW p \in spawners, Ask(p) \/ Refused(p) PROVE SpawnInv'
  <2>1. CASE Ask(p)
    BY <1>6, <2>1 DEF Ask
  <2>2. CASE Refused(p)
    BY <1>6, <2>2 DEF Refused
  <2>. QED BY <1>11, <2>1, <2>2
<1>. QED BY <1>1, <1>2, <1>3, <1>4, <1>5, <1>7, <1>8, <1>9, <1>10, <1>11
         DEF Next, Cluster, Servers, Spawning

\* Once the spawner of a life is past an agent, the agent counts and was durably added in
\* that life.
THEOREM SpawnedWereAdded == Spec => []SpawnedInOrder
<1>1. SpawnInv => SpawnedInOrder
  BY DEF SpawnInv
<1>. QED BY <1>1, TypeInit, TypeStep, SpawnInit, SpawnStep, PTL DEF Spec
=============================================================================
