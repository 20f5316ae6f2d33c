----------------------------- MODULE Playground -----------------------------
(***************************************************************************)
(* The sharded world as src/dssd/playground.py runs it in one process: it  *)
(* boots the servers, spawns the agents in the background, and is told to  *)
(* kill and revive servers and to start afresh.  Everything runs on one    *)
(* event loop; what happens between two suspensions is one action.         *)
(*                                                                         *)
(* A server takes part in a shard through the loops of its Raft member.    *)
(* What the members of a group do is in Raft, what becomes of an agent in  *)
(* the shards' registries, hand-offs and losses included, in Regions: here *)
(* an agent is the state of any one of its copies.                         *)
(***************************************************************************)
EXTENDS World, FiniteSets

CONSTANTS
    ServerCount,
    AgentCount,
    Start,             \* where each agent is spawned
    Absent,            \* an agent that was not durably added in this life
    MaxResets,         \* bound: resets
    MaxKills,          \* bound: kills
    MaxTicks           \* bound: moves of agents in one life

Server == 0..ServerCount - 1
Agent == 1..AgentCount

ASSUME PlaygroundAssumption ==
    /\ ServerCount \in Nat /\ AgentCount \in Nat \ {0} /\ Absent \notin AgentState
    /\ Start \in [Agent -> AgentState]
    /\ MaxResets \in Nat /\ MaxKills \in Nat /\ MaxTicks \in Nat

VARIABLES
    life,       \* how often the cluster was reset
    phase,      \* of this life
    down,       \* the servers that count as down
    running,    \* <<n, s>>: the loops of n's member of the group of s run
    ticking,    \* the servers whose tick loop runs
    kills,      \* kills under way: what they have still to stop
    halting,    \* what the shutdown under way has still to stop
    agents,     \* the state of each agent in some registry that holds or held it durably
    ticks,      \* how often an agent was moved in this life
    expected,   \* the agents that count
    spawned,    \* is every agent in its place
    spawners,   \* the coroutines that spawn agents, those of earlier lives too
    killed      \* how often a server was killed

clusterVars == <<life, phase, halting>>
serverVars == <<down, running, ticking, kills, killed>>
spawnVars == <<expected, spawned, spawners>>
worldVars == <<agents, ticks>>
vars == <<clusterVars, serverVars, worldVars, spawnVars>>

Part == Server \X Shard
Spawner == [life : Nat, next : Agent, stage : {"between", "adding", "added"}, in : Nat]

TypeOK ==
    /\ life \in Nat /\ phase \in {"starting", "ready", "stopping"}
    /\ down \subseteq Server /\ running \subseteq Part /\ ticking \subseteq Server
    /\ kills \subseteq [server : Server, todo : SUBSET Shard]
    /\ halting \subseteq Part
    /\ agents \in [Agent -> AgentState \cup {Absent}]
    /\ expected \subseteq Agent /\ spawned \in BOOLEAN
    /\ spawners \subseteq Spawner
    /\ killed \in Nat /\ ticks \in Nat

Nobody == [a \in Agent |-> Absent]

\* start() was called: the cluster boots in the background.
Init ==
    /\ life = 0 /\ phase = "starting"
    /\ down = {} /\ running = {} /\ ticking = {} /\ kills = {} /\ halting = {}
    /\ agents = Nobody /\ ticks = 0
    /\ expected = {} /\ spawned = FALSE /\ spawners = {}
    /\ killed = 0

-----------------------------------------------------------------------------
(* The cluster. *)

\* mutant of NewSpawner: none is started while an old one runs
OnlyOne == {p \in {[life |-> life, next |-> 1, stage |-> "between", in |-> life]} : spawners = {}}
NewSpawner == {[life |-> life, next |-> 1, stage |-> "between", in |-> life]}

\* All servers start, and the agents are spawned in the background.
Boot ==
    /\ phase = "starting"
    /\ phase' = "ready"
    /\ running' = Part /\ ticking' = Server
    /\ spawners' = spawners \cup NewSpawner
    /\ UNCHANGED <<life, halting, down, kills, killed, worldVars, expected, spawned>>

\* mutant of ToStop: servers that are down need not be stopped
TheLiving == {p \in Part : p[1] \notin down}
ToStop == Part

\* _shutdown, which cancels the tick loops first and then stops part after part.
\* The spawner is not among what it cancels.  The site offers the controls from
\* the first snapshot to the next reset.
Reset ==
    /\ phase = "ready" /\ life < MaxResets
    /\ phase' = "stopping"
    /\ ticking' = {}
    /\ halting' = ToStop
    /\ UNCHANGED <<life, down, running, kills, killed, worldVars, spawnVars>>

\* Servers and shards are gone through in their order.
Earlier(s, t) == s[1] < t[1] \/ (s[1] = t[1] /\ s[2] < t[2])
FirstShard(ss) == {s \in ss : \A t \in ss : ~Earlier(t, s)}
FirstPart(ps) == {p \in ps : \A q \in ps : p[1] <= q[1] /\ (p[1] = q[1] => ~Earlier(q[2], p[2]))}

ShutdownStop(p) ==
    /\ p \in FirstPart(halting)
    /\ running' = running \ {p}
    /\ halting' = halting \ {p}
    /\ UNCHANGED <<life, phase, down, ticking, kills, killed, worldVars, spawnVars>>

\* All is stopped: __init__ once more, on the same object, and start().  A kill that
\* is still under way stops nothing of the new life.
Reinit ==
    /\ phase = "stopping" /\ halting = {}
    /\ life' = life + 1 /\ phase' = "starting"
    /\ down' = {} /\ kills' = {}
    /\ agents' = Nobody /\ ticks' = 0
    /\ expected' = {} /\ spawned' = FALSE
    /\ UNCHANGED <<halting, running, ticking, spawners, killed>>

\* _kill: a server that is down already is left alone.  The first part is stopped
\* at once, the others after a wait each.
Kill(n) ==
    /\ phase = "ready" /\ n \notin down /\ killed < MaxKills
    /\ down' = down \cup {n}
    /\ ticking' = ticking \ {n}
    /\ \E s \in FirstShard(Shard) :
         /\ running' = running \ {<<n, s>>}
         /\ kills' = kills \cup {[server |-> n, todo |-> Shard \ {s}]}
    /\ killed' = killed + 1
    /\ UNCHANGED <<clusterVars, worldVars, spawnVars>>

KillStop(k) ==
    \/ \E s \in FirstShard(k.todo) :
         /\ running' = running \ {<<k.server, s>>}
         /\ kills' = (kills \ {k}) \cup {[k EXCEPT !.todo = @ \ {s}]}
         /\ UNCHANGED <<clusterVars, down, ticking, killed, worldVars, spawnVars>>
    \/ /\ k.todo = {}
       /\ kills' = kills \ {k}
       /\ UNCHANGED <<clusterVars, down, running, ticking, killed, worldVars, spawnVars>>

\* _revive, without a wait: everything is started, even what a kill is about to stop.
Revive(n) ==
    /\ phase = "ready" /\ n \in down
    /\ down' = down \ {n}
    /\ running' = running \cup ({n} \X Shard)
    /\ ticking' = ticking \cup {n}
    /\ UNCHANGED <<clusterVars, kills, killed, worldVars, spawnVars>>

-----------------------------------------------------------------------------
(* A shard's group. *)

Up == Server \ down

\* Someone may lead the shard and commit: a majority answers, and the leader's own
\* loops run.
MayCommit(s) ==
    /\ 2 * Cardinality(Up) > Cardinality(Server)
    /\ \E n \in Up : <<n, s>> \in running

\* Phase 1 of a tick, as far as a is concerned: the leader of a shard that holds a copy
\* of it, which need not be the shard of its position, moves it one step, durably.  What
\* hands a copy on takes its state as it is; one that is lost moves no more.
Move(s, a) ==
    /\ ticks < MaxTicks /\ ticks' = ticks + 1
    /\ MayCommit(s) /\ \E n \in Up \cap ticking : <<n, s>> \in running
    /\ agents[a] # Absent
    /\ agents' = [agents EXCEPT ![a] = Step(@)]
    /\ UNCHANGED <<clusterVars, serverVars, spawnVars>>

-----------------------------------------------------------------------------
(* Spawning. *)

\* The spawner p goes on as q, or ends.
Becomes(p, qs) == spawners' = (spawners \ {p}) \cup qs

\* It asks a server that is up.  One that leads the agent's shard begins to add it.
Ask(p) ==
    /\ p.stage = "between" /\ phase # "starting" /\ Up # {}
    /\ Becomes(p, {[p EXCEPT !.stage = "adding", !.in = life]})
    /\ UNCHANGED <<clusterVars, serverVars, worldVars, expected, spawned>>

\* Before the servers of a new life exist, an old spawner fails on their absence.
Fall(p) ==
    /\ p.stage = "between" /\ phase = "starting"
    /\ Becomes(p, {})
    /\ UNCHANGED <<clusterVars, serverVars, worldVars, expected, spawned>>

\* The agent is durably added, whether or not the spawner is told in time; one that was
\* added before has another copy then, and either is followed.
Added(p) ==
    LET s == Home(Start[p.next]) IN
    /\ p.stage = "adding" /\ p.in = life /\ MayCommit(s)
    /\ \/ agents' = [agents EXCEPT ![p.next] = Start[p.next]]
       \/ agents[p.next] # Absent /\ UNCHANGED agents
    /\ Becomes(p, {[p EXCEPT !.stage = "added"]})
    /\ UNCHANGED <<clusterVars, serverVars, ticks, expected, spawned>>

\* The server lost the leadership, or it took too long: to be tried again.
Refused(p) ==
    /\ p.stage \in {"adding", "added"}
    /\ Becomes(p, {[p EXCEPT !.stage = "between", !.in = life]})
    /\ UNCHANGED <<clusterVars, serverVars, worldVars, expected, spawned>>

\* mutant of Placed: a server that was asked is taken for one that added
Sent(p) == p.stage \in {"adding", "added"}
Placed(p) == p.stage = "added"

\* The agent counts, and the next one is tried.
Count(p) ==
    /\ Placed(p)
    /\ expected' = expected \cup {p.next}
    /\ \/ /\ p.next < AgentCount
          /\ Becomes(p, {[p EXCEPT !.next = @ + 1, !.stage = "between", !.in = life]})
          /\ UNCHANGED spawned
       \/ /\ p.next = AgentCount
          /\ Becomes(p, {})
          /\ spawned' = TRUE
    /\ UNCHANGED <<clusterVars, serverVars, worldVars>>

-----------------------------------------------------------------------------
Cluster == Boot \/ Reset \/ Reinit \/ \E p \in Part : ShutdownStop(p)
Servers == (\E n \in Server : Kill(n) \/ Revive(n)) \/ \E k \in kills : KillStop(k)
Spawning == \E p \in spawners : Ask(p) \/ Fall(p) \/ Added(p) \/ Refused(p) \/ Count(p)

Next == Cluster \/ Servers \/ Spawning \/ \E s \in Shard, a \in Agent : Move(s, a)

Spec == Init /\ [][Next]_vars

\* Tasks go on.  Of an agent that is offered again and again, some offer is added
\* and some addition is confirmed in time, as long as its shard may have a leader.
Fairness ==
    /\ WF_vars(Boot) /\ WF_vars(Reinit) /\ WF_vars(\E p \in Part : ShutdownStop(p))
    /\ \A l \in 0..MaxResets :
         LET Mine(A(_)) == \E p \in spawners : p.life = l /\ A(p)
         IN  WF_vars(Mine(Ask)) /\ SF_vars(Mine(Added)) /\ SF_vars(Mine(Count))

FairSpec == Spec /\ Fairness

-----------------------------------------------------------------------------
\* a was durably added in this life.
InWorld(a) == agents[a] # Absent

\* Whatever kills, revivals and resets overlap, nothing of a server that is down runs
\* on once the kill is over, and nothing of an earlier life once the next one starts
\* (_kill, _revive, _shutdown).
DeadIsQuiet ==
    /\ \A n \in down :
         /\ n \notin ticking
         /\ \A s \in Shard : <<n, s>> \in running => \E k \in kills : k.server = n
    /\ phase = "starting" => running = {} /\ ticking = {}

\* Once the spawner of this life is past an agent, the agent counts and was durably added
\* in this life, however servers fail, offers time out and are made again, and spawners
\* of earlier lives count agents of theirs (_spawn_agents).  Whether it is lost later is
\* up to the ticks (Regions).
SpawnedInOrder ==
    phase # "starting" =>
      \A a \in Agent : (\A p \in spawners : p.life = life => a < p.next)
                        => a \in expected /\ InWorld(a)

\* A majority of the servers takes part in the shard.
Live(s) == \E Q \in SUBSET Up : 2 * Cardinality(Q) > Cardinality(Server) /\ Q \X {s} \subseteq running

\* The spawning comes to its end, also after resets, with every agent counted and durably
\* added in the last life, if every shard has a majority from some moment on
\* (_spawn_agents).
Populated ==
    <>[](phase = "ready" /\ \A s \in Shard : Live(s))
      => <>[](spawned /\ \A a \in Agent : a \in expected /\ InWorld(a))
=============================================================================
