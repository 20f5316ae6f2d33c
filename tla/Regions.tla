------------------------------ MODULE Regions ------------------------------
(***************************************************************************)
(* The sharded world (src/dssd/sharding).  Every region server takes part  *)
(* in the Raft group of every shard; the leader of a shard's group moves   *)
(* the shard's agents and hands those that left it to their new shard.     *)
(* A server is one event loop: what happens between two awaits is one      *)
(* action, and each coroutine that waits (a tick, an add_agent) is a       *)
(* record that says what it waits for.                                     *)
(*                                                                         *)
(* The Raft groups are used through what Raft.tla shows of them.  Here a   *)
(* vote or an append call is answered at once, and a member applies what   *)
(* it learns to be committed in the same step: the code above Raft looks   *)
(* at last_applied and never at the commit index.  A server that crashes   *)
(* is one that takes no more steps.                                        *)
(***************************************************************************)
EXTENDS Integers, Sequences, FiniteSets, FiniteSetsExt

CONSTANTS
    Server, Shard, Agent,
    Nowhere,           \* an agent that a registry does not hold
    NoOp,              \* a leader's empty first entry
    MaxTerm,           \* bound: terms of a group
    MaxLog,            \* bound: no tick or spawn with this many entries in the log
    MaxMoves           \* bound: border crossings

ASSUME RegionsAssumption ==
    /\ IsFiniteSet(Server) /\ IsFiniteSet(Agent)
    /\ "main" \notin Server /\ "nobody" \notin Server
    /\ Nowhere \notin Shard /\ NoOp \notin [Agent -> Shard \cup {Nowhere}]
    /\ MaxTerm \in Nat \ {0} /\ MaxLog \in Nat /\ MaxMoves \in Nat

VARIABLES
    term, leads, log, applied,   \* of each shard's group, at each server
    matchIndex,                  \* what a leader knows its followers to hold
    agents,                      \* a server's registry of a shard: where each agent is
    adds,                        \* running add_agent calls
    tick,                        \* what the tick loop of a server is doing
    placed,                      \* agents that were spawned, durably
    moves                        \* border crossings so far

raftVars == <<term, leads, log, applied, matchIndex>>
vars == <<raftVars, agents, adds, tick, placed, moves>>

Nothing == [from |-> Nowhere]
Idle == [at |-> "idle"]

TypeOK ==
    LET Registry == [Agent -> Shard \cup {Nowhere}]
        Entry == [term : Nat, agents : Registry \cup {NoOp}]
    IN
    /\ term \in [Shard -> [Server -> 0..MaxTerm]]
    /\ leads \in [Shard -> [Server -> BOOLEAN]]
    /\ matchIndex \in [Shard -> [Server -> [Server -> Nat]]]
    /\ \A s \in Shard, n \in Server :
         /\ \A i \in 1..Len(log[s][n]) : log[s][n][i] \in Entry
         /\ applied[s][n] \in 0..Len(log[s][n])
         /\ agents[s][n] \in Registry
    /\ \A c \in adds :
         /\ c.shard \in Shard /\ c.at \in Server /\ c.agent \in Agent /\ c.by \in Server \cup {"main", "nobody"}
         /\ c.stage \in {"queued", "waiting", "committing", "yes", "no"}
    /\ \A n \in Server : tick[n].at \in {"idle", "moving", "sending", "removing"}
    /\ placed \subseteq Agent
    /\ moves \in 0..MaxMoves

Init ==
    /\ term = [s \in Shard |-> [n \in Server |-> 0]]
    /\ leads = [s \in Shard |-> [n \in Server |-> FALSE]]
    /\ log = [s \in Shard |-> [n \in Server |-> <<>>]]
    /\ applied = [s \in Shard |-> [n \in Server |-> 0]]
    /\ matchIndex = [s \in Shard |-> [n \in Server |-> [m \in Server |-> 0]]]
    /\ agents = [s \in Shard |-> [n \in Server |-> [a \in Agent |-> Nowhere]]]
    /\ adds = {}
    /\ tick = [n \in Server |-> Idle]
    /\ placed = {}
    /\ moves = 0

\* Who is in the critical section of a shard's lock.
Locked(s, n) ==
    \/ \E c \in adds : c.shard = s /\ c.at = n /\ c.stage \in {"waiting", "committing"}
    \/ tick[n].at = "removing" /\ tick[n].holds = s

-----------------------------------------------------------------------------
(* A shard's Raft group. *)

IsMajority(Q) == 2 * Cardinality(Q) > Cardinality(Server)

LastTerm(l) == IF l = <<>> THEN 0 ELSE l[Len(l)].term
AnyLog(l, k) == TRUE                                             \* mutant of UpToDate
UpToDate(l, k) ==
    \/ LastTerm(l) > LastTerm(k)
    \/ LastTerm(l) = LastTerm(k) /\ Len(l) >= Len(k)

\* _apply for the entries i+1 to j of a log: the last snapshot is the registry.
Applying(registry, l, i, j) ==
    LET snapshots == {k \in i + 1..j : l[k].agents # NoOp}
    IN  IF snapshots = {} THEN registry ELSE l[Max(snapshots)].agents

\* Whoever waits in the lock of n looks every 10 ms whether n still leads, far more
\* often than elections come, and has left before n runs again.
Elect(s, n) ==
    /\ ~leads[s][n] /\ ~Locked(s, n)
    /\ \E Q \in SUBSET Server :
         LET t == Max({term[s][q] : q \in Q}) + 1 IN
         /\ IsMajority(Q) /\ n \in Q /\ t <= MaxTerm
         /\ \A q \in Q : UpToDate(log[s][n], log[s][q])
         /\ term' = [term EXCEPT ![s] = [q \in Server |-> IF q \in Q THEN t ELSE @[q]]]
         /\ leads' = [leads EXCEPT ![s] = [q \in Server |-> IF q \in Q THEN q = n ELSE @[q]]]
         /\ log' = [log EXCEPT ![s][n] = Append(@, [term |-> t, agents |-> NoOp])]
         /\ matchIndex' = [matchIndex EXCEPT ![s] = [q \in Server |-> IF q \in Q THEN [m \in Server |-> 0] ELSE @[q]]]
    /\ UNCHANGED <<applied, agents, adds, tick, placed, moves>>

\* A heartbeat: m takes over the log of n and applies what n knows to be committed.
Replicate(s, n, m) ==
    LET upTo == Max({applied[s][m], applied[s][n]}) IN
    /\ leads[s][n] /\ m # n /\ term[s][m] <= term[s][n]
    /\ term' = [term EXCEPT ![s][m] = term[s][n]]
    /\ leads' = [leads EXCEPT ![s][m] = FALSE]
    /\ log' = [log EXCEPT ![s][m] = log[s][n]]
    /\ matchIndex' = [matchIndex EXCEPT ![s][n][m] = Len(log[s][n]), ![s][m] = [q \in Server |-> 0]]
    /\ applied' = [applied EXCEPT ![s][m] = upTo]
    /\ agents' = [agents EXCEPT ![s][m] = Applying(@, log[s][n], applied[s][m], upTo)]
    /\ UNCHANGED <<adds, tick, placed, moves>>

\* The leader learnt that an entry of its term is on a majority and applies up to it.
Commit(s, n) ==
    LET held == {i \in applied[s][n] + 1..Len(log[s][n]) :
                   /\ log[s][n][i].term = term[s][n]
                   /\ IsMajority({n} \cup {q \in Server : matchIndex[s][n][q] >= i})}
    IN  /\ leads[s][n] /\ held # {}
        /\ applied' = [applied EXCEPT ![s][n] = Max(held)]
        /\ agents' = [agents EXCEPT ![s][n] = Applying(@, log[s][n], applied[s][n], Max(held))]
        /\ UNCHANGED <<term, leads, log, matchIndex, adds, tick, placed, moves>>

\* Appends a snapshot to the log of n, if n leads.
Propose(s, n, registry) ==
    log' = IF leads[s][n]
           THEN [log EXCEPT ![s][n] = Append(@, [term |-> term[s][n], agents |-> registry])]
           ELSE log

-----------------------------------------------------------------------------
(* ShardStateMachine. *)

AlwaysCaughtUp(s, n) == TRUE                                     \* mutant of CaughtUp
CaughtUp(s, n) == applied[s][n] >= Len(log[s][n])

\* _wait_applied for entry index in term t: it returns True, it may return False.
Applied(s, n, t, index) == leads[s][n] /\ term[s][n] = t /\ applied[s][n] >= index
NotApplied(s, n, t, index) == ~(leads[s][n] /\ term[s][n] = t) \/ applied[s][n] < index

\* add_agent for agent a at position s, asked of n by a caller.
Asked(s, n, a, by) == [shard |-> s, at |-> n, agent |-> a, by |-> by, stage |-> "queued"]

\* The call c returns: the caller, if there is one still, is answered.
Return(c, verdict) ==
    /\ adds' = (adds \ {c}) \cup
         IF c.by \in Server THEN {[Asked(c.shard, c.at, c.agent, c.by) EXCEPT !.stage = verdict]} ELSE {}
    /\ placed' = IF c.by = "main" /\ verdict = "yes" THEN placed \cup {c.agent} ELSE placed

AddBegin(c) ==
    /\ c.stage = "queued" /\ ~Locked(c.shard, c.at)
    /\ \/ /\ leads[c.shard][c.at]
          /\ adds' = (adds \ {c}) \cup
               {[shard |-> c.shard, at |-> c.at, agent |-> c.agent, by |-> c.by, stage |-> "waiting",
                 index |-> Len(log[c.shard][c.at]), term |-> term[c.shard][c.at]]}
          /\ UNCHANGED placed
       \/ ~leads[c.shard][c.at] /\ Return(c, "no")
    /\ UNCHANGED <<raftVars, agents, tick, moves>>

AddPropose(c) ==
    LET s == c.shard
        n == c.at
        before == agents[s][n]
        after == [before EXCEPT ![c.agent] = s]
    IN  /\ c.stage = "waiting" /\ Applied(s, n, c.term, c.index)
        /\ agents' = [agents EXCEPT ![s][n] = after]
        /\ Propose(s, n, after)
        /\ adds' = (adds \ {c}) \cup
             {[shard |-> s, at |-> n, agent |-> c.agent, by |-> c.by, stage |-> "committing",
               index |-> Len(log[s][n]) + 1, term |-> c.term, before |-> before]}
        /\ UNCHANGED <<term, leads, applied, matchIndex, tick, placed, moves>>

AddDone(c) ==
    /\ c.stage = "committing" /\ Applied(c.shard, c.at, c.term, c.index)
    /\ Return(c, "yes")
    /\ UNCHANGED <<raftVars, agents, tick, moves>>

\* The leadership is lost or time is up.  What was added is taken back.
AddFails(c) ==
    /\ c.stage \in {"waiting", "committing"} /\ NotApplied(c.shard, c.at, c.term, c.index)
    /\ agents' = IF c.stage = "committing"
                 THEN [agents EXCEPT ![c.shard][c.at] = c.before] ELSE agents
    /\ Return(c, "no")
    /\ UNCHANGED <<raftVars, tick, moves>>

\* A call whose caller gave up may be cancelled where it waits.
AddCancelled(c) ==
    /\ c.by = "nobody"
    /\ adds' = adds \ {c}
    /\ UNCHANGED <<raftVars, agents, tick, placed, moves>>

\* spawn_agent, at the leader of the agent's shard, until it succeeds.
SpawnAgent(s, n, a) ==
    /\ leads[s][n] /\ a \notin placed /\ Len(log[s][n]) < MaxLog
    /\ \A c \in adds : c.agent # a
    /\ adds' = adds \cup {Asked(s, n, a, "main")}
    /\ UNCHANGED <<raftVars, agents, tick, placed, moves>>

-----------------------------------------------------------------------------
(* RegionServer.tick. *)

\* The tick goes on as far as it can without waiting.
Onward(t) ==
    LET sending == [at |-> "sending", out |-> t.out, call |-> Nothing, done |-> {}]
        removing(u) == [at |-> "removing", todo |-> {d.from : d \in u.done}, done |-> u.done, holds |-> Nowhere]
        sent(u) == IF u.out = {} /\ u.call = Nothing
                   THEN IF u.done = {} THEN Idle ELSE removing(u)
                   ELSE u
    IN  CASE t.at = "moving" -> IF t.todo = {} THEN sent(sending) ELSE t
          [] t.at = "sending" -> sent(t)
          [] t.at = "removing" -> IF t.todo = {} THEN Idle ELSE t

TickBegin(n) ==
    /\ tick[n] = Idle /\ \E s \in Shard : leads[s][n]
    /\ \A s \in Shard : leads[s][n] => Len(log[s][n]) < MaxLog
    /\ tick' = [tick EXCEPT ![n] = [at |-> "moving", todo |-> Shard, queued |-> {}, out |-> {}]]
    /\ UNCHANGED <<raftVars, agents, adds, placed, moves>>

\* Shards that others lead are passed over; the lock may have to be waited for.
TickLooks(n, s) ==
    LET t == tick[n] IN
    /\ t.at = "moving" /\ s \in t.todo /\ t.queued = {}
    /\ \/ ~leads[s][n] /\ tick' = [tick EXCEPT ![n] = Onward([t EXCEPT !.todo = @ \ {s}])]
       \/ leads[s][n] /\ Locked(s, n) /\ tick' = [tick EXCEPT ![n].queued = {s}]
    /\ UNCHANGED <<raftVars, agents, adds, placed, moves>>

\* Where the agents of a registry may be one step later.
Moved(registry) ==
    {r \in [Agent -> Shard \cup {Nowhere}] : \A a \in Agent : r[a] = Nowhere <=> registry[a] = Nowhere}
Crossings(registry, r) == Cardinality({a \in Agent : r[a] # registry[a]})

\* Phase 1, in the lock: the agents move one step and the result is proposed.
TickMoves(n, s) ==
    LET t == tick[n] IN
    /\ t.at = "moving" /\ s \in t.todo /\ t.queued \subseteq {s} /\ ~Locked(s, n)
    /\ t.queued = {} => leads[s][n]
    /\ \/ /\ CaughtUp(s, n)
          /\ \E r \in Moved(agents[s][n]) :
               LET leaving == {[from |-> s, agent |-> a, to |-> r[a]] :
                                 a \in {b \in Agent : r[b] \notin {s, Nowhere}}}
               IN  /\ moves + Crossings(agents[s][n], r) <= MaxMoves
                   /\ moves' = moves + Crossings(agents[s][n], r)
                   /\ agents' = [agents EXCEPT ![s][n] = r]
                   /\ Propose(s, n, r)
                   /\ tick' = [tick EXCEPT ![n] =
                        Onward([t EXCEPT !.todo = @ \ {s}, !.queued = {}, !.out = @ \cup leaving])]
       \/ /\ ~CaughtUp(s, n)
          /\ tick' = [tick EXCEPT ![n] = Onward([t EXCEPT !.todo = @ \ {s}, !.queued = {}])]
          /\ UNCHANGED <<log, agents, moves>>
    /\ UNCHANGED <<term, leads, applied, matchIndex, adds, placed>>

\* Phase 2: one hand-off after the other.  The request names the leader and the
\* term that n last heard of; one that names others than l and its term is refused.
HandOff(n, d, l) ==
    LET t == tick[n] IN
    /\ t.at = "sending" /\ t.call = Nothing /\ d \in t.out /\ leads[d.to][l]
    /\ adds' = adds \cup {Asked(d.to, l, d.agent, n)}
    /\ tick' = [tick EXCEPT ![n].out = @ \ {d}, ![n].call = d]
    /\ UNCHANGED <<raftVars, agents, placed, moves>>

\* No leader is known, the call fails or the request is refused.
HandOffDeferred(n, d) ==
    LET t == tick[n] IN
    /\ t.at = "sending" /\ t.call = Nothing /\ d \in t.out
    /\ tick' = [tick EXCEPT ![n] = Onward([t EXCEPT !.out = @ \ {d}])]
    /\ UNCHANGED <<raftVars, agents, adds, placed, moves>>

Deferred(t, verdict) == {t.call}                                 \* mutant of Accepted
Accepted(t, verdict) == IF verdict = "yes" THEN {t.call} ELSE {}

HandOffAnswered(n, c) ==
    LET t == tick[n] IN
    /\ c.by = n /\ c.stage \in {"yes", "no"}
    /\ adds' = adds \ {c}
    /\ tick' = [tick EXCEPT ![n] = Onward([t EXCEPT !.call = Nothing, !.done = @ \cup Accepted(t, c.stage)])]
    /\ UNCHANGED <<raftVars, agents, placed, moves>>

\* The deadline of the call passes, or the connection or its other end is lost.
HandOffGivenUp(n) ==
    LET t == tick[n] IN
    /\ t.at = "sending" /\ t.call # Nothing
    /\ adds' = {IF c.by = n THEN [c EXCEPT !.by = "nobody"] ELSE c :
                  c \in {x \in adds : ~(x.by = n /\ x.stage \in {"yes", "no"})}}
    /\ tick' = [tick EXCEPT ![n] = Onward([t EXCEPT !.call = Nothing])]
    /\ UNCHANGED <<raftVars, agents, placed, moves>>

RemoveBegin(n, s) ==
    LET t == tick[n] IN
    /\ t.at = "removing" /\ t.holds = Nowhere /\ s \in t.todo /\ ~Locked(s, n)
    /\ tick' = [tick EXCEPT ![n] =
         IF leads[s][n]
         THEN [at |-> "removing", todo |-> t.todo, done |-> t.done, holds |-> s,
               index |-> Len(log[s][n]), term |-> term[s][n]]
         ELSE Onward([t EXCEPT !.todo = @ \ {s}])]
    /\ UNCHANGED <<raftVars, agents, adds, placed, moves>>

\* Accepted agents are dropped from the registry of the shard they left.
Remove(n) ==
    LET t == tick[n]
        s == t.holds
        r == [a \in Agent |-> IF \E d \in t.done : d.from = s /\ d.agent = a THEN Nowhere ELSE agents[s][n][a]]
    IN  /\ t.at = "removing" /\ s # Nowhere /\ Applied(s, n, t.term, t.index)
        /\ agents' = [agents EXCEPT ![s][n] = r]
        /\ Propose(s, n, r)
        /\ tick' = [tick EXCEPT ![n] = Onward([t EXCEPT !.todo = @ \ {s}, !.holds = Nowhere])]
        /\ UNCHANGED <<term, leads, applied, matchIndex, adds, placed, moves>>

RemoveFails(n) ==
    LET t == tick[n] IN
    /\ t.at = "removing" /\ t.holds # Nowhere /\ NotApplied(t.holds, n, t.term, t.index)
    /\ tick' = [tick EXCEPT ![n] = Onward([t EXCEPT !.todo = @ \ {t.holds}, !.holds = Nowhere])]
    /\ UNCHANGED <<raftVars, agents, adds, placed, moves>>

-----------------------------------------------------------------------------
Raft(s, n) == Elect(s, n) \/ Commit(s, n) \/ \E m \in Server : Replicate(s, n, m)

Add(c) == AddBegin(c) \/ AddPropose(c) \/ AddDone(c) \/ AddFails(c) \/ AddCancelled(c)

Tick(n) ==
    \/ TickBegin(n) \/ HandOffGivenUp(n) \/ Remove(n) \/ RemoveFails(n)
    \/ \E s \in Shard : TickLooks(n, s) \/ TickMoves(n, s) \/ RemoveBegin(n, s)
    \/ \E c \in adds : HandOffAnswered(n, c)
    \/ tick[n].at = "sending" /\ \E d \in tick[n].out :
         HandOffDeferred(n, d) \/ \E l \in Server : HandOff(n, d, l)

Next ==
    \/ \E s \in Shard, n \in Server : Raft(s, n) \/ \E a \in Agent : SpawnAgent(s, n, a)
    \/ \E c \in adds : Add(c)
    \/ \E n \in Server : Tick(n)

Spec == Init /\ [][Next]_vars

-----------------------------------------------------------------------------
\* The registry that is committed for a shard: what the server that applied the
\* most of its log has applied.
Committed(s) ==
    LET n == CHOOSE m \in Server : \A q \in Server : applied[s][q] <= applied[s][m]
    IN  Applying([a \in Agent |-> Nowhere], log[s][n], 0, applied[s][n])

\* handoff.py:5-6, "never lose one", and README.md:21, "loses nothing": an agent
\* that was placed durably is in the committed registry of some shard, whoever
\* leads, crashes or gives up on a call (add_agent, tick, HandOff).
NeverLost == \A a \in placed : \E s \in Shard : Committed(s)[a] # Nowhere
=============================================================================
