-------------------------------- MODULE Swim --------------------------------
(***************************************************************************)
(* SWIM membership and failure detection as src/dssd/swim.py implements    *)
(* it.  A member's code runs on one event loop, so what happens between    *)
(* two awaits is one action.  The awaits are the requests (a datagram and  *)
(* the wait for its ack), the sleeps of the two loops and the suspicion    *)
(* timers.                                                                 *)
(*                                                                         *)
(* A request and its ack share a sequence number that names the coroutine  *)
(* that waits.  Here a datagram says whom it is for: why (which coroutine  *)
(* of a member) and for (whose probe it serves).  When a coroutine stops   *)
(* waiting, the code forgets the number; here the datagrams of that wait   *)
(* still in flight become "late".                                          *)
(***************************************************************************)
EXTENDS Integers, FiniteSets, FiniteSetsExt

CONSTANTS
    Node,              \* the members; a member's address is its name
    Contact,           \* the member the others join
    MaxTransmits,      \* MAX_TRANSMITS_PER_UPDATE
    MaxUpdates,        \* MAX_UPDATES_PER_MESSAGE
    IndirectPingCount,
    Prober,            \* bound: the members whose two loops run
    Fragile,           \* bound: the members that may be stopped
    MaxIncarnation,    \* bound: no probe fails for a member at this incarnation
    MaxMessages,       \* bound: no probe or re-ping starts with this many datagrams in flight
    MaxCrashes         \* bound: crashes in one behaviour

ASSUME SwimAssumption ==
    /\ IsFiniteSet(Node) /\ Contact \in Node /\ Prober \subseteq Node /\ Fragile \subseteq Node
    /\ MaxTransmits \in Nat \ {0} /\ MaxUpdates \in Nat /\ IndirectPingCount \in Nat
    /\ MaxIncarnation \in Nat /\ MaxMessages \in Nat /\ MaxCrashes \in Nat

VARIABLES
    up,            \* is the member running (between start() and stop())
    incarnation,
    members,       \* what a member knows of each other one
    broadcasts,    \* the updates a member still gossips, with how often it did
    probe,         \* the probe loop of a member: what it waits for
    revival,       \* the loop that re-pings dead members
    relays,        \* pings a member makes for someone else
    timers,        \* running suspicion timers
    msgs,          \* datagrams in flight
    crashes        \* how often some member was stopped

beliefVars == <<incarnation, members, broadcasts, timers>>
taskVars == <<probe, revival, relays>>
vars == <<up, beliefVars, taskVars, msgs, crashes>>

\* The values double as severity.
Alive == 0
Suspect == 1
Dead == 2
Status == [state : {Alive, Suspect, Dead}, inc : Nat]
Unknown == [state |-> -1, inc |-> 0]
Update == [id : Node, state : {Alive, Suspect, Dead}, inc : Nat]
Why == {"probe", "ask", "revive", "relay", "join", "late"}

Ping == [type : {"ping"}, src : Node, dst : Node, why : Why, for : Node,
         inc : Nat, updates : SUBSET Update]
Ack == [type : {"ack"}, src : Node, dst : Node, why : Why, for : Node,
        inc : Nat, updates : SUBSET Update]
PingReq == [type : {"ping-req"}, src : Node, dst : Node, why : Why, for : Node,
            target : Node, inc : Nat, updates : SUBSET Update]
Join == [type : {"join", "join-ack"}, src : Node, dst : Node, why : Why, for : Node,
         inc : Nat, updates : SUBSET Update]
Message == Ping \cup Ack \cup PingReq \cup Join

Idle == [at |-> "idle"]
Probing == [at : {"ping"}, target : Node, others : SUBSET Node]
Asking == [at : {"ask"}, target : Node, open : SUBSET Node, acked : BOOLEAN]
Reviving == [at : {"ping", "acked"}, target : Node]
Relay == [for : Node, target : Node, late : BOOLEAN]

TypeOK ==
    /\ up \in [Node -> BOOLEAN]
    /\ incarnation \in [Node -> Nat]
    /\ members \in [Node -> [Node -> Status \cup {Unknown}]]
    /\ broadcasts \in [Node -> SUBSET [id : Node, state : {Alive, Suspect, Dead},
                                      inc : Nat, sent : 0..MaxTransmits - 1]]
    /\ probe \in [Node -> {Idle} \cup Probing \cup Asking]
    /\ revival \in [Node -> {Idle} \cup Reviving]
    /\ relays \in [Node -> SUBSET Relay]
    /\ timers \in [Node -> SUBSET [id : Node, inc : Nat]]
    /\ msgs \subseteq Message
    /\ crashes \in Nat

-----------------------------------------------------------------------------
(* Updates. *)

\* SWIM's conflict rule.
Supersedes(u, current) ==
    \/ u.state = Dead /\ current.state # Dead
    \/ /\ u.state # Dead
       /\ \/ u.inc > current.inc
          \/ u.inc = current.inc /\ u.state > current.state

\* Strangers are learnt of unless they are dead already.
Accepts(n, u) ==
    /\ u.id # n
    /\ IF members[n][u.id] = Unknown THEN u.state # Dead
       ELSE Supersedes(u, members[n][u.id])

\* What n changes its mind about when it is told updates.
News(n, told) == {u \in told : Accepts(n, u)}
Rumours(n, told) == {u \in told : u.id = n /\ u.state # Alive /\ u.inc >= incarnation[n]}

\* Gossip of an update starts with a count of 0, in the place of older gossip
\* about the same member.
Fresh(u) == [id |-> u.id, state |-> u.state, inc |-> u.inc, sent |-> 0]
PutNext(table, us) == table \cup {Fresh(u) : u \in us}          \* mutant of Put
Put(table, us) == {e \in table : \A u \in us : e.id # u.id} \cup {Fresh(u) : u \in us}

\* The incarnation of n after it refuted what it was told about itself.
Refuting(n, told) ==
    IF Rumours(n, told) = {} THEN incarnation[n]
    ELSE Max({u.inc : u \in Rumours(n, told)}) + 1

\* The updates n gossips once it was told some.
Gossip(n, told) ==
    Put(broadcasts[n],
        News(n, told) \cup
        IF Rumours(n, told) = {} THEN {}
        ELSE {[id |-> n, state |-> Alive, inc |-> Refuting(n, told)]})

\* mutant of Started: no suspicion timers
NoTimer(n, us) == {}

\* _set for each of some updates: a member that was not suspected and now is
\* gets a suspicion timer.
Started(n, us) ==
    {[id |-> u.id, inc |-> u.inc] : u \in {v \in us :
        v.state = Suspect /\ members[n][v.id].state # Suspect}}

\* n believes the updates us, at most one for each member.
Believe(n, us) ==
    /\ members' = [members EXCEPT ![n] = [id \in Node |->
         IF \E u \in us : u.id = id
         THEN LET u == CHOOSE v \in us : v.id = id IN [state |-> u.state, inc |-> u.inc]
         ELSE members[n][id]]]
    /\ timers' = [timers EXCEPT ![n] = @ \cup Started(n, us)]

\* _set for one member, outside of gossip.
Set(n, u) ==
    /\ Believe(n, {u})
    /\ broadcasts' = [broadcasts EXCEPT ![n] = Put(@, {u})]
    /\ UNCHANGED incarnation

\* _take_broadcasts: the least gossiped updates of a table, as many as fit.
Due(table) ==
    {us \in SUBSET table :
        /\ Cardinality(us) = Min({MaxUpdates, Cardinality(table)})
        /\ \A e \in us, f \in table \ us : e.sent <= f.sent}
OnceMore(table, us) ==                                          \* mutant of AfterSending
    (table \ us) \cup {[e EXCEPT !.sent = @ + 1] : e \in {f \in us : f.sent < MaxTransmits}}
AfterSending(table, us) ==
    (table \ us) \cup {[e EXCEPT !.sent = @ + 1] : e \in {f \in us : f.sent + 1 < MaxTransmits}}
Content(us) == {[id |-> e.id, state |-> e.state, inc |-> e.inc] : e \in us}

-----------------------------------------------------------------------------
(* Waiting and no longer waiting. *)

IsRequest(m) == m.type \in {"ping", "ping-req", "join"}

\* The coroutine why of n, serving member for, sent m or waits for it.
Concerns(m, n, why, for) ==
    m.why = why /\ m.for = for /\ n = (IF IsRequest(m) THEN m.src ELSE m.dst)

\* mutant of Forget: an ack is not matched with the ping of its probe
Remember(ms, n, why, for) ==
    {IF why # "probe" /\ Concerns(m, n, why, for) THEN [m EXCEPT !.why = "late", !.for = m.src] ELSE m : m \in ms}

\* The datagrams ms once that coroutine stops waiting.
Forget(ms, n, why, for) ==
    {IF Concerns(m, n, why, for) THEN [m EXCEPT !.why = "late", !.for = m.src] ELSE m : m \in ms}

RoomFor(k) == Cardinality(msgs) + k <= MaxMessages

-----------------------------------------------------------------------------
Strangers == [id \in Node |-> Unknown]

\* Nobody knows anybody.
Init ==
    /\ up = [n \in Node |-> TRUE]
    /\ incarnation = [n \in Node |-> 0]
    /\ members = [n \in Node |-> Strangers]
    /\ broadcasts = [n \in Node |-> {}]
    /\ probe = [n \in Node |-> Idle]
    /\ revival = [n \in Node |-> Idle]
    /\ relays = [n \in Node |-> {}]
    /\ timers = [n \in Node |-> {}]
    /\ msgs = {}
    /\ crashes = 0

-----------------------------------------------------------------------------
(* Probing. *)

Candidates(n) == {t \in Node : members[n][t].state \in {Alive, Suspect}}

\* The probe loop pings someone not known to be dead.
ProbeMember(n, t) ==
    /\ up[n] /\ n \in Prober /\ probe[n] = Idle /\ t \in Candidates(n) /\ RoomFor(1)
    /\ probe' = [probe EXCEPT ![n] =
                   [at |-> "ping", target |-> t, others |-> Candidates(n) \ {t}]]
    /\ \E us \in Due(broadcasts[n]) :
         /\ broadcasts' = [broadcasts EXCEPT ![n] = AfterSending(@, us)]
         /\ msgs' = msgs \cup {[type |-> "ping", src |-> n, dst |-> t, why |-> "probe", for |-> n,
                                inc |-> incarnation[n], updates |-> Content(us)]}
    /\ UNCHANGED <<up, incarnation, members, timers, revival, relays, crashes>>

\* No direct ack: helpers are asked, of those that were candidates to begin with.
ProbeTimeout(n) ==
    /\ up[n] /\ probe[n].at = "ping"
    /\ \E helpers \in SUBSET probe[n].others :
         /\ Cardinality(helpers) = Min({IndirectPingCount, Cardinality(probe[n].others)})
         /\ RoomFor(Cardinality(helpers))
         /\ probe' = [probe EXCEPT ![n] =
                        [at |-> "ask", target |-> @.target, open |-> helpers, acked |-> FALSE]]
         /\ msgs' = Forget(msgs, n, "probe", n) \cup
              {[type |-> "ping-req", src |-> n, dst |-> h, why |-> "ask", for |-> n,
                target |-> probe[n].target, inc |-> incarnation[n], updates |-> {}] : h \in helpers}
    /\ UNCHANGED <<up, beliefVars, revival, relays, crashes>>

\* One helper did not report back in time.
AskTimeout(n, h) ==
    /\ up[n] /\ probe[n].at = "ask" /\ h \in probe[n].open
    /\ probe' = [probe EXCEPT ![n].open = @ \ {h}]
    /\ UNCHANGED <<up, beliefVars, revival, relays, msgs, crashes>>

\* mutant of ProbeVerdict: what became of the target meanwhile is not looked at
SuspectAnyway(n) ==
    LET t == probe[n].target IN
    /\ up[n] /\ probe[n].at = "ask" /\ probe[n].open = {}
    /\ \/ /\ ~probe[n].acked /\ members[n][t].inc < MaxIncarnation
          /\ Set(n, [id |-> t, state |-> Suspect, inc |-> members[n][t].inc])
       \/ probe[n].acked /\ UNCHANGED beliefVars
    /\ probe' = [probe EXCEPT ![n] = Idle]
    /\ msgs' = Forget(msgs, n, "ask", n)
    /\ relays' = [h \in Node |-> {IF r.for = n THEN [r EXCEPT !.late = TRUE] ELSE r : r \in relays[h]}]
    /\ UNCHANGED <<up, revival, crashes>>

\* All helpers reported or timed out: the target, if it still counts as alive,
\* becomes suspect unless one of them reached it.
ProbeVerdict(n) ==
    LET t == probe[n].target IN
    /\ up[n] /\ probe[n].at = "ask" /\ probe[n].open = {}
    /\ \/ /\ ~probe[n].acked /\ members[n][t].state = Alive
          /\ members[n][t].inc < MaxIncarnation
          /\ Set(n, [id |-> t, state |-> Suspect, inc |-> members[n][t].inc])
       \/ /\ probe[n].acked \/ members[n][t].state # Alive
          /\ UNCHANGED beliefVars
    /\ probe' = [probe EXCEPT ![n] = Idle]
    /\ msgs' = Forget(msgs, n, "ask", n)
    /\ relays' = [h \in Node |-> {IF r.for = n THEN [r EXCEPT !.late = TRUE] ELSE r : r \in relays[h]}]
    /\ UNCHANGED <<up, revival, crashes>>

\* mutant of SuspicionTimeout: what became of the member is not looked at
KillAnyway(n, t) ==
    /\ up[n] /\ t \in timers[n]
    /\ members' = [members EXCEPT ![n][t.id].state = Dead]
    /\ broadcasts' = [broadcasts EXCEPT ![n] =
         Put(@, {[id |-> t.id, state |-> Dead, inc |-> members[n][t.id].inc]})]
    /\ timers' = [timers EXCEPT ![n] = @ \ {t}]
    /\ UNCHANGED <<up, incarnation, taskVars, msgs, crashes>>

\* A suspicion timer runs out: nobody refuted, so the member is dead.
SuspicionTimeout(n, t) ==
    /\ up[n] /\ t \in timers[n]
    /\ \/ /\ members[n][t.id] = [state |-> Suspect, inc |-> t.inc]
          /\ members' = [members EXCEPT ![n][t.id].state = Dead]
          /\ broadcasts' = [broadcasts EXCEPT ![n] =
               Put(@, {[id |-> t.id, state |-> Dead, inc |-> t.inc]})]
       \/ /\ members[n][t.id] # [state |-> Suspect, inc |-> t.inc]
          /\ UNCHANGED <<members, broadcasts>>
    /\ timers' = [timers EXCEPT ![n] = @ \ {t}]
    /\ UNCHANGED <<up, incarnation, taskVars, msgs, crashes>>

-----------------------------------------------------------------------------
(* Re-pinging the dead. *)

Revive(n, t) ==
    /\ up[n] /\ n \in Prober /\ revival[n] = Idle /\ members[n][t].state = Dead /\ RoomFor(1)
    /\ revival' = [revival EXCEPT ![n] = [at |-> "ping", target |-> t]]
    /\ msgs' = msgs \cup {[type |-> "ping", src |-> n, dst |-> t, why |-> "revive", for |-> n,
                           inc |-> incarnation[n], updates |-> {}]}
    /\ UNCHANGED <<up, beliefVars, probe, relays, crashes>>

ReviveTimeout(n) ==
    /\ up[n] /\ revival[n].at = "ping"
    /\ revival' = [revival EXCEPT ![n] = Idle]
    /\ msgs' = Forget(msgs, n, "revive", n)
    /\ UNCHANGED <<up, beliefVars, probe, relays, crashes>>

\* mutant of ReviveVerdict: whether it is still dead is not looked at
ReviveAnyway(n) ==
    LET t == revival[n].target IN
    /\ up[n] /\ revival[n].at = "acked"
    /\ Set(n, [id |-> t, state |-> Alive, inc |-> members[n][t].inc + 1])
    /\ revival' = [revival EXCEPT ![n] = Idle]
    /\ UNCHANGED <<up, probe, relays, msgs, crashes>>

\* It answered: unless that has changed meanwhile, it is no longer dead, and its
\* incarnation is bumped for it.
ReviveVerdict(n) ==
    LET t == revival[n].target IN
    /\ up[n] /\ revival[n].at = "acked"
    /\ \/ /\ members[n][t].state = Dead
          /\ Set(n, [id |-> t, state |-> Alive, inc |-> members[n][t].inc + 1])
       \/ /\ members[n][t].state # Dead
          /\ UNCHANGED beliefVars
    /\ revival' = [revival EXCEPT ![n] = Idle]
    /\ UNCHANGED <<up, probe, relays, msgs, crashes>>

-----------------------------------------------------------------------------
(* Receiving.  Whatever the datagram, its sender and its updates are merged *)
(* first.                                                                   *)

Told(m) == m.updates \cup {[id |-> m.src, state |-> Alive, inc |-> m.inc]}

Learn(m) ==
    /\ up[m.dst] /\ m \in msgs
    /\ Believe(m.dst, News(m.dst, Told(m)))
    /\ incarnation' = [incarnation EXCEPT ![m.dst] = Refuting(m.dst, Told(m))]

\* Learn, when nothing is sent back.
LearnOnly(m) ==
    /\ Learn(m)
    /\ broadcasts' = [broadcasts EXCEPT ![m.dst] = Gossip(m.dst, Told(m))]

\* An ack carries gossip of its own.
HandlePing(m) ==
    LET n == m.dst IN
    /\ Learn(m) /\ m.type = "ping"
    /\ \E us \in Due(Gossip(n, Told(m))) :
         /\ broadcasts' = [broadcasts EXCEPT ![n] = AfterSending(Gossip(n, Told(m)), us)]
         /\ msgs' = (msgs \ {m}) \cup
              {[type |-> "ack", src |-> n, dst |-> m.src, why |-> m.why, for |-> m.for,
                inc |-> incarnation'[n], updates |-> Content(us)]}
    /\ UNCHANGED <<up, taskVars, crashes>>

HandlePingReq(m) ==
    LET n == m.dst IN
    /\ m.type = "ping-req"
    /\ \A r \in relays[n] : r.for # m.src      \* bound: one relay for a member at a time
    /\ LearnOnly(m)
    /\ relays' = [relays EXCEPT ![n] =
                    @ \cup {[for |-> m.src, target |-> m.target, late |-> m.why = "late"]}]
    /\ msgs' = (msgs \ {m}) \cup
         {[type |-> "ping", src |-> n, dst |-> m.target, why |-> "relay", for |-> m.src,
           inc |-> incarnation'[n], updates |-> {}]}
    /\ UNCHANGED <<up, probe, revival, crashes>>

RelayTimeout(n, r) ==
    /\ up[n] /\ r \in relays[n]
    /\ relays' = [relays EXCEPT ![n] = @ \ {r}]
    /\ msgs' = Forget(msgs, n, "relay", r.for)
    /\ UNCHANGED <<up, beliefVars, probe, revival, crashes>>

\* The waiter of an ack, if it still waits, goes on.
HandleAck(m) ==
    LET n == m.dst
        relayed == {r \in relays[n] : m.why = "relay" /\ r.for = m.for}
    IN  /\ m.type = "ack"
        /\ LearnOnly(m)
        /\ probe' = [probe EXCEPT ![n] =
             CASE m.why = "probe" -> Idle
               [] m.why = "ask" /\ @.at = "ask" ->
                    IF m.src \in @.open THEN [@ EXCEPT !.open = @ \ {m.src}, !.acked = TRUE] ELSE @
               [] OTHER -> @]
        /\ revival' = [revival EXCEPT ![n] = IF m.why = "revive" THEN [@ EXCEPT !.at = "acked"] ELSE @]
        /\ relays' = [relays EXCEPT ![n] = @ \ relayed]
        /\ msgs' = (msgs \ {m}) \cup
             {[type |-> "ack", src |-> n, dst |-> r.for, why |-> IF r.late THEN "late" ELSE "ask",
               for |-> r.for, inc |-> incarnation'[n], updates |-> {}] : r \in relayed}
        /\ UNCHANGED <<up, crashes>>

-----------------------------------------------------------------------------
(* Joining. *)

\* A process that knows nobody asks the contact.
JoinContact(n) ==
    /\ up[n] /\ n # Contact /\ members[n] = Strangers /\ RoomFor(1)
    /\ msgs' = msgs \cup {[type |-> "join", src |-> n, dst |-> Contact, why |-> "join", for |-> n,
                           inc |-> incarnation[n], updates |-> {}]}
    /\ UNCHANGED <<up, beliefVars, taskVars, crashes>>

\* The member list of n, now that it has learnt of the newcomer.
MemberList(n) ==
    {[id |-> t, state |-> members'[n][t].state, inc |-> members'[n][t].inc] :
       t \in {s \in Node : members'[n][s] # Unknown}}

HandleJoin(m) ==
    LET n == m.dst IN
    /\ m.type = "join"
    /\ LearnOnly(m)
    /\ msgs' = (msgs \ {m}) \cup
         {[type |-> "join-ack", src |-> n, dst |-> m.src, why |-> "join", for |-> m.src,
           inc |-> incarnation'[n], updates |-> MemberList(n)]}
    /\ UNCHANGED <<up, taskVars, crashes>>

HandleJoinAck(m) ==
    /\ m.type = "join-ack"
    /\ LearnOnly(m)
    /\ msgs' = msgs \ {m}
    /\ UNCHANGED <<up, taskVars, crashes>>

-----------------------------------------------------------------------------
(* What the network and the members' failures do. *)

Lose(m) ==
    /\ m \in msgs
    /\ msgs' = msgs \ {m}
    /\ UNCHANGED <<up, beliefVars, taskVars, crashes>>

\* stop(): every task is cancelled, the suspicion timers among them.
Crash(n) ==
    /\ up[n] /\ n \in Fragile /\ crashes < MaxCrashes
    /\ up' = [up EXCEPT ![n] = FALSE]
    /\ crashes' = crashes + 1
    /\ probe' = [probe EXCEPT ![n] = Idle]
    /\ revival' = [revival EXCEPT ![n] = Idle]
    /\ relays' = [h \in Node |-> IF h = n THEN {} ELSE
                    {IF r.for = n THEN [r EXCEPT !.late = TRUE] ELSE r : r \in relays[h]}]
    /\ timers' = [timers EXCEPT ![n] = {}]
    /\ msgs' = {IF n = (IF IsRequest(m) THEN m.src ELSE m.dst)
                THEN [m EXCEPT !.why = "late", !.for = m.src] ELSE m : m \in msgs}
    /\ UNCHANGED <<incarnation, members, broadcasts>>

\* start() on the same object: what it knew and gossiped is still there.
Restart(n) ==
    /\ ~up[n]
    /\ up' = [up EXCEPT ![n] = TRUE]
    /\ UNCHANGED <<beliefVars, taskVars, msgs, crashes>>

-----------------------------------------------------------------------------
Deliver(m) ==
    HandlePing(m) \/ HandlePingReq(m) \/ HandleAck(m) \/ HandleJoin(m) \/ HandleJoinAck(m)

Step(n) ==
    \/ \E t \in Node : ProbeMember(n, t) \/ AskTimeout(n, t) \/ Revive(n, t)
    \/ ProbeTimeout(n) \/ ProbeVerdict(n) \/ ReviveTimeout(n) \/ ReviveVerdict(n)
    \/ \E t \in timers[n] : SuspicionTimeout(n, t)
    \/ \E r \in relays[n] : RelayTimeout(n, r)
    \/ JoinContact(n)
    \/ Crash(n) \/ Restart(n)

Next ==
    \/ \E n \in Node : Step(n)
    \/ \E m \in msgs : Deliver(m) \/ Lose(m)

Spec == Init /\ [][Next]_vars

-----------------------------------------------------------------------------
\* A member gossips of another only what it believes of it now, and of itself
\* only its present incarnation, however rumours, timers and re-pings interleave
\* (_set, _merge).
GossipIsBelief ==
    \A n \in Node : \A e \in broadcasts[n] :
        IF e.id = n THEN e.state = Alive /\ e.inc = incarnation[n]
        ELSE members[n][e.id] = [state |-> e.state, inc |-> e.inc]
=============================================================================
