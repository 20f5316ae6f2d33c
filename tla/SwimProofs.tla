----------------------------- MODULE SwimProofs -----------------------------
(***************************************************************************)
(* Proofs about Swim for groups of every size, every gossip budget and all *)
(* bounds.                                                                 *)
(***************************************************************************)
EXTENDS Swim, TLAPS

-----------------------------------------------------------------------------
(* Tables and datagrams. *)

Table == SUBSET [id : Node, state : {Alive, Suspect, Dead}, inc : Nat, sent : 0..MaxTransmits - 1]

\* Of each member, a set of updates says one thing at most.
OneEach(us) == \A u, v \in us : u.id = v.id => u = v

\* What the member n gossips in a table agrees with a belief and an incarnation.
Agrees(table, n, belief, inc) ==
  \A e \in table :
    IF e.id = n THEN e.state = Alive /\ e.inc = inc
    ELSE belief[e.id] = [state |-> e.state, inc |-> e.inc]

Waiter(m) == IF IsRequest(m) THEN m.src ELSE m.dst

LEMMA UpdateFields ==
  ASSUME NEW u \in Update
  PROVE  /\ u.id \in Node /\ u.state \in {Alive, Suspect, Dead} /\ u.inc \in Nat
         /\ Fresh(u) \in [id : Node, state : {Alive, Suspect, Dead}, inc : Nat, sent : 0..MaxTransmits - 1]
  BY SwimAssumption DEF Update, Fresh

LEMMA PutType ==
  ASSUME NEW table \in Table, NEW us \in SUBSET Update
  PROVE  Put(table, us) \in Table
<1>1. \A u \in us : Fresh(u) \in [id : Node, state : {Alive, Suspect, Dead}, inc : Nat, sent : 0..MaxTransmits - 1]
  BY UpdateFields
<1>. QED BY <1>1 DEF Put, Table

\* Sending spends the budget of what is sent, and drops what has none left.
LEMMA SendingType ==
  ASSUME NEW table \in Table, NEW us \in Due(table)
  PROVE  /\ AfterSending(table, us) \in Table
         /\ Content(us) \in SUBSET Update
<1>1. us \subseteq table
  BY DEF Due
<1>2. ASSUME NEW e \in us, e.sent + 1 < MaxTransmits
      PROVE  [e EXCEPT !.sent = @ + 1] \in [id : Node, state : {Alive, Suspect, Dead}, inc : Nat, sent : 0..MaxTransmits - 1]
  BY <1>1, <1>2, SwimAssumption DEF Table
<1>3. AfterSending(table, us) \in Table
  BY <1>1, <1>2 DEF AfterSending, Table
<1>4. Content(us) \in SUBSET Update
  BY <1>1 DEF Content, Table, Update
<1>. QED BY <1>3, <1>4

LEMMA SendingAgrees ==
  ASSUME NEW table \in Table, NEW us \in Due(table), NEW n, NEW belief, NEW inc,
         Agrees(table, n, belief, inc)
  PROVE  /\ Agrees(AfterSending(table, us), n, belief, inc)
         /\ OneEach(Content(us) \cup {[id |-> n, state |-> Alive, inc |-> inc]})
<1>1. us \subseteq table
  BY DEF Due
<1>2. ASSUME NEW f \in AfterSending(table, us)
      PROVE  \E e \in table : f.id = e.id /\ f.state = e.state /\ f.inc = e.inc
  <2>1. ASSUME NEW e \in us, f = [e EXCEPT !.sent = @ + 1]
        PROVE  f.id = e.id /\ f.state = e.state /\ f.inc = e.inc
    BY <1>1, <2>1 DEF Table
  <2>2. f \in table \/ \E e \in us : f = [e EXCEPT !.sent = @ + 1]
    BY <1>2, Zenon DEF AfterSending
  <2>3. CASE f \in table
    BY <2>3
  <2>4. CASE \E e \in us : f = [e EXCEPT !.sent = @ + 1]
    <3>1. PICK e \in us : f = [e EXCEPT !.sent = @ + 1]
      BY <2>4
    <3>2. e \in table /\ f.id = e.id /\ f.state = e.state /\ f.inc = e.inc
      BY <1>1, <2>1, <3>1
    <3>. QED BY <3>2
  <2>. QED BY <2>2, <2>3, <2>4
<1>3. ASSUME NEW f \in AfterSending(table, us)
      PROVE  IF f.id = n THEN f.state = Alive /\ f.inc = inc
             ELSE belief[f.id] = [state |-> f.state, inc |-> f.inc]
  <2>1. PICK e \in table : f.id = e.id /\ f.state = e.state /\ f.inc = e.inc
    BY <1>2
  <2>2. IF e.id = n THEN e.state = Alive /\ e.inc = inc
        ELSE belief[e.id] = [state |-> e.state, inc |-> e.inc]
    BY <2>1 DEF Agrees
  <2>. QED BY <2>1, <2>2
<1>4. ASSUME NEW u \in Content(us)
      PROVE  IF u.id = n THEN u = [id |-> n, state |-> Alive, inc |-> inc]
             ELSE belief[u.id] = [state |-> u.state, inc |-> u.inc] /\ u = [id |-> u.id, state |-> u.state, inc |-> u.inc]
  BY <1>1 DEF Content, Agrees
<1>5. ASSUME NEW u \in Content(us), NEW v \in Content(us), u.id = v.id PROVE u = v
  <2>1. CASE u.id = n
    BY <1>4, <1>5, <2>1
  <2>2. CASE u.id # n
    <3>1. [state |-> u.state, inc |-> u.inc] = [state |-> v.state, inc |-> v.inc]
      BY <1>4, <1>5, <2>2
    <3>2. u.state = v.state /\ u.inc = v.inc
      BY <3>1
    <3>. QED BY <1>4, <1>5, <2>2, <3>2
  <2>. QED BY <2>1, <2>2
<1>6. ASSUME NEW u \in Content(us), u.id = n PROVE u = [id |-> n, state |-> Alive, inc |-> inc]
  BY <1>4, <1>6
<1>. QED BY <1>3, <1>5, <1>6 DEF OneEach, Agrees

\* A datagram that is late says the same as before.
LEMMA LateMessage ==
  ASSUME NEW m \in Message
  PROVE  LET k == [m EXCEPT !.why = "late", !.for = m.src] IN
         k \in Message /\ Told(k) = Told(m) /\ k.why = "late"
<1>1. CASE m \in Ping
  BY <1>1 DEF Message, Ping, Told, Why
<1>2. CASE m \in Ack
  BY <1>2 DEF Message, Ack, Told, Why
<1>3. CASE m \in PingReq
  BY <1>3 DEF Message, PingReq, Told, Why
<1>4. CASE m \in Join
  BY <1>4 DEF Message, Join, Told, Why
<1>. QED BY <1>1, <1>2, <1>3, <1>4 DEF Message

LEMMA ToldType ==
  ASSUME NEW m \in Message
  PROVE  /\ m.src \in Node /\ m.dst \in Node /\ m.for \in Node /\ m.inc \in Nat /\ m.why \in Why
         /\ Told(m) \in SUBSET Update
  BY DEF Message, Ping, Ack, PingReq, Join, Told, Update

-----------------------------------------------------------------------------
(* Being told. *)

\* What a member comes to believe has the right type.
LEMMA BelieveType ==
  ASSUME NEW n \in Node, NEW us \in SUBSET Update, TypeOK, Believe(n, us)
  PROVE  /\ members' \in [Node -> [Node -> Status \cup {Unknown}]]
         /\ timers' \in [Node -> SUBSET [id : Node, inc : Nat]]
<1>1. ASSUME NEW id \in Node
      PROVE  (IF \E u \in us : u.id = id
              THEN LET u == CHOOSE v \in us : v.id = id IN [state |-> u.state, inc |-> u.inc]
              ELSE members[n][id]) \in Status \cup {Unknown}
  <2>1. CASE \E u \in us : u.id = id
    <3>. DEFINE u == CHOOSE v \in us : v.id = id
    <3>1. u \in us
      BY <2>1
    <3>2. [state |-> u.state, inc |-> u.inc] \in Status
      BY <3>1, UpdateFields DEF Status
    <3>. QED BY <2>1, <3>2
  <2>2. CASE ~ \E u \in us : u.id = id
    BY <2>2 DEF TypeOK
  <2>. QED BY <2>1, <2>2
<1>2. members' \in [Node -> [Node -> Status \cup {Unknown}]]
  BY <1>1 DEF Believe, TypeOK
<1>3. Started(n, us) \in SUBSET [id : Node, inc : Nat]
  BY UpdateFields DEF Started
<1>4. timers' \in [Node -> SUBSET [id : Node, inc : Nat]]
  BY <1>3 DEF Believe, TypeOK
<1>. QED BY <1>2, <1>4

\* It is what it was told, where each member is spoken of once; else it is as before.
LEMMA BelieveIs ==
  ASSUME NEW n \in Node, NEW us \in SUBSET Update, TypeOK, Believe(n, us), OneEach(us)
  PROVE  /\ \A u \in us : members'[n][u.id] = [state |-> u.state, inc |-> u.inc]
         /\ \A t \in Node : (\A u \in us : u.id # t) => members'[n][t] = members[n][t]
         /\ \A k \in Node \ {n} : members'[k] = members[k]
<1>. DEFINE New(id) == IF \E u \in us : u.id = id
                      THEN LET u == CHOOSE v \in us : v.id = id IN [state |-> u.state, inc |-> u.inc]
                      ELSE members[n][id]
<1>1. members' = [members EXCEPT ![n] = [id \in Node |-> New(id)]]
  BY DEF Believe
<1>2. \A id \in Node : members'[n][id] = New(id)
  BY <1>1 DEF TypeOK
<1>3. ASSUME NEW u \in us PROVE members'[n][u.id] = [state |-> u.state, inc |-> u.inc]
  <2>1. (CHOOSE v \in us : v.id = u.id) = u
    BY DEF OneEach
  <2>. QED BY <1>2, <2>1, UpdateFields
<1>4. ASSUME NEW t \in Node, \A u \in us : u.id # t PROVE members'[n][t] = members[n][t]
  BY <1>2, <1>4
<1>5. \A k \in Node \ {n} : members'[k] = members[k]
  BY <1>1 DEF TypeOK
<1>. QED BY <1>3, <1>4, <1>5

\* Of rumours that speak of each member once, the greatest incarnation is a number.
LEMMA RefutingType ==
  ASSUME NEW n \in Node, NEW told \in SUBSET Update, TypeOK, OneEach(told)
  PROVE  Refuting(n, told) \in Nat
<1>1. CASE Rumours(n, told) = {}
  BY <1>1 DEF Refuting, TypeOK
<1>2. CASE Rumours(n, told) # {}
  <2>1. PICK u \in Rumours(n, told) : TRUE
    BY <1>2
  <2>2. u \in Update /\ \A v \in Rumours(n, told) : v = u
    BY <2>1 DEF Rumours, OneEach
  <2>3. {v.inc : v \in Rumours(n, told)} = {u.inc} /\ u.inc \in Nat
    BY <2>1, <2>2, UpdateFields
  <2>4. Max({u.inc}) = u.inc
    BY <2>3 DEF Max
  <2>5. Max({v.inc : v \in Rumours(n, told)}) = u.inc
    BY <2>3, <2>4
  <2>6. Refuting(n, told) = u.inc + 1
    BY <1>2, <2>5, Zenon DEF Refuting
  <2>. QED BY <2>3, <2>6
<1>. QED BY <1>1, <1>2

\* Without rumours about itself, a member keeps its incarnation.
LEMMA Refutation ==
  ASSUME NEW n \in Node, NEW told \in SUBSET Update, Rumours(n, told) = {}
  PROVE  Refuting(n, told) = incarnation[n]
  BY DEF Refuting

\* The gossip of a member that is told updates, and the invariant of what it believes.
SelfUnknown == \A n \in Node : members[n][n] = Unknown
BeliefInv == GossipIsBelief /\ SelfUnknown

LEMMA GossipType ==
  ASSUME NEW n \in Node, NEW told \in SUBSET Update, TypeOK, OneEach(told)
  PROVE  Gossip(n, told) \in Table
<1>1. broadcasts[n] \in Table
  BY DEF TypeOK, Table
<1>2. [id |-> n, state |-> Alive, inc |-> Refuting(n, told)] \in Update
  BY RefutingType DEF Update
<1>3. News(n, told) \in SUBSET Update
  BY DEF News
<1>. QED BY <1>1, <1>2, <1>3, PutType DEF Gossip

LEMMA GossipAgrees ==
  ASSUME NEW n \in Node, NEW told \in SUBSET Update, TypeOK, BeliefInv, OneEach(told),
         Believe(n, News(n, told)), NEW inc, inc = Refuting(n, told)
  PROVE  /\ Agrees(Gossip(n, told), n, members'[n], inc)
         /\ members'[n][n] = Unknown
<1>. DEFINE us == News(n, told)
            self == [id |-> n, state |-> Alive, inc |-> inc]
<1>1. us \in SUBSET Update /\ OneEach(us) /\ \A u \in us : u.id # n
  BY DEF News, OneEach, Accepts
<1>2. /\ \A u \in us : members'[n][u.id] = [state |-> u.state, inc |-> u.inc]
      /\ \A t \in Node : (\A u \in us : u.id # t) => members'[n][t] = members[n][t]
  BY <1>1, BelieveIs
<1>3. members'[n][n] = Unknown
  BY <1>1, <1>2 DEF BeliefInv, SelfUnknown
<1>4. ASSUME NEW e \in Gossip(n, told)
      PROVE  \/ e \in broadcasts[n] /\ (\A u \in us : e.id # u.id) /\ (e.id = n => Rumours(n, told) = {})
             \/ \E u \in us : e = Fresh(u)
             \/ e = Fresh(self)
  BY <1>4 DEF Gossip, Put
<1>5. ASSUME NEW e \in Gossip(n, told)
      PROVE  IF e.id = n THEN e.state = Alive /\ e.inc = inc
             ELSE members'[n][e.id] = [state |-> e.state, inc |-> e.inc]
  <2>1. CASE e \in broadcasts[n] /\ (\A u \in us : e.id # u.id) /\ (e.id = n => Rumours(n, told) = {})
    <3>1. e.id \in Node
      BY <2>1 DEF TypeOK
    <3>2. IF e.id = n THEN e.state = Alive /\ e.inc = incarnation[n]
          ELSE members[n][e.id] = [state |-> e.state, inc |-> e.inc]
      BY <2>1 DEF BeliefInv, GossipIsBelief
    <3>. QED BY <2>1, <3>1, <3>2, <1>2, Refutation
  <2>2. CASE \E u \in us : e = Fresh(u)
    <3>1. PICK u \in us : e = Fresh(u)
      BY <2>2
    <3>2. e.id = u.id /\ e.state = u.state /\ e.inc = u.inc
      BY <3>1 DEF Fresh
    <3>. QED BY <1>1, <1>2, <3>2
  <2>3. CASE e = Fresh(self)
    BY <2>3 DEF Fresh
  <2>. QED BY <1>4, <2>1, <2>2, <2>3
<1>. QED BY <1>3, <1>5 DEF Agrees

-----------------------------------------------------------------------------
(* The invariant. *)

\* A datagram speaks of each member once, its sender included.
MessagesInv == \A m \in msgs : OneEach(Told(m))

\* A re-ping, or its ack, that is in flight and not late is the only one that its
\* sender waits for.
AwaitedInv ==
  \A m \in msgs : m.why = "revive" =>
     /\ m.for = Waiter(m) /\ revival[Waiter(m)].at = "ping"
     /\ \A k \in msgs : k.why = "revive" /\ Waiter(k) = Waiter(m) => k = m

SwimInv == TypeOK /\ BeliefInv /\ MessagesInv /\ AwaitedInv

\* A datagram that may be sent whatever the re-pings in flight.
Plain(k) == k \in Message /\ OneEach(Told(k)) /\ k.why # "revive"

BeliefTypes ==
  /\ incarnation \in [Node -> Nat]
  /\ members \in [Node -> [Node -> Status \cup {Unknown}]]
  /\ broadcasts \in [Node -> Table]
  /\ timers \in [Node -> SUBSET [id : Node, inc : Nat]]

LEMMA Agreement ==
  BeliefInv <=> \A n \in Node : /\ Agrees(broadcasts[n], n, members[n], incarnation[n])
                                /\ members[n][n] = Unknown
  BY DEF BeliefInv, GossipIsBelief, SelfUnknown, Agrees

LEMMA InitInv == Init => SwimInv
<1>. SUFFICES ASSUME Init PROVE SwimInv
  OBVIOUS
<1>1. TypeOK
  BY DEF Init, TypeOK, Strangers, Idle
<1>2. BeliefInv
  BY DEF Init, BeliefInv, GossipIsBelief, SelfUnknown, Strangers
<1>3. MessagesInv /\ AwaitedInv
  BY DEF Init, MessagesInv, AwaitedInv
<1>. QED BY <1>1, <1>2, <1>3 DEF SwimInv

\* Datagrams that are forgotten stay datagrams, and are no re-pings.
LEMMA Forgotten ==
  ASSUME NEW n, NEW why, NEW for, MessagesInv, msgs \subseteq Message,
         NEW k \in Forget(msgs, n, why, for)
  PROVE  \/ k \in msgs /\ ~Concerns(k, n, why, for)
         \/ Plain(k)
<1>1. PICK m \in msgs : k = IF Concerns(m, n, why, for) THEN [m EXCEPT !.why = "late", !.for = m.src] ELSE m
  BY DEF Forget
<1>2. CASE Concerns(m, n, why, for)
  <2>1. k \in Message /\ Told(k) = Told(m) /\ k.why = "late"
    BY <1>1, <1>2, LateMessage
  <2>. QED BY <2>1 DEF MessagesInv, Plain
<1>. QED BY <1>1, <1>2

\* New datagrams that are no re-pings keep the invariants of datagrams.
LEMMA OtherMessages ==
  ASSUME TypeOK, MessagesInv, AwaitedInv, UNCHANGED revival,
         \A k \in msgs' : k \in msgs \/ Plain(k)
  PROVE  msgs' \subseteq Message /\ MessagesInv' /\ AwaitedInv'
<1>1. msgs' \subseteq Message
  BY DEF TypeOK, Plain
<1>2. \A k \in msgs' : OneEach(Told(k))
  BY DEF MessagesInv, Plain
<1>3. AwaitedInv'
  BY DEF AwaitedInv, Waiter, IsRequest, Plain
<1>. QED BY <1>1, <1>2, <1>3 DEF MessagesInv, Told

\* When the re-pinging of a member goes on, nothing it waits for stays in flight.
LEMMA RevivalMessages ==
  ASSUME TypeOK, MessagesInv, AwaitedInv, NEW n \in Node, NEW x,
         revival' = [revival EXCEPT ![n] = x],
         \A k \in msgs' : \/ k \in msgs /\ (k.why = "revive" => Waiter(k) # n)
                          \/ Plain(k)
  PROVE  msgs' \subseteq Message /\ MessagesInv' /\ AwaitedInv'
<1>1. msgs' \subseteq Message
  BY DEF TypeOK, Plain
<1>2. \A k \in msgs' : OneEach(Told(k))
  BY DEF MessagesInv, Plain
<1>3. ASSUME NEW m \in msgs', m.why = "revive"
      PROVE  /\ m.for = Waiter(m) /\ revival'[Waiter(m)].at = "ping"
             /\ \A k \in msgs' : k.why = "revive" /\ Waiter(k) = Waiter(m) => k = m
  <2>1. \A k \in msgs' : k.why = "revive" => k \in msgs
    BY DEF Plain
  <2>2. m \in msgs /\ Waiter(m) # n
    BY <1>3 DEF Plain
  <2>3. Waiter(m) \in Node
    BY <2>2, ToldType DEF TypeOK, Waiter
  <2>4. revival'[Waiter(m)] = revival[Waiter(m)]
    BY <2>2, <2>3 DEF TypeOK
  <2>. QED BY <1>3, <2>1, <2>2, <2>4 DEF AwaitedInv
<1>4. AwaitedInv'
  BY <1>3 DEF AwaitedInv, Waiter, IsRequest
<1>. QED BY <1>1, <1>2, <1>4 DEF MessagesInv, Told

\* What the receiver of a datagram learns.
LEMMA LearnIs ==
  ASSUME SwimInv, NEW m \in msgs, Learn(m), NEW n, n = m.dst
  PROVE  /\ n \in Node
         /\ members' \in [Node -> [Node -> Status \cup {Unknown}]]
         /\ timers' \in [Node -> SUBSET [id : Node, inc : Nat]]
         /\ incarnation' \in [Node -> Nat]
         /\ Gossip(n, Told(m)) \in Table
         /\ Agrees(Gossip(n, Told(m)), n, members'[n], incarnation'[n])
         /\ members'[n][n] = Unknown
         /\ \A k \in Node \ {n} : members'[k] = members[k] /\ incarnation'[k] = incarnation[k]
<1>. DEFINE told == Told(m)
<1>1. n \in Node /\ told \in SUBSET Update /\ OneEach(told) /\ TypeOK /\ BeliefInv
  BY ToldType DEF SwimInv, TypeOK, MessagesInv
<1>2. News(n, told) \in SUBSET Update /\ OneEach(News(n, told))
  BY <1>1 DEF News, OneEach
<1>3. Believe(n, News(n, told)) /\ incarnation' = [incarnation EXCEPT ![n] = Refuting(n, told)]
  BY DEF Learn
<1>4. Refuting(n, told) \in Nat
  BY <1>1, RefutingType
<1>5. incarnation' \in [Node -> Nat] /\ incarnation'[n] = Refuting(n, told)
      /\ \A k \in Node \ {n} : incarnation'[k] = incarnation[k]
  BY <1>1, <1>3, <1>4 DEF TypeOK
<1>. HIDE DEF told
<1>6. /\ members' \in [Node -> [Node -> Status \cup {Unknown}]]
      /\ timers' \in [Node -> SUBSET [id : Node, inc : Nat]]
  BY <1>1, <1>2, <1>3, BelieveType
<1>7. \A k \in Node \ {n} : members'[k] = members[k]
  BY <1>1, <1>2, <1>3, BelieveIs
<1>8. Gossip(n, told) \in Table
  BY <1>1, GossipType
<1>9. Agrees(Gossip(n, told), n, members'[n], incarnation'[n]) /\ members'[n][n] = Unknown
  BY <1>1, <1>3, <1>5, GossipAgrees
<1>. QED BY <1>1, <1>5, <1>6, <1>7, <1>8, <1>9 DEF told

\* After it the receiver gossips some table that agrees with what it learnt.
LEMMA LearnKeeps ==
  ASSUME SwimInv, NEW m \in msgs, Learn(m), NEW n, n = m.dst,
         NEW table \in Table, Agrees(table, n, members'[n], incarnation'[n]),
         broadcasts' = [broadcasts EXCEPT ![n] = table]
  PROVE  BeliefTypes' /\ BeliefInv'
<1>1. /\ n \in Node
      /\ members' \in [Node -> [Node -> Status \cup {Unknown}]]
      /\ timers' \in [Node -> SUBSET [id : Node, inc : Nat]]
      /\ incarnation' \in [Node -> Nat]
      /\ members'[n][n] = Unknown
      /\ \A k \in Node \ {n} : members'[k] = members[k] /\ incarnation'[k] = incarnation[k]
  BY LearnIs
<1>2. broadcasts \in [Node -> Table]
  BY DEF SwimInv, TypeOK, Table
<1>3. broadcasts' \in [Node -> Table] /\ broadcasts'[n] = table
      /\ \A k \in Node \ {n} : broadcasts'[k] = broadcasts[k]
  BY <1>1, <1>2
<1>4. BeliefTypes'
  BY <1>1, <1>3 DEF BeliefTypes, Table
<1>5. ASSUME NEW k \in Node
      PROVE  Agrees(broadcasts'[k], k, members'[k], incarnation'[k]) /\ members'[k][k] = Unknown
  <2>1. Agrees(broadcasts[k], k, members[k], incarnation[k]) /\ members[k][k] = Unknown
    BY Agreement DEF SwimInv
  <2>. QED BY <1>1, <1>3, <2>1
<1>6. BeliefInv'
  BY <1>5 DEF BeliefInv, GossipIsBelief, SelfUnknown, Agrees
<1>. QED BY <1>4, <1>6

\* A member changes its mind about another one and starts to gossip of it.
LEMMA PutKeeps ==
  ASSUME SwimInv, NEW n \in Node, NEW u \in Update, u.id # n,
         members' \in [Node -> [Node -> Status \cup {Unknown}]],
         timers' \in [Node -> SUBSET [id : Node, inc : Nat]],
         members'[n][u.id] = [state |-> u.state, inc |-> u.inc],
         \A t \in Node \ {u.id} : members'[n][t] = members[n][t],
         \A k \in Node \ {n} : members'[k] = members[k],
         broadcasts' = [broadcasts EXCEPT ![n] = Put(@, {u})],
         UNCHANGED incarnation
  PROVE  BeliefTypes' /\ BeliefInv'
<1>1. broadcasts \in [Node -> Table]
  BY DEF SwimInv, TypeOK, Table
<1>2. Put(broadcasts[n], {u}) \in Table
  BY <1>1, PutType
<1>3. broadcasts' \in [Node -> Table] /\ broadcasts'[n] = Put(broadcasts[n], {u})
      /\ \A k \in Node \ {n} : broadcasts'[k] = broadcasts[k]
  BY <1>1, <1>2
<1>4. BeliefTypes'
  BY <1>3 DEF BeliefTypes, Table, SwimInv, TypeOK
<1>5. ASSUME NEW k \in Node
      PROVE  Agrees(broadcasts'[k], k, members'[k], incarnation'[k]) /\ members'[k][k] = Unknown
  <2>1. Agrees(broadcasts[k], k, members[k], incarnation[k]) /\ members[k][k] = Unknown
    BY Agreement DEF SwimInv
  <2>2. CASE k # n
    BY <1>3, <2>1, <2>2
  <2>3. CASE k = n
    <3>1. members'[n][n] = Unknown
      BY <2>1, <2>3
    <3>2. ASSUME NEW e \in Put(broadcasts[n], {u})
          PROVE  IF e.id = n THEN e.state = Alive /\ e.inc = incarnation[n]
                 ELSE members'[n][e.id] = [state |-> e.state, inc |-> e.inc]
      <4>1. CASE e \in broadcasts[n] /\ e.id # u.id
        <5>1. e.id \in Node
          BY <1>1, <4>1 DEF Table
        <5>. QED BY <2>1, <2>3, <4>1, <5>1 DEF Agrees
      <4>2. CASE e = Fresh(u)
        BY <4>2 DEF Fresh
      <4>. QED BY <3>2, <4>1, <4>2 DEF Put
    <3>. QED BY <1>3, <2>3, <3>1, <3>2 DEF Agrees
  <2>. QED BY <2>2, <2>3
<1>6. BeliefInv'
  BY <1>5 DEF BeliefInv, GossipIsBelief, SelfUnknown, Agrees
<1>. QED BY <1>4, <1>6

LEMMA SetKeeps ==
  ASSUME SwimInv, NEW n \in Node, NEW u \in Update, u.id # n, Set(n, u)
  PROVE  BeliefTypes' /\ BeliefInv'
<1>1. /\ Believe(n, {u}) /\ broadcasts' = [broadcasts EXCEPT ![n] = Put(@, {u})]
      /\ UNCHANGED incarnation /\ TypeOK /\ OneEach({u})
  BY DEF Set, SwimInv, OneEach
<1>2. /\ members' \in [Node -> [Node -> Status \cup {Unknown}]]
      /\ timers' \in [Node -> SUBSET [id : Node, inc : Nat]]
  BY <1>1, BelieveType
<1>3. /\ members'[n][u.id] = [state |-> u.state, inc |-> u.inc]
      /\ \A t \in Node \ {u.id} : members'[n][t] = members[n][t]
      /\ \A k \in Node \ {n} : members'[k] = members[k]
  BY <1>1, BelieveIs
<1>. QED BY <1>1, <1>2, <1>3, PutKeeps

\* Beliefs are left as they are.
LEMMA SameBeliefs ==
  ASSUME SwimInv, UNCHANGED beliefVars
  PROVE  BeliefTypes' /\ BeliefInv'
  BY DEF SwimInv, TypeOK, BeliefTypes, Table, BeliefInv, GossipIsBelief, SelfUnknown, beliefVars

\* The parts of the invariant.
LEMMA Parts ==
  ASSUME BeliefTypes', BeliefInv', MessagesInv', AwaitedInv', msgs' \subseteq Message,
         up' \in [Node -> BOOLEAN], crashes' \in Nat,
         probe' \in [Node -> {Idle} \cup Probing \cup Asking],
         revival' \in [Node -> {Idle} \cup Reviving],
         relays' \in [Node -> SUBSET Relay]
  PROVE  SwimInv'
  BY DEF SwimInv, TypeOK, BeliefTypes, Table

-----------------------------------------------------------------------------
(* One lemma per action. *)

LEMMA ProbeMemberStep ==
  ASSUME SwimInv, NEW n \in Node, NEW t \in Node, ProbeMember(n, t)
  PROVE  SwimInv'
<1>. USE DEF SwimInv
<1>1. PICK us \in Due(broadcasts[n]) :
        /\ broadcasts' = [broadcasts EXCEPT ![n] = AfterSending(@, us)]
        /\ msgs' = msgs \cup {[type |-> "ping", src |-> n, dst |-> t, why |-> "probe", for |-> n,
                               inc |-> incarnation[n], updates |-> Content(us)]}
  BY DEF ProbeMember
<1>. DEFINE ping == [type |-> "ping", src |-> n, dst |-> t, why |-> "probe", for |-> n,
                     inc |-> incarnation[n], updates |-> Content(us)]
<1>2. broadcasts \in [Node -> Table] /\ incarnation[n] \in Nat
  BY DEF TypeOK, Table
<1>3. Agrees(broadcasts[n], n, members[n], incarnation[n])
  BY Agreement
<1>4. /\ AfterSending(broadcasts[n], us) \in Table /\ Content(us) \in SUBSET Update
      /\ Agrees(AfterSending(broadcasts[n], us), n, members[n], incarnation[n])
      /\ OneEach(Content(us) \cup {[id |-> n, state |-> Alive, inc |-> incarnation[n]]})
  BY <1>2, <1>3, SendingType, SendingAgrees
<1>5. Plain(ping)
  BY <1>2, <1>4 DEF Plain, Message, Ping, Why, Told
<1>6. UNCHANGED <<up, incarnation, members, timers, revival, relays, crashes>>
  BY DEF ProbeMember
<1>7. BeliefTypes'
  BY <1>1, <1>2, <1>4, <1>6 DEF BeliefTypes, Table, TypeOK
<1>8. BeliefInv'
  <2>1. ASSUME NEW k \in Node PROVE Agrees(broadcasts'[k], k, members[k], incarnation[k])
    <3>1. Agrees(broadcasts[k], k, members[k], incarnation[k])
      BY Agreement
    <3>. QED BY <1>1, <1>2, <1>4, <3>1
  <2>. QED BY <1>6, <2>1 DEF BeliefInv, GossipIsBelief, SelfUnknown, Agrees
<1>9. msgs' \subseteq Message /\ MessagesInv' /\ AwaitedInv'
  <2>1. \A k \in msgs' : k \in msgs \/ Plain(k)
    BY <1>1, <1>5
  <2>. QED BY <1>6, <2>1, OtherMessages
<1>10. probe' \in [Node -> {Idle} \cup Probing \cup Asking]
  BY DEF ProbeMember, TypeOK, Probing, Candidates
<1>. QED BY <1>6, <1>7, <1>8, <1>9, <1>10, Parts DEF TypeOK

LEMMA ProbeTimeoutStep ==
  ASSUME SwimInv, NEW n \in Node, ProbeTimeout(n)
  PROVE  SwimInv'
<1>. USE DEF SwimInv
<1>1. PICK helpers \in SUBSET probe[n].others :
        /\ probe' = [probe EXCEPT ![n] =
                       [at |-> "ask", target |-> @.target, open |-> helpers, acked |-> FALSE]]
        /\ msgs' = Forget(msgs, n, "probe", n) \cup
             {[type |-> "ping-req", src |-> n, dst |-> h, why |-> "ask", for |-> n,
               target |-> probe[n].target, inc |-> incarnation[n], updates |-> {}] : h \in helpers}
  BY DEF ProbeTimeout
<1>2. probe[n] \in Probing
  BY DEF ProbeTimeout, TypeOK, Idle, Asking
<1>3. probe[n].target \in Node /\ helpers \subseteq Node /\ incarnation[n] \in Nat
  BY <1>2 DEF Probing, TypeOK
<1>4. UNCHANGED <<up, beliefVars, revival, relays, crashes>>
  BY DEF ProbeTimeout
<1>5. ASSUME NEW h \in helpers
      PROVE  LET k == [type |-> "ping-req", src |-> n, dst |-> h, why |-> "ask", for |-> n,
                       target |-> probe[n].target, inc |-> incarnation[n], updates |-> {}]
             IN  Plain(k)
  BY <1>3 DEF Plain, Message, PingReq, Why, Told, OneEach
<1>6. msgs \subseteq Message
  BY DEF TypeOK
<1>7. \A k \in msgs' : k \in msgs \/ Plain(k)
  BY <1>1, <1>5, <1>6, Forgotten
<1>8. msgs' \subseteq Message /\ MessagesInv' /\ AwaitedInv'
  BY <1>4, <1>7, OtherMessages
<1>9. probe' \in [Node -> {Idle} \cup Probing \cup Asking]
  BY <1>1, <1>3 DEF TypeOK, Asking
<1>. QED BY <1>4, <1>8, <1>9, SameBeliefs, Parts DEF TypeOK

LEMMA AskTimeoutStep ==
  ASSUME SwimInv, NEW n \in Node, NEW h \in Node, AskTimeout(n, h)
  PROVE  SwimInv'
<1>. USE DEF SwimInv
<1>1. UNCHANGED <<up, beliefVars, revival, relays, msgs, crashes>>
  BY DEF AskTimeout
<1>2. probe[n] \in Asking
  BY DEF AskTimeout, TypeOK, Idle, Probing
<1>3. probe' \in [Node -> {Idle} \cup Probing \cup Asking]
  BY <1>2 DEF AskTimeout, TypeOK, Asking
<1>4. msgs' \subseteq Message /\ MessagesInv' /\ AwaitedInv'
  BY <1>1, OtherMessages
<1>. QED BY <1>1, <1>3, <1>4, SameBeliefs, Parts DEF TypeOK

LEMMA ProbeVerdictStep ==
  ASSUME SwimInv, NEW n \in Node, ProbeVerdict(n)
  PROVE  SwimInv'
<1>. USE DEF SwimInv
<1>. DEFINE t == probe[n].target
            suspect == [id |-> t, state |-> Suspect, inc |-> members[n][t].inc]
<1>1. /\ probe' = [probe EXCEPT ![n] = Idle]
      /\ msgs' = Forget(msgs, n, "ask", n)
      /\ relays' = [h \in Node |-> {IF r.for = n THEN [r EXCEPT !.late = TRUE] ELSE r : r \in relays[h]}]
      /\ UNCHANGED <<up, revival, crashes>>
  BY DEF ProbeVerdict
<1>2. t \in Node
  BY DEF ProbeVerdict, TypeOK, Idle, Probing, Asking
<1>3. BeliefTypes' /\ BeliefInv'
  <2>1. CASE members[n][t].state = Alive /\ Set(n, suspect)
    <3>1. t # n /\ suspect \in Update
      BY <1>2, <2>1 DEF BeliefInv, SelfUnknown, Unknown, Alive, TypeOK, Status, Update
    <3>. QED BY <2>1, <3>1, SetKeeps
  <2>2. CASE UNCHANGED beliefVars
    BY <2>2, SameBeliefs
  <2>. QED BY <2>1, <2>2 DEF ProbeVerdict
<1>4. msgs' \subseteq Message /\ MessagesInv' /\ AwaitedInv'
  <2>1. \A k \in msgs' : k \in msgs \/ Plain(k)
    BY <1>1, Forgotten DEF TypeOK
  <2>. QED BY <1>1, <2>1, OtherMessages
<1>5. probe' \in [Node -> {Idle} \cup Probing \cup Asking]
  BY <1>1 DEF TypeOK
<1>6. relays' \in [Node -> SUBSET Relay]
  <2>1. ASSUME NEW h \in Node, NEW r \in relays[h] PROVE [r EXCEPT !.late = TRUE] \in Relay
    <3>1. r \in Relay
      BY DEF TypeOK
    <3>. QED BY <3>1 DEF Relay
  <2>2. ASSUME NEW h \in Node
        PROVE  {IF r.for = n THEN [r EXCEPT !.late = TRUE] ELSE r : r \in relays[h]} \subseteq Relay
    BY <2>1 DEF TypeOK
  <2>. QED BY <1>1, <2>2
<1>. QED BY <1>1, <1>3, <1>4, <1>5, <1>6, Parts DEF TypeOK

LEMMA SuspicionTimeoutStep ==
  ASSUME SwimInv, NEW n \in Node, NEW t \in timers[n], SuspicionTimeout(n, t)
  PROVE  SwimInv'
<1>. USE DEF SwimInv
<1>1. UNCHANGED <<up, incarnation, taskVars, msgs, crashes>> /\ timers' = [timers EXCEPT ![n] = @ \ {t}]
  BY DEF SuspicionTimeout
<1>2. t.id \in Node /\ t.inc \in Nat /\ timers' \in [Node -> SUBSET [id : Node, inc : Nat]]
  BY <1>1 DEF TypeOK
<1>3. BeliefTypes' /\ BeliefInv'
  <2>1. CASE /\ members[n][t.id] = [state |-> Suspect, inc |-> t.inc]
             /\ members' = [members EXCEPT ![n][t.id].state = Dead]
             /\ broadcasts' = [broadcasts EXCEPT ![n] = Put(@, {[id |-> t.id, state |-> Dead, inc |-> t.inc]})]
    <3>. DEFINE u == [id |-> t.id, state |-> Dead, inc |-> t.inc]
    <3>1. u \in Update /\ u.id # n
      BY <1>2, <2>1 DEF Update, BeliefInv, SelfUnknown, Unknown, Suspect
    <3>2. [members[n][t.id] EXCEPT !.state = Dead] = [state |-> Dead, inc |-> t.inc]
      BY <2>1
    <3>3. members' = [members EXCEPT ![n] = [members[n] EXCEPT ![t.id] = [state |-> Dead, inc |-> t.inc]]]
      BY <2>1, <3>2, Zenon
    <3>4. [state |-> Dead, inc |-> t.inc] \in Status
      BY <1>2 DEF Status
    <3>5. members' \in [Node -> [Node -> Status \cup {Unknown}]]
      BY <1>2, <3>3, <3>4 DEF TypeOK
    <3>6. /\ members'[n][u.id] = [state |-> u.state, inc |-> u.inc]
          /\ \A k \in Node \ {u.id} : members'[n][k] = members[n][k]
          /\ \A k \in Node \ {n} : members'[k] = members[k]
      BY <1>2, <3>3 DEF TypeOK
    <3>7. broadcasts' = [broadcasts EXCEPT ![n] = Put(@, {u})] /\ UNCHANGED incarnation
      BY <1>1, <2>1
    <3>. HIDE DEF u
    <3>. QED BY <1>2, <3>1, <3>5, <3>6, <3>7, PutKeeps
  <2>2. CASE UNCHANGED <<members, broadcasts>>
    BY <1>1, <1>2, <2>2 DEF TypeOK, BeliefTypes, Table, BeliefInv, GossipIsBelief, SelfUnknown
  <2>. QED BY <2>1, <2>2 DEF SuspicionTimeout
<1>4. msgs' \subseteq Message /\ MessagesInv' /\ AwaitedInv'
  BY <1>1, OtherMessages DEF taskVars
<1>. QED BY <1>1, <1>3, <1>4, Parts DEF TypeOK, taskVars

LEMMA ReviveStep ==
  ASSUME SwimInv, NEW n \in Node, NEW t \in Node, Revive(n, t)
  PROVE  SwimInv'
<1>. USE DEF SwimInv
<1>. DEFINE ping == [type |-> "ping", src |-> n, dst |-> t, why |-> "revive", for |-> n,
                     inc |-> incarnation[n], updates |-> {}]
<1>1. /\ revival[n] = Idle /\ revival' = [revival EXCEPT ![n] = [at |-> "ping", target |-> t]]
      /\ msgs' = msgs \cup {ping}
      /\ UNCHANGED <<up, beliefVars, probe, relays, crashes>>
  BY DEF Revive
<1>2. ping \in Message /\ OneEach(Told(ping))
  BY DEF Message, Ping, Why, Told, OneEach, TypeOK
<1>3. msgs' \subseteq Message /\ MessagesInv'
  BY <1>1, <1>2 DEF TypeOK, MessagesInv, Told
<1>4. ASSUME NEW m \in msgs, m.why = "revive"
      PROVE  Waiter(m) # n /\ revival'[Waiter(m)].at = "ping"
  <2>1. Waiter(m) \in Node
    BY ToldType DEF TypeOK, Waiter
  <2>2. revival[Waiter(m)].at = "ping"
    BY <1>4 DEF AwaitedInv
  <2>. QED BY <1>1, <2>1, <2>2 DEF Idle, TypeOK
<1>5. Waiter(ping) = n /\ revival'[n].at = "ping"
  BY <1>1 DEF Waiter, IsRequest, TypeOK
<1>6. AwaitedInv'
  <2>1. ASSUME NEW m \in msgs', m.why = "revive"
        PROVE  /\ m.for = Waiter(m) /\ revival'[Waiter(m)].at = "ping"
               /\ \A k \in msgs' : k.why = "revive" /\ Waiter(k) = Waiter(m) => k = m
    <3>1. CASE m = ping
      BY <1>1, <1>4, <1>5, <3>1
    <3>2. CASE m \in msgs
      BY <1>1, <1>4, <1>5, <2>1, <3>2 DEF AwaitedInv
    <3>. QED BY <1>1, <3>1, <3>2
  <2>. QED BY <2>1 DEF AwaitedInv, Waiter, IsRequest
<1>7. revival' \in [Node -> {Idle} \cup Reviving]
  BY <1>1 DEF TypeOK, Reviving
<1>. QED BY <1>1, <1>3, <1>6, <1>7, SameBeliefs, Parts DEF TypeOK

LEMMA ReviveTimeoutStep ==
  ASSUME SwimInv, NEW n \in Node, ReviveTimeout(n)
  PROVE  SwimInv'
<1>. USE DEF SwimInv
<1>1. /\ revival' = [revival EXCEPT ![n] = Idle] /\ msgs' = Forget(msgs, n, "revive", n)
      /\ UNCHANGED <<up, beliefVars, probe, relays, crashes>>
  BY DEF ReviveTimeout
<1>2. ASSUME NEW k \in msgs'
      PROVE  (k \in msgs /\ (k.why = "revive" => Waiter(k) # n)) \/ Plain(k)
  BY <1>1, Forgotten DEF TypeOK, AwaitedInv, Concerns, Waiter
<1>3. msgs' \subseteq Message /\ MessagesInv' /\ AwaitedInv'
  BY <1>1, <1>2, RevivalMessages
<1>4. revival' \in [Node -> {Idle} \cup Reviving]
  BY <1>1 DEF TypeOK
<1>. QED BY <1>1, <1>3, <1>4, SameBeliefs, Parts DEF TypeOK

LEMMA ReviveVerdictStep ==
  ASSUME SwimInv, NEW n \in Node, ReviveVerdict(n)
  PROVE  SwimInv'
<1>. USE DEF SwimInv
<1>. DEFINE t == revival[n].target
            alive == [id |-> t, state |-> Alive, inc |-> members[n][t].inc + 1]
<1>1. /\ revival[n].at = "acked" /\ revival' = [revival EXCEPT ![n] = Idle]
      /\ UNCHANGED <<up, probe, relays, msgs, crashes>>
  BY DEF ReviveVerdict
<1>2. t \in Node
  BY <1>1 DEF TypeOK, Idle, Reviving
<1>3. BeliefTypes' /\ BeliefInv'
  <2>1. CASE members[n][t].state = Dead /\ Set(n, alive)
    <3>1. t # n /\ members[n][t] \in Status
      BY <1>2, <2>1 DEF BeliefInv, SelfUnknown, Unknown, Dead, TypeOK
    <3>2. alive \in Update
      BY <1>2, <3>1 DEF Status, Update
    <3>. HIDE DEF t
    <3>. QED BY <2>1, <3>1, <3>2, SetKeeps
  <2>2. CASE UNCHANGED beliefVars
    BY <2>2, SameBeliefs
  <2>. QED BY <2>1, <2>2 DEF ReviveVerdict
<1>4. msgs' \subseteq Message /\ MessagesInv' /\ AwaitedInv'
  <2>1. \A k \in msgs' : k \in msgs /\ (k.why = "revive" => Waiter(k) # n)
    BY <1>1 DEF AwaitedInv
  <2>. QED BY <1>1, <2>1, RevivalMessages
<1>5. revival' \in [Node -> {Idle} \cup Reviving]
  BY <1>1 DEF TypeOK
<1>. QED BY <1>1, <1>3, <1>4, <1>5, Parts DEF TypeOK

LEMMA HandlePingStep ==
  ASSUME SwimInv, NEW m \in msgs, HandlePing(m)
  PROVE  SwimInv'
<1>. USE DEF SwimInv
<1>. DEFINE n == m.dst
            table == Gossip(n, Told(m))
<1>1. Learn(m) /\ m.type = "ping" /\ UNCHANGED <<up, taskVars, crashes>>
  BY DEF HandlePing
<1>2. PICK us \in Due(table) :
        /\ broadcasts' = [broadcasts EXCEPT ![n] = AfterSending(table, us)]
        /\ msgs' = (msgs \ {m}) \cup
             {[type |-> "ack", src |-> n, dst |-> m.src, why |-> m.why, for |-> m.for,
               inc |-> incarnation'[n], updates |-> Content(us)]}
  BY DEF HandlePing
<1>. DEFINE ack == [type |-> "ack", src |-> n, dst |-> m.src, why |-> m.why, for |-> m.for,
                    inc |-> incarnation'[n], updates |-> Content(us)]
<1>3. /\ n \in Node /\ table \in Table /\ incarnation'[n] \in Nat
      /\ Agrees(table, n, members'[n], incarnation'[n])
  BY <1>1, LearnIs
<1>4. /\ AfterSending(table, us) \in Table /\ Content(us) \in SUBSET Update
      /\ Agrees(AfterSending(table, us), n, members'[n], incarnation'[n])
      /\ OneEach(Content(us) \cup {[id |-> n, state |-> Alive, inc |-> incarnation'[n]]})
  BY <1>3, SendingType, SendingAgrees
<1>5. BeliefTypes' /\ BeliefInv'
  <2>. HIDE DEF table
  <2>. QED BY <1>1, <1>2, <1>4, LearnKeeps
<1>6. m.src \in Node /\ m.for \in Node /\ m.why \in Why
  BY ToldType DEF TypeOK
<1>7. ack \in Message
  BY <1>3, <1>4, <1>6 DEF Message, Ack
<1>8. Told(ack) = Content(us) \cup {[id |-> n, state |-> Alive, inc |-> incarnation'[n]]}
  BY DEF Told
<1>9. Waiter(ack) = Waiter(m) /\ ack.why = m.why /\ ack.for = m.for
  BY <1>1 DEF Waiter, IsRequest
<1>. HIDE DEF ack
<1>10. msgs' = (msgs \ {m}) \cup {ack}
  BY <1>2 DEF ack
<1>11. msgs' \subseteq Message /\ MessagesInv'
  BY <1>4, <1>7, <1>8, <1>10 DEF TypeOK, MessagesInv, Told
<1>12. AwaitedInv'
  <2>1. ASSUME NEW k \in msgs', k.why = "revive"
        PROVE  /\ k.for = Waiter(k) /\ revival[Waiter(k)].at = "ping"
               /\ \A l \in msgs' : l.why = "revive" /\ Waiter(l) = Waiter(k) => l = k
    <3>1. CASE k = ack
      BY <1>9, <1>10, <2>1, <3>1 DEF AwaitedInv
    <3>2. CASE k \in msgs \ {m}
      BY <1>9, <1>10, <2>1, <3>2 DEF AwaitedInv
    <3>. QED BY <1>10, <3>1, <3>2
  <2>. QED BY <1>1, <2>1 DEF AwaitedInv, Waiter, IsRequest, taskVars
<1>. QED BY <1>1, <1>5, <1>11, <1>12, Parts DEF TypeOK, taskVars

LEMMA HandlePingReqStep ==
  ASSUME SwimInv, NEW m \in msgs, HandlePingReq(m)
  PROVE  SwimInv'
<1>. USE DEF SwimInv
<1>. DEFINE n == m.dst
            table == Gossip(n, Told(m))
            relay == [for |-> m.src, target |-> m.target, late |-> m.why = "late"]
            ping == [type |-> "ping", src |-> n, dst |-> m.target, why |-> "relay", for |-> m.src,
                     inc |-> incarnation'[n], updates |-> {}]
<1>1. /\ Learn(m) /\ m.type = "ping-req" /\ UNCHANGED <<up, probe, revival, crashes>>
      /\ broadcasts' = [broadcasts EXCEPT ![n] = table]
      /\ relays' = [relays EXCEPT ![n] = @ \cup {relay}]
      /\ msgs' = (msgs \ {m}) \cup {ping}
  BY DEF HandlePingReq, LearnOnly
<1>2. /\ n \in Node /\ table \in Table /\ incarnation'[n] \in Nat
      /\ Agrees(table, n, members'[n], incarnation'[n])
  BY <1>1, LearnIs
<1>3. BeliefTypes' /\ BeliefInv'
  <2>. HIDE DEF table
  <2>. QED BY <1>1, <1>2, LearnKeeps
<1>4. m.src \in Node /\ m.target \in Node
  BY <1>1 DEF TypeOK, Message, Ping, Ack, PingReq, Join
<1>5. Plain(ping)
  BY <1>2, <1>4 DEF Plain, Message, Ping, Why, Told, OneEach
<1>6. msgs' \subseteq Message /\ MessagesInv' /\ AwaitedInv'
  <2>1. \A k \in msgs' : k \in msgs \/ Plain(k)
    BY <1>1, <1>5
  <2>. QED BY <1>1, <2>1, OtherMessages
<1>7. relay \in Relay
  BY <1>4 DEF Relay
<1>8. relays' \in [Node -> SUBSET Relay]
  BY <1>1, <1>2, <1>7 DEF TypeOK
<1>. QED BY <1>1, <1>3, <1>6, <1>8, Parts DEF TypeOK

LEMMA RelayTimeoutStep ==
  ASSUME SwimInv, NEW n \in Node, NEW r \in relays[n], RelayTimeout(n, r)
  PROVE  SwimInv'
<1>. USE DEF SwimInv
<1>1. /\ relays' = [relays EXCEPT ![n] = @ \ {r}] /\ msgs' = Forget(msgs, n, "relay", r.for)
      /\ UNCHANGED <<up, beliefVars, probe, revival, crashes>>
  BY DEF RelayTimeout
<1>2. msgs' \subseteq Message /\ MessagesInv' /\ AwaitedInv'
  <2>1. \A k \in msgs' : k \in msgs \/ Plain(k)
    BY <1>1, Forgotten DEF TypeOK
  <2>. QED BY <1>1, <2>1, OtherMessages
<1>3. relays' \in [Node -> SUBSET Relay]
  BY <1>1 DEF TypeOK
<1>. QED BY <1>1, <1>2, <1>3, SameBeliefs, Parts DEF TypeOK

LEMMA HandleAckStep ==
  ASSUME SwimInv, NEW m \in msgs, HandleAck(m)
  PROVE  SwimInv'
<1>. USE DEF SwimInv
<1>. DEFINE n == m.dst
            table == Gossip(n, Told(m))
            relayed == {r \in relays[n] : m.why = "relay" /\ r.for = m.for}
            ack(r) == [type |-> "ack", src |-> n, dst |-> r.for, why |-> IF r.late THEN "late" ELSE "ask",
                       for |-> r.for, inc |-> incarnation'[n], updates |-> {}]
<1>1. /\ Learn(m) /\ m.type = "ack" /\ UNCHANGED <<up, crashes>>
      /\ broadcasts' = [broadcasts EXCEPT ![n] = table]
      /\ revival' = [revival EXCEPT ![n] = IF m.why = "revive" THEN [@ EXCEPT !.at = "acked"] ELSE @]
      /\ relays' = [relays EXCEPT ![n] = @ \ relayed]
      /\ msgs' = (msgs \ {m}) \cup {ack(r) : r \in relayed}
  BY DEF HandleAck, LearnOnly
<1>2. /\ n \in Node /\ table \in Table /\ incarnation'[n] \in Nat
      /\ Agrees(table, n, members'[n], incarnation'[n])
  BY <1>1, LearnIs
<1>3. BeliefTypes' /\ BeliefInv'
  <2>. HIDE DEF table
  <2>. QED BY <1>1, <1>2, LearnKeeps
<1>4. probe' \in [Node -> {Idle} \cup Probing \cup Asking]
  <2>. DEFINE next == CASE m.why = "probe" -> Idle
                      [] m.why = "ask" /\ probe[n].at = "ask" ->
                           IF m.src \in probe[n].open
                           THEN [probe[n] EXCEPT !.open = @ \ {m.src}, !.acked = TRUE] ELSE probe[n]
                      [] OTHER -> probe[n]
  <2>1. probe' = [probe EXCEPT ![n] = next]
    BY DEF HandleAck
  <2>2. probe[n] \in {Idle} \cup Probing \cup Asking
    BY <1>2 DEF TypeOK
  <2>3. CASE m.why = "probe"
    BY <1>2, <2>1, <2>3 DEF TypeOK
  <2>4. CASE m.why = "ask" /\ probe[n].at = "ask"
    <3>1. probe[n] \in Asking
      BY <2>2, <2>4 DEF Idle, Probing
    <3>2. [probe[n] EXCEPT !.open = @ \ {m.src}, !.acked = TRUE] \in Asking
      BY <3>1 DEF Asking
    <3>3. next \in Asking
      BY <2>4, <3>1, <3>2
    <3>. QED BY <1>2, <2>1, <3>3 DEF TypeOK
  <2>5. CASE m.why # "probe" /\ ~(m.why = "ask" /\ probe[n].at = "ask")
    <3>1. next = probe[n]
      BY <2>5
    <3>. QED BY <1>2, <2>1, <2>2, <3>1 DEF TypeOK
  <2>. QED BY <2>3, <2>4, <2>5
<1>5. revival' \in [Node -> {Idle} \cup Reviving]
  <2>1. CASE m.why = "revive"
    <3>1. revival[n].at = "ping"
      BY <1>1, <2>1 DEF AwaitedInv, Waiter, IsRequest
    <3>2. revival[n] \in Reviving
      BY <1>2, <3>1 DEF TypeOK, Idle
    <3>3. [revival[n] EXCEPT !.at = "acked"] \in Reviving
      BY <3>2 DEF Reviving
    <3>. QED BY <1>1, <1>2, <2>1, <3>3 DEF TypeOK
  <2>2. CASE m.why # "revive"
    BY <1>1, <1>2, <2>2 DEF TypeOK
  <2>. QED BY <2>1, <2>2
<1>6. relays' \in [Node -> SUBSET Relay]
  BY <1>1, <1>2 DEF TypeOK
<1>7. ASSUME NEW r \in relayed PROVE Plain(ack(r))
  <2>1. r \in Relay
    BY <1>2 DEF TypeOK
  <2>2. ack(r) \in Message /\ ack(r).why # "revive"
    BY <1>2, <2>1 DEF Relay, Message, Ack, Why
  <2>3. OneEach(Told(ack(r)))
    BY DEF Told, OneEach
  <2>. QED BY <2>2, <2>3 DEF Plain
<1>8. \A k \in msgs' : k \in msgs \ {m} \/ Plain(k)
  BY <1>1, <1>7
<1>9. msgs' \subseteq Message /\ MessagesInv' /\ AwaitedInv'
  <2>1. CASE m.why = "revive"
    <3>1. \A k \in msgs \ {m} : k.why = "revive" => Waiter(k) # n
      BY <1>1, <2>1 DEF AwaitedInv, Waiter, IsRequest
    <3>2. revival' = [revival EXCEPT ![n] = [revival[n] EXCEPT !.at = "acked"]]
      BY <1>1, <2>1, Zenon
    <3>. HIDE DEF n
    <3>. QED BY <1>2, <1>8, <3>1, <3>2, RevivalMessages
  <2>2. CASE m.why # "revive"
    <3>1. UNCHANGED revival
      BY <1>1, <1>2, <2>2 DEF TypeOK
    <3>. QED BY <1>8, <3>1, OtherMessages
  <2>. QED BY <2>1, <2>2
<1>. QED BY <1>1, <1>3, <1>4, <1>5, <1>6, <1>9, Parts DEF TypeOK

LEMMA JoinContactStep ==
  ASSUME SwimInv, NEW n \in Node, JoinContact(n)
  PROVE  SwimInv'
<1>. USE DEF SwimInv
<1>. DEFINE join == [type |-> "join", src |-> n, dst |-> Contact, why |-> "join", for |-> n,
                     inc |-> incarnation[n], updates |-> {}]
<1>1. msgs' = msgs \cup {join} /\ UNCHANGED <<up, beliefVars, taskVars, crashes>>
  BY DEF JoinContact
<1>2. Plain(join)
  BY SwimAssumption DEF Plain, TypeOK, Message, Join, Why, Told, OneEach
<1>3. msgs' \subseteq Message /\ MessagesInv' /\ AwaitedInv'
  <2>1. \A k \in msgs' : k \in msgs \/ Plain(k)
    BY <1>1, <1>2
  <2>. QED BY <1>1, <2>1, OtherMessages DEF taskVars
<1>. QED BY <1>1, <1>3, SameBeliefs, Parts DEF TypeOK, taskVars

LEMMA HandleJoinStep ==
  ASSUME SwimInv, NEW m \in msgs, HandleJoin(m)
  PROVE  SwimInv'
<1>. USE DEF SwimInv
<1>. DEFINE n == m.dst
            table == Gossip(n, Told(m))
            ack == [type |-> "join-ack", src |-> n, dst |-> m.src, why |-> "join", for |-> m.src,
                    inc |-> incarnation'[n], updates |-> MemberList(n)]
            entry(t) == [id |-> t, state |-> members'[n][t].state, inc |-> members'[n][t].inc]
<1>1. /\ Learn(m) /\ UNCHANGED <<up, taskVars, crashes>>
      /\ broadcasts' = [broadcasts EXCEPT ![n] = table]
      /\ msgs' = (msgs \ {m}) \cup {ack}
  BY DEF HandleJoin, LearnOnly
<1>2. /\ n \in Node /\ table \in Table /\ incarnation'[n] \in Nat
      /\ Agrees(table, n, members'[n], incarnation'[n])
      /\ members' \in [Node -> [Node -> Status \cup {Unknown}]]
      /\ members'[n][n] = Unknown
  BY <1>1, LearnIs
<1>3. BeliefTypes' /\ BeliefInv'
  <2>. HIDE DEF table
  <2>. QED BY <1>1, <1>2, LearnKeeps
<1>4. \A u \in MemberList(n) : \E t \in Node : members'[n][t] # Unknown /\ u = entry(t)
  BY DEF MemberList
<1>5. ASSUME NEW t \in Node, members'[n][t] # Unknown PROVE entry(t) \in Update /\ entry(t).id = t /\ t # n
  <2>1. members'[n][t] \in Status
    BY <1>2, <1>5
  <2>. QED BY <1>2, <1>5, <2>1 DEF Status, Update
<1>6. MemberList(n) \in SUBSET Update
  BY <1>4, <1>5
<1>7. m.src \in Node
  BY ToldType DEF TypeOK
<1>8. ack \in Message /\ ack.why # "revive"
  BY <1>2, <1>6, <1>7 DEF Message, Join, Why
<1>9. OneEach(Told(ack))
  <2>1. ASSUME NEW u \in Told(ack)
        PROVE  u = [id |-> n, state |-> Alive, inc |-> incarnation'[n]] \/ u \in MemberList(n)
    BY <2>1 DEF Told
  <2>2. \A u, v \in MemberList(n) : u.id = v.id => u = v
    BY <1>4, <1>5
  <2>3. \A u \in MemberList(n) : u.id # n
    BY <1>4, <1>5
  <2>. QED BY <2>1, <2>2, <2>3 DEF OneEach
<1>. HIDE DEF ack
<1>10. msgs' \subseteq Message /\ MessagesInv' /\ AwaitedInv'
  <2>1. \A k \in msgs' : k \in msgs \/ Plain(k)
    BY <1>1, <1>8, <1>9 DEF Plain
  <2>. QED BY <1>1, <2>1, OtherMessages DEF taskVars
<1>. QED BY <1>1, <1>3, <1>10, Parts DEF TypeOK, taskVars

LEMMA HandleJoinAckStep ==
  ASSUME SwimInv, NEW m \in msgs, HandleJoinAck(m)
  PROVE  SwimInv'
<1>. USE DEF SwimInv
<1>. DEFINE n == m.dst
            table == Gossip(n, Told(m))
<1>1. /\ Learn(m) /\ UNCHANGED <<up, taskVars, crashes>> /\ msgs' = msgs \ {m}
      /\ broadcasts' = [broadcasts EXCEPT ![n] = table]
  BY DEF HandleJoinAck, LearnOnly
<1>2. table \in Table /\ Agrees(table, n, members'[n], incarnation'[n])
  BY <1>1, LearnIs
<1>3. BeliefTypes' /\ BeliefInv'
  <2>. HIDE DEF table
  <2>. QED BY <1>1, <1>2, LearnKeeps
<1>4. msgs' \subseteq Message /\ MessagesInv' /\ AwaitedInv'
  BY <1>1, OtherMessages DEF taskVars
<1>. QED BY <1>1, <1>3, <1>4, Parts DEF TypeOK, taskVars

LEMMA LoseStep ==
  ASSUME SwimInv, NEW m \in msgs, Lose(m)
  PROVE  SwimInv'
<1>. USE DEF SwimInv
<1>1. msgs' = msgs \ {m} /\ UNCHANGED <<up, beliefVars, taskVars, crashes>>
  BY DEF Lose
<1>2. msgs' \subseteq Message /\ MessagesInv' /\ AwaitedInv'
  BY <1>1, OtherMessages DEF taskVars
<1>. QED BY <1>1, <1>2, SameBeliefs, Parts DEF TypeOK, taskVars

LEMMA CrashStep ==
  ASSUME SwimInv, NEW n \in Node, Crash(n)
  PROVE  SwimInv'
<1>. USE DEF SwimInv
<1>. DEFINE late(m) == [m EXCEPT !.why = "late", !.for = m.src]
<1>1. /\ up' = [up EXCEPT ![n] = FALSE] /\ crashes' = crashes + 1
      /\ probe' = [probe EXCEPT ![n] = Idle] /\ revival' = [revival EXCEPT ![n] = Idle]
      /\ timers' = [timers EXCEPT ![n] = {}]
      /\ UNCHANGED <<incarnation, members, broadcasts>>
  BY DEF Crash
<1>2. /\ relays' = [h \in Node |-> IF h = n THEN {} ELSE
                      {IF r.for = n THEN [r EXCEPT !.late = TRUE] ELSE r : r \in relays[h]}]
      /\ msgs' = {IF n = (IF IsRequest(m) THEN m.src ELSE m.dst) THEN late(m) ELSE m : m \in msgs}
  BY DEF Crash
<1>3. BeliefTypes' /\ BeliefInv'
  BY <1>1 DEF TypeOK, BeliefTypes, Table, BeliefInv, GossipIsBelief, SelfUnknown
<1>4. ASSUME NEW k \in msgs'
      PROVE  (k \in msgs /\ (k.why = "revive" => Waiter(k) # n)) \/ Plain(k)
  <2>1. PICK m \in msgs : k = IF n = Waiter(m) THEN late(m) ELSE m
    BY <1>2 DEF Waiter
  <2>2. CASE n = Waiter(m)
    <3>1. k \in Message /\ Told(k) = Told(m) /\ k.why = "late"
      BY <2>1, <2>2, LateMessage DEF TypeOK
    <3>. QED BY <3>1 DEF Plain, MessagesInv
  <2>3. CASE n # Waiter(m)
    BY <2>1, <2>3
  <2>. QED BY <2>2, <2>3
<1>5. msgs' \subseteq Message /\ MessagesInv' /\ AwaitedInv'
  BY <1>1, <1>4, RevivalMessages
<1>6. relays' \in [Node -> SUBSET Relay]
  <2>1. ASSUME NEW h \in Node, NEW r \in relays[h] PROVE [r EXCEPT !.late = TRUE] \in Relay
    <3>1. r \in Relay
      BY DEF TypeOK
    <3>. QED BY <3>1 DEF Relay
  <2>2. ASSUME NEW h \in Node
        PROVE  {IF r.for = n THEN [r EXCEPT !.late = TRUE] ELSE r : r \in relays[h]} \subseteq Relay
    BY <2>1 DEF TypeOK
  <2>. QED BY <1>2, <2>2
<1>7. /\ up' \in [Node -> BOOLEAN] /\ crashes' \in Nat
      /\ probe' \in [Node -> {Idle} \cup Probing \cup Asking]
      /\ revival' \in [Node -> {Idle} \cup Reviving]
  BY <1>1 DEF TypeOK
<1>. QED BY <1>3, <1>5, <1>6, <1>7, Parts

LEMMA RestartStep ==
  ASSUME SwimInv, NEW n \in Node, Restart(n)
  PROVE  SwimInv'
<1>. USE DEF SwimInv
<1>1. up' = [up EXCEPT ![n] = TRUE] /\ UNCHANGED <<beliefVars, taskVars, msgs, crashes>>
  BY DEF Restart
<1>2. msgs' \subseteq Message /\ MessagesInv' /\ AwaitedInv'
  BY <1>1, OtherMessages DEF taskVars
<1>3. up' \in [Node -> BOOLEAN]
  BY <1>1 DEF TypeOK
<1>. QED BY <1>1, <1>2, <1>3, SameBeliefs, Parts DEF TypeOK, taskVars

-----------------------------------------------------------------------------
(* The invariant of every step, and what it says of every behaviour. *)

LEMMA StepInv == SwimInv /\ [Next]_vars => SwimInv'
<1>. SUFFICES ASSUME SwimInv, [Next]_vars PROVE SwimInv'
  OBVIOUS
<1>1. CASE UNCHANGED vars
  <2>1. UNCHANGED <<up, beliefVars, taskVars, msgs, crashes>>
    BY <1>1 DEF vars
  <2>2. msgs' \subseteq Message /\ MessagesInv' /\ AwaitedInv'
    BY <2>1, OtherMessages DEF taskVars, SwimInv
  <2>. QED BY <2>1, <2>2, SameBeliefs, Parts DEF SwimInv, TypeOK, taskVars
<1>2. ASSUME NEW n \in Node, Step(n) PROVE SwimInv'
  <2>1. CASE \E t \in Node : ProbeMember(n, t)
    BY <2>1, ProbeMemberStep
  <2>2. CASE \E t \in Node : AskTimeout(n, t)
    BY <2>2, AskTimeoutStep
  <2>3. CASE \E t \in Node : Revive(n, t)
    BY <2>3, ReviveStep
  <2>4. CASE ProbeTimeout(n)
    BY <2>4, ProbeTimeoutStep
  <2>5. CASE ProbeVerdict(n)
    BY <2>5, ProbeVerdictStep
  <2>6. CASE ReviveTimeout(n)
    BY <2>6, ReviveTimeoutStep
  <2>7. CASE ReviveVerdict(n)
    BY <2>7, ReviveVerdictStep
  <2>8. CASE \E t \in timers[n] : SuspicionTimeout(n, t)
    BY <2>8, SuspicionTimeoutStep
  <2>9. CASE \E r \in relays[n] : RelayTimeout(n, r)
    BY <2>9, RelayTimeoutStep
  <2>10. CASE JoinContact(n)
    BY <2>10, JoinContactStep
  <2>11. CASE Crash(n)
    BY <2>11, CrashStep
  <2>12. CASE Restart(n)
    BY <2>12, RestartStep
  <2>. QED BY <1>2, <2>1, <2>2, <2>3, <2>4, <2>5, <2>6, <2>7, <2>8, <2>9, <2>10, <2>11, <2>12 DEF Step
<1>3. ASSUME NEW m \in msgs, Deliver(m) \/ Lose(m) PROVE SwimInv'
  <2>1. CASE HandlePing(m)
    BY <2>1, HandlePingStep
  <2>2. CASE HandlePingReq(m)
    BY <2>2, HandlePingReqStep
  <2>3. CASE HandleAck(m)
    BY <2>3, HandleAckStep
  <2>4. CASE HandleJoin(m)
    BY <2>4, HandleJoinStep
  <2>5. CASE HandleJoinAck(m)
    BY <2>5, HandleJoinAckStep
  <2>6. CASE Lose(m)
    BY <2>6, LoseStep
  <2>. QED BY <1>3, <2>1, <2>2, <2>3, <2>4, <2>5, <2>6 DEF Deliver
<1>. QED BY <1>1, <1>2, <1>3 DEF Next

LEMMA Invariance == Spec => []SwimInv
  BY InitInv, StepInv, PTL DEF Spec

\* Whatever is lost, late or stopped, every action of a member finds what it reads:
\* an ack of a re-ping always meets the re-ping that waits for it (_request, _handle).
THEOREM TypesHold == Spec => []TypeOK
<1>1. SwimInv => TypeOK
  BY DEF SwimInv
<1>. QED BY <1>1, Invariance, PTL

\* For groups of every size and every gossip budget, a member gossips only what it
\* believes now (_set, _merge).
THEOREM GossipAgreesWithBelief == Spec => []GossipIsBelief
<1>1. SwimInv => GossipIsBelief
  BY DEF SwimInv, BeliefInv
<1>. QED BY <1>1, Invariance, PTL

-----------------------------------------------------------------------------
(* Who answers: what is in flight for a coroutine that waits. *)

Answerer(m) == IF IsRequest(m) THEN m.dst ELSE m.src

\* A datagram that is not late belongs to a wait that goes on, and goes to, or
\* comes from, whom that wait is about.
Awaited(m) ==
  LET n == Waiter(m) IN
  /\ m.why = "probe" => /\ m.type \in {"ping", "ack"} /\ m.for = n
                        /\ probe[n].at = "ping" /\ probe[n].target = Answerer(m)
  /\ m.why = "ask" => /\ m.type \in {"ping-req", "ack"} /\ m.for = n
                      /\ probe[n].at = "ask"
                      /\ m.type = "ping-req" => m.target = probe[n].target
  /\ m.why = "revive" => /\ m.type \in {"ping", "ack"} /\ m.for = n
                         /\ revival[n].at = "ping" /\ revival[n].target = Answerer(m)
  /\ m.why = "relay" => /\ m.type \in {"ping", "ack"}
                        /\ \E r \in relays[n] : r.for = m.for /\ r.target = Answerer(m)
  /\ m.why = "join" => m.type \in {"join", "join-ack"}

\* A helper pings for a member's present probe, unless it is late, and once.
RelayInv(h) ==
  \A r \in relays[h] :
    /\ ~r.late => probe[r.for].at = "ask" /\ probe[r.for].target = r.target
    /\ \A s \in relays[h] : s.for = r.for => s = r

\* One datagram at most is in flight between a wait and whom it is about.
Alone(m, k) ==
  m.why = k.why /\ m.why \in {"probe", "revive", "relay"} /\ m.for = k.for /\ Waiter(m) = Waiter(k) => m = k

TasksInv ==
  /\ \A m \in msgs : Awaited(m)
  /\ \A h \in Node : RelayInv(h)
  /\ \A m, k \in msgs : Alone(m, k)

\* No answer to the probe of n is on its way or has been counted.
NoAnswer(n) ==
  /\ \A m \in msgs : m.type = "ack" /\ m.dst = n => m.why \notin {"probe", "ask"}
  /\ \A m \in msgs : m.type = "ack" /\ m.why = "relay" /\ m.for = n =>
        \E r \in relays[m.dst] : r.for = n /\ r.late
  /\ probe[n].at = "ask" => ~probe[n].acked

\* Nor one to its re-ping.
NoRevival(n) ==
  /\ revival[n].at # "acked"
  /\ \A m \in msgs : m.type = "ack" /\ m.why = "revive" => m.dst # n

\* What a step does to the waits of n while whom they are about is down.
Unanswered(n) ==
  /\ probe[n] = Idle \/ (~up[probe[n].target] /\ NoAnswer(n)) =>
       /\ probe'[n] # Idle => NoAnswer(n)'
       /\ probe[n].at = "ping" /\ up'[n] => probe'[n] # Idle
  /\ revival[n] = Idle \/ (~up[revival[n].target] /\ NoRevival(n)) => NoRevival(n)'

WaitTypes ==
  /\ up \in [Node -> BOOLEAN]
  /\ msgs \subseteq Message
  /\ probe \in [Node -> {Idle} \cup Probing \cup Asking]
  /\ revival \in [Node -> {Idle} \cup Reviving]
  /\ relays \in [Node -> SUBSET Relay]

LEMMA MessageFields ==
  ASSUME NEW m \in Message
  PROVE  /\ m.src \in Node /\ m.dst \in Node /\ m.for \in Node /\ m.why \in Why
         /\ Waiter(m) \in Node /\ Answerer(m) \in Node
         /\ IsRequest(m) <=> m.type \notin {"ack", "join-ack"}
         /\ m.type \in {"ping", "ack", "ping-req", "join", "join-ack"}
<1>1. m.type \in {"ping", "ack", "ping-req", "join", "join-ack"} /\ m.src \in Node /\ m.dst \in Node
      /\ m.for \in Node /\ m.why \in Why
  BY DEF Message, Ping, Ack, PingReq, Join
<1>. QED BY <1>1 DEF Waiter, Answerer, IsRequest

LEMMA TaskFields ==
  ASSUME WaitTypes, NEW n \in Node
  PROVE  /\ probe[n].at = "ping" => probe[n] \in Probing
         /\ probe[n].at = "ask" => probe[n] \in Asking
         /\ probe[n] # Idle => probe[n].at \in {"ping", "ask"} /\ probe[n].target \in Node
         /\ probe[n] = Idle => probe[n].at = "idle"
         /\ revival[n].at \in {"ping", "acked"} => revival[n] \in Reviving /\ revival[n].target \in Node
         /\ revival[n] # Idle => revival[n].at \in {"ping", "acked"}
         /\ revival[n] = Idle => revival[n].at = "idle"
<1>1. probe[n] \in {Idle} \cup Probing \cup Asking /\ revival[n] \in {Idle} \cup Reviving
  BY DEF WaitTypes
<1>. QED BY <1>1 DEF Idle, Probing, Asking, Reviving

\* No coroutine begins or stops to wait, and no datagram is sent that one waits for.
LEMMA SameTasks ==
  ASSUME WaitTypes, TasksInv, UNCHANGED <<probe, revival, relays>>,
         \A k \in msgs' : \/ k \in msgs
                          \/ k.why = "late"
                          \/ k.why = "join" /\ k.type \in {"join", "join-ack"}
  PROVE  TasksInv' /\ \A n \in Node : Unanswered(n)
<1>1. ASSUME NEW m \in msgs' PROVE Awaited(m)'
  BY <1>1 DEF TasksInv, Awaited, Answerer, Waiter, IsRequest
<1>2. ASSUME NEW h \in Node PROVE RelayInv(h)'
  BY <1>2 DEF TasksInv, RelayInv
<1>3. ASSUME NEW m \in msgs', NEW k \in msgs' PROVE Alone(m, k)'
  BY <1>3 DEF TasksInv, Alone, Waiter, IsRequest
<1>4. ASSUME NEW n \in Node PROVE Unanswered(n)
  <2>1. NoAnswer(n) => NoAnswer(n)'
    BY DEF NoAnswer
  <2>2. NoRevival(n) => NoRevival(n)'
    BY DEF NoRevival
  <2>3. revival[n] = Idle => NoRevival(n)
    BY TaskFields, MessageFields DEF NoRevival, TasksInv, Awaited, Waiter, WaitTypes
  <2>4. probe[n] = Idle \/ NoAnswer(n) => (probe'[n] # Idle => NoAnswer(n)')
    BY <2>1
  <2>5. probe[n].at = "ping" => probe'[n] # Idle
    BY TaskFields
  <2>. QED BY <2>2, <2>3, <2>4, <2>5 DEF Unanswered
<1>. QED BY <1>1, <1>2, <1>3, <1>4 DEF TasksInv

LEMMA LateFields ==
  ASSUME NEW m \in Message
  PROVE  LET k == [m EXCEPT !.why = "late", !.for = m.src] IN
         k.why = "late" /\ k.type = m.type /\ k.src = m.src /\ k.dst = m.dst /\ k.updates = m.updates
<1>1. CASE m \in Ping
  BY <1>1 DEF Message, Ping
<1>2. CASE m \in Ack
  BY <1>2 DEF Message, Ack
<1>3. CASE m \in PingReq
  BY <1>3 DEF Message, PingReq
<1>4. CASE m \in Join
  BY <1>4 DEF Message, Join
<1>. QED BY <1>1, <1>2, <1>3, <1>4 DEF Message

\* What is forgotten is late, and nothing else changes.
LEMMA ForgetIs ==
  ASSUME WaitTypes, NEW n, NEW why, NEW for, NEW k \in Forget(msgs, n, why, for)
  PROVE  \/ k \in msgs /\ ~(k.why = why /\ k.for = for /\ Waiter(k) = n)
         \/ k.why = "late"
<1>1. PICK m \in msgs : k = IF Concerns(m, n, why, for) THEN [m EXCEPT !.why = "late", !.for = m.src] ELSE m
  BY DEF Forget
<1>2. m \in Message
  BY DEF WaitTypes
<1>3. CASE Concerns(m, n, why, for)
  BY <1>1, <1>2, <1>3, LateFields
<1>4. CASE ~Concerns(m, n, why, for)
  BY <1>1, <1>4 DEF Concerns, Waiter
<1>. QED BY <1>3, <1>4

LEMMA ProbeMemberWaits ==
  ASSUME WaitTypes, TasksInv, NEW n \in Node, NEW t \in Node, ProbeMember(n, t)
  PROVE  TasksInv' /\ \A x \in Node : Unanswered(x)
<1>1. PICK us \in Due(broadcasts[n]) :
        msgs' = msgs \cup {[type |-> "ping", src |-> n, dst |-> t, why |-> "probe", for |-> n,
                            inc |-> incarnation[n], updates |-> Content(us)]}
  BY DEF ProbeMember
<1>. DEFINE ping == [type |-> "ping", src |-> n, dst |-> t, why |-> "probe", for |-> n,
                     inc |-> incarnation[n], updates |-> Content(us)]
<1>2. /\ probe[n] = Idle /\ UNCHANGED <<revival, relays, up>>
      /\ probe' = [probe EXCEPT ![n] = [at |-> "ping", target |-> t, others |-> Candidates(n) \ {t}]]
  BY DEF ProbeMember
<1>3. /\ probe'[n].at = "ping" /\ probe'[n].target = t /\ probe[n].at = "idle"
      /\ \A x \in Node \ {n} : probe'[x] = probe[x]
  BY <1>2, TaskFields DEF WaitTypes
<1>4. /\ ping.type = "ping" /\ ping.why = "probe" /\ ping.for = n /\ Waiter(ping) = n /\ Answerer(ping) = t
  BY DEF Waiter, Answerer, IsRequest
<1>. HIDE DEF ping
<1>5. msgs' = msgs \cup {ping}
  BY <1>1 DEF ping
<1>6. \A m \in msgs : m.why \in {"probe", "ask"} => Waiter(m) # n
  BY <1>3 DEF TasksInv, Awaited
<1>7. \A h \in Node : \A r \in relays[h] : r.for = n => r.late
  BY <1>3 DEF TasksInv, RelayInv
<1>8. ASSUME NEW m \in msgs' PROVE Awaited(m)'
  <2>1. CASE m = ping
    BY <1>2, <1>3, <1>4, <2>1 DEF Awaited, Waiter, Answerer, IsRequest
  <2>2. CASE m \in msgs
    <3>1. Waiter(m) \in Node /\ Awaited(m)
      BY <2>2, MessageFields DEF WaitTypes, TasksInv
    <3>. QED BY <1>2, <1>3, <1>6, <2>2, <3>1 DEF Awaited, Waiter, Answerer, IsRequest
  <2>. QED BY <1>5, <2>1, <2>2
<1>9. ASSUME NEW h \in Node PROVE RelayInv(h)'
  <2>1. \A r \in relays[h] : r.for \in Node
    BY DEF WaitTypes, Relay
  <2>. QED BY <1>2, <1>3, <1>7, <2>1 DEF TasksInv, RelayInv
<1>10. ASSUME NEW m \in msgs', NEW k \in msgs' PROVE Alone(m, k)'
  BY <1>4, <1>5, <1>6 DEF TasksInv, Alone, Waiter, IsRequest
<1>11. ASSUME NEW x \in Node PROVE Unanswered(x)
  <2>1. CASE x = n
    <3>1. \A m \in msgs : m.type = "ack" /\ m.dst = n => m.why \notin {"probe", "ask"}
      BY <1>6 DEF Waiter, IsRequest
    <3>2. \A m \in msgs : m.type = "ack" /\ m.why = "relay" /\ m.for = n =>
             \E r \in relays[m.dst] : r.for = n /\ r.late
      BY <1>7, MessageFields DEF TasksInv, Awaited, Waiter, IsRequest, WaitTypes
    <3>3. NoAnswer(n)'
      BY <1>2, <1>3, <1>4, <1>5, <3>1, <3>2 DEF NoAnswer
    <3>4. NoRevival(n) => NoRevival(n)'
      BY <1>2, <1>4, <1>5 DEF NoRevival
    <3>5. revival[n] = Idle => NoRevival(n)
      BY TaskFields, MessageFields DEF NoRevival, TasksInv, Awaited, Waiter, WaitTypes
    <3>. QED BY <1>2, <1>3, <2>1, <3>3, <3>4, <3>5 DEF Unanswered
  <2>2. CASE x # n
    <3>1. NoAnswer(x) => NoAnswer(x)'
      BY <1>2, <1>3, <1>4, <1>5, <2>2 DEF NoAnswer
    <3>2. NoRevival(x) => NoRevival(x)'
      BY <1>2, <1>4, <1>5 DEF NoRevival
    <3>3. revival[x] = Idle => NoRevival(x)
      BY TaskFields, MessageFields DEF NoRevival, TasksInv, Awaited, Waiter, WaitTypes
    <3>4. probe[x].at = "ping" => probe'[x] # Idle
      BY <1>3, <2>2, TaskFields
    <3>. QED BY <1>3, <2>2, <3>1, <3>2, <3>3, <3>4 DEF Unanswered
  <2>. QED BY <2>1, <2>2
<1>. QED BY <1>8, <1>9, <1>10, <1>11 DEF TasksInv

LEMMA RevivalKept ==
  ASSUME WaitTypes, TasksInv, NEW x \in Node, revival'[x] = revival[x],
         \A k \in msgs' : k \in msgs \/ ~(k.type = "ack" /\ k.why = "revive" /\ k.dst = x)
  PROVE  revival[x] = Idle \/ (~up[revival[x].target] /\ NoRevival(x)) => NoRevival(x)'
<1>1. NoRevival(x) => NoRevival(x)'
  BY DEF NoRevival
<1>2. revival[x] = Idle => NoRevival(x)
  BY TaskFields, MessageFields DEF NoRevival, TasksInv, Awaited, Waiter, WaitTypes
<1>. QED BY <1>1, <1>2

LEMMA AnswerKept ==
  ASSUME WaitTypes, NEW x \in Node, probe'[x] = probe[x],
         \A k \in msgs' : \/ k \in msgs
                          \/ k.type # "ack"
                          \/ /\ k.why \in {"probe", "ask"} => k.dst # x
                             /\ k.why = "relay" => k.for # x,
         \A m \in msgs \cap msgs' : m.type = "ack" /\ m.why = "relay" /\ m.for = x =>
            \A r \in relays[m.dst] : r.for = x /\ r.late => r \in relays'[m.dst]
  PROVE  probe[x] = Idle \/ (~up[probe[x].target] /\ NoAnswer(x)) =>
           /\ probe'[x] # Idle => NoAnswer(x)'
           /\ probe[x].at = "ping" /\ up'[x] => probe'[x] # Idle
<1>1. NoAnswer(x) => NoAnswer(x)'
  BY DEF NoAnswer
<1>. QED BY <1>1, TaskFields

LEMMA AwaitedKept ==
  ASSUME WaitTypes, TasksInv, NEW m \in msgs,
         m.why \in {"probe", "ask"} =>
            probe'[Waiter(m)].at = probe[Waiter(m)].at /\ probe'[Waiter(m)].target = probe[Waiter(m)].target,
         m.why = "revive" => revival'[Waiter(m)] = revival[Waiter(m)],
         m.why = "relay" => \A r \in relays[Waiter(m)] : r.for = m.for =>
            \E s \in relays'[Waiter(m)] : s.for = r.for /\ s.target = r.target
  PROVE  Awaited(m)'
<1>1. Awaited(m)
  BY DEF TasksInv
<1>2. Waiter(m)' = Waiter(m) /\ Answerer(m)' = Answerer(m)
  BY DEF Waiter, Answerer, IsRequest
<1>3. CASE m.why = "relay"
  BY <1>1, <1>2, <1>3 DEF Awaited
<1>4. CASE m.why # "relay"
  BY <1>1, <1>2, <1>4 DEF Awaited
<1>. QED BY <1>3, <1>4

LEMMA ProbeTimeoutWaits ==
  ASSUME WaitTypes, TasksInv, NEW n \in Node, ProbeTimeout(n)
  PROVE  TasksInv' /\ \A x \in Node : Unanswered(x)
<1>1. PICK helpers \in SUBSET probe[n].others :
        /\ probe' = [probe EXCEPT ![n] =
                       [at |-> "ask", target |-> @.target, open |-> helpers, acked |-> FALSE]]
        /\ msgs' = Forget(msgs, n, "probe", n) \cup
             {[type |-> "ping-req", src |-> n, dst |-> h, why |-> "ask", for |-> n,
               target |-> probe[n].target, inc |-> incarnation[n], updates |-> {}] : h \in helpers}
  BY DEF ProbeTimeout
<1>2. probe[n].at = "ping" /\ UNCHANGED <<revival, relays, up>>
  BY DEF ProbeTimeout
<1>3. /\ probe'[n].at = "ask" /\ probe'[n].target = probe[n].target /\ ~probe'[n].acked
      /\ \A x \in Node \ {n} : probe'[x] = probe[x]
  BY <1>1 DEF WaitTypes
<1>4. ASSUME NEW k \in msgs'
      PROVE  \/ k \in msgs /\ ~(k.why = "probe" /\ Waiter(k) = n)
             \/ k.why = "late"
             \/ k.type = "ping-req" /\ k.why = "ask" /\ k.for = n /\ Waiter(k) = n /\ k.target = probe[n].target
  <2>1. CASE k \in Forget(msgs, n, "probe", n)
    BY <2>1, ForgetIs DEF TasksInv, Awaited
  <2>2. CASE k \notin Forget(msgs, n, "probe", n)
    BY <1>1, <2>2 DEF Waiter, IsRequest
  <2>. QED BY <2>1, <2>2
<1>5. \A m \in msgs : m.why = "ask" => Waiter(m) # n
  BY <1>2 DEF TasksInv, Awaited
<1>6. \A h \in Node : \A r \in relays[h] : r.for = n => r.late
  BY <1>2 DEF TasksInv, RelayInv
<1>7. ASSUME NEW m \in msgs' PROVE Awaited(m)'
  <2>1. CASE m \in msgs /\ ~(m.why = "probe" /\ Waiter(m) = n)
    <3>1. Waiter(m) \in Node /\ Awaited(m)
      BY <2>1, MessageFields DEF WaitTypes, TasksInv
    <3>. QED BY <1>2, <1>3, <1>5, <2>1, <3>1 DEF Awaited, Waiter, Answerer, IsRequest
  <2>2. CASE m.why = "late"
    BY <2>2 DEF Awaited
  <2>3. CASE m.type = "ping-req" /\ m.why = "ask" /\ m.for = n /\ Waiter(m) = n /\ m.target = probe[n].target
    BY <1>3, <2>3 DEF Awaited, Waiter, Answerer, IsRequest
  <2>. QED BY <1>4, <2>1, <2>2, <2>3
<1>8. ASSUME NEW h \in Node PROVE RelayInv(h)'
  <2>1. \A r \in relays[h] : r.for \in Node
    BY DEF WaitTypes, Relay
  <2>. QED BY <1>2, <1>3, <1>6, <2>1 DEF TasksInv, RelayInv
<1>9. ASSUME NEW m \in msgs', NEW k \in msgs' PROVE Alone(m, k)'
  BY <1>4 DEF TasksInv, Alone, Waiter, IsRequest
<1>10. ASSUME NEW x \in Node PROVE Unanswered(x)
  <2>1. revival[x] = Idle \/ (~up[revival[x].target] /\ NoRevival(x)) => NoRevival(x)'
    BY <1>2, <1>4, RevivalKept
  <2>2. CASE x = n
    <3>1. NoAnswer(n) => NoAnswer(n)'
      BY <1>2, <1>3, <1>4 DEF NoAnswer
    <3>. QED BY <1>2, <1>3, <2>1, <2>2, <3>1, TaskFields DEF Unanswered, Idle
  <2>3. CASE x # n
    BY <1>2, <1>3, <1>4, <2>1, <2>3, AnswerKept DEF Unanswered
  <2>. QED BY <2>2, <2>3
<1>. QED BY <1>7, <1>8, <1>9, <1>10 DEF TasksInv

LEMMA AskTimeoutWaits ==
  ASSUME WaitTypes, TasksInv, NEW n \in Node, NEW h \in Node, AskTimeout(n, h)
  PROVE  TasksInv' /\ \A x \in Node : Unanswered(x)
<1>1. /\ probe[n].at = "ask" /\ probe' = [probe EXCEPT ![n].open = @ \ {h}]
      /\ UNCHANGED <<revival, relays, msgs, up>>
  BY DEF AskTimeout
<1>2. /\ probe'[n].at = "ask" /\ probe'[n].target = probe[n].target /\ probe'[n].acked = probe[n].acked
      /\ \A x \in Node \ {n} : probe'[x] = probe[x]
  BY <1>1, TaskFields DEF WaitTypes, Asking
<1>3. ASSUME NEW m \in msgs' PROVE Awaited(m)'
  <2>1. Waiter(m) \in Node /\ Awaited(m)
    BY <1>1, MessageFields DEF WaitTypes, TasksInv
  <2>. QED BY <1>1, <1>2, <2>1 DEF Awaited, Waiter, Answerer, IsRequest
<1>4. ASSUME NEW k \in Node PROVE RelayInv(k)'
  <2>1. \A r \in relays[k] : r.for \in Node
    BY DEF WaitTypes, Relay
  <2>. QED BY <1>1, <1>2, <2>1 DEF TasksInv, RelayInv
<1>5. ASSUME NEW m \in msgs', NEW k \in msgs' PROVE Alone(m, k)'
  BY <1>1 DEF TasksInv, Alone, Waiter, IsRequest
<1>6. ASSUME NEW x \in Node PROVE Unanswered(x)
  <2>1. revival[x] = Idle \/ (~up[revival[x].target] /\ NoRevival(x)) => NoRevival(x)'
    BY <1>1, RevivalKept
  <2>2. CASE x = n
    <3>1. NoAnswer(n) => NoAnswer(n)'
      BY <1>1, <1>2 DEF NoAnswer
    <3>. QED BY <1>1, <1>2, <2>1, <2>2, <3>1, TaskFields DEF Unanswered, Idle
  <2>3. CASE x # n
    BY <1>1, <1>2, <2>1, <2>3, AnswerKept DEF Unanswered
  <2>. QED BY <2>2, <2>3
<1>. QED BY <1>3, <1>4, <1>5, <1>6 DEF TasksInv

LEMMA ProbeVerdictWaits ==
  ASSUME WaitTypes, TasksInv, NEW n \in Node, ProbeVerdict(n)
  PROVE  TasksInv' /\ \A x \in Node : Unanswered(x)
<1>. DEFINE aside(r) == IF r.for = n THEN [r EXCEPT !.late = TRUE] ELSE r
<1>1. /\ probe[n].at = "ask" /\ probe' = [probe EXCEPT ![n] = Idle]
      /\ msgs' = Forget(msgs, n, "ask", n)
      /\ relays' = [h \in Node |-> {aside(r) : r \in relays[h]}]
      /\ UNCHANGED <<up, revival>>
  BY DEF ProbeVerdict
<1>2. probe'[n] = Idle /\ \A x \in Node \ {n} : probe'[x] = probe[x]
  BY <1>1 DEF WaitTypes
<1>3. ASSUME NEW k \in msgs'
      PROVE  \/ k \in msgs /\ ~(k.why = "ask" /\ Waiter(k) = n)
             \/ k.why = "late"
  BY <1>1, ForgetIs DEF TasksInv, Awaited
<1>4. \A m \in msgs : m.why = "probe" => Waiter(m) # n
  BY <1>1 DEF TasksInv, Awaited
<1>5. ASSUME NEW h \in Node, NEW r \in relays[h]
      PROVE  /\ aside(r).for = r.for /\ aside(r).target = r.target /\ aside(r) \in relays'[h]
             /\ r.late => aside(r) = r
             /\ ~aside(r).late => r.for # n /\ ~r.late
             /\ r.for \in Node
  <2>1. r \in Relay
    BY DEF WaitTypes
  <2>2. aside(r) \in relays'[h]
    BY <1>1
  <2>. QED BY <2>1, <2>2 DEF Relay
<1>6. \A h \in Node : \A s \in relays'[h] : \E r \in relays[h] : s = aside(r)
  BY <1>1
<1>. HIDE DEF aside
<1>7. ASSUME NEW m \in msgs' PROVE Awaited(m)'
  <2>1. CASE m \in msgs /\ ~(m.why = "ask" /\ Waiter(m) = n)
    <3>1. Waiter(m) \in Node
      BY <2>1, MessageFields DEF WaitTypes
    <3>2. m.why \in {"probe", "ask"} => Waiter(m) # n
      BY <1>4, <2>1
    <3>3. \A r \in relays[Waiter(m)] : \E s \in relays'[Waiter(m)] : s.for = r.for /\ s.target = r.target
      BY <1>5, <3>1
    <3>. QED BY <1>1, <1>2, <2>1, <3>1, <3>2, <3>3, AwaitedKept
  <2>2. CASE m.why = "late"
    BY <2>2 DEF Awaited
  <2>. QED BY <1>3, <2>1, <2>2
<1>8. ASSUME NEW h \in Node PROVE RelayInv(h)'
  <2>1. ASSUME NEW s \in relays'[h], NEW q \in relays'[h]
        PROVE  /\ ~s.late => probe'[s.for].at = "ask" /\ probe'[s.for].target = s.target
               /\ q.for = s.for => q = s
    <3>1. PICK r \in relays[h] : s = aside(r)
      BY <1>6
    <3>2. PICK p \in relays[h] : q = aside(p)
      BY <1>6
    <3>3. q.for = s.for => p = r
      BY <3>1, <3>2, <1>5 DEF TasksInv, RelayInv
    <3>. QED BY <1>2, <1>5, <3>1, <3>2, <3>3 DEF TasksInv, RelayInv
  <2>. QED BY <2>1 DEF RelayInv
<1>9. ASSUME NEW m \in msgs', NEW k \in msgs' PROVE Alone(m, k)'
  BY <1>3 DEF TasksInv, Alone, Waiter, IsRequest
<1>10. ASSUME NEW x \in Node PROVE Unanswered(x)
  <2>1. revival[x] = Idle \/ (~up[revival[x].target] /\ NoRevival(x)) => NoRevival(x)'
    BY <1>1, <1>3, RevivalKept
  <2>2. CASE x = n
    BY <1>1, <1>2, <2>1, <2>2, TaskFields DEF Unanswered
  <2>3. CASE x # n
    <3>1. \A m \in msgs : \A r \in relays[m.dst] : r.for = x /\ r.late => r \in relays'[m.dst]
      BY <1>5, MessageFields DEF WaitTypes
    <3>. QED BY <1>2, <1>3, <2>1, <2>3, <3>1, AnswerKept DEF Unanswered
  <2>. QED BY <2>2, <2>3
<1>. QED BY <1>7, <1>8, <1>9, <1>10 DEF TasksInv

LEMMA ReviveWaits ==
  ASSUME WaitTypes, TasksInv, NEW n \in Node, NEW t \in Node, Revive(n, t)
  PROVE  TasksInv' /\ \A x \in Node : Unanswered(x)
<1>. DEFINE ping == [type |-> "ping", src |-> n, dst |-> t, why |-> "revive", for |-> n,
                     inc |-> incarnation[n], updates |-> {}]
<1>1. /\ revival[n] = Idle /\ revival' = [revival EXCEPT ![n] = [at |-> "ping", target |-> t]]
      /\ msgs' = msgs \cup {ping} /\ UNCHANGED <<up, probe, relays>>
  BY DEF Revive
<1>2. /\ revival'[n].at = "ping" /\ revival'[n].target = t /\ revival[n].at = "idle"
      /\ \A x \in Node \ {n} : revival'[x] = revival[x]
  BY <1>1, TaskFields DEF WaitTypes
<1>3. /\ ping.type = "ping" /\ ping.why = "revive" /\ ping.for = n /\ Waiter(ping) = n /\ Answerer(ping) = t
  BY DEF Waiter, Answerer, IsRequest
<1>. HIDE DEF ping
<1>4. \A m \in msgs : m.why = "revive" => Waiter(m) # n
  BY <1>2 DEF TasksInv, Awaited
<1>5. ASSUME NEW m \in msgs' PROVE Awaited(m)'
  <2>1. CASE m = ping
    BY <1>2, <1>3, <2>1 DEF Awaited, Waiter, Answerer, IsRequest
  <2>2. CASE m \in msgs
    <3>1. Waiter(m) \in Node
      BY <2>2, MessageFields DEF WaitTypes
    <3>. QED BY <1>1, <1>2, <1>4, <2>2, <3>1, AwaitedKept
  <2>. QED BY <1>1, <2>1, <2>2
<1>6. ASSUME NEW h \in Node PROVE RelayInv(h)'
  BY <1>1 DEF TasksInv, RelayInv
<1>7. ASSUME NEW m \in msgs', NEW k \in msgs' PROVE Alone(m, k)'
  BY <1>1, <1>3, <1>4 DEF TasksInv, Alone, Waiter, IsRequest
<1>8. ASSUME NEW x \in Node PROVE Unanswered(x)
  <2>1. probe[x] = Idle \/ (~up[probe[x].target] /\ NoAnswer(x)) =>
           /\ probe'[x] # Idle => NoAnswer(x)'
           /\ probe[x].at = "ping" /\ up'[x] => probe'[x] # Idle
    BY <1>1, <1>3, AnswerKept
  <2>2. CASE x = n
    <3>1. \A m \in msgs : m.type = "ack" /\ m.why = "revive" => m.dst # n
      BY <1>4 DEF Waiter, IsRequest
    <3>2. NoRevival(n)'
      BY <1>1, <1>2, <1>3, <3>1 DEF NoRevival
    <3>. QED BY <2>1, <2>2, <3>2 DEF Unanswered
  <2>3. CASE x # n
    <3>1. revival[x] = Idle \/ (~up[revival[x].target] /\ NoRevival(x)) => NoRevival(x)'
      BY <1>1, <1>2, <1>3, <2>3, RevivalKept
    <3>. QED BY <2>1, <3>1 DEF Unanswered
  <2>. QED BY <2>2, <2>3
<1>. QED BY <1>5, <1>6, <1>7, <1>8 DEF TasksInv

\* The re-ping of n is over, and what was in flight for it is late.
LEMMA RevivalOver ==
  ASSUME WaitTypes, TasksInv, NEW n \in Node, UNCHANGED <<up, probe, relays>>,
         revival' = [revival EXCEPT ![n] = Idle],
         \A k \in msgs' : k.why = "late" \/ (k \in msgs /\ (k.why = "revive" => Waiter(k) # n))
  PROVE  TasksInv' /\ \A x \in Node : Unanswered(x)
<1>1. revival'[n] = Idle /\ \A x \in Node \ {n} : revival'[x] = revival[x]
  BY DEF WaitTypes
<1>2. ASSUME NEW m \in msgs' PROVE Awaited(m)'
  <2>1. CASE m.why = "late"
    BY <2>1 DEF Awaited
  <2>2. CASE m \in msgs /\ (m.why = "revive" => Waiter(m) # n)
    <3>1. Waiter(m) \in Node
      BY <2>2, MessageFields DEF WaitTypes
    <3>. QED BY <1>1, <2>2, <3>1, AwaitedKept
  <2>. QED BY <2>1, <2>2
<1>3. ASSUME NEW h \in Node PROVE RelayInv(h)'
  BY DEF TasksInv, RelayInv
<1>4. ASSUME NEW m \in msgs', NEW k \in msgs' PROVE Alone(m, k)'
  BY DEF TasksInv, Alone, Waiter, IsRequest
<1>5. ASSUME NEW x \in Node PROVE Unanswered(x)
  <2>1. probe[x] = Idle \/ (~up[probe[x].target] /\ NoAnswer(x)) =>
           /\ probe'[x] # Idle => NoAnswer(x)'
           /\ probe[x].at = "ping" /\ up'[x] => probe'[x] # Idle
    BY AnswerKept
  <2>2. CASE x = n
    <3>1. NoRevival(n)'
      BY <1>1 DEF NoRevival, Idle, Waiter, IsRequest
    <3>. QED BY <2>1, <2>2, <3>1 DEF Unanswered
  <2>3. CASE x # n
    <3>1. revival[x] = Idle \/ (~up[revival[x].target] /\ NoRevival(x)) => NoRevival(x)'
      BY <1>1, <2>3, RevivalKept
    <3>. QED BY <2>1, <3>1 DEF Unanswered
  <2>. QED BY <2>2, <2>3
<1>. QED BY <1>2, <1>3, <1>4, <1>5 DEF TasksInv

LEMMA ReviveTimeoutWaits ==
  ASSUME WaitTypes, TasksInv, NEW n \in Node, ReviveTimeout(n)
  PROVE  TasksInv' /\ \A x \in Node : Unanswered(x)
<1>1. /\ revival' = [revival EXCEPT ![n] = Idle] /\ msgs' = Forget(msgs, n, "revive", n)
      /\ UNCHANGED <<up, probe, relays>>
  BY DEF ReviveTimeout
<1>2. ASSUME NEW k \in msgs'
      PROVE  k.why = "late" \/ (k \in msgs /\ (k.why = "revive" => Waiter(k) # n))
  BY <1>1, ForgetIs DEF TasksInv, Awaited
<1>. QED BY <1>1, <1>2, RevivalOver

LEMMA ReviveVerdictWaits ==
  ASSUME WaitTypes, TasksInv, NEW n \in Node, ReviveVerdict(n)
  PROVE  TasksInv' /\ \A x \in Node : Unanswered(x)
<1>1. /\ revival[n].at = "acked" /\ revival' = [revival EXCEPT ![n] = Idle]
      /\ UNCHANGED <<up, probe, relays, msgs>>
  BY DEF ReviveVerdict
<1>2. ASSUME NEW k \in msgs'
      PROVE  k.why = "late" \/ (k \in msgs /\ (k.why = "revive" => Waiter(k) # n))
  BY <1>1 DEF TasksInv, Awaited
<1>. QED BY <1>1, <1>2, RevivalOver

\* Only who is up answers.
LEMMA HandlePingWaits ==
  ASSUME WaitTypes, TasksInv, NEW m \in msgs, HandlePing(m)
  PROVE  TasksInv' /\ \A x \in Node : Unanswered(x)
<1>1. PICK us \in Due(Gossip(m.dst, Told(m))) :
        msgs' = (msgs \ {m}) \cup
          {[type |-> "ack", src |-> m.dst, dst |-> m.src, why |-> m.why, for |-> m.for,
            inc |-> incarnation'[m.dst], updates |-> Content(us)]}
  BY DEF HandlePing
<1>. DEFINE ack == [type |-> "ack", src |-> m.dst, dst |-> m.src, why |-> m.why, for |-> m.for,
                    inc |-> incarnation'[m.dst], updates |-> Content(us)]
<1>2. m.type = "ping" /\ up[m.dst] /\ UNCHANGED <<up, probe, revival, relays>> /\ m \in Message
  BY DEF HandlePing, Learn, taskVars, WaitTypes
<1>3. /\ ack.type = "ack" /\ ack.why = m.why /\ ack.for = m.for /\ ack.dst = m.src
      /\ Waiter(ack) = Waiter(m) /\ Waiter(m) = m.src /\ Answerer(ack) = Answerer(m) /\ Answerer(m) = m.dst
  BY <1>2 DEF Waiter, Answerer, IsRequest
<1>. HIDE DEF ack
<1>4. msgs' = (msgs \ {m}) \cup {ack}
  BY <1>1 DEF ack
<1>5. Awaited(m) /\ m.why # "ask" /\ m.src \in Node
  BY <1>2, MessageFields DEF TasksInv, Awaited
<1>6. ASSUME NEW k \in msgs' PROVE Awaited(k)'
  <2>1. CASE k = ack
    BY <1>2, <1>3, <1>5, <2>1 DEF Awaited, Waiter, Answerer, IsRequest
  <2>2. CASE k \in msgs
    BY <1>2, <2>2, AwaitedKept
  <2>. QED BY <1>4, <2>1, <2>2
<1>7. ASSUME NEW h \in Node PROVE RelayInv(h)'
  BY <1>2 DEF TasksInv, RelayInv
<1>8. ASSUME NEW l \in msgs', NEW k \in msgs' PROVE Alone(l, k)'
  <2>1. \A k1 \in msgs \ {m} : ~(k1.why = ack.why /\ ack.why \in {"probe", "revive", "relay"}
                                 /\ k1.for = ack.for /\ Waiter(k1) = Waiter(ack))
    BY <1>3 DEF TasksInv, Alone
  <2>2. Alone(l, k)
    BY <1>4, <2>1 DEF TasksInv, Alone
  <2>. QED BY <2>2 DEF Alone, Waiter, IsRequest
<1>9. ASSUME NEW x \in Node PROVE Unanswered(x)
  <2>1. ASSUME ~up[probe[x].target], NoAnswer(x) PROVE NoAnswer(x)'
    <3>1. ~(ack.dst = x /\ ack.why \in {"probe", "ask"})
      BY <1>2, <1>3, <1>5, <2>1 DEF Awaited
    <3>2. CASE ack.why = "relay" /\ ack.for = x
      <4>1. PICK r \in relays[m.src] : r.for = x /\ r.target = m.dst
        BY <1>3, <1>5, <3>2 DEF Awaited
      <4>2. r.late
        BY <1>2, <1>5, <2>1, <4>1 DEF TasksInv, RelayInv
      <4>. QED BY <1>2, <1>3, <1>4, <2>1, <3>1, <4>1, <4>2 DEF NoAnswer
    <3>3. CASE ~(ack.why = "relay" /\ ack.for = x)
      BY <1>2, <1>3, <1>4, <2>1, <3>1, <3>3 DEF NoAnswer
    <3>. QED BY <3>2, <3>3
  <2>2. ASSUME ~up[revival[x].target], NoRevival(x) PROVE NoRevival(x)'
    <3>1. ~(ack.dst = x /\ ack.why = "revive")
      BY <1>2, <1>3, <1>5, <2>2 DEF Awaited
    <3>. QED BY <1>2, <1>4, <2>2, <3>1 DEF NoRevival
  <2>3. revival[x] = Idle => NoRevival(x)'
    <3>1. revival[x] = Idle => revival[x].at = "idle"
      BY TaskFields
    <3>2. revival[x].at = "idle" => \A k \in msgs' : k.type = "ack" /\ k.why = "revive" => k.dst # x
      BY <1>2, <1>6 DEF Awaited, Waiter, IsRequest
    <3>. QED BY <1>2, <3>1, <3>2 DEF NoRevival
  <2>. QED BY <1>2, <2>1, <2>2, <2>3, TaskFields DEF Unanswered
<1>. QED BY <1>6, <1>7, <1>8, <1>9 DEF TasksInv

LEMMA HandlePingReqWaits ==
  ASSUME WaitTypes, TasksInv, NEW m \in msgs, HandlePingReq(m)
  PROVE  TasksInv' /\ \A x \in Node : Unanswered(x)
<1>. DEFINE n == m.dst
            relay == [for |-> m.src, target |-> m.target, late |-> m.why = "late"]
            ping == [type |-> "ping", src |-> n, dst |-> m.target, why |-> "relay", for |-> m.src,
                     inc |-> incarnation'[n], updates |-> {}]
<1>1. /\ m.type = "ping-req" /\ UNCHANGED <<up, probe, revival>>
      /\ \A r \in relays[n] : r.for # m.src
      /\ relays' = [relays EXCEPT ![n] = @ \cup {relay}]
      /\ msgs' = (msgs \ {m}) \cup {ping}
  BY DEF HandlePingReq
<1>2. n \in Node /\ m.src \in Node
  BY MessageFields DEF WaitTypes
<1>3. relays'[n] = relays[n] \cup {relay} /\ \A h \in Node \ {n} : relays'[h] = relays[h]
  BY <1>1, <1>2 DEF WaitTypes
<1>4. relay.for = m.src /\ relay.target = m.target /\ (relay.late <=> m.why = "late")
  OBVIOUS
<1>5. /\ ping.type = "ping" /\ ping.why = "relay" /\ ping.for = m.src /\ Waiter(ping) = n
      /\ Answerer(ping) = m.target
  BY DEF Waiter, Answerer, IsRequest
<1>. HIDE DEF ping, relay, n
<1>6. Awaited(m) /\ Waiter(m) = m.src /\ m.why \in {"ask", "late"}
  <2>1. Awaited(m) /\ m.why \in Why
    BY MessageFields DEF TasksInv, WaitTypes
  <2>. QED BY <1>1, <2>1 DEF Awaited, Waiter, IsRequest, Why
<1>7. ~relay.late => probe[m.src].at = "ask" /\ probe[m.src].target = relay.target
  BY <1>1, <1>4, <1>6 DEF Awaited
<1>8. \A k \in msgs : k.why = "relay" => ~(k.for = m.src /\ Waiter(k) = n)
  BY <1>1 DEF TasksInv, Awaited
<1>9. ASSUME NEW k \in msgs' PROVE Awaited(k)'
  <2>1. CASE k = ping
    BY <1>3, <1>4, <1>5, <2>1 DEF Awaited, Waiter, Answerer, IsRequest
  <2>2. CASE k \in msgs
    <3>1. Waiter(k) \in Node
      BY <2>2, MessageFields DEF WaitTypes
    <3>2. \A r \in relays[Waiter(k)] : r \in relays'[Waiter(k)]
      BY <1>3, <3>1
    <3>. QED BY <1>1, <2>2, <3>2, AwaitedKept
  <2>. QED BY <1>1, <2>1, <2>2
<1>10. ASSUME NEW h \in Node PROVE RelayInv(h)'
  <2>1. CASE h = n
    BY <1>1, <1>2, <1>3, <1>4, <1>7, <2>1 DEF TasksInv, RelayInv
  <2>2. CASE h # n
    BY <1>1, <1>3, <2>2 DEF TasksInv, RelayInv
  <2>. QED BY <2>1, <2>2
<1>11. ASSUME NEW l \in msgs', NEW k \in msgs' PROVE Alone(l, k)'
  <2>1. Alone(l, k)
    BY <1>1, <1>5, <1>8 DEF TasksInv, Alone
  <2>. QED BY <2>1 DEF Alone, Waiter, IsRequest
<1>12. ASSUME NEW x \in Node PROVE Unanswered(x)
  <2>1. \A k \in msgs : \A r \in relays[k.dst] : r \in relays'[k.dst]
    BY <1>3, MessageFields DEF WaitTypes
  <2>2. \A k \in msgs' : k \in msgs \/ k.type # "ack"
    BY <1>1, <1>5
  <2>. QED BY <1>1, <2>1, <2>2, AnswerKept, RevivalKept DEF Unanswered
<1>. QED BY <1>9, <1>10, <1>11, <1>12 DEF TasksInv

\* A relay is over, and nothing it waits for is in flight; its answer, if it has
\* one, goes to whom the helper pinged for.
LEMMA RelayOver ==
  ASSUME WaitTypes, TasksInv, NEW n \in Node, NEW over \in SUBSET relays[n],
         UNCHANGED <<up, revival>>, relays' = [relays EXCEPT ![n] = @ \ over],
         \A x \in Node : probe'[x].at = probe[x].at /\ probe'[x].target = probe[x].target,
         \A k \in msgs' :
            \/ k.why = "late"
            \/ k \in msgs /\ (k.why = "relay" /\ Waiter(k) = n => \A r \in over : r.for # k.for)
            \/ \E r \in over : /\ ~r.late /\ k.type = "ack" /\ k.why = "ask" /\ k.for = r.for
                               /\ k.dst = r.for
  PROVE  TasksInv'
<1>1. relays'[n] = relays[n] \ over /\ \A h \in Node \ {n} : relays'[h] = relays[h]
  BY DEF WaitTypes
<1>2. ASSUME NEW k \in msgs' PROVE Awaited(k)'
  <2>1. CASE k.why = "late"
    BY <2>1 DEF Awaited
  <2>2. CASE k \in msgs /\ (k.why = "relay" /\ Waiter(k) = n => \A r \in over : r.for # k.for)
    <3>1. Waiter(k) \in Node
      BY <2>2, MessageFields DEF WaitTypes
    <3>2. k.why = "relay" => \A r \in relays[Waiter(k)] : r.for = k.for => r \in relays'[Waiter(k)]
      BY <1>1, <2>2, <3>1
    <3>. QED BY <2>2, <3>1, <3>2, AwaitedKept
  <2>3. CASE \E r \in over : ~r.late /\ k.type = "ack" /\ k.why = "ask" /\ k.for = r.for /\ k.dst = r.for
    <3>1. PICK r \in relays[n] : ~r.late /\ k.type = "ack" /\ k.why = "ask" /\ k.for = r.for /\ k.dst = r.for
      BY <2>3
    <3>2. probe[r.for].at = "ask" /\ r.for \in Node
      BY <3>1 DEF TasksInv, RelayInv, WaitTypes, Relay
    <3>. QED BY <3>1, <3>2 DEF Awaited, Waiter, Answerer, IsRequest
  <2>. QED BY <2>1, <2>2, <2>3
<1>3. ASSUME NEW h \in Node PROVE RelayInv(h)'
  <2>1. \A r \in relays[h] : r.for \in Node
    BY DEF WaitTypes, Relay
  <2>. QED BY <1>1, <2>1 DEF TasksInv, RelayInv
<1>4. ASSUME NEW m \in msgs', NEW k \in msgs' PROVE Alone(m, k)'
  BY DEF TasksInv, Alone, Waiter, IsRequest
<1>. QED BY <1>2, <1>3, <1>4 DEF TasksInv

LEMMA RelayTimeoutWaits ==
  ASSUME WaitTypes, TasksInv, NEW n \in Node, NEW r \in relays[n], RelayTimeout(n, r)
  PROVE  TasksInv' /\ \A x \in Node : Unanswered(x)
<1>1. /\ relays' = [relays EXCEPT ![n] = @ \ {r}] /\ msgs' = Forget(msgs, n, "relay", r.for)
      /\ UNCHANGED <<up, probe, revival>>
  BY DEF RelayTimeout
<1>2. \A k \in msgs' : \/ k.why = "late"
                       \/ k \in msgs /\ (k.why = "relay" /\ Waiter(k) = n => r.for # k.for)
  BY <1>1, ForgetIs
<1>3. TasksInv'
  <2>. DEFINE over == {r}
  <2>1. /\ over \in SUBSET relays[n] /\ relays' = [relays EXCEPT ![n] = @ \ over]
        /\ \A k \in msgs' :
              \/ k.why = "late"
              \/ k \in msgs /\ (k.why = "relay" /\ Waiter(k) = n => \A q \in over : q.for # k.for)
    BY <1>1, <1>2
  <2>. HIDE DEF over
  <2>2. \A k \in msgs' :
          \/ k.why = "late"
          \/ k \in msgs /\ (k.why = "relay" /\ Waiter(k) = n => \A q \in over : q.for # k.for)
          \/ \E q \in over : /\ ~q.late /\ k.type = "ack" /\ k.why = "ask" /\ k.for = q.for
                             /\ k.dst = q.for
    BY <2>1
  <2>3. /\ UNCHANGED <<up, revival>>
        /\ \A x \in Node : probe'[x].at = probe[x].at /\ probe'[x].target = probe[x].target
    BY <1>1
  <2>. QED BY <2>1, <2>2, <2>3, RelayOver
<1>4. ASSUME NEW x \in Node PROVE Unanswered(x)
  <2>1. ASSUME NEW m \in msgs \cap msgs', m.type = "ack", m.why = "relay", m.for = x,
               NEW s \in relays[m.dst], s.for = x, s.late
        PROVE  s \in relays'[m.dst]
    <3>1. m.dst \in Node /\ Waiter(m) = m.dst
      BY <2>1, MessageFields DEF WaitTypes, Waiter, IsRequest
    <3>2. m.dst = n => s # r
      BY <1>2, <2>1, <3>1
    <3>. QED BY <1>1, <2>1, <3>1, <3>2 DEF WaitTypes
  <2>. QED BY <1>1, <1>2, <2>1, AnswerKept, RevivalKept DEF Unanswered
<1>. QED BY <1>3, <1>4

LEMMA CrashWaits ==
  ASSUME WaitTypes, TasksInv, NEW n \in Node, Crash(n)
  PROVE  TasksInv' /\ \A x \in Node : Unanswered(x)
<1>. DEFINE late(m) == [m EXCEPT !.why = "late", !.for = m.src]
            aside(r) == IF r.for = n THEN [r EXCEPT !.late = TRUE] ELSE r
<1>1. /\ up' = [up EXCEPT ![n] = FALSE]
      /\ probe' = [probe EXCEPT ![n] = Idle] /\ revival' = [revival EXCEPT ![n] = Idle]
  BY DEF Crash
<1>2. /\ relays' = [h \in Node |-> IF h = n THEN {} ELSE {aside(r) : r \in relays[h]}]
      /\ msgs' = {IF n = (IF IsRequest(m) THEN m.src ELSE m.dst) THEN late(m) ELSE m : m \in msgs}
  BY DEF Crash
<1>3. /\ probe'[n] = Idle /\ revival'[n] = Idle
      /\ \A x \in Node \ {n} : probe'[x] = probe[x] /\ revival'[x] = revival[x]
  BY <1>1 DEF WaitTypes
<1>4. ASSUME NEW k \in msgs' PROVE k.why = "late" \/ (k \in msgs /\ Waiter(k) # n)
  <2>1. PICK m \in msgs : k = IF n = Waiter(m) THEN late(m) ELSE m
    BY <1>2 DEF Waiter
  <2>. QED BY <2>1, LateFields DEF WaitTypes
<1>5. ASSUME NEW h \in Node \ {n}, NEW r \in relays[h]
      PROVE  /\ aside(r).for = r.for /\ aside(r).target = r.target /\ aside(r) \in relays'[h]
             /\ r.late => aside(r) = r
             /\ ~aside(r).late => r.for # n /\ ~r.late
             /\ r.for \in Node
  <2>1. r \in Relay
    BY DEF WaitTypes
  <2>2. aside(r) \in relays'[h]
    BY <1>2
  <2>. QED BY <2>1, <2>2 DEF Relay
<1>6. \A h \in Node \ {n} : \A s \in relays'[h] : \E r \in relays[h] : s = aside(r)
  BY <1>2
<1>7. relays'[n] = {}
  BY <1>2
<1>. HIDE DEF aside, late
<1>8. ASSUME NEW m \in msgs' PROVE Awaited(m)'
  <2>1. CASE m \in msgs /\ Waiter(m) # n
    <3>1. Waiter(m) \in Node
      BY <2>1, MessageFields DEF WaitTypes
    <3>2. \A r \in relays[Waiter(m)] : \E s \in relays'[Waiter(m)] : s.for = r.for /\ s.target = r.target
      BY <1>5, <2>1, <3>1
    <3>. QED BY <1>3, <2>1, <3>1, <3>2, AwaitedKept
  <2>2. CASE m.why = "late"
    BY <2>2 DEF Awaited
  <2>. QED BY <1>4, <2>1, <2>2
<1>9. ASSUME NEW h \in Node PROVE RelayInv(h)'
  <2>1. CASE h = n
    BY <1>7, <2>1 DEF RelayInv
  <2>2. ASSUME NEW s \in relays'[h], NEW q \in relays'[h], h # n
        PROVE  /\ ~s.late => probe'[s.for].at = "ask" /\ probe'[s.for].target = s.target
               /\ q.for = s.for => q = s
    <3>1. PICK r \in relays[h] : s = aside(r)
      BY <1>6, <2>2
    <3>2. PICK p \in relays[h] : q = aside(p)
      BY <1>6, <2>2
    <3>3. q.for = s.for => p = r
      BY <2>2, <3>1, <3>2, <1>5 DEF TasksInv, RelayInv
    <3>. QED BY <1>3, <1>5, <2>2, <3>1, <3>2, <3>3 DEF TasksInv, RelayInv
  <2>. QED BY <2>1, <2>2 DEF RelayInv
<1>10. ASSUME NEW m \in msgs', NEW k \in msgs' PROVE Alone(m, k)'
  BY <1>4 DEF TasksInv, Alone, Waiter, IsRequest
<1>11. ASSUME NEW x \in Node PROVE Unanswered(x)
  <2>1. CASE x = n
    <3>1. NoRevival(n)'
      BY <1>3, <1>4 DEF NoRevival, Idle, Waiter, IsRequest
    <3>2. ~up'[n]
      BY <1>1 DEF WaitTypes
    <3>3. probe[n].at = "ping" /\ up'[n] => probe'[n] # Idle
      BY <1>1, <3>2
    <3>. QED BY <1>3, <2>1, <3>1, <3>3 DEF Unanswered
  <2>2. CASE x # n
    <3>1. ASSUME NEW m \in msgs \cap msgs', m.type = "ack", m.why = "relay", m.for = x,
                 NEW r \in relays[m.dst], r.for = x, r.late
          PROVE  r \in relays'[m.dst]
      <4>1. m.dst \in Node /\ m.dst # n
        BY <1>4, <3>1, MessageFields DEF WaitTypes, Waiter, IsRequest
      <4>. QED BY <1>5, <3>1, <4>1
    <3>. QED BY <1>3, <1>4, <2>2, <3>1, AnswerKept, RevivalKept DEF Unanswered
  <2>. QED BY <2>1, <2>2
<1>. QED BY <1>8, <1>9, <1>10, <1>11 DEF TasksInv

\* The answer of a probe, of a helper, of a re-ping or of a relay.
LEMMA HandleAckWaits ==
  ASSUME WaitTypes, TasksInv, NEW m \in msgs, HandleAck(m)
  PROVE  TasksInv' /\ \A x \in Node : Unanswered(x)
<1>. DEFINE n == m.dst
            relayed == {r \in relays[n] : m.why = "relay" /\ r.for = m.for}
            ack(r) == [type |-> "ack", src |-> n, dst |-> r.for, why |-> IF r.late THEN "late" ELSE "ask",
                       for |-> r.for, inc |-> incarnation'[n], updates |-> {}]
            next == CASE m.why = "probe" -> Idle
                      [] m.why = "ask" /\ probe[n].at = "ask" ->
                           IF m.src \in probe[n].open
                           THEN [probe[n] EXCEPT !.open = @ \ {m.src}, !.acked = TRUE] ELSE probe[n]
                      [] OTHER -> probe[n]
<1>1. /\ m.type = "ack" /\ UNCHANGED up
      /\ probe' = [probe EXCEPT ![n] = next]
      /\ revival' = [revival EXCEPT ![n] = IF m.why = "revive" THEN [@ EXCEPT !.at = "acked"] ELSE @]
      /\ relays' = [relays EXCEPT ![n] = @ \ relayed]
      /\ msgs' = (msgs \ {m}) \cup {ack(r) : r \in relayed}
  BY DEF HandleAck
<1>2. n \in Node /\ Waiter(m) = n /\ Awaited(m) /\ m \in Message
  BY <1>1, MessageFields DEF WaitTypes, Waiter, IsRequest, TasksInv
<1>3. /\ probe'[n] = next /\ \A x \in Node \ {n} : probe'[x] = probe[x]
      /\ relays'[n] = relays[n] \ relayed /\ \A x \in Node \ {n} : relays'[x] = relays[x]
  BY <1>1, <1>2 DEF WaitTypes
<1>4. CASE m.why = "probe"
  <2>1. next = Idle /\ relayed = {}
    BY <1>4
  <2>. HIDE DEF next, relayed, n
  <2>2. msgs' = msgs \ {m} /\ UNCHANGED <<revival, relays>> /\ probe'[n] = Idle
    BY <1>1, <1>2, <1>3, <1>4, <2>1 DEF WaitTypes
  <2>3. m.for = n /\ probe[n].at = "ping"
    BY <1>2, <1>4 DEF Awaited
  <2>4. \A k \in msgs' : k.why \in {"probe", "ask"} => Waiter(k) # n
    BY <1>2, <1>4, <2>2, <2>3 DEF TasksInv, Alone, Awaited
  <2>5. ASSUME NEW k \in msgs' PROVE Awaited(k)'
    <3>1. Waiter(k) \in Node /\ k \in msgs
      BY <2>2, MessageFields DEF WaitTypes
    <3>. QED BY <1>3, <2>2, <2>4, <3>1, AwaitedKept
  <2>6. ASSUME NEW h \in Node PROVE RelayInv(h)'
    <3>1. \A r \in relays[h] : r.for \in Node
      BY DEF WaitTypes, Relay
    <3>. QED BY <1>3, <2>2, <2>3, <3>1 DEF TasksInv, RelayInv
  <2>7. ASSUME NEW l \in msgs', NEW k \in msgs' PROVE Alone(l, k)'
    BY <2>2 DEF TasksInv, Alone, Waiter, IsRequest
  <2>8. ASSUME NEW x \in Node PROVE Unanswered(x)
    <3>1. revival[x] = Idle \/ (~up[revival[x].target] /\ NoRevival(x)) => NoRevival(x)'
      BY <2>2, RevivalKept
    <3>2. CASE x = n
      <4>1. ~NoAnswer(n) /\ probe[n] # Idle
        BY <1>1, <1>2, <1>4, <2>3, TaskFields DEF NoAnswer, n
      <4>. QED BY <3>1, <3>2, <4>1 DEF Unanswered
    <3>3. CASE x # n
      BY <1>3, <2>2, <3>1, <3>3, AnswerKept DEF Unanswered
    <3>. QED BY <3>2, <3>3
  <2>. QED BY <2>5, <2>6, <2>7, <2>8 DEF TasksInv
<1>5. CASE m.why = "revive"
  <2>1. next = probe[n] /\ relayed = {}
    BY <1>5
  <2>. HIDE DEF next, relayed, n
  <2>2. msgs' = msgs \ {m} /\ UNCHANGED <<probe, relays>>
    BY <1>1, <1>2, <1>3, <1>5, <2>1 DEF WaitTypes
  <2>3. m.for = n /\ revival[n].at = "ping"
    BY <1>2, <1>5 DEF Awaited
  <2>4. /\ \A x \in Node \ {n} : revival'[x] = revival[x]
    BY <1>1, <1>2 DEF WaitTypes
  <2>5. \A k \in msgs' : k.why = "revive" => Waiter(k) # n
    BY <1>2, <1>5, <2>2, <2>3 DEF TasksInv, Alone, Awaited
  <2>6. ASSUME NEW k \in msgs' PROVE Awaited(k)'
    <3>1. Waiter(k) \in Node /\ k \in msgs
      BY <2>2, MessageFields DEF WaitTypes
    <3>. QED BY <2>2, <2>4, <2>5, <3>1, AwaitedKept
  <2>7. ASSUME NEW h \in Node PROVE RelayInv(h)'
    BY <2>2 DEF TasksInv, RelayInv
  <2>8. ASSUME NEW l \in msgs', NEW k \in msgs' PROVE Alone(l, k)'
    BY <2>2 DEF TasksInv, Alone, Waiter, IsRequest
  <2>9. ASSUME NEW x \in Node PROVE Unanswered(x)
    <3>1. probe[x] = Idle \/ (~up[probe[x].target] /\ NoAnswer(x)) =>
             /\ probe'[x] # Idle => NoAnswer(x)'
             /\ probe[x].at = "ping" /\ up'[x] => probe'[x] # Idle
      BY <2>2, AnswerKept
    <3>2. CASE x = n
      <4>1. ~NoRevival(n) /\ revival[n] # Idle
        BY <1>1, <1>2, <1>5, <2>3, TaskFields DEF NoRevival, n
      <4>. QED BY <3>1, <3>2, <4>1 DEF Unanswered
    <3>3. CASE x # n
      BY <2>2, <2>4, <3>1, <3>3, RevivalKept DEF Unanswered
    <3>. QED BY <3>2, <3>3
  <2>. QED BY <2>6, <2>7, <2>8, <2>9 DEF TasksInv
<1>6. CASE m.why \notin {"probe", "revive"}
  <2>1. /\ next.at = probe[n].at /\ next.target = probe[n].target
        /\ next # probe[n] => m.why = "ask" /\ probe[n].at = "ask"
        /\ next # Idle \/ next = probe[n]
    <3>1. CASE m.why = "ask" /\ probe[n].at = "ask"
      <4>1. probe[n] \in Asking
        BY <1>2, <3>1, TaskFields
      <4>2. next.at = probe[n].at /\ next.target = probe[n].target
        BY <3>1, <4>1 DEF Asking
      <4>. QED BY <3>1, <4>2 DEF Idle
    <3>2. CASE ~(m.why = "ask" /\ probe[n].at = "ask")
      BY <1>6, <3>2
    <3>. QED BY <3>1, <3>2
  <2>2. UNCHANGED revival
    BY <1>1, <1>2, <1>6 DEF WaitTypes
  <2>3. ASSUME NEW k \in msgs'
        PROVE  \/ k.why = "late"
               \/ k \in msgs /\ k # m /\ (k.why = "relay" /\ Waiter(k) = n => \A r \in relayed : r.for # k.for)
               \/ \E r \in relayed : ~r.late /\ k.type = "ack" /\ k.why = "ask" /\ k.for = r.for /\ k.dst = r.for
    <3>1. CASE k \in msgs /\ k # m
      BY <1>2, <3>1 DEF TasksInv, Alone
    <3>2. CASE \E r \in relayed : k = ack(r)
      BY <3>2
    <3>. QED BY <1>1, <3>1, <3>2
  <2>4. relayed \in SUBSET relays[n]
    OBVIOUS
  <2>5. \A r \in relayed : m.why = "relay" /\ r.for = m.for
    OBVIOUS
  <2>. HIDE DEF next, relayed, n
  <2>6. \A x \in Node : probe'[x].at = probe[x].at /\ probe'[x].target = probe[x].target
    BY <1>3, <2>1
  <2>7. TasksInv'
    <3>1. \A k \in msgs' :
            \/ k.why = "late"
            \/ k \in msgs /\ (k.why = "relay" /\ Waiter(k) = n => \A r \in relayed : r.for # k.for)
            \/ \E r \in relayed : /\ ~r.late /\ k.type = "ack" /\ k.why = "ask" /\ k.for = r.for
                                  /\ k.dst = r.for
      BY <2>3
    <3>2. /\ n \in Node /\ relayed \in SUBSET relays[n] /\ UNCHANGED <<up, revival>>
          /\ relays' = [relays EXCEPT ![n] = @ \ relayed]
      BY <1>1, <1>2, <2>2, <2>4
    <3>. QED BY <2>6, <3>1, <3>2, RelayOver
  <2>8. ASSUME NEW x \in Node PROVE Unanswered(x)
    <3>1. revival[x] = Idle \/ (~up[revival[x].target] /\ NoRevival(x)) => NoRevival(x)'
      BY <2>2, <2>3, RevivalKept
    <3>2. probe[x].at = "ping" => probe'[x] # Idle
      BY <1>3, <2>1, TaskFields
    <3>3. probe[x] = Idle => probe'[x] = Idle
      BY <1>3, <2>1, TaskFields
    <3>4. ASSUME NoAnswer(x) PROVE NoAnswer(x)'
      <4>1. ASSUME NEW r \in relayed, ~r.late PROVE r.for # x
        <5>1. m.why = "relay" /\ m.for = r.for /\ r \in relays[n]
          BY <2>4, <2>5, <4>1
        <5>2. CASE r.for = x
          <6>1. PICK s \in relays[n] : s.for = x /\ s.late
            BY <1>1, <3>4, <5>1, <5>2 DEF NoAnswer, n
          <6>2. s = r
            BY <1>2, <5>1, <5>2, <6>1 DEF TasksInv, RelayInv
          <6>. QED BY <4>1, <6>1, <6>2
        <5>. QED BY <5>2
      <4>2. \A k \in msgs' : k.type = "ack" /\ k.dst = x => k.why \notin {"probe", "ask"}
        BY <2>3, <3>4, <4>1 DEF NoAnswer
      <4>3. ASSUME NEW k \in msgs', k.type = "ack", k.why = "relay", k.for = x
            PROVE  \E r \in relays'[k.dst] : r.for = x /\ r.late
        <5>1. k \in msgs /\ k # m /\ (Waiter(k) = n => \A r \in relayed : r.for # x)
          BY <2>3, <4>3
        <5>2. Waiter(k) = k.dst /\ k.dst \in Node
          BY <4>3, <5>1, MessageFields DEF WaitTypes, Waiter, IsRequest
        <5>3. PICK r \in relays[k.dst] : r.for = x /\ r.late
          BY <3>4, <4>3, <5>1 DEF NoAnswer
        <5>. QED BY <1>3, <5>1, <5>2, <5>3
      <4>4. probe'[x].at = "ask" => ~probe'[x].acked
        <5>1. CASE x = n /\ m.why = "ask"
          BY <1>1, <3>4, <5>1 DEF NoAnswer, n
        <5>2. CASE ~(x = n /\ m.why = "ask")
          BY <1>3, <2>1, <3>4, <5>2 DEF NoAnswer
        <5>. QED BY <5>1, <5>2
      <4>. QED BY <4>2, <4>3, <4>4 DEF NoAnswer
    <3>. QED BY <3>1, <3>2, <3>3, <3>4 DEF Unanswered
  <2>. QED BY <2>7, <2>8
<1>. QED BY <1>4, <1>5, <1>6

\* Every step of a member or of the network.
LEMMA StepWaits ==
  ASSUME SwimInv, TasksInv, [Next]_vars
  PROVE  TasksInv' /\ \A x \in Node : Unanswered(x)
<1>1. WaitTypes
  BY DEF SwimInv, TypeOK, WaitTypes
<1>2. CASE UNCHANGED vars
  BY <1>1, <1>2, SameTasks DEF vars, taskVars
<1>3. ASSUME NEW n \in Node, Step(n) PROVE TasksInv' /\ \A x \in Node : Unanswered(x)
  <2>1. CASE \E t \in Node : ProbeMember(n, t)
    BY <1>1, <2>1, ProbeMemberWaits
  <2>2. CASE \E t \in Node : AskTimeout(n, t)
    BY <1>1, <2>2, AskTimeoutWaits
  <2>3. CASE \E t \in Node : Revive(n, t)
    BY <1>1, <2>3, ReviveWaits
  <2>4. CASE ProbeTimeout(n)
    BY <1>1, <2>4, ProbeTimeoutWaits
  <2>5. CASE ProbeVerdict(n)
    BY <1>1, <2>5, ProbeVerdictWaits
  <2>6. CASE ReviveTimeout(n)
    BY <1>1, <2>6, ReviveTimeoutWaits
  <2>7. CASE ReviveVerdict(n)
    BY <1>1, <2>7, ReviveVerdictWaits
  <2>8. CASE \E t \in timers[n] : SuspicionTimeout(n, t)
    BY <1>1, <2>8, SameTasks DEF SuspicionTimeout, taskVars
  <2>9. CASE \E r \in relays[n] : RelayTimeout(n, r)
    BY <1>1, <2>9, RelayTimeoutWaits
  <2>10. CASE JoinContact(n)
    <3>1. /\ UNCHANGED taskVars
          /\ msgs' = msgs \cup {[type |-> "join", src |-> n, dst |-> Contact, why |-> "join", for |-> n,
                                 inc |-> incarnation[n], updates |-> {}]}
      BY <2>10 DEF JoinContact
    <3>2. \A k \in msgs' : k \in msgs \/ (k.why = "join" /\ k.type \in {"join", "join-ack"})
      BY <3>1
    <3>. QED BY <1>1, <3>1, <3>2, SameTasks DEF taskVars
  <2>11. CASE Crash(n)
    BY <1>1, <2>11, CrashWaits
  <2>12. CASE Restart(n)
    BY <1>1, <2>12, SameTasks DEF Restart, taskVars
  <2>. QED BY <1>3, <2>1, <2>2, <2>3, <2>4, <2>5, <2>6, <2>7, <2>8, <2>9, <2>10, <2>11, <2>12 DEF Step
<1>4. ASSUME NEW m \in msgs, Deliver(m) \/ Lose(m) PROVE TasksInv' /\ \A x \in Node : Unanswered(x)
  <2>1. CASE HandlePing(m)
    BY <1>1, <2>1, HandlePingWaits
  <2>2. CASE HandlePingReq(m)
    BY <1>1, <2>2, HandlePingReqWaits
  <2>3. CASE HandleAck(m)
    BY <1>1, <2>3, HandleAckWaits
  <2>4. CASE HandleJoin(m)
    BY <1>1, <2>4, SameTasks DEF HandleJoin, taskVars
  <2>5. CASE HandleJoinAck(m)
    BY <1>1, <2>5, SameTasks DEF HandleJoinAck, taskVars
  <2>6. CASE Lose(m)
    BY <1>1, <2>6, SameTasks DEF Lose, taskVars
  <2>. QED BY <1>4, <2>1, <2>2, <2>3, <2>4, <2>5, <2>6 DEF Deliver
<1>. QED BY <1>2, <1>3, <1>4 DEF Next

-----------------------------------------------------------------------------
(* Rumours of deaths. *)

\* Every death that is believed or told is one of these, <<member, incarnation>>.
DeathsIn(deaths) ==
  /\ \A n, t \in Node : members[n][t].state = Dead => <<t, members[n][t].inc>> \in deaths
  /\ \A m \in msgs : \A u \in m.updates : u.state = Dead => <<u.id, u.inc>> \in deaths

\* Those that a suspicion timer brings about in a step.
DeathsTimed(deaths) ==
  \A n \in Node : \A t \in timers[n] :
    /\ t \notin timers'[n] /\ up'[n] /\ members[n][t.id] = [state |-> Suspect, inc |-> t.inc]
    /\ members'[n][t.id].state = Dead
    => <<t.id, t.inc>> \in deaths

LEMMA SameDeaths ==
  ASSUME NEW deaths, DeathsIn(deaths), UNCHANGED members,
         \A k \in msgs' : k.updates = {} \/ \E m \in msgs : k.updates = m.updates
  PROVE  DeathsIn(deaths)'
  BY DEF DeathsIn

LEMMA ForgetUpdates ==
  ASSUME SwimInv, NEW n, NEW why, NEW for, NEW k \in Forget(msgs, n, why, for)
  PROVE  \E m \in msgs : k.updates = m.updates
<1>1. PICK m \in msgs : k = IF Concerns(m, n, why, for) THEN [m EXCEPT !.why = "late", !.for = m.src] ELSE m
  BY DEF Forget
<1>2. m \in Message
  BY DEF SwimInv, TypeOK
<1>. QED BY <1>1, <1>2, LateFields

\* What agrees with a belief tells of no other deaths.
LEMMA ContentDeaths ==
  ASSUME NEW table \in Table, NEW us \in Due(table), NEW n, NEW belief, NEW inc,
         Agrees(table, n, belief, inc), NEW u \in Content(us), u.state = Dead
  PROVE  u.id \in Node /\ belief[u.id] = [state |-> u.state, inc |-> u.inc]
<1>1. PICK e \in us : u = [id |-> e.id, state |-> e.state, inc |-> e.inc]
  BY DEF Content
<1>2. e \in table /\ e.id \in Node
  BY DEF Due, Table
<1>. QED BY <1>1, <1>2 DEF Agrees, Alive, Dead

\* Who is told believes no other deaths than those it was told of.
LEMMA LearnDeaths ==
  ASSUME SwimInv, NEW deaths, DeathsIn(deaths), NEW m \in msgs, Learn(m)
  PROVE  \A n, t \in Node : members'[n][t].state = Dead => <<t, members'[n][t].inc>> \in deaths
<1>. DEFINE us == News(m.dst, Told(m))
<1>1. m.dst \in Node /\ Told(m) \in SUBSET Update /\ TypeOK /\ OneEach(Told(m))
  BY ToldType DEF SwimInv, TypeOK, MessagesInv
<1>2. us \in SUBSET Update /\ OneEach(us) /\ us \subseteq Told(m)
  BY <1>1 DEF News, OneEach
<1>3. Believe(m.dst, us)
  BY DEF Learn
<1>. HIDE DEF us
<1>4. /\ \A u \in us : members'[m.dst][u.id] = [state |-> u.state, inc |-> u.inc]
      /\ \A t \in Node : (\A u \in us : u.id # t) => members'[m.dst][t] = members[m.dst][t]
      /\ \A k \in Node \ {m.dst} : members'[k] = members[k]
  BY <1>1, <1>2, <1>3, BelieveIs
<1>5. \A u \in us : u.state = Dead => <<u.id, u.inc>> \in deaths
  BY <1>2 DEF DeathsIn, Told, Alive, Dead
<1>6. ASSUME NEW n \in Node, NEW t \in Node, members'[n][t].state = Dead
      PROVE  <<t, members'[n][t].inc>> \in deaths
  <2>1. CASE n = m.dst /\ \E u \in us : u.id = t
    <3>1. PICK u \in us : u.id = t
      BY <2>1
    <3>2. members'[n][t] = [state |-> u.state, inc |-> u.inc]
      BY <1>4, <2>1, <3>1
    <3>3. members'[n][t].inc = u.inc /\ u.state = Dead
      BY <1>6, <3>2
    <3>. QED BY <1>5, <3>1, <3>3
  <2>2. CASE ~(n = m.dst /\ \E u \in us : u.id = t)
    BY <1>4, <1>6, <2>2 DEF DeathsIn
  <2>. QED BY <2>1, <2>2
<1>. QED BY <1>6

LEMMA SetDeaths ==
  ASSUME SwimInv, NEW deaths, DeathsIn(deaths), NEW n \in Node, NEW u \in Update, u.state # Dead,
         Set(n, u), \A k \in msgs' : \E m \in msgs : k.updates = m.updates
  PROVE  DeathsIn(deaths)'
<1>1. /\ members'[n][u.id] = [state |-> u.state, inc |-> u.inc]
      /\ \A t \in Node \ {u.id} : members'[n][t] = members[n][t]
      /\ \A k \in Node \ {n} : members'[k] = members[k]
  BY BelieveIs DEF Set, SwimInv, OneEach
<1>2. u.id \in Node
  BY DEF Update
<1>. QED BY <1>1, <1>2 DEF DeathsIn

LEMMA ProbeMemberDeaths ==
  ASSUME SwimInv, NEW deaths, DeathsIn(deaths), NEW n \in Node, NEW t \in Node, ProbeMember(n, t)
  PROVE  DeathsIn(deaths)'
<1>1. PICK us \in Due(broadcasts[n]) :
        msgs' = msgs \cup {[type |-> "ping", src |-> n, dst |-> t, why |-> "probe", for |-> n,
                            inc |-> incarnation[n], updates |-> Content(us)]}
  BY DEF ProbeMember
<1>2. UNCHANGED members
  BY DEF ProbeMember
<1>3. Agrees(broadcasts[n], n, members[n], incarnation[n]) /\ broadcasts[n] \in Table
  BY Agreement DEF SwimInv, TypeOK, Table
<1>4. ASSUME NEW u \in Content(us), u.state = Dead PROVE <<u.id, u.inc>> \in deaths
  <2>1. u.id \in Node /\ members[n][u.id] = [state |-> u.state, inc |-> u.inc]
    BY <1>3, <1>4, ContentDeaths
  <2>2. members[n][u.id].state = Dead /\ members[n][u.id].inc = u.inc
    BY <1>4, <2>1
  <2>. QED BY <2>1, <2>2 DEF DeathsIn
<1>. QED BY <1>1, <1>2, <1>4 DEF DeathsIn

LEMMA HandlePingDeaths ==
  ASSUME SwimInv, NEW deaths, DeathsIn(deaths), NEW m \in msgs, HandlePing(m)
  PROVE  DeathsIn(deaths)'
<1>. DEFINE n == m.dst
            table == Gossip(n, Told(m))
<1>1. PICK us \in Due(table) :
        msgs' = (msgs \ {m}) \cup
          {[type |-> "ack", src |-> n, dst |-> m.src, why |-> m.why, for |-> m.for,
            inc |-> incarnation'[n], updates |-> Content(us)]}
  BY DEF HandlePing
<1>2. Learn(m)
  BY DEF HandlePing
<1>3. n \in Node /\ table \in Table /\ Agrees(table, n, members'[n], incarnation'[n])
  BY <1>2, LearnIs
<1>4. \A k, t \in Node : members'[k][t].state = Dead => <<t, members'[k][t].inc>> \in deaths
  BY <1>2, LearnDeaths
<1>. HIDE DEF table, n
<1>5. ASSUME NEW u \in Content(us), u.state = Dead PROVE <<u.id, u.inc>> \in deaths
  <2>1. u.id \in Node /\ members'[n][u.id] = [state |-> u.state, inc |-> u.inc]
    BY <1>3, <1>5, ContentDeaths
  <2>. QED BY <1>3, <1>4, <1>5, <2>1
<1>. QED BY <1>1, <1>4, <1>5 DEF DeathsIn

\* What is sent besides tells what its sender believes, or nothing.
LEMMA LearnOnlyDeaths ==
  ASSUME SwimInv, NEW deaths, DeathsIn(deaths), NEW m \in msgs, Learn(m),
         \A k \in msgs' : k \in msgs \/ k.updates = {} \/ k.updates = MemberList(m.dst)
  PROVE  DeathsIn(deaths)'
<1>1. \A k, t \in Node : members'[k][t].state = Dead => <<t, members'[k][t].inc>> \in deaths
  BY LearnDeaths
<1>2. m.dst \in Node
  BY ToldType DEF SwimInv, TypeOK
<1>3. \A u \in MemberList(m.dst) : u.state = Dead => <<u.id, u.inc>> \in deaths
  BY <1>1, <1>2 DEF MemberList
<1>. QED BY <1>1, <1>3 DEF DeathsIn

LEMMA SuspicionTimeoutDeaths ==
  ASSUME SwimInv, NEW deaths, DeathsIn(deaths), NEW n \in Node, NEW t \in timers[n],
         SuspicionTimeout(n, t), DeathsTimed(deaths)
  PROVE  DeathsIn(deaths)'
<1>1. timers' = [timers EXCEPT ![n] = @ \ {t}] /\ UNCHANGED <<up, msgs>> /\ up[n]
  BY DEF SuspicionTimeout
<1>2. t.id \in Node /\ t \notin timers'[n] /\ up'[n]
  BY <1>1 DEF SwimInv, TypeOK
<1>3. CASE /\ members[n][t.id] = [state |-> Suspect, inc |-> t.inc]
           /\ members' = [members EXCEPT ![n][t.id].state = Dead]
  <2>1. [members[n][t.id] EXCEPT !.state = Dead] = [state |-> Dead, inc |-> t.inc]
    BY <1>3
  <2>2. members' = [members EXCEPT ![n] = [members[n] EXCEPT ![t.id] = [state |-> Dead, inc |-> t.inc]]]
    BY <1>3, <2>1, Zenon
  <2>3. /\ members'[n][t.id] = [state |-> Dead, inc |-> t.inc]
        /\ \A k \in Node \ {t.id} : members'[n][k] = members[n][k]
        /\ \A k \in Node \ {n} : members'[k] = members[k]
    BY <1>2, <2>2 DEF SwimInv, TypeOK
  <2>4. <<t.id, t.inc>> \in deaths
    BY <1>2, <1>3, <2>3 DEF DeathsTimed
  <2>. QED BY <1>1, <1>2, <2>3, <2>4 DEF DeathsIn
<1>4. CASE UNCHANGED members
  BY <1>1, <1>4, SameDeaths
<1>. QED BY <1>3, <1>4 DEF SuspicionTimeout

LEMMA StepDeaths ==
  ASSUME SwimInv, NEW deaths, DeathsIn(deaths), [Next]_vars, DeathsTimed(deaths)
  PROVE  DeathsIn(deaths)'
<1>1. CASE UNCHANGED vars
  BY <1>1, SameDeaths DEF vars, beliefVars
<1>2. ASSUME NEW n \in Node, Step(n) PROVE DeathsIn(deaths)'
  <2>1. CASE \E t \in Node : ProbeMember(n, t)
    BY <2>1, ProbeMemberDeaths
  <2>2. CASE \E t \in Node : AskTimeout(n, t)
    BY <2>2, SameDeaths DEF AskTimeout, beliefVars
  <2>3. CASE \E t \in Node : Revive(n, t)
    BY <2>3, SameDeaths DEF Revive, beliefVars
  <2>4. CASE ProbeTimeout(n)
    <3>1. UNCHANGED members /\ \A k \in msgs' : k \in Forget(msgs, n, "probe", n) \/ k.updates = {}
      BY <2>4 DEF ProbeTimeout, beliefVars
    <3>. QED BY <3>1, ForgetUpdates, SameDeaths
  <2>5. CASE ProbeVerdict(n)
    <3>. DEFINE t == probe[n].target
                suspect == [id |-> t, state |-> Suspect, inc |-> members[n][t].inc]
    <3>1. \A k \in msgs' : \E m \in msgs : k.updates = m.updates
      BY <2>5, ForgetUpdates DEF ProbeVerdict
    <3>2. CASE members[n][t].state = Alive /\ Set(n, suspect)
      <4>1. probe[n].at = "ask" /\ t \in Node
        BY <2>5 DEF ProbeVerdict, SwimInv, TypeOK, Idle, Probing, Asking
      <4>2. suspect \in Update /\ suspect.state # Dead
        BY <3>2, <4>1 DEF SwimInv, Unknown, Alive, TypeOK, Status, Update, Suspect, Dead
      <4>. HIDE DEF suspect, t
      <4>. QED BY <3>1, <3>2, <4>2, SetDeaths
    <3>3. CASE UNCHANGED beliefVars
      BY <3>1, <3>3, SameDeaths DEF beliefVars
    <3>. QED BY <2>5, <3>2, <3>3 DEF ProbeVerdict
  <2>6. CASE ReviveTimeout(n)
    <3>1. UNCHANGED members /\ msgs' = Forget(msgs, n, "revive", n)
      BY <2>6 DEF ReviveTimeout, beliefVars
    <3>. QED BY <3>1, ForgetUpdates, SameDeaths
  <2>7. CASE ReviveVerdict(n)
    <3>. DEFINE t == revival[n].target
                alive == [id |-> t, state |-> Alive, inc |-> members[n][t].inc + 1]
    <3>1. UNCHANGED msgs /\ revival[n].at = "acked"
      BY <2>7 DEF ReviveVerdict
    <3>2. CASE members[n][t].state = Dead /\ Set(n, alive)
      <4>1. t \in Node
        BY <3>1 DEF SwimInv, TypeOK, Idle, Reviving
      <4>2. members[n][t] \in Status
        BY <3>2, <4>1 DEF SwimInv, TypeOK, Unknown, Dead
      <4>3. alive \in Update /\ alive.state # Dead
        BY <4>1, <4>2 DEF Status, Update, Alive, Dead
      <4>. HIDE DEF alive, t
      <4>. QED BY <3>1, <3>2, <4>3, SetDeaths
    <3>3. CASE UNCHANGED beliefVars
      BY <3>1, <3>3, SameDeaths DEF beliefVars
    <3>. QED BY <2>7, <3>2, <3>3 DEF ReviveVerdict
  <2>8. CASE \E t \in timers[n] : SuspicionTimeout(n, t)
    BY <2>8, SuspicionTimeoutDeaths
  <2>9. CASE \E r \in relays[n] : RelayTimeout(n, r)
    <3>1. PICK r \in relays[n] : RelayTimeout(n, r)
      BY <2>9
    <3>2. UNCHANGED members /\ msgs' = Forget(msgs, n, "relay", r.for)
      BY <3>1 DEF RelayTimeout, beliefVars
    <3>. QED BY <3>2, ForgetUpdates, SameDeaths
  <2>10. CASE JoinContact(n)
    BY <2>10, SameDeaths DEF JoinContact, beliefVars
  <2>11. CASE Crash(n)
    <3>1. /\ UNCHANGED members
          /\ msgs' = {IF n = (IF IsRequest(m) THEN m.src ELSE m.dst)
                      THEN [m EXCEPT !.why = "late", !.for = m.src] ELSE m : m \in msgs}
      BY <2>11 DEF Crash
    <3>2. \A m \in msgs : m \in Message
      BY DEF SwimInv, TypeOK
    <3>3. ASSUME NEW k \in msgs' PROVE \E m \in msgs : k.updates = m.updates
      <4>1. PICK m \in msgs : k = IF n = (IF IsRequest(m) THEN m.src ELSE m.dst)
                                 THEN [m EXCEPT !.why = "late", !.for = m.src] ELSE m
        BY <3>1
      <4>. QED BY <3>2, <4>1, LateFields
    <3>. QED BY <3>1, <3>3, SameDeaths
  <2>12. CASE Restart(n)
    BY <2>12, SameDeaths DEF Restart, beliefVars
  <2>. QED BY <1>2, <2>1, <2>2, <2>3, <2>4, <2>5, <2>6, <2>7, <2>8, <2>9, <2>10, <2>11, <2>12 DEF Step
<1>3. ASSUME NEW m \in msgs, Deliver(m) \/ Lose(m) PROVE DeathsIn(deaths)'
  <2>1. CASE HandlePing(m)
    BY <2>1, HandlePingDeaths
  <2>2. CASE HandlePingReq(m)
    <3>1. Learn(m) /\ \A k \in msgs' : k \in msgs \/ k.updates = {}
      BY <2>2 DEF HandlePingReq, LearnOnly
    <3>. QED BY <3>1, LearnOnlyDeaths
  <2>3. CASE HandleAck(m)
    <3>1. Learn(m) /\ \A k \in msgs' : k \in msgs \/ k.updates = {}
      BY <2>3 DEF HandleAck, LearnOnly
    <3>. QED BY <3>1, LearnOnlyDeaths
  <2>4. CASE HandleJoin(m)
    <3>1. Learn(m) /\ \A k \in msgs' : k \in msgs \/ k.updates = MemberList(m.dst)
      BY <2>4 DEF HandleJoin, LearnOnly
    <3>. QED BY <3>1, LearnOnlyDeaths
  <2>5. CASE HandleJoinAck(m)
    <3>1. Learn(m) /\ \A k \in msgs' : k \in msgs
      BY <2>5 DEF HandleJoinAck, LearnOnly
    <3>. QED BY <3>1, LearnOnlyDeaths
  <2>6. CASE Lose(m)
    BY <2>6, SameDeaths DEF Lose, beliefVars
  <2>. QED BY <1>3, <2>1, <2>2, <2>3, <2>4, <2>5, <2>6 DEF Deliver
<1>. QED BY <1>1, <1>2, <1>3 DEF Next
=============================================================================
