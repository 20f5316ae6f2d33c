--------------------------- MODULE RegionsProofs ---------------------------
(***************************************************************************)
(* Proofs about Regions and RegionHistory: the types of what servers, calls *)
(* and ticks hold, what the Raft group of a shard elects and commits, the  *)
(* lock of a shard, and that an agent that was placed durably stays in some *)
(* committed registry until one of the two mistakes of RegionHistory is    *)
(* made.                                                                   *)
(***************************************************************************)
EXTENDS RegionHistory, FiniteSetTheorems, SequenceTheorems, TLAPS

-----------------------------------------------------------------------------
(* The operators of the model. *)

\* A nonempty finite set of naturals has a greatest element, and Max is it.
LEMMA FiniteMaximum ==
  ASSUME NEW S \in SUBSET Nat, IsFiniteSet(S), S # {}
  PROVE  Max(S) \in S /\ \A y \in S : Max(S) >= y
<1>. DEFINE Above(x) == {y \in S : y > x}
            T == {Above(x) : x \in S}
<1>1. T \subseteq FiniteSubsetsOf(S) /\ T # {}
  <2>1. ASSUME NEW x \in S PROVE Above(x) \in SUBSET S /\ IsFiniteSet(Above(x))
    BY FS_Subset
  <2>. QED BY <2>1 DEF FiniteSubsetsOf
<1>2. PICK X \in T : \A Y \in T : <<Y, X>> \notin StrictSubsetOrdering(S)
  BY <1>1, FS_StrictSubsetOrderingWellFounded, WFMin
<1>3. PICK x \in S : X = Above(x)
  OBVIOUS
<1>4. ASSUME NEW y \in S, y > x PROVE FALSE
  <2>1. Above(y) \in SUBSET S /\ Above(x) \in SUBSET S /\ Above(y) \subseteq Above(x)
    <3>1. ASSUME NEW z \in Above(y) PROVE z \in Above(x)
      <4>1. z \in Nat /\ y \in Nat /\ x \in Nat /\ z > y /\ z \in S
        OBVIOUS
      <4>. QED BY <1>4, <4>1
    <3>. QED BY <3>1
  <2>2. y \in Above(x) /\ y \notin Above(y)
    BY <1>4
  <2>3. <<Above(y), Above(x)>> \in StrictSubsetOrdering(S)
    <3>. HIDE DEF Above
    <3>. QED BY <2>1, <2>2 DEF StrictSubsetOrdering
  <2>. QED BY <2>3, <1>2, <1>3
<1>5. \A y \in S : x >= y
  BY <1>4
<1>. QED BY <1>5 DEF Max

\* So does one with a bound.
LEMMA Maximum ==
  ASSUME NEW k \in Nat, NEW S \in SUBSET (0..k), S # {}
  PROVE  Max(S) \in S /\ \A y \in S : Max(S) >= y
<1>1. IsFiniteSet(0..k)
  BY FS_Interval
<1>2. S \subseteq 0..k /\ S \in SUBSET Nat
  OBVIOUS
<1>3. IsFiniteSet(S)
  BY <1>1, <1>2, FS_Subset
<1>. QED BY <1>2, <1>3, FiniteMaximum

\* The greater of two naturals.
LEMMA MaxOfTwo ==
  ASSUME NEW a \in Nat, NEW b \in Nat
  PROVE  Max({a, b}) = IF a >= b THEN a ELSE b
<1>1. CASE a >= b
  <2>1. {a, b} \in SUBSET (0..a) /\ {a, b} # {}
    BY <1>1
  <2>. QED BY <1>1, <2>1, Maximum
<1>2. CASE ~(a >= b)
  <2>1. {a, b} \in SUBSET (0..b) /\ {a, b} # {}
    BY <1>2
  <2>. QED BY <1>2, <2>1, Maximum
<1>. QED BY <1>1, <1>2

\* Two majorities have a server in common.
LEMMA MajoritiesMeet ==
  ASSUME NEW P \in SUBSET Server, NEW Q \in SUBSET Server, IsMajority(P), IsMajority(Q)
  PROVE  P \cap Q # {}
<1>1. Cardinality(Server) \in Nat /\ Cardinality(P) \in Nat /\ Cardinality(Q) \in Nat
  BY RegionsAssumption, FS_CardinalityType, FS_Subset
<1>2. Cardinality(P) + Cardinality(Q) > Cardinality(Server)
  BY <1>1 DEF IsMajority
<1>. QED BY <1>2, RegionsAssumption, FS_MajoritiesIntersect

-----------------------------------------------------------------------------
(* The types, with what the shapes of calls and ticks are. *)

Registry == [Agent -> Shard \cup {Nowhere}]
Entry == [term : Nat, agents : Registry \cup {NoOp}]

Queued == [shard : Shard, at : Server, agent : Agent, by : Server \cup {"main", "nobody"},
           stage : {"queued", "yes", "no"}]
Waiting == [shard : Shard, at : Server, agent : Agent, by : Server \cup {"main", "nobody"},
            stage : {"waiting"}, index : Nat, term : Nat]
Committing == [shard : Shard, at : Server, agent : Agent, by : Server \cup {"main", "nobody"},
               stage : {"committing"}, index : Nat, term : Nat, before : Registry]

Departure == [from : Shard, agent : Agent, to : Shard]
Moving == [at : {"moving"}, todo : SUBSET Shard, queued : SUBSET Shard, out : SUBSET Departure]
Sending == [at : {"sending"}, out : SUBSET Departure, call : Departure \cup {Nothing},
            done : SUBSET Departure]
Seeking == [at : {"removing"}, todo : SUBSET Shard, done : SUBSET Departure, holds : {Nowhere}]
Removing == [at : {"removing"}, todo : SUBSET Shard, done : SUBSET Departure,
             holds : Shard \cup {Nowhere}, index : Nat, term : Nat]
TickState == {Idle} \cup Moving \cup Sending \cup Seeking \cup Removing

GroupTypes ==
    /\ term \in [Shard -> [Server -> 0..MaxTerm]]
    /\ leads \in [Shard -> [Server -> BOOLEAN]]
    /\ log \in [Shard -> [Server -> Seq(Entry)]]
    /\ applied \in [Shard -> [Server -> Nat]]
    /\ matchIndex \in [Shard -> [Server -> [Server -> Nat]]]

LoopTypes ==
    /\ agents \in [Shard -> [Server -> Registry]]
    /\ adds \subseteq Queued \cup Waiting \cup Committing
    /\ tick \in [Server -> TickState]
    /\ placed \subseteq Agent
    /\ moves \in 0..MaxMoves

Types == GroupTypes /\ LoopTypes

-----------------------------------------------------------------------------
(* What a step does to the group of a shard. *)

GroupStays(s) ==
    /\ term'[s] = term[s] /\ leads'[s] = leads[s] /\ log'[s] = log[s]
    /\ applied'[s] = applied[s] /\ matchIndex'[s] = matchIndex[s]

Elects(s, n, Q, t) ==
    /\ ~leads[s][n] /\ n \in Q /\ IsMajority(Q)
    /\ \A q \in Q : t > term[s][q] /\ UpToDate(log[s][n], log[s][q])
    /\ \A q \in Server :
         /\ term'[s][q] = IF q \in Q THEN t ELSE term[s][q]
         /\ leads'[s][q] <=> IF q \in Q THEN q = n ELSE leads[s][q]
         /\ log'[s][q] = IF q = n THEN Append(log[s][n], [term |-> t, agents |-> NoOp]) ELSE log[s][q]
         /\ \A m \in Server : matchIndex'[s][q][m] = IF q \in Q THEN 0 ELSE matchIndex[s][q][m]
    /\ applied'[s] = applied[s]

Replicates(s, n, m) ==
    /\ leads[s][n] /\ m # n /\ term[s][m] <= term[s][n]
    /\ \A q \in Server :
         /\ term'[s][q] = IF q = m THEN term[s][n] ELSE term[s][q]
         /\ leads'[s][q] <=> q # m /\ leads[s][q]
         /\ log'[s][q] = IF q = m THEN log[s][n] ELSE log[s][q]
         /\ applied'[s][q] = IF q = m /\ applied[s][n] > applied[s][m] THEN applied[s][n] ELSE applied[s][q]
         /\ \A k \in Server :
              matchIndex'[s][q][k] = IF q = m THEN 0
                                     ELSE IF q = n /\ k = m THEN Len(log[s][n]) ELSE matchIndex[s][q][k]

Commits(s, n, i) ==
    /\ leads[s][n] /\ i > applied[s][n] /\ log[s][n][i].term = term[s][n]
    /\ IsMajority({n} \cup {q \in Server : matchIndex[s][n][q] >= i})
    /\ term'[s] = term[s] /\ leads'[s] = leads[s] /\ log'[s] = log[s] /\ matchIndex'[s] = matchIndex[s]
    /\ \A q \in Server : applied'[s][q] = IF q = n THEN i ELSE applied[s][q]

Appends(s, n, e) ==
    /\ leads[s][n] /\ e.term = term[s][n]
    /\ term'[s] = term[s] /\ leads'[s] = leads[s]
    /\ applied'[s] = applied[s] /\ matchIndex'[s] = matchIndex[s]
    /\ \A q \in Server : log'[s][q] = IF q = n THEN Append(log[s][n], e) ELSE log[s][q]

GroupStep(s) ==
    \/ GroupStays(s)
    \/ \E n \in Server :
         \/ \E Q \in SUBSET Server, t \in Nat : Elects(s, n, Q, t)
         \/ \E m \in Server : Replicates(s, n, m)
         \/ \E i \in 1..Len(log[s][n]) : Commits(s, n, i)
         \/ \E e \in Entry : Appends(s, n, e)

\* Proposals leave the rest of the groups alone.
Proposes(s, n, registry) ==
    Propose(s, n, registry) /\ UNCHANGED <<term, leads, applied, matchIndex>>

\* An election of one shard's group, or what else a step does to the groups.
LEMMA RaftCases ==
  ASSUME Types, [Next]_vars
  PROVE  \/ \E s \in Shard, n \in Server :
              \/ Elect(s, n) \/ Commit(s, n)
              \/ \E m \in Server : Replicate(s, n, m)
              \/ \E r \in Registry : Proposes(s, n, r)
         \/ UNCHANGED raftVars
<1>. DEFINE Goal == \/ \E s \in Shard, n \in Server :
                         \/ Elect(s, n) \/ Commit(s, n)
                         \/ \E m \in Server : Replicate(s, n, m)
                         \/ \E r \in Registry : Proposes(s, n, r)
                    \/ UNCHANGED raftVars
<1>1. ASSUME NEW c \in adds, Add(c) PROVE Goal
  <2>1. c \in Queued \cup Waiting \cup Committing
    BY DEF Types, LoopTypes
  <2>2. c.shard \in Shard /\ c.at \in Server /\ c.agent \in Agent
    BY <2>1 DEF Queued, Waiting, Committing
  <2>3. CASE AddPropose(c)
    <3>1. [agents[c.shard][c.at] EXCEPT ![c.agent] = c.shard] \in Registry
      BY <2>2 DEF Types, LoopTypes, Registry
    <3>2. Proposes(c.shard, c.at, [agents[c.shard][c.at] EXCEPT ![c.agent] = c.shard])
      BY <2>3 DEF AddPropose, Proposes
    <3>. QED BY <3>1, <3>2, <2>2
  <2>4. CASE AddBegin(c) \/ AddDone(c) \/ AddFails(c) \/ AddCancelled(c)
    BY <2>4 DEF AddBegin, AddDone, AddFails, AddCancelled
  <2>. QED BY <1>1, <2>3, <2>4 DEF Add
<1>2. ASSUME NEW n \in Server, Tick(n) PROVE Goal
  <2>1. ASSUME NEW s \in Shard, TickMoves(n, s) PROVE Goal
    <3>1. CASE UNCHANGED <<log, agents, moves>>
      BY <2>1, <3>1 DEF TickMoves, raftVars
    <3>2. CASE \E r \in Moved(agents[s][n]) : Propose(s, n, r)
      <4>1. Moved(agents[s][n]) \subseteq Registry
        BY DEF Moved, Registry
      <4>. QED BY <2>1, <3>2, <4>1 DEF TickMoves, Proposes
    <3>. QED BY <2>1, <3>1, <3>2 DEF TickMoves
  <2>2. CASE Remove(n)
    <3>. DEFINE s == tick[n].holds
                r == [a \in Agent |-> IF \E d \in tick[n].done : d.from = s /\ d.agent = a
                                      THEN Nowhere ELSE agents[s][n][a]]
    <3>1. s \in Shard
      BY <2>2 DEF Remove, Types, LoopTypes, TickState, Idle, Moving, Sending, Seeking, Removing
    <3>2. r \in Registry
      BY <3>1 DEF Types, LoopTypes, Registry
    <3>3. Proposes(s, n, r)
      BY <2>2, SMTT(30) DEF Remove, Proposes
    <3>. QED BY <3>1, <3>2, <3>3
  <2>3. CASE \/ TickBegin(n) \/ HandOffGivenUp(n) \/ RemoveFails(n)
             \/ \E s \in Shard : TickLooks(n, s) \/ RemoveBegin(n, s)
             \/ \E c \in adds : HandOffAnswered(n, c)
             \/ \E d \in tick[n].out : HandOffDeferred(n, d) \/ \E l \in Server : HandOff(n, d, l)
    BY <2>3 DEF TickBegin, HandOffGivenUp, RemoveFails, TickLooks, RemoveBegin, HandOffAnswered,
                HandOffDeferred, HandOff
  <2>. QED BY <1>2, <2>1, <2>2, <2>3 DEF Tick
<1>3. ASSUME NEW s \in Shard, NEW n \in Server, NEW a \in Agent, SpawnAgent(s, n, a) PROVE Goal
  BY <1>3 DEF SpawnAgent
<1>4. ASSUME NEW s \in Shard, NEW n \in Server, Raft(s, n) PROVE Goal
  BY <1>4 DEF Raft
<1>5. CASE UNCHANGED vars
  BY <1>5 DEF vars
<1>. QED BY <1>1, <1>2, <1>3, <1>4, <1>5 DEF Next

\* A proposal appends an entry to a leader's log, or does nothing.
LEMMA ProposalAppends ==
  ASSUME GroupTypes, NEW s \in Shard, NEW n \in Server, NEW r \in Registry, Proposes(s, n, r)
  PROVE  /\ GroupTypes'
         /\ \A x \in Shard : \/ GroupStays(x)
                             \/ x = s /\ Appends(s, n, [term |-> term[s][n], agents |-> r])
<1>1. CASE leads[s][n]
  <2>. DEFINE e == [term |-> term[s][n], agents |-> r]
  <2>1. e \in Entry
    BY DEF GroupTypes, Entry
  <2>2. log' = [log EXCEPT ![s][n] = Append(@, e)]
    BY <1>1 DEF Proposes, Propose
  <2>3. Append(log[s][n], e) \in Seq(Entry)
    BY <2>1, AppendProperties DEF GroupTypes
  <2>. HIDE DEF e
  <2>4. GroupTypes'
    BY <2>2, <2>3 DEF Proposes, GroupTypes
  <2>5. \A x \in Shard : x # s => GroupStays(x)
    BY <2>2 DEF Proposes, GroupTypes, GroupStays
  <2>6. \A q \in Server : log'[s][q] = IF q = n THEN Append(log[s][n], e) ELSE log[s][q]
    BY <2>2 DEF GroupTypes
  <2>7. e.term = term[s][n]
    BY DEF e
  <2>8. Appends(s, n, e)
    BY <1>1, <2>6, <2>7 DEF Appends, Proposes
  <2>. QED BY <2>4, <2>5, <2>8 DEF e
<1>2. CASE ~leads[s][n]
  <2>1. UNCHANGED raftVars
    BY <1>2 DEF Proposes, Propose, raftVars
  <2>. QED BY <2>1 DEF raftVars, GroupTypes, GroupStays
<1>. QED BY <1>1, <1>2

\* An election takes a majority to a term that none of it was in.
LEMMA ElectionElects ==
  ASSUME GroupTypes, NEW s \in Shard, NEW n \in Server, Elect(s, n)
  PROVE  /\ GroupTypes'
         /\ \E Q \in SUBSET Server, t \in Nat : t <= MaxTerm /\ Elects(s, n, Q, t)
         /\ \A x \in Shard : x # s => GroupStays(x)
<1>1. PICK Q \in SUBSET Server :
        LET t == Max({term[s][q] : q \in Q}) + 1 IN
         /\ IsMajority(Q) /\ n \in Q /\ t <= MaxTerm
         /\ \A q \in Q : UpToDate(log[s][n], log[s][q])
         /\ term' = [term EXCEPT ![s] = [q \in Server |-> IF q \in Q THEN t ELSE @[q]]]
         /\ leads' = [leads EXCEPT ![s] = [q \in Server |-> IF q \in Q THEN q = n ELSE @[q]]]
         /\ log' = [log EXCEPT ![s][n] = Append(@, [term |-> t, agents |-> NoOp])]
         /\ matchIndex' = [matchIndex EXCEPT ![s] = [q \in Server |-> IF q \in Q THEN [m \in Server |-> 0] ELSE @[q]]]
  BY DEF Elect
<1>. DEFINE T == {term[s][q] : q \in Q}
            t == Max(T) + 1
            e == [term |-> t, agents |-> NoOp]
<1>2. Max(T) \in T /\ \A y \in T : Max(T) >= y
  <2>1. T # {} /\ T \subseteq 0..MaxTerm
    BY <1>1 DEF GroupTypes
  <2>. QED BY <2>1, RegionsAssumption, Maximum
<1>3. t \in Nat /\ t <= MaxTerm /\ \A q \in Q : t > term[s][q]
  <2>1. T \subseteq Nat
    BY RegionsAssumption DEF GroupTypes
  <2>2. Max(T) \in Nat
    BY <1>2, <2>1
  <2>3. \A q \in Q : term[s][q] \in Nat /\ Max(T) >= term[s][q]
    BY <1>2, <2>1
  <2>4. t <= MaxTerm
    BY <1>1
  <2>. HIDE DEF T
  <2>. QED BY <2>2, <2>3, <2>4
<1>4. e \in Entry /\ e = [term |-> t, agents |-> NoOp]
  BY <1>3 DEF Entry
<1>. HIDE DEF t, e
<1>5. Append(log[s][n], e) \in Seq(Entry)
  BY <1>4, AppendProperties DEF GroupTypes
<1>6. /\ term' = [term EXCEPT ![s] = [q \in Server |-> IF q \in Q THEN t ELSE @[q]]]
      /\ leads' = [leads EXCEPT ![s] = [q \in Server |-> IF q \in Q THEN q = n ELSE @[q]]]
      /\ log' = [log EXCEPT ![s][n] = Append(@, e)]
      /\ matchIndex' = [matchIndex EXCEPT ![s] = [q \in Server |-> IF q \in Q THEN [m \in Server |-> 0] ELSE @[q]]]
      /\ applied' = applied
  BY <1>1, <1>4 DEF t, Elect
<1>7. GroupTypes'
  <2>1. term' \in [Shard -> [Server -> 0..MaxTerm]]
    BY <1>3, <1>6, RegionsAssumption DEF GroupTypes
  <2>2. leads' \in [Shard -> [Server -> BOOLEAN]] /\ applied' \in [Shard -> [Server -> Nat]]
    BY <1>6 DEF GroupTypes
  <2>3. log' \in [Shard -> [Server -> Seq(Entry)]]
    BY <1>5, <1>6 DEF GroupTypes
  <2>4. matchIndex' \in [Shard -> [Server -> [Server -> Nat]]]
    BY <1>6 DEF GroupTypes
  <2>. QED BY <2>1, <2>2, <2>3, <2>4 DEF GroupTypes
<1>8. \A x \in Shard : x # s => GroupStays(x)
  BY <1>6 DEF GroupTypes, GroupStays
<1>9. \A q \in Server :
         /\ term'[s][q] = IF q \in Q THEN t ELSE term[s][q]
         /\ leads'[s][q] <=> IF q \in Q THEN q = n ELSE leads[s][q]
         /\ log'[s][q] = IF q = n THEN Append(log[s][n], e) ELSE log[s][q]
         /\ \A m \in Server : matchIndex'[s][q][m] = IF q \in Q THEN 0 ELSE matchIndex[s][q][m]
  BY <1>6 DEF GroupTypes
<1>10. Elects(s, n, Q, t)
  BY <1>1, <1>3, <1>4, <1>6, <1>9 DEF Elects, Elect
<1>. QED BY <1>3, <1>7, <1>8, <1>10

\* A heartbeat brings one other server to the leader's log and term.
LEMMA ReplicationReplicates ==
  ASSUME GroupTypes, NEW s \in Shard, NEW n \in Server, NEW m \in Server, Replicate(s, n, m)
  PROVE  /\ GroupTypes' /\ Replicates(s, n, m)
         /\ \A x \in Shard : x # s => GroupStays(x)
<1>. DEFINE upTo == Max({applied[s][m], applied[s][n]})
<1>1. applied[s][m] \in Nat /\ applied[s][n] \in Nat
  BY DEF GroupTypes
<1>2. upTo = IF applied[s][m] >= applied[s][n] THEN applied[s][m] ELSE applied[s][n]
  BY <1>1, MaxOfTwo
<1>. HIDE DEF upTo
<1>3. /\ leads[s][n] /\ m # n /\ term[s][m] <= term[s][n]
      /\ term' = [term EXCEPT ![s][m] = term[s][n]]
      /\ leads' = [leads EXCEPT ![s][m] = FALSE]
      /\ log' = [log EXCEPT ![s][m] = log[s][n]]
      /\ matchIndex' = [matchIndex EXCEPT ![s][n][m] = Len(log[s][n]), ![s][m] = [q \in Server |-> 0]]
      /\ applied' = [applied EXCEPT ![s][m] = upTo]
  BY DEF Replicate, upTo
<1>4. Len(log[s][n]) \in Nat
  BY LenProperties DEF GroupTypes
<1>5. GroupTypes'
  BY <1>1, <1>2, <1>3, <1>4 DEF GroupTypes
<1>6. \A x \in Shard : x # s => GroupStays(x)
  BY <1>3 DEF GroupTypes, GroupStays
<1>7. \A q \in Server :
         /\ term'[s][q] = IF q = m THEN term[s][n] ELSE term[s][q]
         /\ leads'[s][q] <=> q # m /\ leads[s][q]
         /\ log'[s][q] = IF q = m THEN log[s][n] ELSE log[s][q]
  BY <1>3 DEF GroupTypes
<1>9. ASSUME NEW q \in Server
      PROVE  applied'[s][q] = IF q = m /\ applied[s][n] > applied[s][m] THEN applied[s][n] ELSE applied[s][q]
  <2>1. applied'[s] = [applied[s] EXCEPT ![m] = upTo] /\ applied[s] \in [Server -> Nat]
    BY <1>3 DEF GroupTypes
  <2>2. applied'[s][q] = IF q = m THEN upTo ELSE applied[s][q]
    BY <2>1
  <2>. QED BY <1>1, <1>2, <2>2
<1>8. ASSUME NEW q \in Server, NEW k \in Server
      PROVE  matchIndex'[s][q][k] = IF q = m THEN 0
                                    ELSE IF q = n /\ k = m THEN Len(log[s][n]) ELSE matchIndex[s][q][k]
  <2>1. matchIndex'[s] = [[matchIndex[s] EXCEPT ![n] = [@ EXCEPT ![m] = Len(log[s][n])]]
                            EXCEPT ![m] = [x \in Server |-> 0]]
    BY <1>3 DEF GroupTypes
  <2>2. /\ matchIndex[s] \in [Server -> [Server -> Nat]] /\ matchIndex[s][q] \in [Server -> Nat]
        /\ matchIndex[s][n] \in [Server -> Nat]
    BY DEF GroupTypes
  <2>3. matchIndex'[s][q] = IF q = m THEN [x \in Server |-> 0]
                            ELSE IF q = n THEN [matchIndex[s][n] EXCEPT ![m] = Len(log[s][n])] ELSE matchIndex[s][q]
    BY <1>3, <2>1, <2>2
  <2>4. CASE q = m
    BY <2>3, <2>4
  <2>5. CASE q = n
    BY <1>3, <2>2, <2>3, <2>5
  <2>6. CASE q # m /\ q # n
    BY <2>3, <2>6
  <2>. QED BY <2>4, <2>5, <2>6
<1>. QED BY <1>3, <1>5, <1>6, <1>7, <1>8, <1>9 DEF Replicates

\* A leader commits an entry of its term that a majority is known to hold.
LEMMA CommitCommits ==
  ASSUME GroupTypes, NEW s \in Shard, NEW n \in Server, Commit(s, n)
  PROVE  /\ GroupTypes'
         /\ \E i \in 1..Len(log[s][n]) :
              /\ Commits(s, n, i)
              /\ agents' = [agents EXCEPT ![s][n] = Applying(@, log[s][n], applied[s][n], i)]
         /\ \A x \in Shard : x # s => GroupStays(x)
<1>. DEFINE held == {i \in applied[s][n] + 1..Len(log[s][n]) :
                       /\ log[s][n][i].term = term[s][n]
                       /\ IsMajority({n} \cup {q \in Server : matchIndex[s][n][q] >= i})}
            last == Max(held)
<1>1. applied[s][n] \in Nat /\ Len(log[s][n]) \in Nat
  BY LenProperties DEF GroupTypes
<1>2. last \in held
  <2>1. held # {}
    BY DEF Commit
  <2>2. held \subseteq 0..Len(log[s][n])
    BY <1>1
  <2>. HIDE DEF held
  <2>. QED BY <1>1, <2>1, <2>2, Maximum
<1>3. /\ leads[s][n]
      /\ applied' = [applied EXCEPT ![s][n] = last]
      /\ agents' = [agents EXCEPT ![s][n] = Applying(@, log[s][n], applied[s][n], last)]
      /\ UNCHANGED <<term, leads, log, matchIndex>>
  BY DEF Commit
<1>4. /\ last \in 1..Len(log[s][n]) /\ last > applied[s][n] /\ log[s][n][last].term = term[s][n]
      /\ IsMajority({n} \cup {q \in Server : matchIndex[s][n][q] >= last})
  <2>. HIDE DEF last
  <2>. QED BY <1>1, <1>2
<1>. HIDE DEF last
<1>5. GroupTypes'
  BY <1>3, <1>4 DEF GroupTypes
<1>6. \A x \in Shard : x # s => GroupStays(x)
  BY <1>3 DEF GroupTypes, GroupStays
<1>7. Commits(s, n, last)
  BY <1>3, <1>4 DEF Commits, GroupTypes
<1>. QED BY <1>3, <1>4, <1>5, <1>6, <1>7

\* What a step does to the group of a shard.
LEMMA GroupSteps ==
  ASSUME Types, [Next]_vars
  PROVE  GroupTypes' /\ \A s \in Shard : GroupStep(s)
<1>0. GroupTypes
  BY DEF Types
<1>1. ASSUME NEW s \in Shard, NEW n \in Server, Elect(s, n)
      PROVE  GroupTypes' /\ \A x \in Shard : GroupStep(x)
  BY <1>0, <1>1, ElectionElects DEF GroupStep
<1>2. ASSUME NEW s \in Shard, NEW n \in Server, Commit(s, n)
      PROVE  GroupTypes' /\ \A x \in Shard : GroupStep(x)
  BY <1>0, <1>2, CommitCommits DEF GroupStep
<1>3. ASSUME NEW s \in Shard, NEW n \in Server, NEW m \in Server, Replicate(s, n, m)
      PROVE  GroupTypes' /\ \A x \in Shard : GroupStep(x)
  BY <1>0, <1>3, ReplicationReplicates DEF GroupStep
<1>4. ASSUME NEW s \in Shard, NEW n \in Server, NEW r \in Registry, Proposes(s, n, r)
      PROVE  GroupTypes' /\ \A x \in Shard : GroupStep(x)
  <2>1. [term |-> term[s][n], agents |-> r] \in Entry
    BY <1>0 DEF GroupTypes, Entry
  <2>. QED BY <1>0, <1>4, <2>1, ProposalAppends DEF GroupStep
<1>5. CASE UNCHANGED raftVars
  BY <1>0, <1>5 DEF raftVars, GroupTypes, GroupStep, GroupStays
<1>. QED BY <1>1, <1>2, <1>3, <1>4, <1>5, RaftCases

-----------------------------------------------------------------------------
(* The group of a shard elects one leader a term, and a leader knows all that *)
(* is committed.                                                              *)

\* A majority of the group of s has reached term t.
Backed(s, t) ==
    \E Q \in SUBSET Server : IsMajority(Q) /\ \A q \in Q : term[s][q] >= t

TermsBacked(s) ==
    \A q \in Server :
        /\ leads[s][q] => Backed(s, term[s][q])
        /\ \A i \in 1..Len(log[s][q]) : Backed(s, log[s][q][i].term)

\* The terms along a log start above 0, never fall and end at or below its server's.
TermsAscend(s) ==
    \A q \in Server :
        /\ \A i \in 1..Len(log[s][q]) : log[s][q][i].term >= 1 /\ log[s][q][i].term <= term[s][q]
        /\ \A j \in 1..Len(log[s][q]) : \A i \in 1..j : log[s][q][i].term <= log[s][q][j].term

OneLeader(s) ==
    \A n, m \in Server : leads[s][n] /\ leads[s][m] /\ term[s][n] = term[s][m] => n = m

\* A leader holds all that was ever appended in its term.
LeaderOwns(s) ==
    \A n \in Server : leads[s][n] =>
        /\ Len(log[s][n]) > 0 /\ log[s][n][Len(log[s][n])].term = term[s][n]
        /\ \A q \in Server : \A i \in 1..Len(log[s][q]) :
             log[s][q][i].term = term[s][n] => i <= Len(log[s][n])

\* Logs that have entries of one term agree up to the earlier of the two.
Coherent(s) ==
    \A p, q \in Server : \A i \in 1..Len(log[s][p]), j \in 1..Len(log[s][q]) :
        i <= j /\ log[s][p][i].term = log[s][q][j].term
        => \A k \in 1..i : log[s][p][k] = log[s][q][k]

Holds(s, q, i, e) == i \in 1..Len(log[s][q]) /\ log[s][q][i] = e
Later(s, q, t) == \E j \in 1..Len(log[s][q]) : log[s][q][j].term > t

\* A majority left the term of n without entry i: n will never commit it.
Blocked(s, n, i) ==
    \E Q \in SUBSET Server :
        IsMajority(Q) /\ \A q \in Q : term[s][q] > term[s][n] /\ matchIndex[s][n][q] < i

\* Entry i is one that leader n appended.
Own(s, n, i) == leads[s][n] /\ i \in 1..Len(log[s][n]) /\ log[s][n][i].term = term[s][n]

\* What a leader knows a follower to hold, the follower holds, unless that no longer counts.
AcksHold(s) ==
    \A n, q \in Server : leads[s][n] /\ matchIndex[s][n][q] > 0 =>
        /\ matchIndex[s][n][q] <= Len(log[s][n]) /\ term[s][q] >= term[s][n]
        /\ \A i \in 1..matchIndex[s][n][q] :
             Own(s, n, i) => Holds(s, q, i, log[s][n][i]) \/ Blocked(s, n, i)

\* What a leader may still commit is in the logs of all later leaders.
LaterHold(s) ==
    \A n, q \in Server : \A i \in 1..Len(log[s][n]) :
        Own(s, n, i) /\ Later(s, q, term[s][n]) => Holds(s, q, i, log[s][n][i]) \/ Blocked(s, n, i)

\* Entry e at index i is there to stay: a majority holds it, and so do all that
\* hold something of a later term.
Safe(s, i, e) ==
    /\ \E Q \in SUBSET Server :
         IsMajority(Q) /\ \A q \in Q : term[s][q] >= e.term /\ Holds(s, q, i, e)
    /\ \A q \in Server : Later(s, q, e.term) => Holds(s, q, i, e)

AppliedSafe(s) ==
    \A q \in Server : applied[s][q] > 0 =>
        /\ applied[s][q] <= Len(log[s][q])
        /\ Safe(s, applied[s][q], log[s][q][applied[s][q]])

GroupInv(s) ==
    /\ TermsBacked(s) /\ TermsAscend(s) /\ OneLeader(s) /\ LeaderOwns(s) /\ Coherent(s)
    /\ AcksHold(s) /\ LaterHold(s) /\ AppliedSafe(s)

-----------------------------------------------------------------------------
\* The log of a server and the entries it holds are of their types.
LEMMA LogTypes ==
  ASSUME GroupTypes, NEW s \in Shard, NEW q \in Server
  PROVE  /\ log[s][q] \in Seq(Entry) /\ Len(log[s][q]) \in Nat /\ term[s][q] \in Nat
         /\ applied[s][q] \in Nat
         /\ \A i \in 1..Len(log[s][q]) : log[s][q][i] \in Entry /\ log[s][q][i].term \in Nat
         /\ \A m \in Server : matchIndex[s][q][m] \in Nat
<1>1. log[s][q] \in Seq(Entry) /\ term[s][q] \in Nat /\ applied[s][q] \in Nat
  BY RegionsAssumption DEF GroupTypes
<1>2. \A i \in 1..Len(log[s][q]) : log[s][q][i] \in Entry
  BY <1>1, ElementOfSeq
<1>3. \A e \in Entry : e.term \in Nat
  BY DEF Entry
<1>4. \A m \in Server : matchIndex[s][q][m] \in Nat
  BY DEF GroupTypes
<1>. QED BY <1>1, <1>2, <1>3, <1>4, LenProperties

\* The same of what a step leads to.
LEMMA LogTypesNext ==
  ASSUME GroupTypes', NEW s \in Shard, NEW q \in Server
  PROVE  /\ log'[s][q] \in Seq(Entry) /\ Len(log'[s][q]) \in Nat /\ term'[s][q] \in Nat
         /\ applied'[s][q] \in Nat
         /\ \A i \in 1..Len(log'[s][q]) : log'[s][q][i] \in Entry /\ log'[s][q][i].term \in Nat
         /\ \A m \in Server : matchIndex'[s][q][m] \in Nat
<1>1. log'[s][q] \in Seq(Entry) /\ term'[s][q] \in Nat /\ applied'[s][q] \in Nat
  BY RegionsAssumption DEF GroupTypes
<1>2. \A i \in 1..Len(log'[s][q]) : log'[s][q][i] \in Entry
  BY <1>1, ElementOfSeq
<1>3. \A e \in Entry : e.term \in Nat
  BY DEF Entry
<1>4. \A m \in Server : matchIndex'[s][q][m] \in Nat
  BY DEF GroupTypes
<1>. QED BY <1>1, <1>2, <1>3, <1>4, LenProperties

\* Appending leaves what was there and adds one entry after it.
LEMMA Appended ==
  ASSUME NEW l \in Seq(Entry), NEW e \in Entry
  PROVE  /\ Append(l, e) \in Seq(Entry) /\ Len(Append(l, e)) = Len(l) + 1
         /\ \A i \in 1..Len(l) : Append(l, e)[i] = l[i]
         /\ Append(l, e)[Len(l) + 1] = e
  BY AppendProperties

\* A leader's log grows by one entry of its term; a new leader's term is one that
\* it has just come to.
Grows(s, n, e) ==
    /\ e \in Entry /\ leads'[s][n] /\ e.term = term'[s][n]
    /\ \A q \in Server : log'[s][q] = IF q = n THEN Append(log[s][n], e) ELSE log[s][q]

\* Elections and proposals append an entry of the leader's term.
LEMMA GrowthSteps ==
  ASSUME GroupTypes, NEW s \in Shard, NEW n \in Server
  PROVE  /\ \A Q \in SUBSET Server, t \in Nat :
              Elects(s, n, Q, t) => Grows(s, n, [term |-> t, agents |-> NoOp])
         /\ \A e \in Entry : Appends(s, n, e) => Grows(s, n, e)
<1>1. \A t \in Nat : [term |-> t, agents |-> NoOp] \in Entry
  BY DEF Entry
<1>. QED BY <1>1 DEF Elects, Appends, Grows

\* Where a log of after the step comes from.
LogFrom(s, q) ==
    \/ log'[s][q] = log[s][q]
    \/ \E n \in Server : /\ leads[s][n] /\ leads'[s][n] /\ n # q /\ log'[s][q] = log[s][n]
                         /\ term[s][q] <= term[s][n] /\ term'[s][q] = term[s][n]
                         /\ term'[s][n] = term[s][n] /\ log'[s][n] = log[s][n]
    \/ \E e \in Entry : Grows(s, q, e)

\* After a step a log is one of before, or one of before and an entry; terms do not fall.
LEMMA LogSources ==
  ASSUME GroupTypes, NEW s \in Shard, GroupStep(s), NEW q \in Server
  PROVE  /\ LogFrom(s, q)
         /\ term[s][q] <= term'[s][q]
<1>1. CASE GroupStays(s)
  BY <1>1, LogTypes DEF GroupStays, LogFrom
<1>2. ASSUME NEW n \in Server, NEW Q \in SUBSET Server, NEW t \in Nat, Elects(s, n, Q, t)
      PROVE  LogFrom(s, q) /\ term[s][q] <= term'[s][q]
  <2>1. Grows(s, n, [term |-> t, agents |-> NoOp])
    BY <1>2, GrowthSteps
  <2>2. [term |-> t, agents |-> NoOp] \in Entry
    BY DEF Entry
  <2>. QED BY <1>2, <2>1, <2>2, LogTypes DEF Elects, LogFrom, Grows
<1>3. ASSUME NEW n \in Server, NEW m \in Server, Replicates(s, n, m)
      PROVE  LogFrom(s, q) /\ term[s][q] <= term'[s][q]
  BY <1>3, LogTypes DEF Replicates, LogFrom
<1>4. ASSUME NEW n \in Server, NEW i \in 1..Len(log[s][n]), Commits(s, n, i)
      PROVE  LogFrom(s, q) /\ term[s][q] <= term'[s][q]
  BY <1>4, LogTypes DEF Commits, LogFrom
<1>5. ASSUME NEW n \in Server, NEW e \in Entry, Appends(s, n, e)
      PROVE  LogFrom(s, q) /\ term[s][q] <= term'[s][q]
  <2>1. Grows(s, n, e)
    BY <1>5, GrowthSteps
  <2>. QED BY <1>5, <2>1, LogTypes DEF Appends, LogFrom, Grows
<1>. QED BY <1>1, <1>2, <1>3, <1>4, <1>5 DEF GroupStep

\* What a majority has reached it does not fall behind.
LEMMA BackedStays ==
  ASSUME GroupTypes, GroupTypes', NEW s \in Shard, GroupStep(s), NEW t \in Nat, Backed(s, t)
  PROVE  Backed(s, t)'
<1>1. PICK Q \in SUBSET Server : IsMajority(Q) /\ \A q \in Q : term[s][q] >= t
  BY DEF Backed
<1>2. ASSUME NEW q \in Q PROVE term'[s][q] >= t
  <2>1. term[s][q] \in Nat /\ term'[s][q] \in Nat
    BY RegionsAssumption DEF GroupTypes
  <2>. QED BY <1>1, <2>1, LogSources
<1>. QED BY <1>1, <1>2 DEF Backed, IsMajority

\* A server that leads after the step led in that term before, or was just elected.
LEMMA LeaderSources ==
  ASSUME GroupTypes, NEW s \in Shard, GroupStep(s), NEW n \in Server, leads'[s][n]
  PROVE  \/ leads[s][n] /\ term'[s][n] = term[s][n]
         \/ \E Q \in SUBSET Server, t \in Nat : Elects(s, n, Q, t)
<1>1. ASSUME NEW k \in Server, NEW Q \in SUBSET Server, NEW t \in Nat, Elects(s, k, Q, t)
      PROVE  n = k \/ (leads[s][n] /\ term'[s][n] = term[s][n])
  BY <1>1 DEF Elects
<1>2. ASSUME NEW k \in Server, NEW m \in Server, Replicates(s, k, m)
      PROVE  leads[s][n] /\ term'[s][n] = term[s][n]
  BY <1>2 DEF Replicates
<1>. QED BY <1>1, <1>2 DEF GroupStep, GroupStays, Commits, Appends

\* A term that a majority has reached is not new to any majority.
LEMMA BackedOld ==
  ASSUME GroupTypes, NEW s \in Shard, NEW t \in Nat, Backed(s, t),
         NEW n \in Server, NEW Q \in SUBSET Server, NEW u \in Nat, Elects(s, n, Q, u)
  PROVE  t < u
<1>1. PICK P \in SUBSET Server : IsMajority(P) /\ \A q \in P : term[s][q] >= t
  BY DEF Backed
<1>2. PICK q \in Server : q \in P /\ q \in Q
  BY <1>1, MajoritiesMeet DEF Elects
<1>. QED BY <1>1, <1>2, LogTypes DEF Elects

\* Whoever asks for votes brings a majority to the new term; terms do not fall.
LEMMA TermsBackedStep ==
  ASSUME GroupTypes, GroupTypes', NEW s \in Shard, GroupStep(s), TermsBacked(s)
  PROVE  TermsBacked(s)'
<1>1. ASSUME NEW q \in Server, leads'[s][q] PROVE Backed(s, term[s][q])'
  <2>1. CASE leads[s][q] /\ term'[s][q] = term[s][q]
    <3>1. Backed(s, term[s][q])
      BY <2>1 DEF TermsBacked
    <3>2. PICK t \in Nat : t = term[s][q]
      BY LogTypes
    <3>3. Backed(s, t)'
      BY <3>1, <3>2, BackedStays
    <3>. QED BY <2>1, <3>2, <3>3
  <2>2. ASSUME NEW Q \in SUBSET Server, NEW t \in Nat, Elects(s, q, Q, t) PROVE Backed(s, term[s][q])'
    <3>1. \A p \in Q : term'[s][p] = t
      BY <2>2 DEF Elects
    <3>2. term'[s][q] = t
      BY <2>2 DEF Elects
    <3>. QED BY <2>2, <3>1, <3>2 DEF Backed, Elects, IsMajority
  <2>. QED BY <1>1, <2>1, <2>2, LeaderSources
<1>2. ASSUME NEW q \in Server, NEW i \in 1..Len(log'[s][q]) PROVE Backed(s, log[s][q][i].term)'
  <2>1. ASSUME NEW p \in Server, i \in 1..Len(log[s][p]), log[s][p][i] = log'[s][q][i]
        PROVE  Backed(s, log[s][q][i].term)'
    <3>1. Backed(s, log[s][p][i].term)
      BY <2>1 DEF TermsBacked
    <3>2. PICK t \in Nat : t = log[s][p][i].term
      BY <2>1, LogTypes
    <3>3. Backed(s, t)'
      BY <3>1, <3>2, BackedStays
    <3>. QED BY <2>1, <3>2, <3>3
  <2>2. CASE log'[s][q] = log[s][q]
    BY <2>1, <2>2
  <2>3. ASSUME NEW n \in Server, log'[s][q] = log[s][n]
        PROVE  Backed(s, log[s][q][i].term)'
    BY <2>1, <2>3
  <2>4. ASSUME NEW e \in Entry, Grows(s, q, e) PROVE Backed(s, log[s][q][i].term)'
    <3>1. /\ log'[s][q] = Append(log[s][q], e) /\ leads'[s][q] /\ e.term = term'[s][q]
      BY <2>4 DEF Grows
    <3>2. CASE i \in 1..Len(log[s][q])
      BY <2>1, <3>1, <3>2, Appended, LogTypes
    <3>3. CASE i \notin 1..Len(log[s][q])
      <4>1. log'[s][q][i] = e
        BY <3>1, <3>3, Appended, LogTypes
      <4>. QED BY <1>1, <3>1, <4>1
    <3>. QED BY <3>2, <3>3
  <2>. QED BY <2>2, <2>3, <2>4, LogSources DEF LogFrom
<1>. QED BY <1>1, <1>2 DEF TermsBacked

\* A leader adds entries of its own term, which is above all that its log holds.
LEMMA TermsAscendStep ==
  ASSUME GroupTypes, GroupTypes', NEW s \in Shard, GroupStep(s), TermsAscend(s), LeaderOwns(s)
  PROVE  TermsAscend(s)'
<1>. SUFFICES ASSUME NEW q \in Server
     PROVE  /\ \A i \in 1..Len(log'[s][q]) : log'[s][q][i].term >= 1 /\ log'[s][q][i].term <= term'[s][q]
            /\ \A j \in 1..Len(log'[s][q]) : \A i \in 1..j : log'[s][q][i].term <= log'[s][q][j].term
  BY DEF TermsAscend
<1>0. /\ term[s][q] \in Nat /\ term'[s][q] \in Nat /\ term[s][q] <= term'[s][q]
      /\ Len(log[s][q]) \in Nat /\ \A i \in 1..Len(log[s][q]) : log[s][q][i].term \in Nat
  BY LogTypes, LogTypesNext, LogSources
<1>1. CASE log'[s][q] = log[s][q]
  BY <1>0, <1>1 DEF TermsAscend
<1>2. ASSUME NEW n \in Server, log'[s][q] = log[s][n], term'[s][q] = term[s][n]
      PROVE  /\ \A i \in 1..Len(log'[s][q]) : log'[s][q][i].term >= 1 /\ log'[s][q][i].term <= term'[s][q]
             /\ \A j \in 1..Len(log'[s][q]) : \A i \in 1..j : log'[s][q][i].term <= log'[s][q][j].term
  BY <1>2 DEF TermsAscend
<1>3. ASSUME NEW e \in Entry, Grows(s, q, e)
      PROVE  /\ \A i \in 1..Len(log'[s][q]) : log'[s][q][i].term >= 1 /\ log'[s][q][i].term <= term'[s][q]
             /\ \A j \in 1..Len(log'[s][q]) : \A i \in 1..j : log'[s][q][i].term <= log'[s][q][j].term
  <2>1. log'[s][q] = Append(log[s][q], e) /\ e.term = term'[s][q]
    BY <1>3 DEF Grows
  <2>2. /\ Len(log'[s][q]) = Len(log[s][q]) + 1 /\ log'[s][q][Len(log[s][q]) + 1] = e
        /\ \A i \in 1..Len(log[s][q]) : log'[s][q][i] = log[s][q][i]
    BY <2>1, Appended, LogTypes
  <2>3. e.term >= 1
    <3>1. leads'[s][q]
      BY <1>3 DEF Grows
    <3>2. CASE leads[s][q] /\ term'[s][q] = term[s][q]
      BY <1>0, <2>1, <3>2 DEF LeaderOwns, TermsAscend
    <3>3. ASSUME NEW Q \in SUBSET Server, NEW t \in Nat, Elects(s, q, Q, t) PROVE e.term >= 1
      BY <1>0, <2>1, <3>3 DEF Elects
    <3>. QED BY <3>1, <3>2, <3>3, LeaderSources
  <2>4. \A i \in 1..Len(log[s][q]) : log[s][q][i].term >= 1 /\ log[s][q][i].term <= e.term
    BY <1>0, <2>1 DEF TermsAscend
  <2>5. \A j \in 1..Len(log[s][q]) : \A i \in 1..j : log[s][q][i].term <= log[s][q][j].term
    BY DEF TermsAscend
  <2>6. e.term \in Nat
    BY <1>0, <2>1
  <2>7. ASSUME NEW i \in 1..Len(log'[s][q])
        PROVE  \/ i \in 1..Len(log[s][q]) /\ log'[s][q][i] = log[s][q][i]
               \/ i = Len(log[s][q]) + 1 /\ log'[s][q][i] = e
    BY <1>0, <2>2
  <2>8. ASSUME NEW j \in 1..Len(log'[s][q]), NEW i \in 1..j
        PROVE  log'[s][q][i].term <= log'[s][q][j].term
    <3>1. i \in 1..Len(log'[s][q])
      BY <1>0, <2>2
    <3>2. CASE j \in 1..Len(log[s][q])
      <4>1. i \in 1..Len(log[s][q]) /\ i \in 1..j
        BY <1>0, <3>2
      <4>. QED BY <3>2, <4>1, <2>2, <2>5
    <3>3. CASE log'[s][q][j] = e
      BY <2>4, <2>6, <2>7, <3>1, <3>3
    <3>. QED BY <2>7, <3>2, <3>3
  <2>9. \A i \in 1..Len(log'[s][q]) : log'[s][q][i].term >= 1 /\ log'[s][q][i].term <= term'[s][q]
    BY <2>1, <2>3, <2>4, <2>6, <2>7
  <2>. QED BY <2>8, <2>9
<1>. QED BY <1>1, <1>2, <1>3, LogSources DEF LogFrom

\* What a log that grows is afterwards.
LEMMA Grown ==
  ASSUME GroupTypes, NEW s \in Shard, NEW n \in Server, NEW e \in Entry, Grows(s, n, e)
  PROVE  /\ Len(log'[s][n]) = Len(log[s][n]) + 1 /\ log'[s][n][Len(log[s][n]) + 1] = e
         /\ \A i \in 1..Len(log[s][n]) : log'[s][n][i] = log[s][n][i]
         /\ \A q \in Server : q # n => log'[s][q] = log[s][q]
<1>1. log'[s][n] = Append(log[s][n], e) /\ \A q \in Server : q # n => log'[s][q] = log[s][q]
  BY DEF Grows
<1>. QED BY <1>1, Appended, LogTypes

\* A leader's log stays or grows; no other log is copied over it.
LEMMA LeaderLog ==
  ASSUME GroupTypes, NEW s \in Shard, GroupStep(s), NEW n \in Server, leads'[s][n]
  PROVE  \/ /\ leads[s][n] /\ term'[s][n] = term[s][n]
            /\ log'[s][n] = log[s][n] \/ \E e \in Entry : Grows(s, n, e)
         \/ \E Q \in SUBSET Server, t \in Nat :
              Elects(s, n, Q, t) /\ Grows(s, n, [term |-> t, agents |-> NoOp])
<1>1. ASSUME NEW k \in Server, NEW Q \in SUBSET Server, NEW t \in Nat, Elects(s, k, Q, t)
      PROVE  \/ leads[s][n] /\ term'[s][n] = term[s][n] /\ log'[s][n] = log[s][n]
             \/ n = k /\ Grows(s, k, [term |-> t, agents |-> NoOp])
  BY <1>1, GrowthSteps DEF Elects
<1>2. ASSUME NEW k \in Server, NEW m \in Server, Replicates(s, k, m)
      PROVE  leads[s][n] /\ term'[s][n] = term[s][n] /\ log'[s][n] = log[s][n]
  BY <1>2 DEF Replicates
<1>3. ASSUME NEW k \in Server, NEW e \in Entry, Appends(s, k, e)
      PROVE  /\ leads[s][n] /\ term'[s][n] = term[s][n]
             /\ log'[s][n] = log[s][n] \/ Grows(s, n, e)
  BY <1>3, GrowthSteps DEF Appends
<1>. QED BY <1>1, <1>2, <1>3 DEF GroupStep, GroupStays, Commits

\* An entry of after the step was there before, with all that precedes it, or it
\* is the one by which a leader's log grew.
LEMMA EntrySources ==
  ASSUME GroupTypes, NEW s \in Shard, GroupStep(s),
         NEW q \in Server, NEW i \in 1..Len(log'[s][q])
  PROVE  \/ \E p \in Server : /\ i \in 1..Len(log[s][p])
                              /\ \A k \in 1..i : log'[s][q][k] = log[s][p][k]
         \/ \E e \in Entry : Grows(s, q, e) /\ i = Len(log[s][q]) + 1 /\ log'[s][q][i] = e
<1>1. CASE \E n \in Server : log'[s][q] = log[s][n]
  BY <1>1
<1>2. ASSUME NEW e \in Entry, Grows(s, q, e)
      PROVE  \/ i \in 1..Len(log[s][q]) /\ \A k \in 1..i : log'[s][q][k] = log[s][q][k]
             \/ i = Len(log[s][q]) + 1 /\ log'[s][q][i] = e
  BY <1>2, Grown, LogTypes
<1>. QED BY <1>1, <1>2, LogSources DEF LogFrom

\* What was there of the term of a leader is in its log; a new leader's term is fresh.
LEMMA OwnedSoFar ==
  ASSUME GroupTypes, NEW s \in Shard, GroupStep(s), TermsBacked(s), LeaderOwns(s),
         NEW n \in Server, leads'[s][n],
         NEW q \in Server, NEW i \in 1..Len(log[s][q]), log[s][q][i].term = term'[s][n]
  PROVE  leads[s][n] /\ term'[s][n] = term[s][n] /\ i <= Len(log[s][n])
<1>1. CASE leads[s][n] /\ term'[s][n] = term[s][n]
  BY <1>1 DEF LeaderOwns
<1>2. ASSUME NEW Q \in SUBSET Server, NEW t \in Nat, Elects(s, n, Q, t) PROVE FALSE
  <2>1. Backed(s, log[s][q][i].term) /\ log[s][q][i].term \in Nat
    BY LogTypes DEF TermsBacked
  <2>2. term'[s][n] = t
    BY <1>2 DEF Elects
  <2>3. log[s][q][i].term < t
    BY <1>2, <2>1, BackedOld
  <2>. QED BY <2>1, <2>2, <2>3
<1>. QED BY <1>1, <1>2, LeaderSources

\* A second leader of a term would need a majority that has not reached it.
LEMMA OneLeaderStep ==
  ASSUME GroupTypes, NEW s \in Shard, GroupStep(s), TermsBacked(s), OneLeader(s)
  PROVE  OneLeader(s)'
<1>. SUFFICES ASSUME NEW n \in Server, NEW m \in Server,
                     leads'[s][n], leads'[s][m], term'[s][n] = term'[s][m]
              PROVE  n = m
  BY DEF OneLeader
<1>1. ASSUME NEW k \in Server, NEW l \in Server, leads'[s][l], term'[s][k] = term'[s][l],
             NEW Q \in SUBSET Server, NEW t \in Nat, Elects(s, k, Q, t)
      PROVE  k = l
  <2>1. term'[s][k] = t
    BY <1>1 DEF Elects
  <2>2. CASE l \notin Q
    <3>1. leads[s][l] /\ term[s][l] = t
      BY <1>1, <2>1, <2>2 DEF Elects
    <3>2. Backed(s, t)
      BY <3>1 DEF TermsBacked
    <3>. QED BY <1>1, <3>2, BackedOld
  <2>. QED BY <1>1, <2>2 DEF Elects
<1>2. CASE leads[s][n] /\ term'[s][n] = term[s][n] /\ leads[s][m] /\ term'[s][m] = term[s][m]
  BY <1>2 DEF OneLeader
<1>3. CASE \E Q \in SUBSET Server, t \in Nat : Elects(s, n, Q, t)
  BY <1>1, <1>3
<1>4. CASE \E Q \in SUBSET Server, t \in Nat : Elects(s, m, Q, t)
  BY <1>1, <1>4
<1>. QED BY <1>2, <1>3, <1>4, LeaderSources

\* A new leader's term is in no log; after that only it adds entries of the term.
LEMMA LeaderOwnsStep ==
  ASSUME GroupTypes, GroupTypes', NEW s \in Shard, GroupStep(s),
         TermsBacked(s), LeaderOwns(s), OneLeader(s)'
  PROVE  LeaderOwns(s)'
<1>. SUFFICES ASSUME NEW n \in Server, leads'[s][n]
     PROVE  /\ Len(log'[s][n]) > 0 /\ log'[s][n][Len(log'[s][n])].term = term'[s][n]
            /\ \A q \in Server : \A i \in 1..Len(log'[s][q]) :
                 log'[s][q][i].term = term'[s][n] => i <= Len(log'[s][n])
  BY DEF LeaderOwns
<1>0. Len(log[s][n]) \in Nat /\ Len(log'[s][n]) \in Nat
  BY LogTypes, LogTypesNext
<1>1. /\ Len(log'[s][n]) > 0 /\ log'[s][n][Len(log'[s][n])].term = term'[s][n]
      /\ Len(log'[s][n]) >= Len(log[s][n])
  <2>1. CASE leads[s][n] /\ term'[s][n] = term[s][n] /\ log'[s][n] = log[s][n]
    BY <1>0, <2>1 DEF LeaderOwns
  <2>2. ASSUME NEW e \in Entry, Grows(s, n, e)
        PROVE  /\ Len(log'[s][n]) > 0 /\ log'[s][n][Len(log'[s][n])].term = term'[s][n]
               /\ Len(log'[s][n]) >= Len(log[s][n])
    <3>1. e.term = term'[s][n]
      BY <2>2 DEF Grows
    <3>. QED BY <1>0, <2>2, <3>1, Grown
  <2>3. \A t \in Nat : [term |-> t, agents |-> NoOp] \in Entry
    BY DEF Entry
  <2>. QED BY <2>1, <2>2, <2>3, LeaderLog
<1>2. ASSUME NEW q \in Server, NEW i \in 1..Len(log'[s][q]), log'[s][q][i].term = term'[s][n]
      PROVE  i <= Len(log'[s][n])
  <2>1. ASSUME NEW p \in Server, i \in 1..Len(log[s][p]), log'[s][q][i] = log[s][p][i]
        PROVE  i <= Len(log'[s][n])
    <3>1. i <= Len(log[s][n])
      BY <1>2, <2>1, OwnedSoFar
    <3>. QED BY <1>0, <1>1, <3>1
  <2>2. ASSUME NEW e \in Entry, Grows(s, q, e), log'[s][q][i] = e
        PROVE  i <= Len(log'[s][n])
    <3>1. leads'[s][q] /\ term'[s][q] = term'[s][n]
      BY <1>2, <2>2 DEF Grows
    <3>2. q = n
      BY <3>1 DEF OneLeader
    <3>. QED BY <3>2
  <2>3. i \in 1..i
    OBVIOUS
  <2>. QED BY <2>1, <2>2, <2>3, EntrySources
<1>. QED BY <1>1, <1>2

\* Entries of a term come from its one leader, that adds them at the end.
LEMMA CoherentStep ==
  ASSUME GroupTypes, GroupTypes', NEW s \in Shard, GroupStep(s),
         TermsBacked(s), LeaderOwns(s), OneLeader(s)', Coherent(s)
  PROVE  Coherent(s)'
<1>. SUFFICES ASSUME NEW p \in Server, NEW q \in Server,
                     NEW i \in 1..Len(log'[s][p]), NEW j \in 1..Len(log'[s][q]),
                     i <= j, log'[s][p][i].term = log'[s][q][j].term,
                     NEW k \in 1..i
              PROVE  log'[s][p][k] = log'[s][q][k]
  BY DEF Coherent
<1>0. i \in 1..i /\ j \in 1..j /\ k \in 1..j /\ k <= i
  OBVIOUS
<1>1. ASSUME NEW a \in Server, i \in 1..Len(log[s][a]),
             \A x \in 1..i : log'[s][p][x] = log[s][a][x],
             NEW b \in Server, j \in 1..Len(log[s][b]),
             \A x \in 1..j : log'[s][q][x] = log[s][b][x]
      PROVE  log'[s][p][k] = log'[s][q][k]
  <2>1. log[s][a][i].term = log[s][b][j].term
    BY <1>0, <1>1
  <2>2. log[s][a][k] = log[s][b][k]
    BY <1>1, <2>1 DEF Coherent
  <2>. QED BY <1>0, <1>1, <2>2
<1>2. ASSUME NEW a \in Server, i \in 1..Len(log[s][a]),
             \A x \in 1..i : log'[s][p][x] = log[s][a][x],
             NEW e \in Entry, Grows(s, q, e), log'[s][q][j] = e
      PROVE  log'[s][p][k] = log'[s][q][k]
  <2>1. leads'[s][q] /\ log[s][a][i].term = term'[s][q]
    BY <1>0, <1>2 DEF Grows
  <2>2. leads[s][q] /\ term'[s][q] = term[s][q] /\ i <= Len(log[s][q])
    BY <1>2, <2>1, OwnedSoFar
  <2>3. /\ Len(log[s][q]) \in 1..Len(log[s][q])
        /\ log[s][q][Len(log[s][q])].term = log[s][a][i].term
    BY <2>1, <2>2, LogTypes DEF LeaderOwns
  <2>4. log[s][a][k] = log[s][q][k]
    BY <1>2, <2>2, <2>3 DEF Coherent
  <2>5. k \in 1..Len(log[s][q])
    BY <2>2, <2>3
  <2>. QED BY <1>2, <2>4, <2>5, Grown
<1>3. ASSUME NEW e \in Entry, Grows(s, p, e), i = Len(log[s][p]) + 1, log'[s][p][i] = e,
             NEW b \in Server, j \in 1..Len(log[s][b]),
             \A x \in 1..j : log'[s][q][x] = log[s][b][x]
      PROVE  FALSE
  <2>1. leads'[s][p] /\ log[s][b][j].term = term'[s][p]
    BY <1>0, <1>3 DEF Grows
  <2>2. j <= Len(log[s][p])
    BY <1>3, <2>1, OwnedSoFar
  <2>. QED BY <1>3, <2>2, LogTypes
<1>4. ASSUME NEW d \in Entry, Grows(s, p, d), i = Len(log[s][p]) + 1, log'[s][p][i] = d,
             NEW e \in Entry, Grows(s, q, e), j = Len(log[s][q]) + 1, log'[s][q][j] = e
      PROVE  log'[s][p][k] = log'[s][q][k]
  <2>1. leads'[s][p] /\ leads'[s][q] /\ term'[s][p] = term'[s][q]
    BY <1>4 DEF Grows
  <2>. QED BY <2>1 DEF OneLeader
<1>5. \/ \E a \in Server : i \in 1..Len(log[s][a]) /\ \A x \in 1..i : log'[s][p][x] = log[s][a][x]
      \/ \E e \in Entry : Grows(s, p, e) /\ i = Len(log[s][p]) + 1 /\ log'[s][p][i] = e
  BY EntrySources
<1>6. \/ \E b \in Server : j \in 1..Len(log[s][b]) /\ \A x \in 1..j : log'[s][q][x] = log[s][b][x]
      \/ \E e \in Entry : Grows(s, q, e) /\ j = Len(log[s][q]) + 1 /\ log'[s][q][j] = e
  BY EntrySources
<1>. QED BY <1>1, <1>2, <1>3, <1>4, <1>5, <1>6

\* A leader that stays one keeps its log, and learns what a follower holds only by
\* bringing it there.
LEMMA LeaderStays ==
  ASSUME GroupTypes, NEW s \in Shard, GroupStep(s), NEW n \in Server,
         leads'[s][n], leads[s][n], term'[s][n] = term[s][n]
  PROVE  /\ Len(log'[s][n]) >= Len(log[s][n])
         /\ \A i \in 1..Len(log[s][n]) : log'[s][n][i] = log[s][n][i]
         /\ \A q \in Server :
              \/ matchIndex'[s][n][q] = matchIndex[s][n][q]
              \/ /\ matchIndex'[s][n][q] = Len(log[s][n]) /\ term[s][q] <= term[s][n]
                 /\ log'[s][q] = log[s][n] /\ term'[s][q] = term[s][n]
<1>1. /\ Len(log'[s][n]) >= Len(log[s][n])
      /\ \A i \in 1..Len(log[s][n]) : log'[s][n][i] = log[s][n][i]
  <2>1. CASE log'[s][n] = log[s][n]
    BY <2>1, LogTypes
  <2>2. CASE \E e \in Entry : Grows(s, n, e)
    BY <2>2, Grown, LogTypes
  <2>. QED BY <2>1, <2>2, LeaderLog DEF Elects
<1>2. ASSUME NEW q \in Server
      PROVE  \/ matchIndex'[s][n][q] = matchIndex[s][n][q]
             \/ /\ matchIndex'[s][n][q] = Len(log[s][n]) /\ term[s][q] <= term[s][n]
                /\ log'[s][q] = log[s][n] /\ term'[s][q] = term[s][n]
  <2>1. ASSUME NEW k \in Server, NEW Q \in SUBSET Server, NEW t \in Nat, Elects(s, k, Q, t)
        PROVE  matchIndex'[s][n][q] = matchIndex[s][n][q]
    BY <2>1 DEF Elects
  <2>2. ASSUME NEW k \in Server, NEW m \in Server, Replicates(s, k, m)
        PROVE  \/ matchIndex'[s][n][q] = matchIndex[s][n][q]
               \/ /\ matchIndex'[s][n][q] = Len(log[s][n]) /\ term[s][q] <= term[s][n]
                  /\ log'[s][q] = log[s][n] /\ term'[s][q] = term[s][n]
    BY <2>2 DEF Replicates
  <2>. QED BY <2>1, <2>2 DEF GroupStep, GroupStays, Commits, Appends
<1>. QED BY <1>1, <1>2

\* What is blocked for a leader stays blocked while it leads.
LEMMA BlockedStays ==
  ASSUME GroupTypes, GroupTypes', NEW s \in Shard, GroupStep(s), NEW n \in Server,
         leads'[s][n], leads[s][n], term'[s][n] = term[s][n],
         NEW i \in Nat, Blocked(s, n, i)
  PROVE  Blocked(s, n, i)'
<1>1. PICK Q \in SUBSET Server :
        IsMajority(Q) /\ \A q \in Q : term[s][q] > term[s][n] /\ matchIndex[s][n][q] < i
  BY DEF Blocked
<1>2. ASSUME NEW q \in Q PROVE term'[s][q] > term'[s][n] /\ matchIndex'[s][n][q] < i
  <2>1. term[s][q] \in Nat /\ term'[s][q] \in Nat /\ term[s][n] \in Nat /\ term[s][q] <= term'[s][q]
    BY LogTypes, LogTypesNext, LogSources
  <2>. QED BY <1>1, <2>1, LeaderStays
<1>. QED BY <1>1, <1>2 DEF Blocked, IsMajority

\* One who won votes holds what a voter holds, unless it holds something later.
LEMMA VoterGives ==
  ASSUME GroupTypes, NEW s \in Shard, TermsAscend(s), Coherent(s),
         NEW q \in Server, NEW r \in Server, UpToDate(log[s][q], log[s][r]),
         NEW i \in Nat, NEW e, Holds(s, r, i, e), ~Later(s, q, e.term)
  PROVE  Holds(s, q, i, e)
<1>. DEFINE a == Len(log[s][r])
            b == Len(log[s][q])
<1>1. /\ a \in Nat /\ b \in Nat /\ a >= i /\ i \in 1..a /\ a \in 1..a
      /\ log[s][r][a].term \in Nat /\ e.term \in Nat /\ e.term >= 1
  BY LogTypes DEF Holds, TermsAscend
<1>2. log[s][r][a].term >= e.term
  BY <1>1 DEF TermsAscend, Holds
<1>3. log[s][r] # <<>> /\ LastTerm(log[s][r]) = log[s][r][a].term
  BY <1>1, EmptySeq DEF LastTerm
<1>4. b \in 1..b /\ log[s][q][b].term >= log[s][r][a].term /\ LastTerm(log[s][q]) = log[s][q][b].term
  <2>1. CASE log[s][q] = <<>>
    BY <1>1, <1>2, <1>3, <2>1 DEF UpToDate, LastTerm
  <2>2. CASE log[s][q] # <<>>
    <3>1. b \in 1..b
      BY <2>2, EmptySeq, LogTypes
    <3>2. log[s][q][b].term \in Nat
      BY <3>1, LogTypes
    <3>. QED BY <1>1, <1>3, <2>2, <3>1, <3>2 DEF UpToDate, LastTerm
  <2>. QED BY <2>1, <2>2
<1>5. log[s][q][b].term \in Nat /\ ~(log[s][q][b].term > e.term)
  BY <1>4, LogTypes DEF Later
<1>6. log[s][q][b].term = log[s][r][a].term
  BY <1>1, <1>2, <1>4, <1>5, SMTT(30)
<1>7. a <= b
  BY <1>1, <1>3, <1>4, <1>5, <1>6 DEF UpToDate
<1>8. log[s][r][i] = log[s][q][i]
  BY <1>1, <1>4, <1>6, <1>7 DEF Coherent
<1>. QED BY <1>1, <1>7, <1>8 DEF Holds

\* A leader holds something of its term.
LEMMA LeaderLater ==
  ASSUME GroupTypes, NEW s \in Shard, LeaderOwns(s), NEW n \in Server, leads[s][n],
         NEW t \in Nat, term[s][n] > t
  PROVE  Later(s, n, t)
  BY LogTypes DEF LeaderOwns, Later

\* A follower that a leader counts on keeps its log until it learns of a later term.
LEMMA AcksHoldStep ==
  ASSUME GroupTypes, GroupTypes', NEW s \in Shard, GroupStep(s), OneLeader(s),
         LeaderOwns(s), AcksHold(s), LaterHold(s)
  PROVE  AcksHold(s)'
<1>. SUFFICES ASSUME NEW n \in Server, NEW q \in Server, leads'[s][n], matchIndex'[s][n][q] > 0
     PROVE  /\ matchIndex'[s][n][q] <= Len(log'[s][n]) /\ term'[s][q] >= term'[s][n]
            /\ \A i \in 1..matchIndex'[s][n][q] :
                 Own(s, n, i)' => Holds(s, q, i, log[s][n][i])' \/ Blocked(s, n, i)'
  BY DEF AcksHold
<1>0. /\ Len(log[s][n]) \in Nat /\ Len(log'[s][n]) \in Nat
      /\ term[s][q] \in Nat /\ term'[s][q] \in Nat /\ term[s][n] \in Nat /\ term[s][q] <= term'[s][q]
      /\ matchIndex[s][n][q] \in Nat /\ matchIndex'[s][n][q] \in Nat
  BY LogTypes, LogTypesNext, LogSources
<1>1. leads[s][n] /\ term'[s][n] = term[s][n]
  <2>1. ASSUME NEW Q \in SUBSET Server, NEW t \in Nat, Elects(s, n, Q, t) PROVE FALSE
    BY <2>1 DEF Elects
  <2>. QED BY <2>1, LeaderSources
<1>2. CASE matchIndex'[s][n][q] = matchIndex[s][n][q]
  <2>1. /\ matchIndex[s][n][q] <= Len(log[s][n]) /\ term[s][q] >= term[s][n]
    BY <1>1, <1>2 DEF AcksHold
  <2>2. ASSUME NEW i \in 1..matchIndex'[s][n][q], Own(s, n, i)'
        PROVE  Holds(s, q, i, log[s][n][i])' \/ Blocked(s, n, i)'
    <3>1. i \in 1..Len(log[s][n]) /\ i \in Nat
      BY <1>0, <1>2, <2>1
    <3>2. log'[s][n][i] = log[s][n][i]
      BY <1>1, <3>1, LeaderStays
    <3>3. Own(s, n, i)
      BY <1>1, <2>2, <3>1, <3>2 DEF Own
    <3>4. Holds(s, q, i, log[s][n][i]) \/ Blocked(s, n, i)
      BY <1>1, <1>2, <3>3 DEF AcksHold
    <3>5. Blocked(s, n, i) => Blocked(s, n, i)'
      BY <1>1, <3>1, BlockedStays
    <3>6. ASSUME NEW k \in Server, log'[s][q] = log[s][k], Holds(s, k, i, log[s][n][i])
          PROVE  Holds(s, q, i, log[s][n][i])'
      BY <3>2, <3>6 DEF Holds
    <3>7. CASE Holds(s, q, i, log[s][n][i])
      <4>1. CASE log'[s][q] = log[s][q]
        BY <3>6, <3>7, <4>1
      <4>2. ASSUME NEW k \in Server, leads[s][k], log'[s][q] = log[s][k], term[s][q] <= term[s][k]
            PROVE  Holds(s, q, i, log[s][n][i])' \/ Blocked(s, n, i)'
        <5>1. term[s][k] \in Nat /\ term[s][k] >= term[s][n]
          BY <1>0, <2>1, <4>2, LogTypes
        <5>2. CASE term[s][k] = term[s][n]
          <6>1. k = n
            BY <1>1, <4>2, <5>2 DEF OneLeader
          <6>. QED BY <3>1, <3>6, <4>2, <6>1 DEF Holds
        <5>3. CASE term[s][k] > term[s][n]
          <6>1. Later(s, k, term[s][n])
            BY <1>0, <4>2, <5>3, LeaderLater
          <6>2. Holds(s, k, i, log[s][n][i]) \/ Blocked(s, n, i)
            BY <3>1, <3>3, <6>1 DEF LaterHold
          <6>. QED BY <3>5, <3>6, <4>2, <6>2
        <5>. QED BY <1>0, <5>1, <5>2, <5>3
      <4>3. ASSUME NEW e \in Entry, Grows(s, q, e)
            PROVE  Holds(s, q, i, log[s][n][i])'
        BY <3>2, <3>7, <4>3, Grown, LogTypes DEF Holds
      <4>. QED BY <4>1, <4>2, <4>3, LogSources DEF LogFrom
    <3>. QED BY <3>4, <3>5, <3>7
  <2>. QED BY <1>0, <1>1, <1>2, <2>1, <2>2, LeaderStays, SMTT(30)
<1>3. CASE /\ matchIndex'[s][n][q] = Len(log[s][n]) /\ term[s][q] <= term[s][n]
           /\ log'[s][q] = log[s][n] /\ term'[s][q] = term[s][n]
  <2>1. Len(log'[s][n]) >= Len(log[s][n]) /\ \A i \in 1..Len(log[s][n]) : log'[s][n][i] = log[s][n][i]
    BY <1>1, LeaderStays
  <2>. QED BY <1>0, <1>1, <1>3, <2>1 DEF Holds
<1>. QED BY <1>1, <1>2, <1>3, LeaderStays

\* An entry that no follower is known to hold is blocked as soon as a later term
\* has entries.
LEMMA UnknownBlocked ==
  ASSUME GroupTypes', NEW s \in Shard, TermsBacked(s)', NEW n \in Server, NEW q \in Server,
         NEW i \in Nat, \A r \in Server : matchIndex'[s][n][r] < i, Later(s, q, term[s][n])'
  PROVE  Blocked(s, n, i)'
<1>1. PICK j \in 1..Len(log'[s][q]) : log'[s][q][j].term > term'[s][n]
  BY DEF Later
<1>2. PICK Q \in SUBSET Server : IsMajority(Q)' /\ \A r \in Q : term'[s][r] >= log'[s][q][j].term
  BY DEF TermsBacked, Backed
<1>3. ASSUME NEW r \in Q PROVE term'[s][r] > term'[s][n]
  BY <1>1, <1>2, LogTypesNext
<1>. QED BY <1>2, <1>3 DEF Blocked

\* Whoever wins an election has a log that is no older than those of a majority, so
\* it holds, or makes impossible, what leaders before it may count as replicated.
LEMMA LaterHoldStep ==
  ASSUME GroupTypes, GroupTypes', NEW s \in Shard, GroupStep(s), TermsAscend(s), Coherent(s),
         LeaderOwns(s), AcksHold(s), LaterHold(s), TermsBacked(s)'
  PROVE  LaterHold(s)'
<1>. SUFFICES ASSUME NEW n \in Server, NEW q \in Server, NEW i \in 1..Len(log'[s][n]),
                     Own(s, n, i)', Later(s, q, term[s][n])'
              PROVE  Holds(s, q, i, log[s][n][i])' \/ Blocked(s, n, i)'
  BY DEF LaterHold
<1>0. /\ i \in Nat /\ i > 0 /\ Len(log[s][n]) \in Nat /\ term[s][n] \in Nat /\ Len(log[s][q]) \in Nat
      /\ leads'[s][n]
  BY LogTypes DEF Own
<1>1. ASSUME NEW Q \in SUBSET Server, NEW t \in Nat, Elects(s, n, Q, t)
      PROVE  Blocked(s, n, i)'
  <2>1. \A r \in Server : matchIndex'[s][n][r] = 0
    BY <1>1 DEF Elects
  <2>. QED BY <1>0, <2>1, UnknownBlocked
<1>2. CASE leads[s][n] /\ term'[s][n] = term[s][n]
  <2>1. CASE i \notin 1..Len(log[s][n])
    <3>1. ASSUME NEW r \in Server PROVE matchIndex'[s][n][r] < i
      <4>1. matchIndex[s][n][r] \in Nat /\ i > Len(log[s][n])
        BY <1>0, <2>1, LogTypes
      <4>2. matchIndex[s][n][r] <= Len(log[s][n])
        BY <1>0, <1>2, <4>1 DEF AcksHold
      <4>. QED BY <1>0, <1>2, <4>1, <4>2, LeaderStays
    <3>. QED BY <1>0, <3>1, UnknownBlocked
  <2>2. CASE i \in 1..Len(log[s][n])
    <3>. DEFINE e == log[s][n][i]
    <3>1. log'[s][n][i] = e
      BY <1>0, <1>2, <2>2, LeaderStays
    <3>2. Own(s, n, i) /\ e.term = term[s][n]
      BY <1>2, <2>2, <3>1 DEF Own
    <3>3. Blocked(s, n, i) => Blocked(s, n, i)'
      BY <1>0, <1>2, BlockedStays
    <3>4. ASSUME NEW k \in Server, Later(s, k, term[s][n])
          PROVE  Holds(s, k, i, e) \/ Blocked(s, n, i)
      BY <2>2, <3>2, <3>4 DEF LaterHold
    <3>5. ASSUME NEW k \in Server, log'[s][q] = log[s][k]
          PROVE  Holds(s, q, i, log[s][n][i])' \/ Blocked(s, n, i)'
      <4>1. Later(s, k, term[s][n])
        BY <1>2, <3>5 DEF Later
      <4>. QED BY <3>1, <3>3, <3>4, <3>5, <4>1 DEF Holds
    <3>6. ASSUME NEW d \in Entry, Grows(s, q, d)
          PROVE  Holds(s, q, i, log[s][n][i])' \/ Blocked(s, n, i)'
      <4>0. leads'[s][q] /\ d.term = term'[s][q]
        BY <3>6 DEF Grows
      <4>1. Holds(s, q, i, e) => Holds(s, q, i, log[s][n][i])'
        BY <1>0, <3>1, <3>6, Grown DEF Holds
      <4>2. CASE Later(s, q, term[s][n])
        BY <3>3, <3>4, <4>1, <4>2
      <4>3. CASE ~Later(s, q, term[s][n])
        <5>1. d.term > term[s][n]
          <6>1. PICK j \in 1..Len(log'[s][q]) : log'[s][q][j].term > term[s][n]
            BY <1>2 DEF Later
          <6>2. j \notin 1..Len(log[s][q])
            BY <3>6, <4>3, <6>1, Grown DEF Later
          <6>3. j = Len(log[s][q]) + 1
            BY <1>0, <3>6, <6>1, <6>2, Grown
          <6>. QED BY <3>6, <6>1, <6>3, Grown
        <5>2. ~(leads[s][q] /\ term'[s][q] = term[s][q])
          BY <1>0, <4>0, <4>3, <5>1, LeaderLater
        <5>3. PICK Q \in SUBSET Server, t \in Nat : Elects(s, q, Q, t)
          BY <4>0, <5>2, LeaderSources
        <5>4. CASE \A r \in Q : matchIndex[s][n][r] < i
          <6>1. n \notin Q
            BY <1>0, <1>2, <5>3 DEF Elects
          <6>2. IsMajority(Q) /\ t > term[s][n]
            BY <4>0, <5>1, <5>3 DEF Elects
          <6>3. \A r \in Q : term'[s][r] = t /\ matchIndex'[s][n][r] = matchIndex[s][n][r]
            BY <5>3, <6>1 DEF Elects
          <6>. QED BY <1>2, <5>4, <6>2, <6>3 DEF Blocked, IsMajority
        <5>5. ASSUME NEW r \in Q, ~(matchIndex[s][n][r] < i)
              PROVE  Holds(s, q, i, log[s][n][i])' \/ Blocked(s, n, i)'
          <6>1. matchIndex[s][n][r] \in Nat /\ matchIndex[s][n][r] > 0 /\ i \in 1..matchIndex[s][n][r]
            BY <1>0, <5>5, LogTypes
          <6>2. Holds(s, r, i, e) \/ Blocked(s, n, i)
            BY <1>2, <3>2, <6>1 DEF AcksHold
          <6>3. UpToDate(log[s][q], log[s][r])
            BY <5>3 DEF Elects
          <6>4. Holds(s, r, i, e) => Holds(s, q, i, e)
            BY <1>0, <3>2, <4>3, <6>3, VoterGives
          <6>. QED BY <3>3, <4>1, <6>2, <6>4
        <5>. QED BY <5>4, <5>5
      <4>. QED BY <4>2, <4>3
    <3>. QED BY <3>5, <3>6, LogSources DEF LogFrom
  <2>. QED BY <2>1, <2>2
<1>. QED BY <1>0, <1>1, <1>2, LeaderSources

\* A leader of the term of a safe entry, or of a later one, holds it.
LEMMA LeaderHoldsSafe ==
  ASSUME GroupTypes, NEW s \in Shard, LeaderOwns(s), Coherent(s),
         NEW i \in Nat, NEW e \in Entry, Safe(s, i, e),
         NEW n \in Server, leads[s][n], term[s][n] >= e.term
  PROVE  Holds(s, n, i, e)
<1>1. e.term \in Nat /\ term[s][n] \in Nat
  BY LogTypes DEF Entry
<1>2. CASE term[s][n] > e.term
  BY <1>1, <1>2, LeaderLater DEF Safe
<1>3. CASE term[s][n] = e.term
  <2>1. PICK Q \in SUBSET Server : IsMajority(Q) /\ \A q \in Q : Holds(s, q, i, e)
    BY DEF Safe
  <2>2. PICK r \in Server : r \in Q
    BY <2>1, MajoritiesMeet
  <2>3. i \in 1..Len(log[s][r]) /\ log[s][r][i] = e
    BY <2>1, <2>2 DEF Holds
  <2>4. /\ i <= Len(log[s][n]) /\ Len(log[s][n]) \in 1..Len(log[s][n])
        /\ log[s][n][Len(log[s][n])].term = e.term
    BY <1>3, <2>3, LogTypes DEF LeaderOwns
  <2>5. log[s][r][i] = log[s][n][i]
    BY <2>3, <2>4 DEF Coherent
  <2>. QED BY <2>3, <2>4, <2>5 DEF Holds
<1>. QED BY <1>1, <1>2, <1>3

\* What is safe stays safe.
LEMMA SafeStays ==
  ASSUME GroupTypes, GroupTypes', NEW s \in Shard, GroupStep(s),
         TermsAscend(s), LeaderOwns(s), Coherent(s),
         NEW i \in Nat, NEW e \in Entry, Safe(s, i, e)
  PROVE  Safe(s, i, e)'
<1>0. e.term \in Nat
  BY DEF Entry
<1>1. PICK Q \in SUBSET Server :
        IsMajority(Q) /\ \A q \in Q : term[s][q] >= e.term /\ Holds(s, q, i, e)
  BY DEF Safe
<1>2. ASSUME NEW q \in Server, NEW k \in Server, Holds(s, k, i, e), log'[s][q] = log[s][k]
      PROVE  Holds(s, q, i, e)'
  BY <1>2 DEF Holds
<1>3. ASSUME NEW q \in Server, Holds(s, q, i, e), NEW d \in Entry, Grows(s, q, d)
      PROVE  Holds(s, q, i, e)'
  BY <1>3, Grown, LogTypes DEF Holds
<1>4. ASSUME NEW q \in Q PROVE term'[s][q] >= e.term /\ Holds(s, q, i, e)'
  <2>1. q \in Server /\ Holds(s, q, i, e)
    BY <1>1
  <2>2. term[s][q] \in Nat /\ term'[s][q] \in Nat /\ term[s][q] >= e.term /\ term[s][q] <= term'[s][q]
    BY <1>1, <2>1, LogTypes, LogTypesNext, LogSources
  <2>3. ASSUME NEW k \in Server, leads[s][k], log'[s][q] = log[s][k], term[s][q] <= term[s][k]
        PROVE  Holds(s, q, i, e)'
    <3>1. term[s][k] >= e.term
      BY <1>0, <2>2, <2>3, LogTypes
    <3>2. Holds(s, k, i, e)
      BY <2>3, <3>1, LeaderHoldsSafe
    <3>. QED BY <1>2, <2>1, <2>3, <3>2
  <2>4. Holds(s, q, i, e)'
    BY <1>2, <1>3, <2>1, <2>3, LogSources DEF LogFrom
  <2>. QED BY <1>0, <2>2, <2>4
<1>5. ASSUME NEW q \in Server, Later(s, q, e.term)' PROVE Holds(s, q, i, e)'
  <2>1. ASSUME NEW k \in Server, log'[s][q] = log[s][k] PROVE Holds(s, q, i, e)'
    <3>1. Later(s, k, e.term)
      BY <1>5, <2>1 DEF Later
    <3>. QED BY <1>2, <2>1, <3>1 DEF Safe
  <2>2. ASSUME NEW d \in Entry, Grows(s, q, d) PROVE Holds(s, q, i, e)'
    <3>1. leads'[s][q] /\ d.term = term'[s][q]
      BY <2>2 DEF Grows
    <3>2. CASE Later(s, q, e.term)
      BY <1>3, <2>2, <3>2 DEF Safe
    <3>3. CASE ~Later(s, q, e.term)
      <4>1. d.term > e.term
        <5>1. PICK j \in 1..Len(log'[s][q]) : log'[s][q][j].term > e.term
          BY <1>5 DEF Later
        <5>2. j \notin 1..Len(log[s][q])
          BY <2>2, <3>3, <5>1, Grown DEF Later
        <5>3. j = Len(log[s][q]) + 1
          BY <2>2, <5>1, <5>2, Grown, LogTypes
        <5>. QED BY <2>2, <5>1, <5>3, Grown
      <4>2. ~(leads[s][q] /\ term'[s][q] = term[s][q])
        BY <1>0, <3>1, <3>3, <4>1, LeaderLater
      <4>3. PICK P \in SUBSET Server, t \in Nat : Elects(s, q, P, t)
        BY <3>1, <4>2, LeaderSources
      <4>4. PICK r \in Server : r \in P /\ r \in Q
        BY <1>1, <4>3, MajoritiesMeet DEF Elects
      <4>5. Holds(s, q, i, e)
        BY <1>1, <3>3, <4>3, <4>4, VoterGives DEF Elects
      <4>. QED BY <1>3, <2>2, <4>5
    <3>. QED BY <3>2, <3>3
  <2>. QED BY <2>1, <2>2, LogSources DEF LogFrom
<1>. QED BY <1>1, <1>4, <1>5 DEF Safe, IsMajority

\* What a leader commits is safe: those that acknowledged it hold it, and no later
\* leader came by without.
LEMMA CommitSafe ==
  ASSUME GroupTypes, NEW s \in Shard, AcksHold(s), LaterHold(s),
         NEW n \in Server, NEW i \in 1..Len(log[s][n]), Commits(s, n, i)
  PROVE  Safe(s, i, log[s][n][i])
<1>. DEFINE Q == {n} \cup {q \in Server : matchIndex[s][n][q] >= i}
<1>1. IsMajority(Q) /\ Own(s, n, i) /\ leads[s][n] /\ log[s][n][i].term = term[s][n] /\ i \in Nat /\ i > 0
  BY DEF Commits, Own
<1>2. ~Blocked(s, n, i)
  <2>. SUFFICES ASSUME NEW P \in SUBSET Server, IsMajority(P),
                       \A q \in P : term[s][q] > term[s][n] /\ matchIndex[s][n][q] < i
                PROVE  FALSE
    BY DEF Blocked
  <2>1. PICK q \in Server : q \in P /\ q \in Q
    BY <1>1, MajoritiesMeet
  <2>. QED BY <2>1, LogTypes
<1>3. ASSUME NEW q \in Q PROVE term[s][q] >= term[s][n] /\ Holds(s, q, i, log[s][n][i])
  <2>1. CASE q = n
    BY <2>1, LogTypes DEF Holds
  <2>2. CASE q # n
    <3>1. /\ matchIndex[s][n][q] \in Nat /\ matchIndex[s][n][q] > 0 /\ i \in 1..matchIndex[s][n][q]
          /\ q \in Server
      BY <1>1, <2>2, LogTypes
    <3>. QED BY <1>1, <1>2, <3>1 DEF AcksHold
  <2>. QED BY <2>1, <2>2
<1>4. \A q \in Server : Later(s, q, log[s][n][i].term) => Holds(s, q, i, log[s][n][i])
  BY <1>1, <1>2 DEF LaterHold
<1>. QED BY <1>1, <1>3, <1>4 DEF Safe

\* What a server has applied it keeps at its place.
LEMMA AppliedStays ==
  ASSUME GroupTypes, NEW s \in Shard, GroupStep(s),
         TermsAscend(s), LeaderOwns(s), Coherent(s), AppliedSafe(s), NEW q \in Server
  PROVE  \A i \in 1..applied[s][q] : i \in 1..Len(log'[s][q]) /\ log'[s][q][i] = log[s][q][i]
<1>. SUFFICES ASSUME NEW i \in 1..applied[s][q]
              PROVE  i \in 1..Len(log'[s][q]) /\ log'[s][q][i] = log[s][q][i]
  OBVIOUS
<1>. DEFINE a == applied[s][q]
            e == log[s][q][a]
<1>1. /\ a \in Nat /\ a \in 1..Len(log[s][q]) /\ i \in 1..Len(log[s][q]) /\ Safe(s, a, e) /\ e \in Entry
      /\ e.term <= term[s][q] /\ e.term \in Nat /\ term[s][q] \in Nat /\ a \in 1..a
  <2>1. /\ a \in Nat /\ a > 0 /\ a <= Len(log[s][q]) /\ Len(log[s][q]) \in Nat /\ Safe(s, a, e)
    BY LogTypes DEF AppliedSafe
  <2>2. a \in 1..Len(log[s][q]) /\ i \in 1..Len(log[s][q]) /\ a \in 1..a
    BY <2>1
  <2>3. e \in Entry /\ e.term \in Nat /\ term[s][q] \in Nat
    BY <2>2, LogTypes
  <2>4. e.term <= term[s][q]
    BY <2>2 DEF TermsAscend
  <2>. QED BY <2>1, <2>2, <2>3, <2>4
<1>2. CASE log'[s][q] = log[s][q]
  BY <1>1, <1>2
<1>3. ASSUME NEW n \in Server, leads[s][n], log'[s][q] = log[s][n], term[s][q] <= term[s][n]
      PROVE  i \in 1..Len(log'[s][q]) /\ log'[s][q][i] = log[s][q][i]
  <2>1. term[s][n] >= e.term
    BY <1>1, <1>3, LogTypes
  <2>2. a \in 1..Len(log[s][n]) /\ log[s][n][a] = e
    BY <1>1, <1>3, <2>1, LeaderHoldsSafe DEF Holds
  <2>3. a <= a /\ log[s][q][a].term = log[s][n][a].term
    BY <1>1, <2>2
  <2>4. log[s][q][i] = log[s][n][i]
    BY <1>1, <2>2, <2>3 DEF Coherent
  <2>. QED BY <1>1, <1>3, <2>2, <2>4, LogTypes
<1>4. ASSUME NEW d \in Entry, Grows(s, q, d)
      PROVE  i \in 1..Len(log'[s][q]) /\ log'[s][q][i] = log[s][q][i]
  BY <1>1, <1>4, Grown, LogTypes
<1>. QED BY <1>2, <1>3, <1>4, LogSources DEF LogFrom

\* A leader applies what it counts on a majority, a follower what a leader applied.
LEMMA AppliedSafeStep ==
  ASSUME GroupTypes, GroupTypes', NEW s \in Shard, GroupStep(s), TermsAscend(s), LeaderOwns(s),
         Coherent(s), AcksHold(s), LaterHold(s), AppliedSafe(s)
  PROVE  AppliedSafe(s)'
<1>. SUFFICES ASSUME NEW q \in Server, applied'[s][q] > 0
              PROVE  /\ applied'[s][q] <= Len(log'[s][q])
                     /\ Safe(s, applied[s][q], log[s][q][applied[s][q]])'
  BY DEF AppliedSafe
<1>1. CASE applied'[s][q] = applied[s][q]
  <2>1. /\ applied[s][q] \in 1..applied[s][q] /\ log[s][q][applied[s][q]] \in Entry
        /\ Safe(s, applied[s][q], log[s][q][applied[s][q]])
    BY <1>1, LogTypes DEF AppliedSafe
  <2>2. /\ applied[s][q] \in 1..Len(log'[s][q])
        /\ log'[s][q][applied[s][q]] = log[s][q][applied[s][q]]
    BY <2>1, AppliedStays
  <2>3. \E e \in Entry : e = log[s][q][applied[s][q]] /\ Safe(s, applied[s][q], e)
    BY <2>1
  <2>4. \E i \in Nat : i = applied[s][q]
    BY LogTypes
  <2>5. \A i \in Nat, e \in Entry : Safe(s, i, e) => Safe(s, i, e)'
    BY SafeStays
  <2>6. PICK i \in Nat, e \in Entry : i = applied[s][q] /\ e = log[s][q][i] /\ Safe(s, i, e)
    BY <2>3, <2>4
  <2>7. Safe(s, i, e)'
    BY <2>5, <2>6
  <2>8. applied'[s][q] = i /\ log'[s][q][applied'[s][q]] = e
    BY <1>1, <2>2, <2>6
  <2>. QED BY <1>1, <2>2, <2>7, <2>8, LogTypesNext
<1>2. ASSUME NEW n \in Server, Replicates(s, n, q), applied'[s][q] = applied[s][n]
      PROVE  /\ applied'[s][q] <= Len(log'[s][q])
             /\ Safe(s, applied[s][q], log[s][q][applied[s][q]])'
  <2>1. PICK i \in Nat, e \in Entry : i = applied[s][n] /\ e = log[s][n][i] /\ Safe(s, i, e)
    BY <1>2, LogTypes DEF AppliedSafe
  <2>2. Safe(s, i, e)'
    BY <2>1, SafeStays
  <2>3. applied'[s][q] = i /\ log'[s][q] = log[s][n] /\ i <= Len(log[s][n])
    BY <1>2, <2>1 DEF Replicates, AppliedSafe
  <2>. QED BY <2>1, <2>2, <2>3
<1>3. ASSUME NEW i \in 1..Len(log[s][q]), Commits(s, q, i), applied'[s][q] = i
      PROVE  /\ applied'[s][q] <= Len(log'[s][q])
             /\ Safe(s, applied[s][q], log[s][q][applied[s][q]])'
  <2>1. Safe(s, i, log[s][q][i])
    BY <1>3, CommitSafe
  <2>2. PICK e \in Entry : e = log[s][q][i]
    BY LogTypes
  <2>3. Safe(s, i, e)'
    BY <2>1, <2>2, SafeStays
  <2>4. log'[s][q] = log[s][q]
    BY <1>3 DEF Commits
  <2>. QED BY <1>3, <2>2, <2>3, <2>4
<1>4. \/ applied'[s][q] = applied[s][q]
      \/ \E n \in Server : Replicates(s, n, q) /\ applied'[s][q] = applied[s][n]
      \/ \E i \in 1..Len(log[s][q]) : Commits(s, q, i) /\ applied'[s][q] = i
  <2>1. ASSUME NEW n \in Server, NEW m \in Server, Replicates(s, n, m)
        PROVE  applied'[s][q] = applied[s][q] \/ (m = q /\ applied'[s][q] = applied[s][n])
    BY <2>1 DEF Replicates
  <2>2. ASSUME NEW n \in Server, NEW i \in 1..Len(log[s][n]), Commits(s, n, i)
        PROVE  applied'[s][q] = applied[s][q] \/ (n = q /\ applied'[s][q] = i)
    BY <2>2 DEF Commits
  <2>3. ASSUME NEW n \in Server, NEW Q \in SUBSET Server, NEW t \in Nat, Elects(s, n, Q, t)
        PROVE  applied'[s][q] = applied[s][q]
    BY <2>3 DEF Elects
  <2>. QED BY <2>1, <2>2, <2>3 DEF GroupStep, GroupStays, Appends
<1>. QED BY <1>1, <1>2, <1>3, <1>4

\* The groups keep all of it.
LEMMA GroupInvStep ==
  ASSUME GroupTypes, GroupTypes', NEW s \in Shard, GroupStep(s), GroupInv(s)
  PROVE  GroupInv(s)'
<1>1. TermsBacked(s)' /\ TermsAscend(s)' /\ OneLeader(s)'
  BY TermsBackedStep, TermsAscendStep, OneLeaderStep DEF GroupInv
<1>2. LeaderOwns(s)' /\ Coherent(s)'
  BY <1>1, LeaderOwnsStep, CoherentStep DEF GroupInv
<1>3. AcksHold(s)' /\ LaterHold(s)' /\ AppliedSafe(s)'
  BY <1>1, AcksHoldStep, LaterHoldStep, AppliedSafeStep DEF GroupInv
<1>. QED BY <1>1, <1>2, <1>3 DEF GroupInv

\* Nothing is elected, logged or applied at the start.
LEMMA GroupStart ==
  ASSUME Init
  PROVE  GroupTypes /\ \A s \in Shard : GroupInv(s)
<1>1. GroupTypes
  BY RegionsAssumption, EmptySeq DEF Init, GroupTypes
<1>2. \A s \in Shard, n \in Server :
        ~leads[s][n] /\ Len(log[s][n]) = 0 /\ applied[s][n] = 0
  BY EmptySeq DEF Init
<1>. QED BY <1>1, <1>2 DEF GroupInv, TermsBacked, TermsAscend, OneLeader, LeaderOwns, Coherent,
                           AcksHold, LaterHold, AppliedSafe, Own

-----------------------------------------------------------------------------
(* The types of what runs above the groups. *)

\* What applying entries leads to: the last snapshot among them, if there is one.
LEMMA ApplyingIs ==
  ASSUME NEW l \in Seq(Entry), NEW r, NEW i \in Nat, NEW j \in Nat
  PROVE  \/ /\ Applying(r, l, i, j) = r
            /\ \A k \in i + 1..j : l[k].agents = NoOp
         \/ \E k \in i + 1..j : /\ Applying(r, l, i, j) = l[k].agents /\ l[k].agents # NoOp
                                /\ \A x \in k + 1..j : l[x].agents = NoOp
<1>. DEFINE snapshots == {k \in i + 1..j : l[k].agents # NoOp}
            k == Max(snapshots)
<1>1. CASE snapshots = {}
  BY <1>1 DEF Applying
<1>2. CASE snapshots # {}
  <2>1. snapshots \subseteq 0..j
    OBVIOUS
  <2>2. k \in snapshots /\ \A y \in snapshots : k >= y
    <3>. HIDE DEF snapshots
    <3>. QED BY <1>2, <2>1, Maximum
  <2>3. Applying(r, l, i, j) = l[k].agents
    BY <1>2 DEF Applying
  <2>. HIDE DEF k
  <2>4. k \in i + 1..j /\ l[k].agents # NoOp
    BY <2>2
  <2>5. ASSUME NEW x \in k + 1..j PROVE l[x].agents = NoOp
    <3>1. x \in i + 1..j /\ ~(k >= x)
      BY <2>4
    <3>. QED BY <2>2, <3>1
  <2>. QED BY <2>3, <2>4, <2>5
<1>. QED BY <1>1, <1>2

\* Applied entries leave a registry.
LEMMA ApplyingType ==
  ASSUME NEW l \in Seq(Entry), NEW r \in Registry, NEW i \in Nat, NEW j \in Nat,
         j <= i \/ j <= Len(l)
  PROVE  Applying(r, l, i, j) \in Registry
<1>1. ASSUME NEW k \in i + 1..j, l[k].agents # NoOp PROVE l[k].agents \in Registry
  <2>1. k \in 1..Len(l)
    BY LenProperties
  <2>2. l[k] \in Entry
    BY <2>1, ElementOfSeq
  <2>. QED BY <1>1, <2>2 DEF Entry
<1>. QED BY <1>1, ApplyingIs

\* A running call has what its stage says.
LEMMA CallShapes ==
  ASSUME LoopTypes, NEW c \in adds
  PROVE  /\ c.shard \in Shard /\ c.at \in Server /\ c.agent \in Agent
         /\ c.by \in Server \cup {"main", "nobody"}
         /\ c.stage \in {"queued", "yes", "no"} => c \in Queued
         /\ c.stage = "waiting" => c \in Waiting /\ c.index \in Nat /\ c.term \in Nat
         /\ c.stage = "committing" =>
              c \in Committing /\ c.index \in Nat /\ c.term \in Nat /\ c.before \in Registry
         /\ c.stage \in {"queued", "waiting", "committing", "yes", "no"}
<1>1. c \in Queued \cup Waiting \cup Committing
  BY DEF LoopTypes
<1>. QED BY <1>1 DEF Queued, Waiting, Committing

\* A tick has what the place it is at says.
LEMMA TickShapes ==
  ASSUME LoopTypes, NEW n \in Server
  PROVE  /\ tick[n].at \in {"idle", "moving", "sending", "removing"}
         /\ tick[n].at = "idle" => tick[n] = Idle
         /\ tick[n].at = "moving" => tick[n] \in Moving
         /\ tick[n].at = "sending" => tick[n] \in Sending
         /\ tick[n].at = "removing" /\ tick[n].holds = Nowhere => tick[n] \in Seeking \cup Removing
         /\ tick[n].at = "removing" /\ tick[n].holds # Nowhere =>
              tick[n] \in Removing /\ tick[n].holds \in Shard
<1>1. tick[n] \in TickState
  BY DEF LoopTypes
<1>. QED BY <1>1 DEF TickState, Idle, Moving, Sending, Seeking, Removing

\* A tick that goes on is one of the four kinds of ticks.
LEMMA OnwardType ==
  ASSUME NEW t \in Moving \cup Sending \cup Seeking \cup Removing
  PROVE  Onward(t) \in TickState
<1>. DEFINE sending(x) == [at |-> "sending", out |-> x.out, call |-> Nothing, done |-> {}]
            removing(u) == [at |-> "removing", todo |-> {d.from : d \in u.done}, done |-> u.done, holds |-> Nowhere]
            sent(u) == IF u.out = {} /\ u.call = Nothing
                       THEN IF u.done = {} THEN Idle ELSE removing(u)
                       ELSE u
<1>1. ASSUME NEW u \in Sending PROVE sent(u) \in TickState
  <2>1. removing(u) \in Seeking
    BY DEF Sending, Seeking, Departure
  <2>. QED BY <2>1 DEF TickState
<1>2. CASE t \in Moving
  <2>1. sending(t) \in Sending
    BY <1>2 DEF Moving, Sending
  <2>2. Onward(t) = IF t.todo = {} THEN sent(sending(t)) ELSE t
    BY <1>2 DEF Onward, Moving
  <2>. HIDE DEF sending, sent
  <2>. QED BY <1>1, <1>2, <2>1, <2>2 DEF TickState
<1>3. CASE t \in Sending
  <2>1. Onward(t) = sent(t)
    BY <1>3 DEF Onward, Sending
  <2>. HIDE DEF sent
  <2>. QED BY <1>1, <1>3, <2>1
<1>4. CASE t \in Seeking \cup Removing
  <2>1. Onward(t) = IF t.todo = {} THEN Idle ELSE t
    BY <1>4 DEF Onward, Seeking, Removing
  <2>. QED BY <1>4, <2>1 DEF TickState
<1>. QED BY <1>2, <1>3, <1>4

\* A call that returns leaves calls.
LEMMA ReturnType ==
  ASSUME LoopTypes, NEW c \in adds, NEW v \in {"yes", "no"}, Return(c, v)
  PROVE  adds' \subseteq Queued \cup Waiting \cup Committing /\ placed' \subseteq Agent
<1>1. /\ c.shard \in Shard /\ c.at \in Server /\ c.agent \in Agent
      /\ c.by \in Server \cup {"main", "nobody"}
  BY CallShapes
<1>2. [Asked(c.shard, c.at, c.agent, c.by) EXCEPT !.stage = v] \in Queued
  BY <1>1 DEF Asked, Queued
<1>. QED BY <1>1, <1>2 DEF Return, LoopTypes

\* A call that a tick waits for is the one of its hand-off, and the only one.
Callers ==
    /\ \A c \in adds : c.by \in Server =>
         /\ tick[c.by].at = "sending" /\ tick[c.by].call # Nothing
         /\ c.shard = tick[c.by].call.to /\ c.agent = tick[c.by].call.agent
    /\ \A c, d \in adds : c.by \in Server /\ c.by = d.by => c = d

\* What the groups do keeps the registries of their type.
LEMMA RaftLoopTypes ==
  ASSUME Types, NEW s \in Shard, NEW n \in Server, AppliedSafe(s), Raft(s, n)
  PROVE  LoopTypes'
<1>0. \A q \in Server : /\ log[s][q] \in Seq(Entry) /\ agents[s][q] \in Registry
                        /\ applied[s][q] \in Nat /\ applied[s][q] <= Len(log[s][q])
  BY LogTypes DEF Types, LoopTypes, AppliedSafe
<1>1. CASE Elect(s, n)
  BY <1>1 DEF Elect, Types, LoopTypes
<1>2. CASE Commit(s, n)
  <2>1. PICK i \in 1..Len(log[s][n]) :
          agents' = [agents EXCEPT ![s][n] = Applying(@, log[s][n], applied[s][n], i)]
    BY <1>2, CommitCommits DEF Types
  <2>2. Applying(agents[s][n], log[s][n], applied[s][n], i) \in Registry
    BY <1>0, ApplyingType
  <2>3. agents' \in [Shard -> [Server -> Registry]]
    BY <2>1, <2>2 DEF Types, LoopTypes
  <2>. QED BY <1>2, <2>3 DEF Commit, Types, LoopTypes
<1>3. ASSUME NEW m \in Server, Replicate(s, n, m) PROVE LoopTypes'
  <2>. DEFINE upTo == Max({applied[s][m], applied[s][n]})
              r == Applying(agents[s][m], log[s][n], applied[s][m], upTo)
  <2>1. upTo \in Nat /\ (upTo <= applied[s][m] \/ upTo <= Len(log[s][n]))
    BY <1>0, MaxOfTwo
  <2>2. r \in Registry
    <3>. HIDE DEF upTo
    <3>. QED BY <1>0, <2>1, ApplyingType
  <2>3. agents' = [agents EXCEPT ![s][m] = r]
    BY <1>3 DEF Replicate
  <2>. HIDE DEF r
  <2>4. agents' \in [Shard -> [Server -> Registry]]
    BY <2>2, <2>3 DEF Types, LoopTypes
  <2>. QED BY <1>3, <2>4 DEF Replicate, Types, LoopTypes
<1>. QED BY <1>1, <1>2, <1>3 DEF Raft

\* So do the calls of add_agent.
LEMMA AddLoopTypes ==
  ASSUME Types, NEW c \in adds, Add(c)
  PROVE  LoopTypes'
<1>0. LoopTypes /\ GroupTypes
  BY DEF Types
<1>. DEFINE s == c.shard
            n == c.at
<1>1. s \in Shard /\ n \in Server /\ c.agent \in Agent /\ c.by \in Server \cup {"main", "nobody"}
  BY <1>0, CallShapes
<1>2. CASE AddBegin(c)
  <2>1. CASE Return(c, "no")
    BY <1>0, <1>2, <2>1, ReturnType DEF AddBegin, LoopTypes
  <2>2. CASE ~Return(c, "no")
    <3>. DEFINE d == [shard |-> s, at |-> n, agent |-> c.agent, by |-> c.by, stage |-> "waiting",
                      index |-> Len(log[s][n]), term |-> term[s][n]]
    <3>1. d \in Waiting
      BY <1>0, <1>1, LogTypes DEF Waiting
    <3>2. adds' = (adds \ {c}) \cup {d} /\ UNCHANGED <<agents, tick, placed, moves>>
      BY <1>2, <2>2 DEF AddBegin
    <3>. HIDE DEF d
    <3>. QED BY <1>0, <3>1, <3>2 DEF LoopTypes
  <2>. QED BY <2>1, <2>2
<1>3. CASE AddPropose(c)
  <2>. DEFINE after == [agents[s][n] EXCEPT ![c.agent] = s]
              d == [shard |-> s, at |-> n, agent |-> c.agent, by |-> c.by, stage |-> "committing",
                    index |-> Len(log[s][n]) + 1, term |-> c.term, before |-> agents[s][n]]
  <2>1. agents[s][n] \in Registry /\ after \in Registry
    BY <1>0, <1>1 DEF LoopTypes, Registry
  <2>2. d \in Committing
    <3>1. c.term \in Nat
      BY <1>0, <1>3, CallShapes DEF AddPropose
    <3>2. Len(log[s][n]) + 1 \in Nat
      BY <1>0, <1>1, LogTypes
    <3>. QED BY <1>1, <2>1, <3>1, <3>2 DEF Committing
  <2>3. /\ agents' = [agents EXCEPT ![s][n] = after] /\ adds' = (adds \ {c}) \cup {d}
        /\ UNCHANGED <<tick, placed, moves>>
    BY <1>3 DEF AddPropose
  <2>. HIDE DEF after, d
  <2>4. agents' \in [Shard -> [Server -> Registry]]
    BY <1>0, <1>1, <2>1, <2>3 DEF LoopTypes
  <2>. QED BY <1>0, <2>2, <2>3, <2>4 DEF LoopTypes
<1>4. CASE AddDone(c)
  BY <1>0, <1>4, ReturnType DEF AddDone, LoopTypes
<1>5. CASE AddFails(c)
  <2>1. adds' \subseteq Queued \cup Waiting \cup Committing /\ placed' \subseteq Agent
    BY <1>0, <1>5, ReturnType DEF AddFails
  <2>2. agents' \in [Shard -> [Server -> Registry]]
    <3>1. c.stage = "committing" => c.before \in Registry
      BY <1>0, CallShapes
    <3>. QED BY <1>0, <1>1, <1>5, <3>1 DEF AddFails, LoopTypes
  <2>. QED BY <1>0, <1>5, <2>1, <2>2 DEF AddFails, LoopTypes
<1>6. CASE AddCancelled(c)
  BY <1>0, <1>6 DEF AddCancelled, LoopTypes
<1>. QED BY <1>2, <1>3, <1>4, <1>5, <1>6 DEF Add

\* A move leaves every agent of a registry in it.
LEMMA MovedType ==
  ASSUME NEW r \in Registry, NEW x \in Moved(r)
  PROVE  /\ x \in Registry /\ Crossings(r, x) \in Nat
         /\ \A a \in Agent : x[a] = Nowhere <=> r[a] = Nowhere
<1>1. IsFiniteSet({a \in Agent : x[a] # r[a]})
  BY RegionsAssumption, FS_Subset
<1>. QED BY <1>1, FS_CardinalityType DEF Moved, Registry, Crossings

\* And so does a region server's tick.
LEMMA TickLoopTypes ==
  ASSUME Types, Callers, NEW n \in Server, Tick(n)
  PROVE  LoopTypes'
<1>0. LoopTypes /\ GroupTypes
  BY DEF Types
<1>. DEFINE t == tick[n]
            Ticks(u) == u \in TickState /\ tick' = [tick EXCEPT ![n] = u]
<1>1. ASSUME NEW u, Ticks(u), UNCHANGED <<agents, adds, placed, moves>> PROVE LoopTypes'
  BY <1>0, <1>1 DEF LoopTypes
<1>2. CASE TickBegin(n)
  <2>1. [at |-> "moving", todo |-> Shard, queued |-> {}, out |-> {}] \in TickState
    BY DEF TickState, Moving
  <2>. QED BY <1>0, <1>2, <2>1 DEF TickBegin, LoopTypes
<1>3. ASSUME NEW s \in Shard, TickLooks(n, s) PROVE LoopTypes'
  <2>1. t \in Moving
    BY <1>0, <1>3, TickShapes DEF TickLooks
  <2>2. [t EXCEPT !.todo = @ \ {s}] \in Moving /\ [t EXCEPT !.queued = {s}] \in Moving
    BY <2>1 DEF Moving
  <2>3. Onward([t EXCEPT !.todo = @ \ {s}]) \in TickState /\ [t EXCEPT !.queued = {s}] \in TickState
    BY <2>2, OnwardType DEF TickState
  <2>4. CASE tick' = [tick EXCEPT ![n] = Onward([t EXCEPT !.todo = @ \ {s}])]
    BY <1>0, <1>3, <2>3, <2>4 DEF TickLooks, LoopTypes
  <2>5. CASE tick' = [tick EXCEPT ![n].queued = {s}]
    <3>1. tick' = [tick EXCEPT ![n] = [t EXCEPT !.queued = {s}]]
      BY <2>5, SMTT(30)
    <3>. QED BY <1>0, <1>3, <2>3, <3>1 DEF TickLooks, LoopTypes
  <2>. QED BY <1>3, <2>4, <2>5 DEF TickLooks
<1>4. ASSUME NEW s \in Shard, TickMoves(n, s) PROVE LoopTypes'
  <2>1. t \in Moving
    BY <1>0, <1>4, TickShapes DEF TickMoves
  <2>2. ASSUME NEW o \in SUBSET Departure
        PROVE  Onward([t EXCEPT !.todo = @ \ {s}, !.queued = {}, !.out = @ \cup o]) \in TickState
    <3>1. [t EXCEPT !.todo = @ \ {s}, !.queued = {}, !.out = @ \cup o] \in Moving
      BY <2>1 DEF Moving
    <3>. QED BY <3>1, OnwardType
  <2>3. Onward([t EXCEPT !.todo = @ \ {s}, !.queued = {}]) \in TickState
    <3>1. [t EXCEPT !.todo = @ \ {s}, !.queued = {}] \in Moving
      BY <2>1 DEF Moving
    <3>. QED BY <3>1, OnwardType
  <2>4. CASE ~CaughtUp(s, n)
    BY <1>0, <1>4, <2>3, <2>4 DEF TickMoves, LoopTypes
  <2>5. ASSUME NEW r \in Moved(agents[s][n]),
               moves + Crossings(agents[s][n], r) <= MaxMoves,
               moves' = moves + Crossings(agents[s][n], r),
               agents' = [agents EXCEPT ![s][n] = r],
               tick' = [tick EXCEPT ![n] =
                 Onward([t EXCEPT !.todo = @ \ {s}, !.queued = {}, !.out = @ \cup
                   {[from |-> s, agent |-> a, to |-> r[a]] : a \in {b \in Agent : r[b] \notin {s, Nowhere}}}])],
               UNCHANGED <<adds, placed>>
        PROVE  LoopTypes'
    <3>. DEFINE o == {[from |-> s, agent |-> a, to |-> r[a]] : a \in {b \in Agent : r[b] \notin {s, Nowhere}}}
    <3>1. agents[s][n] \in Registry
      BY <1>0 DEF LoopTypes
    <3>2. r \in Registry /\ Crossings(agents[s][n], r) \in Nat
      BY <2>5, <3>1, MovedType
    <3>3. o \in SUBSET Departure
      BY <3>2 DEF Departure, Registry
    <3>. HIDE DEF o
    <3>4. tick' \in [Server -> TickState]
      BY <1>0, <2>2, <2>5, <3>3 DEF LoopTypes, o
    <3>5. agents' \in [Shard -> [Server -> Registry]]
      BY <1>0, <2>5, <3>2 DEF LoopTypes
    <3>6. moves' \in 0..MaxMoves
      BY <1>0, <2>5, <3>2, RegionsAssumption DEF LoopTypes
    <3>. QED BY <1>0, <2>5, <3>4, <3>5, <3>6 DEF LoopTypes
  <2>6. CASE CaughtUp(s, n)
    <3>1. PICK r \in Moved(agents[s][n]) :
               /\ moves + Crossings(agents[s][n], r) <= MaxMoves
               /\ moves' = moves + Crossings(agents[s][n], r)
               /\ agents' = [agents EXCEPT ![s][n] = r]
               /\ tick' = [tick EXCEPT ![n] =
                    Onward([t EXCEPT !.todo = @ \ {s}, !.queued = {}, !.out = @ \cup
                      {[from |-> s, agent |-> a, to |-> r[a]] : a \in {b \in Agent : r[b] \notin {s, Nowhere}}}])]
      BY <1>4, <2>6, Zenon DEF TickMoves
    <3>2. UNCHANGED <<adds, placed>>
      BY <1>4, Zenon DEF TickMoves
    <3>. HIDE DEF t
    <3>. QED BY <2>5, <3>1, <3>2, Zenon
  <2>. QED BY <2>4, <2>6
<1>5. ASSUME t.at = "sending", NEW d \in t.out, NEW l \in Server, HandOff(n, d, l) PROVE LoopTypes'
  <2>1. t \in Sending /\ d \in Departure
    BY <1>0, <1>5, TickShapes DEF Sending
  <2>2. [t EXCEPT !.out = @ \ {d}, !.call = d] \in Sending
    BY <2>1 DEF Sending
  <2>3. tick' = [tick EXCEPT ![n] = [t EXCEPT !.out = @ \ {d}, !.call = d]]
    BY <1>0, <1>5 DEF HandOff, LoopTypes
  <2>4. Asked(d.to, l, d.agent, n) \in Queued
    BY <2>1 DEF Asked, Queued, Departure
  <2>. QED BY <1>0, <1>5, <2>2, <2>3, <2>4 DEF HandOff, LoopTypes, TickState
<1>6. ASSUME t.at = "sending", NEW d \in t.out, HandOffDeferred(n, d) PROVE LoopTypes'
  <2>1. [t EXCEPT !.out = @ \ {d}] \in Sending
    BY <1>0, <1>6, TickShapes DEF Sending
  <2>2. Onward([t EXCEPT !.out = @ \ {d}]) \in TickState
    BY <2>1, OnwardType
  <2>. QED BY <1>0, <1>6, <2>2 DEF HandOffDeferred, LoopTypes
<1>7. ASSUME NEW c \in adds, HandOffAnswered(n, c) PROVE LoopTypes'
  <2>1. t \in Sending /\ t.call \in Departure
    <3>1. t \in Sending /\ t.call # Nothing
      BY <1>0, <1>7, TickShapes DEF HandOffAnswered, Callers
    <3>. QED BY <3>1 DEF Sending
  <2>2. Accepted(t, c.stage) \in SUBSET Departure
    BY <2>1 DEF Accepted
  <2>3. [t EXCEPT !.call = Nothing, !.done = @ \cup Accepted(t, c.stage)] \in Sending
    BY <2>1, <2>2 DEF Sending
  <2>4. Onward([t EXCEPT !.call = Nothing, !.done = @ \cup Accepted(t, c.stage)]) \in TickState
    BY <2>3, OnwardType
  <2>. QED BY <1>0, <1>7, <2>4 DEF HandOffAnswered, LoopTypes
<1>8. CASE HandOffGivenUp(n)
  <2>1. [t EXCEPT !.call = Nothing] \in Sending
    BY <1>0, <1>8, TickShapes DEF HandOffGivenUp, Sending
  <2>2. Onward([t EXCEPT !.call = Nothing]) \in TickState
    BY <2>1, OnwardType
  <2>3. \A c \in Queued \cup Waiting \cup Committing :
          [c EXCEPT !.by = "nobody"] \in Queued \cup Waiting \cup Committing
    BY DEF Queued, Waiting, Committing
  <2>4. adds' \subseteq Queued \cup Waiting \cup Committing
    BY <1>0, <1>8, <2>3 DEF HandOffGivenUp, LoopTypes
  <2>. QED BY <1>0, <1>8, <2>2, <2>4 DEF HandOffGivenUp, LoopTypes
<1>9. ASSUME NEW s \in Shard, RemoveBegin(n, s) PROVE LoopTypes'
  <2>1. t \in Seeking \cup Removing
    BY <1>0, <1>9, TickShapes DEF RemoveBegin
  <2>2. [t EXCEPT !.todo = @ \ {s}] \in Seeking \cup Removing
    BY <2>1 DEF Seeking, Removing
  <2>3. Onward([t EXCEPT !.todo = @ \ {s}]) \in TickState
    BY <2>2, OnwardType
  <2>4. [at |-> "removing", todo |-> t.todo, done |-> t.done, holds |-> s,
         index |-> Len(log[s][n]), term |-> term[s][n]] \in Removing
    BY <1>0, <2>1, LogTypes DEF Seeking, Removing
  <2>. QED BY <1>0, <1>9, <2>3, <2>4 DEF RemoveBegin, LoopTypes, TickState
<1>10. ASSUME Remove(n) \/ RemoveFails(n)
       PROVE  /\ t \in Removing /\ t.holds \in Shard
              /\ Onward([t EXCEPT !.todo = @ \ {t.holds}, !.holds = Nowhere]) \in TickState
  <2>1. t \in Removing /\ t.holds \in Shard
    BY <1>0, <1>10, TickShapes DEF Remove, RemoveFails
  <2>2. [t EXCEPT !.todo = @ \ {t.holds}, !.holds = Nowhere] \in Removing
    BY <2>1 DEF Removing
  <2>. QED BY <2>1, <2>2, OnwardType
<1>11. CASE Remove(n)
  <2>. DEFINE s == t.holds
              r == [a \in Agent |-> IF \E d \in t.done : d.from = s /\ d.agent = a
                                    THEN Nowhere ELSE agents[s][n][a]]
  <2>1. s \in Shard
    BY <1>10, <1>11
  <2>2. r \in Registry
    BY <1>0, <2>1 DEF LoopTypes, Registry
  <2>3. agents' = [agents EXCEPT ![s][n] = r]
    BY <1>11 DEF Remove
  <2>. HIDE DEF r
  <2>4. agents' \in [Shard -> [Server -> Registry]]
    BY <1>0, <2>1, <2>2, <2>3 DEF LoopTypes
  <2>. QED BY <1>0, <1>10, <1>11, <2>4 DEF Remove, LoopTypes
<1>12. CASE RemoveFails(n)
  BY <1>0, <1>10, <1>12 DEF RemoveFails, LoopTypes
<1>. QED BY <1>2, <1>3, <1>4, <1>5, <1>6, <1>7, <1>8, <1>9, <1>11, <1>12 DEF Tick

\* The step leaves every tick but that of n alone.
OnlyTick(n) == \A m \in Server : m # n => tick'[m] = tick[m]

\* An EXCEPT on tick is a change of one tick.
LEMMA TickChanges ==
  ASSUME LoopTypes, NEW n \in Server, NEW u, tick' = [tick EXCEPT ![n] = u]
  PROVE  OnlyTick(n) /\ tick'[n] = u
  BY DEF LoopTypes, OnlyTick

\* No tick waits for a call but the one that made it, whatever comes of the call.
LEMMA CallersKept ==
  ASSUME Callers, NEW n \in Server, OnlyTick(n),
         \A d \in adds' : d.by \in Server => d \in adds,
         \A d \in adds' : d.by # n
  PROVE  Callers'
  BY DEF Callers, OnlyTick

\* A call that changes its stage stays the same call.
LEMMA CallersMoved ==
  ASSUME Callers, tick' = tick, NEW c \in adds, NEW d,
         d.by = c.by, d.shard = c.shard, d.agent = c.agent,
         adds' \subseteq (adds \ {c}) \cup {d}
  PROVE  Callers'
  BY DEF Callers

\* Each step keeps a tick's call and its add_agent in line.
LEMMA CallersStep ==
  ASSUME Types, Callers, [Next]_vars
  PROVE  Callers'
<1>0. LoopTypes /\ "main" \notin Server /\ "nobody" \notin Server
  BY RegionsAssumption DEF Types
<1>1. ASSUME UNCHANGED <<adds, tick>> PROVE Callers'
  BY <1>1 DEF Callers
<1>2. ASSUME NEW s \in Shard, NEW n \in Server, Raft(s, n) PROVE Callers'
  BY <1>1, <1>2 DEF Raft, Elect, Commit, Replicate
<1>3. ASSUME NEW s \in Shard, NEW n \in Server, NEW a \in Agent, SpawnAgent(s, n, a) PROVE Callers'
  BY <1>0, <1>3 DEF SpawnAgent, Asked, Callers
<1>4. ASSUME NEW c \in adds, Add(c) PROVE Callers'
  <2>1. ASSUME NEW v, Return(c, v), tick' = tick PROVE Callers'
    <3>. DEFINE d == [Asked(c.shard, c.at, c.agent, c.by) EXCEPT !.stage = v]
    <3>1. d.by = c.by /\ d.shard = c.shard /\ d.agent = c.agent
      BY DEF Asked
    <3>2. adds' \subseteq (adds \ {c}) \cup {d}
      BY <2>1 DEF Return
    <3>. HIDE DEF d
    <3>. QED BY <2>1, <3>1, <3>2, CallersMoved
  <2>2. CASE AddBegin(c)
    <3>1. CASE Return(c, "no")
      BY <2>1, <2>2, <3>1 DEF AddBegin
    <3>2. CASE ~Return(c, "no")
      <4>. DEFINE d == [shard |-> c.shard, at |-> c.at, agent |-> c.agent, by |-> c.by, stage |-> "waiting",
                        index |-> Len(log[c.shard][c.at]), term |-> term[c.shard][c.at]]
      <4>1. adds' \subseteq (adds \ {c}) \cup {d} /\ tick' = tick
        BY <2>2, <3>2 DEF AddBegin
      <4>2. d.by = c.by /\ d.shard = c.shard /\ d.agent = c.agent
        OBVIOUS
      <4>. HIDE DEF d
      <4>. QED BY <4>1, <4>2, CallersMoved
    <3>. QED BY <3>1, <3>2
  <2>3. CASE AddPropose(c)
    <3>. DEFINE d == [shard |-> c.shard, at |-> c.at, agent |-> c.agent, by |-> c.by, stage |-> "committing",
                      index |-> Len(log[c.shard][c.at]) + 1, term |-> c.term, before |-> agents[c.shard][c.at]]
    <3>1. adds' \subseteq (adds \ {c}) \cup {d} /\ tick' = tick
      BY <2>3 DEF AddPropose
    <3>2. d.by = c.by /\ d.shard = c.shard /\ d.agent = c.agent
      OBVIOUS
    <3>. HIDE DEF d
    <3>. QED BY <3>1, <3>2, CallersMoved
  <2>4. CASE AddDone(c)
    BY <2>1, <2>4 DEF AddDone
  <2>5. CASE AddFails(c)
    BY <2>1, <2>5 DEF AddFails
  <2>6. CASE AddCancelled(c)
    BY <2>6 DEF AddCancelled, Callers
  <2>. QED BY <1>4, <2>2, <2>3, <2>4, <2>5, <2>6 DEF Add
<1>5. ASSUME NEW n \in Server, Tick(n) PROVE Callers'
  <2>. DEFINE t == tick[n]
  <2>1. ASSUME adds' = adds, t.at # "sending" \/ t.call = Nothing, OnlyTick(n) PROVE Callers'
    <3>1. \A c \in adds : c.by # n
      BY <2>1 DEF Callers
    <3>. QED BY <2>1, <3>1, CallersKept
  <2>2. ASSUME NEW u, tick' = [tick EXCEPT ![n] = u] PROVE OnlyTick(n)
    BY <1>0, <2>2, TickChanges
  <2>3. CASE \/ TickBegin(n) \/ Remove(n) \/ RemoveFails(n)
             \/ \E s \in Shard : RemoveBegin(n, s)
             \/ \E d \in t.out : HandOffDeferred(n, d)
    <3>1. t.at # "sending" \/ t.call = Nothing
      <4>1. Idle.at # "sending"
        BY DEF Idle
      <4>2. CASE TickBegin(n)
        BY <4>1, <4>2 DEF TickBegin
      <4>3. CASE ~TickBegin(n)
        BY <2>3, <4>3 DEF Remove, RemoveFails, RemoveBegin, HandOffDeferred
      <4>. QED BY <4>2, <4>3
    <3>2. adds' = adds
      BY <2>3 DEF TickBegin, Remove, RemoveFails, RemoveBegin, HandOffDeferred
    <3>3. \E u : tick' = [tick EXCEPT ![n] = u]
      BY <2>3 DEF TickBegin, Remove, RemoveFails, RemoveBegin, HandOffDeferred
    <3>. QED BY <2>1, <2>2, <3>1, <3>2, <3>3
  <2>4. ASSUME NEW s \in Shard, TickLooks(n, s) PROVE Callers'
    <3>1. OnlyTick(n)
      BY <1>0, <2>4 DEF TickLooks, OnlyTick, LoopTypes
    <3>. QED BY <2>1, <2>4, <3>1 DEF TickLooks
  <2>5. ASSUME NEW s \in Shard, TickMoves(n, s) PROVE Callers'
    <3>1. OnlyTick(n)
      BY <1>0, <2>5 DEF TickMoves, OnlyTick, LoopTypes
    <3>. QED BY <2>1, <2>5, <3>1 DEF TickMoves
  <2>6. ASSUME t.at = "sending", NEW d \in t.out, NEW l \in Server, HandOff(n, d, l) PROVE Callers'
    <3>1. t \in Sending /\ d \in Departure
      BY <1>0, <2>6, TickShapes DEF Sending
    <3>2. tick' = [tick EXCEPT ![n] = [t EXCEPT !.out = @ \ {d}, !.call = d]]
      BY <1>0, <2>6 DEF HandOff, LoopTypes
    <3>3. OnlyTick(n) /\ tick'[n].at = "sending" /\ tick'[n].call = d
      <4>. DEFINE u == [t EXCEPT !.out = @ \ {d}, !.call = d]
      <4>1. u.at = "sending" /\ u.call = d
        BY <3>1 DEF Sending
      <4>2. tick' = [tick EXCEPT ![n] = u]
        BY <3>2
      <4>. HIDE DEF u
      <4>. QED BY <1>0, <4>1, <4>2, TickChanges
    <3>4. d # Nothing
      BY <3>1, RegionsAssumption DEF Departure, Nothing
    <3>5. \A c \in adds : c.by # n
      BY <2>6 DEF HandOff, Callers
    <3>6. adds' = adds \cup {Asked(d.to, l, d.agent, n)}
      BY <2>6 DEF HandOff
    <3>. QED BY <3>3, <3>4, <3>5, <3>6 DEF Callers, Asked, OnlyTick
  <2>7. ASSUME NEW c \in adds, HandOffAnswered(n, c) PROVE Callers'
    <3>1. OnlyTick(n)
      BY <1>0, <2>7 DEF HandOffAnswered, OnlyTick, LoopTypes
    <3>2. adds' = adds \ {c} /\ \A d \in adds' : d.by # n
      BY <2>7 DEF HandOffAnswered, Callers
    <3>. QED BY <3>1, <3>2, CallersKept
  <2>8. CASE HandOffGivenUp(n)
    <3>1. OnlyTick(n)
      BY <1>0, <2>8 DEF HandOffGivenUp, OnlyTick, LoopTypes
    <3>2. ASSUME NEW d \in adds' PROVE d.by # n /\ (d.by \in Server => d \in adds)
      <4>1. PICK c \in adds : d = IF c.by = n THEN [c EXCEPT !.by = "nobody"] ELSE c
        BY <2>8 DEF HandOffGivenUp
      <4>2. c \in Queued \cup Waiting \cup Committing
        BY <1>0 DEF LoopTypes
      <4>3. c.by = n => d.by = "nobody"
        BY <4>1, <4>2 DEF Queued, Waiting, Committing
      <4>. QED BY <1>0, <4>1, <4>3
    <3>. QED BY <3>1, <3>2, CallersKept
  <2>. QED BY <1>5, <2>3, <2>4, <2>5, <2>6, <2>7, <2>8 DEF Tick
<1>6. CASE UNCHANGED vars
  BY <1>1, <1>6 DEF vars
<1>. QED BY <1>2, <1>3, <1>4, <1>5, <1>6 DEF Next

\* Each step keeps the types.
LEMMA TypesStep ==
  ASSUME Types, Callers, \A s \in Shard : GroupInv(s), [Next]_vars
  PROVE  Types'
<1>1. GroupTypes'
  BY GroupSteps
<1>2. ASSUME NEW s \in Shard, NEW n \in Server, NEW a \in Agent, SpawnAgent(s, n, a) PROVE LoopTypes'
  <2>1. Asked(s, n, a, "main") \in Queued
    BY DEF Asked, Queued
  <2>. QED BY <1>2, <2>1 DEF SpawnAgent, Types, LoopTypes
<1>3. ASSUME UNCHANGED vars PROVE LoopTypes'
  <2>1. agents' = agents /\ adds' = adds /\ tick' = tick /\ placed' = placed /\ moves' = moves
    BY <1>3 DEF vars
  <2>2. LoopTypes
    BY DEF Types
  <2>. QED BY <2>1, <2>2 DEF LoopTypes
<1>4. ASSUME NEW s \in Shard, NEW n \in Server, Raft(s, n) PROVE LoopTypes'
  BY <1>4, RaftLoopTypes DEF GroupInv
<1>5. ASSUME NEW c \in adds, Add(c) PROVE LoopTypes'
  BY <1>5, AddLoopTypes
<1>6. ASSUME NEW n \in Server, Tick(n) PROVE LoopTypes'
  BY <1>6, TickLoopTypes
<1>7. LoopTypes'
  BY <1>2, <1>3, <1>4, <1>5, <1>6 DEF Next
<1>. QED BY <1>1, <1>7 DEF Types

\* The initial state has its types.
LEMMA TypesStart ==
  ASSUME Init
  PROVE  Types /\ Callers
<1>1. LoopTypes
  BY RegionsAssumption DEF Init, LoopTypes, TickState, Registry
<1>2. GroupTypes
  BY GroupStart
<1>3. Callers
  BY DEF Init, Callers
<1>. QED BY <1>1, <1>2, <1>3 DEF Types

\* The types that the proof works with are those that TLC checks.
LEMMA TypesCorrect ==
  ASSUME Types, \A s \in Shard : GroupInv(s)
  PROVE  TypeOK
<1>1. \A s \in Shard, n \in Server :
        /\ \A i \in 1..Len(log[s][n]) : log[s][n][i] \in Entry
        /\ applied[s][n] \in 0..Len(log[s][n])
  <2>1. ASSUME NEW s \in Shard, NEW n \in Server
        PROVE  /\ \A i \in 1..Len(log[s][n]) : log[s][n][i] \in Entry
               /\ applied[s][n] \in 0..Len(log[s][n])
    BY LogTypes DEF Types, GroupInv, AppliedSafe
  <2>. QED BY <2>1
<1>2. \A c \in adds :
         /\ c.shard \in Shard /\ c.at \in Server /\ c.agent \in Agent /\ c.by \in Server \cup {"main", "nobody"}
         /\ c.stage \in {"queued", "waiting", "committing", "yes", "no"}
  BY CallShapes DEF Types
<1>3. \A n \in Server : tick[n].at \in {"idle", "moving", "sending", "removing"}
  BY TickShapes DEF Types
<1>. QED BY <1>1, <1>2, <1>3 DEF TypeOK, Types, GroupTypes, LoopTypes, Entry, Registry

WorldTypes == Types /\ Callers /\ \A s \in Shard : GroupInv(s)

\* Types and groups are kept together: each needs the other.
LEMMA WorldTypesStep ==
  ASSUME WorldTypes, [Next]_vars
  PROVE  WorldTypes'
<1>1. GroupTypes' /\ \A s \in Shard : GroupStep(s)
  BY GroupSteps DEF WorldTypes
<1>2. \A s \in Shard : GroupInv(s)'
  BY <1>1, GroupInvStep DEF WorldTypes, Types
<1>. QED BY <1>2, CallersStep, TypesStep DEF WorldTypes

\* The registries, logs, calls and ticks of a region server (shard_state.py,
\* region_server.py) are of their types, and no server has applied more than its log
\* holds: a leader that was elected without what others applied would overwrite it
\* (raft.py, _handle_request_vote).
THEOREM TypesHold == Spec => []TypeOK
<1>1. Init => WorldTypes
  BY TypesStart, GroupStart DEF WorldTypes
<1>2. WorldTypes /\ [Next]_vars => WorldTypes'
  BY WorldTypesStep
<1>3. WorldTypes => TypeOK
  BY TypesCorrect DEF WorldTypes
<1>. QED BY <1>1, <1>2, <1>3, PTL DEF Spec

-----------------------------------------------------------------------------
(* The lock of a shard: whoever is in it finds the log as it left it, as long *)
(* as its server leads.                                                       *)

InLock(c) == c.stage \in {"waiting", "committing"}
Removes(n, s) == tick[n].at = "removing" /\ tick[n].holds = s

\* While n leads, it leads in term t with a log of i entries.
Steady(s, n, t, i) == leads[s][n] => term[s][n] = t /\ Len(log[s][n]) = i

Locks ==
    /\ \A c, d \in adds : InLock(c) /\ InLock(d) /\ c.shard = d.shard /\ c.at = d.at => c = d
    /\ \A c \in adds : InLock(c) =>
         ~Removes(c.at, c.shard) /\ Steady(c.shard, c.at, c.term, c.index)
    /\ \A n \in Server, s \in Shard : Removes(n, s) => Steady(s, n, tick[n].term, tick[n].index)
    /\ \A c \in adds : c.stage = "committing" => applied[c.shard][c.at] >= c.index - 1

\* Locked, in the words of this proof.
LEMMA LockedIs ==
  ASSUME LoopTypes, NEW s, NEW n
  PROVE  Locked(s, n) <=> \/ \E c \in adds : c.shard = s /\ c.at = n /\ InLock(c)
                          \/ Removes(n, s)
  BY DEF Locked, InLock, Removes

\* n leads after the step only if it did before, with the log of before.
Still(s, n) ==
    leads'[s][n] => leads[s][n] /\ term'[s][n] = term[s][n] /\ log'[s][n] = log[s][n]

\* Where nothing is proposed and nobody is elected, a leader's log is steady.
LEMMA SteadyStill ==
  ASSUME NEW s \in Shard, NEW n \in Server, NEW t, NEW i, Still(s, n), Steady(s, n, t, i)
  PROVE  leads'[s][n] => term'[s][n] = t /\ Len(log'[s][n]) = i
  BY DEF Still, Steady

\* What is applied is not taken back.
LEMMA AppliedGrows ==
  ASSUME GroupTypes, NEW s \in Shard, GroupStep(s), NEW q \in Server
  PROVE  applied'[s][q] >= applied[s][q] /\ applied'[s][q] \in Nat
<1>1. applied[s][q] \in Nat
  BY LogTypes
<1>2. ASSUME NEW n \in Server, NEW m \in Server, Replicates(s, n, m)
      PROVE  applied'[s][q] >= applied[s][q] /\ applied'[s][q] \in Nat
  <2>1. applied[s][n] \in Nat /\ applied[s][m] \in Nat
    BY LogTypes
  <2>2. applied'[s][q] = IF q = m /\ applied[s][n] > applied[s][m] THEN applied[s][n] ELSE applied[s][q]
    BY <1>2 DEF Replicates
  <2>. QED BY <1>1, <2>1, <2>2
<1>3. ASSUME NEW n \in Server, NEW i \in 1..Len(log[s][n]), Commits(s, n, i)
      PROVE  applied'[s][q] >= applied[s][q] /\ applied'[s][q] \in Nat
  <2>1. applied'[s][q] = IF q = n THEN i ELSE applied[s][q]
    BY <1>3 DEF Commits
  <2>2. i \in Nat /\ i > applied[s][n]
    BY <1>3 DEF Commits
  <2>. QED BY <1>1, <2>1, <2>2
<1>4. ASSUME applied'[s] = applied[s]
      PROVE  applied'[s][q] >= applied[s][q] /\ applied'[s][q] \in Nat
  BY <1>1, <1>4
<1>5. GroupStays(s) => applied'[s] = applied[s]
  BY DEF GroupStays
<1>6. \A n \in Server, Q \in SUBSET Server, k \in Nat : Elects(s, n, Q, k) => applied'[s] = applied[s]
  BY DEF Elects
<1>7. \A n \in Server, e \in Entry : Appends(s, n, e) => applied'[s] = applied[s]
  BY DEF Appends
<1>. QED BY <1>2, <1>3, <1>4, <1>5, <1>6, <1>7 DEF GroupStep

\* Only an election makes a leader, and nobody in a lock is elected; only a
\* proposal grows a leader's log.
LEMMA RaftStill ==
  ASSUME Types, NEW x \in Shard, NEW k \in Server, Raft(x, k),
         NEW s \in Shard, NEW n \in Server, Locked(s, n)
  PROVE  Still(s, n)
<1>0. GroupTypes
  BY DEF Types
<1>1. CASE Elect(x, k)
  <2>1. CASE x # s
    BY <1>0, <1>1, <2>1, ElectionElects DEF GroupStays, Still
  <2>2. CASE x = s
    <3>1. k # n
      BY <1>1, <2>2 DEF Elect
    <3>2. PICK Q \in SUBSET Server, t \in Nat : Elects(s, k, Q, t)
      BY <1>0, <1>1, <2>2, ElectionElects
    <3>. QED BY <3>1, <3>2 DEF Elects, Still
  <2>. QED BY <2>1, <2>2
<1>2. CASE Commit(x, k)
  BY <1>2 DEF Commit, Still
<1>3. ASSUME NEW m \in Server, Replicate(x, k, m) PROVE Still(s, n)
  <2>1. CASE x # s
    BY <1>0, <1>3, <2>1, ReplicationReplicates DEF GroupStays, Still
  <2>2. CASE x = s
    <3>1. Replicates(s, k, m)
      BY <1>0, <1>3, <2>2, ReplicationReplicates
    <3>. QED BY <3>1 DEF Replicates, Still
  <2>. QED BY <2>1, <2>2
<1>. QED BY <1>1, <1>2, <1>3 DEF Raft

\* A proposal changes the log of its own shard and server only.
LEMMA ProposeStill ==
  ASSUME GroupTypes, NEW x \in Shard, NEW k \in Server, NEW r \in Registry, Proposes(x, k, r),
         NEW s \in Shard, NEW n \in Server, s # x \/ n # k
  PROVE  Still(s, n)
<1>1. GroupStays(s) \/ (s = x /\ Appends(s, k, [term |-> term[s][k], agents |-> r]))
  BY ProposalAppends
<1>2. CASE GroupStays(s)
  BY <1>2 DEF GroupStays, Still
<1>3. CASE s = x /\ Appends(s, k, [term |-> term[s][k], agents |-> r])
  BY <1>3 DEF Appends, Still
<1>. QED BY <1>1, <1>2, <1>3

\* What keeps the locks: nobody new is in one, and the group of whoever still is
\* does not move on.
LEMMA LocksKept ==
  ASSUME Types, Locks, GroupTypes', LoopTypes', \A s \in Shard : GroupStep(s),
         \A d \in adds' : InLock(d) =>
            \E c \in adds : /\ InLock(c) /\ c.shard = d.shard /\ c.at = d.at /\ c.term = d.term
                            /\ c.index = d.index /\ c.stage = d.stage,
         \A c, d \in adds' : InLock(c) /\ InLock(d) /\ c.shard = d.shard /\ c.at = d.at => c = d,
         \A n \in Server, s \in Shard : Removes(n, s)' =>
            Removes(n, s) /\ tick'[n].term = tick[n].term /\ tick'[n].index = tick[n].index,
         \A s \in Shard, n \in Server : Locked(s, n) /\ Locked(s, n)' => Still(s, n)
  PROVE  Locks'
<1>1. ASSUME NEW d \in adds', InLock(d)
      PROVE  ~Removes(d.at, d.shard)' /\ Steady(d.shard, d.at, d.term, d.index)'
  <2>1. PICK c \in adds : /\ InLock(c) /\ c.shard = d.shard /\ c.at = d.at /\ c.term = d.term
                          /\ c.index = d.index /\ c.stage = d.stage
    BY <1>1
  <2>2. c.shard \in Shard /\ c.at \in Server
    BY CallShapes DEF Types
  <2>3. Still(c.shard, c.at)
    <3>1. Locked(c.shard, c.at)
      BY <2>1 DEF Locked, InLock
    <3>2. Locked(c.shard, c.at)'
      BY <1>1, <2>1 DEF Locked, InLock
    <3>. QED BY <2>2, <3>1, <3>2
  <2>4. ~Removes(c.at, c.shard) /\ Steady(c.shard, c.at, c.term, c.index)
    BY <2>1 DEF Locks
  <2>5. ~Removes(d.at, d.shard)'
    BY <2>1, <2>2, <2>4
  <2>. QED BY <2>1, <2>2, <2>3, <2>4, <2>5 DEF Steady, Still
<1>2. ASSUME NEW n \in Server, NEW s \in Shard, Removes(n, s)'
      PROVE  Steady(s, n, tick[n].term, tick[n].index)'
  <2>1. Removes(n, s) /\ tick'[n].term = tick[n].term /\ tick'[n].index = tick[n].index
    BY <1>2
  <2>2. Still(s, n)
    BY <1>2, <2>1 DEF Locked, Removes
  <2>3. Steady(s, n, tick[n].term, tick[n].index)
    BY <2>1 DEF Locks
  <2>. QED BY <2>1, <2>2, <2>3 DEF Steady, Still
<1>3. ASSUME NEW d \in adds', d.stage = "committing"
      PROVE  applied'[d.shard][d.at] >= d.index - 1
  <2>1. InLock(d)
    BY <1>3 DEF InLock
  <2>2. PICK c \in adds : /\ c.shard = d.shard /\ c.at = d.at /\ c.index = d.index /\ c.stage = d.stage
    BY <2>1
  <2>3. c.shard \in Shard /\ c.at \in Server /\ c.index \in Nat /\ applied[c.shard][c.at] >= c.index - 1
    BY <1>3, <2>2, CallShapes DEF Types, Locks
  <2>4. /\ applied'[c.shard][c.at] >= applied[c.shard][c.at] /\ applied'[c.shard][c.at] \in Nat
        /\ applied[c.shard][c.at] \in Nat
    BY <2>3, AppliedGrows, LogTypes DEF Types
  <2>. QED BY <2>2, <2>3, <2>4
<1>. QED BY <1>1, <1>2, <1>3 DEF Locks

\* The same, when at most one call leaves a lock and the ticks hold what they held.
LEMMA LocksLeft ==
  ASSUME Types, Locks, GroupTypes', LoopTypes', \A s \in Shard : GroupStep(s),
         \A d \in adds' : InLock(d) => d \in adds,
         \A n \in Server, s \in Shard : Removes(n, s)' =>
            Removes(n, s) /\ tick'[n].term = tick[n].term /\ tick'[n].index = tick[n].index,
         \A s \in Shard, n \in Server : Locked(s, n) /\ Locked(s, n)' => Still(s, n)
  PROVE  Locks'
<1>1. \A d \in adds' : InLock(d) =>
        \E c \in adds : /\ InLock(c) /\ c.shard = d.shard /\ c.at = d.at /\ c.term = d.term
                        /\ c.index = d.index /\ c.stage = d.stage
  OBVIOUS
<1>2. \A c, d \in adds' : InLock(c) /\ InLock(d) /\ c.shard = d.shard /\ c.at = d.at => c = d
  BY DEF Locks
<1>. QED BY <1>1, <1>2, LocksKept

\* A group that does not change is still.
LEMMA UnchangedStill ==
  ASSUME UNCHANGED <<term, leads, log>>
  PROVE  \A s \in Shard, n \in Server : Still(s, n)
  BY DEF Still

\* Calls of add_agent enter a lock that nobody is in, and leave it.
LEMMA AddLocks ==
  ASSUME Types, Locks, GroupTypes', LoopTypes', \A s \in Shard : GroupStep(s),
         NEW c \in adds, Add(c)
  PROVE  Locks'
<1>0. LoopTypes /\ GroupTypes
  BY DEF Types
<1>. DEFINE s == c.shard
            n == c.at
<1>1. s \in Shard /\ n \in Server
  BY <1>0, CallShapes
<1>2. ASSUME tick' = tick, UNCHANGED <<term, leads, log>>, \A d \in adds' : InLock(d) => d \in adds
      PROVE  Locks'
  <2>1. \A m \in Server, x \in Shard : Removes(m, x)' =>
          Removes(m, x) /\ tick'[m].term = tick[m].term /\ tick'[m].index = tick[m].index
    BY <1>2 DEF Removes
  <2>. QED BY <1>2, <2>1, UnchangedStill, LocksLeft
<1>3. ASSUME NEW v \in {"yes", "no"}, Return(c, v), tick' = tick, UNCHANGED <<term, leads, log>>
      PROVE  Locks'
  <2>1. ASSUME NEW d \in adds', InLock(d) PROVE d \in adds
    <3>1. ~InLock([Asked(c.shard, c.at, c.agent, c.by) EXCEPT !.stage = v])
      BY DEF InLock, Asked
    <3>. QED BY <1>3, <2>1, <3>1 DEF Return
  <2>. QED BY <1>2, <1>3, <2>1
<1>4. CASE AddBegin(c)
  <2>1. CASE Return(c, "no")
    BY <1>3, <1>4, <2>1 DEF AddBegin, raftVars
  <2>2. CASE ~Return(c, "no")
    <3>. DEFINE d == [shard |-> s, at |-> n, agent |-> c.agent, by |-> c.by, stage |-> "waiting",
                      index |-> Len(log[s][n]), term |-> term[s][n]]
    <3>1. /\ adds' = (adds \ {c}) \cup {d} /\ tick' = tick /\ UNCHANGED <<term, leads, log, applied>>
          /\ ~Locked(s, n)
      BY <1>4, <2>2 DEF AddBegin, raftVars
    <3>2. /\ d.shard = s /\ d.at = n /\ d.index = Len(log[s][n]) /\ d.term = term[s][n]
          /\ d.stage = "waiting"
      OBVIOUS
    <3>. HIDE DEF d
    <3>3. ~Removes(n, s) /\ \A x \in adds : InLock(x) => x.shard # s \/ x.at # n
      BY <3>1 DEF Locked, Removes, InLock
    <3>4. \A x, y \in adds' : InLock(x) /\ InLock(y) /\ x.shard = y.shard /\ x.at = y.at => x = y
      BY <3>1, <3>2, <3>3 DEF Locks
    <3>5. ASSUME NEW x \in adds', InLock(x)
          PROVE  ~Removes(x.at, x.shard)' /\ Steady(x.shard, x.at, x.term, x.index)'
      BY <3>1, <3>2, <3>3, <3>5 DEF Locks, Removes, Steady
    <3>6. \A m \in Server, x \in Shard : Removes(m, x)' => Steady(x, m, tick[m].term, tick[m].index)'
      BY <3>1 DEF Locks, Removes, Steady
    <3>7. \A x \in adds' : x.stage = "committing" => applied'[x.shard][x.at] >= x.index - 1
      BY <3>1, <3>2 DEF Locks
    <3>. QED BY <3>4, <3>5, <3>6, <3>7 DEF Locks
  <2>. QED BY <2>1, <2>2
<1>5. CASE AddPropose(c)
  <2>. DEFINE r == [agents[s][n] EXCEPT ![c.agent] = s]
              d == [shard |-> s, at |-> n, agent |-> c.agent, by |-> c.by, stage |-> "committing",
                    index |-> Len(log[s][n]) + 1, term |-> c.term, before |-> agents[s][n]]
  <2>1. /\ adds' = (adds \ {c}) \cup {d} /\ tick' = tick /\ UNCHANGED <<term, leads, applied>>
        /\ c.stage = "waiting" /\ leads[s][n] /\ term[s][n] = c.term /\ applied[s][n] >= c.index
        /\ log' = [log EXCEPT ![s][n] = Append(@, [term |-> term[s][n], agents |-> r])]
    BY <1>5 DEF AddPropose, Applied, Propose
  <2>2. /\ d.shard = s /\ d.at = n /\ d.index = Len(log[s][n]) + 1 /\ d.term = c.term
        /\ d.stage = "committing"
    OBVIOUS
  <2>. HIDE DEF d
  <2>3. InLock(c) /\ ~Removes(n, s) /\ Len(log[s][n]) = c.index /\ c.index \in Nat
    <3>1. InLock(c) /\ c.index \in Nat
      BY <1>0, <2>1, CallShapes DEF InLock
    <3>. QED BY <2>1, <3>1 DEF Locks, Steady
  <2>4. \A x \in adds : InLock(x) /\ x # c => x.shard # s \/ x.at # n
    BY <2>3 DEF Locks
  <2>5. \A x, y \in adds' : InLock(x) /\ InLock(y) /\ x.shard = y.shard /\ x.at = y.at => x = y
    BY <2>1, <2>2, <2>4 DEF Locks
  <2>6. Len(log'[s][n]) = Len(log[s][n]) + 1
    <3>1. [term |-> term[s][n], agents |-> r] \in Entry
      BY <1>0, <1>1, CallShapes, LogTypes DEF Entry, Registry, LoopTypes
    <3>2. log'[s][n] = Append(log[s][n], [term |-> term[s][n], agents |-> r])
      BY <1>0, <1>1, <2>1 DEF GroupTypes
    <3>. QED BY <1>0, <1>1, <3>1, <3>2, Appended, LogTypes
  <2>7. \A x \in Shard, m \in Server : x # s \/ m # n => log'[x][m] = log[x][m]
    BY <1>0, <1>1, <2>1 DEF GroupTypes
  <2>8. ASSUME NEW x \in adds', InLock(x)
        PROVE  ~Removes(x.at, x.shard)' /\ Steady(x.shard, x.at, x.term, x.index)'
    <3>1. CASE x = d
      BY <2>1, <2>2, <2>3, <2>6, <3>1 DEF Removes, Steady
    <3>2. CASE x # d
      <4>1. x \in adds /\ x # c /\ x.shard \in Shard /\ x.at \in Server
        BY <1>0, <2>1, <3>2, CallShapes
      <4>. QED BY <2>1, <2>4, <2>7, <2>8, <4>1 DEF Locks, Removes, Steady
    <3>. QED BY <3>1, <3>2
  <2>9. \A m \in Server, x \in Shard : Removes(m, x)' => Steady(x, m, tick[m].term, tick[m].index)'
    BY <2>1, <2>3, <2>7 DEF Locks, Removes, Steady
  <2>10. \A x \in adds' : x.stage = "committing" => applied'[x.shard][x.at] >= x.index - 1
    BY <1>0, <1>1, <2>1, <2>2, <2>3 DEF Locks
  <2>. QED BY <2>5, <2>8, <2>9, <2>10 DEF Locks
<1>6. CASE AddDone(c)
  BY <1>3, <1>6 DEF AddDone, raftVars
<1>7. CASE AddFails(c)
  BY <1>3, <1>7 DEF AddFails, raftVars
<1>8. CASE AddCancelled(c)
  BY <1>2, <1>8 DEF AddCancelled, raftVars
<1>. QED BY <1>4, <1>5, <1>6, <1>7, <1>8 DEF Add

\* A tick enters a lock that nobody is in to remove agents; a move is made in a
\* lock that is free before and after.
LEMMA TickLocks ==
  ASSUME Types, Callers, Locks, GroupTypes', LoopTypes', \A s \in Shard : GroupStep(s),
         NEW n \in Server, Tick(n)
  PROVE  Locks'
<1>0. LoopTypes /\ GroupTypes
  BY DEF Types
<1>. DEFINE t == tick[n]
            Lets == \A m \in Server, s \in Shard : Removes(m, s)' =>
                      Removes(m, s) /\ tick'[m].term = tick[m].term /\ tick'[m].index = tick[m].index
<1>1. ASSUME OnlyTick(n), tick'[n].at # "removing" \/ tick'[n].holds = Nowhere PROVE Lets
  BY <1>1, RegionsAssumption DEF Removes, OnlyTick
<1>2. ASSUME NEW u \in Moving \cup Sending \cup Seeking \cup Removing,
             u.at = "removing" => u.holds = Nowhere,
             tick' = [tick EXCEPT ![n] = Onward(u)]
      PROVE  Lets
  <2>1. Onward(u).at = "removing" => Onward(u).holds = Nowhere
    <3>1. Onward(u) = u \/ Onward(u).at # "removing" \/ Onward(u).holds = Nowhere
      BY <1>2 DEF Onward, Moving, Sending, Seeking, Removing, Idle
    <3>. QED BY <1>2, <3>1
  <2>2. OnlyTick(n) /\ tick'[n] = Onward(u)
    BY <1>0, <1>2, TickChanges
  <2>. QED BY <1>1, <2>1, <2>2
<1>3. ASSUME Lets, adds' = adds, UNCHANGED <<term, leads, log>> PROVE Locks'
  BY <1>3, UnchangedStill, LocksLeft
<1>4. CASE TickBegin(n)
  <2>1. tick'[n].at = "moving" /\ OnlyTick(n)
    BY <1>0, <1>4 DEF TickBegin, OnlyTick, LoopTypes
  <2>. QED BY <1>1, <1>3, <1>4, <2>1 DEF TickBegin, raftVars
<1>5. ASSUME NEW s \in Shard, TickLooks(n, s) PROVE Locks'
  <2>1. t \in Moving
    BY <1>0, <1>5, TickShapes DEF TickLooks
  <2>2. [t EXCEPT !.todo = @ \ {s}] \in Moving /\ [t EXCEPT !.queued = {s}] \in Moving
    BY <2>1 DEF Moving
  <2>3. \A u \in Moving : u.at # "removing"
    BY DEF Moving
  <2>4. CASE tick' = [tick EXCEPT ![n] = Onward([t EXCEPT !.todo = @ \ {s}])]
    BY <1>2, <1>3, <1>5, <2>2, <2>3, <2>4 DEF TickLooks, raftVars
  <2>5. CASE tick' = [tick EXCEPT ![n].queued = {s}]
    <3>1. tick' = [tick EXCEPT ![n] = [t EXCEPT !.queued = {s}]]
      BY <2>5
    <3>2. OnlyTick(n) /\ tick'[n] \in Moving
      BY <1>0, <2>2, <3>1, TickChanges
    <3>. QED BY <1>1, <1>3, <1>5, <2>3, <3>2 DEF TickLooks, raftVars
  <2>. QED BY <1>5, <2>4, <2>5 DEF TickLooks
<1>6. ASSUME NEW s \in Shard, TickMoves(n, s) PROVE Locks'
  <2>1. t \in Moving
    BY <1>0, <1>6, TickShapes DEF TickMoves
  <2>2. \A u \in Moving : u.at # "removing"
    BY DEF Moving
  <2>3. ASSUME NEW o, [t EXCEPT !.todo = @ \ {s}, !.queued = {}, !.out = @ \cup o] \in Moving,
               tick' = [tick EXCEPT ![n] = Onward([t EXCEPT !.todo = @ \ {s}, !.queued = {}, !.out = @ \cup o])]
        PROVE  Lets
    BY <1>2, <2>2, <2>3
  <2>4. CASE ~CaughtUp(s, n)
    <3>1. [t EXCEPT !.todo = @ \ {s}, !.queued = {}] \in Moving
      BY <2>1 DEF Moving
    <3>2. tick' = [tick EXCEPT ![n] = Onward([t EXCEPT !.todo = @ \ {s}, !.queued = {}])]
      BY <1>6, <2>4 DEF TickMoves
    <3>3. Lets
      BY <1>2, <2>2, <3>1, <3>2
    <3>. QED BY <1>3, <1>6, <2>4, <3>3 DEF TickMoves
  <2>5. ASSUME NEW r \in Moved(agents[s][n]), Propose(s, n, r),
               tick' = [tick EXCEPT ![n] =
                 Onward([t EXCEPT !.todo = @ \ {s}, !.queued = {}, !.out = @ \cup
                   {[from |-> s, agent |-> a, to |-> r[a]] : a \in {b \in Agent : r[b] \notin {s, Nowhere}}}])]
        PROVE  Locks'
    <3>. DEFINE o == {[from |-> s, agent |-> a, to |-> r[a]] : a \in {b \in Agent : r[b] \notin {s, Nowhere}}}
    <3>1. r \in Registry
      BY <1>0, <2>5, MovedType DEF LoopTypes
    <3>2. o \in SUBSET Departure
      BY <3>1 DEF Departure, Registry
    <3>3. tick' = [tick EXCEPT ![n] = Onward([t EXCEPT !.todo = @ \ {s}, !.queued = {}, !.out = @ \cup o])]
      BY <2>5
    <3>. HIDE DEF o
    <3>4. [t EXCEPT !.todo = @ \ {s}, !.queued = {}, !.out = @ \cup o] \in Moving
      BY <2>1, <3>2, Zenon DEF Moving
    <3>5. Lets
      BY <2>3, <3>3, <3>4
    <3>6. Proposes(s, n, r) /\ ~Locked(s, n) /\ adds' = adds
      BY <1>6, <2>5, Zenon DEF TickMoves, Proposes
    <3>7. ASSUME NEW x \in Shard, NEW m \in Server, Locked(x, m) PROVE Still(x, m)
      <4>1. x # s \/ m # n
        BY <3>6, <3>7
      <4>. QED BY <1>0, <3>1, <3>6, <4>1, ProposeStill
    <3>. QED BY <3>5, <3>6, <3>7, LocksLeft
  <2>. QED BY <1>6, <2>4, <2>5 DEF TickMoves
<1>7. ASSUME t.at = "sending", NEW d \in t.out, NEW l \in Server, HandOff(n, d, l) PROVE Locks'
  <2>1. t \in Sending
    BY <1>0, <1>7, TickShapes
  <2>2. [t EXCEPT !.out = @ \ {d}, !.call = d].at = "sending"
    BY <2>1 DEF Sending
  <2>3. tick' = [tick EXCEPT ![n] = [t EXCEPT !.out = @ \ {d}, !.call = d]]
    BY <1>0, <1>7 DEF HandOff, LoopTypes
  <2>4. OnlyTick(n) /\ tick'[n].at = "sending"
    <3>. DEFINE u == [t EXCEPT !.out = @ \ {d}, !.call = d]
    <3>1. u.at = "sending" /\ tick' = [tick EXCEPT ![n] = u]
      BY <2>2, <2>3
    <3>. HIDE DEF u
    <3>. QED BY <1>0, <3>1, TickChanges
  <2>5. ~InLock(Asked(d.to, l, d.agent, n))
    BY DEF InLock, Asked
  <2>6. UNCHANGED <<term, leads, log>> /\ \A c \in adds' : InLock(c) => c \in adds
    BY <1>7, <2>5 DEF HandOff, raftVars
  <2>. QED BY <1>1, <2>4, <2>6, UnchangedStill, LocksLeft
<1>8. ASSUME t.at = "sending", NEW d \in t.out, HandOffDeferred(n, d) PROVE Locks'
  <2>1. [t EXCEPT !.out = @ \ {d}] \in Sending /\ [t EXCEPT !.out = @ \ {d}].at = "sending"
    BY <1>0, <1>8, TickShapes DEF Sending
  <2>. QED BY <1>2, <1>3, <1>8, <2>1 DEF HandOffDeferred, raftVars
<1>9. ASSUME NEW c \in adds, HandOffAnswered(n, c) PROVE Locks'
  <2>1. t \in Sending /\ t.call \in Departure
    <3>1. t \in Sending /\ t.call # Nothing
      BY <1>0, <1>9, TickShapes DEF HandOffAnswered, Callers
    <3>. QED BY <3>1 DEF Sending
  <2>2. Accepted(t, c.stage) \in SUBSET Departure
    BY <2>1 DEF Accepted
  <2>3. /\ [t EXCEPT !.call = Nothing, !.done = @ \cup Accepted(t, c.stage)] \in Sending
        /\ [t EXCEPT !.call = Nothing, !.done = @ \cup Accepted(t, c.stage)].at = "sending"
    BY <2>1, <2>2 DEF Sending
  <2>4. Lets
    BY <1>2, <1>9, <2>3 DEF HandOffAnswered
  <2>5. UNCHANGED <<term, leads, log>> /\ \A d \in adds' : InLock(d) => d \in adds
    BY <1>9 DEF HandOffAnswered, raftVars
  <2>. QED BY <2>4, <2>5, UnchangedStill, LocksLeft
<1>10. CASE HandOffGivenUp(n)
  <2>1. [t EXCEPT !.call = Nothing] \in Sending /\ [t EXCEPT !.call = Nothing].at = "sending"
    BY <1>0, <1>10, TickShapes DEF HandOffGivenUp, Sending
  <2>2. Lets
    BY <1>2, <1>10, <2>1 DEF HandOffGivenUp
  <2>3. UNCHANGED <<term, leads, log>>
    BY <1>10 DEF HandOffGivenUp, raftVars
  <2>4. ASSUME NEW d \in adds', InLock(d)
        PROVE  \E c \in adds : /\ InLock(c) /\ c.shard = d.shard /\ c.at = d.at /\ c.term = d.term
                               /\ c.index = d.index /\ c.stage = d.stage
                               /\ d = IF c.by = n THEN [c EXCEPT !.by = "nobody"] ELSE c
    <3>1. PICK c \in adds : d = IF c.by = n THEN [c EXCEPT !.by = "nobody"] ELSE c
      BY <1>10 DEF HandOffGivenUp
    <3>2. c.stage = d.stage
      BY <1>0, <3>1 DEF LoopTypes, Queued, Waiting, Committing
    <3>3. c \in Waiting \cup Committing
      BY <1>0, <2>4, <3>2, CallShapes DEF InLock
    <3>4. /\ c.shard = d.shard /\ c.at = d.at /\ c.term = d.term /\ c.index = d.index
      BY <3>1, <3>3 DEF Waiting, Committing
    <3>. QED BY <2>4, <3>1, <3>2, <3>4 DEF InLock
  <2>5. ASSUME NEW d \in adds', NEW e \in adds', InLock(d), InLock(e), d.shard = e.shard, d.at = e.at
        PROVE  d = e
    BY <2>4, <2>5 DEF Locks
  <2>. QED BY <2>2, <2>3, <2>4, <2>5, UnchangedStill, LocksKept
<1>11. ASSUME NEW s \in Shard, RemoveBegin(n, s) PROVE Locks'
  <2>1. t \in Seeking \cup Removing
    BY <1>0, <1>11, TickShapes DEF RemoveBegin
  <2>2. CASE ~leads[s][n]
    <3>1. [t EXCEPT !.todo = @ \ {s}] \in Seeking \cup Removing
      BY <2>1 DEF Seeking, Removing
    <3>2. [t EXCEPT !.todo = @ \ {s}].holds = Nowhere
      BY <1>11, <2>1 DEF RemoveBegin, Seeking, Removing
    <3>3. tick' = [tick EXCEPT ![n] = Onward([t EXCEPT !.todo = @ \ {s}])]
      BY <1>11, <2>2 DEF RemoveBegin
    <3>4. Lets
      BY <1>2, <3>1, <3>2, <3>3
    <3>. QED BY <1>3, <1>11, <3>4 DEF RemoveBegin, raftVars
  <2>3. CASE leads[s][n]
    <3>. DEFINE u == [at |-> "removing", todo |-> t.todo, done |-> t.done, holds |-> s,
                      index |-> Len(log[s][n]), term |-> term[s][n]]
    <3>1. tick' = [tick EXCEPT ![n] = u] /\ UNCHANGED <<term, leads, log, applied, adds>> /\ ~Locked(s, n)
      BY <1>11, <2>3 DEF RemoveBegin, raftVars
    <3>2. u.at = "removing" /\ u.holds = s /\ u.index = Len(log[s][n]) /\ u.term = term[s][n]
      OBVIOUS
    <3>. HIDE DEF u
    <3>3. OnlyTick(n) /\ tick'[n] = u
      BY <1>0, <3>1, TickChanges
    <3>4. \A c \in adds : InLock(c) => c.shard # s \/ c.at # n
      BY <3>1 DEF Locked, InLock
    <3>5. ASSUME NEW m \in Server, NEW x \in Shard, Removes(m, x)'
          PROVE  \/ m = n /\ x = s
                 \/ m # n /\ Removes(m, x) /\ tick'[m] = tick[m]
      BY <3>2, <3>3, <3>5 DEF Removes, OnlyTick
    <3>6. ASSUME NEW c \in adds', InLock(c)
          PROVE  ~Removes(c.at, c.shard)' /\ Steady(c.shard, c.at, c.term, c.index)'
      <4>1. c \in adds /\ c.shard \in Shard /\ c.at \in Server
        BY <1>0, <3>1, CallShapes
      <4>2. ~Removes(c.at, c.shard)'
        BY <3>4, <3>5, <3>6, <4>1 DEF Locks
      <4>. QED BY <3>1, <3>6, <4>1, <4>2 DEF Locks, Steady
    <3>7. \A m \in Server, x \in Shard : Removes(m, x)' => Steady(x, m, tick[m].term, tick[m].index)'
      BY <3>1, <3>2, <3>3, <3>5 DEF Locks, Steady
    <3>8. \A c \in adds' : c.stage = "committing" => applied'[c.shard][c.at] >= c.index - 1
      BY <3>1 DEF Locks
    <3>9. \A c, d \in adds' : InLock(c) /\ InLock(d) /\ c.shard = d.shard /\ c.at = d.at => c = d
      BY <3>1 DEF Locks
    <3>. QED BY <3>6, <3>7, <3>8, <3>9 DEF Locks
  <2>. QED BY <2>2, <2>3
<1>12. ASSUME Remove(n) \/ RemoveFails(n)
       PROVE  t.holds \in Shard /\ Removes(n, t.holds) /\ Lets /\ ~(tick'[n].at = "removing" /\ tick'[n].holds = t.holds)
  <2>1. t \in Removing /\ t.holds \in Shard
    BY <1>0, <1>12, TickShapes DEF Remove, RemoveFails
  <2>2. /\ [t EXCEPT !.todo = @ \ {t.holds}, !.holds = Nowhere] \in Removing
        /\ [t EXCEPT !.todo = @ \ {t.holds}, !.holds = Nowhere].holds = Nowhere
    BY <2>1 DEF Removing
  <2>3. tick' = [tick EXCEPT ![n] = Onward([t EXCEPT !.todo = @ \ {t.holds}, !.holds = Nowhere])]
    BY <1>12 DEF Remove, RemoveFails
  <2>4. Lets
    BY <1>2, <2>2, <2>3
  <2>5. ~(tick'[n].at = "removing" /\ tick'[n].holds = t.holds)
    <3>. DEFINE u == [t EXCEPT !.todo = @ \ {t.holds}, !.holds = Nowhere]
    <3>1. u \in Removing /\ u.holds = Nowhere /\ tick' = [tick EXCEPT ![n] = Onward(u)]
      BY <2>2, <2>3
    <3>. HIDE DEF u
    <3>2. Onward(u) = u \/ Onward(u) = Idle
      BY <3>1 DEF Onward, Removing
    <3>3. tick'[n] = Onward(u)
      BY <1>0, <3>1, TickChanges
    <3>4. Idle.at # "removing"
      BY DEF Idle
    <3>5. t.holds # Nowhere
      BY <2>1, RegionsAssumption
    <3>6. CASE Onward(u) = u
      BY <3>1, <3>3, <3>5, <3>6 DEF Removes
    <3>7. CASE Onward(u) = Idle
      BY <3>3, <3>4, <3>7 DEF Removes
    <3>. QED BY <3>2, <3>6, <3>7
  <2>. QED BY <1>12, <2>1, <2>4, <2>5 DEF Removes, Remove, RemoveFails
<1>13. CASE Remove(n)
  <2>. DEFINE s == t.holds
              r == [a \in Agent |-> IF \E d \in t.done : d.from = s /\ d.agent = a
                                    THEN Nowhere ELSE agents[s][n][a]]
  <2>1. s \in Shard /\ Removes(n, s) /\ Lets /\ ~(tick'[n].at = "removing" /\ tick'[n].holds = s)
    BY <1>12, <1>13
  <2>2. r \in Registry
    BY <1>0, <2>1 DEF LoopTypes, Registry
  <2>3. Proposes(s, n, r) /\ adds' = adds
    BY <1>13 DEF Remove, Proposes
  <2>. HIDE DEF r
  <2>4. ASSUME NEW x \in Shard, NEW m \in Server, Locked(x, m), Locked(x, m)' PROVE Still(x, m)
    <3>1. CASE x = s /\ m = n
      <4>1. PICK c \in adds : c.shard = s /\ c.at = n /\ InLock(c)
        BY <2>1, <2>3, <2>4, <3>1 DEF Locked, InLock, Removes
      <4>. QED BY <2>1, <4>1 DEF Locks
    <3>2. CASE x # s \/ m # n
      BY <1>0, <2>1, <2>2, <2>3, <3>2, ProposeStill
    <3>. QED BY <3>1, <3>2
  <2>. QED BY <2>1, <2>3, <2>4, LocksLeft
<1>14. CASE RemoveFails(n)
  BY <1>3, <1>12, <1>14 DEF RemoveFails, raftVars
<1>. QED BY <1>4, <1>5, <1>6, <1>7, <1>8, <1>9, <1>10, <1>11, <1>13, <1>14 DEF Tick

\* At the start nobody is in a lock.
LEMMA LocksStart == Init => Locks
  BY DEF Init, Idle, Locks, Removes

\* Each step keeps what the locks are for.
LEMMA LocksStep ==
  ASSUME WorldTypes, Locks, [Next]_vars
  PROVE  Locks'
<1>1. GroupTypes' /\ LoopTypes' /\ \A s \in Shard : GroupStep(s)
  BY GroupSteps, WorldTypesStep DEF WorldTypes, Types
<1>2. Types /\ Callers
  BY DEF WorldTypes
<1>3. ASSUME adds' = adds, tick' = tick, \A s \in Shard, n \in Server : Locked(s, n) => Still(s, n)
      PROVE  Locks'
  BY <1>1, <1>2, <1>3, LocksLeft DEF Removes
<1>4. ASSUME NEW s \in Shard, NEW n \in Server, Raft(s, n) PROVE Locks'
  <2>1. adds' = adds /\ tick' = tick
    BY <1>4 DEF Raft, Elect, Commit, Replicate
  <2>. QED BY <1>2, <1>3, <1>4, <2>1, RaftStill
<1>5. ASSUME NEW s \in Shard, NEW n \in Server, NEW a \in Agent, SpawnAgent(s, n, a) PROVE Locks'
  <2>1. ~InLock(Asked(s, n, a, "main"))
    BY DEF InLock, Asked
  <2>2. /\ tick' = tick /\ UNCHANGED <<term, leads, log>>
        /\ \A d \in adds' : InLock(d) => d \in adds
    BY <1>5, <2>1 DEF SpawnAgent, raftVars
  <2>. QED BY <1>1, <1>2, <2>2, UnchangedStill, LocksLeft DEF Removes
<1>6. CASE UNCHANGED vars
  BY <1>3, <1>6, UnchangedStill DEF vars, raftVars
<1>7. ASSUME NEW c \in adds, Add(c) PROVE Locks'
  BY <1>1, <1>2, <1>7, AddLocks
<1>8. ASSUME NEW n \in Server, Tick(n) PROVE Locks'
  BY <1>1, <1>2, <1>8, TickLocks
<1>. QED BY <1>4, <1>5, <1>6, <1>7, <1>8 DEF Next

-----------------------------------------------------------------------------
(* Why nobody is lost but by a mistake.  The argument follows the placements  *)
(* of agents: an event is an add_agent that was proposed, at an index and in  *)
(* a term of the log of a shard, at a time of its own.                        *)

Event == [shard : Shard, agent : Agent, term : Nat, index : Nat, time : Nat]

HoldsEvent(q, e) ==
    e.index \in 1..Len(log[e.shard][q]) /\ log[e.shard][q][e.index].term = e.term
Reached(q, e) == applied[e.shard][q] >= e.index /\ HoldsEvent(q, e)
Durable(e) == \E q \in Server : Reached(q, e)

\* The agent is known to have been taken in somewhere later.
Overruled(E, e) == \E f \in E : f.agent = e.agent /\ f.time > e.time /\ Durable(f)

Snapshot(s, q, j) == log[s][q][j].agents

\* An event is in the log of the leader of its term and is a snapshot wherever it is.
Recorded(e) ==
    /\ Backed(e.shard, e.term)
    /\ \A n \in Server : leads[e.shard][n] /\ term[e.shard][n] = e.term => HoldsEvent(n, e)
    /\ \A q \in Server : HoldsEvent(q, e) => Snapshot(e.shard, q, e.index) # NoOp

\* A log that holds a placement keeps the agent, until the agent is elsewhere.
Kept(E, e) ==
    ~Overruled(E, e) => \A q \in Server : HoldsEvent(q, e) =>
        \A j \in e.index..Len(log[e.shard][q]) :
            Snapshot(e.shard, q, j) # NoOp => Snapshot(e.shard, q, j)[e.agent] # Nowhere

\* So does the registry of a server that applied it,
Registered(E, e) ==
    ~Overruled(E, e) => \A q \in Server : Reached(q, e) => agents[e.shard][q][e.agent] # Nowhere

\* and what an add_agent may put back.
Restorable(E, e) ==
    ~Overruled(E, e) => \A c \in adds :
        /\ c.stage = "committing" /\ c.shard = e.shard /\ applied[c.shard][c.at] < c.index
        /\ Reached(c.at, e)
        => c.before[e.agent] # Nowhere

\* The agent of call c left its shard for the last time before event e.
Answers(left, c, e) == c.by \in Server => e.time > left[c.by][tick[c.by].call.from]

\* Behind each proposal and each positive answer there is an event.
CallBacked(E, left, c) ==
    /\ c.stage = "committing" =>
         \E e \in E : /\ e.shard = c.shard /\ e.agent = c.agent /\ e.term = c.term /\ e.index = c.index
                      /\ Answers(left, c, e)
    /\ c.stage = "yes" /\ c.by \in Server =>
         \E e \in E : e.agent = c.agent /\ Durable(e) /\ Answers(left, c, e)

\* What a tick holds: departures, and which of them were accepted.
Leaving(t) ==
    CASE t.at = "moving"   -> t.out
      [] t.at = "sending"  -> t.out \cup {t.call} \cup t.done
      [] t.at = "removing" -> t.done
      [] OTHER             -> {}
Finished(t) == IF t.at \in {"sending", "removing"} THEN t.done ELSE {}

\* An accepted agent has a durable place that is newer than its departure.
DoneBacked(E, left, n) ==
    \A d \in Finished(tick[n]) :
        \E e \in E : e.agent = d.agent /\ Durable(e) /\ e.time > left[n][d.from]

\* Whoever is on its way and did not come back has no place that is newer.
GoneSince(E, left, n) ==
    \A d \in Leaving(tick[n]) \cap Departure : <<n, d>> \notin back =>
        \A e \in E : e.shard = d.from /\ e.agent = d.agent => e.time <= left[n][d.from]

Placed(E, a) == \E e \in E : e.agent = a /\ Durable(e)

Timed(E, clock, left) ==
    /\ E \subseteq Event /\ clock \in Nat /\ left \in [Server -> [Shard -> Nat]]
    /\ \A e \in E : e.time <= clock
    /\ \A n \in Server, s \in Shard : left[n][s] <= clock

Events(E, clock, left) ==
    /\ Timed(E, clock, left)
    /\ \A e \in E : Recorded(e) /\ Kept(E, e) /\ Registered(E, e) /\ Restorable(E, e)
    /\ \A c \in adds : CallBacked(E, left, c)
    /\ \A n \in Server : DoneBacked(E, left, n) /\ GoneSince(E, left, n)
    /\ \A a \in placed : Placed(E, a)

-----------------------------------------------------------------------------
(* What a step of a group does to events. *)

\* What a group has applied stays: an event that was reached is reached.
LEMMA ReachedStays ==
  ASSUME GroupTypes, NEW e \in Event, GroupStep(e.shard), GroupInv(e.shard),
         NEW q \in Server, Reached(q, e)
  PROVE  Reached(q, e)'
<1>0. e.shard \in Shard /\ e.index \in Nat
  BY DEF Event
<1>1. applied'[e.shard][q] >= applied[e.shard][q] /\ applied'[e.shard][q] \in Nat /\ applied[e.shard][q] \in Nat
  BY <1>0, AppliedGrows, LogTypes
<1>2. e.index \in 1..applied[e.shard][q]
  BY <1>0, <1>1, LogTypes DEF Reached, HoldsEvent
<1>3. e.index \in 1..Len(log'[e.shard][q]) /\ log'[e.shard][q][e.index] = log[e.shard][q][e.index]
  BY <1>0, <1>2, AppliedStays DEF GroupInv
<1>. QED BY <1>0, <1>1, <1>2, <1>3 DEF Reached, HoldsEvent

\* A log that holds an event after the step got it from one that held it before.
LEMMA EventSources ==
  ASSUME GroupTypes, NEW e \in Event, GroupStep(e.shard), Recorded(e),
         NEW q \in Server, HoldsEvent(q, e)',
         NEW j \in e.index..Len(log'[e.shard][q])
  PROVE  \/ \E p \in Server : /\ HoldsEvent(p, e) /\ j \in 1..Len(log[e.shard][p])
                              /\ \A k \in 1..j : log'[e.shard][q][k] = log[e.shard][p][k]
         \/ \E r \in Entry : /\ Grows(e.shard, q, r) /\ j = Len(log[e.shard][q]) + 1
                             /\ log'[e.shard][q][j] = r /\ HoldsEvent(q, e) /\ e.index < j
<1>. DEFINE s == e.shard
<1>0. s \in Shard /\ e.index \in Nat /\ e.term \in Nat
  BY DEF Event
<1>1. e.index \in 1..Len(log'[s][q]) /\ log'[s][q][e.index].term = e.term
  BY DEF HoldsEvent
<1>. HIDE DEF s
<1>. DEFINE Old(k) == \E p \in Server : k \in 1..Len(log[s][p]) /\ \A x \in 1..k : log'[s][q][x] = log[s][p][x]
            New(k) == \E r \in Entry : Grows(s, q, r) /\ k = Len(log[s][q]) + 1 /\ log'[s][q][k] = r
<1>2. GroupStep(s) /\ s = e.shard /\ Recorded(e)
  BY DEF s
<1>3. j \in 1..Len(log'[s][q]) /\ e.index \in 1..j
  BY <1>0, <1>1 DEF s
<1>4. Old(j) \/ New(j)
  BY <1>0, <1>2, <1>3, EntrySources
<1>5. Old(e.index) \/ New(e.index)
  BY <1>0, <1>1, <1>2, EntrySources
<1>6. CASE Old(j)
  <2>1. PICK p \in Server : j \in 1..Len(log[s][p]) /\ \A x \in 1..j : log'[s][q][x] = log[s][p][x]
    BY <1>6
  <2>2. e.index \in 1..Len(log[s][p])
    BY <1>3, <2>1, <1>0, LogTypes
  <2>3. log[s][p][e.index].term = e.term
    BY <1>1, <1>3, <2>1
  <2>. QED BY <1>2, <2>1, <2>2, <2>3 DEF HoldsEvent
<1>7. CASE New(j)
  <2>1. PICK r \in Entry : Grows(s, q, r) /\ j = Len(log[s][q]) + 1 /\ log'[s][q][j] = r
    BY <1>7
  <2>2. \A k \in 1..Len(log[s][q]) : log'[s][q][k] = log[s][q][k]
    BY <1>0, <2>1, Grown
  <2>3. leads'[s][q] /\ r.term = term'[s][q]
    BY <2>1 DEF Grows
  <2>4. e.index # j
    <3>1. SUFFICES ASSUME e.index = j PROVE FALSE
      OBVIOUS
    <3>2. e.term = term'[s][q]
      BY <1>1, <2>1, <2>3, <3>1
    <3>3. CASE leads[s][q] /\ term'[s][q] = term[s][q]
      <4>1. e.index \in 1..Len(log[s][q])
        BY <1>2, <3>2, <3>3 DEF Recorded, HoldsEvent
      <4>. QED BY <1>0, <2>1, <3>1, <4>1, LogTypes
    <3>4. ASSUME NEW Q \in SUBSET Server, NEW t \in Nat, Elects(s, q, Q, t) PROVE FALSE
      <4>1. e.term < t
        BY <1>0, <1>2, <3>4, BackedOld DEF Recorded
      <4>2. term'[s][q] = t
        BY <3>4 DEF Elects
      <4>. QED BY <1>0, <3>2, <4>1, <4>2
    <3>. QED BY <1>0, <1>2, <2>3, <3>3, <3>4, LeaderSources
  <2>5. Len(log[s][q]) \in Nat
    BY <1>0, LogTypes
  <2>6. e.index < j /\ e.index \in 1..Len(log[s][q])
    BY <1>0, <1>3, <2>1, <2>4, <2>5
  <2>7. HoldsEvent(q, e)
    BY <1>1, <1>2, <2>2, <2>6 DEF HoldsEvent
  <2>. QED BY <1>2, <2>1, <2>6, <2>7
<1>. QED BY <1>4, <1>6, <1>7

\* Events stay on record.
LEMMA RecordedStep ==
  ASSUME GroupTypes, GroupTypes', NEW e \in Event, GroupStep(e.shard), Recorded(e)
  PROVE  Recorded(e)'
<1>. DEFINE s == e.shard
<1>0. s \in Shard /\ e.index \in Nat /\ e.term \in Nat
  BY DEF Event
<1>1. Backed(s, e.term)'
  <2>1. PICK x \in Shard, t \in Nat : x = s /\ t = e.term
    BY <1>0
  <2>2. Backed(x, t)'
    BY <2>1, BackedStays DEF Recorded
  <2>. QED BY <2>1, <2>2
<1>2. ASSUME NEW n \in Server, leads'[s][n], term'[s][n] = e.term PROVE HoldsEvent(n, e)'
  <2>1. CASE leads[s][n] /\ term'[s][n] = term[s][n]
    <3>1. HoldsEvent(n, e)
      BY <1>2, <2>1 DEF Recorded
    <3>2. Len(log[s][n]) \in Nat
      BY <1>0, LogTypes
    <3>3. CASE log'[s][n] = log[s][n]
      BY <3>1, <3>3 DEF HoldsEvent
    <3>4. ASSUME NEW r \in Entry, Grows(s, n, r) PROVE HoldsEvent(n, e)'
      <4>1. Len(log'[s][n]) = Len(log[s][n]) + 1 /\ \A i \in 1..Len(log[s][n]) : log'[s][n][i] = log[s][n][i]
        BY <1>0, <3>4, Grown
      <4>2. e.index \in 1..Len(log[s][n]) /\ log[s][n][e.index].term = e.term
        BY <3>1 DEF HoldsEvent
      <4>3. log'[s][n][e.index] = log[s][n][e.index]
        BY <4>1, <4>2
      <4>4. e.index \in 1..Len(log'[s][n])
        <5>. HIDE DEF s
        <5>. QED BY <1>0, <3>2, <4>1, <4>2
      <4>. QED BY <4>2, <4>3, <4>4 DEF HoldsEvent
    <3>5. ASSUME NEW Q \in SUBSET Server, NEW t \in Nat, Elects(s, n, Q, t) PROVE FALSE
      BY <2>1, <3>5 DEF Elects
    <3>. QED BY <1>0, <1>2, <3>3, <3>4, <3>5, LeaderLog
  <2>2. ASSUME NEW Q \in SUBSET Server, NEW t \in Nat, Elects(s, n, Q, t) PROVE FALSE
    <3>1. e.term < t
      BY <1>0, <2>2, BackedOld DEF Recorded
    <3>2. term'[s][n] = t
      BY <2>2 DEF Elects
    <3>. QED BY <1>0, <1>2, <3>1, <3>2
  <2>. QED BY <1>0, <1>2, <2>1, <2>2, LeaderSources
<1>3. ASSUME NEW q \in Server, HoldsEvent(q, e)' PROVE Snapshot(s, q, e.index)' # NoOp
  <2>1. e.index \in e.index..Len(log'[s][q]) /\ e.index \in 1..e.index
    BY <1>0, <1>3, LogTypesNext DEF HoldsEvent
  <2>2. PICK j \in e.index..Len(log'[s][q]) : j = e.index
    BY <2>1
  <2>3. \/ \E p \in Server : HoldsEvent(p, e) /\ \A k \in 1..j : log'[s][q][k] = log[s][p][k]
        \/ e.index < j
    BY <1>3, EventSources, SMTT(30)
  <2>4. PICK p \in Server : HoldsEvent(p, e) /\ log'[s][q][e.index] = log[s][p][e.index]
    BY <1>0, <2>1, <2>2, <2>3
  <2>. QED BY <2>4 DEF Recorded, Snapshot
<1>. QED BY <1>1, <1>2, <1>3 DEF Recorded

\* The groups go on as proved above.
Runs ==
    /\ GroupTypes /\ GroupTypes'
    /\ \A s \in Shard : GroupStep(s) /\ GroupInv(s) /\ GroupInv(s)'

\* What is durable stays so, and what is overruled as well.
LEMMA DurableStays ==
  ASSUME Runs, NEW e \in Event, Durable(e)
  PROVE  Durable(e)'
<1>1. e.shard \in Shard
  BY DEF Event
<1>. QED BY <1>1, ReachedStays DEF Durable, Runs

\* Later placements stay later.
LEMMA OverruledStays ==
  ASSUME Runs, NEW E \in SUBSET Event, NEW F \in SUBSET Event, E \subseteq F,
         NEW e \in Event, Overruled(E, e)
  PROVE  Overruled(F, e)'
<1>1. PICK f \in E : f.agent = e.agent /\ f.time > e.time /\ Durable(f)
  BY DEF Overruled
<1>2. Durable(f)'
  BY <1>1, DurableStays
<1>. QED BY <1>1, <1>2 DEF Overruled

\* What the server that grew its log proposed decides whether an event is kept.
LEMMA KeptStep ==
  ASSUME Runs, NEW E \in SUBSET Event, NEW F \in SUBSET Event, E \subseteq F,
         NEW e \in Event, Recorded(e), Kept(E, e),
         \A q \in Server, r \in Entry :
            Grows(e.shard, q, r) /\ r.agents # NoOp /\ HoldsEvent(q, e) /\ ~Overruled(F, e)'
            => r.agents[e.agent] # Nowhere
  PROVE  Kept(F, e)'
<1>. DEFINE s == e.shard
<1>0. s \in Shard /\ GroupStep(s)
  BY DEF Event, Runs
<1>1. SUFFICES ASSUME ~Overruled(F, e)', NEW q \in Server, HoldsEvent(q, e)',
                      NEW j \in e.index..Len(log'[s][q]), log'[s][q][j].agents # NoOp
               PROVE  log'[s][q][j].agents[e.agent] # Nowhere
  BY DEF Kept, Snapshot
<1>2. ~Overruled(E, e)
  BY <1>1, OverruledStays
<1>3. CASE \E p \in Server : /\ HoldsEvent(p, e) /\ j \in 1..Len(log[s][p])
                             /\ \A k \in 1..j : log'[s][q][k] = log[s][p][k]
  <2>1. PICK p \in Server : /\ HoldsEvent(p, e) /\ j \in 1..Len(log[s][p])
                            /\ \A k \in 1..j : log'[s][q][k] = log[s][p][k]
    BY <1>3
  <2>2. j \in e.index..Len(log[s][p]) /\ j \in 1..j
    BY <2>1
  <2>3. log'[s][q][j] = log[s][p][j]
    BY <2>1, <2>2
  <2>4. log[s][p][j].agents # NoOp
    BY <1>1, <2>3
  <2>. QED BY <1>2, <2>1, <2>2, <2>3, <2>4 DEF Kept, Snapshot
<1>4. CASE \E r \in Entry : Grows(s, q, r) /\ log'[s][q][j] = r /\ HoldsEvent(q, e)
  BY <1>1, <1>4
<1>. QED BY <1>0, <1>1, <1>3, <1>4, EventSources DEF Runs

\* Nothing is reached by a server that applies nothing.
LEMMA ReachedBefore ==
  ASSUME Runs, NEW e \in Event, NEW q \in Server, Reached(q, e)', e.index <= applied[e.shard][q]
  PROVE  Reached(q, e)
<1>. DEFINE s == e.shard
<1>0. s \in Shard /\ e.index \in Nat /\ GroupInv(s) /\ GroupStep(s)
  BY DEF Event, Runs
<1>1. e.index \in 1..Len(log'[s][q]) /\ log'[s][q][e.index].term = e.term
  BY DEF Reached, HoldsEvent
<1>2. applied[s][q] \in Nat /\ Len(log[s][q]) \in Nat
  BY <1>0, LogTypes DEF Runs
<1>. HIDE DEF s
<1>3. e.index >= 1 /\ e.index <= applied[s][q]
  BY <1>1 DEF s
<1>4. applied[s][q] <= Len(log[s][q])
  BY <1>0, <1>2, <1>3 DEF GroupInv, AppliedSafe
<1>5. e.index \in 1..applied[s][q] /\ e.index \in 1..Len(log[s][q])
  BY <1>0, <1>2, <1>3, <1>4
<1>6. log'[s][q][e.index] = log[s][q][e.index]
  BY <1>0, <1>5, AppliedStays DEF GroupInv, Runs
<1>. QED BY <1>1, <1>3, <1>5, <1>6 DEF Reached, HoldsEvent, s

\* A registry follows its server's log.
Applies(s, q) ==
    agents'[s][q] = Applying(agents[s][q], log'[s][q], applied[s][q], applied'[s][q])

\* A registry that changes by entries that are applied keeps who is in the log.
LEMMA RegisteredByLog ==
  ASSUME Runs, NEW E \in SUBSET Event, NEW F \in SUBSET Event, E \subseteq F,
         NEW e \in Event, Recorded(e)', Kept(F, e)', Registered(E, e),
         \A q \in Server : Applies(e.shard, q)
  PROVE  Registered(F, e)'
<1>. DEFINE s == e.shard
<1>0. s \in Shard /\ e.index \in Nat /\ GroupInv(s)' /\ GroupInv(s) /\ GroupStep(s)
  BY DEF Event, Runs
<1>1. SUFFICES ASSUME ~Overruled(F, e)', NEW q \in Server, Reached(q, e)'
               PROVE  agents'[s][q][e.agent] # Nowhere
  BY DEF Registered
<1>2. ~Overruled(E, e)
  BY <1>1, OverruledStays
<1>3. /\ applied[s][q] \in Nat /\ applied'[s][q] \in Nat /\ log'[s][q] \in Seq(Entry)
      /\ Len(log'[s][q]) \in Nat
  BY <1>0, LogTypes, LogTypesNext DEF Runs
<1>4. HoldsEvent(q, e)' /\ e.index \in 1..applied'[s][q]
  <2>1. /\ HoldsEvent(q, e)' /\ e.index \in 1..Len(log'[s][q]) /\ applied'[s][q] >= e.index
    BY <1>1 DEF Reached, HoldsEvent
  <2>. HIDE DEF s
  <2>. QED BY <1>0, <1>3, <2>1
<1>5. applied'[s][q] <= Len(log'[s][q])
  BY <1>0, <1>3, <1>4 DEF GroupInv, AppliedSafe
<1>6. log'[s][q][e.index].agents # NoOp
  BY <1>4 DEF Recorded, Snapshot
<1>7. \A j \in e.index..Len(log'[s][q]) :
         log'[s][q][j].agents # NoOp => log'[s][q][j].agents[e.agent] # Nowhere
  BY <1>1, <1>4 DEF Kept, Snapshot
<1>8. agents'[s][q] = Applying(agents[s][q], log'[s][q], applied[s][q], applied'[s][q])
  BY ZenonT(40) DEF Applies
<1>9. \/ /\ agents'[s][q] = agents[s][q]
         /\ \A k \in applied[s][q] + 1..applied'[s][q] : log'[s][q][k].agents = NoOp
      \/ \E k \in applied[s][q] + 1..applied'[s][q] :
            /\ agents'[s][q] = log'[s][q][k].agents /\ log'[s][q][k].agents # NoOp
            /\ \A x \in k + 1..applied'[s][q] : log'[s][q][x].agents = NoOp
  <2>. DEFINE l == log'[s][q]
              r == agents[s][q]
              i == applied[s][q]
              j == applied'[s][q]
  <2>1. l \in Seq(Entry) /\ i \in Nat /\ j \in Nat /\ agents'[s][q] = Applying(r, l, i, j)
    BY <1>3, <1>8
  <2>. HIDE DEF l, r, i, j
  <2>2. \/ /\ Applying(r, l, i, j) = r
           /\ \A k \in i + 1..j : l[k].agents = NoOp
        \/ \E k \in i + 1..j : /\ Applying(r, l, i, j) = l[k].agents /\ l[k].agents # NoOp
                               /\ \A x \in k + 1..j : l[x].agents = NoOp
    BY <2>1, ApplyingIs
  <2>. QED BY <2>1, <2>2 DEF l, r, i, j
<1>. HIDE DEF s
<1>10. CASE e.index <= applied[s][q]
  <2>1. Reached(q, e)
    BY <1>1, <1>10, ReachedBefore DEF s
  <2>2. agents[s][q][e.agent] # Nowhere
    BY <1>2, <2>1 DEF Registered, s
  <2>3. ASSUME NEW k \in applied[s][q] + 1..applied'[s][q],
               agents'[s][q] = log'[s][q][k].agents, log'[s][q][k].agents # NoOp
        PROVE  agents'[s][q][e.agent] # Nowhere
    <3>1. k \in e.index..Len(log'[s][q])
      BY <1>0, <1>3, <1>5, <1>10
    <3>. QED BY <1>7, <2>3, <3>1
  <2>. QED BY <1>9, <2>2, <2>3
<1>11. CASE e.index > applied[s][q]
  <2>1. e.index \in applied[s][q] + 1..applied'[s][q]
    BY <1>0, <1>3, <1>4, <1>11
  <2>2. PICK k \in applied[s][q] + 1..applied'[s][q] :
            /\ agents'[s][q] = log'[s][q][k].agents /\ log'[s][q][k].agents # NoOp
            /\ \A x \in k + 1..applied'[s][q] : log'[s][q][x].agents = NoOp
    BY <1>6, <1>9, <2>1
  <2>3. e.index \notin k + 1..applied'[s][q]
    BY <1>6, <2>2
  <2>4. k \in e.index..Len(log'[s][q])
    BY <1>0, <1>3, <1>4, <1>5, <2>3
  <2>. QED BY <1>7, <2>2, <2>4
<1>. QED BY <1>0, <1>3, <1>10, <1>11

\* Where nothing is applied, agents leave a registry only by hand.
LEMMA RegisteredKept ==
  ASSUME Runs, NEW E \in SUBSET Event, NEW F \in SUBSET Event, E \subseteq F,
         NEW e \in Event, Registered(E, e), applied' = applied,
         \A q \in Server :
            Reached(q, e) /\ ~Overruled(F, e)' /\ agents[e.shard][q][e.agent] # Nowhere
            => agents'[e.shard][q][e.agent] # Nowhere
  PROVE  Registered(F, e)'
<1>1. SUFFICES ASSUME ~Overruled(F, e)', NEW q \in Server, Reached(q, e)'
               PROVE  agents'[e.shard][q][e.agent] # Nowhere
  BY DEF Registered
<1>2. ~Overruled(E, e)
  BY <1>1, OverruledStays
<1>3. e.index <= applied[e.shard][q]
  <2>1. e.shard \in Shard /\ e.index \in Nat
    BY DEF Event
  <2>2. applied[e.shard][q] \in Nat
    BY <2>1, LogTypes DEF Runs
  <2>. QED BY <1>1, <2>1, <2>2 DEF Reached
<1>4. Reached(q, e)
  BY <1>1, <1>3, ReachedBefore
<1>. QED BY <1>1, <1>2, <1>4 DEF Registered

\* A running add_agent has nothing new to put back.
LEMMA RestorableStep ==
  ASSUME Runs, LoopTypes, Locks, NEW E \in SUBSET Event, NEW F \in SUBSET Event, E \subseteq F,
         NEW e \in Event, Restorable(E, e), Registered(E, e),
         \A c \in adds' : c.stage = "committing" =>
            \/ \E b \in adds : /\ b.stage = "committing" /\ b.shard = c.shard /\ b.at = c.at
                               /\ b.index = c.index /\ b.before = c.before
            \/ c.at \in Server /\ c.before = agents[c.shard][c.at] /\ applied' = applied
  PROVE  Restorable(F, e)'
<1>1. SUFFICES ASSUME ~Overruled(F, e)', NEW c \in adds', c.stage = "committing", c.shard = e.shard,
                      applied'[c.shard][c.at] < c.index, Reached(c.at, e)'
               PROVE  c.before[e.agent] # Nowhere
  BY DEF Restorable
<1>2. ~Overruled(E, e)
  BY <1>1, OverruledStays
<1>13. CASE c.at \in Server /\ c.before = agents[c.shard][c.at] /\ applied' = applied
  <2>1. Reached(c.at, e)
    BY <1>1, <1>13, ReachedBefore DEF Reached
  <2>. QED BY <1>1, <1>2, <1>13, <2>1 DEF Registered
<1>14. SUFFICES ASSUME ~(c.at \in Server /\ c.before = agents[c.shard][c.at] /\ applied' = applied)
                PROVE  c.before[e.agent] # Nowhere
  BY <1>13
<1>3. PICK b \in adds : /\ b.stage = "committing" /\ b.shard = c.shard /\ b.at = c.at
                        /\ b.index = c.index /\ b.before = c.before
  BY <1>1, <1>14
<1>4. b.shard \in Shard /\ b.at \in Server /\ b.index \in Nat
  BY <1>3, CallShapes
<1>5. applied[b.shard][b.at] \in Nat /\ applied'[b.shard][b.at] \in Nat
  BY <1>4, LogTypes, LogTypesNext DEF Runs
<1>6. applied'[b.shard][b.at] >= applied[b.shard][b.at]
  BY <1>4, AppliedGrows DEF Runs
<1>7. applied[b.shard][b.at] >= b.index - 1
  BY <1>3 DEF Locks
<1>8. applied'[b.shard][b.at] < b.index
  BY <1>1, <1>3
<1>9. applied'[b.shard][b.at] = applied[b.shard][b.at] /\ applied[b.shard][b.at] < b.index
  BY <1>4, <1>5, <1>6, <1>7, <1>8
<1>10. e.index <= applied[e.shard][b.at]
  BY <1>1, <1>3, <1>9 DEF Reached
<1>11. Reached(b.at, e)
  BY <1>1, <1>3, <1>4, <1>10, ReachedBefore
<1>. QED BY <1>1, <1>2, <1>3, <1>9, <1>11 DEF Restorable

\* A call keeps its event as long as its caller waits for it.
LEMMA CallBackedStep ==
  ASSUME Runs, NEW E \in SUBSET Event, NEW F \in SUBSET Event, E \subseteq F, NEW left,
         NEW b, NEW c, CallBacked(E, left, b),
         c.stage = b.stage, c.agent = b.agent, c.shard = b.shard,
         c.stage = "committing" => c.term = b.term /\ c.index = b.index,
         c.by \in Server => c.by = b.by /\ tick'[c.by].call = tick[c.by].call
  PROVE  CallBacked(F, left, c)'
<1>1. \A e : Answers(left, b, e) => Answers(left, c, e)'
  BY DEF Answers
<1>2. \A e \in E : Durable(e) => Durable(e)'
  BY DurableStays
<1>3. CASE c.stage = "committing"
  BY <1>1, <1>3 DEF CallBacked
<1>4. ASSUME c.stage = "yes", c.by \in Server
      PROVE  \E e \in F : e.agent = c.agent /\ Durable(e)' /\ Answers(left, c, e)'
  BY <1>1, <1>2, <1>4 DEF CallBacked
<1>. QED BY <1>3, <1>4 DEF CallBacked

\* A tick that accepts nobody has a durable place behind each that it accepted.
LEMMA DoneBackedStep ==
  ASSUME Runs, NEW E \in SUBSET Event, NEW F \in SUBSET Event, E \subseteq F, NEW left, NEW n \in Server,
         DoneBacked(E, left, n), Finished(tick'[n]) \subseteq Finished(tick[n])
  PROVE  DoneBacked(F, left, n)'
<1>1. \A e \in E : Durable(e) => Durable(e)'
  BY DurableStays
<1>. QED BY <1>1 DEF DoneBacked

\* Where nobody is proposed, those on their way remain so.
LEMMA GoneSinceStep ==
  ASSUME NEW E \in SUBSET Event, NEW left, NEW n \in Server, GoneSince(E, left, n), HistoryStep,
         Leaving(tick'[n]) \cap Departure \subseteq Leaving(tick[n])
  PROVE  GoneSince(E, left, n)'
<1>1. ASSUME NEW d \in Leaving(tick'[n]) \cap Departure, <<n, d>> \notin back'
      PROVE  <<n, d>> \notin back
  <2>1. d \in Departures(n) /\ d \in Departures(n)'
    BY <1>1 DEF Departures, Leaving
  <2>. QED BY <1>1, <2>1 DEF HistoryStep
<1>. QED BY <1>1 DEF GoneSince

\* Events that are on record stay as they are, if whoever proposes holds to them.
LEMMA EventsStay ==
  ASSUME Runs, LoopTypes, Locks, NEW E \in SUBSET Event, NEW F \in SUBSET Event, E \subseteq F,
         \A e \in E : Recorded(e) /\ Kept(E, e) /\ Registered(E, e) /\ Restorable(E, e),
         \A e \in E, q \in Server, r \in Entry :
            Grows(e.shard, q, r) /\ r.agents # NoOp /\ HoldsEvent(q, e) /\ ~Overruled(F, e)'
            => r.agents[e.agent] # Nowhere,
         \A e \in E : Recorded(e)' /\ Kept(F, e)' => Registered(F, e)',
         \A c \in adds' : c.stage = "committing" =>
            \/ \E b \in adds : /\ b.stage = "committing" /\ b.shard = c.shard /\ b.at = c.at
                               /\ b.index = c.index /\ b.before = c.before
            \/ c.at \in Server /\ c.before = agents[c.shard][c.at] /\ applied' = applied
  PROVE  \A e \in E : Recorded(e)' /\ Kept(F, e)' /\ Registered(F, e)' /\ Restorable(F, e)'
<1>. SUFFICES ASSUME NEW e \in E
              PROVE  Recorded(e)' /\ Kept(F, e)' /\ Registered(F, e)' /\ Restorable(F, e)'
  OBVIOUS
<1>0. e \in Event /\ e.shard \in Shard
  BY DEF Event
<1>1. Recorded(e)'
  BY <1>0, RecordedStep DEF Runs
<1>2. Kept(F, e)'
  BY <1>0, KeptStep
<1>3. Registered(F, e)'
  BY <1>1, <1>2
<1>4. Restorable(F, e)'
  BY <1>0, RestorableStep
<1>. QED BY <1>1, <1>2, <1>3, <1>4

\* A step without an event and without a departure.
LEMMA PlainStep ==
  ASSUME Runs, LoopTypes, Locks, HistoryStep, NEW E, NEW clock, NEW left, Events(E, clock, left),
         \A e \in E, q \in Server, r \in Entry :
            Grows(e.shard, q, r) /\ r.agents # NoOp /\ HoldsEvent(q, e) /\ ~Overruled(E, e)'
            => r.agents[e.agent] # Nowhere,
         \A e \in E : Recorded(e)' /\ Kept(E, e)' => Registered(E, e)',
         \A c \in adds' : c.stage = "committing" =>
            \E b \in adds : /\ b.stage = "committing" /\ b.shard = c.shard /\ b.at = c.at
                            /\ b.index = c.index /\ b.before = c.before,
         \A c \in adds' : CallBacked(E, left, c)',
         \A n \in Server : DoneBacked(E, left, n)',
         \A n \in Server : Leaving(tick'[n]) \cap Departure \subseteq Leaving(tick[n]),
         \A a \in placed' \ placed : Placed(E, a)'
  PROVE  Events(E, clock, left)'
<1>0. E \in SUBSET Event /\ Timed(E, clock, left)
  BY DEF Events, Timed
<1>1. \A e \in E : Recorded(e)' /\ Kept(E, e)' /\ Registered(E, e)' /\ Restorable(E, e)'
  <2>1. \A e \in E : Recorded(e) /\ Kept(E, e) /\ Registered(E, e) /\ Restorable(E, e)
    BY DEF Events
  <2>. QED BY <1>0, <2>1, EventsStay
<1>2. \A n \in Server : GoneSince(E, left, n)'
  BY <1>0, GoneSinceStep DEF Events
<1>3. \A a \in placed' : Placed(E, a)'
  <2>1. ASSUME NEW a \in placed PROVE Placed(E, a)'
    BY <1>0, <2>1, DurableStays DEF Events, Placed
  <2>. QED BY <2>1
<1>4. Timed(E, clock, left)'
  BY <1>0 DEF Timed
<1>. QED BY <1>1, <1>2, <1>3, <1>4 DEF Events

\* Logs that stay do not grow.
LEMMA NoGrowth ==
  ASSUME GroupTypes, NEW s \in Shard, NEW q \in Server, log'[s][q] = log[s][q], NEW r \in Entry
  PROVE  ~Grows(s, q, r)
<1>1. Len(log[s][q]) \in Nat
  BY LogTypes
<1>. QED BY <1>1, Grown

-----------------------------------------------------------------------------
(* Raft's steps. *)

\* All that the group itself adds to a log is a leader's first entry.
LEMMA RaftGrows ==
  ASSUME GroupTypes, NEW s \in Shard, NEW n \in Server, Raft(s, n),
         NEW x \in Shard, NEW q \in Server, NEW r \in Entry, Grows(x, q, r)
  PROVE  r.agents = NoOp
<1>1. CASE Elect(s, n)
  <2>1. CASE x = s /\ q = n
    <3>1. PICK Q \in SUBSET Server, t \in Nat : Elects(s, n, Q, t)
      BY <1>1, ElectionElects
    <3>2. Grows(s, n, [term |-> t, agents |-> NoOp]) /\ [term |-> t, agents |-> NoOp] \in Entry
      BY <3>1, GrowthSteps DEF Grows
    <3>3. r = [term |-> t, agents |-> NoOp]
      BY <2>1, <3>2, Grown
    <3>. QED BY <3>3
  <2>2. CASE ~(x = s /\ q = n)
    <3>1. log'[x][q] = log[x][q]
      BY <1>1, <2>2 DEF Elect, GroupTypes
    <3>. QED BY <3>1, NoGrowth
  <2>. QED BY <2>1, <2>2
<1>2. CASE Commit(s, n)
  BY <1>2, NoGrowth DEF Commit
<1>3. ASSUME NEW m \in Server, Replicate(s, n, m) PROVE r.agents = NoOp
  <2>1. CASE x = s /\ q = m
    BY <1>3, <2>1 DEF Replicate, GroupTypes, Grows
  <2>2. CASE ~(x = s /\ q = m)
    <3>1. log'[x][q] = log[x][q]
      BY <1>3, <2>2 DEF Replicate, GroupTypes
    <3>. QED BY <3>1, NoGrowth
  <2>. QED BY <2>1, <2>2
<1>. QED BY <1>1, <1>2, <1>3 DEF Raft

\* Nothing applied leaves a registry as it is.
LEMMA ApplyingNothing ==
  ASSUME NEW r, NEW l, NEW i \in Nat
  PROVE  Applying(r, l, i, i) = r
  BY DEF Applying

\* What the group does to a registry is to apply entries.
LEMMA RaftApplies ==
  ASSUME Types, NEW s \in Shard, NEW n \in Server, Raft(s, n), NEW x \in Shard, NEW q \in Server
  PROVE  Applies(x, q)
<1>0. /\ GroupTypes /\ LoopTypes /\ applied[x][q] \in Nat
  BY LogTypes DEF Types
<1>1. ASSUME agents'[x][q] = agents[x][q], applied'[x][q] = applied[x][q] PROVE Applies(x, q)
  BY <1>0, <1>1, ApplyingNothing DEF Applies
<1>2. CASE Elect(s, n)
  BY <1>1, <1>2 DEF Elect
<1>3. CASE Commit(s, n)
  <2>1. CASE x = s /\ q = n
    BY <1>0, <1>3, <2>1 DEF Commit, GroupTypes, LoopTypes, Applies
  <2>2. CASE ~(x = s /\ q = n)
    <3>1. agents'[x][q] = agents[x][q] /\ applied'[x][q] = applied[x][q]
      BY <1>0, <1>3, <2>2 DEF Commit, GroupTypes, LoopTypes
    <3>. QED BY <1>1, <3>1
  <2>. QED BY <2>1, <2>2
<1>4. ASSUME NEW m \in Server, Replicate(s, n, m) PROVE Applies(x, q)
  <2>. DEFINE upTo == Max({applied[s][m], applied[s][n]})
  <2>0. /\ log' = [log EXCEPT ![s][m] = log[s][n]]
        /\ applied' = [applied EXCEPT ![s][m] = upTo]
        /\ agents' = [agents EXCEPT ![s][m] = Applying(@, log[s][n], applied[s][m], upTo)]
    BY <1>4 DEF Replicate
  <2>. HIDE DEF upTo
  <2>1. CASE x = s /\ q = m
    BY <1>0, <2>0, <2>1 DEF GroupTypes, LoopTypes, Applies
  <2>2. CASE ~(x = s /\ q = m)
    <3>1. agents'[x][q] = agents[x][q] /\ applied'[x][q] = applied[x][q]
      BY <1>0, <2>0, <2>2 DEF GroupTypes, LoopTypes
    <3>. QED BY <1>1, <3>1
  <2>. QED BY <2>1, <2>2
<1>. QED BY <1>2, <1>3, <1>4 DEF Raft

\* Where calls and ticks stay, so do the events behind them.
LEMMA CallsStay ==
  ASSUME Runs, NEW E \in SUBSET Event, NEW left, adds' = adds,
         \A c \in adds : c.by \in Server => tick'[c.by].call = tick[c.by].call,
         \A c \in adds : CallBacked(E, left, c)
  PROVE  \A c \in adds' : CallBacked(E, left, c)'
  BY CallBackedStep

\* Elections, heartbeats and commits keep the record.
LEMMA RaftEvents ==
  ASSUME Runs, Types, Locks, HistoryStep, NEW E, NEW clock, NEW left, Events(E, clock, left),
         NEW s \in Shard, NEW n \in Server, Raft(s, n)
  PROVE  Events(E, clock, left)'
<1>0. E \in SUBSET Event /\ LoopTypes /\ GroupTypes
  BY DEF Events, Timed, Types
<1>1. adds' = adds /\ tick' = tick /\ placed' = placed
  BY DEF Raft, Elect, Commit, Replicate
<1>2. \A e \in E, q \in Server, r \in Entry : Grows(e.shard, q, r) => r.agents = NoOp
  BY <1>0, RaftGrows DEF Event
<1>3. ASSUME NEW e \in E, Recorded(e)', Kept(E, e)' PROVE Registered(E, e)'
  <2>1. e \in Event /\ e.shard \in Shard /\ Registered(E, e)
    BY <1>0 DEF Event, Events
  <2>2. \A q \in Server : Applies(e.shard, q)
    BY <2>1, RaftApplies
  <2>. QED BY <1>0, <1>3, <2>1, <2>2, RegisteredByLog
<1>4. \A c \in adds' : CallBacked(E, left, c)'
  BY <1>0, <1>1, CallsStay DEF Events
<1>5. \A m \in Server : DoneBacked(E, left, m)'
  BY <1>0, <1>1, DoneBackedStep DEF Events
<1>6. \A c \in adds' : c.stage = "committing" =>
         \E b \in adds : /\ b.stage = "committing" /\ b.shard = c.shard /\ b.at = c.at
                         /\ b.index = c.index /\ b.before = c.before
  BY <1>1
<1>7. \A m \in Server : Leaving(tick'[m]) \cap Departure \subseteq Leaving(tick[m])
  BY <1>1
<1>. QED BY <1>0, <1>1, <1>2, <1>3, <1>4, <1>5, <1>6, <1>7, PlainStep

-----------------------------------------------------------------------------
(* The steps of an add_agent. *)

\* Registries that stay keep who was taken in.
LEMMA RegistriesStay ==
  ASSUME Runs, NEW E, NEW clock, NEW left, Events(E, clock, left),
         agents' = agents, applied' = applied
  PROVE  \A e \in E : Registered(E, e)'
<1>1. E \in SUBSET Event /\ \A e \in E : Registered(E, e)
  BY DEF Events, Timed
<1>. QED BY <1>1, RegisteredKept

\* A step that leaves groups and ticks alone.
LEMMA CallStep ==
  ASSUME Runs, Types, Locks, HistoryStep, NEW E, NEW clock, NEW left, Events(E, clock, left),
         UNCHANGED raftVars, tick' = tick,
         \A e \in E : Registered(E, e)',
         \A d \in adds' : d \in adds \/ (d.stage # "committing" /\ CallBacked(E, left, d)'),
         \A a \in placed' \ placed : Placed(E, a)'
  PROVE  Events(E, clock, left)'
<1>0. E \in SUBSET Event /\ LoopTypes /\ GroupTypes /\ log' = log
  BY DEF Events, Timed, Types, raftVars
<1>1. \A e \in E, q \in Server, r \in Entry : ~Grows(e.shard, q, r)
  BY <1>0, NoGrowth DEF Event
<1>2. ASSUME NEW d \in adds' PROVE CallBacked(E, left, d)'
  <2>1. ASSUME d \in adds PROVE CallBacked(E, left, d)'
    BY <1>0, <2>1, CallBackedStep DEF Events
  <2>. QED BY <2>1
<1>3. \A m \in Server : DoneBacked(E, left, m)'
  BY <1>0, DoneBackedStep DEF Events
<1>4. \A d \in adds' : d.stage = "committing" =>
         \E b \in adds : /\ b.stage = "committing" /\ b.shard = d.shard /\ b.at = d.at
                         /\ b.index = d.index /\ b.before = d.before
  OBVIOUS
<1>5. \A m \in Server : Leaving(tick'[m]) \cap Departure \subseteq Leaving(tick[m])
  OBVIOUS
<1>. QED BY <1>0, <1>1, <1>2, <1>3, <1>4, <1>5, PlainStep

\* The event of a proposal that its leader applied is durable.
LEMMA ProposalDurable ==
  ASSUME Runs, LoopTypes, NEW E, NEW clock, NEW left, Events(E, clock, left),
         NEW c \in adds, AddDone(c)
  PROVE  \E e \in E : e.agent = c.agent /\ Durable(e)' /\ Answers(left, c, e)
<1>1. /\ c.stage = "committing" /\ leads[c.shard][c.at] /\ term[c.shard][c.at] = c.term
      /\ applied[c.shard][c.at] >= c.index /\ c.at \in Server
  BY CallShapes DEF AddDone, Applied
<1>2. PICK e \in E : /\ e.shard = c.shard /\ e.agent = c.agent /\ e.term = c.term /\ e.index = c.index
                     /\ Answers(left, c, e)
  BY <1>1 DEF Events, CallBacked
<1>3. Reached(c.at, e)
  BY <1>1, <1>2 DEF Events, Recorded, Reached
<1>4. Durable(e) /\ e \in Event
  BY <1>1, <1>3 DEF Durable, Events, Timed
<1>. QED BY <1>2, <1>4, DurableStays

\* So does an add_agent that begins, succeeds, fails or is cancelled, unless it takes
\* back news.
LEMMA CallEvents ==
  ASSUME Runs, Types, Locks, HistoryStep, ~mistaken',
         NEW E, NEW clock, NEW left, Events(E, clock, left),
         NEW c \in adds, AddBegin(c) \/ AddDone(c) \/ AddFails(c) \/ AddCancelled(c)
  PROVE  Events(E, clock, left)'
<1>0. E \in SUBSET Event /\ LoopTypes /\ GroupTypes
  BY DEF Events, Timed, Types
<1>1. ASSUME Return(c, "no")
      PROVE  /\ \A d \in adds' : d \in adds \/ (d.stage # "committing" /\ CallBacked(E, left, d)')
             /\ placed' = placed
  <2>1. [Asked(c.shard, c.at, c.agent, c.by) EXCEPT !.stage = "no"].stage = "no"
    BY DEF Asked
  <2>2. placed' = placed
    BY <1>1 DEF Return
  <2>3. \A d \in adds' : d \in adds \/ d.stage = "no"
    BY <1>1, <2>1 DEF Return
  <2>. QED BY <2>2, <2>3 DEF CallBacked
<1>2. CASE AddBegin(c)
  <2>1. UNCHANGED raftVars /\ tick' = tick /\ agents' = agents /\ applied' = applied
    BY <1>2 DEF AddBegin, raftVars
  <2>2. CASE leads[c.shard][c.at]
    <3>1. placed' = placed /\ \A d \in adds' : d \in adds \/ d.stage = "waiting"
      BY <1>2, <2>2 DEF AddBegin
    <3>2. \A d \in adds' : d \in adds \/ (d.stage # "committing" /\ CallBacked(E, left, d)')
      BY <3>1 DEF CallBacked
    <3>. QED BY <2>1, <3>1, <3>2, RegistriesStay, CallStep
  <2>3. CASE ~leads[c.shard][c.at]
    <3>1. Return(c, "no")
      BY <1>2, <2>3 DEF AddBegin
    <3>. QED BY <1>1, <2>1, <3>1, RegistriesStay, CallStep
  <2>. QED BY <2>2, <2>3
<1>3. CASE AddDone(c)
  <2>1. UNCHANGED raftVars /\ tick' = tick /\ agents' = agents /\ applied' = applied /\ Return(c, "yes")
    BY <1>3 DEF AddDone, raftVars
  <2>2. PICK e \in E : e.agent = c.agent /\ Durable(e)' /\ Answers(left, c, e)
    BY <1>0, <1>3, ProposalDurable
  <2>3. ASSUME NEW d \in adds', d \notin adds PROVE d.stage # "committing" /\ CallBacked(E, left, d)'
    <3>1. d = [Asked(c.shard, c.at, c.agent, c.by) EXCEPT !.stage = "yes"] /\ c.by \in Server
      BY <2>1, <2>3 DEF Return
    <3>2. d.stage = "yes" /\ d.agent = c.agent /\ d.by = c.by
      BY <3>1 DEF Asked
    <3>3. Answers(left, d, e)'
      BY <2>1, <2>2, <3>2 DEF Answers
    <3>. QED BY <2>2, <3>2, <3>3 DEF CallBacked
  <2>4. \A a \in placed' \ placed : Placed(E, a)'
    BY <2>1, <2>2 DEF Return, Placed
  <2>. QED BY <2>1, <2>3, <2>4, RegistriesStay, CallStep
<1>4. CASE AddFails(c)
  <2>1. UNCHANGED raftVars /\ tick' = tick /\ applied' = applied /\ Return(c, "no")
    BY <1>4 DEF AddFails, raftVars
  <2>2. c.shard \in Shard /\ c.at \in Server
    BY <1>0, CallShapes
  <2>3. ASSUME NEW e \in E PROVE Registered(E, e)'
    <3>1. e \in Event /\ Registered(E, e) /\ Restorable(E, e)
      BY <1>0 DEF Events
    <3>2. ASSUME NEW q \in Server, Reached(q, e), ~Overruled(E, e)', agents[e.shard][q][e.agent] # Nowhere
          PROVE  agents'[e.shard][q][e.agent] # Nowhere
      <4>1. CASE c.stage = "committing" /\ e.shard = c.shard /\ q = c.at
        <5>1. ~(applied[c.shard][c.at] >= c.index)
          BY <1>4, <4>1 DEF HistoryStep, TakesBackNews
        <5>2. applied[c.shard][c.at] < c.index
          BY <1>0, <2>2, <4>1, <5>1, LogTypes, CallShapes
        <5>3. ~Overruled(E, e)
          BY <1>0, <3>1, <3>2, OverruledStays
        <5>4. c.before[e.agent] # Nowhere
          BY <3>1, <3>2, <4>1, <5>2, <5>3 DEF Restorable
        <5>5. agents'[e.shard][q] = c.before
          BY <1>0, <1>4, <2>2, <4>1 DEF AddFails, LoopTypes
        <5>. QED BY <5>4, <5>5
      <4>2. CASE ~(c.stage = "committing" /\ e.shard = c.shard /\ q = c.at)
        <5>1. agents'[e.shard][q] = agents[e.shard][q]
          BY <1>0, <1>4, <2>2, <4>2, <3>1 DEF AddFails, LoopTypes, Event
        <5>. QED BY <3>2, <5>1
      <4>. QED BY <4>1, <4>2
    <3>. QED BY <1>0, <2>1, <3>1, <3>2, RegisteredKept
  <2>. QED BY <1>1, <2>1, <2>3, CallStep
<1>5. CASE AddCancelled(c)
  <2>1. /\ UNCHANGED raftVars /\ tick' = tick /\ agents' = agents /\ applied' = applied
        /\ placed' = placed /\ adds' \subseteq adds
    BY <1>5 DEF AddCancelled, raftVars
  <2>. QED BY <2>1, RegistriesStay, CallStep
<1>. QED BY <1>2, <1>3, <1>4, <1>5

\* A call that asks on is backed as before.
LEMMA SpawnEvents ==
  ASSUME Runs, Types, Locks, HistoryStep, NEW E, NEW clock, NEW left, Events(E, clock, left),
         NEW s \in Shard, NEW n \in Server, NEW a \in Agent, SpawnAgent(s, n, a)
  PROVE  Events(E, clock, left)'
<1>1. /\ UNCHANGED raftVars /\ tick' = tick /\ agents' = agents /\ applied' = applied /\ placed' = placed
      /\ adds' = adds \cup {Asked(s, n, a, "main")}
  BY DEF SpawnAgent, raftVars
<1>2. Asked(s, n, a, "main").stage = "queued"
  BY DEF Asked
<1>3. \A d \in adds' : d \in adds \/ (d.stage # "committing" /\ CallBacked(E, left, d)')
  BY <1>1, <1>2 DEF CallBacked
<1>. QED BY <1>1, <1>3, RegistriesStay, CallStep

\* A leader that proposes has just applied all of its log.
LEMMA HeldIsReached ==
  ASSUME GroupTypes, NEW e \in Event, NEW n \in Server, HoldsEvent(n, e),
         applied[e.shard][n] >= Len(log[e.shard][n])
  PROVE  Reached(n, e)
<1>1. e.shard \in Shard /\ e.index \in Nat
  BY DEF Event
<1>2. applied[e.shard][n] \in Nat /\ Len(log[e.shard][n]) \in Nat
  BY <1>1, LogTypes
<1>3. e.index \in 1..Len(log[e.shard][n])
  BY DEF HoldsEvent
<1>4. applied[e.shard][n] >= e.index
  <2>. DEFINE a == applied[e.shard][n]
              b == Len(log[e.shard][n])
              i == e.index
  <2>1. a \in Nat /\ b \in Nat /\ i \in 1..b /\ a >= b
    BY <1>2, <1>3
  <2>. HIDE DEF a, b, i
  <2>2. a >= i
    BY <2>1
  <2>. QED BY <2>2 DEF a, i
<1>. QED BY <1>4 DEF Reached

\* The registry that a server proposes is all that its log grows by.
LEMMA ProposalGrows ==
  ASSUME GroupTypes, NEW s \in Shard, NEW n \in Server, NEW registry, Propose(s, n, registry),
         NEW x \in Shard, NEW q \in Server, NEW r \in Entry, Grows(x, q, r)
  PROVE  x = s /\ q = n /\ r = [term |-> term[s][n], agents |-> registry]
<1>1. CASE x = s /\ q = n /\ leads[s][n]
  <2>1. log'[s][n] = Append(log[s][n], [term |-> term[s][n], agents |-> registry])
    BY <1>1 DEF Propose, GroupTypes
  <2>2. log'[s][n] = Append(log[s][n], r)
    BY <1>1 DEF Grows
  <2>3. log[s][n] \in Seq(Entry)
    BY LogTypes
  <2>4. \A y : Append(log[s][n], y)[Len(log[s][n]) + 1] = y
    BY <2>3 
  <2>. QED BY <1>1, <2>1, <2>2, <2>4
<1>2. CASE ~(x = s /\ q = n /\ leads[s][n])
  <2>1. log'[x][q] = log[x][q]
    BY <1>2 DEF Propose, GroupTypes
  <2>. QED BY <2>1, NoGrowth
<1>. QED BY <1>1, <1>2

\* An add_agent that proposes puts a new event on record.
LEMMA ProposeEvents ==
  ASSUME Runs, Types, Callers, Locks, HistoryStep,
         NEW E, NEW clock, NEW left, Events(E, clock, left),
         NEW c \in adds, AddPropose(c)
  PROVE  \E F, k : Events(F, k, left)'
<1>. DEFINE s == c.shard
            n == c.at
            after == [agents[s][n] EXCEPT ![c.agent] = s]
            entry == [term |-> term[s][n], agents |-> after]
            new == [shard |-> s, at |-> n, agent |-> c.agent, by |-> c.by, stage |-> "committing",
                    index |-> Len(log[s][n]) + 1, term |-> c.term, before |-> agents[s][n]]
<1>0. E \in SUBSET Event /\ LoopTypes /\ GroupTypes /\ Timed(E, clock, left)
  BY DEF Events, Timed, Types
<1>1. s \in Shard /\ n \in Server /\ c.agent \in Agent /\ c.term \in Nat /\ c.index \in Nat /\ clock \in Nat
  BY <1>0, CallShapes DEF AddPropose, Timed
<1>2. /\ c.stage = "waiting" /\ leads[s][n] /\ term[s][n] = c.term /\ applied[s][n] >= c.index
      /\ agents' = [agents EXCEPT ![s][n] = after] /\ Propose(s, n, after)
      /\ adds' = (adds \ {c}) \cup {new}
      /\ UNCHANGED <<term, leads, applied, matchIndex, tick, placed, moves>>
  BY DEF AddPropose, Applied
<1>3. /\ new.shard = s /\ new.at = n /\ new.agent = c.agent /\ new.by = c.by /\ new.stage = "committing"
      /\ new.index = Len(log[s][n]) + 1 /\ new.term = c.term /\ new.before = agents[s][n]
  OBVIOUS
<1>. HIDE DEF new
<1>4. Len(log[s][n]) \in Nat /\ log[s][n] \in Seq(Entry) /\ applied[s][n] \in Nat
  BY <1>0, <1>1, LogTypes
<1>5. Len(log[s][n]) = c.index /\ applied[s][n] >= Len(log[s][n])
  <2>1. InLock(c)
    BY <1>2 DEF InLock
  <2>2. Steady(s, n, c.term, c.index)
    BY <2>1 DEF Locks
  <2>. QED BY <1>2, <2>2 DEF Steady
<1>6. agents[s][n] \in Registry /\ after \in Registry /\ after # NoOp /\ s # Nowhere
  <2>1. agents[s][n] \in Registry
    BY <1>0, <1>1 DEF LoopTypes
  <2>2. after \in Registry
    BY <1>1, <2>1 DEF Registry
  <2>3. NoOp \notin Registry /\ s # Nowhere
    BY <1>1, RegionsAssumption DEF Registry
  <2>. HIDE DEF after
  <2>. QED BY <2>1, <2>2, <2>3
<1>7. entry \in Entry /\ entry.agents = after /\ entry.term = c.term
  BY <1>1, <1>2, <1>6, SMTT(30) DEF Entry
<1>8. /\ log'[s][n] = Append(log[s][n], entry)
      /\ \A x \in Shard, q \in Server : ~(x = s /\ q = n) => log'[x][q] = log[x][q]
  BY <1>0, <1>1, <1>2 DEF Propose, GroupTypes
<1>9. /\ Len(log'[s][n]) = Len(log[s][n]) + 1 /\ log'[s][n][Len(log[s][n]) + 1] = entry
  BY <1>4, <1>7, <1>8, Appended, SMTT(30)
<1>10. \A a \in Agent : after[a] = IF a = c.agent THEN s ELSE agents[s][n][a]
  BY <1>6 DEF Registry
<1>11. agents'[s][n] = after /\ \A x \in Shard, q \in Server : ~(x = s /\ q = n) => agents'[x][q] = agents[x][q]
  BY <1>0, <1>1, <1>2 DEF LoopTypes
<1>12. PICK i \in Nat, k \in Nat, x \in Shard, m \in Server, a \in Agent, t \in Nat :
          i = Len(log[s][n]) + 1 /\ k = clock + 1 /\ x = s /\ m = n /\ a = c.agent /\ t = c.term
  BY <1>1, <1>4
<1>. HIDE DEF s, n, after, entry
<1>. DEFINE e0 == [shard |-> x, agent |-> a, term |-> t, index |-> i, time |-> k]
            F == E \cup {e0}
<1>13. e0 \in Event /\ e0.shard = x /\ e0.agent = a /\ e0.term = t /\ e0.index = i /\ e0.time = k
  BY <1>12 DEF Event
<1>14. F \in SUBSET Event /\ E \subseteq F /\ e0 \in F
  BY <1>0, <1>13
<1>. HIDE DEF e0, F
<1>15. \A e \in E : Recorded(e)' /\ Kept(F, e)' /\ Registered(F, e)' /\ Restorable(F, e)'
  <2>1. \A e \in E : Recorded(e) /\ Kept(E, e) /\ Registered(E, e) /\ Restorable(E, e)
    BY DEF Events
  <2>2. ASSUME NEW e \in E, NEW q \in Server, NEW r \in Entry,
               Grows(e.shard, q, r), HoldsEvent(q, e), ~Overruled(F, e)'
        PROVE  r.agents[e.agent] # Nowhere
    <3>1. e \in Event /\ e.shard \in Shard /\ e.agent \in Agent
      BY <1>0 DEF Event
    <3>2. e.shard = s /\ q = n /\ r.agents = after
      BY <1>0, <1>1, <1>2, <2>2, <3>1, ProposalGrows
    <3>3. Reached(n, e)
      BY <1>0, <1>1, <1>5, <2>2, <3>1, <3>2, HeldIsReached
    <3>4. ~Overruled(E, e)
      BY <1>0, <1>14, <2>2, <3>1, OverruledStays
    <3>5. agents[s][n][e.agent] # Nowhere
      BY <1>1, <2>1, <3>2, <3>3, <3>4 DEF Registered
    <3>. QED BY <1>6, <1>10, <3>1, <3>2, <3>5
  <2>3. ASSUME NEW e \in E PROVE Registered(F, e)'
    <3>1. e \in Event /\ e.shard \in Shard /\ e.agent \in Agent
      BY <1>0 DEF Event
    <3>2. ASSUME NEW q \in Server, agents[e.shard][q][e.agent] # Nowhere
          PROVE  agents'[e.shard][q][e.agent] # Nowhere
      BY <1>6, <1>10, <1>11, <3>1, <3>2
    <3>. QED BY <1>0, <1>2, <1>14, <2>1, <3>1, <3>2, RegisteredKept
  <2>4. \A d \in adds' : d.stage = "committing" =>
            \/ \E b \in adds : /\ b.stage = "committing" /\ b.shard = d.shard /\ b.at = d.at
                               /\ b.index = d.index /\ b.before = d.before
            \/ d.at \in Server /\ d.before = agents[d.shard][d.at] /\ applied' = applied
    BY <1>1, <1>2, <1>3
  <2>. QED BY <1>0, <1>14, <2>1, <2>2, <2>3, <2>4, EventsStay
<1>16. \A q \in Server : HoldsEvent(q, e0)' <=> q = n
  <2>1. HoldsEvent(n, e0)'
    BY <1>4, <1>7, <1>9, <1>12, <1>13, SMTT(30) DEF HoldsEvent
  <2>2. ASSUME NEW q \in Server, q # n, HoldsEvent(q, e0)' PROVE FALSE
    <3>1. log'[s][q] = log[s][q]
      BY <1>1, <1>8, <2>2
    <3>2. i \in 1..Len(log[s][q]) /\ log[s][q][i].term = term[s][n]
      BY <1>2, <1>12, <1>13, <2>2, <3>1 DEF HoldsEvent
    <3>3. i <= Len(log[s][n])
      BY <1>1, <1>2, <3>2 DEF Runs, GroupInv, LeaderOwns
    <3>. QED BY <1>4, <1>12, <3>3
  <2>. QED BY <2>1, <2>2
<1>17. ~Durable(e0)' /\ \A q \in Server : ~Reached(q, e0)'
  <2>1. ASSUME NEW q \in Server, Reached(q, e0)' PROVE FALSE
    <3>1. q = n /\ applied'[s][n] >= i
      BY <1>12, <1>13, <1>16, <2>1 DEF Reached
    <3>2. applied[s][n] >= i
      BY <1>2, <3>1
    <3>3. applied[s][n] > 0
      BY <1>4, <1>12, <3>2
    <3>4. applied[s][n] <= Len(log[s][n])
      BY <1>1, <3>3 DEF Runs, GroupInv, AppliedSafe
    <3>. QED BY <1>4, <1>12, <3>2, <3>4
  <2>. QED BY <2>1 DEF Durable
<1>18. Recorded(e0)'
  <2>1. Backed(x, t)'
    <3>1. leads'[x][m] /\ term'[x][m] = t
      BY <1>2, <1>12
    <3>. QED BY <1>12, <3>1 DEF Runs, GroupInv, TermsBacked
  <2>2. ASSUME NEW q \in Server, leads'[x][q], term'[x][q] = t PROVE HoldsEvent(q, e0)'
    <3>1. leads'[x][m] /\ term'[x][m] = t
      BY <1>2, <1>12
    <3>2. q = m
      BY <1>12, <2>2, <3>1 DEF Runs, GroupInv, OneLeader
    <3>. QED BY <1>12, <1>16, <3>2
  <2>3. ASSUME NEW q \in Server, HoldsEvent(q, e0)' PROVE Snapshot(x, q, i)' # NoOp
    BY <1>6, <1>7, <1>9, <1>12, <1>16, <2>3 DEF Snapshot
  <2>. QED BY <1>13, <2>1, <2>2, <2>3 DEF Recorded
<1>19. Kept(F, e0)'
  <2>1. ASSUME NEW q \in Server, HoldsEvent(q, e0)', NEW j \in i..Len(log'[x][q])
        PROVE  Snapshot(x, q, j)'[a] # Nowhere
    <3>1. q = n /\ j = i
      BY <1>4, <1>9, <1>12, <1>16, <2>1
    <3>. QED BY <1>6, <1>7, <1>9, <1>10, <1>12, <3>1 DEF Snapshot
  <2>. QED BY <1>13, <2>1 DEF Kept
<1>20. Registered(F, e0)' /\ Restorable(F, e0)'
  <2>1. \A d \in adds' : d.at \in Server
    BY <1>0, <1>1, <1>2, <1>3, CallShapes
  <2>. QED BY <1>17, <2>1 DEF Registered, Restorable
<1>21. ASSUME NEW d \in adds' PROVE CallBacked(F, left, d)'
  <2>1. CASE d \in adds
    BY <1>0, <1>2, <1>14, <2>1, CallBackedStep DEF Events
  <2>2. CASE d = new
    <3>1. ASSUME c.by \in Server PROVE k > left[c.by][tick'[c.by].call.from]
      <4>1. tick[c.by].call \in Departure
        BY <1>0, <3>1, TickShapes DEF Callers, Sending
      <4>2. left[c.by][tick[c.by].call.from] \in Nat /\ left[c.by][tick[c.by].call.from] <= clock
        BY <1>0, <3>1, <4>1 DEF Timed, Departure
      <4>. QED BY <1>1, <1>2, <1>12, <4>2
    <3>2. Answers(left, d, e0)'
      BY <1>3, <1>13, <2>2, <3>1 DEF Answers
    <3>3. /\ e0.shard = d.shard /\ e0.agent = d.agent /\ e0.term = d.term /\ e0.index = d.index
          /\ d.stage = "committing"
      BY <1>3, <1>12, <1>13, <2>2
    <3>. QED BY <1>14, <3>2, <3>3 DEF CallBacked
  <2>. QED BY <1>2, <2>1, <2>2
<1>22. ASSUME NEW q \in Server PROVE DoneBacked(F, left, q)' /\ GoneSince(F, left, q)'
  <2>1. DoneBacked(F, left, q)'
    BY <1>0, <1>2, <1>14, DoneBackedStep DEF Events
  <2>2. GoneSince(E, left, q)'
    BY <1>0, <1>2, GoneSinceStep DEF Events
  <2>3. ASSUME NEW d \in Leaving(tick'[q]) \cap Departure, <<q, d>> \notin back', d.from = s, d.agent = c.agent
        PROVE  FALSE
    <3>1. d \in Departures(q) /\ d \in Departures(q)'
      BY <1>2, <2>3 DEF Departures, Leaving
    <3>2. new \in Proposing
      <4>1. ASSUME NEW b \in adds, b.shard = s, b.at = n, b.stage = "committing" PROVE FALSE
        BY <1>2, <4>1 DEF Locks, InLock, s, n
      <4>. QED BY <1>2, <1>3, <4>1 DEF Proposing
    <3>3. <<q, d>> \in back'
      BY <1>3, <2>3, <3>1, <3>2 DEF HistoryStep
    <3>. QED BY <2>3, <3>3
  <2>4. GoneSince(F, left, q)'
    BY <1>12, <1>13, <2>2, <2>3 DEF GoneSince, F
  <2>. QED BY <2>1, <2>4
<1>23. ASSUME NEW b \in placed' PROVE Placed(F, b)'
  BY <1>0, <1>2, <1>14, DurableStays DEF Events, Placed
<1>24. Timed(F, k, left)'
  <2>1. \A e \in F : e.time <= k
    <3>1. ASSUME NEW e \in E PROVE e.time <= k
      <4>1. e.time \in Nat /\ e.time <= clock
        BY <1>0 DEF Timed, Event
      <4>. QED BY <1>1, <1>12, <4>1
    <3>. QED BY <1>12, <1>13, <3>1 DEF F
  <2>2. \A q \in Server, y \in Shard : left[q][y] \in Nat /\ left[q][y] <= clock
    BY <1>0 DEF Timed
  <2>3. \A q \in Server, y \in Shard : left[q][y] <= k
    BY <1>1, <1>12, <2>2
  <2>. QED BY <1>0, <1>12, <1>14, <2>1, <2>3 DEF Timed
<1>25. \A e \in F : Recorded(e)' /\ Kept(F, e)' /\ Registered(F, e)' /\ Restorable(F, e)'
  BY <1>15, <1>18, <1>19, <1>20 DEF F
<1>26. Events(F, k, left)'
  BY <1>21, <1>22, <1>23, <1>24, <1>25 DEF Events
<1>. QED BY <1>26

-----------------------------------------------------------------------------
(* The steps of a tick. *)

\* Going on as far as it can, a tick finishes with departures and takes up none.
LEMMA OnwardLeaves ==
  ASSUME NEW t \in Moving \cup Sending \cup Seeking \cup Removing
  PROVE  Leaving(Onward(t)) \cap Departure \subseteq Leaving(t) /\ Finished(Onward(t)) \subseteq Finished(t)
<1>. DEFINE sending(y) == [at |-> "sending", out |-> y.out, call |-> Nothing, done |-> {}]
            removing(u) == [at |-> "removing", todo |-> {d.from : d \in u.done}, done |-> u.done, holds |-> Nowhere]
            sent(u) == IF u.out = {} /\ u.call = Nothing
                       THEN IF u.done = {} THEN Idle ELSE removing(u)
                       ELSE u
            Fewer(u, v) == Leaving(u) \cap Departure \subseteq Leaving(v) /\ Finished(u) \subseteq Finished(v)
<1>1. Leaving(Idle) = {} /\ Finished(Idle) = {}
  BY DEF Idle, Leaving, Finished
<1>2. ASSUME NEW u \in Sending PROVE Fewer(sent(u), u)
  <2>1. Leaving(removing(u)) = u.done /\ Finished(removing(u)) = u.done
    BY DEF Leaving, Finished
  <2>2. u.done \subseteq Leaving(u) /\ u.done \subseteq Finished(u)
    BY DEF Sending, Leaving, Finished
  <2>. QED BY <1>1, <2>1, <2>2
<1>3. CASE t \in Moving
  <2>1. Onward(t) = IF t.todo = {} THEN sent(sending(t)) ELSE t
    BY <1>3 DEF Onward, Moving
  <2>2. sending(t) \in Sending
    BY <1>3 DEF Moving, Sending
  <2>3. Fewer(sending(t), t)
    <3>1. Nothing \notin Departure
      BY RegionsAssumption DEF Nothing, Departure
    <3>2. Leaving(sending(t)) = t.out \cup {Nothing} /\ Finished(sending(t)) = {}
      BY DEF Leaving, Finished
    <3>3. Leaving(t) = t.out
      BY <1>3 DEF Moving, Leaving
    <3>. QED BY <3>1, <3>2, <3>3
  <2>4. Fewer(sent(sending(t)), t)
    <3>. DEFINE y == sending(t)
    <3>1. y \in Sending /\ Fewer(y, t)
      BY <2>2, <2>3
    <3>. HIDE DEF y
    <3>2. Fewer(sent(y), y)
      BY <1>2, <3>1
    <3>3. Fewer(sent(y), t)
      <4>. HIDE DEF sent
      <4>. QED BY <3>1, <3>2
    <3>. QED BY <3>3 DEF y
  <2>. QED BY <2>1, <2>4
<1>4. CASE t \in Sending
  <2>1. Onward(t) = sent(t)
    BY <1>4 DEF Onward, Sending
  <2>. QED BY <1>2, <1>4, <2>1
<1>5. CASE t \in Seeking \cup Removing
  <2>1. Onward(t) = IF t.todo = {} THEN Idle ELSE t
    BY <1>5 DEF Onward, Seeking, Removing
  <2>. QED BY <1>1, <2>1
<1>. QED BY <1>3, <1>4, <1>5

\* Calls that the tick of n did not make keep their events.
SameCall(n, d, b) ==
    /\ d.by # n /\ d.stage = b.stage /\ d.shard = b.shard /\ d.at = b.at /\ d.agent = b.agent
    /\ d.by \in Server => d.by = b.by
    /\ d.stage = "committing" => d.term = b.term /\ d.index = b.index /\ d.before = b.before

\* Calls that a tick leaves as they are keep what is behind them.
LEMMA TickCallsStay ==
  ASSUME Runs, NEW E \in SUBSET Event, NEW left, \A c \in adds : CallBacked(E, left, c),
         NEW n \in Server, OnlyTick(n),
         \A d \in adds' : d.stage \notin {"committing", "yes"} \/ \E b \in adds : SameCall(n, d, b)
  PROVE  /\ \A d \in adds' : CallBacked(E, left, d)'
         /\ \A d \in adds' : d.stage = "committing" =>
              \E b \in adds : /\ b.stage = "committing" /\ b.shard = d.shard /\ b.at = d.at
                              /\ b.index = d.index /\ b.before = d.before
<1>1. ASSUME NEW d \in adds' PROVE CallBacked(E, left, d)'
  <2>1. CASE d.stage \notin {"committing", "yes"}
    BY <2>1 DEF CallBacked
  <2>2. ASSUME NEW b \in adds, SameCall(n, d, b) PROVE CallBacked(E, left, d)'
    <3>1. d.by \in Server => d.by = b.by /\ tick'[d.by].call = tick[d.by].call
      BY <2>2 DEF SameCall, OnlyTick
    <3>. QED BY <2>2, <3>1, CallBackedStep DEF SameCall
  <2>. QED BY <2>1, <2>2
<1>2. \A d \in adds' : d.stage = "committing" =>
         \E b \in adds : /\ b.stage = "committing" /\ b.shard = d.shard /\ b.at = d.at
                         /\ b.index = d.index /\ b.before = d.before
  BY DEF SameCall
<1>. QED BY <1>1, <1>2

\* While the tick of n waits for no call, no call is its.
LEMMA NotItsCall ==
  ASSUME Callers, NEW n \in Server, tick[n].at = "sending" => tick[n].call = Nothing, NEW c \in adds
  PROVE  SameCall(n, c, c)
  BY DEF Callers, SameCall

\* A step of a tick that takes up no departure and accepts nobody unfounded.
LEMMA TickStep ==
  ASSUME Runs, Types, Locks, HistoryStep, NEW E, NEW clock, NEW left, Events(E, clock, left),
         NEW n \in Server, OnlyTick(n), UNCHANGED <<raftVars, agents, placed>>,
         \A d \in adds' : d.stage \notin {"committing", "yes"} \/ \E b \in adds : SameCall(n, d, b),
         DoneBacked(E, left, n)',
         Leaving(tick'[n]) \cap Departure \subseteq Leaving(tick[n])
  PROVE  Events(E, clock, left)'
<1>0. /\ E \in SUBSET Event /\ LoopTypes /\ GroupTypes
      /\ log' = log /\ agents' = agents /\ applied' = applied /\ placed' = placed
  BY DEF Events, Timed, Types, raftVars
<1>1. \A e \in E, q \in Server, r \in Entry : ~Grows(e.shard, q, r)
  BY <1>0, NoGrowth DEF Event
<1>2. /\ \A d \in adds' : CallBacked(E, left, d)'
      /\ \A d \in adds' : d.stage = "committing" =>
            \E b \in adds : /\ b.stage = "committing" /\ b.shard = d.shard /\ b.at = d.at
                            /\ b.index = d.index /\ b.before = d.before
  <2>1. \A c \in adds : CallBacked(E, left, c)
    BY DEF Events
  <2>. QED BY <1>0, <2>1, TickCallsStay
<1>3. \A m \in Server : DoneBacked(E, left, m)'
  BY <1>0, DoneBackedStep DEF Events, OnlyTick
<1>4. \A m \in Server : Leaving(tick'[m]) \cap Departure \subseteq Leaving(tick[m])
  BY DEF OnlyTick
<1>5. \A e \in E : Registered(E, e)'
  BY <1>0, RegistriesStay
<1>. QED BY <1>0, <1>1, <1>2, <1>3, <1>4, <1>5, PlainStep

\* A tick that goes on without an answer.
LEMMA TickGoesOn ==
  ASSUME Runs, Types, Callers, Locks, HistoryStep, NEW E, NEW clock, NEW left, Events(E, clock, left),
         NEW n \in Server, NEW u, tick' = [tick EXCEPT ![n] = u],
         UNCHANGED <<raftVars, agents, placed, adds>>,
         tick[n].at = "sending" => tick[n].call = Nothing,
         Finished(u) \subseteq Finished(tick[n]), Leaving(u) \cap Departure \subseteq Leaving(tick[n])
  PROVE  Events(E, clock, left)'
<1>0. E \in SUBSET Event /\ LoopTypes
  BY DEF Events, Timed, Types
<1>1. OnlyTick(n) /\ tick'[n] = u
  BY <1>0, TickChanges
<1>2. \A d \in adds' : \E b \in adds : SameCall(n, d, b)
  BY NotItsCall
<1>3. DoneBacked(E, left, n)'
  BY <1>0, <1>1, DoneBackedStep DEF Events
<1>. QED BY <1>1, <1>2, <1>3, TickStep

\* The proposals of a tick drop nobody whose place counts.
LEMMA TickProposes ==
  ASSUME Runs, Types, Locks, NEW E, NEW clock, NEW left, Events(E, clock, left),
         NEW s \in Shard, NEW n \in Server, NEW r \in Registry, Proposes(s, n, r), adds' = adds,
         agents' = [agents EXCEPT ![s][n] = r], applied[s][n] >= Len(log[s][n]),
         \A e \in E : /\ e.shard = s /\ ~Overruled(E, e) /\ agents[s][n][e.agent] # Nowhere
                      => r[e.agent] # Nowhere
  PROVE  \A e \in E : Recorded(e)' /\ Kept(E, e)' /\ Registered(E, e)' /\ Restorable(E, e)'
<1>0. /\ E \in SUBSET Event /\ LoopTypes /\ GroupTypes
      /\ Propose(s, n, r) /\ applied' = applied
  BY DEF Events, Timed, Types, Proposes
<1>1. \A e \in E : Recorded(e) /\ Kept(E, e) /\ Registered(E, e) /\ Restorable(E, e)
  BY DEF Events
<1>2. ASSUME NEW e \in E, NEW q \in Server, NEW p \in Entry,
             Grows(e.shard, q, p), HoldsEvent(q, e), ~Overruled(E, e)'
      PROVE  p.agents[e.agent] # Nowhere
  <2>1. e \in Event /\ e.shard \in Shard
    BY <1>0 DEF Event
  <2>2. e.shard = s /\ q = n /\ p.agents = r
    BY <1>0, <1>2, <2>1, ProposalGrows
  <2>3. Reached(n, e)
    BY <1>0, <1>2, <2>1, <2>2, HeldIsReached
  <2>4. ~Overruled(E, e)
    BY <1>0, <1>2, <2>1, OverruledStays
  <2>. QED BY <1>1, <2>2, <2>3, <2>4 DEF Registered
<1>3. ASSUME NEW e \in E PROVE Registered(E, e)'
  <2>1. e \in Event /\ e.shard \in Shard
    BY <1>0 DEF Event
  <2>2. ASSUME NEW q \in Server, ~Overruled(E, e)', agents[e.shard][q][e.agent] # Nowhere
        PROVE  agents'[e.shard][q][e.agent] # Nowhere
    <3>1. ~Overruled(E, e)
      BY <1>0, <2>1, <2>2, OverruledStays
    <3>2. CASE e.shard = s /\ q = n
      <4>1. agents'[s][n] = r
        BY <1>0 DEF LoopTypes
      <4>. QED BY <2>2, <3>1, <3>2, <4>1
    <3>3. CASE ~(e.shard = s /\ q = n)
      <4>1. agents'[e.shard][q] = agents[e.shard][q]
        BY <1>0, <2>1, <3>3 DEF LoopTypes
      <4>. QED BY <2>2, <4>1
    <3>. QED BY <3>2, <3>3
  <2>. QED BY <1>0, <1>1, <2>1, <2>2, RegisteredKept
<1>4. \A c \in adds' : c.stage = "committing" =>
         \/ \E b \in adds : /\ b.stage = "committing" /\ b.shard = c.shard /\ b.at = c.at
                            /\ b.index = c.index /\ b.before = c.before
         \/ c.at \in Server /\ c.before = agents[c.shard][c.at] /\ applied' = applied
  OBVIOUS
<1>. QED BY <1>0, <1>1, <1>2, <1>3, <1>4, EventsStay

\* Agents that leave a shard have no place that is newer than their departure.
LEMMA MovesEvents ==
  ASSUME Runs, Types, Callers, Locks, HistoryStep,
         NEW E, NEW clock, NEW left, Events(E, clock, left),
         NEW n \in Server, NEW s \in Shard, TickMoves(n, s)
  PROVE  \E after : Events(E, clock, after)'
<1>. DEFINE t == tick[n]
<1>0. /\ E \in SUBSET Event /\ LoopTypes /\ GroupTypes /\ Timed(E, clock, left)
      /\ left \in [Server -> [Shard -> Nat]] /\ clock \in Nat
  BY SMTT(30) DEF Events, Timed, Types
<1>1. /\ t.at = "moving" /\ t \in Moving /\ UNCHANGED <<term, leads, applied, matchIndex, adds, placed>>
  BY <1>0, TickShapes DEF TickMoves
<1>2. CASE ~CaughtUp(s, n)
  <2>. DEFINE u == [t EXCEPT !.todo = @ \ {s}, !.queued = {}]
  <2>1. tick' = [tick EXCEPT ![n] = Onward(u)] /\ UNCHANGED <<raftVars, agents, placed, adds>>
    BY <1>1, <1>2 DEF TickMoves, raftVars
  <2>2. u \in Moving /\ Leaving(u) = Leaving(t) /\ Finished(u) = Finished(t)
    BY <1>1 DEF Moving, Leaving, Finished
  <2>. HIDE DEF u
  <2>3. Leaving(Onward(u)) \cap Departure \subseteq Leaving(t) /\ Finished(Onward(u)) \subseteq Finished(t)
    BY <2>2, OnwardLeaves
  <2>4. Events(E, clock, left)'
    BY <1>1, <2>1, <2>3, TickGoesOn
  <2>. QED BY <2>4
<1>3. CASE CaughtUp(s, n)
  <2>1. PICK r \in Moved(agents[s][n]) :
          LET leaving == {[from |-> s, agent |-> a, to |-> r[a]] :
                            a \in {b \in Agent : r[b] \notin {s, Nowhere}}}
          IN  /\ agents' = [agents EXCEPT ![s][n] = r] /\ Propose(s, n, r)
              /\ tick' = [tick EXCEPT ![n] =
                   Onward([t EXCEPT !.todo = @ \ {s}, !.queued = {}, !.out = @ \cup leaving])]
    BY <1>3 DEF TickMoves
  <2>. DEFINE leaving == {[from |-> s, agent |-> a, to |-> r[a]] :
                            a \in {b \in Agent : r[b] \notin {s, Nowhere}}}
              u == [t EXCEPT !.todo = @ \ {s}, !.queued = {}, !.out = @ \cup leaving]
              after == [left EXCEPT ![n][s] = clock]
  <2>2. agents[s][n] \in Registry
    BY <1>0 DEF LoopTypes
  <2>3. r \in Registry /\ \A a \in Agent : r[a] = Nowhere <=> agents[s][n][a] = Nowhere
    BY <2>1, <2>2, MovedType
  <2>4. leaving \subseteq Departure /\ \A d \in leaving : d.from = s
    BY <2>3 DEF Registry, Departure
  <2>5. tick' = [tick EXCEPT ![n] = Onward(u)]
    BY <2>1
  <2>. HIDE DEF leaving
  <2>6. u \in Moving /\ Leaving(u) = t.out \cup leaving /\ Finished(u) = {} /\ Leaving(t) = t.out
    BY <1>1, <2>4 DEF Moving, Leaving, Finished
  <2>. HIDE DEF u
  <2>7. Leaving(Onward(u)) \cap Departure \subseteq t.out \cup leaving /\ Finished(Onward(u)) = {}
    BY <2>6, OnwardLeaves
  <2>8. OnlyTick(n) /\ tick'[n] = Onward(u)
    BY <1>0, <2>5, TickChanges
  <2>9. \A e \in E : Recorded(e)' /\ Kept(E, e)' /\ Registered(E, e)' /\ Restorable(E, e)'
    <3>1. Proposes(s, n, r) /\ applied[s][n] >= Len(log[s][n]) /\ adds' = adds
      BY <1>1, <1>3, <2>1 DEF Proposes, CaughtUp
    <3>2. ASSUME NEW e \in E, agents[s][n][e.agent] # Nowhere PROVE r[e.agent] # Nowhere
      BY <1>0, <2>3, <3>2 DEF Event
    <3>3. agents' = [agents EXCEPT ![s][n] = r] /\ r \in Registry
      BY <2>1, <2>3
    <3>4. \A e \in E : /\ e.shard = s /\ ~Overruled(E, e) /\ agents[s][n][e.agent] # Nowhere
                       => r[e.agent] # Nowhere
      BY <3>2
    <3>. QED BY <3>1, <3>3, <3>4, TickProposes
  <2>10. /\ after \in [Server -> [Shard -> Nat]] /\ after[n][s] = clock
         /\ \A m \in Server, x \in Shard : ~(m = n /\ x = s) => after[m][x] = left[m][x]
    BY <1>0
  <2>. HIDE DEF after
  <2>11. Timed(E, clock, after)'
    BY <1>0, <2>10 DEF Timed
  <2>12. ASSUME NEW d \in adds' PROVE CallBacked(E, after, d)'
    <3>1. d \in adds /\ d.by # n
      BY <1>1 DEF Callers
    <3>2. CallBacked(E, left, d)'
      <4>1. d.by \in Server => tick'[d.by].call = tick[d.by].call
        BY <2>8, <3>1 DEF OnlyTick
      <4>. QED BY <1>0, <3>1, <4>1, CallBackedStep DEF Events
    <3>3. \A e : Answers(left, d, e)' => Answers(after, d, e)'
      <4>1. ASSUME d.by \in Server PROVE after[d.by][tick'[d.by].call.from] = left[d.by][tick'[d.by].call.from]
        <5>1. tick'[d.by].call \in Departure
          <6>1. tick'[d.by] = tick[d.by]
            BY <2>8, <3>1, <4>1 DEF OnlyTick
          <6>2. tick[d.by].at = "sending" /\ tick[d.by].call # Nothing
            BY <3>1, <4>1 DEF Callers
          <6>3. tick[d.by] \in Sending
            BY <1>0, <4>1, <6>2, TickShapes
          <6>. QED BY <6>1, <6>2, <6>3 DEF Sending
        <5>2. tick'[d.by].call.from \in Shard
          BY <5>1 DEF Departure
        <5>. QED BY <2>10, <3>1, <4>1, <5>2
      <4>. QED BY <4>1 DEF Answers
    <3>. QED BY <3>2, <3>3 DEF CallBacked
  <2>13. ASSUME NEW m \in Server PROVE DoneBacked(E, after, m)'
    <3>1. CASE m = n
      BY <2>7, <2>8, <3>1 DEF DoneBacked
    <3>2. CASE m # n
      <4>1. DoneBacked(E, left, m)'
        BY <1>0, <2>8, <3>2, DoneBackedStep DEF Events, OnlyTick
      <4>2. after[m] = left[m]
        BY <1>0, <2>10, <3>2
      <4>. QED BY <4>1, <4>2 DEF DoneBacked
    <3>. QED BY <3>1, <3>2
  <2>14. ASSUME NEW m \in Server PROVE GoneSince(E, after, m)'
    <3>1. CASE m # n
      <4>1. GoneSince(E, left, m)'
        BY <1>0, <2>8, <3>1, GoneSinceStep DEF Events, OnlyTick
      <4>2. after[m] = left[m]
        BY <1>0, <2>10, <3>1
      <4>. QED BY <4>1, <4>2 DEF GoneSince
    <3>2. CASE m = n
      <4>. SUFFICES ASSUME NEW d \in Leaving(tick'[n]) \cap Departure, <<n, d>> \notin back',
                           NEW e \in E, e.shard = d.from, e.agent = d.agent
                    PROVE  e.time <= after[n][d.from]
        BY <3>2 DEF GoneSince
      <4>1. CASE d.from = s
        BY <1>0, <2>10, <4>1 DEF Timed
      <4>2. CASE d.from # s
        <5>1. d \in Leaving(t) /\ d.from \in Shard
          BY <2>4, <2>6, <2>7, <2>8, <4>2 DEF Departure
        <5>2. d \in Departures(n) /\ d \in Departures(n)'
          BY <5>1 DEF Departures, Leaving
        <5>3. <<n, d>> \notin back
          BY <5>2 DEF HistoryStep
        <5>4. e.time <= left[n][d.from]
          BY <5>1, <5>3 DEF Events, GoneSince
        <5>. QED BY <2>10, <4>2, <5>1, <5>4
      <4>. QED BY <4>1, <4>2
    <3>. QED BY <3>1, <3>2
  <2>15. \A a \in placed' : Placed(E, a)'
    BY <1>0, <1>1, DurableStays DEF Events, Placed
  <2>16. Events(E, clock, after)'
    BY <2>9, <2>11, <2>12, <2>13, <2>14, <2>15 DEF Events
  <2>. QED BY <2>16
<1>. QED BY <1>2, <1>3

\* Whom phase 2 drops has a durable place that is newer than what it drops,
\* unless the shard took it in again.
LEMMA RemoveEvents ==
  ASSUME Runs, Types, Callers, Locks, HistoryStep, ~mistaken',
         NEW E, NEW clock, NEW left, Events(E, clock, left),
         NEW n \in Server, Remove(n)
  PROVE  Events(E, clock, left)'
<1>. DEFINE t == tick[n]
            s == t.holds
            r == [a \in Agent |-> IF \E d \in t.done : d.from = s /\ d.agent = a
                                  THEN Nowhere ELSE agents[s][n][a]]
            u == [t EXCEPT !.todo = @ \ {s}, !.holds = Nowhere]
<1>0. /\ E \in SUBSET Event /\ LoopTypes /\ GroupTypes /\ Timed(E, clock, left)
      /\ left \in [Server -> [Shard -> Nat]]
  BY DEF Events, Timed, Types
<1>1. t \in Removing /\ s \in Shard /\ t.at = "removing"
  BY <1>0, TickShapes DEF Remove
<1>2. /\ Applied(s, n, t.term, t.index) /\ agents' = [agents EXCEPT ![s][n] = r] /\ Propose(s, n, r)
      /\ tick' = [tick EXCEPT ![n] = Onward(u)]
      /\ UNCHANGED <<term, leads, applied, matchIndex, adds, placed, moves>>
  BY DEF Remove
<1>3. r \in Registry /\ \A a \in Agent : (\A d \in t.done : d.from # s \/ d.agent # a) => r[a] = agents[s][n][a]
  BY <1>0, <1>1 DEF LoopTypes, Registry
<1>. HIDE DEF r
<1>4. applied[s][n] >= Len(log[s][n])
  <2>1. Removes(n, s)
    BY <1>1 DEF Removes
  <2>2. Steady(s, n, t.term, t.index)
    BY <1>1, <2>1 DEF Locks
  <2>. QED BY <1>2, <2>2 DEF Steady, Applied
<1>5. u \in Removing /\ Leaving(u) = t.done /\ Finished(u) = t.done /\ Leaving(t) = t.done /\ Finished(t) = t.done
  BY <1>1 DEF Removing, Leaving, Finished
<1>. HIDE DEF u
<1>6. Leaving(Onward(u)) \cap Departure \subseteq Leaving(t) /\ Finished(Onward(u)) \subseteq Finished(t)
  BY <1>5, OnwardLeaves
<1>7. OnlyTick(n) /\ tick'[n] = Onward(u)
  BY <1>0, <1>2, TickChanges
<1>8. ASSUME NEW e \in E, e.shard = s, NEW d \in t.done, d.from = s, d.agent = e.agent
      PROVE  Overruled(E, e)
  <2>1. d \in Departure
    BY <1>1 DEF Removing
  <2>2. <<n, d>> \notin back
    <3>1. \A b \in back : ~(tick[b[1]].at = "removing" /\ tick[b[1]].holds = b[2].from /\ Remove(b[1]))
      BY DEF HistoryStep, DropsReturned
    <3>2. <<n, d>>[1] = n /\ <<n, d>>[2] = d
      OBVIOUS
    <3>3. Remove(n) /\ tick[n].at = "removing" /\ tick[n].holds = d.from
      BY <1>1, <1>8
    <3>4. ASSUME <<n, d>> \in back PROVE FALSE
      <4>. DEFINE b == <<n, d>>
      <4>1. b \in back /\ b[1] = n /\ b[2] = d
        BY <3>4
      <4>. HIDE DEF b
      <4>2. ~(tick[b[1]].at = "removing" /\ tick[b[1]].holds = b[2].from /\ Remove(b[1]))
        BY <3>1, <4>1
      <4>. QED BY <3>3, <4>1, <4>2
    <3>. QED BY <3>4
  <2>3. e.time <= left[n][s]
    BY <1>5, <1>8, <2>1, <2>2 DEF Events, GoneSince
  <2>4. PICK f \in E : f.agent = d.agent /\ Durable(f) /\ f.time > left[n][s]
    BY <1>5, <1>8 DEF Events, DoneBacked
  <2>5. e.time \in Nat /\ f.time \in Nat /\ left[n][s] \in Nat
    BY <1>0, <1>1 DEF Event
  <2>6. f.time > e.time
    BY <2>3, <2>4, <2>5
  <2>. QED BY <1>8, <2>4, <2>6 DEF Overruled
<1>9. \A e \in E : Recorded(e)' /\ Kept(E, e)' /\ Registered(E, e)' /\ Restorable(E, e)'
  <2>1. ASSUME NEW e \in E, e.shard = s, ~Overruled(E, e), agents[s][n][e.agent] # Nowhere
        PROVE  r[e.agent] # Nowhere
    <3>1. e.agent \in Agent
      BY <1>0 DEF Event
    <3>. QED BY <1>3, <1>8, <2>1, <3>1
  <2>2. Proposes(s, n, r) /\ adds' = adds
    BY <1>2 DEF Proposes
  <2>3. \A e \in E : /\ e.shard = s /\ ~Overruled(E, e) /\ agents[s][n][e.agent] # Nowhere
                     => r[e.agent] # Nowhere
    BY <2>1
  <2>4. s \in Shard /\ r \in Registry /\ agents' = [agents EXCEPT ![s][n] = r]
    BY <1>1, <1>2, <1>3
  <2>. HIDE DEF s
  <2>. QED BY <1>4, <2>2, <2>3, <2>4, TickProposes, ZenonT(40)
<1>10. \A d \in adds' : CallBacked(E, left, d)'
  <2>1. \A d \in adds' : \E b \in adds : SameCall(n, d, b)
    BY <1>1, <1>2, NotItsCall
  <2>2. \A d \in adds : CallBacked(E, left, d)
    BY DEF Events
  <2>. QED BY <1>0, <1>7, <2>1, <2>2, TickCallsStay
<1>11. ASSUME NEW m \in Server PROVE DoneBacked(E, left, m)' /\ GoneSince(E, left, m)'
  <2>1. Finished(tick'[m]) \subseteq Finished(tick[m]) /\ Leaving(tick'[m]) \cap Departure \subseteq Leaving(tick[m])
    BY <1>6, <1>7 DEF OnlyTick
  <2>. QED BY <1>0, <2>1, DoneBackedStep, GoneSinceStep DEF Events
<1>12. \A a \in placed' : Placed(E, a)'
  BY <1>0, <1>2, DurableStays DEF Events, Placed
<1>13. Timed(E, clock, left)'
  BY <1>0 DEF Timed
<1>. QED BY <1>9, <1>10, <1>11, <1>12, <1>13 DEF Events

\* An accepted agent is where its call put it.
LEMMA AnsweredEvents ==
  ASSUME Runs, Types, Callers, Locks, HistoryStep, NEW E, NEW clock, NEW left, Events(E, clock, left),
         NEW n \in Server, NEW c \in adds, HandOffAnswered(n, c)
  PROVE  Events(E, clock, left)'
<1>. DEFINE t == tick[n]
            u == [t EXCEPT !.call = Nothing, !.done = @ \cup Accepted(t, c.stage)]
<1>0. E \in SUBSET Event /\ LoopTypes
  BY DEF Events, Timed, Types
<1>1. /\ c.by = n /\ c.stage \in {"yes", "no"} /\ adds' = adds \ {c}
      /\ tick' = [tick EXCEPT ![n] = Onward(u)] /\ UNCHANGED <<raftVars, agents, placed>>
  BY DEF HandOffAnswered
<1>2. t.at = "sending" /\ t.call # Nothing /\ c.agent = t.call.agent
  BY <1>1 DEF Callers
<1>3. t \in Sending /\ t.call \in Departure
  BY <1>0, <1>2, TickShapes DEF Sending
<1>4. Accepted(t, c.stage) = IF c.stage = "yes" THEN {t.call} ELSE {}
  BY DEF Accepted
<1>5. /\ u \in Sending /\ Leaving(u) = t.out \cup {Nothing} \cup t.done \cup Accepted(t, c.stage)
      /\ Finished(u) = t.done \cup Accepted(t, c.stage)
      /\ Leaving(t) = t.out \cup {t.call} \cup t.done /\ Finished(t) = t.done
  BY <1>3, <1>4 DEF Sending, Leaving, Finished
<1>6. Nothing \notin Departure
  BY RegionsAssumption DEF Nothing, Departure
<1>. HIDE DEF u
<1>7. Leaving(Onward(u)) \cap Departure \subseteq Leaving(u) /\ Finished(Onward(u)) \subseteq Finished(u)
  BY <1>5, OnwardLeaves
<1>8. OnlyTick(n) /\ tick'[n] = Onward(u)
  BY <1>0, <1>1, TickChanges
<1>9. Leaving(tick'[n]) \cap Departure \subseteq Leaving(tick[n])
  BY <1>4, <1>5, <1>6, <1>7, <1>8
<1>10. ASSUME NEW d \in Finished(tick'[n])
       PROVE  \E e \in E : e.agent = d.agent /\ Durable(e)' /\ e.time > left[n][d.from]
  <2>1. d \in t.done \/ (c.stage = "yes" /\ d = t.call)
    BY <1>4, <1>5, <1>7, <1>8, <1>10
  <2>2. \A e \in E : Durable(e) => Durable(e)'
    BY <1>0, DurableStays
  <2>3. CASE d \in t.done
    BY <1>5, <2>2, <2>3 DEF Events, DoneBacked
  <2>4. CASE c.stage = "yes" /\ d = t.call
    <3>1. \E e \in E : e.agent = c.agent /\ Durable(e) /\ Answers(left, c, e)
      BY <1>1, <2>4 DEF Events, CallBacked
    <3>. QED BY <1>1, <1>2, <2>2, <2>4, <3>1 DEF Answers
  <2>. QED BY <2>1, <2>3, <2>4
<1>11. DoneBacked(E, left, n)'
  BY <1>10 DEF DoneBacked
<1>12. \A d \in adds' : \E b \in adds : SameCall(n, d, b)
  BY <1>1 DEF Callers, SameCall
<1>. QED BY <1>1, <1>8, <1>9, <1>11, <1>12, TickStep

\* A hand-off that is given up: the call goes on, and nobody waits for it.
LEMMA GivenUpEvents ==
  ASSUME Runs, Types, Callers, Locks, HistoryStep, NEW E, NEW clock, NEW left, Events(E, clock, left),
         NEW n \in Server, HandOffGivenUp(n)
  PROVE  Events(E, clock, left)'
<1>. DEFINE t == tick[n]
            u == [t EXCEPT !.call = Nothing]
<1>0. E \in SUBSET Event /\ LoopTypes
  BY DEF Events, Timed, Types
<1>1. /\ t.at = "sending" /\ tick' = [tick EXCEPT ![n] = Onward(u)] /\ UNCHANGED <<raftVars, agents, placed>>
      /\ adds' = {IF c.by = n THEN [c EXCEPT !.by = "nobody"] ELSE c :
                    c \in {x \in adds : ~(x.by = n /\ x.stage \in {"yes", "no"})}}
  BY DEF HandOffGivenUp
<1>2. t \in Sending
  BY <1>0, <1>1, TickShapes
<1>3. /\ u \in Sending /\ Leaving(u) = t.out \cup {Nothing} \cup t.done /\ Finished(u) = t.done
      /\ Leaving(t) = t.out \cup {t.call} \cup t.done /\ Finished(t) = t.done
  BY <1>2 DEF Sending, Leaving, Finished
<1>4. Nothing \notin Departure
  BY RegionsAssumption DEF Nothing, Departure
<1>. HIDE DEF u
<1>5. Leaving(Onward(u)) \cap Departure \subseteq Leaving(u) /\ Finished(Onward(u)) \subseteq Finished(u)
  BY <1>3, OnwardLeaves
<1>6. OnlyTick(n) /\ tick'[n] = Onward(u)
  BY <1>0, <1>1, TickChanges
<1>7. Leaving(tick'[n]) \cap Departure \subseteq Leaving(tick[n])
  BY <1>3, <1>4, <1>5, <1>6
<1>8. DoneBacked(E, left, n)'
  BY <1>0, <1>3, <1>5, <1>6, DoneBackedStep DEF Events
<1>9. ASSUME NEW d \in adds' PROVE \E b \in adds : SameCall(n, d, b)
  <2>1. PICK b \in adds : d = IF b.by = n THEN [b EXCEPT !.by = "nobody"] ELSE b
    BY <1>1
  <2>2. CASE b.by # n
    BY <2>1, <2>2 DEF SameCall
  <2>3. CASE b.by = n
    <3>1. b \in Queued \cup Waiting \cup Committing
      BY <1>0 DEF LoopTypes
    <3>2. /\ d.by = "nobody" /\ d.stage = b.stage /\ d.shard = b.shard /\ d.at = b.at /\ d.agent = b.agent
          /\ b \in Committing => d.term = b.term /\ d.index = b.index /\ d.before = b.before
      BY <2>1, <2>3, <3>1 DEF Queued, Waiting, Committing
    <3>3. d.stage = "committing" => b \in Committing
      BY <3>1, <3>2 DEF Queued, Waiting
    <3>4. "nobody" \notin Server
      BY RegionsAssumption
    <3>. QED BY <3>2, <3>3, <3>4 DEF SameCall
  <2>. QED BY <2>2, <2>3
<1>. QED BY <1>1, <1>6, <1>7, <1>8, <1>9, TickStep

\* A hand-off that is sent: an agent that is on its way stays so.
LEMMA HandOffEvents ==
  ASSUME Runs, Types, Callers, Locks, HistoryStep, NEW E, NEW clock, NEW left, Events(E, clock, left),
         NEW n \in Server, NEW d \in tick[n].out, NEW l \in Server, HandOff(n, d, l)
  PROVE  Events(E, clock, left)'
<1>. DEFINE t == tick[n]
            u == [t EXCEPT !.out = @ \ {d}, !.call = d]
<1>0. E \in SUBSET Event /\ LoopTypes
  BY DEF Events, Timed, Types
<1>1. /\ t.at = "sending" /\ t.call = Nothing /\ UNCHANGED <<raftVars, agents, placed>>
      /\ adds' = adds \cup {Asked(d.to, l, d.agent, n)}
  BY DEF HandOff
<1>2. t \in Sending
  BY <1>0, <1>1, TickShapes
<1>3. /\ Leaving(u) \subseteq Leaving(t) /\ Finished(u) = Finished(t)
      /\ tick' = [tick EXCEPT ![n] = u]
  BY <1>0, <1>2 DEF Sending, Leaving, Finished, HandOff, LoopTypes
<1>. HIDE DEF u
<1>4. OnlyTick(n) /\ tick'[n] = u
  BY <1>0, <1>3, TickChanges
<1>5. DoneBacked(E, left, n)'
  BY <1>0, <1>3, <1>4, DoneBackedStep DEF Events
<1>6. ASSUME NEW c \in adds' PROVE c.stage \notin {"committing", "yes"} \/ \E b \in adds : SameCall(n, c, b)
  BY <1>1, NotItsCall DEF Asked
<1>. QED BY <1>1, <1>3, <1>4, <1>5, <1>6, TickStep

\* The other steps of a tick take nobody in and drop nobody.
LEMMA QuietTickEvents ==
  ASSUME Runs, Types, Callers, Locks, HistoryStep, NEW E, NEW clock, NEW left, Events(E, clock, left),
         NEW n \in Server,
         \/ TickBegin(n) \/ RemoveFails(n)
         \/ \E s \in Shard : TickLooks(n, s) \/ RemoveBegin(n, s)
         \/ \E d \in tick[n].out : HandOffDeferred(n, d)
  PROVE  Events(E, clock, left)'
<1>. DEFINE t == tick[n]
            Fewer(v) == Finished(v) \subseteq Finished(t) /\ Leaving(v) \cap Departure \subseteq Leaving(t)
            Same == UNCHANGED <<raftVars, agents, placed, adds>>
<1>0. LoopTypes
  BY DEF Types
<1>1. ASSUME NEW v, tick' = [tick EXCEPT ![n] = v], Same, Fewer(v), t.at = "sending" => t.call = Nothing
      PROVE  Events(E, clock, left)'
  BY <1>1, TickGoesOn
<1>2. ASSUME NEW v \in Moving \cup Sending \cup Seeking \cup Removing, Fewer(v) PROVE Fewer(Onward(v))
  BY <1>2, OnwardLeaves
<1>3. CASE TickBegin(n)
  <2>. DEFINE v == [at |-> "moving", todo |-> Shard, queued |-> {}, out |-> {}]
  <2>1. tick' = [tick EXCEPT ![n] = v] /\ Same /\ t.at # "sending"
    BY <1>3 DEF TickBegin, Idle
  <2>2. Fewer(v)
    BY DEF Leaving, Finished
  <2>. QED BY <1>1, <2>1, <2>2
<1>4. ASSUME NEW s \in Shard, TickLooks(n, s) PROVE Events(E, clock, left)'
  <2>1. t \in Moving /\ t.at = "moving" /\ Same
    BY <1>0, <1>4, TickShapes DEF TickLooks
  <2>2. CASE ~leads[s][n]
    <3>. DEFINE v == [t EXCEPT !.todo = @ \ {s}]
    <3>1. tick' = [tick EXCEPT ![n] = Onward(v)]
      BY <1>4, <2>2 DEF TickLooks
    <3>2. v \in Moving /\ Fewer(v)
      BY <2>1 DEF Moving, Leaving, Finished
    <3>. HIDE DEF v
    <3>3. Fewer(Onward(v))
      BY <1>2, <3>2
    <3>. QED BY <1>1, <2>1, <3>1, <3>3
  <2>3. CASE leads[s][n]
    <3>. DEFINE v == [t EXCEPT !.queued = {s}]
    <3>1. tick' = [tick EXCEPT ![n] = v]
      BY <1>0, <1>4, <2>3 DEF TickLooks, LoopTypes
    <3>2. Fewer(v)
      BY <2>1 DEF Moving, Leaving, Finished
    <3>. HIDE DEF v
    <3>. QED BY <1>1, <2>1, <3>1, <3>2
  <2>. QED BY <2>2, <2>3
<1>5. ASSUME NEW d \in t.out, HandOffDeferred(n, d) PROVE Events(E, clock, left)'
  <2>. DEFINE v == [t EXCEPT !.out = @ \ {d}]
  <2>1. t \in Sending /\ t.call = Nothing /\ Same /\ tick' = [tick EXCEPT ![n] = Onward(v)]
    BY <1>0, <1>5, TickShapes DEF HandOffDeferred
  <2>2. v \in Sending /\ Fewer(v)
    BY <2>1 DEF Sending, Leaving, Finished
  <2>. HIDE DEF v
  <2>3. Fewer(Onward(v))
    BY <1>2, <2>2
  <2>. QED BY <1>1, <2>1, <2>3
<1>6. ASSUME NEW s \in Shard, RemoveBegin(n, s) PROVE Events(E, clock, left)'
  <2>1. t \in Seeking \cup Removing /\ t.at = "removing" /\ Same
    BY <1>0, <1>6, TickShapes DEF RemoveBegin
  <2>2. CASE leads[s][n]
    <3>. DEFINE v == [at |-> "removing", todo |-> t.todo, done |-> t.done, holds |-> s,
                      index |-> Len(log[s][n]), term |-> term[s][n]]
    <3>1. tick' = [tick EXCEPT ![n] = v]
      BY <1>6, <2>2 DEF RemoveBegin
    <3>2. Fewer(v)
      BY <2>1 DEF Leaving, Finished
    <3>. HIDE DEF v
    <3>. QED BY <1>1, <2>1, <3>1, <3>2
  <2>3. CASE ~leads[s][n]
    <3>. DEFINE v == [t EXCEPT !.todo = @ \ {s}]
    <3>1. tick' = [tick EXCEPT ![n] = Onward(v)]
      BY <1>6, <2>3 DEF RemoveBegin
    <3>2. v \in Seeking \cup Removing /\ Fewer(v)
      BY <2>1 DEF Seeking, Removing, Leaving, Finished
    <3>. HIDE DEF v
    <3>3. Fewer(Onward(v))
      BY <1>2, <3>2
    <3>. QED BY <1>1, <2>1, <3>1, <3>3
  <2>. QED BY <2>2, <2>3
<1>7. CASE RemoveFails(n)
  <2>. DEFINE v == [t EXCEPT !.todo = @ \ {t.holds}, !.holds = Nowhere]
  <2>1. t \in Removing /\ t.at = "removing" /\ Same /\ tick' = [tick EXCEPT ![n] = Onward(v)]
    BY <1>0, <1>7, TickShapes DEF RemoveFails
  <2>2. v \in Removing /\ Fewer(v)
    BY <2>1 DEF Removing, Leaving, Finished
  <2>. HIDE DEF v
  <2>3. Fewer(Onward(v))
    BY <1>2, <2>2
  <2>. QED BY <1>1, <2>1, <2>3
<1>. QED BY <1>3, <1>4, <1>5, <1>6, <1>7

\* Whatever the world does, short of a mistake, the places of agents are on record.
LEMMA EventsStep ==
  ASSUME WorldTypes, Locks, Next, HistoryStep, ~mistaken',
         NEW E, NEW clock, NEW left, Events(E, clock, left)
  PROVE  \E F, k, after : Events(F, k, after)'
<1>1. Runs /\ Types /\ Callers
  BY GroupSteps, WorldTypesStep DEF WorldTypes, Types, Runs
<1>2. ASSUME NEW s \in Shard, NEW n \in Server, Raft(s, n) PROVE Events(E, clock, left)'
  BY <1>1, <1>2, RaftEvents
<1>3. ASSUME NEW s \in Shard, NEW n \in Server, NEW a \in Agent, SpawnAgent(s, n, a)
      PROVE  Events(E, clock, left)'
  BY <1>1, <1>3, SpawnEvents
<1>4. ASSUME NEW c \in adds, Add(c) PROVE \E F, k, after : Events(F, k, after)'
  <2>1. CASE AddPropose(c)
    BY <1>1, <2>1, ProposeEvents
  <2>2. CASE AddBegin(c) \/ AddDone(c) \/ AddFails(c) \/ AddCancelled(c)
    BY <1>1, <2>2, CallEvents
  <2>. QED BY <1>4, <2>1, <2>2 DEF Add
<1>5. ASSUME NEW n \in Server, Tick(n) PROVE \E F, k, after : Events(F, k, after)'
  <2>1. CASE \/ TickBegin(n) \/ RemoveFails(n)
             \/ \E s \in Shard : TickLooks(n, s) \/ RemoveBegin(n, s)
             \/ \E d \in tick[n].out : HandOffDeferred(n, d)
    <3>1. Events(E, clock, left)'
      BY <1>1, <2>1, QuietTickEvents
    <3>. QED BY <3>1
  <2>2. ASSUME NEW s \in Shard, TickMoves(n, s) PROVE \E F, k, after : Events(F, k, after)'
    BY <1>1, <2>2, MovesEvents
  <2>3. CASE Remove(n)
    BY <1>1, <2>3, RemoveEvents
  <2>4. CASE HandOffGivenUp(n)
    BY <1>1, <2>4, GivenUpEvents
  <2>5. ASSUME NEW c \in adds, HandOffAnswered(n, c) PROVE \E F, k, after : Events(F, k, after)'
    BY <1>1, <2>5, AnsweredEvents
  <2>6. ASSUME NEW d \in tick[n].out, NEW l \in Server, HandOff(n, d, l)
        PROVE  \E F, k, after : Events(F, k, after)'
    BY <1>1, <2>6, HandOffEvents
  <2>. QED BY <1>5, <2>1, <2>2, <2>3, <2>4, <2>5, <2>6 DEF Tick
<1>. QED BY <1>2, <1>3, <1>4, <1>5 DEF Next

-----------------------------------------------------------------------------
(* What is on record is where the committed registries say it is. *)

\* Two servers applied the same, as far as both did.
LEMMA AppliedAgree ==
  ASSUME GroupTypes, NEW s \in Shard, GroupInv(s), NEW q \in Server, NEW m \in Server,
         applied[s][q] <= applied[s][m], NEW i \in 1..applied[s][q]
  PROVE  i \in 1..Len(log[s][m]) /\ log[s][m][i] = log[s][q][i]
<1>. DEFINE a == applied[s][q]
            b == applied[s][m]
<1>1. a \in Nat /\ b \in Nat /\ a > 0 /\ b > 0 /\ a <= b
  BY LogTypes
<1>2. a <= Len(log[s][q]) /\ Safe(s, a, log[s][q][a])
  BY <1>1 DEF GroupInv, AppliedSafe
<1>3. b <= Len(log[s][m]) /\ Safe(s, b, log[s][m][b])
  BY <1>1 DEF GroupInv, AppliedSafe
<1>4. PICK P \in SUBSET Server : IsMajority(P) /\ \A p \in P : Holds(s, p, a, log[s][q][a])
  BY <1>2 DEF Safe
<1>5. PICK Q \in SUBSET Server : IsMajority(Q) /\ \A p \in Q : Holds(s, p, b, log[s][m][b])
  BY <1>3 DEF Safe
<1>6. PICK p \in Server : p \in P /\ p \in Q
  BY <1>4, <1>5, MajoritiesMeet
<1>7. /\ a \in 1..Len(log[s][p]) /\ log[s][p][a] = log[s][q][a]
      /\ b \in 1..Len(log[s][p]) /\ log[s][p][b] = log[s][m][b]
  BY <1>4, <1>5, <1>6 DEF Holds
<1>8. Len(log[s][q]) \in Nat /\ Len(log[s][m]) \in Nat /\ Len(log[s][p]) \in Nat
  BY LogTypes
<1>. HIDE DEF a, b
<1>9. a \in 1..Len(log[s][q]) /\ b \in 1..Len(log[s][m]) /\ a <= a /\ b <= b
  BY <1>1, <1>2, <1>3, <1>8
<1>10. \A k \in 1..a : log[s][p][k] = log[s][q][k]
  BY <1>7, <1>9 DEF GroupInv, Coherent
<1>11. \A k \in 1..b : log[s][p][k] = log[s][m][k]
  BY <1>7, <1>9 DEF GroupInv, Coherent
<1>12. i \in 1..a
  BY DEF a
<1>13. i \in 1..b /\ i \in 1..Len(log[s][m])
  BY <1>1, <1>3, <1>8, <1>12
<1>. QED BY <1>10, <1>11, <1>12, <1>13

\* Some server applied the most.
LEMMA SomeoneAhead ==
  ASSUME GroupTypes, NEW s \in Shard, Server # {}
  PROVE  \E m \in Server : \A q \in Server : applied[s][q] <= applied[s][m]
<1>. DEFINE f(q) == applied[s][q]
            S == {f(q) : q \in Server}
<1>1. \A q \in Server : f(q) \in Nat
  BY LogTypes
<1>2. S \in SUBSET Nat /\ S # {}
  BY <1>1
<1>3. IsFiniteSet(S)
  <2>1. applied[s] \in [Server -> Nat] /\ \A y \in S : \E q \in Server : applied[s][q] = y
    BY DEF GroupTypes
  <2>2. applied[s] \in [Server -> S]
    BY <2>1
  <2>3. applied[s] \in Surjection(Server, S)
    BY <2>1, <2>2 DEF Surjection
  <2>. QED BY <2>3, RegionsAssumption, FS_Surjection
<1>. HIDE DEF S
<1>4. Max(S) \in S /\ \A y \in S : Max(S) >= y
  BY <1>2, <1>3, FiniteMaximum
<1>5. PICK m \in Server : f(m) = Max(S)
  BY <1>4 DEF S
<1>6. \A q \in Server : f(m) >= f(q)
  BY <1>4, <1>5 DEF S
<1>7. \A q \in Server : f(q) <= f(m)
  BY <1>1, <1>6
<1>. QED BY <1>7

\* The last durable event of an agent stands.
LEMMA LastStands ==
  ASSUME NEW E, NEW clock, NEW left, Timed(E, clock, left), NEW a, Placed(E, a)
  PROVE  \E e \in E : e.agent = a /\ Durable(e) /\ ~Overruled(E, e)
<1>. DEFINE D == {e \in E : e.agent = a /\ Durable(e)}
            T == {e.time : e \in D}
<1>1. \A e \in E : e \in Event /\ e.time \in Nat /\ e.time <= clock /\ clock \in Nat
  BY DEF Timed, Event
<1>2. D # {} /\ \A e \in D : e \in E /\ e.agent = a /\ Durable(e)
  BY DEF Placed
<1>3. D \subseteq E
  OBVIOUS
<1>4. \A e, f \in E : f.agent = e.agent /\ e \in D /\ Durable(f) => f \in D
  OBVIOUS
<1>. HIDE DEF D
<1>5. T \in SUBSET (0..clock) /\ T # {} /\ clock \in Nat
  BY <1>1, <1>2, <1>3
<1>. HIDE DEF T
<1>6. Max(T) \in T /\ \A y \in T : Max(T) >= y
  BY <1>5, Maximum
<1>7. PICK e \in D : e.time = Max(T)
  BY <1>6 DEF T
<1>8. ASSUME NEW f \in D PROVE ~(f.time > e.time)
  <2>1. e.time >= f.time
    BY <1>6, <1>7 DEF T
  <2>2. e.time \in Nat /\ f.time \in Nat
    BY <1>1, <1>3
  <2>. QED BY <2>1, <2>2
<1>9. ~Overruled(E, e)
  BY <1>3, <1>4, <1>8 DEF Overruled
<1>. QED BY <1>2, <1>9

\* The last durable event of an agent is not overruled, and the server that applied the
\* most has it: the agent is in what is committed.
LEMMA EventsKeepAll ==
  ASSUME WorldTypes, NEW E, NEW clock, NEW left, Events(E, clock, left)
  PROVE  NeverLost
<1>. SUFFICES ASSUME NEW a \in placed PROVE \E s \in Shard : Committed(s)[a] # Nowhere
  BY DEF NeverLost
<1>1. PICK e \in E : e.agent = a /\ Durable(e) /\ ~Overruled(E, e)
  BY LastStands DEF Events
<1>. DEFINE s == e.shard
            empty == [b \in Agent |-> Nowhere]
<1>2. e \in Event /\ s \in Shard /\ e.index \in Nat /\ GroupTypes /\ GroupInv(s)
  BY DEF Events, Timed, Event, WorldTypes, Types
<1>3. PICK q \in Server : Reached(q, e)
  BY <1>1 DEF Durable
<1>4. PICK n \in Server : /\ n = CHOOSE m \in Server : \A p \in Server : applied[s][p] <= applied[s][m]
                          /\ \A p \in Server : applied[s][p] <= applied[s][n]
  BY <1>2, <1>3, SomeoneAhead
<1>5. Committed(s) = Applying(empty, log[s][n], 0, applied[s][n])
  BY <1>4 DEF Committed
<1>6. /\ applied[s][q] \in Nat /\ applied[s][n] \in Nat /\ log[s][n] \in Seq(Entry)
      /\ Len(log[s][n]) \in Nat /\ Len(log[s][q]) \in Nat
  BY <1>2, LogTypes
<1>7. e.index \in 1..Len(log[s][q]) /\ log[s][q][e.index].term = e.term /\ applied[s][q] >= e.index
  BY <1>3 DEF Reached, HoldsEvent
<1>. HIDE DEF s, empty
<1>8. e.index \in 1..applied[s][q] /\ applied[s][q] <= applied[s][n] /\ e.index \in 1..applied[s][n]
  <2>1. applied[s][q] <= applied[s][n]
    BY <1>4
  <2>2. e.index >= 1 /\ e.index <= applied[s][q]
    BY <1>2, <1>6, <1>7
  <2>. QED BY <1>2, <1>6, <2>1, <2>2
<1>9. e.index \in 1..Len(log[s][n]) /\ log[s][n][e.index] = log[s][q][e.index]
  BY <1>2, <1>8, AppliedAgree
<1>10. HoldsEvent(n, e)
  BY <1>7, <1>9 DEF HoldsEvent, s
<1>11. log[s][n][e.index].agents # NoOp
  BY <1>10 DEF Events, Recorded, Snapshot, s
<1>12. \A j \in e.index..Len(log[s][n]) : log[s][n][j].agents # NoOp => log[s][n][j].agents[a] # Nowhere
  BY <1>1, <1>10 DEF Events, Kept, Snapshot, s
<1>13. applied[s][n] <= Len(log[s][n])
  BY <1>2, <1>6, <1>8 DEF GroupInv, AppliedSafe
<1>14. \/ \A k \in 0 + 1..applied[s][n] : log[s][n][k].agents = NoOp
       \/ \E k \in 0 + 1..applied[s][n] :
             /\ Committed(s) = log[s][n][k].agents /\ log[s][n][k].agents # NoOp
             /\ \A x \in k + 1..applied[s][n] : log[s][n][x].agents = NoOp
  <2>. DEFINE l == log[s][n]
              j == applied[s][n]
  <2>1. l \in Seq(Entry) /\ j \in Nat /\ 0 \in Nat /\ Committed(s) = Applying(empty, l, 0, j)
    BY <1>5, <1>6
  <2>. HIDE DEF l, j
  <2>2. \/ /\ Applying(empty, l, 0, j) = empty
           /\ \A k \in 0 + 1..j : l[k].agents = NoOp
        \/ \E k \in 0 + 1..j : /\ Applying(empty, l, 0, j) = l[k].agents /\ l[k].agents # NoOp
                               /\ \A x \in k + 1..j : l[x].agents = NoOp
    BY <2>1, ApplyingIs
  <2>. QED BY <2>1, <2>2 DEF l, j
<1>15. PICK k \in 1..applied[s][n] :
            /\ Committed(s) = log[s][n][k].agents /\ log[s][n][k].agents # NoOp
            /\ \A x \in k + 1..applied[s][n] : log[s][n][x].agents = NoOp
  BY <1>8, <1>11, <1>14
<1>16. e.index \notin k + 1..applied[s][n]
  BY <1>11, <1>15
<1>17. k \in e.index..Len(log[s][n])
  BY <1>2, <1>6, <1>8, <1>13, <1>16
<1>18. Committed(s)[a] # Nowhere
  BY <1>12, <1>15, <1>17
<1>. QED BY <1>2, <1>18 DEF s

-----------------------------------------------------------------------------
\* Before anything happened there are no events.
LEMMA EventsStart ==
  ASSUME Init
  PROVE  \E E, clock, left : Events(E, clock, left)
<1>. DEFINE none == [n \in Server |-> [s \in Shard |-> 0]]
<1>1. adds = {} /\ placed = {} /\ \A n \in Server : tick[n] = Idle
  BY DEF Init
<1>2. Leaving(Idle) = {} /\ Finished(Idle) = {}
  BY DEF Idle, Leaving, Finished
<1>3. Timed({}, 0, none)
  BY DEF Timed
<1>. HIDE DEF none
<1>4. Events({}, 0, none)
  BY <1>1, <1>2, <1>3 DEF Events, DoneBacked, GoneSince
<1>. QED BY <1>4

\* A stuttering step keeps the record.
LEMMA EventsRest ==
  ASSUME UNCHANGED <<vars, history>>, NEW E, NEW clock, NEW left, Events(E, clock, left)
  PROVE  Events(E, clock, left)'
<1>0. /\ term' = term /\ leads' = leads /\ log' = log /\ applied' = applied /\ agents' = agents
      /\ adds' = adds /\ tick' = tick /\ placed' = placed /\ back' = back
  BY DEF vars, raftVars, history
<1>1. \A e : Recorded(e)' <=> Recorded(e)
  BY <1>0 DEF Recorded, Backed, HoldsEvent, Snapshot, IsMajority
<1>2. \A q, e : Reached(q, e)' <=> Reached(q, e)
  BY <1>0 DEF Reached, HoldsEvent
<1>3. \A e : Durable(e)' <=> Durable(e)
  BY <1>2 DEF Durable
<1>4. \A e : Overruled(E, e)' <=> Overruled(E, e)
  BY <1>3 DEF Overruled
<1>5. \A e : Kept(E, e)' <=> Kept(E, e)
  BY <1>0, <1>4 DEF Kept, HoldsEvent, Snapshot
<1>6. \A e : Registered(E, e)' <=> Registered(E, e)
  BY <1>0, <1>2, <1>4 DEF Registered
<1>7. \A e : Restorable(E, e)' <=> Restorable(E, e)
  BY <1>0, <1>2, <1>4 DEF Restorable
<1>8. \A c, e : Answers(left, c, e)' <=> Answers(left, c, e)
  BY <1>0 DEF Answers
<1>9. \A c : CallBacked(E, left, c)' <=> CallBacked(E, left, c)
  BY <1>3, <1>8 DEF CallBacked
<1>10. \A n : DoneBacked(E, left, n)' <=> DoneBacked(E, left, n)
  BY <1>0, <1>3 DEF DoneBacked
<1>11. \A n : GoneSince(E, left, n)' <=> GoneSince(E, left, n)
  BY <1>0 DEF GoneSince
<1>12. \A a : Placed(E, a)' <=> Placed(E, a)
  BY <1>3 DEF Placed
<1>13. Timed(E, clock, left)'
  BY DEF Events, Timed
<1>. QED BY <1>0, <1>1, <1>5, <1>6, <1>7, <1>9, <1>10, <1>11, <1>12, <1>13 DEF Events

WorldInv ==
    /\ WorldTypes /\ Locks
    /\ mistaken \in BOOLEAN
    /\ ~mistaken => \E E, clock, left : Events(E, clock, left)

\* The start has its types, no lock is taken and nobody was placed.
LEMMA WorldStart ==
  ASSUME Init, HistoryInit
  PROVE  WorldInv
<1>1. WorldTypes
  BY TypesStart, GroupStart DEF WorldTypes
<1>. QED BY <1>1, LocksStart, EventsStart DEF WorldInv, HistoryInit

\* Each step keeps the types, the groups, the locks and, until a mistake, the record.
LEMMA WorldStep ==
  ASSUME WorldInv, [HistoryNext]_<<vars, history>>
  PROVE  WorldInv'
<1>1. [Next]_vars
  BY DEF HistoryNext
<1>2. WorldTypes' /\ Locks'
  BY <1>1, WorldTypesStep, LocksStep DEF WorldInv
<1>3. CASE HistoryNext
  <2>1. mistaken' \in BOOLEAN
    BY <1>3 DEF HistoryNext, HistoryStep
  <2>2. ASSUME ~mistaken' PROVE (\E E, clock, left : Events(E, clock, left))'
    <3>1. PICK E, clock, left : Events(E, clock, left)
      BY <1>3 DEF WorldInv, HistoryNext
    <3>2. \E F, k, after : Events(F, k, after)'
      BY <1>3, <2>2, <3>1, EventsStep DEF WorldInv, HistoryNext
    <3>. QED BY <3>2
  <2>. QED BY <1>2, <2>1, <2>2 DEF WorldInv
<1>4. CASE UNCHANGED <<vars, history>>
  <2>1. mistaken' = mistaken
    BY <1>4 DEF history
  <2>2. ASSUME ~mistaken PROVE (\E E, clock, left : Events(E, clock, left))'
    <3>1. PICK E, clock, left : Events(E, clock, left)
      BY <2>2 DEF WorldInv
    <3>2. Events(E, clock, left)'
      BY <1>4, <3>1, EventsRest
    <3>. QED BY <3>2
  <2>. QED BY <1>2, <2>1, <2>2 DEF WorldInv
<1>. QED BY <1>3, <1>4

\* What the invariant says to a reader.
LEMMA WorldShows ==
  ASSUME WorldInv
  PROVE  TypeOK /\ LostByMistake
<1>1. TypeOK
  BY TypesCorrect DEF WorldInv, WorldTypes
<1>2. LostByMistake
  BY EventsKeepAll DEF WorldInv, LostByMistake
<1>. QED BY <1>1, <1>2

\* handoff.py:5-6, "never lose one": an agent that was placed durably is in the committed
\* registry of some shard, whoever is elected, crashes or gives up on a call, as long as
\* no failing add_agent took back entries that were applied meanwhile (shard_state.py:69)
\* and no phase 2 dropped an agent that had come back (region_server.py:79).
THEOREM OnlyMistakesLose == HistorySpec => []LostByMistake
<1>1. Init /\ HistoryInit => WorldInv
  BY WorldStart
<1>2. WorldInv /\ [HistoryNext]_<<vars, history>> => WorldInv'
  BY WorldStep
<1>3. WorldInv => LostByMistake
  BY WorldShows
<1>. QED BY <1>1, <1>2, <1>3, PTL DEF HistorySpec

-----------------------------------------------------------------------------
(* The settled world. *)

\* What Settled says of a shard, server by server.
SettledGroup(s, registry) ==
    /\ registry \in Registry
    /\ \E leader \in Server :
         /\ \A n \in Server : leads[s][n] <=> n = leader
         /\ \A n, m \in Server : matchIndex[s][n][m] = IF n = leader /\ m # n THEN 2 ELSE 0
    /\ \A n \in Server :
         /\ term[s][n] = 1 /\ applied[s][n] = 2 /\ Len(log[s][n]) = 2
         /\ log[s][n][1] = [term |-> 1, agents |-> NoOp]
         /\ log[s][n][2] = [term |-> 1, agents |-> registry]

\* In a settled shard the group has one leader, and all of the log is on all servers.
LEMMA SettledInv ==
  ASSUME GroupTypes, NEW s \in Shard, NEW registry, SettledGroup(s, registry)
  PROVE  GroupInv(s)
<1>0. PICK leader \in Server :
         /\ \A n \in Server : leads[s][n] <=> n = leader
         /\ \A n, m \in Server : matchIndex[s][n][m] = IF n = leader /\ m # n THEN 2 ELSE 0
  BY DEF SettledGroup
<1>1. \A n \in Server : /\ term[s][n] = 1 /\ applied[s][n] = 2 /\ Len(log[s][n]) = 2
                        /\ log[s][n][1] = [term |-> 1, agents |-> NoOp]
                        /\ log[s][n][2] = [term |-> 1, agents |-> registry]
  BY DEF SettledGroup
<1>2. \A n \in Server : \A i \in 1..Len(log[s][n]) :
         (i = 1 \/ i = 2) /\ log[s][n][i].term = 1 /\ i \in 1..2
  <2>1. ASSUME NEW n \in Server, NEW i \in 1..Len(log[s][n]) PROVE i = 1 \/ i = 2
    <3>1. Len(log[s][n]) = 2
      BY <1>1
    <3>. QED BY <3>1
  <2>2. \A n \in Server : log[s][n][1].term = 1 /\ log[s][n][2].term = 1
    BY <1>1
  <2>. QED BY <2>1, <2>2
<1>3. \A n, m \in Server : \A i \in 1..2 : log[s][n][i] = log[s][m][i]
  <2>1. \A i \in 1..2 : i = 1 \/ i = 2
    OBVIOUS
  <2>. QED BY <1>1, <2>1
<1>4. IsMajority(Server)
  <2>1. IsFiniteSet(Server) /\ Server # {}
    BY RegionsAssumption
  <2>2. Cardinality(Server) \in Nat /\ Cardinality(Server) # 0
    BY <2>1, FS_CardinalityType, FS_EmptySet
  <2>. QED BY <2>2 DEF IsMajority
<1>5. Backed(s, 1)
  BY <1>1, <1>4 DEF Backed
<1>6. \A q \in Server : ~Later(s, q, 1)
  BY <1>2 DEF Later
<1>7. TermsBacked(s)
  BY <1>1, <1>2, <1>5 DEF TermsBacked
<1>8. TermsAscend(s)
  <2>1. \A q \in Server : \A i \in 1..Len(log[s][q]) : log[s][q][i].term >= 1 /\ log[s][q][i].term <= term[s][q]
    BY <1>1, <1>2
  <2>2. ASSUME NEW q \in Server, NEW j \in 1..Len(log[s][q]), NEW i \in 1..j
        PROVE  log[s][q][i].term <= log[s][q][j].term
    <3>1. i \in 1..Len(log[s][q])
      <4>1. Len(log[s][q]) = 2 /\ (j = 1 \/ j = 2)
        BY <1>1, <1>2
      <4>2. i \in 1..2
        BY <4>1
      <4>. QED BY <4>1, <4>2
    <3>. QED BY <1>2, <3>1
  <2>. QED BY <2>1, <2>2 DEF TermsAscend
<1>9. OneLeader(s)
  BY <1>0 DEF OneLeader
<1>10. LeaderOwns(s)
  BY <1>1, <1>2 DEF LeaderOwns
<1>11. Coherent(s)
  <2>1. ASSUME NEW p \in Server, NEW q \in Server, NEW i \in 1..Len(log[s][p]), NEW k \in 1..i
        PROVE  log[s][p][k] = log[s][q][k]
    <3>1. i = 1 \/ i = 2
      BY <1>2
    <3>2. k \in 1..2
      BY <3>1
    <3>. QED BY <1>3, <3>2
  <2>. QED BY <2>1 DEF Coherent
<1>12. AcksHold(s)
  <2>1. ASSUME NEW n \in Server, NEW q \in Server, leads[s][n], matchIndex[s][n][q] > 0
        PROVE  /\ matchIndex[s][n][q] <= Len(log[s][n]) /\ term[s][q] >= term[s][n]
               /\ \A i \in 1..matchIndex[s][n][q] : Holds(s, q, i, log[s][n][i])
    <3>1. matchIndex[s][n][q] = 2
      BY <1>0, <2>1
    <3>2. \A i \in 1..2 : Holds(s, q, i, log[s][n][i])
      BY <1>1, <1>3 DEF Holds
    <3>. QED BY <1>1, <3>1, <3>2
  <2>. QED BY <2>1 DEF AcksHold
<1>13. LaterHold(s)
  BY <1>1, <1>6 DEF LaterHold
<1>14. AppliedSafe(s)
  <2>1. ASSUME NEW q \in Server
        PROVE  applied[s][q] <= Len(log[s][q]) /\ Safe(s, applied[s][q], log[s][q][applied[s][q]])
    <3>1. log[s][q][2].term = 1
      BY <1>1
    <3>2. \A p \in Server : term[s][p] >= log[s][q][2].term /\ Holds(s, p, 2, log[s][q][2])
      BY <1>1, <1>3 DEF Holds
    <3>3. Safe(s, 2, log[s][q][2])
      BY <1>4, <1>6, <3>1, <3>2 DEF Safe
    <3>. QED BY <1>1, <3>3
  <2>. QED BY <2>1 DEF AppliedSafe
<1>. QED BY <1>7, <1>8, <1>9, <1>10, <1>11, <1>12, <1>13, <1>14 DEF GroupInv

\* The settled world is one that the argument covers: each agent has one event.
LEMMA SettledWorld ==
  ASSUME Settled, HistoryInit
  PROVE  WorldInv
<1>1. PICK leader \in [Shard -> Server], home \in [Agent -> Shard] :
         LET registry(s) == [a \in Agent |-> IF home[a] = s THEN s ELSE Nowhere] IN
         /\ leads = [s \in Shard |-> [n \in Server |-> n = leader[s]]]
         /\ matchIndex = [s \in Shard |-> [n \in Server |-> [m \in Server |->
              IF n = leader[s] /\ m # n THEN 2 ELSE 0]]]
         /\ agents = [s \in Shard |-> [n \in Server |-> registry(s)]]
         /\ log = [s \in Shard |-> [n \in Server |->
              <<[term |-> 1, agents |-> NoOp], [term |-> 1, agents |-> registry(s)]>>]]
  BY DEF Settled
<1>. DEFINE registry(s) == [a \in Agent |-> IF home[a] = s THEN s ELSE Nowhere]
            first == [term |-> 1, agents |-> NoOp]
            second(s) == [term |-> 1, agents |-> registry(s)]
<1>2. /\ leads = [s \in Shard |-> [n \in Server |-> n = leader[s]]]
      /\ matchIndex = [s \in Shard |-> [n \in Server |-> [m \in Server |->
           IF n = leader[s] /\ m # n THEN 2 ELSE 0]]]
      /\ agents = [s \in Shard |-> [n \in Server |-> registry(s)]]
      /\ log = [s \in Shard |-> [n \in Server |-> <<first, second(s)>>]]
      /\ term = [s \in Shard |-> [n \in Server |-> 1]]
      /\ applied = [s \in Shard |-> [n \in Server |-> 2]]
      /\ adds = {} /\ placed = Agent /\ moves = 0 /\ \A n \in Server : tick[n] = Idle
  BY <1>1 DEF Settled
<1>3. tick \in [Server -> TickState]
  BY DEF Settled, TickState
<1>4. \A s \in Shard : registry(s) \in Registry /\ second(s).agents = registry(s) /\ second(s).term = 1
  BY DEF Registry
<1>5. \A a \in Agent : home[a] \in Shard /\ home[a] # Nowhere /\ registry(home[a])[a] = home[a]
  BY RegionsAssumption
<1>. HIDE DEF registry
<1>6. first \in Entry /\ \A s \in Shard : second(s) \in Entry
  BY <1>4 DEF Entry
<1>. HIDE DEF first, second
<1>7. \A s \in Shard : /\ <<first, second(s)>> \in Seq(Entry) /\ Len(<<first, second(s)>>) = 2
                       /\ <<first, second(s)>>[1] = first /\ <<first, second(s)>>[2] = second(s)
  BY <1>6
<1>8. \A s \in Shard, n \in Server :
         /\ Len(log[s][n]) = 2 /\ log[s][n][1] = first /\ log[s][n][2] = second(s)
         /\ agents[s][n] = registry(s) /\ term[s][n] = 1 /\ applied[s][n] = 2
  BY <1>2, <1>7
<1>9. GroupTypes
  <2>1. term \in [Shard -> [Server -> 0..MaxTerm]]
    <3>1. 1 \in 0..MaxTerm
      BY RegionsAssumption
    <3>. QED BY <1>2, <3>1
  <2>2. log \in [Shard -> [Server -> Seq(Entry)]]
    BY <1>2, <1>7
  <2>3. leads \in [Shard -> [Server -> BOOLEAN]] /\ applied \in [Shard -> [Server -> Nat]]
    BY <1>2
  <2>4. matchIndex \in [Shard -> [Server -> [Server -> Nat]]]
    BY <1>2
  <2>. QED BY <2>1, <2>2, <2>3, <2>4 DEF GroupTypes
<1>10. LoopTypes
  BY <1>2, <1>3, <1>4, RegionsAssumption DEF LoopTypes
<1>11. ASSUME NEW s \in Shard PROVE GroupInv(s)
  <2>1. leader[s] \in Server /\ \A n \in Server : leads[s][n] <=> n = leader[s]
    BY <1>2
  <2>2. \A n, m \in Server : matchIndex[s][n][m] = IF n = leader[s] /\ m # n THEN 2 ELSE 0
    BY <1>2
  <2>3. SettledGroup(s, registry(s))
    BY <1>4, <1>8, <2>1, <2>2 DEF SettledGroup, first, second
  <2>. QED BY <1>9, <2>3, SettledInv
<1>12. Locks /\ Callers
  BY <1>2 DEF Locks, Callers, Removes, Idle
<1>. DEFINE ev(a) == [shard |-> home[a], agent |-> a, term |-> 1, index |-> 2, time |-> 0]
            E == {ev(a) : a \in Agent}
            none == [n \in Server |-> [s \in Shard |-> 0]]
<1>13. Timed(E, 0, none)
  BY <1>5 DEF Timed, Event
<1>14. \A a \in Agent : /\ ev(a).shard = home[a] /\ ev(a).agent = a /\ ev(a).term = 1
                        /\ ev(a).index = 2
  OBVIOUS
<1>. HIDE DEF none, ev
<1>15. \A a \in Agent, q \in Server : HoldsEvent(q, ev(a)) /\ Reached(q, ev(a))
  <2>1. \A s \in Shard : second(s).term = 1
    BY DEF second
  <2>. QED BY <1>5, <1>8, <1>14, <2>1 DEF HoldsEvent, Reached
<1>16. ASSUME NEW a \in Agent
       PROVE  Recorded(ev(a)) /\ Kept(E, ev(a)) /\ Registered(E, ev(a)) /\ Restorable(E, ev(a)) /\ Durable(ev(a))
  <2>1. home[a] \in Shard /\ home[a] # Nowhere /\ registry(home[a])[a] = home[a] /\ leader[home[a]] \in Server
    BY <1>5
  <2>2. second(home[a]).agents = registry(home[a]) /\ registry(home[a]) # NoOp
    BY <1>4, <2>1, RegionsAssumption DEF Registry
  <2>3. Backed(home[a], 1)
    <3>1. leads[home[a]][leader[home[a]]] /\ term[home[a]][leader[home[a]]] = 1
      BY <1>2, <2>1
    <3>. QED BY <1>11, <2>1, <3>1 DEF GroupInv, TermsBacked
  <2>4. \A q \in Server : Snapshot(home[a], q, 2) = registry(home[a]) /\ Len(log[home[a]][q]) = 2
    BY <1>8, <2>1, <2>2 DEF Snapshot
  <2>5. Recorded(ev(a))
    BY <1>14, <1>15, <2>2, <2>3, <2>4 DEF Recorded
  <2>6. Kept(E, ev(a))
    <3>1. ASSUME NEW q \in Server, NEW j \in 2..Len(log[home[a]][q]) PROVE Snapshot(home[a], q, j)[a] # Nowhere
      <4>1. j = 2
        <5>1. Len(log[home[a]][q]) = 2
          BY <2>4
        <5>. QED BY <5>1
      <4>. QED BY <2>1, <2>4, <4>1
    <3>. QED BY <1>14, <3>1 DEF Kept
  <2>7. Registered(E, ev(a))
    BY <1>8, <1>14, <2>1 DEF Registered
  <2>8. Restorable(E, ev(a)) /\ Durable(ev(a))
    BY <1>2, <1>15, <2>1 DEF Restorable, Durable
  <2>. QED BY <2>5, <2>6, <2>7, <2>8
<1>17. \A a \in placed : Placed(E, a)
  BY <1>2, <1>14, <1>16 DEF Placed
<1>18. Leaving(Idle) = {} /\ Finished(Idle) = {}
  BY DEF Idle, Leaving, Finished
<1>19. \A n \in Server : DoneBacked(E, none, n) /\ GoneSince(E, none, n)
  BY <1>2, <1>18 DEF DoneBacked, GoneSince
<1>20. \A e \in E : Recorded(e) /\ Kept(E, e) /\ Registered(E, e) /\ Restorable(E, e)
  <2>1. \A e \in E : \E a \in Agent : e = ev(a)
    OBVIOUS
  <2>. HIDE DEF E
  <2>. QED BY <1>16, <2>1
<1>. HIDE DEF E
<1>21. Events(E, 0, none)
  BY <1>2, <1>13, <1>17, <1>19, <1>20 DEF Events
<1>22. mistaken = FALSE
  BY DEF HistoryInit
<1>. QED BY <1>9, <1>10, <1>11, <1>12, <1>21, <1>22 DEF WorldInv, WorldTypes, Types
=============================================================================
