----------------------------- MODULE RaftProofs -----------------------------
(***************************************************************************)
(* Proofs about Raft for every group, every set of commands and all bounds:*)
(* its types, its elections and its logs.  A term has one leader for good, *)
(* and the logs match.                                                     *)
(***************************************************************************)
EXTENDS Raft, FiniteSetTheorems, SequenceTheorems, TLAPS

-----------------------------------------------------------------------------
(* The operators of the model. *)

\* A nonempty set of naturals has a least element, and Min is it.
LEMMA Minimum ==
  ASSUME NEW S \in SUBSET Nat, S # {}
  PROVE  Min(S) \in S /\ \A y \in S : Min(S) <= y
<1>. DEFINE T == {0..y : y \in S}
<1>1. T \subseteq FiniteSubsetsOf(Nat) /\ T # {}
  <2>1. ASSUME NEW y \in S PROVE 0..y \in SUBSET Nat /\ IsFiniteSet(0..y)
    BY FS_Interval
  <2>. QED BY <2>1 DEF FiniteSubsetsOf
<1>2. PICK X \in T : \A Y \in T : <<Y, X>> \notin StrictSubsetOrdering(Nat)
  BY <1>1, FS_StrictSubsetOrderingWellFounded, WFMin
<1>3. PICK x \in S : X = 0..x
  OBVIOUS
<1>4. ASSUME NEW y \in S, y < x PROVE FALSE
  <2>1. 0..y \in SUBSET Nat /\ 0..x \in SUBSET Nat /\ 0..y \subseteq 0..x
    BY <1>4
  <2>2. x \in 0..x /\ x \notin 0..y
    BY <1>4
  <2>3. <<0..y, 0..x>> \in StrictSubsetOrdering(Nat)
    BY <2>1, <2>2 DEF StrictSubsetOrdering
  <2>. QED BY <2>3, <1>2, <1>3
<1>5. \A y \in S : x <= y
  BY <1>4
<1>. QED BY <1>5 DEF Min

\* The smaller of two naturals.
LEMMA MinOfTwo ==
  ASSUME NEW a \in Nat, NEW b \in Nat
  PROVE  Min({a, b}) \in Nat /\ Min({a, b}) <= a /\ Min({a, b}) <= b
  BY Minimum

\* Merging entries after an index the log reaches gives a log: the cut never
\* falls beyond the log's end.
LEMMA MergeType ==
  ASSUME NEW lg \in Seq(Entry), NEW es \in Seq(Entry), NEW prev \in Nat, prev <= Len(lg)
  PROVE  Merge(lg, prev, es) \in Seq(Entry)
<1>. DEFINE D == Differing(lg, prev, es)
            i == Min(D)
<1>1. CASE D = {}
  BY <1>1 DEF Merge
<1>2. CASE D # {}
  <2>1. D \in SUBSET Nat
    BY DEF Differing
  <2>2. i \in D /\ \A j \in D : i <= j
    BY <1>2, <2>1, Minimum
  <2>3. i \in 1..Len(es)
    BY <2>2 DEF Differing
  <2>4. prev + i - 1 <= Len(lg)
    <3>1. CASE i = 1
      BY <3>1
    <3>2. CASE i # 1
      <4>1. i - 1 \in 1..Len(es) /\ i - 1 \notin D
        BY <3>2, <2>2, <2>3
      <4>. QED BY <4>1, <2>3 DEF Differing
    <3>. QED BY <3>1, <3>2
  <2>5. SubSeq(lg, 1, prev + i - 1) \in Seq(Entry)
    <3>. HIDE DEF i
    <3>. QED BY <2>3, <2>4, SubSeqProperties, ElementOfSeq, LenProperties
  <2>6. SubSeq(es, i, Len(es)) \in Seq(Entry)
    <3>. HIDE DEF i
    <3>. QED BY <2>3, SubSeqProperties, ElementOfSeq, LenProperties
  <2>. QED BY <1>2, <2>5, <2>6, ConcatProperties DEF Merge
<1>. QED BY <1>1, <1>2
-----------------------------------------------------------------------------
(* The types, with what they rest on: the term before the new entries is read *)
(* at next_index - 1, which the log must reach.                              *)

IsAppend(m) == m.type \in {"AppendRequest", "AppendReply"}

\* The last entry an append call sent.
SentUpTo(m) ==
    IF m.type = "AppendRequest" THEN m.prevLogIndex + Len(m.entries) ELSE m.sentUpTo

\* A leader never asks for an entry beyond the end of its log.
NextIndexInLog ==
    \A n, p \in Node : role[n] = "leader" => nextIndex[n][p] <= Len(log[n]) + 1

\* An append call was made by a leader of its term: its caller is not a
\* candidate of that term, and while it leads, its log holds what it sent.
AppendCallsInLog ==
    \A m \in rpcs : IsAppend(m) =>
        /\ m.term <= currentTerm[m.src]
        /\ m.term = currentTerm[m.src] =>
             /\ role[m.src] # "candidate"
             /\ role[m.src] = "leader" => SentUpTo(m) <= Len(log[m.src])

TypeInv == TypeOK /\ NextIndexInLog /\ AppendCallsInLog

-----------------------------------------------------------------------------
\* Reading a term within the log gives a term.
LEMMA TermAtType ==
  ASSUME NEW lg \in Seq(Entry), NEW i \in Nat, i <= Len(lg)
  PROVE  TermAt(lg, i) \in Nat
<1>1. CASE i = 0
  BY <1>1 DEF TermAt
<1>2. CASE i # 0
  <2>1. lg[i] \in Entry
    BY <1>2, LenProperties, ElementOfSeq
  <2>. QED BY <1>2, <2>1 DEF TermAt, Entry
<1>. QED BY <1>1, <1>2

\* Any part of a sequence, the empty one included.
LEMMA SubSeqType ==
  ASSUME NEW S, NEW s \in Seq(S), NEW i \in Nat \ {0}, NEW j \in Nat, j <= Len(s)
  PROVE  /\ SubSeq(s, i, j) \in Seq(S)
         /\ Len(SubSeq(s, i, j)) = IF i <= j THEN j - i + 1 ELSE 0
<1>1. \A k \in i..j : s[k] \in S
  BY ElementOfSeq, LenProperties
<1>. QED BY <1>1, SubSeqProperties

\* A request or reply is of the kind its type names.
LEMMA RpcKinds ==
  ASSUME NEW m \in Rpc
  PROVE  /\ m.src \in Node /\ m.dst \in Node /\ m.term \in Nat
         /\ m.type = "VoteRequest" => m \in VoteRequest
         /\ m.type = "VoteReply" => m \in VoteReply
         /\ m.type = "AppendRequest" => m \in AppendRequest
         /\ m.type = "AppendReply" => m \in AppendReply
         /\ m.type \in {"VoteRequest", "VoteReply", "AppendRequest", "AppendReply"}
  BY DEF Rpc, VoteRequest, VoteReply, AppendRequest, AppendReply

\* A group starts well typed, with every next index right after the sentinel.
LEMMA TypeInit == Init => TypeInv
<1>. SUFFICES ASSUME Init PROVE TypeInv
  OBVIOUS
<1>1. TypeOK
  BY EmptySeq DEF Init, TypeOK, Role
<1>2. NextIndexInLog /\ AppendCallsInLog
  BY DEF Init, NextIndexInLog, AppendCallsInLog
<1>. QED BY <1>1, <1>2 DEF TypeInv

\* When a step keeps AppendCallsInLog: it makes no append call, and a member
\* that stays in its term keeps its role and does not lose entries, steps down,
\* or was a candidate, of whose term there are no append calls.
LEMMA CallsKept ==
  ASSUME TypeOK, TypeOK', AppendCallsInLog,
         \A a \in rpcs' : IsAppend(a) =>
            \E b \in rpcs : /\ IsAppend(b) /\ b.src = a.src /\ b.term = a.term
                            /\ SentUpTo(b) = SentUpTo(a),
         \A n \in Node :
            \/ currentTerm'[n] > currentTerm[n]
            \/ /\ currentTerm'[n] = currentTerm[n]
               /\ \/ role'[n] = "follower"
                  \/ role[n] = "candidate" /\ role'[n] = "leader"
                  \/ role'[n] = role[n] /\ Len(log'[n]) >= Len(log[n])
  PROVE  AppendCallsInLog'
<1>. SUFFICES ASSUME NEW a \in rpcs', IsAppend(a)
              PROVE  /\ a.term <= currentTerm'[a.src]
                     /\ a.term = currentTerm'[a.src] =>
                          /\ role'[a.src] # "candidate"
                          /\ role'[a.src] = "leader" => SentUpTo(a) <= Len(log'[a.src])
  BY DEF AppendCallsInLog
<1>1. PICK b \in rpcs : /\ IsAppend(b) /\ b.src = a.src /\ b.term = a.term
                        /\ SentUpTo(b) = SentUpTo(a)
  OBVIOUS
<1>2. b \in Rpc
  BY <1>1 DEF TypeOK
<1>3. a.src \in Node /\ a.term \in Nat /\ SentUpTo(a) \in Nat
  BY <1>1, <1>2, RpcKinds, LenProperties DEF SentUpTo, IsAppend, AppendRequest, AppendReply
<1>4. /\ currentTerm[a.src] \in Nat /\ currentTerm'[a.src] \in Nat
      /\ Len(log[a.src]) \in Nat /\ Len(log'[a.src]) \in Nat
  BY <1>3, LenProperties DEF TypeOK
<1>5. /\ a.term <= currentTerm[a.src]
      /\ a.term = currentTerm[a.src] =>
           /\ role[a.src] # "candidate"
           /\ role[a.src] = "leader" => SentUpTo(a) <= Len(log[a.src])
  BY <1>1 DEF AppendCallsInLog
<1>. QED BY <1>3, <1>4, <1>5

\* An election's vote requests describe a log that is there.
LEMMA TypeStartElection ==
  ASSUME TypeInv, NEW n \in Node, StartElection(n)
  PROVE  TypeInv'
<1>. USE DEF TypeInv, TypeOK
<1>1. TypeOK'
  <2>1. LastTerm(log[n]) \in Nat /\ LastIndex(log[n]) \in Nat
    BY TermAtType, LenProperties DEF LastTerm, LastIndex
  <2>2. \A p \in Peers(n) :
          [type |-> "VoteRequest", src |-> n, dst |-> p, term |-> currentTerm[n] + 1,
           lastLogTerm |-> LastTerm(log[n]), lastLogIndex |-> LastIndex(log[n])] \in Rpc
    BY <2>1, SMTT(60) DEF Peers, Rpc, VoteRequest
  <2>3. rpcs' \in SUBSET Rpc
    BY <2>2 DEF StartElection
  <2>. QED BY <2>3 DEF StartElection, logVars, leaderVars, Role
<1>2. NextIndexInLog'
  BY DEF StartElection, logVars, leaderVars, NextIndexInLog
<1>3. AppendCallsInLog'
  <2>1. \A m \in rpcs' : IsAppend(m) => m \in rpcs
    BY DEF StartElection, IsAppend
  <2>2. \A k \in Node :
          \/ currentTerm'[k] > currentTerm[k]
          \/ /\ currentTerm'[k] = currentTerm[k] /\ role'[k] = role[k]
             /\ Len(log'[k]) >= Len(log[k])
    BY LenProperties DEF StartElection, logVars
  <2>. QED BY <1>1, <2>1, <2>2, CallsKept
<1>. QED BY <1>1, <1>2, <1>3

\* A heartbeat reads the log only where it has entries: at the entry before
\* next_index and from there to the end.
LEMMA TypeReplicateTo ==
  ASSUME TypeInv, NEW n \in Node, NEW p \in Node, ReplicateTo(n, p)
  PROVE  TypeInv'
<1>. USE DEF TypeInv, TypeOK
<1>1. PICK c \in Call :
        rpcs' = rpcs \cup
              {[type |-> "AppendRequest", src |-> n, dst |-> p, call |-> c,
                term |-> currentTerm[n],
                prevLogIndex |-> nextIndex[n][p] - 1,
                prevLogTerm |-> TermAt(log[n], nextIndex[n][p] - 1),
                entries |-> SubSeq(log[n], nextIndex[n][p], Len(log[n])),
                leaderCommit |-> commitIndex[n]]}
  BY DEF ReplicateTo
<1>. DEFINE next == nextIndex[n][p]
            es == SubSeq(log[n], next, Len(log[n]))
            req == [type |-> "AppendRequest", src |-> n, dst |-> p, call |-> c,
                    term |-> currentTerm[n],
                    prevLogIndex |-> next - 1,
                    prevLogTerm |-> TermAt(log[n], next - 1),
                    entries |-> es,
                    leaderCommit |-> commitIndex[n]]
<1>2. next \in Nat \ {0} /\ next <= Len(log[n]) + 1 /\ role[n] = "leader"
  BY DEF ReplicateTo, NextIndexInLog
<1>3. log[n] \in Seq(Entry) /\ Len(log[n]) \in Nat
  BY LenProperties
<1>4. es \in Seq(Entry) /\ Len(es) = Len(log[n]) - next + 1
  <2>. HIDE DEF next, TypeInv, TypeOK
  <2>1. es \in Seq(Entry) /\ Len(es) = IF next <= Len(log[n]) THEN Len(log[n]) - next + 1 ELSE 0
    BY <1>2, <1>3, SubSeqType
  <2>. QED BY <2>1, <1>2, <1>3
<1>5. TermAt(log[n], next - 1) \in Nat
  <2>. HIDE DEF next, TypeInv, TypeOK
  <2>1. next - 1 \in Nat /\ next - 1 <= Len(log[n])
    BY <1>2, <1>3
  <2>. QED BY <2>1, <1>3, TermAtType
<1>6. req \in AppendRequest
  <2>1. next - 1 \in Nat /\ currentTerm[n] \in Nat /\ commitIndex[n] \in Nat
    BY <1>2, SMTT(60)
  <2>. HIDE DEF next, es, TypeInv, TypeOK
  <2>. QED BY <2>1, <1>4, <1>5 DEF AppendRequest
<1>7. TypeOK'
  BY <1>1, <1>6 DEF ReplicateTo, electionVars, logVars, leaderVars, Rpc
<1>8. NextIndexInLog'
  BY DEF ReplicateTo, electionVars, logVars, leaderVars, NextIndexInLog
<1>9. SentUpTo(req) <= Len(log[n])
  BY <1>2, <1>3, <1>4, SMTT(60) DEF SentUpTo
<1>10. AppendCallsInLog'
  <2>. HIDE DEF req
  <2>1. req.src = n /\ req.term = currentTerm[n]
    BY DEF req
  <2>2. rpcs' = rpcs \cup {req}
    BY <1>1 DEF req
  <2>3. currentTerm' = currentTerm /\ role' = role /\ log' = log
    BY DEF ReplicateTo, electionVars, logVars
  <2>. QED BY <2>1, <2>2, <2>3, <1>2, <1>9, SMTT(60) DEF AppendCallsInLog
<1>. QED BY <1>7, <1>8, <1>10

\* Answering a vote request moves only term, role and vote, or nothing.
LEMMA TypeHandleRequestVote ==
  ASSUME TypeInv, NEW m \in rpcs, HandleRequestVote(m)
  PROVE  TypeInv'
<1>. DEFINE n == m.dst
<1>1. m \in VoteRequest /\ n \in Node /\ m.src \in Node /\ m.term \in Nat
  BY RpcKinds DEF TypeInv, TypeOK, HandleRequestVote
<1>2. PICK granted \in BOOLEAN :
        /\ votedFor' = [votedFor EXCEPT ![n] =
             IF granted THEN m.src ELSE IF Newer(m.term, n) THEN Nil ELSE @]
        /\ Answer(m, [type |-> "VoteReply", src |-> m.src, dst |-> n, term |-> m.term,
                      replyTerm |-> currentTerm'[n], granted |-> granted])
  BY DEF HandleRequestVote
<1>3. /\ currentTerm' = [currentTerm EXCEPT ![n] = IF Newer(m.term, n) THEN m.term ELSE @]
      /\ role' = [role EXCEPT ![n] = IF Newer(m.term, n) THEN "follower" ELSE @]
      /\ UNCHANGED <<up, leaderId, votes, logVars, leaderVars, crashes>>
  BY DEF HandleRequestVote
<1>4. TypeOK'
  <2>1. currentTerm' \in [Node -> Nat] /\ role' \in [Node -> Role]
        /\ votedFor' \in [Node -> Node \cup {Nil}]
    BY <1>1, <1>2, <1>3 DEF TypeInv, TypeOK, Role
  <2>2. rpcs' \in SUBSET Rpc
    <3>1. [type |-> "VoteReply", src |-> m.src, dst |-> n, term |-> m.term,
           replyTerm |-> currentTerm'[n], granted |-> granted] \in VoteReply
      BY <1>1, <2>1 DEF VoteReply
    <3>. QED BY <3>1, <1>2 DEF Answer, Rpc, TypeInv, TypeOK
  <2>. QED BY <2>1, <2>2, <1>3 DEF TypeInv, TypeOK, logVars, leaderVars
<1>5. NextIndexInLog'
  BY <1>1, <1>3 DEF TypeInv, TypeOK, NextIndexInLog, logVars, leaderVars
<1>6. AppendCallsInLog'
  <2>1. \A a \in rpcs' : IsAppend(a) => a \in rpcs
    BY <1>2 DEF IsAppend, Answer
  <2>2. \A k \in Node :
          \/ currentTerm'[k] > currentTerm[k]
          \/ currentTerm'[k] = currentTerm[k] /\ role'[k] = role[k] /\ Len(log'[k]) >= Len(log[k])
    BY <1>1, <1>3, LenProperties, SMTT(60) DEF Newer, TypeInv, TypeOK, logVars
  <2>. QED BY <1>4, <2>1, <2>2, CallsKept DEF TypeInv
<1>. QED BY <1>4, <1>5, <1>6 DEF TypeInv

\* A counted vote may make a leader, whose next indexes lie within its log.
LEMMA TypeReceiveVoteReply ==
  ASSUME TypeInv, NEW m \in rpcs, ReceiveVoteReply(m)
  PROVE  TypeInv'
<1>. DEFINE n == m.src
<1>1. /\ m \in VoteReply /\ n \in Node /\ m.dst \in Node /\ m.term \in Nat
      /\ m.replyTerm \in Nat /\ rpcs' \subseteq rpcs
      /\ UNCHANGED <<up, commitIndex, applied, crashes>>
  BY RpcKinds DEF TypeInv, TypeOK, ReceiveVoteReply, VoteReply
<1>2. \A a \in rpcs' : IsAppend(a) => a \in rpcs
  BY <1>1
<1>3. CASE /\ m.replyTerm > currentTerm[n] /\ BecomeFollower(n, m.replyTerm)
           /\ UNCHANGED <<leaderId, votes, log, leaderVars>>
  <2>1. TypeOK'
    BY <1>1, <1>3 DEF TypeInv, TypeOK, Role, BecomeFollower, leaderVars
  <2>2. NextIndexInLog'
    BY <1>1, <1>3 DEF TypeInv, TypeOK, BecomeFollower, leaderVars, NextIndexInLog
  <2>3. \A k \in Node :
          \/ currentTerm'[k] > currentTerm[k]
          \/ currentTerm'[k] = currentTerm[k] /\ role'[k] = role[k] /\ Len(log'[k]) >= Len(log[k])
    BY <1>1, <1>3, LenProperties DEF BecomeFollower, TypeInv, TypeOK
  <2>. QED BY <1>2, <2>1, <2>2, <2>3, CallsKept DEF TypeInv
<1>4. CASE /\ role[n] = "candidate"
           /\ votes' = [votes EXCEPT ![n] = @ \cup {m.dst}]
           /\ BecomeLeader(n)
           /\ UNCHANGED <<currentTerm, votedFor>>
  <2>1. log' \in [Node -> Seq(Entry)] /\ Len(log'[n]) = Len(log[n]) + 1
    <3>1. [term |-> currentTerm[n], command |-> NoOp] \in Entry
      BY <1>1 DEF TypeInv, TypeOK, Entry
    <3>2. Append(log[n], [term |-> currentTerm[n], command |-> NoOp]) \in Seq(Entry)
      BY <1>1, <3>1, AppendProperties DEF TypeInv, TypeOK
    <3>3. Len(Append(log[n], [term |-> currentTerm[n], command |-> NoOp])) = Len(log[n]) + 1
      BY <1>1, <3>1, AppendProperties DEF TypeInv, TypeOK
    <3>. QED BY <1>1, <1>4, <3>2, <3>3 DEF BecomeLeader, TypeInv, TypeOK
  <2>2. nextIndex' \in [Node -> [Node -> Nat \ {0}]] /\ matchIndex' \in [Node -> [Node -> Nat]]
    <3>1. log[n] \in Seq(Entry)
      BY <1>1 DEF TypeInv, TypeOK
    <3>2. Len(log[n]) + 1 \in Nat \ {0}
      BY <3>1, LenProperties
    <3>. QED BY <1>4, <3>2 DEF BecomeLeader, TypeInv, TypeOK
  <2>3. votes' \in [Node -> SUBSET Node] /\ role' \in [Node -> Role]
        /\ leaderId' \in [Node -> Node \cup {Nil}]
    BY <1>1, <1>4 DEF TypeInv, TypeOK, Role, BecomeLeader
  <2>. TypeOK'
    BY <1>1, <1>4, <2>1, <2>2, <2>3 DEF TypeInv, TypeOK
  <2>4. NextIndexInLog'
    BY <1>1, <1>4, <2>1, LenProperties DEF TypeInv, TypeOK, BecomeLeader, NextIndexInLog
  <2>5. \A k \in Node :
          /\ currentTerm'[k] = currentTerm[k]
          /\ \/ role[k] = "candidate" /\ role'[k] = "leader"
             \/ role'[k] = role[k] /\ Len(log'[k]) >= Len(log[k])
    BY <1>1, <1>4, LenProperties, SMTT(60) DEF BecomeLeader, TypeInv, TypeOK
  <2>. QED BY <1>2, <2>4, <2>5, CallsKept DEF TypeInv
<1>5. CASE /\ votes' = [votes EXCEPT ![n] = @ \cup {m.dst}] \/ votes' = votes
           /\ UNCHANGED <<role, leaderId, leaderVars, log, currentTerm, votedFor>>
  <2>1. TypeOK'
    <3>1. votes[n] \cup {m.dst} \in SUBSET Node /\ votes \in [Node -> SUBSET Node]
      BY <1>1 DEF TypeInv, TypeOK
    <3>2. votes' \in [Node -> SUBSET Node]
      BY <1>1, <1>5, <3>1
    <3>. QED BY <1>1, <1>5, <3>2 DEF TypeInv, TypeOK, leaderVars
  <2>2. NextIndexInLog'
    BY <1>1, <1>5 DEF TypeInv, leaderVars, NextIndexInLog
  <2>3. \A k \in Node : currentTerm'[k] = currentTerm[k] /\ role'[k] = role[k]
                        /\ Len(log'[k]) >= Len(log[k])
    BY <1>5, LenProperties DEF TypeInv, TypeOK
  <2>. QED BY <1>2, <2>1, <2>2, <2>3, CallsKept DEF TypeInv
<1>. QED BY <1>3, <1>4, <1>5 DEF ReceiveVoteReply, electionVars

\* A request leaves a log of entries, whether it is refused, merged or empty,
\* and its reply acknowledges no more than it carried.
LEMMA TypeHandleAppendEntries ==
  ASSUME TypeInv, NEW m \in rpcs, HandleAppendEntries(m)
  PROVE  TypeInv'
<1>. DEFINE n == m.dst
            newTerm == Newer(m.term, n)
            stale == m.term < currentTerm[n]
            merged == Merge(log[n], m.prevLogIndex, m.entries)
            Reply(success) ==
              [type |-> "AppendReply", src |-> m.src, dst |-> n, call |-> m.call,
               term |-> m.term, sentUpTo |-> m.prevLogIndex + Len(m.entries),
               replyTerm |-> currentTerm'[n], success |-> success]
<1>1. /\ m.type = "AppendRequest" /\ m \in AppendRequest
      /\ n \in Node /\ m.src \in Node /\ m.term \in Nat
  BY RpcKinds DEF TypeInv, TypeOK, HandleAppendEntries
<1>2. /\ m.prevLogIndex \in Nat /\ m.entries \in Seq(Entry) /\ m.leaderCommit \in Nat
      /\ Len(m.entries) \in Nat
  BY <1>1, LenProperties DEF AppendRequest
<1>3. /\ currentTerm' = [currentTerm EXCEPT ![n] = IF newTerm THEN m.term ELSE @]
      /\ votedFor' = [votedFor EXCEPT ![n] = IF newTerm THEN Nil ELSE @]
      /\ role' = [role EXCEPT ![n] = IF stale THEN @ ELSE "follower"]
      /\ leaderId' = [leaderId EXCEPT ![n] = IF stale THEN @ ELSE m.src]
      /\ UNCHANGED <<up, votes, applied, leaderVars, crashes>>
  BY DEF HandleAppendEntries
<1>4. PICK success \in BOOLEAN : Answer(m, Reply(success))
  BY DEF HandleAppendEntries
<1>5. \/ log' = log /\ commitIndex' = commitIndex
      \/ /\ ~stale /\ HasPrevious(m, log[n])
         /\ log' = [log EXCEPT ![n] = merged]
         /\ commitIndex' = [commitIndex EXCEPT ![n] =
              IF m.leaderCommit > @ THEN Min({m.leaderCommit, Len(merged)}) ELSE @]
  BY DEF HandleAppendEntries
<1>6. log' \in [Node -> Seq(Entry)] /\ commitIndex' \in [Node -> Nat]
  <2>1. CASE log' = log /\ commitIndex' = commitIndex
    BY <2>1 DEF TypeInv, TypeOK
  <2>2. CASE /\ HasPrevious(m, log[n])
             /\ log' = [log EXCEPT ![n] = merged]
             /\ commitIndex' = [commitIndex EXCEPT ![n] =
                  IF m.leaderCommit > @ THEN Min({m.leaderCommit, Len(merged)}) ELSE @]
    <3>1. merged \in Seq(Entry)
      BY <1>1, <1>2, <2>2, MergeType DEF HasPrevious, TypeInv, TypeOK
    <3>2. Min({m.leaderCommit, Len(merged)}) \in Nat
      BY <1>2, <3>1, LenProperties, MinOfTwo
    <3>. HIDE DEF merged
    <3>. QED BY <1>1, <2>2, <3>1, <3>2 DEF TypeInv, TypeOK
  <2>. QED BY <1>5, <2>1, <2>2
<1>7. /\ currentTerm' \in [Node -> Nat] /\ votedFor' \in [Node -> Node \cup {Nil}]
      /\ role' \in [Node -> Role] /\ leaderId' \in [Node -> Node \cup {Nil}]
  BY <1>1, <1>3 DEF TypeInv, TypeOK, Role
<1>8. TypeOK'
  <2>1. Reply(success) \in AppendReply
    BY <1>1, <1>2, <1>7 DEF AppendReply, AppendRequest
  <2>2. rpcs' \in SUBSET Rpc
    BY <1>4, <2>1 DEF Answer, Rpc, TypeInv, TypeOK
  <2>. QED BY <1>3, <1>6, <1>7, <2>2 DEF TypeInv, TypeOK, leaderVars
<1>9. \A k \in Node :
        \/ currentTerm'[k] > currentTerm[k] /\ role'[k] = "follower"
        \/ currentTerm'[k] = currentTerm[k] /\ role'[k] = "follower"
        \/ currentTerm'[k] = currentTerm[k] /\ role'[k] = role[k] /\ log'[k] = log[k]
  <2>. TAKE k \in Node
  <2>1. currentTerm[k] \in Nat
    BY DEF TypeInv, TypeOK
  <2>2. CASE k = n
    <3>1. CASE stale
      <4>1. ~newTerm
        BY <1>1, <2>1, <2>2, <3>1 DEF Newer
      <4>. QED BY <1>3, <1>5, <2>2, <3>1, <4>1 DEF TypeInv, TypeOK
    <3>2. CASE ~stale
      <4>1. role'[k] = "follower"
        BY <1>1, <1>3, <2>2, <3>2 DEF TypeInv, TypeOK
      <4>2. currentTerm'[k] >= currentTerm[k]
        BY <1>1, <1>3, <2>1, <2>2, <3>2, SMTT(60) DEF Newer, TypeInv, TypeOK
      <4>3. currentTerm'[k] \in Nat
        BY <1>7
      <4>. QED BY <2>1, <4>1, <4>2, <4>3
    <3>. QED BY <3>1, <3>2
  <2>3. CASE k # n
    BY <1>1, <1>3, <1>5, <2>3 DEF TypeInv, TypeOK
  <2>. QED BY <2>2, <2>3
<1>10. NextIndexInLog'
  BY <1>3, <1>9 DEF TypeInv, NextIndexInLog, leaderVars
<1>11. AppendCallsInLog'
  <2>1. ASSUME NEW a \in rpcs', IsAppend(a)
        PROVE  \E b \in rpcs : /\ IsAppend(b) /\ b.src = a.src /\ b.term = a.term
                               /\ SentUpTo(b) = SentUpTo(a)
    <3>1. CASE a \in rpcs
      BY <2>1, <3>1
    <3>2. CASE a = Reply(success)
      BY <1>1, <3>2 DEF IsAppend, SentUpTo
    <3>. QED BY <1>4, <3>1, <3>2 DEF Answer
  <2>2. \A k \in Node :
          \/ currentTerm'[k] > currentTerm[k]
          \/ /\ currentTerm'[k] = currentTerm[k]
             /\ \/ role'[k] = "follower"
                \/ role'[k] = role[k] /\ Len(log'[k]) >= Len(log[k])
    BY <1>9, LenProperties DEF TypeInv, TypeOK
  <2>. QED BY <1>8, <2>1, <2>2, CallsKept DEF TypeInv
<1>. QED BY <1>8, <1>10, <1>11 DEF TypeInv

\* Setting one next index within the log keeps the others within it.
LEMMA OneNextIndexSet ==
  ASSUME TypeOK, NextIndexInLog, UNCHANGED <<role, log>>,
         NEW n \in Node, NEW p \in Node, NEW i \in Nat,
         role[n] = "leader" => i <= Len(log[n]) + 1,
         nextIndex' = [nextIndex EXCEPT ![n] = [@ EXCEPT ![p] = i]]
  PROVE  NextIndexInLog'
<1>. SUFFICES ASSUME NEW k \in Node, NEW q \in Node, role[k] = "leader"
              PROVE  nextIndex'[k][q] <= Len(log[k]) + 1
  BY DEF NextIndexInLog
<1>1. CASE k = n /\ q = p
  BY <1>1 DEF TypeOK
<1>2. CASE ~(k = n /\ q = p)
  <2>1. nextIndex'[k][q] = nextIndex[k][q]
    BY <1>2 DEF TypeOK
  <2>. QED BY <2>1 DEF NextIndexInLog
<1>. QED BY <1>1, <1>2

\* A reply sets next_index within the leader's log, or backs it up to 1 at least.
LEMMA TypeReceiveAppendReply ==
  ASSUME TypeInv, NEW m \in rpcs, ReceiveAppendReply(m)
  PROVE  TypeInv'
<1>. DEFINE n == m.src
            p == m.dst
<1>1. /\ m.type = "AppendReply" /\ m \in AppendReply /\ n \in Node /\ p \in Node
      /\ m.term \in Nat /\ m.replyTerm \in Nat /\ m.sentUpTo \in Nat /\ rpcs' \subseteq rpcs
      /\ UNCHANGED <<up, leaderId, votes, log, applied, crashes>>
  BY RpcKinds DEF TypeInv, TypeOK, ReceiveAppendReply, AppendReply
<1>2. rpcs' \in SUBSET Rpc /\ \A a \in rpcs' : IsAppend(a) => a \in rpcs
  BY <1>1 DEF TypeInv, TypeOK
<1>3. CASE /\ m.replyTerm > currentTerm[n] /\ BecomeFollower(n, m.replyTerm)
           /\ UNCHANGED <<leaderVars, commitIndex>>
  <2>1. TypeOK'
    BY <1>1, <1>2, <1>3 DEF TypeInv, TypeOK, Role, BecomeFollower, leaderVars
  <2>2. NextIndexInLog'
    BY <1>1, <1>3 DEF TypeInv, TypeOK, BecomeFollower, leaderVars, NextIndexInLog
  <2>3. \A k \in Node :
          \/ currentTerm'[k] > currentTerm[k]
          \/ currentTerm'[k] = currentTerm[k] /\ role'[k] = role[k] /\ Len(log'[k]) >= Len(log[k])
    BY <1>1, <1>3, LenProperties DEF BecomeFollower, TypeInv, TypeOK
  <2>. QED BY <1>2, <2>1, <2>2, <2>3, CallsKept DEF TypeInv
<1>4. CASE UNCHANGED <<currentTerm, votedFor, role>>
  <2>1. role[n] = "leader" /\ currentTerm[n] = m.term => m.sentUpTo <= Len(log[n])
    BY <1>1 DEF TypeInv, AppendCallsInLog, IsAppend, SentUpTo
  <2>2. /\ nextIndex' \in [Node -> [Node -> Nat \ {0}]]
        /\ matchIndex' \in [Node -> [Node -> Nat]]
        /\ commitIndex' \in [Node -> Nat]
        /\ NextIndexInLog'
    <3>1. CASE /\ role[n] = "leader" /\ currentTerm[n] = m.term
               /\ matchIndex' = [matchIndex EXCEPT ![n][p] = AckedUpTo(m)]
               /\ nextIndex' = [nextIndex EXCEPT ![n][p] = AckedUpTo(m) + 1]
               /\ AdvanceCommit(n, matchIndex'[n])
      <4>1. commitIndex' \in [Node -> Nat]
        <5>1. commitIndex[n] \in Nat /\ Len(log[n]) \in Nat
          BY <1>1, LenProperties DEF TypeInv, TypeOK
        <5>2. \A i \in Committable(n, matchIndex'[n]) : i \in Nat
          BY <5>1 DEF Committable
        <5>. QED BY <1>1, <3>1, <5>2 DEF AdvanceCommit, TypeInv, TypeOK
      <4>. DEFINE j == m.sentUpTo
                  i == m.sentUpTo + 1
      <4>2. /\ matchIndex' = [matchIndex EXCEPT ![n] = [@ EXCEPT ![p] = j]]
            /\ nextIndex' = [nextIndex EXCEPT ![n] = [@ EXCEPT ![p] = i]]
        BY <3>1 DEF AckedUpTo
      <4>5. j \in Nat /\ i \in Nat \ {0} /\ i <= Len(log[n]) + 1
        <5>1. Len(log[n]) \in Nat
          BY <1>1, LenProperties DEF TypeInv, TypeOK
        <5>. QED BY <1>1, <2>1, <3>1, <5>1
      <4>. HIDE DEF i, j
      <4>3. nextIndex' \in [Node -> [Node -> Nat \ {0}]] /\ matchIndex' \in [Node -> [Node -> Nat]]
        BY <1>1, <4>2, <4>5 DEF TypeInv, TypeOK
      <4>4. NextIndexInLog'
        BY <1>1, <1>4, <4>2, <4>5, OneNextIndexSet DEF TypeInv
      <4>. QED BY <4>1, <4>3, <4>4
    <3>2. CASE /\ nextIndex' = [nextIndex EXCEPT ![n][p] = BackedUp(@)]
               /\ UNCHANGED <<matchIndex, commitIndex>>
      <4>. DEFINE i == BackedUp(nextIndex[n][p])
      <4>1. nextIndex[n][p] \in Nat \ {0}
        BY <1>1, SMTT(60) DEF TypeInv, TypeOK
      <4>2. i \in Nat \ {0} /\ i <= nextIndex[n][p]
        BY <4>1 DEF BackedUp
      <4>3. nextIndex' = [nextIndex EXCEPT ![n] = [@ EXCEPT ![p] = i]]
        BY <3>2
      <4>. HIDE DEF i
      <4>4. nextIndex' \in [Node -> [Node -> Nat \ {0}]]
        BY <1>1, <4>2, <4>3 DEF TypeInv, TypeOK
      <4>5. role[n] = "leader" => i <= Len(log[n]) + 1
        <5>1. Len(log[n]) \in Nat /\ nextIndex[n][p] \in Nat
          BY <1>1, LenProperties DEF TypeInv, TypeOK
        <5>. QED BY <1>1, <4>2, <5>1 DEF TypeInv, NextIndexInLog
      <4>6. NextIndexInLog'
        BY <1>1, <1>4, <4>2, <4>3, <4>5, OneNextIndexSet DEF TypeInv
      <4>. QED BY <3>2, <4>4, <4>6 DEF TypeInv, TypeOK
    <3>3. CASE UNCHANGED <<leaderVars, commitIndex>>
      BY <1>1, <1>4, <3>3 DEF leaderVars, NextIndexInLog, TypeInv, TypeOK
    <3>. QED BY <1>4, <3>1, <3>2, <3>3 DEF ReceiveAppendReply, BecomeFollower
  <2>3. TypeOK'
    BY <1>1, <1>2, <1>4, <2>2 DEF TypeInv, TypeOK
  <2>4. \A k \in Node : currentTerm'[k] = currentTerm[k] /\ role'[k] = role[k]
                        /\ Len(log'[k]) >= Len(log[k])
    BY <1>1, <1>4, LenProperties DEF TypeInv, TypeOK
  <2>. QED BY <1>2, <2>2, <2>3, <2>4, CallsKept DEF TypeInv
<1>. QED BY <1>3, <1>4 DEF ReceiveAppendReply

\* A proposal makes the log longer and leaves the indexes within it.
LEMMA TypePropose ==
  ASSUME TypeInv, NEW n \in Node, NEW cmd \in Command, Propose(n, cmd)
  PROVE  TypeInv'
<1>. DEFINE e == [term |-> currentTerm[n], command |-> cmd]
<1>1. e \in Entry
  BY DEF Entry, TypeInv, TypeOK
<1>2. /\ log' = [log EXCEPT ![n] = Append(@, e)]
      /\ UNCHANGED <<up, electionVars, commitIndex, applied, leaderVars, rpcs, crashes>>
  BY DEF Propose
<1>3. Append(log[n], e) \in Seq(Entry) /\ Len(Append(log[n], e)) = Len(log[n]) + 1
  <2>. HIDE DEF e
  <2>. QED BY <1>1, AppendProperties DEF TypeInv, TypeOK
<1>4. TypeOK'
  BY <1>2, <1>3 DEF TypeInv, TypeOK, electionVars, leaderVars
<1>5. \A k \in Node : Len(log[k]) \in Nat /\ Len(log'[k]) \in Nat /\ Len(log'[k]) >= Len(log[k])
  BY <1>2, <1>3, <1>4, LenProperties DEF TypeInv, TypeOK
<1>6. NextIndexInLog'
  <2>. SUFFICES ASSUME NEW k \in Node, NEW q \in Node, role[k] = "leader"
                PROVE  nextIndex[k][q] <= Len(log'[k]) + 1
    BY <1>2 DEF NextIndexInLog, electionVars, leaderVars
  <2>1. nextIndex[k][q] \in Nat
    BY DEF TypeInv, TypeOK
  <2>2. nextIndex[k][q] <= Len(log[k]) + 1
    BY DEF TypeInv, NextIndexInLog
  <2>. QED BY <1>5, <2>1, <2>2
<1>7. AppendCallsInLog'
  BY <1>2, <1>4, <1>5, CallsKept DEF TypeInv, electionVars
<1>. QED BY <1>4, <1>6, <1>7 DEF TypeInv

\* The applier hands over entries of the log.
LEMMA TypeApplier ==
  ASSUME TypeInv, NEW n \in Node, Applier(n)
  PROVE  TypeInv'
<1>. DEFINE last == Min({commitIndex[n], Len(log[n])})
            new == SubSeq(log[n], Len(applied[n]) + 1, last)
<1>1. /\ applied' = [applied EXCEPT ![n] = @ \o new]
      /\ UNCHANGED <<up, electionVars, log, commitIndex, leaderVars, rpcs, crashes>>
  BY DEF Applier
<1>2. applied[n] \o new \in Seq(Entry)
  <2>1. log[n] \in Seq(Entry) /\ applied[n] \in Seq(Entry) /\ commitIndex[n] \in Nat
    BY DEF TypeInv, TypeOK
  <2>2. Len(log[n]) \in Nat /\ Len(applied[n]) + 1 \in Nat \ {0}
    BY <2>1, LenProperties
  <2>3. last \in Nat /\ last <= Len(log[n])
    BY <2>1, <2>2, MinOfTwo
  <2>. HIDE DEF last
  <2>4. new \in Seq(Entry)
    BY <2>1, <2>2, <2>3, SubSeqType
  <2>. QED BY <2>1, <2>4, ConcatProperties
<1>. HIDE DEF new
<1>3. TypeOK'
  BY <1>1, <1>2 DEF TypeInv, TypeOK, electionVars, leaderVars
<1>4. NextIndexInLog' /\ AppendCallsInLog'
  BY <1>1 DEF TypeInv, NextIndexInLog, AppendCallsInLog, electionVars, leaderVars
<1>. QED BY <1>3, <1>4 DEF TypeInv

\* Losing a call, a crash and a restart leave everything well typed.
LEMMA TypeFailures ==
  ASSUME TypeInv,
         \/ \E m \in rpcs : Lose(m)
         \/ \E n \in Node : Crash(n) \/ Restart(n)
  PROVE  TypeInv'
<1>1. /\ UNCHANGED <<currentTerm, votedFor, votes, logVars, leaderVars>>
      /\ rpcs' \subseteq rpcs
  BY DEF Lose, Crash, Restart, electionVars
<1>2. TypeOK'
  <2>1. rpcs' \in SUBSET Rpc
    BY <1>1 DEF TypeInv, TypeOK
  <2>2. ASSUME NEW m \in rpcs, Lose(m) PROVE TypeOK'
    BY <2>1, <2>2 DEF TypeInv, TypeOK, Lose, electionVars, logVars, leaderVars
  <2>3. ASSUME NEW n \in Node, Crash(n) PROVE TypeOK'
    BY <2>1, <2>3 DEF TypeInv, TypeOK, Crash, electionVars, logVars, leaderVars
  <2>4. ASSUME NEW n \in Node, Restart(n) PROVE TypeOK'
    BY <2>1, <2>4 DEF TypeInv, TypeOK, Restart, Role, logVars, leaderVars
  <2>. QED BY <2>2, <2>3, <2>4
<1>3. \A k \in Node : role'[k] = "follower" \/ role'[k] = role[k]
  BY DEF TypeInv, TypeOK, Lose, Crash, Restart, electionVars
<1>4. NextIndexInLog'
  BY <1>1, <1>3 DEF TypeInv, NextIndexInLog, logVars, leaderVars
<1>5. \A k \in Node : Len(log'[k]) >= Len(log[k])
  BY <1>1, LenProperties DEF TypeInv, TypeOK, logVars
<1>6. AppendCallsInLog'
  BY <1>1, <1>2, <1>3, <1>5, CallsKept DEF TypeInv
<1>. QED BY <1>2, <1>4, <1>6 DEF TypeInv

\* The inductive invariant behind TypeOK is kept by every step.
LEMMA TypeStep == TypeInv /\ [Next]_vars => TypeInv'
<1>. SUFFICES ASSUME TypeInv, [Next]_vars PROVE TypeInv'
  OBVIOUS
<1>1. CASE UNCHANGED vars
  BY <1>1 DEF vars, electionVars, logVars, leaderVars, TypeInv, TypeOK, NextIndexInLog, AppendCallsInLog
<1>2. ASSUME NEW n \in Node,
             \/ StartElection(n)
             \/ \E p \in Node : ReplicateTo(n, p)
             \/ \E cmd \in Command : Propose(n, cmd)
             \/ Applier(n)
      PROVE  TypeInv'
  BY <1>2, TypeStartElection, TypeReplicateTo, TypePropose, TypeApplier
<1>3. ASSUME NEW m \in rpcs,
             \/ HandleRequestVote(m) \/ ReceiveVoteReply(m)
             \/ HandleAppendEntries(m) \/ ReceiveAppendReply(m)
      PROVE  TypeInv'
  BY <1>3, TypeHandleRequestVote, TypeReceiveVoteReply, TypeHandleAppendEntries,
     TypeReceiveAppendReply
<1>. QED BY <1>1, <1>2, <1>3, TypeFailures DEF Next, GroupStep

\* Every state a group reaches is well typed; in particular next_index never
\* drops to 0, below the sentinel of the log (_replicate_to).
THEOREM TypeCorrect == Spec => []TypeOK
<1>1. TypeInv => TypeOK
  BY DEF TypeInv
<1>. QED BY <1>1, TypeInit, TypeStep, PTL DEF Spec

-----------------------------------------------------------------------------
(* Election safety.  A vote shows in three places: at the voter, in a reply   *)
(* under way, and among the votes the candidate counted.                      *)

\* Somewhere there is evidence that v voted for c in term t.
VotedFor(v, t, c) ==
    \/ currentTerm[v] = t /\ votedFor[v] = c
    \/ \E m \in rpcs : /\ m.type = "VoteReply" /\ m.granted
                       /\ m.src = c /\ m.dst = v /\ m.term = t
    \/ currentTerm[c] = t /\ role[c] # "follower" /\ v \in votes[c]

\* The evidence is never ahead of the voter and agrees with its vote.
EvidenceAgrees ==
    \A v, c \in Node, t \in Nat : VotedFor(v, t, c) =>
        /\ t <= currentTerm[v]
        /\ t = currentTerm[v] => votedFor[v] = c

\* There is no evidence of two votes of one member in one term.
EvidenceUnique ==
    \A v, c, d \in Node, t \in Nat : VotedFor(v, t, c) /\ VotedFor(v, t, d) => c = d

LeaderHasMajority ==
    \A n \in Node : role[n] = "leader" => Cardinality(votes[n]) >= Majority

ElectionInv == EvidenceAgrees /\ EvidenceUnique /\ LeaderHasMajority

-----------------------------------------------------------------------------
\* Terms only grow and votes stand, whatever a member does.
LEMMA VotesStandStep ==
  ASSUME TypeOK, [Next]_vars, NEW v \in Node
  PROVE  \/ currentTerm'[v] > currentTerm[v]
         \/ /\ currentTerm'[v] = currentTerm[v]
            /\ votedFor[v] # Nil => votedFor'[v] = votedFor[v]
<1>. USE DEF TypeOK
<1>1. CASE UNCHANGED <<currentTerm, votedFor>>
  BY <1>1
<1>2. ASSUME NEW n \in Node, StartElection(n)
      PROVE  \/ currentTerm'[v] > currentTerm[v]
             \/ currentTerm'[v] = currentTerm[v] /\ votedFor'[v] = votedFor[v]
  BY <1>2 DEF StartElection
<1>3. ASSUME NEW m \in rpcs, HandleRequestVote(m)
      PROVE  \/ currentTerm'[v] > currentTerm[v]
             \/ /\ currentTerm'[v] = currentTerm[v]
                /\ votedFor[v] # Nil => votedFor'[v] = votedFor[v]
  <2>1. m.dst \in Node /\ m.term \in Nat
    BY RpcKinds
  <2>2. CASE Newer(m.term, m.dst)
    BY <1>3, <2>1, <2>2 DEF HandleRequestVote, Newer
  <2>3. CASE ~Newer(m.term, m.dst)
    BY <1>3, <2>1, <2>3 DEF HandleRequestVote
  <2>. QED BY <2>2, <2>3
<1>4. ASSUME NEW m \in rpcs, HandleAppendEntries(m)
      PROVE  \/ currentTerm'[v] > currentTerm[v]
             \/ currentTerm'[v] = currentTerm[v] /\ votedFor'[v] = votedFor[v]
  <2>1. m.dst \in Node /\ m.term \in Nat
    BY RpcKinds
  <2>2. CASE Newer(m.term, m.dst)
    BY <1>4, <2>1, <2>2 DEF HandleAppendEntries, Newer
  <2>3. CASE ~Newer(m.term, m.dst)
    BY <1>4, <2>1, <2>3 DEF HandleAppendEntries
  <2>. QED BY <2>2, <2>3
<1>5. ASSUME NEW m \in rpcs, ReceiveVoteReply(m) \/ ReceiveAppendReply(m)
      PROVE  \/ currentTerm'[v] > currentTerm[v]
             \/ currentTerm'[v] = currentTerm[v] /\ votedFor'[v] = votedFor[v]
  <2>1. m.src \in Node
    BY RpcKinds
  <2>2. m \in VoteReply \/ m \in AppendReply
    BY <1>5, RpcKinds DEF ReceiveVoteReply, ReceiveAppendReply
  <2>3. m.replyTerm \in Nat
    BY <2>2 DEF VoteReply, AppendReply
  <2>4. \/ m.replyTerm > currentTerm[m.src] /\ BecomeFollower(m.src, m.replyTerm)
        \/ UNCHANGED <<currentTerm, votedFor>>
    BY <1>5 DEF ReceiveVoteReply, ReceiveAppendReply, electionVars
  <2>. QED BY <2>1, <2>3, <2>4, ZenonT(60) DEF BecomeFollower
<1>6. ASSUME \/ \E n \in Node : \/ \E p \in Node : ReplicateTo(n, p)
                                \/ \E cmd \in Command : Propose(n, cmd)
                                \/ Applier(n) \/ Crash(n) \/ Restart(n)
             \/ \E m \in rpcs : Lose(m)
             \/ UNCHANGED vars
      PROVE  UNCHANGED <<currentTerm, votedFor>>
  BY <1>6 DEF ReplicateTo, Propose, Applier, Crash, Restart, Lose, vars, electionVars
<1>. QED BY <1>1, <1>2, <1>3, <1>4, <1>5, <1>6 DEF Next, GroupStep

\* A vote once given in a term stays, across every handler, crash and restart.
THEOREM VotesAreKept == Spec => VotesStand
<1>1. TypeOK /\ [Next]_vars =>
        [\A n \in Node :
           \/ currentTerm'[n] > currentTerm[n]
           \/ /\ currentTerm'[n] = currentTerm[n]
              /\ votedFor[n] # Nil => votedFor'[n] = votedFor[n]]_vars
  BY VotesStandStep
<1>. QED BY <1>1, TypeCorrect, PTL DEF Spec, VotesStand

-----------------------------------------------------------------------------
\* A reply that grants a vote is older than the step, or the voter's own state
\* says the same after it.
LEMMA ReplyEvidence ==
  ASSUME TypeOK, [Next]_vars,
         NEW m \in rpcs', m.type = "VoteReply", m.granted
  PROVE  m \in rpcs \/ (currentTerm'[m.dst] = m.term /\ votedFor'[m.dst] = m.src)
<1>1. ASSUME NEW q \in rpcs, HandleRequestVote(q)
      PROVE  m \in rpcs \/ (currentTerm'[m.dst] = m.term /\ votedFor'[m.dst] = m.src)
  <2>. DEFINE n == q.dst
              newTerm == Newer(q.term, n)
              granted == /\ q.term >= currentTerm[n]
                         /\ newTerm \/ votedFor[n] \in {Nil, q.src}
                         /\ LogOk(q, log[n])
              reply == [type |-> "VoteReply", src |-> q.src, dst |-> n, term |-> q.term,
                        replyTerm |-> currentTerm'[n], granted |-> granted]
  <2>1. n \in Node /\ q.term \in Nat /\ currentTerm[n] \in Nat
    BY RpcKinds DEF TypeOK
  <2>2. /\ currentTerm' = [currentTerm EXCEPT ![n] = IF newTerm THEN q.term ELSE @]
        /\ votedFor' = [votedFor EXCEPT ![n] =
                          IF granted THEN q.src ELSE IF newTerm THEN Nil ELSE @]
        /\ Answer(q, reply)
    BY <1>1 DEF HandleRequestVote
  <2>3. CASE m \in rpcs
    BY <2>3
  <2>4. CASE m = reply
    <3>1. granted /\ m.dst = n /\ m.term = q.term /\ m.src = q.src
      BY <2>4
    <3>2. votedFor'[n] = q.src
      BY <2>1, <2>2, <3>1 DEF TypeOK
    <3>3. currentTerm'[n] = q.term
      BY <2>1, <2>2, <3>1 DEF Newer, TypeOK
    <3>. QED BY <3>1, <3>2, <3>3
  <2>. HIDE DEF reply
  <2>. QED BY <2>2, <2>3, <2>4 DEF Answer
<1>2. ASSUME \/ \E n \in Node : \/ StartElection(n)
                                \/ \E p \in Node : ReplicateTo(n, p)
                                \/ \E cmd \in Command : Propose(n, cmd)
                                \/ Applier(n) \/ Crash(n) \/ Restart(n)
             \/ \E q \in rpcs : \/ ReceiveVoteReply(q) \/ ReceiveAppendReply(q)
                                \/ Lose(q)
             \/ UNCHANGED vars
      PROVE  m \in rpcs
  <2>1. ASSUME NEW n \in Node, StartElection(n) PROVE m \in rpcs
    BY <2>1 DEF StartElection
  <2>2. ASSUME NEW n \in Node, NEW p \in Node, ReplicateTo(n, p) PROVE m \in rpcs
    BY <2>2 DEF ReplicateTo
  <2>3. ASSUME NEW n \in Node,
               (\E cmd \in Command : Propose(n, cmd)) \/ Applier(n) \/ Crash(n) \/ Restart(n)
        PROVE  m \in rpcs
    BY <2>3 DEF Propose, Applier, Crash, Restart
  <2>4. ASSUME NEW q \in rpcs, ReceiveVoteReply(q) \/ ReceiveAppendReply(q) \/ Lose(q)
        PROVE  m \in rpcs
    BY <2>4 DEF ReceiveVoteReply, ReceiveAppendReply, Lose
  <2>. QED BY <1>2, <2>1, <2>2, <2>3, <2>4 DEF vars
<1>3. ASSUME NEW q \in rpcs, HandleAppendEntries(q)
      PROVE  m \in rpcs
  BY <1>3 DEF HandleAppendEntries, Answer
<1>. QED BY <1>1, <1>2, <1>3 DEF Next, GroupStep

\* A vote a candidate or a leader counts was counted before, was granted by a
\* reply, or is its own, given in this step.
LEMMA CountEvidence ==
  ASSUME TypeOK, [Next]_vars, NEW c \in Node, NEW v \in Node,
         role'[c] # "follower", v \in votes'[c]
  PROVE  \/ currentTerm'[c] = currentTerm[c] /\ role[c] # "follower" /\ v \in votes[c]
         \/ \E m \in rpcs : /\ m.type = "VoteReply" /\ m.granted
                            /\ m.src = c /\ m.dst = v /\ m.term = currentTerm'[c]
         \/ v = c /\ votedFor'[c] = c
<1>. DEFINE Goal == \/ currentTerm'[c] = currentTerm[c] /\ role[c] # "follower" /\ v \in votes[c]
                    \/ \E m \in rpcs : /\ m.type = "VoteReply" /\ m.granted
                                       /\ m.src = c /\ m.dst = v /\ m.term = currentTerm'[c]
                    \/ v = c /\ votedFor'[c] = c
<1>1. ASSUME NEW n \in Node, StartElection(n) PROVE Goal
  BY <1>1 DEF StartElection, TypeOK
<1>2. ASSUME NEW q \in rpcs, HandleRequestVote(q) PROVE Goal
  BY <1>2, RpcKinds DEF HandleRequestVote, TypeOK
<1>3. ASSUME NEW q \in rpcs, ReceiveVoteReply(q) PROVE Goal
  <2>1. q.src \in Node /\ q.dst \in Node
    BY RpcKinds DEF TypeOK
  <2>2. CASE BecomeFollower(q.src, q.replyTerm) /\ votes' = votes
    BY <2>1, <2>2 DEF BecomeFollower, TypeOK
  <2>3. CASE /\ role[q.src] = "candidate" /\ currentTerm[q.src] = q.term /\ q.granted
             /\ votes' = [votes EXCEPT ![q.src] = @ \cup {q.dst}]
             /\ BecomeLeader(q.src) \/ role' = role
             /\ currentTerm' = currentTerm
    <3>1. q.type = "VoteReply"
      BY <1>3 DEF ReceiveVoteReply
    <3>2. CASE c = q.src
      BY <2>1, <2>3, <3>1, <3>2 DEF TypeOK
    <3>3. CASE c # q.src
      BY <2>1, <2>3, <3>3 DEF BecomeLeader, TypeOK
    <3>. QED BY <3>2, <3>3
  <2>4. CASE UNCHANGED <<role, votes, currentTerm>>
    BY <2>4
  <2>. QED BY <1>3, <2>2, <2>3, <2>4 DEF ReceiveVoteReply, electionVars
<1>4. ASSUME NEW q \in rpcs, HandleAppendEntries(q) PROVE Goal
  <2>1. q.dst \in Node /\ q.term \in Nat /\ currentTerm[q.dst] \in Nat
    BY RpcKinds DEF TypeOK
  <2>2. /\ votes' = votes
        /\ currentTerm' = [currentTerm EXCEPT ![q.dst] = IF Newer(q.term, q.dst) THEN q.term ELSE @]
        /\ role' = [role EXCEPT ![q.dst] = IF q.term < currentTerm[q.dst] THEN @ ELSE "follower"]
    BY <1>4 DEF HandleAppendEntries
  <2>3. role'[c] = role[c] /\ currentTerm'[c] = currentTerm[c]
    <3>1. CASE c = q.dst
      <4>1. q.term < currentTerm[q.dst]
        BY <2>2, <3>1 DEF TypeOK
      <4>2. ~Newer(q.term, q.dst)
        BY <2>1, <4>1 DEF Newer
      <4>. QED BY <2>2, <3>1, <4>1, <4>2 DEF TypeOK
    <3>2. CASE c # q.dst
      BY <2>2, <3>2 DEF TypeOK
    <3>. QED BY <3>1, <3>2
  <2>. QED BY <2>2, <2>3
<1>5. ASSUME NEW q \in rpcs, ReceiveAppendReply(q) PROVE Goal
  <2>1. q.src \in Node
    BY RpcKinds DEF TypeOK
  <2>. QED BY <1>5, <2>1 DEF ReceiveAppendReply, BecomeFollower, TypeOK
<1>6. ASSUME \/ \E n \in Node : \/ \E p \in Node : ReplicateTo(n, p)
                                \/ \E cmd \in Command : Propose(n, cmd)
                                \/ Applier(n) \/ Crash(n) \/ Restart(n)
             \/ \E m \in rpcs : Lose(m)
             \/ UNCHANGED vars
      PROVE  Goal
  <2>1. UNCHANGED <<currentTerm, votes>>
    BY <1>6 DEF ReplicateTo, Propose, Applier, Crash, Restart, Lose, vars, electionVars
  <2>2. role'[c] = role[c] \/ role'[c] = "follower"
    BY <1>6, ZenonT(60) DEF ReplicateTo, Propose, Applier, Crash, Restart, Lose, vars, electionVars, TypeOK
  <2>. QED BY <2>1, <2>2
<1>7. Goal
  <2>. HIDE DEF Goal
  <2>. QED BY <1>1, <1>2, <1>3, <1>4, <1>5, <1>6 DEF Next, GroupStep
<1>. QED BY <1>7

\* All the evidence of a vote after a step is older than the step, or the
\* voter's own state says the same after it.
LEMMA EvidenceStep ==
  ASSUME TypeOK, [Next]_vars, NEW v \in Node, NEW c \in Node, NEW t \in Nat,
         VotedFor(v, t, c)'
  PROVE  VotedFor(v, t, c) \/ (currentTerm'[v] = t /\ votedFor'[v] = c)
<1>1. CASE \E m \in rpcs' : /\ m.type = "VoteReply" /\ m.granted
                            /\ m.src = c /\ m.dst = v /\ m.term = t
  BY <1>1, ReplyEvidence DEF VotedFor
<1>2. CASE currentTerm'[c] = t /\ role'[c] # "follower" /\ v \in votes'[c]
  BY <1>2, CountEvidence DEF VotedFor
<1>. QED BY <1>1, <1>2 DEF VotedFor

\* At the start nobody has voted and nobody leads.
LEMMA ElectionInit == Init => ElectionInv
<1>. SUFFICES ASSUME Init PROVE ElectionInv
  OBVIOUS
<1>1. \A v, c \in Node, t \in Nat : ~VotedFor(v, t, c)
  BY NodeAssumption DEF Init, VotedFor
<1>. QED BY <1>1 DEF Init, ElectionInv, EvidenceAgrees, EvidenceUnique, LeaderHasMajority

\* A member that leads after a step has the votes of a majority.
LEMMA MajorityStep ==
  ASSUME TypeOK, [Next]_vars, LeaderHasMajority
  PROVE  LeaderHasMajority'
<1>. SUFFICES ASSUME NEW n \in Node, role'[n] = "leader"
              PROVE  Cardinality(votes'[n]) >= Majority
  BY DEF LeaderHasMajority, Majority
<1>. DEFINE Kept == role[n] = "leader" /\ votes'[n] = votes[n]
<1>1. ASSUME NEW k \in Node, StartElection(k) PROVE Kept
  BY <1>1 DEF StartElection, TypeOK
<1>2. ASSUME NEW q \in rpcs, HandleRequestVote(q) PROVE Kept
  BY <1>2, RpcKinds DEF HandleRequestVote, TypeOK
<1>3. ASSUME NEW q \in rpcs, ReceiveVoteReply(q)
      PROVE  Kept \/ Cardinality(votes'[n]) >= Majority
  <2>1. q.src \in Node
    BY RpcKinds DEF TypeOK
  <2>2. CASE BecomeFollower(q.src, q.replyTerm) /\ votes' = votes
    BY <2>1, <2>2 DEF BecomeFollower, TypeOK
  <2>3. CASE /\ role[q.src] = "candidate"
             /\ votes' = [votes EXCEPT ![q.src] = @ \cup {q.dst}]
             /\ \/ Cardinality(votes'[q.src]) >= Majority /\ BecomeLeader(q.src)
                \/ role' = role
    <3>1. CASE n = q.src
      BY <2>1, <2>3, <3>1
    <3>2. CASE n # q.src
      BY <2>1, <2>3, <3>2, ZenonT(60) DEF BecomeLeader, TypeOK
    <3>. QED BY <3>1, <3>2
  <2>4. CASE UNCHANGED <<role, votes>>
    BY <2>4
  <2>. QED BY <1>3, <2>2, <2>3, <2>4 DEF ReceiveVoteReply, electionVars
<1>4. ASSUME NEW q \in rpcs, HandleAppendEntries(q) PROVE Kept
  BY <1>4, RpcKinds DEF HandleAppendEntries, TypeOK
<1>5. ASSUME NEW q \in rpcs, ReceiveAppendReply(q) PROVE Kept
  BY <1>5, RpcKinds DEF ReceiveAppendReply, BecomeFollower, TypeOK
<1>6. ASSUME \/ \E k \in Node : \/ \E p \in Node : ReplicateTo(k, p)
                                \/ \E cmd \in Command : Propose(k, cmd)
                                \/ Applier(k) \/ Crash(k) \/ Restart(k)
             \/ \E m \in rpcs : Lose(m)
             \/ UNCHANGED vars
      PROVE  Kept
  BY <1>6, ZenonT(60) DEF ReplicateTo, Propose, Applier, Crash, Restart, Lose, vars, electionVars, TypeOK
<1>7. Kept \/ Cardinality(votes'[n]) >= Majority
  BY <1>1, <1>2, <1>3, <1>4, <1>5, <1>6 DEF Next, GroupStep
<1>. QED BY <1>7 DEF LeaderHasMajority

\* The inductive invariant behind ElectionSafety is kept by every step.
LEMMA ElectionStep == TypeInv /\ TypeOK' /\ ElectionInv /\ [Next]_vars => ElectionInv'
<1>. SUFFICES ASSUME TypeOK, TypeOK', ElectionInv, [Next]_vars PROVE ElectionInv'
  BY DEF TypeInv
<1>1. EvidenceAgrees'
  <2>. SUFFICES ASSUME NEW v \in Node, NEW c \in Node, NEW t \in Nat, VotedFor(v, t, c)'
                PROVE  t <= currentTerm'[v] /\ (t = currentTerm'[v] => votedFor'[v] = c)
    BY DEF EvidenceAgrees
  <2>1. CASE VotedFor(v, t, c)
    <3>1. t <= currentTerm[v] /\ (t = currentTerm[v] => votedFor[v] = c)
      BY <2>1 DEF ElectionInv, EvidenceAgrees
    <3>2. currentTerm[v] \in Nat /\ currentTerm'[v] \in Nat /\ c # Nil
      BY NodeAssumption DEF TypeOK
    <3>. QED BY <3>1, <3>2, VotesStandStep
  <2>2. CASE currentTerm'[v] = t /\ votedFor'[v] = c
    BY <2>2
  <2>. QED BY <2>1, <2>2, EvidenceStep
<1>2. EvidenceUnique'
  <2>. SUFFICES ASSUME NEW v \in Node, NEW c \in Node, NEW d \in Node, NEW t \in Nat,
                       VotedFor(v, t, c)', VotedFor(v, t, d)'
                PROVE  c = d
    BY DEF EvidenceUnique
  <2>1. CASE VotedFor(v, t, c) /\ VotedFor(v, t, d)
    BY <2>1 DEF ElectionInv, EvidenceUnique
  <2>2. CASE currentTerm'[v] = t
    BY <1>1, <2>2 DEF EvidenceAgrees
  <2>. QED BY <2>1, <2>2, EvidenceStep
<1>3. LeaderHasMajority'
  BY MajorityStep DEF ElectionInv
<1>. QED BY <1>1, <1>2, <1>3 DEF ElectionInv

\* Two majorities have a member in common.
LEMMA MajoritiesIntersect ==
  ASSUME NEW S \in SUBSET Node, NEW T \in SUBSET Node,
         Cardinality(S) >= Majority, Cardinality(T) >= Majority
  PROVE  S \cap T # {}
<1>1. Cardinality(Node) \in Nat /\ Cardinality(S) \in Nat /\ Cardinality(T) \in Nat
  BY NodeAssumption, FS_CardinalityType, FS_Subset
<1>2. 2 * Majority > Cardinality(Node)
  BY <1>1 DEF Majority
<1>3. Majority \in Nat
  BY <1>1 DEF Majority
<1>4. Cardinality(S) + Cardinality(T) > Cardinality(Node)
  BY <1>1, <1>2, <1>3
<1>. QED BY <1>4, NodeAssumption, FS_MajoritiesIntersect

\* Two leaders of one term would share a voter, which voted once.
LEMMA ElectionInvSafe == TypeOK /\ ElectionInv => ElectionSafety
<1>. SUFFICES ASSUME TypeOK, ElectionInv, NEW n \in Node, NEW m \in Node,
                     role[n] = "leader", role[m] = "leader",
                     currentTerm[n] = currentTerm[m]
              PROVE  n = m
  BY DEF ElectionSafety
<1>1. PICK v \in Node : v \in votes[n] /\ v \in votes[m]
  <2>1. votes[n] \in SUBSET Node /\ votes[m] \in SUBSET Node
    BY DEF TypeOK
  <2>2. Cardinality(votes[n]) >= Majority /\ Cardinality(votes[m]) >= Majority
    BY DEF ElectionInv, LeaderHasMajority
  <2>. QED BY <2>1, <2>2, MajoritiesIntersect
<1>2. VotedFor(v, currentTerm[n], n) /\ VotedFor(v, currentTerm[n], m)
  BY <1>1 DEF VotedFor
<1>. QED BY <1>2 DEF ElectionInv, EvidenceUnique, TypeOK

\* At most one member leads in a term, in groups of every size.
THEOREM OneLeaderPerTermHolds == Spec => []ElectionSafety
<1>1. TypeInv /\ ElectionInv => ElectionSafety
  BY ElectionInvSafe DEF TypeInv
<1>2. TypeInv' => TypeOK'
  BY DEF TypeInv
<1>. QED BY <1>1, <1>2, TypeInit, TypeStep, ElectionInit, ElectionStep, PTL DEF Spec

-----------------------------------------------------------------------------
(* A piece of log: a whole log, or what an append request carries.  Entries   *)
(* are named by their place in the log, from base + 1 to End.                 *)

Piece == [base : Nat, before : Nat, entries : Seq(Entry)]

End(x) == x.base + Len(x.entries)
At(x, i) == x.entries[i - x.base]

\* The term at i, from the base on.
TermIn(x, i) == IF i = x.base THEN x.before ELSE At(x, i).term

Both(x, y) == {i \in Nat : x.base < i /\ y.base < i /\ i <= End(x) /\ i <= End(y)}

\* Pieces that have the same term somewhere have the same entries up to there,
\* and the same term before these.
Compatible(x, y) ==
  \A i \in Both(x, y) : At(x, i).term = At(y, i).term =>
    /\ \A j \in Both(x, y) : j <= i => At(x, j) = At(y, j)
    /\ x.base <= y.base => TermIn(x, y.base) = y.before
    /\ y.base <= x.base => TermIn(y, x.base) = x.before

LEMMA PieceType ==
  ASSUME NEW x \in Piece
  PROVE  /\ x.base \in Nat /\ x.before \in Nat /\ x.entries \in Seq(Entry)
         /\ Len(x.entries) \in Nat /\ End(x) \in Nat /\ x.base <= End(x)
         /\ \A i \in Nat : x.base < i /\ i <= End(x) => At(x, i) \in Entry /\ TermIn(x, i) = At(x, i).term
<1>1. x.base \in Nat /\ x.before \in Nat /\ x.entries \in Seq(Entry)
  BY DEF Piece
<1>2. Len(x.entries) \in Nat
  BY <1>1, LenProperties
<1>3. End(x) \in Nat /\ x.base <= End(x)
  BY <1>1, <1>2 DEF End
<1>4. ASSUME NEW i \in Nat, x.base < i, i <= End(x)
      PROVE  At(x, i) \in Entry /\ TermIn(x, i) = At(x, i).term
  <2>1. i - x.base \in 1..Len(x.entries)
    BY <1>1, <1>2, <1>4 DEF End
  <2>2. x.entries[i - x.base] \in Entry
    BY <1>1, <2>1, ElementOfSeq
  <2>. QED BY <1>1, <1>4, <2>2 DEF At, TermIn
<1>. QED BY <1>1, <1>2, <1>3, <1>4

LEMMA CompatibleSymmetric ==
  ASSUME NEW x, NEW y, Compatible(x, y)
  PROVE  Compatible(y, x)
<1>1. Both(x, y) = Both(y, x)
  BY DEF Both
<1>. QED BY <1>1 DEF Compatible

LEMMA CompatibleReflexive ==
  ASSUME NEW x
  PROVE  Compatible(x, x)
  BY DEF Compatible, TermIn

\* The end of a piece is compatible with what the piece is compatible with.
LEMMA TailCompatible ==
  ASSUME NEW x \in Piece, NEW y \in Piece, NEW z \in Piece, Compatible(x, z),
         x.base <= y.base, y.base <= End(x), End(y) = End(x), y.before = TermIn(x, y.base),
         \A i \in Nat : y.base < i /\ i <= End(y) => At(y, i) = At(x, i)
  PROVE  Compatible(y, z)
<1>. SUFFICES ASSUME NEW i \in Both(y, z), At(y, i).term = At(z, i).term
              PROVE  /\ \A j \in Both(y, z) : j <= i => At(y, j) = At(z, j)
                     /\ y.base <= z.base => TermIn(y, z.base) = z.before
                     /\ z.base <= y.base => TermIn(z, y.base) = y.before
  BY DEF Compatible
<1>1. /\ x.base \in Nat /\ y.base \in Nat /\ z.base \in Nat
      /\ End(x) \in Nat /\ End(y) \in Nat /\ End(z) \in Nat
  BY PieceType
<1>2. Both(y, z) \subseteq Both(x, z)
  BY <1>1 DEF Both
<1>3. /\ i \in Both(x, z) /\ At(x, i).term = At(z, i).term
      /\ i \in Nat /\ y.base < i /\ z.base < i /\ i <= End(y) /\ i <= End(z)
  BY <1>2 DEF Both
<1>4. /\ \A j \in Both(x, z) : j <= i => At(x, j) = At(z, j)
      /\ x.base <= z.base => TermIn(x, z.base) = z.before
      /\ z.base <= x.base => TermIn(z, x.base) = x.before
  BY <1>3 DEF Compatible
<1>5. \A j \in Both(y, z) : j <= i => At(y, j) = At(z, j)
  BY <1>2, <1>4 DEF Both
<1>6. ASSUME y.base <= z.base PROVE TermIn(y, z.base) = z.before
  <2>1. TermIn(x, z.base) = z.before
    BY <1>1, <1>4, <1>6
  <2>2. CASE y.base = z.base
    BY <2>1, <2>2 DEF TermIn
  <2>3. CASE y.base # z.base
    BY <1>1, <1>3, <1>6, <2>1, <2>3 DEF TermIn
  <2>. QED BY <2>2, <2>3
<1>7. ASSUME z.base <= y.base PROVE TermIn(z, y.base) = y.before
  <2>1. CASE y.base = x.base
    BY <1>1, <1>4, <1>7, <2>1 DEF TermIn
  <2>2. CASE y.base # x.base /\ z.base = y.base
    BY <1>1, <1>4, <2>2 DEF TermIn
  <2>3. CASE y.base # x.base /\ z.base # y.base
    <3>1. y.base \in Both(x, z) /\ y.base <= i
      BY <1>1, <1>3, <1>7, <2>3 DEF Both
    <3>. QED BY <1>4, <2>3, <3>1 DEF TermIn
  <2>. QED BY <2>1, <2>2, <2>3
<1>. QED BY <1>5, <1>6, <1>7

\* One more entry, in a place where nobody else has one of its term.
LEMMA LongerCompatible ==
  ASSUME NEW x \in Piece, NEW y \in Piece, NEW z \in Piece, Compatible(x, z),
         y.base = x.base, y.before = x.before, End(y) = End(x) + 1,
         \A i \in Nat : x.base < i /\ i <= End(x) => At(y, i) = At(x, i),
         z.base <= End(x) /\ End(x) + 1 <= End(z) => At(z, End(y)).term # At(y, End(y)).term
  PROVE  Compatible(y, z)
<1>. SUFFICES ASSUME NEW i \in Both(y, z), At(y, i).term = At(z, i).term
              PROVE  /\ \A j \in Both(y, z) : j <= i => At(y, j) = At(z, j)
                     /\ y.base <= z.base => TermIn(y, z.base) = z.before
                     /\ z.base <= y.base => TermIn(z, y.base) = y.before
  BY DEF Compatible
<1>1. /\ x.base \in Nat /\ y.base \in Nat /\ z.base \in Nat
      /\ End(x) \in Nat /\ End(y) \in Nat /\ End(z) \in Nat
  BY PieceType
<1>2. /\ i \in Nat /\ y.base < i /\ z.base < i /\ i <= End(y) /\ i <= End(z)
  BY DEF Both
<1>3. i <= End(x)
  BY <1>1, <1>2
<1>4. i \in Both(x, z) /\ At(x, i).term = At(z, i).term
  BY <1>1, <1>2, <1>3 DEF Both
<1>5. /\ \A j \in Both(x, z) : j <= i => At(x, j) = At(z, j)
      /\ x.base <= z.base => TermIn(x, z.base) = z.before
      /\ z.base <= x.base => TermIn(z, x.base) = x.before
  BY <1>4 DEF Compatible
<1>6. ASSUME NEW j \in Both(y, z), j <= i PROVE At(y, j) = At(z, j)
  BY <1>1, <1>3, <1>5, <1>6 DEF Both
<1>7. y.base <= z.base => TermIn(y, z.base) = z.before
  BY <1>1, <1>2, <1>3, <1>5 DEF TermIn
<1>. QED BY <1>5, <1>6, <1>7

\* A log l that is cut and completed by a piece m whose base it reaches.
LEMMA MergedCompatible ==
  ASSUME NEW l \in Piece, NEW m \in Piece, NEW y \in Piece, NEW z \in Piece,
         l.base = 0, y.base = 0, l.before = y.before,
         m.base <= End(l), m.before = TermIn(l, m.base), End(y) = End(m),
         \A i \in Nat : 0 < i /\ i <= m.base => At(y, i) = At(l, i),
         \A i \in Nat : m.base < i /\ i <= End(m) => At(y, i) = At(m, i),
         Compatible(l, z), Compatible(m, z)
  PROVE  Compatible(y, z)
<1>. SUFFICES ASSUME NEW i \in Both(y, z), At(y, i).term = At(z, i).term
              PROVE  /\ \A j \in Both(y, z) : j <= i => At(y, j) = At(z, j)
                     /\ y.base <= z.base => TermIn(y, z.base) = z.before
                     /\ z.base <= y.base => TermIn(z, y.base) = y.before
  BY DEF Compatible
<1>1. /\ l.base \in Nat /\ m.base \in Nat /\ y.base \in Nat /\ z.base \in Nat
      /\ End(l) \in Nat /\ End(m) \in Nat /\ End(y) \in Nat /\ End(z) \in Nat
      /\ m.base <= End(m)
  BY PieceType
<1>2. i \in Nat /\ 0 < i /\ z.base < i /\ i <= End(m) /\ i <= End(z)
  BY <1>1 DEF Both
\* Up to a place p of the cut log, where both have the same term.
<1>3. ASSUME NEW p \in Nat, 0 < p, z.base < p, p <= m.base, p <= End(z), At(l, p).term = At(z, p).term
      PROVE  /\ \A j \in Both(y, z) : j <= p => At(y, j) = At(z, j)
             /\ TermIn(y, z.base) = z.before
             /\ z.base <= y.base => TermIn(z, y.base) = y.before
  <2>1. p \in Both(l, z)
    BY <1>1, <1>3 DEF Both
  <2>2. /\ \A j \in Both(l, z) : j <= p => At(l, j) = At(z, j)
        /\ TermIn(l, z.base) = z.before
        /\ z.base <= l.base => TermIn(z, l.base) = l.before
    BY <1>1, <1>3, <2>1 DEF Compatible
  <2>3. ASSUME NEW j \in Both(y, z), j <= p PROVE At(y, j) = At(z, j)
    <3>1. j \in Both(l, z) /\ 0 < j /\ j <= m.base
      BY <1>1, <1>3, <2>3 DEF Both
    <3>. QED BY <2>2, <2>3, <3>1 DEF Both
  <2>4. TermIn(y, z.base) = z.before
    BY <1>1, <1>3, <2>2 DEF TermIn
  <2>. QED BY <2>2, <2>3, <2>4
<1>4. CASE i <= m.base
  BY <1>1, <1>2, <1>3, <1>4
<1>5. CASE m.base < i
  <2>1. i \in Both(m, z) /\ At(m, i).term = At(z, i).term
    BY <1>1, <1>2, <1>5 DEF Both
  <2>2. /\ \A j \in Both(m, z) : j <= i => At(m, j) = At(z, j)
        /\ m.base <= z.base => TermIn(m, z.base) = z.before
        /\ z.base <= m.base => TermIn(z, m.base) = m.before
    BY <2>1 DEF Compatible
  <2>3. ASSUME NEW j \in Both(y, z), j <= i, m.base < j PROVE At(y, j) = At(z, j)
    <3>1. j \in Both(m, z)
      BY <1>1, <2>3 DEF Both
    <3>2. At(y, j) = At(m, j)
      BY <2>3, <3>1 DEF Both
    <3>. QED BY <2>2, <2>3, <3>1, <3>2
  <2>4. CASE m.base <= z.base
    <3>1. \A j \in Both(y, z) : m.base < j
      BY <1>1, <2>4 DEF Both
    <3>2. TermIn(m, z.base) = z.before
      BY <2>2, <2>4
    <3>3. TermIn(y, z.base) = z.before
      <4>1. CASE z.base = m.base /\ m.base = 0
        BY <3>2, <4>1 DEF TermIn
      <4>2. CASE z.base = m.base /\ m.base # 0
        BY <1>1, <3>2, <4>2 DEF TermIn
      <4>3. CASE z.base # m.base
        BY <1>1, <1>2, <2>4, <3>2, <4>3 DEF TermIn
      <4>. QED BY <4>1, <4>2, <4>3
    <3>4. z.base <= y.base => TermIn(z, y.base) = y.before
      <4>. SUFFICES ASSUME z.base <= y.base PROVE TermIn(z, y.base) = y.before
        OBVIOUS
      <4>1. z.base = 0 /\ m.base = 0
        BY <1>1, <2>4
      <4>. QED BY <3>3, <4>1 DEF TermIn
    <3>. QED BY <2>3, <3>1, <3>3, <3>4
  <2>5. CASE z.base < m.base
    <3>1. TermIn(z, m.base) = TermIn(l, m.base)
      BY <1>1, <2>2, <2>5
    <3>2. At(z, m.base).term = At(l, m.base).term /\ m.base <= End(z)
      BY <1>1, <1>2, <1>5, <2>5, <3>1 DEF TermIn
    <3>3. /\ \A j \in Both(y, z) : j <= m.base => At(y, j) = At(z, j)
          /\ TermIn(y, z.base) = z.before
          /\ z.base <= y.base => TermIn(z, y.base) = y.before
      BY <1>1, <1>3, <2>5, <3>2
    <3>4. \A j \in Both(y, z) : j \in Nat
      BY DEF Both
    <3>. QED BY <1>1, <2>3, <3>3, <3>4
  <2>. QED BY <1>1, <2>4, <2>5
<1>. QED BY <1>1, <1>2, <1>4, <1>5

-----------------------------------------------------------------------------
(* The pieces of a group, and what the operations on logs do to them. *)

LogPiece(lg) == [base |-> 0, before |-> 0, entries |-> lg]
SentPiece(m) == [base |-> m.prevLogIndex, before |-> m.prevLogTerm, entries |-> m.entries]
TailPiece(lg, b) ==
  [base |-> b, before |-> TermAt(lg, b), entries |-> SubSeq(lg, b + 1, Len(lg))]

AppendRequests == {m \in rpcs : m.type = "AppendRequest"}
Pieces == {LogPiece(log[n]) : n \in Node} \cup {SentPiece(m) : m \in AppendRequests}

LEMMA LogPieceIs ==
  ASSUME NEW lg \in Seq(Entry)
  PROVE  /\ LogPiece(lg) \in Piece /\ End(LogPiece(lg)) = Len(lg)
         /\ LogPiece(lg).base = 0 /\ LogPiece(lg).before = 0
         /\ \A i \in Nat : At(LogPiece(lg), i) = lg[i]
         /\ \A i \in Nat : TermIn(LogPiece(lg), i) = TermAt(lg, i)
<1>1. Len(lg) \in Nat
  BY LenProperties
<1>2. LogPiece(lg) \in Piece /\ End(LogPiece(lg)) = Len(lg)
  BY <1>1 DEF LogPiece, Piece, End
<1>3. ASSUME NEW i \in Nat PROVE At(LogPiece(lg), i) = lg[i] /\ TermIn(LogPiece(lg), i) = TermAt(lg, i)
  <2>1. i - 0 = i
    OBVIOUS
  <2>. QED BY <2>1 DEF At, TermIn, TermAt, LogPiece
<1>. QED BY <1>2, <1>3 DEF LogPiece

LEMMA TailPieceIs ==
  ASSUME NEW lg \in Seq(Entry), NEW b \in Nat, b <= Len(lg)
  PROVE  /\ TailPiece(lg, b) \in Piece /\ End(TailPiece(lg, b)) = Len(lg)
         /\ TailPiece(lg, b).base = b /\ TailPiece(lg, b).before = TermIn(LogPiece(lg), b)
         /\ \A i \in Nat : b < i /\ i <= Len(lg) => At(TailPiece(lg, b), i) = lg[i]
<1>. DEFINE es == SubSeq(lg, b + 1, Len(lg))
<1>1. Len(lg) \in Nat
  BY LenProperties
<1>2. \A i \in b + 1..Len(lg) : lg[i] \in Entry
  BY <1>1, ElementOfSeq
<1>3. /\ es \in Seq(Entry) /\ Len(es) = IF b + 1 <= Len(lg) THEN Len(lg) - (b + 1) + 1 ELSE 0
      /\ \A i \in 1..Len(lg) - (b + 1) + 1 : es[i] = lg[b + 1 + i - 1]
  BY <1>1, <1>2, SubSeqProperties
<1>4. TermAt(lg, b) \in Nat
  BY TermAtType
<1>. HIDE DEF es
<1>5. TailPiece(lg, b) = [base |-> b, before |-> TermAt(lg, b), entries |-> es]
  BY DEF TailPiece, es
<1>6. TailPiece(lg, b) \in Piece
  BY <1>3, <1>4, <1>5 DEF Piece
<1>7. End(TailPiece(lg, b)) = Len(lg)
  BY <1>1, <1>3, <1>5 DEF End
<1>8. ASSUME NEW i \in Nat, b < i, i <= Len(lg) PROVE At(TailPiece(lg, b), i) = lg[i]
  <2>1. i - b \in 1..Len(lg) - (b + 1) + 1 /\ b + 1 + (i - b) - 1 = i
    BY <1>1, <1>8
  <2>2. es[i - b] = lg[i]
    BY <1>3, <2>1
  <2>. QED BY <1>5, <2>2 DEF At
<1>. QED BY <1>5, <1>6, <1>7, <1>8, LogPieceIs

\* What a follower's log is after a request: what it was up to the previous entry,
\* then the new entries, then nothing, unless it had them all.
LEMMA MergeIs ==
  ASSUME NEW lg \in Seq(Entry), NEW es \in Seq(Entry), NEW prev \in Nat, prev <= Len(lg),
         \A i \in 1..Len(es) : prev + i <= Len(lg) /\ lg[prev + i].term = es[i].term
            => \A j \in 1..i : lg[prev + j] = es[j]
  PROVE  \/ Differing(lg, prev, es) = {} /\ Merge(lg, prev, es) = lg
         \/ /\ Merge(lg, prev, es) \in Seq(Entry)
            /\ Len(Merge(lg, prev, es)) = prev + Len(es)
            /\ \A i \in 1..prev : Merge(lg, prev, es)[i] = lg[i]
            /\ \A i \in 1..Len(es) : Merge(lg, prev, es)[prev + i] = es[i]
<1>. DEFINE D == Differing(lg, prev, es)
            d == Min(D)
            kept == SubSeq(lg, 1, prev + d - 1)
            added == SubSeq(es, d, Len(es))
<1>1. CASE D = {}
  BY <1>1 DEF Merge
<1>2. CASE D # {}
  <2>1. D \in SUBSET Nat
    BY DEF Differing
  <2>2. d \in D /\ \A j \in D : d <= j
    BY <1>2, <2>1, Minimum
  <2>3. d \in 1..Len(es) /\ Len(es) \in Nat /\ Len(lg) \in Nat
    BY <2>2, LenProperties DEF Differing
  <2>4. ASSUME NEW j \in 1..Len(es), j < d
        PROVE  prev + j <= Len(lg) /\ lg[prev + j] = es[j]
    <3>1. j \notin D
      BY <2>2, <2>3, <2>4
    <3>2. prev + j <= Len(lg) /\ lg[prev + j].term = es[j].term
      BY <2>3, <3>1, SMTT(30) DEF Differing
    <3>. QED BY <2>3, <3>2
  <2>5. prev + d - 1 <= Len(lg) /\ prev + d - 1 \in Nat
    <3>1. CASE d = 1
      BY <2>3, <3>1
    <3>2. CASE d # 1
      <4>1. d - 1 \in 1..Len(es) /\ d - 1 < d
        BY <2>3, <3>2
      <4>2. prev + (d - 1) <= Len(lg)
        BY <2>4, <4>1
      <4>. QED BY <2>3, <4>2
    <3>. QED BY <3>1, <3>2
  <2>. HIDE DEF d
  <2>6. /\ kept \in Seq(Entry) /\ Len(kept) = prev + d - 1
        /\ \A i \in 1..prev + d - 1 : kept[i] = lg[i]
    <3>1. \A i \in 1..prev + d - 1 : lg[i] \in Entry
      BY <2>3, <2>5, ElementOfSeq
    <3>2. /\ kept \in Seq(Entry)
          /\ Len(kept) = IF 1 <= prev + d - 1 THEN (prev + d - 1) - 1 + 1 ELSE 0
          /\ \A i \in 1..(prev + d - 1) - 1 + 1 : kept[i] = lg[1 + i - 1]
      <4>. HIDE DEF D
      <4>1. 1 \in Int /\ prev + d - 1 \in Int
        BY <2>5
      <4>. QED BY <3>1, <4>1, SubSeqProperties
    <3>. QED BY <2>3, <2>5, <3>2
  <2>7. /\ added \in Seq(Entry) /\ Len(added) = Len(es) - d + 1
        /\ \A i \in 1..Len(es) - d + 1 : added[i] = es[d + i - 1]
    <3>1. \A i \in d..Len(es) : es[i] \in Entry
      BY <2>3, ElementOfSeq
    <3>. QED BY <2>3, <3>1, SubSeqProperties
  <2>8. Merge(lg, prev, es) = kept \o added
    BY <1>2 DEF Merge, d
  <2>. HIDE DEF kept, added
  <2>9. /\ kept \o added \in Seq(Entry)
        /\ Len(kept \o added) = prev + Len(es)
        /\ \A i \in 1..prev + Len(es) : (kept \o added)[i] =
              IF i <= prev + d - 1 THEN lg[i] ELSE es[i - prev]
    <3>1. /\ kept \o added \in Seq(Entry)
          /\ Len(kept \o added) = Len(kept) + Len(added)
          /\ \A i \in 1..Len(kept) + Len(added) : (kept \o added)[i] =
                IF i <= Len(kept) THEN kept[i] ELSE added[i - Len(kept)]
      BY <2>6, <2>7, ConcatProperties
    <3>2. Len(kept) + Len(added) = prev + Len(es)
      BY <2>3, <2>6, <2>7
    <3>3. ASSUME NEW i \in 1..prev + Len(es)
          PROVE  (kept \o added)[i] = IF i <= prev + d - 1 THEN lg[i] ELSE es[i - prev]
      <4>1. CASE i <= prev + d - 1
        <5>1. (kept \o added)[i] = kept[i]
          BY <2>6, <3>1, <3>2, <4>1
        <5>. QED BY <2>3, <2>6, <4>1, <5>1
      <4>2. CASE ~(i <= prev + d - 1)
        <5>1. (kept \o added)[i] = added[i - (prev + d - 1)]
          BY <2>6, <3>1, <3>2, <4>2
        <5>2. i - (prev + d - 1) \in 1..Len(es) - d + 1 /\ d + (i - (prev + d - 1)) - 1 = i - prev
          BY <2>3, <4>2
        <5>3. added[i - (prev + d - 1)] = es[i - prev]
          BY <2>7, <5>2
        <5>. QED BY <4>2, <5>1, <5>3
      <4>. QED BY <4>1, <4>2
    <3>. QED BY <3>1, <3>2, <3>3
  <2>10. ASSUME NEW i \in 1..prev PROVE (kept \o added)[i] = lg[i]
    <3>1. i \in 1..prev + Len(es) /\ i <= prev + d - 1
      BY <2>3
    <3>. QED BY <2>9, <3>1
  <2>11. ASSUME NEW i \in 1..Len(es) PROVE (kept \o added)[prev + i] = es[i]
    <3>1. prev + i \in 1..prev + Len(es) /\ (prev + i) - prev = i
      BY <2>3
    <3>2. CASE i < d
      BY <2>3, <2>4, <2>9, <3>1, <3>2, SMTT(30)
    <3>3. CASE ~(i < d)
      BY <2>3, <2>9, <3>1, <3>3
    <3>. QED BY <3>2, <3>3
  <2>. QED BY <2>8, <2>9, <2>10, <2>11
<1>. QED BY <1>1, <1>2

\* So it is when the request is compatible with the log.
LEMMA MergedIs ==
  ASSUME NEW lg \in Seq(Entry), NEW m \in AppendRequest, HasPrevious(m, lg),
         Compatible(LogPiece(lg), SentPiece(m))
  PROVE  LET merged == Merge(lg, m.prevLogIndex, m.entries)
         IN  \/ Differing(lg, m.prevLogIndex, m.entries) = {} /\ merged = lg
             \/ /\ merged \in Seq(Entry)
                /\ Len(merged) = m.prevLogIndex + Len(m.entries)
                /\ \A i \in 1..m.prevLogIndex : merged[i] = lg[i]
                /\ \A i \in 1..Len(m.entries) : merged[m.prevLogIndex + i] = m.entries[i]
<1>. DEFINE prev == m.prevLogIndex
            es == m.entries
            l == LogPiece(lg)
            p == SentPiece(m)
<1>1. prev \in Nat /\ es \in Seq(Entry) /\ Len(es) \in Nat /\ Len(lg) \in Nat /\ prev <= Len(lg)
  BY LenProperties DEF AppendRequest, HasPrevious
<1>2. /\ p.base = prev /\ End(p) = prev + Len(es)
      /\ \A i \in Nat : prev < i /\ i <= prev + Len(es) => At(p, i) = es[i - prev]
  BY DEF SentPiece, End, At
<1>3. /\ End(l) = Len(lg) /\ l.base = 0
      /\ \A i \in Nat : At(l, i) = lg[i]
  BY LogPieceIs
<1>. HIDE DEF l, p, prev, es
<1>4. ASSUME NEW i \in 1..Len(es), prev + i <= Len(lg), lg[prev + i].term = es[i].term,
             NEW j \in 1..i
      PROVE  lg[prev + j] = es[j]
  <2>1. prev + i \in Both(l, p) /\ prev + j \in Both(l, p) /\ prev + j <= prev + i
    BY <1>1, <1>2, <1>3, <1>4, SMTT(30) DEF Both
  <2>2. /\ (prev + i) - prev = i /\ (prev + j) - prev = j
        /\ prev + i \in Nat /\ prev < prev + i /\ prev + i <= prev + Len(es)
        /\ prev + j \in Nat /\ prev < prev + j /\ prev + j <= prev + Len(es)
    BY <1>1
  <2>3. /\ At(p, prev + i) = es[i] /\ At(p, prev + j) = es[j]
        /\ At(l, prev + i) = lg[prev + i] /\ At(l, prev + j) = lg[prev + j]
    BY <1>1, <1>2, <1>3, <2>2
  <2>4. Compatible(l, p)
    BY DEF l, p
  <2>. QED BY <1>4, <2>1, <2>3, <2>4 DEF Compatible
<1>5. \/ Differing(lg, prev, es) = {} /\ Merge(lg, prev, es) = lg
      \/ /\ Merge(lg, prev, es) \in Seq(Entry)
         /\ Len(Merge(lg, prev, es)) = prev + Len(es)
         /\ \A i \in 1..prev : Merge(lg, prev, es)[i] = lg[i]
         /\ \A i \in 1..Len(es) : Merge(lg, prev, es)[prev + i] = es[i]
  BY <1>1, <1>4, MergeIs
<1>. QED BY <1>5 DEF prev, es

\* The merge of a log and a request is compatible with what both are compatible with.
LEMMA MergePiece ==
  ASSUME NEW lg \in Seq(Entry), NEW m \in AppendRequest, HasPrevious(m, lg), NEW z \in Piece,
         Compatible(LogPiece(lg), SentPiece(m)),
         Compatible(LogPiece(lg), z), Compatible(SentPiece(m), z)
  PROVE  Compatible(LogPiece(Merge(lg, m.prevLogIndex, m.entries)), z)
<1>. DEFINE prev == m.prevLogIndex
            es == m.entries
            l == LogPiece(lg)
            p == SentPiece(m)
            merged == Merge(lg, prev, es)
            y == LogPiece(merged)
<1>1. prev \in Nat /\ es \in Seq(Entry) /\ Len(es) \in Nat /\ Len(lg) \in Nat /\ prev <= Len(lg)
  BY LenProperties DEF AppendRequest, HasPrevious
<1>2. /\ p \in Piece /\ p.base = prev /\ p.before = TermAt(lg, prev) /\ End(p) = prev + Len(es)
      /\ \A i \in Nat : prev < i /\ i <= prev + Len(es) => At(p, i) = es[i - prev]
  BY <1>1 DEF AppendRequest, HasPrevious, SentPiece, Piece, End, At
<1>3. /\ l \in Piece /\ End(l) = Len(lg) /\ l.base = 0 /\ l.before = 0
      /\ \A i \in Nat : At(l, i) = lg[i]
      /\ TermIn(l, prev) = TermAt(lg, prev)
  BY <1>1, LogPieceIs
<1>. HIDE DEF l, p
<1>4. \/ merged = lg
      \/ /\ merged \in Seq(Entry) /\ Len(merged) = prev + Len(es)
         /\ \A i \in 1..prev : merged[i] = lg[i]
         /\ \A i \in 1..Len(es) : merged[prev + i] = es[i]
  BY MergedIs
<1>5. CASE merged = lg
  BY <1>5
<1>6. CASE /\ merged \in Seq(Entry) /\ Len(merged) = prev + Len(es)
           /\ \A i \in 1..prev : merged[i] = lg[i]
           /\ \A i \in 1..Len(es) : merged[prev + i] = es[i]
  <2>. HIDE DEF merged
  <2>1. /\ y \in Piece /\ End(y) = prev + Len(es) /\ y.base = 0 /\ y.before = 0
        /\ \A i \in Nat : At(y, i) = merged[i]
    BY <1>6, LogPieceIs
  <2>2. ASSUME NEW i \in Nat, 0 < i, i <= prev PROVE At(y, i) = At(l, i)
    BY <1>3, <1>6, <2>1, <2>2
  <2>3. ASSUME NEW i \in Nat, prev < i, i <= prev + Len(es) PROVE At(y, i) = At(p, i)
    <3>1. i - prev \in 1..Len(es) /\ prev + (i - prev) = i
      BY <1>1, <2>3
    <3>2. merged[i] = es[i - prev]
      BY <1>6, <3>1
    <3>. QED BY <1>2, <2>1, <2>3, <3>2
  <2>4. Compatible(l, z) /\ Compatible(p, z)
    BY DEF l, p
  <2>. HIDE DEF y, prev, es
  <2>5. Compatible(y, z)
    BY <1>1, <1>2, <1>3, <2>1, <2>2, <2>3, <2>4, MergedCompatible
  <2>. QED BY <2>5 DEF y, merged, prev, es
<1>. QED BY <1>4, <1>5, <1>6

-----------------------------------------------------------------------------
(* How a step changes the pieces and the roles. *)

LEMMA PiecesType ==
  ASSUME TypeOK
  PROVE  /\ Pieces \subseteq Piece
         /\ \A m \in AppendRequests : m \in AppendRequest /\ m.dst \in Node
<1>1. \A n \in Node : LogPiece(log[n]) \in Piece
  BY LogPieceIs DEF TypeOK
<1>2. \A m \in AppendRequests : m \in AppendRequest /\ m.dst \in Node
  BY RpcKinds DEF TypeOK, AppendRequests
<1>3. \A m \in AppendRequests : SentPiece(m) \in Piece
  BY <1>2 DEF SentPiece, Piece, AppendRequest
<1>. QED BY <1>1, <1>2, <1>3 DEF Pieces

\* No log changes, and what is sent is the end of a log.
Sends ==
  /\ log' = log
  /\ \A a \in AppendRequests' : \/ a \in AppendRequests
                                \/ \E n \in Node, b \in Nat :
                                     b <= Len(log[n]) /\ SentPiece(a) = TailPiece(log[n], b)

\* A leader, perhaps of this step, appends an entry of its term.
Extends(n, e) ==
  /\ role'[n] = "leader" /\ e.term = currentTerm'[n]
  /\ log' = [log EXCEPT ![n] = Append(@, e)]
  /\ AppendRequests' \subseteq AppendRequests

\* A follower merges what a request of its term, or of a later one, carries.
Merges(m) ==
  /\ role'[m.dst] = "follower" /\ currentTerm'[m.dst] = m.term /\ HasPrevious(m, log[m.dst])
  /\ log' = [log EXCEPT ![m.dst] = Merge(@, m.prevLogIndex, m.entries)]
  /\ AppendRequests' \subseteq AppendRequests

LEMMA LogSteps ==
  ASSUME TypeInv, [Next]_vars
  PROVE  \/ Sends
         \/ \E n \in Node, e \in Entry : Extends(n, e)
         \/ \E m \in AppendRequests : Merges(m)
<1>. DEFINE Goal == \/ Sends
                    \/ \E n \in Node, e \in Entry : Extends(n, e)
                    \/ \E m \in AppendRequests : Merges(m)
<1>1. ASSUME log' = log, AppendRequests' \subseteq AppendRequests PROVE Goal
  BY <1>1 DEF Sends
<1>2. ASSUME NEW n \in Node, StartElection(n) PROVE Goal
  BY <1>1, <1>2 DEF StartElection, logVars, AppendRequests
<1>3. ASSUME NEW n \in Node, NEW p \in Node, ReplicateTo(n, p) PROVE Goal
  <2>1. PICK c \in Call :
          rpcs' = rpcs \cup
              {[type |-> "AppendRequest", src |-> n, dst |-> p, call |-> c,
                term |-> currentTerm[n],
                prevLogIndex |-> nextIndex[n][p] - 1,
                prevLogTerm |-> TermAt(log[n], nextIndex[n][p] - 1),
                entries |-> SubSeq(log[n], nextIndex[n][p], Len(log[n])),
                leaderCommit |-> commitIndex[n]]}
    BY <1>3 DEF ReplicateTo
  <2>. DEFINE b == nextIndex[n][p] - 1
              req == [type |-> "AppendRequest", src |-> n, dst |-> p, call |-> c,
                      term |-> currentTerm[n], prevLogIndex |-> nextIndex[n][p] - 1,
                      prevLogTerm |-> TermAt(log[n], nextIndex[n][p] - 1),
                      entries |-> SubSeq(log[n], nextIndex[n][p], Len(log[n])),
                      leaderCommit |-> commitIndex[n]]
  <2>2. /\ role[n] = "leader" /\ nextIndex[n][p] \in Nat \ {0} /\ nextIndex[n][p] <= Len(log[n]) + 1
        /\ Len(log[n]) \in Nat
    BY <1>3, LenProperties DEF ReplicateTo, TypeInv, TypeOK, NextIndexInLog
  <2>3. b \in Nat /\ b <= Len(log[n]) /\ b + 1 = nextIndex[n][p]
    BY <2>2
  <2>4. SentPiece(req) = TailPiece(log[n], b)
    BY <2>3 DEF SentPiece, TailPiece
  <2>. HIDE DEF req, b
  <2>5. rpcs' = rpcs \cup {req} /\ log' = log
    BY <1>3, <2>1 DEF ReplicateTo, logVars, req
  <2>6. \A a \in AppendRequests' : a \in AppendRequests \/ a = req
    BY <2>5 DEF AppendRequests
  <2>. QED BY <2>3, <2>4, <2>5, <2>6 DEF Sends
<1>4. ASSUME NEW m \in rpcs, HandleRequestVote(m) PROVE Goal
  BY <1>1, <1>4 DEF HandleRequestVote, Answer, logVars, AppendRequests
<1>5. ASSUME NEW m \in rpcs, ReceiveVoteReply(m) PROVE Goal
  <2>. DEFINE n == m.src
              e == [term |-> currentTerm[n], command |-> NoOp]
  <2>1. AppendRequests' \subseteq AppendRequests
    BY <1>5 DEF ReceiveVoteReply, AppendRequests
  <2>2. CASE log' = log
    BY <1>1, <2>1, <2>2
  <2>3. CASE BecomeLeader(n) /\ UNCHANGED currentTerm
    <3>1. n \in Node
      BY RpcKinds DEF TypeInv, TypeOK
    <3>2. e \in Entry
      BY <3>1 DEF Entry, TypeInv, TypeOK
    <3>3. role'[n] = "leader" /\ e.term = currentTerm'[n] /\ log' = [log EXCEPT ![n] = Append(@, e)]
      BY <2>3, <3>1 DEF BecomeLeader, TypeInv, TypeOK
    <3>. HIDE DEF e
    <3>. QED BY <2>1, <3>1, <3>2, <3>3 DEF Extends
  <2>. QED BY <1>5, <2>2, <2>3 DEF ReceiveVoteReply
<1>6. ASSUME NEW m \in rpcs, HandleAppendEntries(m) PROVE Goal
  <2>1. m.type = "AppendRequest" /\ m \in AppendRequests /\ m.dst \in Node
    BY <1>6, RpcKinds DEF HandleAppendEntries, AppendRequests, TypeInv, TypeOK
  <2>2. AppendRequests' \subseteq AppendRequests
    BY <1>6 DEF HandleAppendEntries, Answer, AppendRequests
  <2>3. CASE log' = log
    BY <1>1, <2>2, <2>3
  <2>4. CASE /\ ~(m.term < currentTerm[m.dst]) /\ HasPrevious(m, log[m.dst])
             /\ log' = [log EXCEPT ![m.dst] = Merge(log[m.dst], m.prevLogIndex, m.entries)]
    <3>1. role'[m.dst] = "follower" /\ currentTerm'[m.dst] = m.term
      <4>1. m.term \in Nat /\ currentTerm[m.dst] \in Nat
        BY <2>1, RpcKinds DEF TypeInv, TypeOK
      <4>. QED BY <1>6, <2>1, <2>4, <4>1 DEF HandleAppendEntries, Newer, TypeInv, TypeOK
    <3>2. log' = [log EXCEPT ![m.dst] = Merge(@, m.prevLogIndex, m.entries)]
      BY <2>4
    <3>. QED BY <2>1, <2>2, <2>4, <3>1, <3>2 DEF Merges
  <2>. QED BY <1>6, <2>3, <2>4 DEF HandleAppendEntries
<1>7. ASSUME NEW m \in rpcs, ReceiveAppendReply(m) \/ Lose(m) PROVE Goal
  BY <1>1, <1>7 DEF ReceiveAppendReply, Lose, logVars, AppendRequests
<1>8. ASSUME NEW n \in Node, NEW cmd \in Command, Propose(n, cmd) PROVE Goal
  <2>. DEFINE e == [term |-> currentTerm[n], command |-> cmd]
  <2>1. e \in Entry
    BY DEF Entry, TypeInv, TypeOK
  <2>2. /\ role'[n] = "leader" /\ e.term = currentTerm'[n] /\ log' = [log EXCEPT ![n] = Append(@, e)]
        /\ AppendRequests' \subseteq AppendRequests
    BY <1>8 DEF Propose, electionVars, AppendRequests
  <2>. HIDE DEF e
  <2>. QED BY <2>1, <2>2 DEF Extends
<1>9. ASSUME NEW n \in Node, Applier(n) \/ Crash(n) \/ Restart(n) PROVE Goal
  BY <1>1, <1>9 DEF Applier, Crash, Restart, logVars, AppendRequests
<1>10. ASSUME UNCHANGED vars PROVE Goal
  BY <1>1, <1>10 DEF vars, logVars, AppendRequests
<1>11. Goal
  <2>. HIDE DEF Goal
  <2>1. CASE GroupStep
    BY <1>2, <1>3, <1>4, <1>5, <1>6, <1>7, <1>8, <1>9, <2>1 DEF GroupStep
  <2>2. CASE \E n \in Node : Crash(n) \/ Restart(n)
    BY <1>9, <2>2
  <2>. QED BY <1>10, <2>1, <2>2 DEF Next
<1>. QED BY <1>11

\* Who leads after a step led before it, or was a candidate of the same term; who is a
\* candidate was one, or is in a new term.
LEMMA RoleSteps ==
  ASSUME TypeOK, [Next]_vars, NEW k \in Node
  PROVE  /\ role'[k] = "leader" =>
              currentTerm'[k] = currentTerm[k] /\ role[k] \in {"leader", "candidate"}
         /\ role'[k] = "candidate" =>
              \/ currentTerm'[k] = currentTerm[k] /\ role[k] = "candidate"
              \/ currentTerm'[k] > currentTerm[k]
<1>. USE DEF TypeOK
<1>. DEFINE Goal ==
         /\ role'[k] = "leader" =>
              currentTerm'[k] = currentTerm[k] /\ role[k] \in {"leader", "candidate"}
         /\ role'[k] = "candidate" =>
              \/ currentTerm'[k] = currentTerm[k] /\ role[k] = "candidate"
              \/ currentTerm'[k] > currentTerm[k]
<1>0. role[k] \in {"follower", "candidate", "leader"} /\ currentTerm[k] \in Nat
  BY DEF Role
<1>1. ASSUME NEW n \in Node, StartElection(n) PROVE Goal
  BY <1>0, <1>1 DEF StartElection
<1>2. ASSUME NEW m \in rpcs, HandleRequestVote(m) PROVE Goal
  <2>1. m.dst \in Node /\ m.term \in Nat
    BY RpcKinds
  <2>2. CASE Newer(m.term, m.dst)
    BY <1>0, <1>2, <2>1, <2>2 DEF HandleRequestVote, Newer
  <2>3. CASE ~Newer(m.term, m.dst)
    BY <1>0, <1>2, <2>1, <2>3 DEF HandleRequestVote
  <2>. QED BY <2>2, <2>3
<1>3. ASSUME NEW m \in rpcs, ReceiveVoteReply(m) PROVE Goal
  <2>1. m.src \in Node
    BY RpcKinds
  <2>2. CASE BecomeFollower(m.src, m.replyTerm)
    BY <1>0, <2>1, <2>2 DEF BecomeFollower
  <2>3. CASE role[m.src] = "candidate" /\ BecomeLeader(m.src) /\ UNCHANGED currentTerm
    BY <1>0, <2>1, <2>3 DEF BecomeLeader
  <2>4. CASE UNCHANGED <<role, currentTerm>>
    BY <1>0, <2>4
  <2>. QED BY <1>3, <2>2, <2>3, <2>4 DEF ReceiveVoteReply, electionVars
<1>4. ASSUME NEW m \in rpcs, HandleAppendEntries(m) PROVE Goal
  <2>1. m.dst \in Node /\ m.term \in Nat
    BY RpcKinds
  <2>2. /\ currentTerm' = [currentTerm EXCEPT ![m.dst] = IF Newer(m.term, m.dst) THEN m.term ELSE @]
        /\ role' = [role EXCEPT ![m.dst] = IF m.term < currentTerm[m.dst] THEN @ ELSE "follower"]
    BY <1>4 DEF HandleAppendEntries
  <2>3. CASE m.term < currentTerm[m.dst]
    <3>1. currentTerm[m.dst] \in Nat
      BY <2>1
    <3>2. ~Newer(m.term, m.dst)
      <4>. HIDE DEF TypeOK, Goal
      <4>. QED BY <2>1, <2>3, <3>1 DEF Newer
    <3>. QED BY <1>0, <2>1, <2>2, <2>3, <3>2
  <2>4. CASE ~(m.term < currentTerm[m.dst])
    BY <1>0, <2>1, <2>2, <2>4
  <2>. QED BY <2>3, <2>4
<1>5. ASSUME NEW m \in rpcs, ReceiveAppendReply(m) PROVE Goal
  <2>1. m.src \in Node
    BY RpcKinds
  <2>2. CASE BecomeFollower(m.src, m.replyTerm)
    BY <1>0, <2>1, <2>2 DEF BecomeFollower
  <2>3. CASE UNCHANGED <<role, currentTerm>>
    BY <1>0, <2>3
  <2>. QED BY <1>5, <2>2, <2>3 DEF ReceiveAppendReply
<1>6. ASSUME \/ \E n \in Node : \/ \E p \in Node : ReplicateTo(n, p)
                                \/ \E cmd \in Command : Propose(n, cmd)
                                \/ Applier(n) \/ Crash(n) \/ Restart(n)
             \/ \E m \in rpcs : Lose(m)
             \/ UNCHANGED vars
      PROVE  Goal
  <2>1. UNCHANGED currentTerm
    BY <1>6 DEF ReplicateTo, Propose, Applier, Crash, Restart, Lose, vars, electionVars
  <2>2. role'[k] = role[k] \/ role'[k] = "follower"
    BY <1>6, ZenonT(60) DEF ReplicateTo, Propose, Applier, Crash, Restart, Lose, vars, electionVars
  <2>. QED BY <1>0, <2>1, <2>2
<1>7. Goal
  <2>. HIDE DEF Goal
  <2>. QED BY <1>1, <1>2, <1>3, <1>4, <1>5, <1>6 DEF Next, GroupStep
<1>. QED BY <1>7

-----------------------------------------------------------------------------
(* A term has one leader for good. *)

\* Term t is decided for q: a majority will never vote for anybody else in it, and
\* q is not a candidate in it any more.
Decided(t, q) ==
  /\ t <= currentTerm[q]
  /\ t = currentTerm[q] => role[q] # "candidate"
  /\ \E Q \in SUBSET Node :
       /\ Cardinality(Q) >= Majority
       /\ \A v \in Q : /\ t <= currentTerm[v]
                       /\ t = currentTerm[v] => votedFor[v] = q
                       /\ \A c \in Node : VotedFor(v, t, c) => c = q

\* Every entry, in a log or on its way, is of a term that is decided.
OwnedInv ==
  \A x \in Pieces : \A i \in Nat : x.base < i /\ i <= End(x) =>
     \E q \in Node : Decided(At(x, i).term, q)

\* While a leader leads, it holds every entry of its term.
HoldsInv ==
  \A k \in Node : role[k] = "leader" =>
    \A x \in Pieces : \A i \in Nat :
       x.base < i /\ i <= End(x) /\ At(x, i).term = currentTerm[k] =>
          i <= Len(log[k]) /\ log[k][i].term = currentTerm[k]

\* The pieces fit together.
MatchInv == \A x, y \in Pieces : Compatible(x, y)

LogInv == OwnedInv /\ HoldsInv /\ MatchInv

\* What is decided stays so.
LEMMA DecidedStays ==
  ASSUME TypeOK, TypeOK', [Next]_vars, NEW t \in Nat, NEW q \in Node, Decided(t, q)
  PROVE  Decided(t, q)'
<1>1. PICK Q \in SUBSET Node :
        /\ Cardinality(Q) >= Majority
        /\ \A v \in Q : /\ t <= currentTerm[v]
                        /\ t = currentTerm[v] => votedFor[v] = q
                        /\ \A c \in Node : VotedFor(v, t, c) => c = q
  BY DEF Decided
<1>2. \A v \in Node : currentTerm[v] \in Nat /\ currentTerm'[v] \in Nat
  BY DEF TypeOK
<1>3. t <= currentTerm'[q] /\ (t = currentTerm'[q] => role'[q] # "candidate")
  BY <1>2, RoleSteps, VotesStandStep DEF Decided
<1>4. ASSUME NEW v \in Q
      PROVE  /\ t <= currentTerm'[v]
             /\ t = currentTerm'[v] => votedFor'[v] = q
             /\ \A c \in Node : VotedFor(v, t, c)' => c = q
  <2>1. /\ t <= currentTerm[v] /\ (t = currentTerm[v] => votedFor[v] = q)
        /\ \A c \in Node : VotedFor(v, t, c) => c = q
    BY <1>1
  <2>2. \/ currentTerm'[v] > currentTerm[v]
        \/ /\ currentTerm'[v] = currentTerm[v]
           /\ votedFor[v] # Nil => votedFor'[v] = votedFor[v]
    BY VotesStandStep
  <2>3. t <= currentTerm'[v] /\ (t = currentTerm'[v] => votedFor'[v] = q)
    BY <1>2, <2>1, <2>2, NodeAssumption
  <2>4. ASSUME NEW c \in Node, VotedFor(v, t, c)' PROVE c = q
    BY <2>1, <2>3, <2>4, EvidenceStep
  <2>. QED BY <2>3, <2>4
<1>5. Majority' = Majority
  BY DEF Majority
<1>. QED BY <1>1, <1>3, <1>4, <1>5 DEF Decided

\* The term of a leader is decided for it.
LEMMA LeaderDecided ==
  ASSUME TypeOK, ElectionInv, NEW n \in Node, role[n] = "leader"
  PROVE  Decided(currentTerm[n], n)
<1>1. votes[n] \in SUBSET Node /\ Cardinality(votes[n]) >= Majority /\ currentTerm[n] \in Nat
  BY DEF TypeOK, ElectionInv, LeaderHasMajority
<1>2. \A v \in votes[n] : VotedFor(v, currentTerm[n], n)
  BY DEF VotedFor
<1>3. \A v \in votes[n] :
        /\ currentTerm[n] <= currentTerm[v]
        /\ currentTerm[n] = currentTerm[v] => votedFor[v] = n
        /\ \A c \in Node : VotedFor(v, currentTerm[n], c) => c = n
  BY <1>1, <1>2 DEF ElectionInv, EvidenceAgrees, EvidenceUnique
<1>. QED BY <1>1, <1>3 DEF Decided

\* Nobody is elected in a term that some entry has.
LEMMA ElectedAfresh ==
  ASSUME TypeOK, TypeOK', ElectionInv', OwnedInv, [Next]_vars,
         NEW k \in Node, role[k] # "leader", role'[k] = "leader",
         NEW x \in Pieces, NEW i \in Nat, x.base < i, i <= End(x)
  PROVE  At(x, i).term # currentTerm'[k]
<1>. SUFFICES ASSUME At(x, i).term = currentTerm'[k] PROVE FALSE
  OBVIOUS
<1>1. role[k] = "candidate" /\ currentTerm'[k] = currentTerm[k] /\ currentTerm[k] \in Nat
  BY RoleSteps DEF TypeOK
<1>2. PICK q \in Node : Decided(currentTerm[k], q)
  BY <1>1 DEF OwnedInv
<1>3. Decided(currentTerm[k], q)'
  BY <1>1, <1>2, DecidedStays
<1>4. votes'[k] \in SUBSET Node /\ Cardinality(votes'[k]) >= Majority
  BY DEF TypeOK, ElectionInv, LeaderHasMajority, Majority
<1>5. PICK Q \in SUBSET Node :
        /\ Cardinality(Q) >= Majority
        /\ \A v \in Q : \A c \in Node : VotedFor(v, currentTerm[k], c)' => c = q
  BY <1>3 DEF Decided, Majority
<1>6. PICK v \in Node : v \in votes'[k] /\ v \in Q
  BY <1>4, <1>5, MajoritiesIntersect
<1>7. VotedFor(v, currentTerm[k], k)'
  BY <1>1, <1>6 DEF VotedFor
<1>8. q = k
  BY <1>5, <1>6, <1>7
<1>. QED BY <1>1, <1>2, <1>8 DEF Decided

-----------------------------------------------------------------------------
(* Where the pieces after a step come from. *)

LEMMA PieceSources ==
  ASSUME TypeInv, [Next]_vars
  PROVE  \/ \A x \in Pieces' : \/ x \in Pieces
                               \/ \E n \in Node, b \in Nat : b <= Len(log[n]) /\ x = TailPiece(log[n], b)
         \/ \E n \in Node, e \in Entry :
              /\ Extends(n, e)
              /\ \A x \in Pieces' : x \in Pieces \/ x = LogPiece(Append(log[n], e))
         \/ \E m \in AppendRequests :
              /\ Merges(m)
              /\ \A x \in Pieces' : \/ x \in Pieces
                                  \/ x = LogPiece(Merge(log[m.dst], m.prevLogIndex, m.entries))
<1>1. \A x \in Pieces' : \/ \E n \in Node : x = LogPiece(log'[n])
                         \/ \E a \in AppendRequests' : x = SentPiece(a)
  BY DEF Pieces, LogPiece, SentPiece
<1>2. /\ \A n \in Node : LogPiece(log[n]) \in Pieces
      /\ \A a \in AppendRequests : SentPiece(a) \in Pieces
  BY DEF Pieces
<1>3. CASE Sends
  <2>1. ASSUME NEW x \in Pieces'
        PROVE  \/ x \in Pieces
               \/ \E n \in Node, b \in Nat : b <= Len(log[n]) /\ x = TailPiece(log[n], b)
    BY <1>1, <1>2, <1>3 DEF Sends
  <2>. QED BY <2>1
<1>4. ASSUME NEW n \in Node, NEW e \in Entry, Extends(n, e), NEW x \in Pieces'
      PROVE  x \in Pieces \/ x = LogPiece(Append(log[n], e))
  <2>1. \A k \in Node : log'[k] = IF k = n THEN Append(log[n], e) ELSE log[k]
    BY <1>4 DEF Extends, TypeInv, TypeOK
  <2>2. AppendRequests' \subseteq AppendRequests
    BY <1>4 DEF Extends
  <2>. QED BY <1>1, <1>2, <2>1, <2>2
<1>5. ASSUME NEW m \in AppendRequests, Merges(m), NEW x \in Pieces'
      PROVE  x \in Pieces \/ x = LogPiece(Merge(log[m.dst], m.prevLogIndex, m.entries))
  <2>1. \A k \in Node : log'[k] =
          IF k = m.dst THEN Merge(log[m.dst], m.prevLogIndex, m.entries) ELSE log[k]
    BY <1>5, PiecesType DEF Merges, TypeInv, TypeOK
  <2>2. AppendRequests' \subseteq AppendRequests
    BY <1>5 DEF Merges
  <2>. QED BY <1>1, <1>2, <2>1, <2>2
<1>. QED BY <1>3, <1>4, <1>5, LogSteps

\* The log of a leader only grows.
LEMMA LeaderLog ==
  ASSUME TypeInv, [Next]_vars, NEW k \in Node, role'[k] = "leader"
  PROVE  /\ Len(log[k]) <= Len(log'[k])
         /\ \A i \in 1..Len(log[k]) : log'[k][i] = log[k][i]
<1>0. log[k] \in Seq(Entry) /\ Len(log[k]) \in Nat
  BY LenProperties DEF TypeInv, TypeOK
<1>1. CASE log'[k] = log[k]
  BY <1>0, <1>1
<1>2. ASSUME NEW e \in Entry, log'[k] = Append(log[k], e)
      PROVE  /\ Len(log[k]) <= Len(log'[k])
             /\ \A i \in 1..Len(log[k]) : log'[k][i] = log[k][i]
  BY <1>0, <1>2, AppendProperties
<1>3. log'[k] = log[k] \/ \E e \in Entry : log'[k] = Append(log[k], e)
  <2>1. CASE Sends
    BY <2>1 DEF Sends
  <2>2. ASSUME NEW n \in Node, NEW e \in Entry, Extends(n, e)
        PROVE  log'[k] = log[k] \/ log'[k] = Append(log[k], e)
    BY <2>2 DEF Extends, TypeInv, TypeOK
  <2>3. ASSUME NEW m \in AppendRequests, Merges(m) PROVE log'[k] = log[k]
    BY <2>3, PiecesType DEF Merges, TypeInv, TypeOK
  <2>. QED BY <2>1, <2>2, <2>3, LogSteps
<1>. QED BY <1>1, <1>2, <1>3

\* The entries of a merged log are those of the log and of the request, in their places.
LEMMA MergeSources ==
  ASSUME NEW lg \in Seq(Entry), NEW m \in AppendRequest, HasPrevious(m, lg),
         Compatible(LogPiece(lg), SentPiece(m)),
         NEW i \in Nat, 0 < i, i <= Len(Merge(lg, m.prevLogIndex, m.entries))
  PROVE  \E y \in {LogPiece(lg), SentPiece(m)} :
            y.base < i /\ i <= End(y) /\ At(y, i) = Merge(lg, m.prevLogIndex, m.entries)[i]
<1>. DEFINE merged == Merge(lg, m.prevLogIndex, m.entries)
            l == LogPiece(lg)
            p == SentPiece(m)
<1>1. /\ m.prevLogIndex \in Nat /\ m.entries \in Seq(Entry) /\ m.prevLogIndex <= Len(lg)
      /\ Len(m.entries) \in Nat /\ Len(lg) \in Nat
  BY LenProperties DEF AppendRequest, HasPrevious
<1>2. /\ l.base = 0 /\ End(l) = Len(lg) /\ \A j \in Nat : At(l, j) = lg[j]
  BY LogPieceIs
<1>3. /\ p.base = m.prevLogIndex /\ End(p) = m.prevLogIndex + Len(m.entries)
      /\ \A j \in Nat : At(p, j) = m.entries[j - m.prevLogIndex]
  BY DEF SentPiece, End, At
<1>4. \/ merged = lg
      \/ /\ merged \in Seq(Entry)
         /\ Len(merged) = m.prevLogIndex + Len(m.entries)
         /\ \A j \in 1..m.prevLogIndex : merged[j] = lg[j]
         /\ \A j \in 1..Len(m.entries) : merged[m.prevLogIndex + j] = m.entries[j]
  BY <1>1, MergedIs
<1>. HIDE DEF l, p, merged
<1>5. CASE merged = lg
  BY <1>2, <1>5 DEF l, merged
<1>6. CASE /\ merged \in Seq(Entry)
           /\ Len(merged) = m.prevLogIndex + Len(m.entries)
           /\ \A j \in 1..m.prevLogIndex : merged[j] = lg[j]
           /\ \A j \in 1..Len(m.entries) : merged[m.prevLogIndex + j] = m.entries[j]
  <2>1. CASE i <= m.prevLogIndex
    <3>1. l.base < i /\ i <= End(l) /\ At(l, i) = merged[i]
      BY <1>1, <1>2, <1>6, <2>1
    <3>. QED BY <3>1 DEF l, merged
  <2>2. CASE m.prevLogIndex < i
    <3>1. i <= m.prevLogIndex + Len(m.entries)
      BY <1>6 DEF merged
    <3>2. i - m.prevLogIndex \in 1..Len(m.entries) /\ m.prevLogIndex + (i - m.prevLogIndex) = i
      BY <1>1, <2>2, <3>1
    <3>3. p.base < i /\ i <= End(p) /\ At(p, i) = merged[i]
      BY <1>3, <1>6, <2>2, <3>1, <3>2
    <3>. QED BY <3>3 DEF p, merged
  <2>. QED BY <1>1, <2>1, <2>2
<1>. QED BY <1>4, <1>5, <1>6

-----------------------------------------------------------------------------
(* The invariant and its parts, step by step. *)

\* What holds of leaders holds of them after a step.
LeadersDecide == \A n \in Node : role[n] = "leader" => Decided(currentTerm[n], n)

LEMMA LeadersNext == TypeOK' /\ ElectionInv' => LeadersDecide' /\ ElectionSafety'
<1>1. TypeOK /\ ElectionInv => LeadersDecide
  BY LeaderDecided DEF LeadersDecide
<1>. QED BY <1>1, ElectionInvSafe, PTL

\* An entry was in a piece before the step, or is the new one of a leader.
LEMMA EntrySources ==
  ASSUME TypeInv, MatchInv, [Next]_vars,
         NEW x \in Pieces', NEW i \in Nat, x.base < i, i <= End(x)
  PROVE  \/ \E y \in Pieces : y.base < i /\ i <= End(y) /\ At(y, i) = At(x, i)
         \/ \E n \in Node : /\ role'[n] = "leader" /\ At(x, i).term = currentTerm'[n]
                            /\ i <= Len(log'[n]) /\ log'[n][i] = At(x, i)
<1>. DEFINE Old == \E y \in Pieces : y.base < i /\ i <= End(y) /\ At(y, i) = At(x, i)
            New == \E n \in Node : /\ role'[n] = "leader" /\ At(x, i).term = currentTerm'[n]
                                   /\ i <= Len(log'[n]) /\ log'[n][i] = At(x, i)
<1>0. \A n \in Node : /\ log[n] \in Seq(Entry) /\ Len(log[n]) \in Nat
                      /\ LogPiece(log[n]) \in Pieces
  BY LenProperties DEF TypeInv, TypeOK, Pieces
<1>1. CASE x \in Pieces
  BY <1>1
<1>2. ASSUME NEW n \in Node, NEW b \in Nat, b <= Len(log[n]), x = TailPiece(log[n], b)
      PROVE  Old
  <2>1. /\ End(x) = Len(log[n]) /\ x.base = b
        /\ \A j \in Nat : b < j /\ j <= Len(log[n]) => At(x, j) = log[n][j]
    BY <1>0, <1>2, TailPieceIs
  <2>2. /\ End(LogPiece(log[n])) = Len(log[n]) /\ LogPiece(log[n]).base = 0
        /\ At(LogPiece(log[n]), i) = log[n][i]
    BY <1>0, LogPieceIs
  <2>. QED BY <1>0, <1>2, <2>1, <2>2
<1>3. ASSUME NEW n \in Node, NEW e \in Entry, Extends(n, e), x = LogPiece(Append(log[n], e))
      PROVE  Old \/ New
  <2>1. /\ Append(log[n], e) \in Seq(Entry) /\ Len(Append(log[n], e)) = Len(log[n]) + 1
        /\ \A j \in 1..Len(log[n]) : Append(log[n], e)[j] = log[n][j]
        /\ Append(log[n], e)[Len(log[n]) + 1] = e
    BY <1>0, AppendProperties
  <2>2. End(x) = Len(log[n]) + 1 /\ x.base = 0 /\ At(x, i) = Append(log[n], e)[i]
    BY <1>3, <2>1, LogPieceIs
  <2>3. CASE i <= Len(log[n])
    <3>1. /\ End(LogPiece(log[n])) = Len(log[n]) /\ LogPiece(log[n]).base = 0
          /\ At(LogPiece(log[n]), i) = log[n][i]
      BY <1>0, LogPieceIs
    <3>2. Append(log[n], e)[i] = log[n][i]
      BY <1>0, <2>1, <2>2, <2>3
    <3>. QED BY <1>0, <2>2, <2>3, <3>1, <3>2
  <2>4. CASE ~(i <= Len(log[n]))
    <3>1. i = Len(log[n]) + 1
      BY <1>0, <2>2, <2>4
    <3>2. log'[n] = Append(log[n], e)
      BY <1>3 DEF Extends, TypeInv, TypeOK
    <3>. QED BY <1>3, <2>1, <2>2, <3>1, <3>2 DEF Extends
  <2>. QED BY <2>3, <2>4
<1>4. ASSUME NEW m \in AppendRequests, Merges(m),
             x = LogPiece(Merge(log[m.dst], m.prevLogIndex, m.entries))
      PROVE  Old
  <2>1. /\ m \in AppendRequest /\ m.dst \in Node /\ HasPrevious(m, log[m.dst])
        /\ SentPiece(m) \in Pieces
    BY <1>4, PiecesType DEF Merges, TypeInv, Pieces
  <2>2. Compatible(LogPiece(log[m.dst]), SentPiece(m))
    BY <1>0, <2>1 DEF MatchInv
  <2>3. Merge(log[m.dst], m.prevLogIndex, m.entries) \in Seq(Entry)
    BY <1>0, <2>1, MergeType DEF HasPrevious, AppendRequest
  <2>4. /\ End(x) = Len(Merge(log[m.dst], m.prevLogIndex, m.entries)) /\ x.base = 0
        /\ At(x, i) = Merge(log[m.dst], m.prevLogIndex, m.entries)[i]
    BY <1>4, <2>3, LogPieceIs
  <2>5. \E y \in {LogPiece(log[m.dst]), SentPiece(m)} :
           y.base < i /\ i <= End(y) /\ At(y, i) = Merge(log[m.dst], m.prevLogIndex, m.entries)[i]
    BY <1>0, <2>1, <2>2, <2>4, MergeSources
  <2>. QED BY <1>0, <2>1, <2>4, <2>5
<1>. HIDE DEF Old, New
<1>5. Old \/ New
  BY <1>1, <1>2, <1>3, <1>4, PieceSources DEF Old
<1>. QED BY <1>5 DEF Old, New

\* Whoever leads after a step held every entry of its term before it.
LEMMA LeaderHeld ==
  ASSUME TypeOK, TypeOK', ElectionInv', OwnedInv, HoldsInv, [Next]_vars,
         NEW k \in Node, role'[k] = "leader",
         NEW x \in Pieces, NEW i \in Nat, x.base < i, i <= End(x), At(x, i).term = currentTerm'[k]
  PROVE  i <= Len(log[k]) /\ log[k][i].term = currentTerm'[k]
<1>1. currentTerm'[k] = currentTerm[k]
  BY RoleSteps
<1>2. role[k] = "leader"
  BY ElectedAfresh
<1>. QED BY <1>1, <1>2 DEF HoldsInv

LEMMA OwnedStep ==
  ASSUME TypeInv, TypeOK', ElectionInv', LogInv, [Next]_vars
  PROVE  OwnedInv'
<1>1. TypeOK /\ OwnedInv /\ MatchInv
  BY DEF TypeInv, LogInv
<1>2. ASSUME NEW x \in Pieces', NEW i \in Nat, x.base < i, i <= End(x)
      PROVE  \E q \in Node : Decided(At(x, i).term, q)'
  <2>1. ASSUME NEW y \in Pieces, y.base < i, i <= End(y), At(y, i) = At(x, i)
        PROVE  \E q \in Node : Decided(At(x, i).term, q)'
    <3>1. PICK q \in Node : Decided(At(y, i).term, q)
      BY <1>1, <2>1 DEF OwnedInv
    <3>2. At(y, i).term \in Nat
      BY <1>1, <2>1, PiecesType, PieceType DEF Entry
    <3>. QED BY <1>1, <2>1, <3>1, <3>2, DecidedStays
  <2>2. ASSUME NEW n \in Node, role'[n] = "leader", At(x, i).term = currentTerm'[n]
        PROVE  \E q \in Node : Decided(At(x, i).term, q)'
    <3>1. Decided(currentTerm[n], n)'
      BY <2>2, LeadersNext DEF LeadersDecide
    <3>. QED BY <2>2, <3>1
  <2>. QED BY <1>1, <1>2, <2>1, <2>2, EntrySources
<1>. QED BY <1>2 DEF OwnedInv

LEMMA HoldsStep ==
  ASSUME TypeInv, TypeOK', ElectionInv', LogInv, [Next]_vars
  PROVE  HoldsInv'
<1>1. TypeOK /\ OwnedInv /\ HoldsInv /\ MatchInv
  BY DEF TypeInv, LogInv
<1>2. ASSUME NEW k \in Node, role'[k] = "leader", NEW x \in Pieces', NEW i \in Nat,
             x.base < i, i <= End(x), At(x, i).term = currentTerm'[k]
      PROVE  i <= Len(log'[k]) /\ log'[k][i].term = currentTerm'[k]
  <2>1. ASSUME NEW y \in Pieces, y.base < i, i <= End(y), At(y, i) = At(x, i)
        PROVE  i <= Len(log'[k]) /\ log'[k][i].term = currentTerm'[k]
    <3>1. i <= Len(log[k]) /\ log[k][i].term = currentTerm'[k]
      BY <1>1, <1>2, <2>1, LeaderHeld
    <3>2. /\ Len(log[k]) <= Len(log'[k])
          /\ \A j \in 1..Len(log[k]) : log'[k][j] = log[k][j]
      BY <1>2, LeaderLog
    <3>3. Len(log[k]) \in Nat /\ Len(log'[k]) \in Nat
      BY LenProperties DEF TypeInv, TypeOK
    <3>4. y.base \in Nat
      BY <1>1, PiecesType, PieceType
    <3>5. i \in 1..Len(log[k])
      BY <2>1, <3>1, <3>3, <3>4
    <3>. QED BY <3>1, <3>2, <3>3, <3>5
  <2>2. ASSUME NEW n \in Node, role'[n] = "leader", At(x, i).term = currentTerm'[n],
               i <= Len(log'[n]), log'[n][i] = At(x, i)
        PROVE  i <= Len(log'[k]) /\ log'[k][i].term = currentTerm'[k]
    <3>1. n = k
      BY <1>2, <2>2, LeadersNext DEF ElectionSafety
    <3>. QED BY <1>2, <2>2, <3>1
  <2>. QED BY <1>1, <1>2, <2>1, <2>2, EntrySources
<1>. QED BY <1>2 DEF HoldsInv

PiecesOK == Pieces \subseteq Piece

LEMMA PiecesNext == TypeOK' => PiecesOK'
<1>1. TypeOK => PiecesOK
  BY PiecesType DEF PiecesOK
<1>. QED BY <1>1, PTL

LEMMA MatchStep ==
  ASSUME TypeInv, TypeOK', ElectionInv', LogInv, [Next]_vars
  PROVE  MatchInv'
<1>1. /\ TypeOK /\ OwnedInv /\ HoldsInv /\ MatchInv
      /\ Pieces \subseteq Piece /\ Pieces' \subseteq Piece
  BY PiecesType, PiecesNext DEF TypeInv, LogInv, PiecesOK
<1>2. \A n \in Node : log[n] \in Seq(Entry) /\ Len(log[n]) \in Nat /\ LogPiece(log[n]) \in Pieces
  BY <1>1, LenProperties DEF TypeOK, Pieces
\* When a new piece fits whatever the old ones fit, then also another new one.
<1>3. ASSUME \A x \in Pieces' : \A z \in Piece :
                (\A w \in Pieces : Compatible(w, z)) => Compatible(x, z)
      PROVE  MatchInv'
  <2>1. \A x \in Pieces', z \in Pieces : Compatible(x, z)
    BY <1>1, <1>3 DEF MatchInv
  <2>2. \A x \in Pieces', z \in Pieces : Compatible(z, x)
    BY <2>1, CompatibleSymmetric
  <2>3. \A x, y \in Pieces' : Compatible(x, y)
    BY <1>1, <1>3, <2>2
  <2>. QED BY <2>3 DEF MatchInv
<1>4. ASSUME \A x \in Pieces' :
                \/ x \in Pieces
                \/ \E n \in Node, b \in Nat : b <= Len(log[n]) /\ x = TailPiece(log[n], b)
      PROVE  MatchInv'
  <2>1. ASSUME NEW n \in Node, NEW b \in Nat, b <= Len(log[n]), NEW z \in Piece,
               \A w \in Pieces : Compatible(w, z)
        PROVE  Compatible(TailPiece(log[n], b), z)
    <3>. DEFINE l == LogPiece(log[n])
                y == TailPiece(log[n], b)
    <3>1. /\ l \in Piece /\ End(l) = Len(log[n]) /\ l.base = 0
          /\ \A i \in Nat : At(l, i) = log[n][i]
      BY <1>2, LogPieceIs
    <3>2. /\ y \in Piece /\ End(y) = Len(log[n]) /\ y.base = b /\ y.before = TermIn(l, b)
          /\ \A i \in Nat : b < i /\ i <= Len(log[n]) => At(y, i) = log[n][i]
      BY <1>2, <2>1, TailPieceIs
    <3>3. Compatible(l, z)
      BY <1>2, <2>1
    <3>. HIDE DEF l, y
    <3>4. Compatible(y, z)
      BY <2>1, <3>1, <3>2, <3>3, TailCompatible
    <3>. QED BY <3>4 DEF y
  <2>. QED BY <1>3, <1>4, <2>1
<1>5. ASSUME NEW m \in AppendRequests, Merges(m),
             \A x \in Pieces' : \/ x \in Pieces
                                \/ x = LogPiece(Merge(log[m.dst], m.prevLogIndex, m.entries))
      PROVE  MatchInv'
  <2>1. /\ m \in AppendRequest /\ m.dst \in Node /\ HasPrevious(m, log[m.dst])
        /\ SentPiece(m) \in Pieces
    BY <1>1, <1>5, PiecesType DEF Merges, Pieces
  <2>2. Compatible(LogPiece(log[m.dst]), SentPiece(m))
    BY <1>1, <1>2, <2>1 DEF MatchInv
  <2>3. ASSUME NEW z \in Piece, \A w \in Pieces : Compatible(w, z)
        PROVE  Compatible(LogPiece(Merge(log[m.dst], m.prevLogIndex, m.entries)), z)
    BY <1>2, <2>1, <2>2, <2>3, MergePiece
  <2>. QED BY <1>3, <1>5, <2>3
<1>6. ASSUME NEW n \in Node, NEW e \in Entry, Extends(n, e),
             \A x \in Pieces' : x \in Pieces \/ x = LogPiece(Append(log[n], e))
      PROVE  MatchInv'
  <2>. DEFINE l == LogPiece(log[n])
              y == LogPiece(Append(log[n], e))
  <2>1. /\ Append(log[n], e) \in Seq(Entry) /\ Len(Append(log[n], e)) = Len(log[n]) + 1
        /\ \A i \in 1..Len(log[n]) : Append(log[n], e)[i] = log[n][i]
        /\ Append(log[n], e)[Len(log[n]) + 1] = e
    BY <1>2, AppendProperties
  <2>2. /\ l \in Piece /\ End(l) = Len(log[n]) /\ l.base = 0 /\ l.before = 0
        /\ \A i \in Nat : At(l, i) = log[n][i]
    BY <1>2, LogPieceIs
  <2>3. /\ y \in Piece /\ End(y) = Len(log[n]) + 1 /\ y.base = 0 /\ y.before = 0
        /\ \A i \in Nat : At(y, i) = Append(log[n], e)[i]
    BY <2>1, LogPieceIs
  <2>4. ASSUME NEW i \in Nat, 0 < i, i <= Len(log[n]) PROVE At(y, i) = At(l, i)
    BY <1>2, <2>1, <2>2, <2>3, <2>4
  <2>5. At(y, Len(log[n]) + 1) = e
    BY <1>2, <2>1, <2>3
  <2>6. ASSUME NEW z \in Pieces, z.base <= Len(log[n]), Len(log[n]) + 1 <= End(z),
               At(z, Len(log[n]) + 1).term = e.term
        PROVE  FALSE
    <3>1. role'[n] = "leader" /\ At(z, Len(log[n]) + 1).term = currentTerm'[n]
      BY <1>6, <2>6 DEF Extends
    <3>2. Len(log[n]) + 1 \in Nat /\ z.base \in Nat
      BY <1>1, <1>2, PieceType
    <3>3. z.base < Len(log[n]) + 1
      BY <1>2, <2>6, <3>2
    <3>4. Len(log[n]) + 1 <= Len(log[n])
      BY <1>1, <2>6, <3>1, <3>2, <3>3, LeaderHeld
    <3>. QED BY <1>2, <3>4
  <2>. HIDE DEF l, y
  <2>7. ASSUME NEW z \in Pieces PROVE Compatible(y, z) /\ Compatible(z, y)
    <3>1. Compatible(l, z)
      BY <1>1, <1>2 DEF MatchInv, l
    <3>2. Compatible(y, z)
      BY <1>1, <2>2, <2>3, <2>4, <2>5, <2>6, <3>1, LongerCompatible
    <3>. QED BY <3>2, CompatibleSymmetric
  <2>8. Compatible(y, y)
    BY CompatibleReflexive
  <2>9. \A x \in Pieces' : x \in Pieces \/ x = y
    BY <1>6 DEF y
  <2>. QED BY <1>1, <2>7, <2>8, <2>9 DEF MatchInv
<1>. QED BY <1>1, <1>4, <1>5, <1>6, PieceSources

\* At the start there is no entry anywhere.
LEMMA LogInit == Init => LogInv
<1>. SUFFICES ASSUME Init PROVE LogInv
  OBVIOUS
<1>1. \A x \in Pieces : x = LogPiece(<< >>)
  BY DEF Init, Pieces, AppendRequests
<1>2. LogPiece(<< >>).base = 0 /\ End(LogPiece(<< >>)) = 0
  BY EmptySeq, LogPieceIs
<1>3. ASSUME NEW x \in Pieces, NEW i \in Nat, x.base < i, i <= End(x) PROVE FALSE
  BY <1>1, <1>2, <1>3
<1>4. OwnedInv
  BY <1>3 DEF OwnedInv
<1>5. HoldsInv
  BY <1>3 DEF HoldsInv
<1>6. MatchInv
  BY <1>1, CompatibleReflexive DEF MatchInv
<1>. QED BY <1>4, <1>5, <1>6 DEF LogInv

\* The inductive invariant behind FreshTerm and LogMatching is kept by every step.
LEMMA LogStep == TypeInv /\ TypeOK' /\ ElectionInv' /\ LogInv /\ [Next]_vars => LogInv'
<1>. SUFFICES ASSUME TypeInv, TypeOK', ElectionInv', LogInv, [Next]_vars PROVE LogInv'
  OBVIOUS
<1>. QED BY OwnedStep, HoldsStep, MatchStep DEF LogInv

\* Logs that fit match.
LEMMA LogInvMatches == TypeOK /\ LogInv => LogMatching
<1>. SUFFICES ASSUME TypeOK, LogInv, NEW n \in Node, NEW m \in Node,
                     NEW i \in 1..Min({Len(log[n]), Len(log[m])}),
                     log[n][i].term = log[m][i].term
              PROVE  SubSeq(log[n], 1, i) = SubSeq(log[m], 1, i)
  BY DEF LogMatching
<1>1. /\ log[n] \in Seq(Entry) /\ log[m] \in Seq(Entry)
      /\ Len(log[n]) \in Nat /\ Len(log[m]) \in Nat
  BY LenProperties DEF TypeOK
<1>2. i \in Nat /\ 0 < i /\ i <= Len(log[n]) /\ i <= Len(log[m])
  <2>. DEFINE least == Min({Len(log[n]), Len(log[m])})
  <2>1. least \in Nat /\ least <= Len(log[n]) /\ least <= Len(log[m])
    BY <1>1, MinOfTwo
  <2>2. i \in 1..least
    OBVIOUS
  <2>. HIDE DEF least
  <2>. QED BY <1>1, <2>1, <2>2
<1>. DEFINE x == LogPiece(log[n])
            y == LogPiece(log[m])
<1>3. /\ x.base = 0 /\ End(x) = Len(log[n]) /\ \A j \in Nat : At(x, j) = log[n][j]
      /\ y.base = 0 /\ End(y) = Len(log[m]) /\ \A j \in Nat : At(y, j) = log[m][j]
  BY <1>1, LogPieceIs
<1>4. Compatible(x, y)
  BY DEF LogInv, MatchInv, Pieces
<1>. HIDE DEF x, y
<1>5. ASSUME NEW j \in 1..i PROVE log[n][j] = log[m][j]
  <2>1. i \in Both(x, y) /\ j \in Both(x, y) /\ j <= i
    BY <1>1, <1>2, <1>3 DEF Both
  <2>2. At(x, i).term = At(y, i).term
    BY <1>2, <1>3
  <2>3. At(x, j) = At(y, j)
    BY <1>4, <2>1, <2>2 DEF Compatible
  <2>4. j \in Nat
    OBVIOUS
  <2>. QED BY <1>3, <2>3, <2>4
<1>6. /\ \A j \in 1..i : log[n][j] \in Entry
      /\ \A j \in 1..i : log[m][j] \in Entry
  BY <1>1, <1>2, ElementOfSeq
<1>7. /\ SubSeq(log[n], 1, i) \in Seq(Entry) /\ Len(SubSeq(log[n], 1, i)) = i
      /\ \A j \in 1..i : SubSeq(log[n], 1, i)[j] = log[n][j]
  BY <1>2, <1>6, SubSeqProperties
<1>8. /\ SubSeq(log[m], 1, i) \in Seq(Entry) /\ Len(SubSeq(log[m], 1, i)) = i
      /\ \A j \in 1..i : SubSeq(log[m], 1, i)[j] = log[m][j]
  BY <1>2, <1>6, SubSeqProperties
<1>9. \A j \in 1..i : SubSeq(log[n], 1, i)[j] = SubSeq(log[m], 1, i)[j]
  BY <1>5, <1>7, <1>8
<1>. QED BY <1>7, <1>8, <1>9, SeqEqual

\* Logs that agree on the term of an entry agree up to it, in groups of every size,
\* with calls that are late, lost and answered after crashes.
THEOREM LogsMatch == Spec => []LogMatching
<1>1. TypeInv /\ LogInv => LogMatching
  BY LogInvMatches DEF TypeInv
<1>2. TypeInv' => TypeOK'
  BY DEF TypeInv
<1>. QED BY <1>1, <1>2, TypeInit, TypeStep, ElectionInit, ElectionStep, LogInit, LogStep, PTL DEF Spec

\* Nobody is elected in a term in which some member appended an entry, wherever
\* that entry got to.
THEOREM TermsStayFresh == Spec => FreshTerm
<1>. DEFINE Step == \A n, m \in Node :
          role[n] # "leader" /\ role'[n] = "leader"
              => \A i \in 1..Len(log[m]) : log[m][i].term # currentTerm'[n]
<1>1. TypeInv /\ TypeOK' /\ ElectionInv' /\ LogInv /\ [Next]_vars => Step
  <2>. SUFFICES ASSUME TypeInv, TypeOK', ElectionInv', LogInv, [Next]_vars,
                       NEW n \in Node, NEW m \in Node,
                       role[n] # "leader", role'[n] = "leader", NEW i \in 1..Len(log[m])
                PROVE  log[m][i].term # currentTerm'[n]
    OBVIOUS
  <2>1. /\ TypeOK /\ OwnedInv /\ LogPiece(log[m]) \in Pieces /\ log[m] \in Seq(Entry)
        /\ Len(log[m]) \in Nat
    BY LenProperties DEF TypeInv, TypeOK, LogInv, Pieces
  <2>2. /\ LogPiece(log[m]).base < i /\ i <= End(LogPiece(log[m])) /\ i \in Nat
        /\ At(LogPiece(log[m]), i) = log[m][i]
    BY <2>1, LogPieceIs
  <2>. QED BY <2>1, <2>2, ElectedAfresh
<1>2. TypeInv' => TypeOK'
  BY DEF TypeInv
<1>. HIDE DEF Step
<1>3. Spec => [][Step]_vars
  BY <1>1, <1>2, TypeInit, TypeStep, ElectionInit, ElectionStep, LogInit, LogStep, PTL DEF Spec
<1>. QED BY <1>3 DEF FreshTerm, Step
=============================================================================
