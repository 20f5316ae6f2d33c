-------------------------- MODULE RaftCommitProofs --------------------------
(***************************************************************************)
(* Proofs about what Raft replicates and commits, for every group, every   *)
(* set of commands and all bounds: what a peer acknowledged, and its leader*)
(* counts, is in the log of the peer while it stays in the term; what is   *)
(* committed is never lost; every group implements one replicated log.     *)
(***************************************************************************)
EXTENDS RaftImplementsLog, RaftProofs

-----------------------------------------------------------------------------
(* What the steps do, once more, with what the calls remember. *)

\* A request that is new was sent by a leader, from some place to the end of its log.
LEMMA RequestSources ==
  ASSUME TypeInv, [Next]_vars, NEW a \in AppendRequests', a \notin AppendRequests
  PROVE  \E n \in Node, b \in Nat :
           /\ role[n] = "leader" /\ a.src = n /\ a.term = currentTerm[n]
           /\ b <= Len(log[n]) /\ SentPiece(a) = TailPiece(log[n], b)
           /\ a.leaderCommit = commitIndex[n]
           /\ UNCHANGED <<electionVars, logVars, leaderVars>>
<1>. DEFINE Goal == \E n \in Node, b \in Nat :
           /\ role[n] = "leader" /\ a.src = n /\ a.term = currentTerm[n]
           /\ b <= Len(log[n]) /\ SentPiece(a) = TailPiece(log[n], b)
           /\ a.leaderCommit = commitIndex[n]
           /\ UNCHANGED <<electionVars, logVars, leaderVars>>
<1>0. a \in rpcs' /\ a.type = "AppendRequest" /\ a \notin rpcs
  BY DEF AppendRequests
<1>1. ASSUME NEW n \in Node, NEW p \in Node, ReplicateTo(n, p) PROVE Goal
  <2>1. PICK c \in Call :
          rpcs' = rpcs \cup
              {[type |-> "AppendRequest", src |-> n, dst |-> p, call |-> c,
                term |-> currentTerm[n],
                prevLogIndex |-> nextIndex[n][p] - 1,
                prevLogTerm |-> TermAt(log[n], nextIndex[n][p] - 1),
                entries |-> SubSeq(log[n], nextIndex[n][p], Len(log[n])),
                leaderCommit |-> commitIndex[n]]}
    BY <1>1 DEF ReplicateTo
  <2>. DEFINE b == nextIndex[n][p] - 1
  <2>2. /\ role[n] = "leader" /\ nextIndex[n][p] \in Nat \ {0} /\ nextIndex[n][p] <= Len(log[n]) + 1
        /\ Len(log[n]) \in Nat
    BY <1>1, LenProperties DEF ReplicateTo, TypeInv, TypeOK, NextIndexInLog
  <2>3. b \in Nat /\ b <= Len(log[n]) /\ b + 1 = nextIndex[n][p]
    BY <2>2
  <2>4. a = [type |-> "AppendRequest", src |-> n, dst |-> p, call |-> c,
             term |-> currentTerm[n], prevLogIndex |-> b,
             prevLogTerm |-> TermAt(log[n], b),
             entries |-> SubSeq(log[n], b + 1, Len(log[n])),
             leaderCommit |-> commitIndex[n]]
    BY <1>0, <2>1, <2>3
  <2>5. SentPiece(a) = TailPiece(log[n], b)
    BY <2>4 DEF SentPiece, TailPiece
  <2>6. UNCHANGED <<electionVars, logVars, leaderVars>>
    BY <1>1 DEF ReplicateTo
  <2>. HIDE DEF b
  <2>. QED BY <2>2, <2>3, <2>4, <2>5, <2>6
<1>2. ASSUME \/ \E n \in Node : \/ StartElection(n) \/ Applier(n) \/ Crash(n) \/ Restart(n)
                                \/ \E cmd \in Command : Propose(n, cmd)
             \/ \E m \in rpcs : \/ HandleRequestVote(m) \/ ReceiveVoteReply(m)
                                \/ HandleAppendEntries(m) \/ ReceiveAppendReply(m)
                                \/ Lose(m)
             \/ UNCHANGED vars
      PROVE  FALSE
  <2>1. ASSUME NEW n \in Node, StartElection(n) PROVE FALSE
    BY <1>0, <2>1 DEF StartElection
  <2>2. ASSUME NEW n \in Node, NEW cmd \in Command, Propose(n, cmd) PROVE FALSE
    BY <1>0, <2>2 DEF Propose
  <2>3. ASSUME NEW n \in Node, Applier(n) \/ Crash(n) \/ Restart(n) PROVE FALSE
    BY <1>0, <2>3 DEF Applier, Crash, Restart
  <2>4. ASSUME NEW m \in rpcs, HandleRequestVote(m) \/ HandleAppendEntries(m) PROVE FALSE
    BY <1>0, <2>4 DEF HandleRequestVote, HandleAppendEntries, Answer
  <2>5. ASSUME NEW m \in rpcs, ReceiveVoteReply(m) \/ ReceiveAppendReply(m) \/ Lose(m) PROVE FALSE
    BY <1>0, <2>5 DEF ReceiveVoteReply, ReceiveAppendReply, Lose
  <2>. QED BY <1>0, <1>2, <2>1, <2>2, <2>3, <2>4, <2>5 DEF vars
<1>. HIDE DEF Goal
<1>3. Goal
  BY <1>1, <1>2 DEF Next, GroupStep
<1>. QED BY <1>3 DEF Goal

\* A success that is new answers a request that its receiver merged.
LEMMA ReplySources ==
  ASSUME TypeInv, [Next]_vars,
         NEW a \in rpcs', a \notin rpcs, a.type = "AppendReply", a.success
  PROVE  \E m \in AppendRequests :
           /\ Merges(m) /\ a.src = m.src /\ a.dst = m.dst /\ a.term = m.term
           /\ a.sentUpTo = End(SentPiece(m)) /\ role' = [role EXCEPT ![m.dst] = "follower"]
           /\ UNCHANGED leaderVars
<1>. DEFINE Goal == \E m \in AppendRequests :
           /\ Merges(m) /\ a.src = m.src /\ a.dst = m.dst /\ a.term = m.term
           /\ a.sentUpTo = End(SentPiece(m)) /\ role' = [role EXCEPT ![m.dst] = "follower"]
           /\ UNCHANGED leaderVars
<1>1. ASSUME NEW m \in rpcs, HandleAppendEntries(m) PROVE Goal
  <2>1. m.type = "AppendRequest" /\ m \in AppendRequests /\ m.dst \in Node
        /\ m.term \in Nat /\ currentTerm[m.dst] \in Nat
    BY <1>1, RpcKinds DEF HandleAppendEntries, AppendRequests, TypeInv, TypeOK
  <2>. DEFINE reply(success) == [type |-> "AppendReply", src |-> m.src, dst |-> m.dst, call |-> m.call,
                    term |-> m.term, sentUpTo |-> m.prevLogIndex + Len(m.entries),
                    replyTerm |-> currentTerm'[m.dst], success |-> success]
  <2>2. \/ a = reply(FALSE)
        \/ /\ a = reply(TRUE) /\ ~(m.term < currentTerm[m.dst]) /\ HasPrevious(m, log[m.dst])
           /\ log' = [log EXCEPT ![m.dst] = Merge(log[m.dst], m.prevLogIndex, m.entries)]
    BY <1>1 DEF HandleAppendEntries, Answer
  <2>3. /\ a = reply(TRUE) /\ ~(m.term < currentTerm[m.dst]) /\ HasPrevious(m, log[m.dst])
        /\ log' = [log EXCEPT ![m.dst] = Merge(log[m.dst], m.prevLogIndex, m.entries)]
    BY <2>2
  <2>4. /\ a.src = m.src /\ a.dst = m.dst /\ a.term = m.term
        /\ a.sentUpTo = m.prevLogIndex + Len(m.entries)
    BY <2>3
  <2>. HIDE DEF reply
  <2>5. /\ currentTerm' = [currentTerm EXCEPT ![m.dst] = IF Newer(m.term, m.dst) THEN m.term ELSE @]
        /\ role' = [role EXCEPT ![m.dst] = IF m.term < currentTerm[m.dst] THEN @ ELSE "follower"]
        /\ UNCHANGED leaderVars
    BY <1>1 DEF HandleAppendEntries
  <2>6. currentTerm'[m.dst] = m.term
    BY <2>1, <2>3, <2>5 DEF Newer, TypeInv, TypeOK
  <2>7. role' = [role EXCEPT ![m.dst] = "follower"] /\ role'[m.dst] = "follower"
    BY <2>1, <2>3, <2>5 DEF TypeInv, TypeOK
  <2>8. AppendRequests' \subseteq AppendRequests
    BY <1>1 DEF HandleAppendEntries, Answer, AppendRequests
  <2>9. Merges(m)
    BY <2>3, <2>6, <2>7, <2>8 DEF Merges
  <2>. QED BY <2>1, <2>4, <2>5, <2>7, <2>9 DEF End, SentPiece
<1>2. ASSUME \/ \E n \in Node : \/ StartElection(n) \/ Applier(n) \/ Crash(n) \/ Restart(n)
                                \/ \E cmd \in Command : Propose(n, cmd)
                                \/ \E p \in Node : ReplicateTo(n, p)
             \/ \E m \in rpcs : \/ HandleRequestVote(m) \/ ReceiveVoteReply(m)
                                \/ ReceiveAppendReply(m) \/ Lose(m)
             \/ UNCHANGED vars
      PROVE  FALSE
  <2>1. ASSUME NEW n \in Node, StartElection(n) PROVE FALSE
    BY <2>1 DEF StartElection
  <2>2. ASSUME NEW n \in Node, NEW cmd \in Command, Propose(n, cmd) PROVE FALSE
    BY <2>2 DEF Propose
  <2>3. ASSUME NEW n \in Node, Applier(n) \/ Crash(n) \/ Restart(n) PROVE FALSE
    BY <2>3 DEF Applier, Crash, Restart
  <2>4. ASSUME NEW m \in rpcs, HandleRequestVote(m) PROVE FALSE
    BY <2>4 DEF HandleRequestVote, Answer
  <2>5. ASSUME NEW m \in rpcs, ReceiveVoteReply(m) \/ ReceiveAppendReply(m) \/ Lose(m) PROVE FALSE
    BY <2>5 DEF ReceiveVoteReply, ReceiveAppendReply, Lose
  <2>6. ASSUME NEW n \in Node, NEW p \in Node, ReplicateTo(n, p) PROVE FALSE
    BY <2>6 DEF ReplicateTo
  <2>. QED BY <1>2, <2>1, <2>2, <2>3, <2>4, <2>5, <2>6 DEF vars
<1>. HIDE DEF Goal
<1>3. Goal
  BY <1>1, <1>2 DEF Next, GroupStep
<1>. QED BY <1>3 DEF Goal

\* Apart from the handlers and the receipt of a vote, no step elects a leader.
LEMMA OthersElectNobody ==
  ASSUME TypeInv, NEW k \in Node, role[k] # "leader",
         \/ \E n \in Node : \/ StartElection(n) \/ Applier(n) \/ Crash(n) \/ Restart(n)
                            \/ \E q \in Node : ReplicateTo(n, q)
                            \/ \E cmd \in Command : Propose(n, cmd)
         \/ \E m \in rpcs : Lose(m)
         \/ UNCHANGED vars
  PROVE  role'[k] # "leader"
<1>1. ASSUME NEW n \in Node, StartElection(n) PROVE role'[k] # "leader"
  BY <1>1 DEF StartElection, TypeInv, TypeOK
<1>2. ASSUME NEW n \in Node, Restart(n) PROVE role'[k] # "leader"
  BY <1>2 DEF Restart, TypeInv, TypeOK
<1>3. ASSUME NEW n \in Node, Applier(n) \/ Crash(n) PROVE role' = role
  BY <1>3 DEF Applier, Crash, electionVars
<1>4. ASSUME NEW n \in Node, NEW q \in Node, ReplicateTo(n, q) PROVE role' = role
  BY <1>4 DEF ReplicateTo, electionVars
<1>5. ASSUME NEW n \in Node, NEW cmd \in Command, Propose(n, cmd) PROVE role' = role
  BY <1>5 DEF Propose, electionVars
<1>6. ASSUME NEW m \in rpcs, Lose(m) PROVE role' = role
  BY <1>6 DEF Lose, electionVars
<1>7. UNCHANGED vars => role' = role
  BY DEF vars, electionVars
<1>. QED BY <1>1, <1>2, <1>3, <1>4, <1>5, <1>6, <1>7

\* What a leader counts for a peer is nothing yet, what it counted, or acknowledged.
LEMMA MatchSources ==
  ASSUME TypeInv, [Next]_vars, NEW n \in Node, NEW p \in Node, role'[n] = "leader"
  PROVE  \/ matchIndex'[n][p] = 0
         \/ /\ role[n] = "leader" /\ currentTerm'[n] = currentTerm[n]
            /\ matchIndex'[n][p] = matchIndex[n][p]
         \/ /\ role[n] = "leader" /\ UNCHANGED <<role, currentTerm, log>>
            /\ \E m \in rpcs : /\ m.type = "AppendReply" /\ m.success /\ m.src = n /\ m.dst = p
                               /\ m.term = currentTerm[n] /\ matchIndex'[n][p] = m.sentUpTo
<1>. USE DEF TypeInv, TypeOK
<1>. DEFINE Goal ==
         \/ matchIndex'[n][p] = 0
         \/ /\ role[n] = "leader" /\ currentTerm'[n] = currentTerm[n]
            /\ matchIndex'[n][p] = matchIndex[n][p]
         \/ /\ role[n] = "leader" /\ UNCHANGED <<role, currentTerm, log>>
            /\ \E m \in rpcs : /\ m.type = "AppendReply" /\ m.success /\ m.src = n /\ m.dst = p
                               /\ m.term = currentTerm[n] /\ matchIndex'[n][p] = m.sentUpTo
<1>1. ASSUME role[n] = "leader", matchIndex' = matchIndex PROVE Goal
  BY <1>1, RoleSteps
<1>2. ASSUME role[n] # "leader" PROVE Goal
  <2>1. ASSUME NEW m \in rpcs, ReceiveVoteReply(m) PROVE Goal
    <3>1. m.src \in Node
      BY RpcKinds
    <3>2. CASE BecomeFollower(m.src, m.replyTerm)
      BY <1>2, <3>1, <3>2 DEF BecomeFollower
    <3>3. CASE BecomeLeader(m.src)
      BY <1>2, <3>1, <3>3 DEF BecomeLeader
    <3>4. CASE role' = role
      BY <1>2, <3>4
    <3>. QED BY <2>1, <3>2, <3>3, <3>4 DEF ReceiveVoteReply, electionVars
  <2>2. ASSUME \/ \E k \in Node : \/ StartElection(k) \/ Applier(k) \/ Crash(k) \/ Restart(k)
                                  \/ \E q \in Node : ReplicateTo(k, q)
                                  \/ \E cmd \in Command : Propose(k, cmd)
               \/ \E m \in rpcs : Lose(m)
               \/ UNCHANGED vars
        PROVE  role'[n] # "leader"
    BY <1>2, <2>2, OthersElectNobody
  <2>3. ASSUME NEW m \in rpcs, HandleRequestVote(m) \/ HandleAppendEntries(m) PROVE role'[n] # "leader"
    BY <1>2, <2>3, RpcKinds DEF HandleRequestVote, HandleAppendEntries
  <2>4. ASSUME NEW m \in rpcs, ReceiveAppendReply(m) PROVE role'[n] # "leader"
    BY <1>2, <2>4, RpcKinds DEF ReceiveAppendReply, BecomeFollower
  <2>. HIDE DEF Goal
  <2>5. Goal
    <3>. HIDE DEF TypeInv, TypeOK
    <3>. QED BY <2>1, <2>2, <2>3, <2>4 DEF Next, GroupStep
  <2>. QED BY <2>5
<1>3. ASSUME role[n] = "leader" PROVE Goal
  <2>1. ASSUME NEW m \in rpcs, ReceiveVoteReply(m) PROVE Goal
    <3>1. m.src \in Node
      BY RpcKinds
    <3>2. CASE role[m.src] = "candidate" /\ BecomeLeader(m.src)
      <4>1. m.src # n
        BY <1>3, <3>2
      <4>. QED BY <1>3, <3>1, <3>2, <4>1, RoleSteps DEF BecomeLeader
    <3>3. CASE matchIndex' = matchIndex
      BY <1>1, <1>3, <3>3
    <3>. QED BY <2>1, <3>2, <3>3 DEF ReceiveVoteReply, leaderVars
  <2>2. ASSUME NEW m \in rpcs, ReceiveAppendReply(m) PROVE Goal
    <3>1. m.src \in Node /\ m.dst \in Node /\ m \in AppendReply
      BY <2>2, RpcKinds DEF ReceiveAppendReply
    <3>2. CASE matchIndex' = matchIndex
      BY <1>1, <1>3, <3>2
    <3>3. CASE /\ m.success /\ currentTerm[m.src] = m.term
               /\ matchIndex' = [matchIndex EXCEPT ![m.src][m.dst] = AckedUpTo(m)]
               /\ UNCHANGED <<role, currentTerm, log>>
      <4>1. CASE n = m.src /\ p = m.dst
        <5>1. matchIndex'[n][p] = m.sentUpTo
          BY <3>3, <4>1 DEF AckedUpTo
        <5>2. m.type = "AppendReply"
          BY <2>2 DEF ReceiveAppendReply
        <5>. QED BY <1>3, <3>3, <4>1, <5>1, <5>2
      <4>2. CASE ~(n = m.src /\ p = m.dst)
        <5>1. matchIndex'[n][p] = matchIndex[n][p]
          <6>1. n # m.src \/ p # m.dst
            BY <4>2
          <6>2. matchIndex \in [Node -> [Node -> Nat]]
            OBVIOUS
          <6>. HIDE DEF Goal, TypeInv, TypeOK
          <6>. QED BY <3>1, <3>3, <6>1, <6>2
        <5>. QED BY <1>3, <3>3, <5>1
      <4>. QED BY <4>1, <4>2
    <3>. HIDE DEF Goal, TypeInv, TypeOK
    <3>. QED BY <2>2, <3>2, <3>3 DEF ReceiveAppendReply, leaderVars
  <2>3. ASSUME \/ \E k \in Node : \/ StartElection(k) \/ Applier(k) \/ Crash(k) \/ Restart(k)
                                  \/ \E q \in Node : ReplicateTo(k, q)
                                  \/ \E cmd \in Command : Propose(k, cmd)
               \/ \E m \in rpcs : Lose(m) \/ HandleRequestVote(m) \/ HandleAppendEntries(m)
               \/ UNCHANGED vars
        PROVE  matchIndex' = matchIndex
    BY <2>3, ZenonT(60) DEF StartElection, Applier, Crash, Restart, ReplicateTo, Propose, Lose,
         HandleRequestVote, HandleAppendEntries, vars, leaderVars
  <2>. HIDE DEF Goal, TypeInv, TypeOK
  <2>. QED BY <1>1, <1>3, <2>1, <2>2, <2>3 DEF Next, GroupStep
<1>. HIDE DEF Goal
<1>4. Goal
  BY <1>2, <1>3
<1>. QED BY <1>4 DEF Goal

\* Who counts as a voter of a member that is elected voted for it before the step.
LEMMA ElectionSources ==
  ASSUME TypeInv, [Next]_vars, NEW k \in Node, role[k] # "leader", role'[k] = "leader"
  PROVE  /\ role[k] = "candidate" /\ currentTerm' = currentTerm
         /\ log'[k] = Append(log[k], [term |-> currentTerm[k], command |-> NoOp])
         /\ \A v \in votes'[k] : VotedFor(v, currentTerm[k], k)
<1>. USE DEF TypeInv, TypeOK
<1>. DEFINE Goal == /\ role[k] = "candidate" /\ currentTerm' = currentTerm
                    /\ log'[k] = Append(log[k], [term |-> currentTerm[k], command |-> NoOp])
                    /\ \A v \in votes'[k] : VotedFor(v, currentTerm[k], k)
<1>1. ASSUME NEW m \in rpcs, ReceiveVoteReply(m) PROVE Goal
  <2>1. m.src \in Node
    BY RpcKinds
  <2>2. CASE BecomeFollower(m.src, m.replyTerm)
    BY <2>1, <2>2 DEF BecomeFollower
  <2>3. CASE role' = role
    BY <2>3
  <2>4. CASE /\ role[m.src] = "candidate" /\ currentTerm[m.src] = m.term /\ m.granted
             /\ votes' = [votes EXCEPT ![m.src] = @ \cup {m.dst}]
             /\ BecomeLeader(m.src) /\ UNCHANGED currentTerm
    <3>1. m.type = "VoteReply"
      BY <1>1 DEF ReceiveVoteReply
    <3>2. k = m.src
      BY <2>1, <2>4 DEF BecomeLeader
    <3>3. \A v \in votes'[k] : v \in votes[k] \/ v = m.dst
      BY <2>1, <2>4, <3>2
    <3>4. log'[k] = Append(log[k], [term |-> currentTerm[k], command |-> NoOp])
      BY <2>1, <2>4, <3>2 DEF BecomeLeader
    <3>. QED BY <2>4, <3>1, <3>2, <3>3, <3>4 DEF VotedFor
  <2>. HIDE DEF Goal, TypeInv, TypeOK
  <2>. QED BY <1>1, <2>2, <2>3, <2>4 DEF ReceiveVoteReply, electionVars
<1>2. ASSUME \/ \E n \in Node : \/ StartElection(n) \/ Applier(n) \/ Crash(n) \/ Restart(n)
                                \/ \E q \in Node : ReplicateTo(n, q)
                                \/ \E cmd \in Command : Propose(n, cmd)
             \/ \E m \in rpcs : Lose(m)
             \/ UNCHANGED vars
      PROVE  role'[k] # "leader"
  BY <1>2, OthersElectNobody
<1>3. ASSUME NEW m \in rpcs, HandleRequestVote(m) \/ HandleAppendEntries(m) PROVE role'[k] # "leader"
  <2>1. m.dst \in Node
    BY <1>3, RpcKinds DEF HandleRequestVote, HandleAppendEntries
  <2>. QED BY <1>3, <2>1, SMTT(30) DEF HandleRequestVote, HandleAppendEntries
<1>4. ASSUME NEW m \in rpcs, ReceiveAppendReply(m) PROVE role'[k] # "leader"
  BY <1>4, RpcKinds DEF ReceiveAppendReply, BecomeFollower
<1>. HIDE DEF Goal, TypeInv, TypeOK
<1>5. Goal
  BY <1>1, <1>2, <1>3, <1>4 DEF Next, GroupStep
<1>. QED BY <1>5 DEF Goal

\* A vote that shows after a step showed before it, or is given in it: by a member that
\* starts an election to itself, or to a candidate whose log is not older.
LEMMA VoteSources ==
  ASSUME TypeInv, [Next]_vars, NEW v \in Node, NEW c \in Node, NEW t \in Nat, VotedFor(v, t, c)'
  PROVE  \/ VotedFor(v, t, c)
         \/ v = c /\ currentTerm'[c] = t /\ currentTerm[c] < t
         \/ \E m \in rpcs : /\ m.type = "VoteRequest" /\ m.src = c /\ m.dst = v /\ m.term = t
                            /\ LogOk(m, log[v])
<1>. USE DEF TypeInv, TypeOK
<1>. DEFINE Goal ==
         \/ VotedFor(v, t, c)
         \/ v = c /\ currentTerm'[c] = t /\ currentTerm[c] < t
         \/ \E m \in rpcs : /\ m.type = "VoteRequest" /\ m.src = c /\ m.dst = v /\ m.term = t
                            /\ LogOk(m, log[v])
<1>. SUFFICES ASSUME currentTerm'[v] = t, votedFor'[v] = c PROVE Goal
  BY EvidenceStep
<1>0. currentTerm[v] \in Nat /\ votedFor[v] \in Node \cup {Nil} /\ c # Nil
  BY NodeAssumption
<1>1. ASSUME NEW n \in Node, StartElection(n) PROVE Goal
  <2>1. CASE v = n
    BY <1>0, <1>1, <2>1 DEF StartElection
  <2>2. CASE v # n
    BY <1>1, <2>2 DEF StartElection, VotedFor
  <2>. QED BY <2>1, <2>2
<1>2. ASSUME NEW m \in rpcs, HandleRequestVote(m) PROVE Goal
  <2>1. m.dst \in Node /\ m.term \in Nat /\ m.type = "VoteRequest"
    BY <1>2, RpcKinds DEF HandleRequestVote
  <2>. DEFINE granted == /\ m.term >= currentTerm[m.dst]
                         /\ Newer(m.term, m.dst) \/ votedFor[m.dst] \in {Nil, m.src}
                         /\ LogOk(m, log[m.dst])
  <2>2. /\ currentTerm' = [currentTerm EXCEPT ![m.dst] = IF Newer(m.term, m.dst) THEN m.term ELSE @]
        /\ votedFor' = [votedFor EXCEPT ![m.dst] =
                          IF granted THEN m.src ELSE IF Newer(m.term, m.dst) THEN Nil ELSE @]
    BY <1>2 DEF HandleRequestVote
  <2>3. CASE v # m.dst
    BY <2>1, <2>2, <2>3 DEF VotedFor
  <2>4. CASE v = m.dst /\ granted
    <3>1. m.src = c
      BY <2>1, <2>2, <2>4
    <3>2. m.term = t
      BY <2>1, <2>2, <2>4, SMTT(30) DEF Newer
    <3>. QED BY <2>1, <2>4, <3>1, <3>2
  <2>5. CASE v = m.dst /\ ~granted
    BY <1>0, <2>1, <2>2, <2>5 DEF VotedFor
  <2>. QED BY <2>3, <2>4, <2>5
<1>3. ASSUME NEW m \in rpcs, HandleAppendEntries(m) PROVE Goal
  <2>1. m.dst \in Node /\ m.term \in Nat
    BY RpcKinds
  <2>. QED BY <1>0, <1>3, <2>1 DEF HandleAppendEntries, VotedFor
<1>4. ASSUME NEW m \in rpcs, ReceiveVoteReply(m) \/ ReceiveAppendReply(m) PROVE Goal
  <2>1. m.src \in Node
    BY RpcKinds
  <2>2. BecomeFollower(m.src, m.replyTerm) \/ UNCHANGED <<currentTerm, votedFor>>
    BY <1>4 DEF ReceiveVoteReply, ReceiveAppendReply, electionVars
  <2>. QED BY <1>0, <2>1, <2>2 DEF BecomeFollower, VotedFor
<1>5. ASSUME \/ \E n \in Node : \/ \E p \in Node : ReplicateTo(n, p)
                                \/ \E cmd \in Command : Propose(n, cmd)
                                \/ Applier(n) \/ Crash(n) \/ Restart(n)
             \/ \E m \in rpcs : Lose(m)
             \/ UNCHANGED vars
      PROVE  Goal
  <2>1. UNCHANGED <<currentTerm, votedFor>>
    BY <1>5 DEF ReplicateTo, Propose, Applier, Crash, Restart, Lose, vars, electionVars
  <2>. QED BY <2>1 DEF VotedFor
<1>. HIDE DEF Goal, TypeInv, TypeOK
<1>6. Goal
  BY <1>1, <1>2, <1>3, <1>4, <1>5 DEF Next, GroupStep
<1>. QED BY <1>6 DEF Goal

\* A commit index changes when a request is merged, to what its leader had committed or
\* the end of the log, and when a leader counts a majority.
LEMMA CommitSources ==
  ASSUME TypeInv, [Next]_vars, NEW n \in Node
  PROVE  \/ commitIndex'[n] = commitIndex[n]
         \/ \E m \in AppendRequests :
              /\ Merges(m) /\ n = m.dst /\ commitIndex[n] < m.leaderCommit
              /\ commitIndex'[n] = Min({m.leaderCommit, Len(log'[n])})
         \/ /\ role[n] = "leader" /\ UNCHANGED <<role, currentTerm, log>>
            /\ commitIndex'[n] \in Committable(n, matchIndex'[n])
<1>. DEFINE Goal ==
         \/ commitIndex'[n] = commitIndex[n]
         \/ \E m \in AppendRequests :
              /\ Merges(m) /\ n = m.dst /\ commitIndex[n] < m.leaderCommit
              /\ commitIndex'[n] = Min({m.leaderCommit, Len(log'[n])})
         \/ /\ role[n] = "leader" /\ UNCHANGED <<role, currentTerm, log>>
            /\ commitIndex'[n] \in Committable(n, matchIndex'[n])
<1>1. ASSUME NEW m \in rpcs, HandleAppendEntries(m) PROVE Goal
  <2>1. /\ m.type = "AppendRequest" /\ m \in AppendRequests /\ m.dst \in Node /\ m \in AppendRequest
        /\ m.term \in Nat /\ currentTerm[m.dst] \in Nat
    BY <1>1, RpcKinds DEF HandleAppendEntries, AppendRequests, TypeInv, TypeOK
  <2>2. CASE n # m.dst
    BY <1>1, <2>1, <2>2 DEF HandleAppendEntries, TypeInv, TypeOK
  <2>3. CASE n = m.dst /\ UNCHANGED commitIndex
    BY <2>3
  <2>4. CASE /\ n = m.dst /\ ~(m.term < currentTerm[n]) /\ HasPrevious(m, log[n])
             /\ log' = [log EXCEPT ![n] = Merge(log[n], m.prevLogIndex, m.entries)]
             /\ commitIndex' = [commitIndex EXCEPT ![n] =
                   IF m.leaderCommit > @
                   THEN Min({m.leaderCommit, Len(Merge(log[n], m.prevLogIndex, m.entries))}) ELSE @]
    <3>1. currentTerm'[n] = m.term /\ role'[n] = "follower"
      BY <1>1, <2>1, <2>4, SMTT(30) DEF HandleAppendEntries, Newer, TypeInv, TypeOK
    <3>2. log'[n] = Merge(log[n], m.prevLogIndex, m.entries)
      BY <2>4 DEF TypeInv, TypeOK
    <3>3. commitIndex'[n] = IF m.leaderCommit > commitIndex[n]
                            THEN Min({m.leaderCommit, Len(log'[n])}) ELSE commitIndex[n]
      BY <2>4, <3>2 DEF TypeInv, TypeOK
    <3>4. AppendRequests' \subseteq AppendRequests
      BY <1>1 DEF HandleAppendEntries, Answer, AppendRequests
    <3>5. Merges(m)
      BY <2>4, <3>1, <3>4 DEF Merges
    <3>6. m.leaderCommit \in Nat /\ commitIndex[n] \in Nat
      BY <2>1 DEF AppendRequest, TypeInv, TypeOK
    <3>7. CASE m.leaderCommit > commitIndex[n]
      <4>1. commitIndex[n] < m.leaderCommit
        BY <3>6, <3>7
      <4>. QED BY <2>1, <2>4, <3>3, <3>5, <3>7, <4>1
    <3>. QED BY <3>3, <3>7
  <2>. HIDE DEF Goal
  <2>. QED BY <1>1, <2>2, <2>3, <2>4 DEF HandleAppendEntries
<1>2. ASSUME NEW m \in rpcs, ReceiveAppendReply(m) PROVE Goal
  <2>1. m.src \in Node
    BY RpcKinds DEF TypeInv, TypeOK
  <2>2. CASE UNCHANGED commitIndex
    BY <2>2
  <2>3. CASE /\ role[m.src] = "leader" /\ AdvanceCommit(m.src, matchIndex'[m.src])
             /\ UNCHANGED <<role, currentTerm, log>>
    <3>1. CASE n = m.src
      BY <2>3, <3>1 DEF AdvanceCommit, TypeInv, TypeOK
    <3>2. CASE n # m.src
      BY <2>1, <2>3, <3>2 DEF AdvanceCommit, TypeInv, TypeOK
    <3>. QED BY <3>1, <3>2
  <2>. HIDE DEF Goal
  <2>. QED BY <1>2, <2>2, <2>3 DEF ReceiveAppendReply
<1>3. ASSUME \/ \E k \in Node : \/ StartElection(k) \/ Applier(k) \/ Crash(k) \/ Restart(k)
                                \/ \E q \in Node : ReplicateTo(k, q)
                                \/ \E cmd \in Command : Propose(k, cmd)
             \/ \E m \in rpcs : Lose(m) \/ HandleRequestVote(m) \/ ReceiveVoteReply(m)
             \/ UNCHANGED vars
      PROVE  commitIndex' = commitIndex
  BY <1>3, ZenonT(60) DEF StartElection, Applier, Crash, Restart, ReplicateTo, Propose, Lose,
       HandleRequestVote, ReceiveVoteReply, vars, logVars
<1>. HIDE DEF Goal
<1>4. Goal
  <2>1. CASE UNCHANGED vars
    BY <1>3, <2>1 DEF Goal
  <2>. QED BY <1>1, <1>2, <1>3, <2>1 DEF Next, GroupStep, Goal
<1>. QED BY <1>4 DEF Goal

\* The log of a candidate does not change.
LEMMA CandidateLog ==
  ASSUME TypeInv, [Next]_vars, NEW c \in Node, role'[c] = "candidate"
  PROVE  log'[c] = log[c]
<1>1. CASE Sends
  BY <1>1 DEF Sends
<1>2. ASSUME NEW n \in Node, NEW e \in Entry, Extends(n, e) PROVE log'[c] = log[c]
  BY <1>2 DEF Extends, TypeInv, TypeOK
<1>3. ASSUME NEW m \in AppendRequests, Merges(m) PROVE log'[c] = log[c]
  BY <1>3, PiecesType DEF Merges, TypeInv, TypeOK
<1>. QED BY <1>1, <1>2, <1>3, LogSteps

-----------------------------------------------------------------------------
(* Logs and requests. *)

\* The piece x has an entry of term t at i.
Has(x, i, t) == x.base < i /\ i <= End(x) /\ At(x, i).term = t
HasLog(n, i, t) == 0 < i /\ i <= Len(log[n]) /\ log[n][i].term = t

\* There is such an entry.
Own(i, t) == \E x \in Pieces : Has(x, i, t)

\* An entry of a log is one of the log's piece.
LEMMA HasLogIs ==
  ASSUME TypeOK, NEW n \in Node
  PROVE  /\ LogPiece(log[n]) \in Pieces
         /\ \A i, t \in Nat : HasLog(n, i, t) <=> Has(LogPiece(log[n]), i, t)
<1>1. LogPiece(log[n]) \in Pieces
  BY DEF Pieces
<1>2. log[n] \in Seq(Entry)
  BY DEF TypeOK
<1>. QED BY <1>1, <1>2, LogPieceIs DEF HasLog, Has

\* A merged log holds what was sent, after what it was up to there; and nothing
\* else, unless it held it all.
LEMMA MergeHolds ==
  ASSUME NEW lg \in Seq(Entry), NEW m \in AppendRequest, HasPrevious(m, lg),
         Compatible(LogPiece(lg), SentPiece(m)),
         NEW p, p = SentPiece(m),
         NEW y, y = Merge(lg, m.prevLogIndex, m.entries)
  PROVE  /\ y \in Seq(Entry) /\ End(p) <= Len(y) /\ p.base <= Len(lg)
         /\ p \in Piece /\ p.before = TermAt(lg, p.base)
         /\ \A i \in 1..p.base : y[i] = lg[i]
         /\ \A i \in Nat : p.base < i /\ i <= End(p) => y[i] = At(p, i)
         /\ y = lg \/ Len(y) = End(p)
         /\ End(p) <= Len(lg) /\ (p.base = End(p) \/ lg[End(p)].term = At(p, End(p)).term) => y = lg
<1>. DEFINE prev == m.prevLogIndex
            es == m.entries
            l == LogPiece(lg)
<1>1. prev \in Nat /\ es \in Seq(Entry) /\ Len(es) \in Nat /\ Len(lg) \in Nat /\ prev <= Len(lg)
  BY LenProperties DEF AppendRequest, HasPrevious
<1>2. /\ p \in Piece /\ p.base = prev /\ p.before = TermAt(lg, prev) /\ End(p) = prev + Len(es)
      /\ \A i \in Nat : At(p, i) = es[i - prev]
  BY <1>1 DEF AppendRequest, HasPrevious, SentPiece, Piece, End, At
<1>3. /\ End(l) = Len(lg) /\ l.base = 0 /\ \A i \in Nat : At(l, i) = lg[i]
  BY LogPieceIs
<1>4. \/ Differing(lg, prev, es) = {} /\ y = lg
      \/ /\ y \in Seq(Entry) /\ Len(y) = prev + Len(es)
         /\ \A i \in 1..prev : y[i] = lg[i]
         /\ \A i \in 1..Len(es) : y[prev + i] = es[i]
  BY MergedIs
<1>5. Compatible(l, p)
  OBVIOUS
<1>. HIDE DEF l, prev, es
\* Where the log has the term of an entry sent, it has all that was sent up to there.
<1>6. ASSUME NEW i \in Nat, prev < i, i <= End(p), i <= Len(lg), lg[i].term = At(p, i).term,
             NEW j \in Nat, prev < j, j <= i
      PROVE  lg[j] = At(p, j)
  <2>1. i \in Both(l, p) /\ j \in Both(l, p) /\ j <= i
    BY <1>1, <1>2, <1>3, <1>6 DEF Both
  <2>2. At(l, i).term = At(p, i).term
    BY <1>3, <1>6
  <2>. QED BY <1>3, <1>5, <2>1, <2>2 DEF Compatible
<1>7. ASSUME Differing(lg, prev, es) = {}, y = lg
      PROVE  /\ y \in Seq(Entry) /\ End(p) <= Len(y)
             /\ \A i \in 1..prev : y[i] = lg[i]
             /\ \A i \in Nat : prev < i /\ i <= End(p) => y[i] = At(p, i)
  <2>1. ASSUME NEW i \in Nat, prev < i, i <= End(p) PROVE i <= Len(lg) /\ lg[i] = At(p, i)
    <3>1. i - prev \in 1..Len(es) /\ prev + (i - prev) = i
      BY <1>1, <1>2, <2>1
    <3>2. i <= Len(lg) /\ lg[i].term = es[i - prev].term
      BY <1>1, <1>7, <3>1 DEF Differing
    <3>. QED BY <1>2, <1>6, <2>1, <3>2
  <2>2. End(p) <= Len(lg)
    <3>1. CASE Len(es) = 0
      BY <1>1, <1>2, <3>1
    <3>2. CASE Len(es) # 0
      <4>1. prev + Len(es) \in Nat /\ prev < prev + Len(es)
        BY <1>1, <3>2
      <4>. QED BY <1>2, <2>1, <4>1
    <3>. QED BY <3>1, <3>2
  <2>. QED BY <1>7, <2>1, <2>2
<1>8. ASSUME y \in Seq(Entry), Len(y) = prev + Len(es),
             \A i \in 1..prev : y[i] = lg[i],
             \A i \in 1..Len(es) : y[prev + i] = es[i]
      PROVE  /\ \A i \in Nat : prev < i /\ i <= End(p) => y[i] = At(p, i)
             /\ Len(y) = End(p)
  <2>1. ASSUME NEW i \in Nat, prev < i, i <= End(p) PROVE y[i] = At(p, i)
    <3>1. i - prev \in 1..Len(es) /\ prev + (i - prev) = i
      BY <1>1, <1>2, <2>1
    <3>. QED BY <1>2, <1>8, <3>1
  <2>. QED BY <1>2, <1>8, <2>1
<1>9. ASSUME End(p) <= Len(lg), p.base = End(p) \/ lg[End(p)].term = At(p, End(p)).term
      PROVE  y = lg
  <2>1. ASSUME NEW i \in Differing(lg, prev, es) PROVE FALSE
    <3>1. /\ i \in 1..Len(es) /\ prev + i \in Nat /\ prev < prev + i /\ prev + i <= End(p)
          /\ (prev + i) - prev = i
          /\ prev + i > Len(lg) \/ lg[prev + i].term # es[i].term
      BY <1>1, <1>2, <2>1 DEF Differing
    <3>2. prev + i <= Len(lg)
      BY <1>1, <1>2, <1>9, <3>1
    <3>3. lg[prev + i].term # es[i].term
      BY <1>1, <3>1, <3>2
    <3>4. lg[End(p)].term = At(p, End(p)).term
      BY <1>1, <1>2, <1>9, <3>1
    <3>5. End(p) \in Nat /\ prev < End(p)
      BY <1>1, <1>2, <3>1, SMTT(30)
    <3>6. lg[prev + i] = At(p, prev + i)
      BY <1>6, <1>9, <3>1, <3>4, <3>5
    <3>7. At(p, prev + i) = es[i]
      BY <1>2, <3>1
    <3>. QED BY <3>3, <3>6, <3>7
  <2>2. Differing(lg, prev, es) = {}
    BY <2>1
  <2>. QED BY <2>2 DEF Merge, prev, es
<1>10. End(p) <= Len(y) /\ y \in Seq(Entry)
  BY <1>1, <1>2, <1>4, <1>7
<1>11. \A i \in 1..prev : y[i] = lg[i]
  BY <1>4, <1>7
<1>12. \A i \in Nat : prev < i /\ i <= End(p) => y[i] = At(p, i)
  BY <1>4, <1>7, <1>8
<1>13. y = lg \/ Len(y) = End(p)
  BY <1>4, <1>8
<1>. QED BY <1>1, <1>2, <1>9, <1>10, <1>11, <1>12, <1>13

-----------------------------------------------------------------------------
(* Terms and votes. *)

\* Terms rise along a piece.
Rising(x) ==
  \A i, j \in Nat : x.base <= i /\ i <= j /\ j <= End(x) => TermIn(x, i) <= TermIn(x, j)

\* So they do along every log and every request.
RisingInv == \A x \in Pieces : Rising(x)

\* No entry is of a term ahead of the member that holds it.
BelowInv == \A n \in Node : \A i \in 1..Len(log[n]) : log[n][i].term <= currentTerm[n]

\* The last entry of a leader is of its term.
LeadsInv == \A n \in Node : role[n] = "leader" => HasLog(n, Len(log[n]), currentTerm[n])

\* So is the last entry that a request knows of.
SentInv == \A m \in AppendRequests : TermIn(SentPiece(m), End(SentPiece(m))) = m.term

\* Requests, and the successes that answer them, are of who leads their term for good.
Called(m) == m.type = "AppendRequest" \/ (m.type = "AppendReply" /\ m.success)
CalledInv == \A m \in rpcs : Called(m) => Decided(m.term, m.src)

\* A vote request describes the log of its sender, as long as that is its candidate.
AskedInv ==
  \A m \in rpcs : m.type = "VoteRequest" =>
    /\ m.term <= currentTerm[m.src]
    /\ m.term = currentTerm[m.src] /\ role[m.src] = "candidate" =>
         m.lastLogTerm = LastTerm(log[m.src]) /\ m.lastLogIndex = Len(log[m.src])

\* Nobody votes for a member in a term ahead of it.
VotesPast == \A v, c \in Node, t \in Nat : VotedFor(v, t, c) => t <= currentTerm[c]

\* All that terms say of logs, calls and votes.
TermsInv ==
  RisingInv /\ BelowInv /\ LeadsInv /\ SentInv /\ CalledInv /\ AskedInv /\ VotesPast

\* Terms only grow.
LEMMA TermsGrow ==
  ASSUME TypeOK, TypeOK', [Next]_vars, NEW n \in Node
  PROVE  currentTerm[n] \in Nat /\ currentTerm'[n] \in Nat /\ currentTerm[n] <= currentTerm'[n]
<1>1. currentTerm[n] \in Nat /\ currentTerm'[n] \in Nat
  BY DEF TypeOK
<1>. QED BY <1>1, VotesStandStep

\* A request at the log it is merged with.
LEMMA MergeContext ==
  ASSUME TypeInv, LogInv, NEW m \in AppendRequests, Merges(m)
  PROVE  /\ m \in AppendRequest /\ m.dst \in Node /\ log[m.dst] \in Seq(Entry) /\ m.term \in Nat
         /\ HasPrevious(m, log[m.dst]) /\ SentPiece(m) \in Pieces
         /\ Compatible(LogPiece(log[m.dst]), SentPiece(m))
         /\ log'[m.dst] = Merge(log[m.dst], m.prevLogIndex, m.entries)
         /\ currentTerm'[m.dst] = m.term
         /\ \A n \in Node \ {m.dst} : log'[n] = log[n]
<1>1. m \in AppendRequest /\ m.dst \in Node /\ log[m.dst] \in Seq(Entry) /\ m.term \in Nat
  BY PiecesType DEF TypeInv, TypeOK, AppendRequest
<1>2. SentPiece(m) \in Pieces /\ LogPiece(log[m.dst]) \in Pieces
  BY <1>1 DEF Pieces
<1>. QED BY <1>1, <1>2 DEF LogInv, MatchInv, Merges, TypeInv, TypeOK

\* Terms keep rising along each log and request.
LEMMA RisingStep ==
  ASSUME TypeInv, TypeOK', LogInv, RisingInv, BelowInv, [Next]_vars
  PROVE  RisingInv'
<1>0. \A n \in Node : /\ log[n] \in Seq(Entry) /\ Len(log[n]) \in Nat
                      /\ Rising(LogPiece(log[n])) /\ currentTerm[n] \in Nat
  BY LenProperties DEF TypeInv, TypeOK, RisingInv, Pieces
<1>1. ASSUME NEW n \in Node, NEW b \in Nat, b <= Len(log[n])
      PROVE  Rising(TailPiece(log[n], b))
  <2>. DEFINE l == LogPiece(log[n])
              x == TailPiece(log[n], b)
  <2>1. /\ l.base = 0 /\ End(l) = Len(log[n]) /\ \A i \in Nat : At(l, i) = log[n][i]
        /\ x.base = b /\ End(x) = Len(log[n]) /\ x.before = TermIn(l, b)
        /\ \A i \in Nat : b < i /\ i <= Len(log[n]) => At(x, i) = log[n][i]
    BY <1>0, <1>1, LogPieceIs, TailPieceIs
  <2>2. Rising(l)
    BY <1>0
  <2>. HIDE DEF l, x
  <2>3. \A i \in Nat : b <= i /\ i <= Len(log[n]) => TermIn(x, i) = TermIn(l, i)
    BY <2>1 DEF TermIn
  <2>4. Rising(x)
    BY <1>0, <2>1, <2>2, <2>3 DEF Rising
  <2>. QED BY <2>4 DEF x
<1>2. ASSUME NEW n \in Node, NEW e \in Entry, Extends(n, e)
      PROVE  Rising(LogPiece(Append(log[n], e)))
  <2>. DEFINE l == LogPiece(log[n])
              x == LogPiece(Append(log[n], e))
  <2>1. /\ Append(log[n], e) \in Seq(Entry) /\ Len(Append(log[n], e)) = Len(log[n]) + 1
        /\ \A i \in 1..Len(log[n]) : Append(log[n], e)[i] = log[n][i]
        /\ Append(log[n], e)[Len(log[n]) + 1] = e
    BY <1>0, AppendProperties
  <2>2. /\ l.base = 0 /\ End(l) = Len(log[n]) /\ l.before = 0 /\ \A i \in Nat : At(l, i) = log[n][i]
        /\ x.base = 0 /\ End(x) = Len(log[n]) + 1 /\ x.before = 0
        /\ \A i \in Nat : At(x, i) = Append(log[n], e)[i]
    BY <1>0, <2>1, LogPieceIs
  <2>3. e.term = currentTerm'[n] /\ currentTerm[n] <= currentTerm'[n] /\ currentTerm'[n] \in Nat
    BY <1>2, TermsGrow DEF Extends, TypeInv
  <2>4. Rising(l)
    BY <1>0
  <2>. HIDE DEF l, x
  <2>5. ASSUME NEW i \in Nat, i <= Len(log[n])
        PROVE  TermIn(x, i) = TermIn(l, i) /\ TermIn(l, i) <= e.term
    <3>1. CASE i = 0
      BY <2>2, <2>3, <3>1 DEF TermIn
    <3>2. CASE i # 0
      <4>1. i \in 1..Len(log[n]) /\ log[n][i] \in Entry
        BY <1>0, <2>5, <3>2, ElementOfSeq
      <4>2. log[n][i].term <= currentTerm[n] /\ log[n][i].term \in Nat
        BY <4>1 DEF BelowInv, Entry
      <4>3. TermIn(x, i) = log[n][i].term /\ TermIn(l, i) = log[n][i].term
        BY <2>1, <2>2, <3>2, <4>1 DEF TermIn
      <4>. QED BY <1>0, <2>3, <4>2, <4>3
    <3>. QED BY <3>1, <3>2
  <2>6. TermIn(x, Len(log[n]) + 1) = e.term
    BY <1>0, <2>1, <2>2 DEF TermIn
  <2>7. Rising(x)
    <3>. SUFFICES ASSUME NEW i \in Nat, NEW j \in Nat, i <= j, j <= Len(log[n]) + 1
                  PROVE  TermIn(x, i) <= TermIn(x, j)
      BY <2>2 DEF Rising
    <3>1. CASE j <= Len(log[n])
      BY <1>0, <2>2, <2>4, <2>5, <3>1 DEF Rising
    <3>2. CASE j = Len(log[n]) + 1 /\ i <= Len(log[n])
      BY <2>5, <2>6, <3>2
    <3>3. CASE j = Len(log[n]) + 1 /\ i = Len(log[n]) + 1
      BY <2>3, <2>6, <3>3
    <3>. QED BY <1>0, <3>1, <3>2, <3>3
  <2>. QED BY <2>7 DEF x
<1>3. ASSUME NEW m \in AppendRequests, Merges(m)
      PROVE  Rising(LogPiece(Merge(log[m.dst], m.prevLogIndex, m.entries)))
  <2>. DEFINE lg == log[m.dst]
              l == LogPiece(lg)
              p == SentPiece(m)
              y == Merge(lg, m.prevLogIndex, m.entries)
              x == LogPiece(y)
  <2>1. /\ m \in AppendRequest /\ m.dst \in Node /\ HasPrevious(m, lg) /\ p \in Pieces
        /\ Compatible(l, p)
    BY <1>3, MergeContext
  <2>2. /\ y \in Seq(Entry) /\ End(p) <= Len(y) /\ p.base <= Len(lg)
        /\ p \in Piece /\ p.before = TermAt(lg, p.base)
        /\ \A i \in 1..p.base : y[i] = lg[i]
        /\ \A i \in Nat : p.base < i /\ i <= End(p) => y[i] = At(p, i)
        /\ y = lg \/ Len(y) = End(p)
    BY <1>0, <2>1, MergeHolds
  <2>3. /\ l.base = 0 /\ l.before = 0 /\ End(l) = Len(lg) /\ \A i \in Nat : At(l, i) = lg[i]
        /\ TermIn(l, p.base) = TermAt(lg, p.base)
        /\ x.base = 0 /\ x.before = 0 /\ End(x) = Len(y) /\ \A i \in Nat : At(x, i) = y[i]
    BY <1>0, <2>1, <2>2, LogPieceIs, PieceType
  <2>4. Rising(l) /\ Rising(p) /\ Len(lg) \in Nat
    BY <1>0, <2>1 DEF RisingInv
  <2>5. p.base \in Nat /\ End(p) \in Nat /\ p.base <= End(p)
    BY <2>2, PieceType
  <2>6. CASE y = lg
    BY <2>4, <2>6
  <2>7. CASE Len(y) = End(p)
    <3>. HIDE DEF l, p, y, x, lg
    <3>1. ASSUME NEW i \in Nat, i <= p.base PROVE TermIn(x, i) = TermIn(l, i)
      BY <2>2, <2>3, <2>5, <3>1 DEF TermIn
    <3>2. ASSUME NEW i \in Nat, p.base <= i, i <= End(p) PROVE TermIn(x, i) = TermIn(p, i)
      <4>1. CASE i = p.base
        BY <2>2, <2>3, <3>1, <4>1 DEF TermIn
      <4>2. CASE i # p.base
        BY <2>2, <2>3, <2>5, <3>2, <4>2 DEF TermIn
      <4>. QED BY <4>1, <4>2
    <3>3. ASSUME NEW i \in Nat, TRUE PROVE TermIn(l, i) \in Int \/ ~(i <= p.base)
      <4>1. CASE i <= p.base
        <5>1. i <= Len(lg)
          BY <2>2, <2>4, <2>5, <4>1
        <5>2. lg \in Seq(Entry)
          BY <1>0, <2>1 DEF lg
        <5>3. TermIn(l, i) = TermAt(lg, i) /\ TermAt(lg, i) \in Nat
          BY <5>1, <5>2, LogPieceIs, TermAtType DEF l
        <5>. QED BY <5>3
      <4>. QED BY <4>1
    <3>4. ASSUME NEW i \in Nat, p.base <= i, i <= End(p) PROVE TermIn(p, i) \in Int
      <4>1. CASE i = p.base
        BY <2>2, <4>1 DEF TermIn, Piece
      <4>2. CASE i # p.base
        <5>1. At(p, i) \in Entry /\ TermIn(p, i) = At(p, i).term
          BY <2>2, <2>5, <3>4, <4>2, PieceType
        <5>. QED BY <5>1 DEF Entry
      <4>. QED BY <4>1, <4>2
    <3>5. ASSUME NEW i \in Nat, NEW j \in Nat, i <= j, j <= End(p) PROVE TermIn(x, i) <= TermIn(x, j)
      <4>1. CASE j <= p.base
        <5>1. TermIn(l, i) <= TermIn(l, j)
          BY <2>2, <2>3, <2>4, <2>5, <3>5, <4>1 DEF Rising
        <5>. QED BY <2>5, <3>1, <3>5, <4>1, <5>1
      <4>2. CASE p.base <= i
        <5>1. TermIn(p, i) <= TermIn(p, j)
          BY <2>4, <2>5, <3>5, <4>2 DEF Rising
        <5>. QED BY <2>5, <3>2, <3>5, <4>2, <5>1
      <4>3. CASE i <= p.base /\ p.base <= j
        <5>1. TermIn(l, i) <= TermIn(l, p.base)
          BY <2>2, <2>3, <2>4, <2>5, <4>3 DEF Rising
        <5>2. TermIn(p, p.base) <= TermIn(p, j)
          BY <2>4, <2>5, <3>5, <4>3 DEF Rising
        <5>3. TermIn(l, p.base) = TermIn(p, p.base)
          BY <2>2, <2>3 DEF TermIn
        <5>4. TermIn(l, i) \in Int /\ TermIn(p, p.base) \in Int /\ TermIn(p, j) \in Int
          BY <2>5, <3>3, <3>4, <3>5, <4>3
        <5>5. TermIn(x, i) = TermIn(l, i) /\ TermIn(x, j) = TermIn(p, j)
          BY <3>1, <3>2, <3>5, <4>3
        <5>. QED BY <5>1, <5>2, <5>3, <5>4, <5>5
      <4>. QED BY <2>5, <4>1, <4>2, <4>3
    <3>6. Rising(x)
      BY <2>3, <2>7, <3>5 DEF Rising
    <3>. QED BY <3>6 DEF x, y, lg
  <2>. HIDE DEF y
  <2>. QED BY <2>2, <2>6, <2>7 DEF y
<1>4. \A x \in Pieces : Rising(x)
  BY DEF RisingInv
<1>5. \A x \in Pieces' : Rising(x)
  BY <1>1, <1>2, <1>3, <1>4, PieceSources
<1>. QED BY <1>5 DEF RisingInv

\* No log gets ahead of the term of its member.
LEMMA BelowStep ==
  ASSUME TypeInv, TypeOK', LogInv, RisingInv, BelowInv, SentInv, [Next]_vars
  PROVE  BelowInv'
<1>. SUFFICES ASSUME NEW n \in Node, NEW i \in 1..Len(log'[n])
              PROVE  log'[n][i].term <= currentTerm'[n]
  BY DEF BelowInv
<1>1. /\ log[n] \in Seq(Entry) /\ Len(log[n]) \in Nat
      /\ log'[n] \in Seq(Entry) /\ Len(log'[n]) \in Nat /\ log'[n][i].term \in Nat
  <2>1. log'[n] \in Seq(Entry)
    BY DEF TypeOK
  <2>2. log'[n][i] \in Entry
    BY <2>1, ElementOfSeq
  <2>. QED BY <2>1, <2>2, LenProperties DEF TypeInv, TypeOK, Entry
<1>2. currentTerm[n] \in Nat /\ currentTerm'[n] \in Nat /\ currentTerm[n] <= currentTerm'[n]
  BY TermsGrow DEF TypeInv
<1>3. ASSUME i <= Len(log[n]), log'[n][i] = log[n][i] PROVE log'[n][i].term <= currentTerm'[n]
  <2>1. log[n][i].term <= currentTerm[n]
    BY <1>1, <1>3 DEF BelowInv
  <2>. QED BY <1>1, <1>2, <1>3, <2>1
<1>4. CASE Sends
  BY <1>1, <1>3, <1>4 DEF Sends
<1>5. ASSUME NEW k \in Node, NEW e \in Entry, Extends(k, e) PROVE log'[n][i].term <= currentTerm'[n]
  <2>1. CASE n # k
    BY <1>1, <1>3, <1>5, <2>1 DEF Extends, TypeInv, TypeOK
  <2>2. CASE n = k
    <3>1. log'[n] = Append(log[n], e) /\ e.term = currentTerm'[n]
      BY <1>5, <2>2 DEF Extends, TypeInv, TypeOK
    <3>2. /\ Len(log'[n]) = Len(log[n]) + 1 /\ log'[n][Len(log[n]) + 1] = e
          /\ \A j \in 1..Len(log[n]) : log'[n][j] = log[n][j]
      BY <1>1, <3>1, AppendProperties
    <3>3. CASE i <= Len(log[n])
      BY <1>3, <3>2, <3>3
    <3>4. CASE i = Len(log[n]) + 1
      BY <1>2, <3>1, <3>2, <3>4
    <3>. QED BY <1>1, <3>2, <3>3, <3>4
  <2>. QED BY <2>1, <2>2
<1>6. ASSUME NEW m \in AppendRequests, Merges(m) PROVE log'[n][i].term <= currentTerm'[n]
  <2>. DEFINE p == SentPiece(m)
  <2>1. /\ m \in AppendRequest /\ m.dst \in Node /\ log[m.dst] \in Seq(Entry)
        /\ HasPrevious(m, log[m.dst]) /\ p \in Pieces
        /\ Compatible(LogPiece(log[m.dst]), p)
        /\ log'[m.dst] = Merge(log[m.dst], m.prevLogIndex, m.entries)
        /\ currentTerm'[m.dst] = m.term
        /\ \A k \in Node \ {m.dst} : log'[k] = log[k]
    BY <1>6, MergeContext
  <2>2. CASE n # m.dst
    BY <1>1, <1>3, <2>1, <2>2
  <2>3. CASE n = m.dst
    <3>1. /\ p.base <= Len(log[n]) /\ p \in Piece
          /\ \A j \in 1..p.base : log'[n][j] = log[n][j]
          /\ \A j \in Nat : p.base < j /\ j <= End(p) => log'[n][j] = At(p, j)
          /\ log'[n] = log[n] \/ Len(log'[n]) = End(p)
      BY <2>1, <2>3, MergeHolds
    <3>2. p.base \in Nat /\ End(p) \in Nat /\ p.base <= End(p)
      BY <3>1, PieceType
    <3>3. Rising(p) /\ TermIn(p, End(p)) = m.term
      BY <2>1 DEF RisingInv, SentInv
    <3>. HIDE DEF p
    <3>4. CASE log'[n] = log[n] \/ i <= p.base
      BY <1>1, <1>3, <3>1, <3>2, <3>4
    <3>5. CASE p.base < i /\ i <= End(p)
      <4>1. log'[n][i] = At(p, i) /\ TermIn(p, i) = At(p, i).term
        BY <3>1, <3>5, PieceType
      <4>2. TermIn(p, i) <= TermIn(p, End(p))
        BY <3>2, <3>3, <3>5 DEF Rising
      <4>. QED BY <2>1, <2>3, <3>3, <4>1, <4>2
    <3>. QED BY <1>1, <3>1, <3>2, <3>4, <3>5
  <2>. QED BY <2>2, <2>3
<1>. QED BY <1>4, <1>5, <1>6, LogSteps

\* A leader keeps an entry of its own term at the end.
LEMMA LeadsStep ==
  ASSUME TypeInv, LeadsInv, [Next]_vars
  PROVE  LeadsInv'
<1>. SUFFICES ASSUME NEW n \in Node, role'[n] = "leader"
              PROVE  HasLog(n, Len(log[n]), currentTerm[n])'
  BY DEF LeadsInv
<1>1. currentTerm'[n] = currentTerm[n] /\ log[n] \in Seq(Entry) /\ Len(log[n]) \in Nat
  BY RoleSteps, LenProperties DEF TypeInv, TypeOK
<1>2. ASSUME NEW e \in Entry, e.term = currentTerm[n], log'[n] = Append(log[n], e)
      PROVE  HasLog(n, Len(log[n]), currentTerm[n])'
  <2>1. Len(log'[n]) = Len(log[n]) + 1 /\ log'[n][Len(log[n]) + 1] = e
    BY <1>1, <1>2, AppendProperties
  <2>. QED BY <1>1, <1>2, <2>1 DEF HasLog
<1>3. CASE role[n] # "leader"
  <2>. DEFINE e == [term |-> currentTerm[n], command |-> NoOp]
  <2>1. e \in Entry /\ e.term = currentTerm[n]
    BY DEF Entry, TypeInv, TypeOK
  <2>2. log'[n] = Append(log[n], e)
    BY <1>3, ElectionSources
  <2>. HIDE DEF e
  <2>. QED BY <1>2, <2>1, <2>2
<1>4. CASE role[n] = "leader" /\ log'[n] = log[n]
  BY <1>1, <1>4 DEF LeadsInv, HasLog
<1>5. CASE role[n] = "leader" /\ Sends
  BY <1>4, <1>5 DEF Sends
<1>6. ASSUME role[n] = "leader", NEW k \in Node, NEW e \in Entry, Extends(k, e)
      PROVE  HasLog(n, Len(log[n]), currentTerm[n])'
  <2>1. CASE k = n
    BY <1>1, <1>2, <1>6, <2>1 DEF Extends, TypeInv, TypeOK
  <2>2. CASE k # n
    BY <1>4, <1>6, <2>2 DEF Extends, TypeInv, TypeOK
  <2>. QED BY <2>1, <2>2
<1>7. ASSUME role[n] = "leader", NEW m \in AppendRequests, Merges(m)
      PROVE  HasLog(n, Len(log[n]), currentTerm[n])'
  <2>1. m.dst # n
    BY <1>7 DEF Merges
  <2>2. log'[n] = log[n]
    BY <1>7, <2>1 DEF Merges, TypeInv, TypeOK
  <2>. QED BY <1>4, <1>7, <2>2
<1>. QED BY <1>3, <1>5, <1>6, <1>7, LogSteps

\* What is sent ends in the sender's term.
LEMMA SentStep ==
  ASSUME TypeInv, LeadsInv, SentInv, [Next]_vars
  PROVE  SentInv'
<1>. SUFFICES ASSUME NEW a \in AppendRequests', a \notin AppendRequests
              PROVE  TermIn(SentPiece(a), End(SentPiece(a))) = a.term
  BY DEF SentInv
<1>1. PICK n \in Node, b \in Nat :
           /\ role[n] = "leader" /\ a.term = currentTerm[n]
           /\ b <= Len(log[n]) /\ SentPiece(a) = TailPiece(log[n], b)
  BY RequestSources
<1>. DEFINE x == TailPiece(log[n], b)
<1>2. log[n] \in Seq(Entry) /\ Len(log[n]) \in Nat
  BY LenProperties DEF TypeInv, TypeOK
<1>3. Len(log[n]) > 0 /\ log[n][Len(log[n])].term = currentTerm[n]
  BY <1>1, <1>2 DEF LeadsInv, HasLog
<1>4. /\ End(x) = Len(log[n]) /\ x.base = b /\ x.before = TermAt(log[n], b)
      /\ \A i \in Nat : b < i /\ i <= Len(log[n]) => At(x, i) = log[n][i]
  BY <1>1, <1>2, TailPieceIs, LogPieceIs
<1>. HIDE DEF x
<1>5. CASE b = Len(log[n])
  BY <1>1, <1>2, <1>3, <1>4, <1>5 DEF TermIn, TermAt, x
<1>6. CASE b # Len(log[n])
  BY <1>1, <1>2, <1>3, <1>4, <1>6 DEF TermIn, x
<1>. QED BY <1>5, <1>6

\* Requests and successes come of terms that are decided.
LEMMA CalledStep ==
  ASSUME TypeInv, TypeOK', ElectionInv, CalledInv, [Next]_vars
  PROVE  CalledInv'
<1>. SUFFICES ASSUME NEW a \in rpcs', Called(a) PROVE Decided(a.term, a.src)'
  BY DEF CalledInv, Called
<1>1. ASSUME NEW m \in rpcs, Called(m), a.term = m.term, a.src = m.src
      PROVE  Decided(a.term, a.src)'
  <2>1. m.term \in Nat /\ m.src \in Node
    BY RpcKinds DEF TypeInv, TypeOK
  <2>2. Decided(m.term, m.src)
    BY <1>1 DEF CalledInv
  <2>3. Decided(m.term, m.src)'
    BY <2>1, <2>2, DecidedStays DEF TypeInv
  <2>. QED BY <1>1, <2>3
<1>2. CASE a \in rpcs
  BY <1>1, <1>2
<1>3. CASE a \notin rpcs /\ a.type = "AppendRequest"
  <2>1. a \in AppendRequests' /\ a \notin AppendRequests
    BY <1>3 DEF AppendRequests
  <2>2. PICK n \in Node : role[n] = "leader" /\ a.src = n /\ a.term = currentTerm[n]
    BY <2>1, RequestSources
  <2>3. Decided(a.term, n)
    BY <2>2, LeaderDecided DEF TypeInv
  <2>4. a.term \in Nat
    BY <2>2 DEF TypeInv, TypeOK
  <2>5. Decided(a.term, n)'
    BY <2>3, <2>4, DecidedStays DEF TypeInv
  <2>. QED BY <2>2, <2>5
<1>4. CASE a \notin rpcs /\ a.type = "AppendReply" /\ a.success
  <2>1. PICK m \in AppendRequests : a.src = m.src /\ a.term = m.term
    BY <1>4, ReplySources
  <2>. QED BY <1>1, <2>1 DEF AppendRequests, Called
<1>. QED BY <1>2, <1>3, <1>4 DEF Called

\* A vote request that is new describes the log of its sender.
LEMMA AskSources ==
  ASSUME TypeInv, [Next]_vars,
         NEW a \in rpcs', a \notin rpcs, a.type = "VoteRequest"
  PROVE  /\ a.term = currentTerm'[a.src] /\ log' = log
         /\ a.lastLogTerm = LastTerm(log[a.src]) /\ a.lastLogIndex = Len(log[a.src])
<1>. DEFINE Goal == /\ a.term = currentTerm'[a.src] /\ log' = log
                    /\ a.lastLogTerm = LastTerm(log[a.src]) /\ a.lastLogIndex = Len(log[a.src])
<1>1. ASSUME NEW n \in Node, StartElection(n) PROVE Goal
  <2>1. PICK p \in Peers(n) :
          a = [type |-> "VoteRequest", src |-> n, dst |-> p, term |-> currentTerm[n] + 1,
               lastLogTerm |-> LastTerm(log[n]), lastLogIndex |-> LastIndex(log[n])]
    BY <1>1 DEF StartElection
  <2>2. currentTerm'[n] = currentTerm[n] + 1 /\ log' = log
    BY <1>1 DEF StartElection, logVars, TypeInv, TypeOK
  <2>. QED BY <2>1, <2>2 DEF LastIndex
<1>2. ASSUME NEW m \in rpcs, HandleRequestVote(m) \/ HandleAppendEntries(m) PROVE FALSE
  <2>1. CASE HandleRequestVote(m)
    BY <2>1 DEF HandleRequestVote, Answer
  <2>2. CASE HandleAppendEntries(m)
    BY <2>2 DEF HandleAppendEntries, Answer
  <2>. QED BY <1>2, <2>1, <2>2
<1>3. ASSUME NEW m \in rpcs, ReceiveVoteReply(m) \/ ReceiveAppendReply(m) \/ Lose(m) PROVE FALSE
  BY <1>3 DEF ReceiveVoteReply, ReceiveAppendReply, Lose
<1>4. ASSUME NEW n \in Node, NEW p \in Node, ReplicateTo(n, p) PROVE FALSE
  BY <1>4 DEF ReplicateTo
<1>5. ASSUME \/ \E n \in Node : \/ Applier(n) \/ Crash(n) \/ Restart(n)
                                \/ \E cmd \in Command : Propose(n, cmd)
             \/ UNCHANGED vars
      PROVE  rpcs' \subseteq rpcs
  BY <1>5 DEF Applier, Crash, Restart, Propose, vars
<1>. HIDE DEF Goal
<1>6. Goal
  BY <1>1, <1>2, <1>3, <1>4, <1>5 DEF Next, GroupStep
<1>. QED BY <1>6 DEF Goal

\* Requests for votes stay behind the logs of who asks.
LEMMA AskedStep ==
  ASSUME TypeInv, TypeOK', AskedInv, [Next]_vars
  PROVE  AskedInv'
<1>. SUFFICES ASSUME NEW m \in rpcs', m.type = "VoteRequest"
              PROVE  /\ m.term <= currentTerm'[m.src]
                     /\ m.term = currentTerm'[m.src] /\ role'[m.src] = "candidate" =>
                          m.lastLogTerm = LastTerm(log'[m.src]) /\ m.lastLogIndex = Len(log'[m.src])
  BY DEF AskedInv
<1>1. m.src \in Node /\ m.term \in Nat
  BY RpcKinds DEF TypeOK
<1>2. /\ currentTerm[m.src] \in Nat /\ currentTerm'[m.src] \in Nat
      /\ currentTerm[m.src] <= currentTerm'[m.src]
  BY <1>1, TermsGrow DEF TypeInv
<1>3. CASE m \notin rpcs
  BY <1>2, <1>3, AskSources
<1>4. CASE m \in rpcs
  <2>1. /\ m.term <= currentTerm[m.src]
        /\ m.term = currentTerm[m.src] /\ role[m.src] = "candidate" =>
                m.lastLogTerm = LastTerm(log[m.src]) /\ m.lastLogIndex = Len(log[m.src])
    BY <1>4 DEF AskedInv
  <2>2. ASSUME m.term = currentTerm'[m.src], role'[m.src] = "candidate"
        PROVE  m.lastLogTerm = LastTerm(log'[m.src]) /\ m.lastLogIndex = Len(log'[m.src])
    <3>1. \/ currentTerm'[m.src] = currentTerm[m.src] /\ role[m.src] = "candidate"
          \/ currentTerm'[m.src] > currentTerm[m.src]
      BY <1>1, <2>2, RoleSteps DEF TypeInv
    <3>2. currentTerm'[m.src] = currentTerm[m.src] /\ role[m.src] = "candidate"
      BY <1>1, <1>2, <2>1, <2>2, <3>1
    <3>3. log'[m.src] = log[m.src]
      BY <1>1, <2>2, CandidateLog
    <3>. QED BY <2>1, <2>2, <3>2, <3>3
  <2>. QED BY <1>1, <1>2, <2>1, <2>2
<1>. QED BY <1>3, <1>4

\* Votes are for terms their candidate got to.
LEMMA VotesPastStep ==
  ASSUME TypeInv, TypeOK', AskedInv, VotesPast, [Next]_vars
  PROVE  VotesPast'
<1>. SUFFICES ASSUME NEW v \in Node, NEW c \in Node, NEW t \in Nat, VotedFor(v, t, c)'
              PROVE  t <= currentTerm'[c]
  BY DEF VotesPast
<1>1. currentTerm[c] \in Nat /\ currentTerm'[c] \in Nat /\ currentTerm[c] <= currentTerm'[c]
  BY TermsGrow DEF TypeInv
<1>2. CASE VotedFor(v, t, c)
  <2>1. t <= currentTerm[c]
    BY <1>2 DEF VotesPast
  <2>. QED BY <1>1, <2>1
<1>3. CASE currentTerm'[c] = t
  BY <1>1, <1>3
<1>4. CASE \E m \in rpcs : m.type = "VoteRequest" /\ m.src = c /\ m.term = t
  <2>1. t <= currentTerm[c]
    BY <1>4 DEF AskedInv
  <2>. QED BY <1>1, <2>1
<1>. QED BY <1>2, <1>3, <1>4, VoteSources

\* There is nothing to rise in a group that starts.
LEMMA TermsInit == Init => TermsInv
<1>. SUFFICES ASSUME Init PROVE TermsInv
  OBVIOUS
<1>1. rpcs = {} /\ \A n \in Node : log[n] = << >> /\ role[n] = "follower"
  BY DEF Init
<1>2. AppendRequests = {}
  BY <1>1 DEF AppendRequests
<1>3. Len(<< >>) = 0
  BY EmptySeq
<1>4. RisingInv
  <2>. SUFFICES ASSUME NEW n \in Node PROVE Rising(LogPiece(log[n]))
    BY <1>2 DEF RisingInv, Pieces
  <2>. QED BY <1>1, <1>3 DEF Rising, LogPiece, End, TermIn
<1>5. BelowInv /\ LeadsInv
  BY <1>1, <1>3 DEF BelowInv, LeadsInv
<1>6. SentInv /\ CalledInv /\ AskedInv
  BY <1>1, <1>2 DEF SentInv, CalledInv, AskedInv
<1>7. VotesPast
  <2>1. \A v, c \in Node, t \in Nat : ~VotedFor(v, t, c)
    BY NodeAssumption DEF Init, VotedFor
  <2>. QED BY <2>1 DEF VotesPast
<1>. QED BY <1>4, <1>5, <1>6, <1>7 DEF TermsInv

\* Every step keeps all of it.
LEMMA TermsStep ==
  ASSUME TypeInv, TypeOK', ElectionInv, LogInv, TermsInv, [Next]_vars
  PROVE  TermsInv'
<1>1. RisingInv /\ BelowInv /\ LeadsInv /\ SentInv /\ CalledInv /\ AskedInv /\ VotesPast
  BY DEF TermsInv
<1>. QED BY <1>1, RisingStep, BelowStep, LeadsStep, SentStep, CalledStep, AskedStep, VotesPastStep
         DEF TermsInv

-----------------------------------------------------------------------------
(* The entries of one term stand side by side. *)

\* If y has an entry of some term at i, then from i on x has no other term before its
\* own entries of that term.
SameTerm(x, y) ==
  \A i, b, t \in Nat : Has(y, i, t) /\ Has(x, b, t) =>
     \A j \in Nat : i <= j /\ x.base <= j /\ j <= b => TermIn(x, j) = t

\* Any two logs or requests share each term like that.
SameTermInv == \A x, y \in Pieces : SameTerm(x, y)

\* What is so where the term has a leader: it holds all of it.
LEMMA SameTermLed ==
  ASSUME TypeOK, HoldsInv, MatchInv, RisingInv, NEW k \in Node, role[k] = "leader",
         NEW x \in Pieces, NEW y \in Pieces, NEW i \in Nat, NEW b \in Nat,
         Has(y, i, currentTerm[k]), Has(x, b, currentTerm[k]),
         NEW j \in Nat, i <= j, x.base <= j, j <= b
  PROVE  TermIn(x, j) = currentTerm[k]
<1>. DEFINE l == LogPiece(log[k])
            t == currentTerm[k]
<1>1. log[k] \in Seq(Entry) /\ Len(log[k]) \in Nat /\ x \in Piece /\ y \in Piece /\ t \in Nat
  BY PiecesType, LenProperties DEF TypeOK
<1>2. /\ l \in Pieces /\ l.base = 0 /\ End(l) = Len(log[k])
      /\ \A h \in Nat : At(l, h) = log[k][h] /\ TermIn(l, h) = TermAt(log[k], h)
  BY <1>1, LogPieceIs DEF Pieces
<1>3. x.base \in Nat /\ y.base \in Nat /\ 0 < i /\ x.base < b /\ b <= End(x)
  BY <1>1, PieceType DEF Has
<1>4. i <= Len(log[k]) /\ log[k][i].term = t /\ b <= Len(log[k]) /\ log[k][b].term = t
  BY DEF HoldsInv, Has
<1>5. TermIn(l, i) = t /\ TermIn(l, b) = t
  BY <1>2, <1>3, <1>4 DEF TermAt
<1>6. TermIn(l, j) = t
  <2>1. Rising(l)
    BY <1>2 DEF RisingInv
  <2>2. TermIn(l, i) <= TermIn(l, j) /\ TermIn(l, j) <= TermIn(l, b)
    BY <1>2, <1>3, <1>4, <2>1 DEF Rising
  <2>3. TermIn(l, j) \in Nat
    <3>1. j <= Len(log[k])
      BY <1>1, <1>4
    <3>. QED BY <1>1, <1>2, <3>1, TermAtType
  <2>. QED BY <1>1, <1>5, <2>2, <2>3
<1>7. b \in Both(x, l) /\ At(x, b).term = At(l, b).term
  BY <1>2, <1>3, <1>4 DEF Both, Has
<1>8. Compatible(x, l)
  BY <1>2 DEF MatchInv
<1>9. CASE j = x.base
  BY <1>2, <1>3, <1>6, <1>7, <1>8, <1>9 DEF Compatible, TermIn
<1>10. CASE j # x.base
  <2>1. j \in Both(x, l)
    BY <1>1, <1>2, <1>3, <1>4, <1>10, PieceType DEF Both
  <2>2. At(x, j) = At(l, j)
    BY <1>7, <1>8, <2>1 DEF Compatible
  <2>. QED BY <1>2, <1>3, <1>6, <1>10, <2>2 DEF TermIn
<1>. QED BY <1>9, <1>10

\* The same, said of every leader, so that it can be said of the state after a step.
SameTermNext == TypeOK /\ LogInv /\ RisingInv =>
  \A k \in Node : role[k] = "leader" =>
    \A x, y \in Pieces : \A i, b \in Nat :
      Has(y, i, currentTerm[k]) /\ Has(x, b, currentTerm[k]) =>
        \A j \in Nat : i <= j /\ x.base <= j /\ j <= b => TermIn(x, j) = currentTerm[k]

\* It holds after a step.
LEMMA SameTermLedNext == SameTermNext'
<1>1. SameTermNext
  BY SameTermLed DEF SameTermNext, LogInv
<1>. QED BY <1>1, PTL

\* Every step keeps the entries of a term side by side.
LEMMA SameTermStep ==
  ASSUME TypeInv, TypeOK', LogInv, LogInv', RisingInv', SameTermInv, [Next]_vars
  PROVE  SameTermInv'
<1>. SUFFICES ASSUME NEW x \in Pieces', NEW y \in Pieces',
                     NEW i \in Nat, NEW b \in Nat, NEW t \in Nat, Has(y, i, t), Has(x, b, t),
                     NEW j \in Nat, i <= j, x.base <= j, j <= b
              PROVE  TermIn(x, j) = t
  BY DEF SameTermInv, SameTerm
<1>1. CASE \E k \in Node : role'[k] = "leader" /\ currentTerm'[k] = t
  BY <1>1, SameTermLedNext DEF SameTermNext
<1>2. CASE ~ \E k \in Node : role'[k] = "leader" /\ currentTerm'[k] = t
  <2>1. PICK z \in Pieces : Has(z, i, t)
    BY <1>2, EntrySources DEF LogInv, Has
  <2>2. \A w \in Pieces : Has(w, b, t) /\ w.base <= j => TermIn(w, j) = t
    BY <2>1 DEF SameTermInv, SameTerm
  <2>3. z \in Piece /\ z.base \in Nat /\ 0 < i
    BY <2>1, PiecesType, PieceType DEF Has, TypeInv
  <2>4. \A n \in Node : /\ log[n] \in Seq(Entry) /\ Len(log[n]) \in Nat
                        /\ LogPiece(log[n]) \in Pieces
    BY LenProperties DEF TypeInv, TypeOK, Pieces
  <2>5. ASSUME NEW n \in Node, NEW c \in Nat, c <= Len(log[n]), x = TailPiece(log[n], c)
        PROVE  TermIn(x, j) = t
    <3>. DEFINE l == LogPiece(log[n])
    <3>1. /\ l.base = 0 /\ End(l) = Len(log[n]) /\ \A h \in Nat : At(l, h) = log[n][h]
          /\ x.base = c /\ End(x) = Len(log[n]) /\ x.before = TermIn(l, c)
          /\ \A h \in Nat : c < h /\ h <= Len(log[n]) => At(x, h) = log[n][h]
      BY <2>4, <2>5, LogPieceIs, TailPieceIs
    <3>. HIDE DEF l
    <3>2. Has(l, b, t)
      BY <3>1 DEF Has
    <3>3. TermIn(l, j) = t
      BY <2>2, <2>4, <3>1, <3>2 DEF l
    <3>4. CASE j = c
      BY <3>1, <3>3, <3>4 DEF TermIn
    <3>5. CASE j # c
      <4>1. j <= Len(log[n]) /\ c < j
        BY <2>4, <3>1, <3>5 DEF Has
      <4>. QED BY <2>3, <3>1, <3>3, <3>5, <4>1 DEF TermIn
    <3>. QED BY <3>4, <3>5
  <2>6. ASSUME NEW n \in Node, NEW e \in Entry, Extends(n, e), x = LogPiece(Append(log[n], e))
        PROVE  TermIn(x, j) = t
    <3>. DEFINE l == LogPiece(log[n])
    <3>1. /\ Append(log[n], e) \in Seq(Entry) /\ Len(Append(log[n], e)) = Len(log[n]) + 1
          /\ \A h \in 1..Len(log[n]) : Append(log[n], e)[h] = log[n][h]
          /\ Append(log[n], e)[Len(log[n]) + 1] = e
      BY <2>4, AppendProperties
    <3>2. /\ l.base = 0 /\ End(l) = Len(log[n]) /\ \A h \in Nat : At(l, h) = log[n][h]
          /\ x.base = 0 /\ End(x) = Len(log[n]) + 1
          /\ \A h \in Nat : At(x, h) = Append(log[n], e)[h]
      BY <2>4, <2>6, <3>1, LogPieceIs
    <3>3. e.term # t
      BY <1>2, <2>6 DEF Extends
    <3>. HIDE DEF l
    <3>4. b # Len(log[n]) + 1
      BY <2>4, <3>1, <3>2, <3>3 DEF Has
    <3>5. b <= Len(log[n]) /\ 0 < b
      BY <2>4, <3>2, <3>4 DEF Has
    <3>6. Has(l, b, t)
      BY <3>1, <3>2, <3>5 DEF Has
    <3>7. TermIn(l, j) = t
      BY <2>2, <2>4, <3>2, <3>6 DEF l
    <3>. QED BY <2>3, <2>4, <3>1, <3>2, <3>5, <3>7 DEF TermIn
  <2>7. ASSUME NEW m \in AppendRequests, Merges(m),
               x = LogPiece(Merge(log[m.dst], m.prevLogIndex, m.entries))
        PROVE  TermIn(x, j) = t
    <3>. DEFINE lg == log[m.dst]
                l == LogPiece(lg)
                p == SentPiece(m)
                w == Merge(lg, m.prevLogIndex, m.entries)
    <3>1. /\ m \in AppendRequest /\ m.dst \in Node /\ HasPrevious(m, lg) /\ p \in Pieces
          /\ Compatible(l, p)
      BY <2>7, MergeContext
    <3>2. /\ w \in Seq(Entry) /\ End(p) <= Len(w) /\ p.base <= Len(lg)
          /\ p \in Piece /\ p.before = TermAt(lg, p.base)
          /\ \A h \in 1..p.base : w[h] = lg[h]
          /\ \A h \in Nat : p.base < h /\ h <= End(p) => w[h] = At(p, h)
          /\ w = lg \/ Len(w) = End(p)
      BY <2>4, <3>1, MergeHolds
    <3>3. /\ l \in Pieces /\ l.base = 0 /\ End(l) = Len(lg) /\ \A h \in Nat : At(l, h) = lg[h]
          /\ TermIn(l, p.base) = TermAt(lg, p.base)
          /\ x.base = 0 /\ End(x) = Len(w) /\ \A h \in Nat : At(x, h) = w[h]
      BY <2>4, <2>7, <3>1, <3>2, LogPieceIs, PieceType
    <3>4. p.base \in Nat /\ End(p) \in Nat /\ p.base <= End(p)
      BY <3>2, PieceType
    <3>5. Len(lg) \in Nat
      BY <2>4, <3>1
    <3>6. CASE w = lg
      BY <2>2, <2>7, <3>3, <3>6
    <3>7. CASE Len(w) = End(p)
      <4>. HIDE DEF l, p, w, lg
      <4>1. b <= End(p) /\ 0 < b /\ 0 < j /\ w[b].term = t /\ TermIn(x, j) = w[j].term
        BY <2>3, <3>3, <3>7 DEF Has, TermIn
      <4>2. CASE b <= p.base
        <5>1. Has(l, b, t)
          BY <3>2, <3>3, <3>4, <3>5, <4>1, <4>2 DEF Has
        <5>2. TermIn(l, j) = t
          BY <2>2, <3>3, <5>1
        <5>3. w[j] = lg[j]
          BY <3>2, <3>4, <4>1, <4>2
        <5>. QED BY <3>3, <4>1, <5>2, <5>3 DEF TermIn
      <4>3. CASE p.base < b
        <5>1. Has(p, b, t)
          BY <3>2, <4>1, <4>3 DEF Has
        <5>2. CASE p.base < j
          <6>1. TermIn(p, j) = t
            BY <2>2, <3>1, <3>4, <5>1, <5>2
          <6>2. w[j] = At(p, j)
            BY <3>2, <3>4, <4>1, <5>2
          <6>. QED BY <3>4, <4>1, <5>2, <6>1, <6>2 DEF TermIn
        <5>3. CASE j <= p.base
          <6>1. TermIn(p, p.base) = t
            <7>1. i <= p.base /\ p.base <= b
              BY <3>4, <4>3, <5>3
            <7>. QED BY <2>1, <3>1, <3>4, <5>1, <7>1 DEF SameTermInv, SameTerm
          <6>2. TermIn(l, p.base) = t /\ 0 < p.base
            BY <3>2, <3>3, <3>4, <4>1, <5>3, <6>1 DEF TermIn
          <6>3. Has(l, p.base, t)
            BY <3>2, <3>3, <3>4, <6>2 DEF Has, TermIn
          <6>4. TermIn(l, j) = t
            BY <2>1, <3>3, <3>4, <5>3, <6>3 DEF SameTermInv, SameTerm
          <6>5. w[j] = lg[j]
            BY <3>2, <3>4, <4>1, <5>3
          <6>. QED BY <3>3, <4>1, <6>4, <6>5 DEF TermIn
        <5>. QED BY <3>4, <5>2, <5>3
      <4>. QED BY <3>4, <4>2, <4>3
    <3>. HIDE DEF w
    <3>. QED BY <3>2, <3>6, <3>7
  <2>8. CASE x \in Pieces
    BY <2>2, <2>8
  <2>. QED BY <2>5, <2>6, <2>7, <2>8, PieceSources
<1>. QED BY <1>1, <1>2

\* A group starts without entries.
LEMMA NoEntryAtFirst == Init => \A x \in Pieces : \A i, t \in Nat : ~Has(x, i, t)
<1>. SUFFICES ASSUME Init, NEW x \in Pieces, NEW i \in Nat, NEW t \in Nat, Has(x, i, t) PROVE FALSE
  OBVIOUS
<1>1. rpcs = {} /\ \A n \in Node : log[n] = << >>
  BY DEF Init
<1>2. PICK n \in Node : x = LogPiece(log[n])
  BY <1>1 DEF Pieces, AppendRequests
<1>3. End(x) = 0 /\ x.base = 0
  BY <1>1, <1>2, EmptySeq, LogPieceIs
<1>. QED BY <1>3 DEF Has

\* Nothing contradicts it at first.
LEMMA SameTermInit == Init => SameTermInv
  BY NoEntryAtFirst DEF SameTermInv, SameTerm

-----------------------------------------------------------------------------
(* What a member keeps. *)

\* A member that merges a request keeps all it had up to an entry that the request is
\* of the same term as, starts after or carries itself.
LEMMA MergeKeeps ==
  ASSUME TypeInv, LogInv, SentInv, SameTermInv, NEW m \in AppendRequests, Merges(m),
         NEW i \in Nat, NEW t \in Nat, HasLog(m.dst, i, t),
         m.term = t \/ i <= SentPiece(m).base \/ Has(SentPiece(m), i, t)
  PROVE  HasLog(m.dst, i, t)' /\ \A j \in 1..i : log'[m.dst][j] = log[m.dst][j]
<1>. DEFINE v == m.dst
            l == LogPiece(log[v])
            p == SentPiece(m)
            Goal == HasLog(v, i, t)' /\ \A j \in 1..i : log'[v][j] = log[v][j]
<1>1. /\ m \in AppendRequest /\ v \in Node /\ log[v] \in Seq(Entry) /\ Len(log[v]) \in Nat
      /\ HasPrevious(m, log[v]) /\ p \in Pieces
      /\ Compatible(l, p) /\ log'[v] = Merge(log[v], m.prevLogIndex, m.entries)
  BY MergeContext, LenProperties
<1>2. /\ log'[v] \in Seq(Entry) /\ End(p) <= Len(log'[v]) /\ p.base <= Len(log[v])
      /\ p \in Piece /\ p.before = TermAt(log[v], p.base)
      /\ \A j \in 1..p.base : log'[v][j] = log[v][j]
      /\ \A j \in Nat : p.base < j /\ j <= End(p) => log'[v][j] = At(p, j)
      /\ End(p) <= Len(log[v]) /\ (p.base = End(p) \/ log[v][End(p)].term = At(p, End(p)).term)
            => log'[v] = log[v]
  <2>. HIDE DEF p
  <2>. QED BY <1>1, MergeHolds DEF p
<1>3. /\ l \in Pieces /\ l.base = 0 /\ End(l) = Len(log[v]) /\ \A j \in Nat : At(l, j) = log[v][j]
  BY <1>1, LogPieceIs DEF Pieces
<1>4. /\ p.base \in Nat /\ End(p) \in Nat /\ p.base <= End(p) /\ Len(log'[v]) \in Nat
      /\ \A j \in Nat : p.base < j /\ j <= End(p) => TermIn(p, j) = At(p, j).term
  BY <1>2, PieceType, LenProperties
<1>5. 0 < i /\ i <= Len(log[v]) /\ log[v][i].term = t /\ Has(l, i, t)
  <2>1. 0 < i /\ i <= Len(log[v]) /\ log[v][i].term = t
    BY DEF HasLog
  <2>. QED BY <1>3, <2>1 DEF Has
<1>. HIDE DEF v, l, p
<1>6. ASSUME i <= p.base PROVE Goal
  <2>1. i <= Len(log'[v]) /\ log'[v][i] = log[v][i]
    BY <1>2, <1>4, <1>5, <1>6
  <2>. QED BY <1>2, <1>4, <1>5, <1>6, <2>1 DEF HasLog, v
<1>7. ASSUME Has(p, i, t) PROVE Goal
  <2>1. p.base < i /\ i <= End(p) /\ At(p, i).term = At(l, i).term
    BY <1>3, <1>5, <1>7 DEF Has
  <2>2. i \in Both(l, p)
    BY <1>3, <1>5, <2>1 DEF Both
  <2>3. ASSUME NEW j \in 1..i PROVE log'[v][j] = log[v][j]
    <3>1. CASE j <= p.base
      BY <1>2, <1>4, <3>1
    <3>2. CASE p.base < j
      <4>1. j \in Both(l, p) /\ j <= i
        BY <1>3, <1>4, <1>5, <2>1, <3>2 DEF Both
      <4>2. At(l, j) = At(p, j)
        BY <1>1, <2>1, <2>2, <4>1 DEF Compatible
      <4>. QED BY <1>2, <1>3, <1>4, <2>1, <3>2, <4>2
    <3>. QED BY <1>4, <3>1, <3>2
  <2>4. i \in 1..i /\ i <= Len(log'[v])
    BY <1>2, <1>4, <1>5, <2>1
  <2>. QED BY <1>5, <2>3, <2>4 DEF HasLog, v
<1>8. ASSUME m.term = t /\ p.base < i PROVE Goal
  <2>1. TermIn(p, End(p)) = t
    BY <1>8 DEF SentInv, p
  <2>2. ASSUME p.base < End(p) PROVE Has(p, End(p), t)
    BY <1>4, <2>1, <2>2 DEF Has
  <2>3. CASE i <= End(p)
    <3>1. Has(p, End(p), t)
      BY <1>4, <1>8, <2>2, <2>3
    <3>2. TermIn(p, i) = t
      BY <1>1, <1>3, <1>4, <1>5, <1>8, <2>3, <3>1 DEF SameTermInv, SameTerm
    <3>3. Has(p, i, t)
      BY <1>4, <1>8, <2>3, <3>2 DEF Has
    <3>. QED BY <1>7, <3>3
  <2>4. CASE End(p) < i
    <3>1. End(p) <= Len(log[v])
      BY <1>1, <1>4, <1>5, <2>4
    <3>2. ASSUME p.base < End(p) PROVE log[v][End(p)].term = At(p, End(p)).term
      <4>1. TermIn(l, End(p)) = t
        BY <1>1, <1>3, <1>4, <1>5, <2>2, <2>4, <3>2 DEF SameTermInv, SameTerm
      <4>. QED BY <1>3, <1>4, <2>1, <3>2, <4>1 DEF TermIn
    <3>3. log'[v] = log[v]
      BY <1>2, <1>4, <3>1, <3>2
    <3>. QED BY <1>5, <3>3 DEF HasLog, v
  <2>. QED BY <1>4, <2>3, <2>4
<1>. HIDE DEF Goal
<1>9. Goal
  <2>1. m.term = t \/ i <= p.base \/ Has(p, i, t)
    BY DEF p
  <2>. QED BY <1>4, <1>6, <1>7, <1>8, <2>1
<1>. QED BY <1>9 DEF Goal, v

\* So does a member that takes whatever step.
LEMMA KeepsStep ==
  ASSUME TypeInv, LogInv, SentInv, SameTermInv, [Next]_vars, NEW v \in Node,
         NEW i \in Nat, NEW t \in Nat, HasLog(v, i, t),
         \A m \in AppendRequests : Merges(m) /\ m.dst = v =>
            m.term = t \/ i <= SentPiece(m).base \/ Has(SentPiece(m), i, t)
  PROVE  HasLog(v, i, t)' /\ \A j \in 1..i : log'[v][j] = log[v][j]
<1>1. log[v] \in Seq(Entry) /\ Len(log[v]) \in Nat
  BY LenProperties DEF TypeInv, TypeOK
<1>2. CASE log'[v] = log[v]
  BY <1>2 DEF HasLog
<1>3. CASE Sends
  BY <1>2, <1>3 DEF Sends
<1>4. ASSUME NEW n \in Node, NEW e \in Entry, Extends(n, e)
      PROVE  HasLog(v, i, t)' /\ \A j \in 1..i : log'[v][j] = log[v][j]
  <2>1. CASE v = n
    <3>1. log'[v] = Append(log[v], e)
      BY <1>4, <2>1 DEF Extends, TypeInv, TypeOK
    <3>2. /\ Len(log'[v]) = Len(log[v]) + 1
          /\ \A j \in 1..Len(log[v]) : log'[v][j] = log[v][j]
      BY <1>1, <3>1, AppendProperties
    <3>3. 0 < i /\ i <= Len(log[v]) /\ log[v][i].term = t
      BY DEF HasLog
    <3>4. /\ i <= Len(log'[v]) /\ i \in 1..Len(log[v]) /\ log'[v][i] = log[v][i]
          /\ \A j \in 1..i : j \in 1..Len(log[v])
      BY <1>1, <3>2, <3>3
    <3>. QED BY <3>2, <3>3, <3>4 DEF HasLog
  <2>2. CASE v # n
    BY <1>2, <1>4, <2>2 DEF Extends, TypeInv, TypeOK
  <2>. QED BY <2>1, <2>2
<1>5. ASSUME NEW m \in AppendRequests, Merges(m)
      PROVE  HasLog(v, i, t)' /\ \A j \in 1..i : log'[v][j] = log[v][j]
  <2>1. CASE m.dst = v
    BY <1>5, <2>1, MergeKeeps
  <2>2. CASE m.dst # v
    BY <1>2, <1>5, <2>2 DEF Merges, TypeInv, TypeOK
  <2>. QED BY <2>1, <2>2
<1>. QED BY <1>3, <1>4, <1>5, LogSteps

-----------------------------------------------------------------------------
(* What was acknowledged. *)

\* What a success acknowledges is there while its member stays in the term.
AckInv ==
  \A m \in rpcs : m.type = "AppendReply" /\ m.success =>
    /\ m.term <= currentTerm[m.dst]
    /\ m.term = currentTerm[m.dst] /\ m.sentUpTo > 0 => HasLog(m.dst, m.sentUpTo, m.term)

\* So is what a leader counts, and the leader has it too.
CountInv ==
  \A n, p \in Node : role[n] = "leader" /\ matchIndex[n][p] > 0 =>
    /\ matchIndex[n][p] <= Len(log[n]) /\ currentTerm[n] <= currentTerm[p]
    /\ currentTerm[n] = currentTerm[p] => HasLog(p, matchIndex[n][p], currentTerm[n])

\* A success stays true while its member stays in the term.
LEMMA AckStep ==
  ASSUME TypeInv, TypeOK', LogInv, SentInv, SameTermInv, AckInv, [Next]_vars
  PROVE  AckInv'
<1>. SUFFICES ASSUME NEW a \in rpcs', a.type = "AppendReply", a.success
              PROVE  /\ a.term <= currentTerm'[a.dst]
                     /\ a.term = currentTerm'[a.dst] /\ a.sentUpTo > 0 =>
                          HasLog(a.dst, a.sentUpTo, a.term)'
  BY DEF AckInv, HasLog
<1>1. /\ a.dst \in Node /\ a.term \in Nat /\ a.sentUpTo \in Nat
      /\ currentTerm[a.dst] \in Nat /\ currentTerm'[a.dst] \in Nat
      /\ currentTerm[a.dst] <= currentTerm'[a.dst]
  <2>1. a \in AppendReply
    BY RpcKinds DEF TypeOK
  <2>2. a.dst \in Node
    BY <2>1 DEF AppendReply
  <2>. QED BY <2>1, <2>2, TermsGrow DEF AppendReply, TypeInv
<1>2. CASE a \in rpcs
  <2>1. /\ a.term <= currentTerm[a.dst]
        /\ a.term = currentTerm[a.dst] /\ a.sentUpTo > 0 => HasLog(a.dst, a.sentUpTo, a.term)
    BY <1>2 DEF AckInv
  <2>2. ASSUME a.term = currentTerm'[a.dst], a.sentUpTo > 0
        PROVE  HasLog(a.dst, a.sentUpTo, a.term)'
    <3>1. HasLog(a.dst, a.sentUpTo, a.term)
      BY <1>1, <2>1, <2>2
    <3>2. \A m \in AppendRequests : Merges(m) /\ m.dst = a.dst => m.term = a.term
      BY <2>2 DEF Merges
    <3>. QED BY <1>1, <3>1, <3>2, KeepsStep
  <2>. QED BY <1>1, <2>1, <2>2
<1>3. CASE a \notin rpcs
  <2>1. PICK m \in AppendRequests :
          Merges(m) /\ a.dst = m.dst /\ a.term = m.term /\ a.sentUpTo = End(SentPiece(m))
    BY <1>3, ReplySources
  <2>. DEFINE p == SentPiece(m)
              lg == log[m.dst]
  <2>2. /\ m \in AppendRequest /\ m.dst \in Node /\ lg \in Seq(Entry)
        /\ HasPrevious(m, lg) /\ Compatible(LogPiece(lg), p)
        /\ log'[m.dst] = Merge(lg, m.prevLogIndex, m.entries) /\ currentTerm'[m.dst] = m.term
    BY <2>1, MergeContext
  <2>3. /\ End(p) <= Len(log'[m.dst]) /\ p \in Piece /\ p.before = TermAt(lg, p.base)
        /\ \A i \in 1..p.base : log'[m.dst][i] = lg[i]
        /\ \A i \in Nat : p.base < i /\ i <= End(p) => log'[m.dst][i] = At(p, i)
    <3>. HIDE DEF p, lg
    <3>. QED BY <2>2, MergeHolds DEF p, lg
  <2>4. TermIn(p, End(p)) = m.term
    BY DEF SentInv
  <2>5. p.base \in Nat /\ End(p) \in Nat /\ p.base <= End(p)
    BY <2>3, PieceType
  <2>. HIDE DEF p
  <2>6. ASSUME End(p) > 0 PROVE log'[m.dst][End(p)].term = m.term
    <3>1. CASE p.base = End(p)
      BY <2>3, <2>4, <2>5, <2>6, <3>1 DEF TermIn, TermAt
    <3>2. CASE p.base # End(p)
      BY <2>3, <2>4, <2>5, <3>2 DEF TermIn
    <3>. QED BY <3>1, <3>2
  <2>7. a.sentUpTo = End(p)
    BY <2>1 DEF p
  <2>8. a.term <= currentTerm'[a.dst]
    BY <1>1, <2>1, <2>2
  <2>. QED BY <2>1, <2>3, <2>5, <2>6, <2>7, <2>8 DEF HasLog
<1>. QED BY <1>2, <1>3

\* A count stays true while its peer stays in the term.
LEMMA CountStep ==
  ASSUME TypeInv, TypeOK', LogInv, SentInv, SameTermInv, AckInv, CountInv, [Next]_vars
  PROVE  CountInv'
<1>. SUFFICES ASSUME NEW n \in Node, NEW p \in Node, role'[n] = "leader", matchIndex'[n][p] > 0
              PROVE  /\ matchIndex'[n][p] <= Len(log'[n]) /\ currentTerm'[n] <= currentTerm'[p]
                     /\ currentTerm'[n] = currentTerm'[p] =>
                          HasLog(p, matchIndex[n][p], currentTerm[n])'
  BY DEF CountInv
<1>1. /\ \A k \in {n, p} : /\ currentTerm[k] \in Nat /\ currentTerm'[k] \in Nat
                           /\ currentTerm[k] <= currentTerm'[k]
      /\ matchIndex'[n][p] \in Nat /\ Len(log[n]) \in Nat /\ Len(log'[n]) \in Nat
      /\ currentTerm'[n] = currentTerm[n] /\ Len(log[n]) <= Len(log'[n])
  <2>1. TypeOK /\ TypeOK' /\ log[n] \in Seq(Entry) /\ log'[n] \in Seq(Entry)
    BY DEF TypeInv, TypeOK
  <2>2. \A k \in {n, p} : /\ currentTerm[k] \in Nat /\ currentTerm'[k] \in Nat
                           /\ currentTerm[k] <= currentTerm'[k]
    BY <2>1, TermsGrow
  <2>3. matchIndex'[n][p] \in Nat
    BY <2>1 DEF TypeOK
  <2>4. Len(log[n]) \in Nat /\ Len(log'[n]) \in Nat
    BY <2>1, LenProperties
  <2>5. currentTerm'[n] = currentTerm[n]
    BY RoleSteps DEF TypeInv
  <2>. QED BY <2>2, <2>3, <2>4, <2>5, LeaderLog
<1>2. ASSUME role[n] = "leader", matchIndex'[n][p] = matchIndex[n][p]
      PROVE  /\ matchIndex'[n][p] <= Len(log'[n]) /\ currentTerm'[n] <= currentTerm'[p]
             /\ currentTerm'[n] = currentTerm'[p] =>
                          HasLog(p, matchIndex[n][p], currentTerm[n])'
  <2>1. /\ matchIndex[n][p] <= Len(log[n]) /\ currentTerm[n] <= currentTerm[p]
        /\ currentTerm[n] = currentTerm[p] => HasLog(p, matchIndex[n][p], currentTerm[n])
    BY <1>2 DEF CountInv
  <2>2. ASSUME currentTerm'[n] = currentTerm'[p]
        PROVE  HasLog(p, matchIndex[n][p], currentTerm[n])'
    <3>1. HasLog(p, matchIndex[n][p], currentTerm[n])
      BY <1>1, <2>1, <2>2
    <3>2. \A m \in AppendRequests : Merges(m) /\ m.dst = p => m.term = currentTerm[n]
      BY <1>1, <2>2 DEF Merges
    <3>3. /\ 0 < matchIndex'[n][p] /\ matchIndex'[n][p] <= Len(log'[p])
          /\ log'[p][matchIndex'[n][p]].term = currentTerm'[n]
      <4>1. PICK i \in Nat, t \in Nat :
              /\ i = matchIndex[n][p] /\ i = matchIndex'[n][p]
              /\ t = currentTerm[n] /\ t = currentTerm'[n]
        BY <1>1, <1>2
      <4>2. HasLog(p, i, t) /\ \A m \in AppendRequests : Merges(m) /\ m.dst = p => m.term = t
        BY <3>1, <3>2, <4>1
      <4>3. i <= Len(log'[p]) /\ 0 < i /\ log'[p][i].term = t
        BY <4>2, KeepsStep DEF HasLog
      <4>. QED BY <4>1, <4>3
    <3>. QED BY <3>3 DEF HasLog
  <2>. QED BY <1>1, <1>2, <2>1, <2>2
<1>3. ASSUME UNCHANGED <<role, currentTerm, log>>, NEW m \in rpcs,
             m.type = "AppendReply", m.success, m.src = n, m.dst = p,
             m.term = currentTerm[n], matchIndex'[n][p] = m.sentUpTo
      PROVE  /\ matchIndex'[n][p] <= Len(log'[n]) /\ currentTerm'[n] <= currentTerm'[p]
             /\ currentTerm'[n] = currentTerm'[p] =>
                          HasLog(p, matchIndex[n][p], currentTerm[n])'
  <2>1. m.sentUpTo <= Len(log[n])
    BY <1>3 DEF TypeInv, AppendCallsInLog, IsAppend, SentUpTo
  <2>2. /\ m.term <= currentTerm[p]
        /\ m.term = currentTerm[p] => HasLog(p, m.sentUpTo, m.term)
    BY <1>3 DEF AckInv
  <2>. QED BY <1>3, <2>1, <2>2 DEF HasLog
<1>. QED BY <1>1, <1>2, <1>3, MatchSources

-----------------------------------------------------------------------------
(* What was acknowledged is replicated. *)

\* The inductive invariant: what the logs are, what the terms of calls mean, what
\* is shared within a term, and what acknowledgements and counts stand for.
Acknowledged ==
  TypeInv /\ ElectionInv /\ LogInv /\ TermsInv /\ SameTermInv /\ AckInv /\ CountInv

\* A group starts without entries and calls.
LEMMA AcknowledgedInit == Init => Acknowledged
<1>. SUFFICES ASSUME Init PROVE Acknowledged
  OBVIOUS
<1>1. AckInv /\ CountInv
  BY DEF Init, AckInv, CountInv
<1>. QED BY <1>1, TypeInit, ElectionInit, LogInit, TermsInit, SameTermInit DEF Acknowledged

\* Every step keeps it.
LEMMA AcknowledgedStep == Acknowledged /\ [Next]_vars => Acknowledged'
<1>. SUFFICES ASSUME Acknowledged, [Next]_vars PROVE Acknowledged'
  OBVIOUS
<1>1. TypeInv /\ ElectionInv /\ LogInv /\ TermsInv /\ SameTermInv /\ AckInv /\ CountInv
  BY DEF Acknowledged
<1>2. TypeInv'
  BY <1>1, TypeStep
<1>3. TypeOK'
  BY <1>2 DEF TypeInv
<1>4. ElectionInv'
  BY <1>1, <1>3, ElectionStep
<1>5. LogInv'
  BY <1>1, <1>3, <1>4, LogStep
<1>6. TermsInv'
  BY <1>1, <1>3, TermsStep
<1>7. SameTermInv'
  BY <1>1, <1>3, <1>5, <1>6, SameTermStep DEF TermsInv
<1>8. SentInv
  BY <1>1 DEF TermsInv
<1>9. AckInv' /\ CountInv'
  BY <1>1, <1>3, <1>8, AckStep, CountStep
<1>. QED BY <1>2, <1>4, <1>5, <1>6, <1>7, <1>9 DEF Acknowledged

\* Sequences that agree up to i have the same prefix of length i.
LEMMA EqualPrefixes ==
  ASSUME NEW a \in Seq(Entry), NEW b \in Seq(Entry), NEW c \in Nat, c <= Len(a), c <= Len(b),
         \A j \in 1..c : a[j] = b[j]
  PROVE  SubSeq(a, 1, c) = SubSeq(b, 1, c) /\ Len(SubSeq(a, 1, c)) = c
<1>1. Len(a) \in Nat /\ Len(b) \in Nat
  BY LenProperties
<1>2. (\A j \in 1..c : a[j] \in Entry) /\ (\A j \in 1..c : b[j] \in Entry)
  BY <1>1, ElementOfSeq
<1>3. /\ SubSeq(a, 1, c) \in Seq(Entry) /\ Len(SubSeq(a, 1, c)) = c
      /\ \A j \in 1..c : SubSeq(a, 1, c)[j] = a[j]
  BY <1>2, SubSeqProperties
<1>4. /\ SubSeq(b, 1, c) \in Seq(Entry) /\ Len(SubSeq(b, 1, c)) = c
      /\ \A j \in 1..c : SubSeq(b, 1, c)[j] = b[j]
  BY <1>2, SubSeqProperties
<1>5. \A j \in 1..c : SubSeq(a, 1, c)[j] = SubSeq(b, 1, c)[j]
  BY <1>3, <1>4
<1>. QED BY <1>3, <1>4, <1>5, SeqEqual

\* Logs with the same entry are the same up to it.
LEMMA SamePrefix ==
  ASSUME TypeOK, MatchInv, NEW n \in Node, NEW m \in Node, NEW i \in Nat, NEW t \in Nat,
         HasLog(n, i, t), HasLog(m, i, t), NEW c \in Nat, c <= i
  PROVE  c <= Len(log[n]) /\ IsPrefixOfLog(SubSeq(log[n], 1, c), m)
<1>. DEFINE x == LogPiece(log[n])
            y == LogPiece(log[m])
<1>1. /\ log[n] \in Seq(Entry) /\ log[m] \in Seq(Entry)
      /\ Len(log[n]) \in Nat /\ Len(log[m]) \in Nat
      /\ 0 < i /\ i <= Len(log[n]) /\ i <= Len(log[m])
  BY LenProperties DEF TypeOK, HasLog
<1>2. /\ x.base = 0 /\ End(x) = Len(log[n]) /\ \A j \in Nat : At(x, j) = log[n][j]
      /\ y.base = 0 /\ End(y) = Len(log[m]) /\ \A j \in Nat : At(y, j) = log[m][j]
  BY <1>1, LogPieceIs
<1>3. Compatible(x, y)
  BY DEF MatchInv, Pieces
<1>. HIDE DEF x, y
<1>4. ASSUME NEW j \in 1..c PROVE log[n][j] = log[m][j]
  <2>1. i \in Both(x, y) /\ j \in Both(x, y) /\ j <= i /\ j \in Nat
    BY <1>1, <1>2 DEF Both
  <2>2. At(x, i).term = At(y, i).term
    BY <1>2 DEF HasLog
  <2>3. At(x, j) = At(y, j)
    BY <1>3, <2>1, <2>2 DEF Compatible
  <2>. QED BY <1>2, <2>1, <2>3
<1>5. c <= Len(log[n]) /\ c <= Len(log[m])
  BY <1>1
<1>6. SubSeq(log[n], 1, c) = SubSeq(log[m], 1, c) /\ Len(SubSeq(log[n], 1, c)) = c
  BY <1>1, <1>4, <1>5, EqualPrefixes
<1>. QED BY <1>5, <1>6 DEF IsPrefixOfLog

\* Nothing is a prefix of every log.
LEMMA EmptyPrefix ==
  ASSUME TypeOK, NEW n \in Node, NEW m \in Node
  PROVE  IsPrefixOfLog(SubSeq(log[n], 1, 0), m)
<1>1. log[n] \in Seq(Entry) /\ log[m] \in Seq(Entry) /\ Len(log[n]) \in Nat /\ Len(log[m]) \in Nat
  BY LenProperties DEF TypeOK
<1>2. \A j \in 1..0 : log[n][j] = log[m][j]
  OBVIOUS
<1>3. 0 <= Len(log[n]) /\ 0 <= Len(log[m])
  BY <1>1
<1>4. SubSeq(log[n], 1, 0) = SubSeq(log[m], 1, 0) /\ Len(SubSeq(log[n], 1, 0)) = 0
  BY <1>1, <1>2, <1>3, EqualPrefixes
<1>. QED BY <1>3, <1>4 DEF IsPrefixOfLog

\* What a leader counts as replicated on a peer is replicated there, as long as the
\* peer has not moved to a later term.
LEMMA AcknowledgedCounts == Acknowledged => MatchSound
<1>. SUFFICES ASSUME Acknowledged, NEW n \in Node, NEW p \in Node,
                     role[n] = "leader", currentTerm[p] = currentTerm[n]
              PROVE  /\ matchIndex[n][p] <= Len(log[n])
                     /\ IsPrefixOfLog(SubSeq(log[n], 1, matchIndex[n][p]), p)
  BY DEF MatchSound
<1>1. TypeOK /\ HoldsInv /\ MatchInv /\ CountInv
  BY DEF Acknowledged, TypeInv, LogInv
<1>2. matchIndex[n][p] \in Nat /\ currentTerm[n] \in Nat /\ Len(log[n]) \in Nat
  <2>1. matchIndex[n] \in [Node -> Nat] /\ log[n] \in Seq(Entry) /\ currentTerm[n] \in Nat
    BY <1>1 DEF TypeOK
  <2>. QED BY <2>1, LenProperties
<1>3. CASE matchIndex[n][p] = 0
  BY <1>1, <1>2, <1>3, EmptyPrefix
<1>4. CASE matchIndex[n][p] > 0
  <2>1. /\ matchIndex[n][p] <= Len(log[n])
        /\ HasLog(p, matchIndex[n][p], currentTerm[n])
    BY <1>1, <1>4 DEF CountInv
  <2>2. Has(LogPiece(log[p]), matchIndex[n][p], currentTerm[n]) /\ LogPiece(log[p]) \in Pieces
    BY <1>1, <1>2, <2>1, HasLogIs
  <2>3. HasLog(n, matchIndex[n][p], currentTerm[n])
    BY <1>1, <1>2, <1>4, <2>2 DEF HoldsInv, Has, HasLog
  <2>. QED BY <1>1, <1>2, <2>1, <2>3, SamePrefix
<1>. QED BY <1>2, <1>3, <1>4

\* What a leader counts as replicated on a peer of its term is replicated there.
THEOREM CountsMatch == Spec => []MatchSound
  BY AcknowledgedInit, AcknowledgedStep, AcknowledgedCounts, PTL DEF Spec

-----------------------------------------------------------------------------
(* What was acknowledged to whom. *)

\* There is evidence that v acknowledged, or holds in term t, the entry of term t at i.
Acked(v, i, t) ==
  \/ currentTerm[v] = t /\ HasLog(v, i, t)
  \/ \E m \in rpcs : /\ m.type = "AppendReply" /\ m.success
                     /\ m.dst = v /\ m.term = t /\ i <= m.sentUpTo
  \/ \E k \in Node : role[k] = "leader" /\ currentTerm[k] = t /\ i <= matchIndex[k][v]

\* The evidence is true while its member stays in the term.
AcksHold ==
  \A v \in Node, i, t \in Nat : Own(i, t) /\ Acked(v, i, t) =>
     t <= currentTerm[v] /\ (t = currentTerm[v] => HasLog(v, i, t))

\* Entries are at positive places.
LEMMA OwnIs ==
  ASSUME TypeOK, NEW i \in Nat, NEW t \in Nat, Own(i, t)
  PROVE  0 < i
<1>1. PICK x \in Pieces : x.base < i
  BY DEF Own, Has
<1>2. x.base \in Nat
  BY PiecesType, PieceType
<1>. QED BY <1>1, <1>2

\* A log with an entry of term t further on has the entry of term t at i.
LEMMA LogReaches ==
  ASSUME TypeOK, SameTermInv, NEW i \in Nat, NEW t \in Nat, Own(i, t),
         NEW v \in Node, NEW b \in Nat, HasLog(v, b, t), i <= b
  PROVE  HasLog(v, i, t)
<1>. DEFINE l == LogPiece(log[v])
<1>1. log[v] \in Seq(Entry) /\ Len(log[v]) \in Nat /\ 0 < i
  BY OwnIs, LenProperties DEF TypeOK
<1>2. /\ l \in Pieces /\ l.base = 0 /\ End(l) = Len(log[v])
      /\ \A j \in Nat : At(l, j) = log[v][j]
  BY <1>1, LogPieceIs DEF Pieces
<1>3. PICK y \in Pieces : Has(y, i, t)
  BY DEF Own
<1>. HIDE DEF l
<1>4. Has(l, b, t)
  BY <1>2 DEF Has, HasLog
<1>5. TermIn(l, i) = t
  BY <1>1, <1>2, <1>3, <1>4 DEF SameTermInv, SameTerm
<1>. QED BY <1>1, <1>2, <1>5 DEF TermIn, HasLog

\* That follows from what acknowledgements and counts stand for.
LEMMA AcksAreTrue == TypeOK /\ SameTermInv /\ AckInv /\ CountInv => AcksHold
<1>. SUFFICES ASSUME TypeOK, SameTermInv, AckInv, CountInv,
                     NEW v \in Node, NEW i \in Nat, NEW t \in Nat, Own(i, t), Acked(v, i, t)
              PROVE  t <= currentTerm[v] /\ (t = currentTerm[v] => HasLog(v, i, t))
  BY DEF AcksHold
<1>0. 0 < i
  BY OwnIs
<1>1. CASE currentTerm[v] = t /\ HasLog(v, i, t)
  BY <1>1
<1>2. ASSUME NEW m \in rpcs, m.type = "AppendReply", m.success, m.dst = v, m.term = t, i <= m.sentUpTo
      PROVE  t <= currentTerm[v] /\ (t = currentTerm[v] => HasLog(v, i, t))
  <2>1. m.sentUpTo \in Nat
    BY <1>2, RpcKinds DEF TypeOK, AppendReply
  <2>2. t <= currentTerm[v] /\ (t = currentTerm[v] => HasLog(v, m.sentUpTo, t))
    BY <1>0, <1>2, <2>1 DEF AckInv
  <2>. QED BY <1>2, <2>1, <2>2, LogReaches
<1>3. ASSUME NEW k \in Node, role[k] = "leader", currentTerm[k] = t, i <= matchIndex[k][v]
      PROVE  t <= currentTerm[v] /\ (t = currentTerm[v] => HasLog(v, i, t))
  <2>1. matchIndex[k][v] \in Nat /\ matchIndex[k][v] > 0
    BY <1>0, <1>3, SMTT(30) DEF TypeOK
  <2>2. t <= currentTerm[v] /\ (t = currentTerm[v] => HasLog(v, matchIndex[k][v], t))
    BY <1>3, <2>1 DEF CountInv
  <2>. QED BY <1>3, <2>1, <2>2, LogReaches
<1>. QED BY <1>1, <1>2, <1>3 DEF Acked

\* Who has moved on from a term acknowledges nothing more of it.
LEMMA AckedStep ==
  ASSUME TypeInv, TypeOK', [Next]_vars, NEW v \in Node, NEW i \in Nat, NEW t \in Nat, 0 < i,
         Acked(v, i, t)'
  PROVE  Acked(v, i, t) \/ currentTerm'[v] = t
<1>1. ASSUME NEW m \in rpcs', m.type = "AppendReply", m.success, m.dst = v, m.term = t, i <= m.sentUpTo
      PROVE  Acked(v, i, t) \/ currentTerm'[v] = t
  <2>1. CASE m \in rpcs
    BY <1>1, <2>1 DEF Acked
  <2>2. CASE m \notin rpcs
    BY <1>1, <2>2, ReplySources DEF Merges
  <2>. QED BY <2>1, <2>2
<1>2. ASSUME NEW k \in Node, role'[k] = "leader", currentTerm'[k] = t, i <= matchIndex'[k][v]
      PROVE  Acked(v, i, t)
  <2>1. matchIndex'[k][v] \in Nat
    BY DEF TypeOK
  <2>2. CASE /\ role[k] = "leader" /\ currentTerm'[k] = currentTerm[k]
             /\ matchIndex'[k][v] = matchIndex[k][v]
    BY <1>2, <2>2 DEF Acked
  <2>3. CASE UNCHANGED currentTerm /\ \E m \in rpcs :
               /\ m.type = "AppendReply" /\ m.success /\ m.src = k /\ m.dst = v
               /\ m.term = currentTerm[k] /\ matchIndex'[k][v] = m.sentUpTo
    BY <1>2, <2>3 DEF Acked
  <2>. QED BY <1>2, <2>1, <2>2, <2>3, MatchSources
<1>. QED BY <1>1, <1>2 DEF Acked

-----------------------------------------------------------------------------
(* What is safe. *)

\* The entry of term t at i will never be acknowledged by a majority.
Blocked(i, t) ==
  \E Q \in SUBSET Node :
    /\ Cardinality(Q) >= Majority
    /\ \A v \in Q : t < currentTerm[v] /\ ~Acked(v, i, t)

\* Every piece with an entry of a later term has the entry, or starts after it.
Later(i, t) ==
  \A x \in Pieces : \A j, u \in Nat : Has(x, j, u) /\ t < u =>
    /\ x.base < i => Has(x, i, t)
    /\ i <= x.base => t <= x.before

\* Every request of a later term reaches that far.
Reaching(i, t) == \A m \in AppendRequests : t < m.term => i <= End(SentPiece(m))

\* The members of S hold it, and so does who is elected by one of them in a later term.
Held(i, t, S) ==
  /\ \A v \in S : t <= currentTerm[v] /\ HasLog(v, i, t)
  /\ \A v \in S, c \in Node :
        role[c] # "follower" /\ t < currentTerm[c] /\ VotedFor(v, currentTerm[c], c) =>
           HasLog(c, i, t)

\* The entry is safe with the members of S: whatever they elect later has it.
Safe(i, t, S) == Later(i, t) /\ Reaching(i, t) /\ Held(i, t, S)

\* What is blocked stays so: terms grow, and evidence is not made up later.
LEMMA BlockedStays ==
  ASSUME TypeInv, TypeOK', [Next]_vars, NEW i \in Nat, NEW t \in Nat, 0 < i, Blocked(i, t)
  PROVE  Blocked(i, t)'
<1>1. PICK Q \in SUBSET Node :
        Cardinality(Q) >= Majority /\ \A v \in Q : t < currentTerm[v] /\ ~Acked(v, i, t)
  BY DEF Blocked
<1>2. ASSUME NEW v \in Q PROVE t < currentTerm'[v] /\ ~Acked(v, i, t)'
  <2>1. t < currentTerm[v] /\ ~Acked(v, i, t) /\ v \in Node
    BY <1>1
  <2>2. currentTerm[v] \in Nat /\ currentTerm'[v] \in Nat /\ currentTerm[v] <= currentTerm'[v]
    BY <2>1, TermsGrow DEF TypeInv
  <2>3. t < currentTerm'[v] /\ currentTerm'[v] # t
    BY <2>1, <2>2
  <2>. QED BY <2>1, <2>3, AckedStep
<1>. QED BY <1>1, <1>2 DEF Blocked, Majority

\* A request of term t or later that reaches the entry carries it or starts after it.
LEMMA SentHolds ==
  ASSUME TypeInv, SentInv, SameTermInv, NEW i \in Nat, NEW t \in Nat, Own(i, t), Later(i, t),
         NEW m \in AppendRequests, t <= m.term, i <= End(SentPiece(m))
  PROVE  /\ SentPiece(m).base < i => Has(SentPiece(m), i, t)
         /\ i <= SentPiece(m).base => t <= SentPiece(m).before
<1>. DEFINE p == SentPiece(m)
            Goal == (p.base < i => Has(p, i, t)) /\ (i <= p.base => t <= p.before)
<1>1. /\ p \in Pieces /\ p \in Piece /\ p.base \in Nat /\ End(p) \in Nat /\ p.base <= End(p)
      /\ m.term \in Nat
      /\ \A j \in Nat : p.base < j /\ j <= End(p) => TermIn(p, j) = At(p, j).term
  <2>1. p \in Pieces /\ m \in AppendRequest
    BY PiecesType DEF Pieces, TypeInv
  <2>2. p \in Piece
    BY <2>1, PiecesType DEF TypeInv
  <2>. QED BY <2>1, <2>2, PieceType DEF AppendRequest
<1>2. TermIn(p, End(p)) = m.term /\ i <= End(p)
  BY DEF SentInv
<1>. HIDE DEF p
<1>3. ASSUME p.base = End(p) PROVE Goal
  BY <1>1, <1>2, <1>3 DEF TermIn
<1>4. ASSUME p.base < End(p) PROVE Goal
  <2>1. Has(p, End(p), m.term)
    BY <1>1, <1>2, <1>4 DEF Has
  <2>2. ASSUME t < m.term PROVE Goal
    BY <1>1, <2>1, <2>2 DEF Later
  <2>3. ASSUME t = m.term PROVE Goal
    <3>1. PICK y \in Pieces : Has(y, i, t)
      BY DEF Own
    <3>2. \A j \in Nat : i <= j /\ p.base <= j /\ j <= End(p) => TermIn(p, j) = t
      BY <1>1, <2>1, <2>3, <3>1 DEF SameTermInv, SameTerm
    <3>3. p.base < i => Has(p, i, t)
      BY <1>1, <1>2, <3>2 DEF Has
    <3>4. i <= p.base => p.before = t
      BY <1>1, <3>2 DEF TermIn
    <3>. QED BY <3>3, <3>4
  <2>. HIDE DEF Goal
  <2>. QED BY <1>1, <2>2, <2>3
<1>. HIDE DEF Goal
<1>5. Goal
  BY <1>1, <1>3, <1>4
<1>. QED BY <1>5 DEF Goal, p

\* A leader of term t or later has the entry.
LEMMA LeaderHas ==
  ASSUME TypeOK, HoldsInv, LeadsInv, NEW i \in Nat, NEW t \in Nat, Own(i, t), Later(i, t),
         NEW n \in Node, role[n] = "leader", t <= currentTerm[n]
  PROVE  HasLog(n, i, t)
<1>0. 0 < i /\ currentTerm[n] \in Nat
  BY OwnIs DEF TypeOK
<1>1. CASE t = currentTerm[n]
  <2>1. i <= Len(log[n]) /\ log[n][i].term = currentTerm[n]
    BY <1>1 DEF HoldsInv, Own, Has
  <2>. QED BY <1>0, <1>1, <2>1 DEF HasLog
<1>2. CASE t < currentTerm[n]
  <2>1. HasLog(n, Len(log[n]), currentTerm[n]) /\ Len(log[n]) \in Nat
    BY LenProperties DEF LeadsInv, TypeOK
  <2>2. LogPiece(log[n]) \in Pieces /\ LogPiece(log[n]).base = 0
    BY LogPieceIs DEF Pieces, TypeOK
  <2>3. Has(LogPiece(log[n]), Len(log[n]), currentTerm[n])
    BY <1>0, <2>1, HasLogIs
  <2>4. Has(LogPiece(log[n]), i, t)
    BY <1>0, <1>2, <2>1, <2>2, <2>3 DEF Later
  <2>. QED BY <2>4, HasLogIs
<1>. QED BY <1>0, <1>1, <1>2

\* Who holds the entry, in term t or later, keeps it and all before it.
LEMMA SafeKeeps ==
  ASSUME TypeInv, TypeOK', LogInv, SentInv, SameTermInv, [Next]_vars,
         NEW i \in Nat, NEW t \in Nat, Own(i, t), Later(i, t), Reaching(i, t),
         NEW v \in Node, HasLog(v, i, t), t <= currentTerm[v]
  PROVE  HasLog(v, i, t)' /\ \A j \in 1..i : log'[v][j] = log[v][j]
<1>1. currentTerm[v] \in Nat /\ currentTerm'[v] \in Nat /\ currentTerm[v] <= currentTerm'[v]
  BY TermsGrow DEF TypeInv
<1>2. ASSUME NEW m \in AppendRequests, Merges(m), m.dst = v
      PROVE  m.term = t \/ i <= SentPiece(m).base \/ Has(SentPiece(m), i, t)
  <2>1. t <= m.term /\ m.term \in Nat
    BY <1>1, <1>2 DEF Merges
  <2>2. CASE t < m.term
    <3>1. i <= End(SentPiece(m))
      BY <2>2 DEF Reaching
    <3>2. SentPiece(m).base < i => Has(SentPiece(m), i, t)
      BY <2>1, <3>1, SentHolds
    <3>3. SentPiece(m).base \in Nat
      BY PiecesType DEF SentPiece, AppendRequest, TypeInv
    <3>. QED BY <3>2, <3>3
  <2>. QED BY <2>1, <2>2
<1>. QED BY <1>2, KeepsStep

\* Who merges a request that carries the entry, or starts after it, has it.
LEMMA MergeGets ==
  ASSUME TypeInv, LogInv, SameTermInv,
         NEW i \in Nat, NEW t \in Nat, Own(i, t), Later(i, t),
         NEW m \in AppendRequests, Merges(m), i <= End(SentPiece(m)),
         SentPiece(m).base < i => Has(SentPiece(m), i, t),
         i <= SentPiece(m).base => t <= SentPiece(m).before
  PROVE  HasLog(m.dst, i, t)'
<1>. DEFINE v == m.dst
            l == LogPiece(log[v])
            p == SentPiece(m)
<1>1. /\ m \in AppendRequest /\ v \in Node /\ log[v] \in Seq(Entry) /\ Len(log[v]) \in Nat
      /\ HasPrevious(m, log[v]) /\ p \in Pieces
      /\ Compatible(l, p) /\ log'[v] = Merge(log[v], m.prevLogIndex, m.entries)
  BY MergeContext, LenProperties
<1>2. /\ log'[v] \in Seq(Entry) /\ End(p) <= Len(log'[v]) /\ p.base <= Len(log[v])
      /\ p \in Piece /\ p.before = TermAt(log[v], p.base)
      /\ \A j \in 1..p.base : log'[v][j] = log[v][j]
      /\ \A j \in Nat : p.base < j /\ j <= End(p) => log'[v][j] = At(p, j)
  <2>. HIDE DEF p
  <2>. QED BY <1>1, MergeHolds DEF p
<1>3. /\ l \in Pieces /\ l.base = 0 /\ End(l) = Len(log[v])
  BY <1>1, LogPieceIs DEF Pieces
<1>4. /\ p.base \in Nat /\ p.before \in Nat /\ End(p) \in Nat /\ p.base <= End(p)
      /\ Len(log'[v]) \in Nat /\ 0 < i /\ i <= End(p)
  BY <1>2, PieceType, LenProperties, OwnIs DEF TypeInv
<1>5. (p.base < i => Has(p, i, t)) /\ (i <= p.base => t <= p.before)
  OBVIOUS
<1>. HIDE DEF l, p, v
<1>6. ASSUME p.base < i PROVE i <= Len(log'[v]) /\ log'[v][i].term = t
  BY <1>2, <1>4, <1>5, <1>6 DEF Has
<1>7. ASSUME i <= p.base PROVE i <= Len(log'[v]) /\ log'[v][i].term = t
  <2>1. HasLog(v, p.base, p.before)
    BY <1>2, <1>4, <1>7 DEF HasLog, TermAt
  <2>2. HasLog(v, i, t)
    <3>1. CASE t = p.before
      BY <1>1, <1>4, <1>7, <2>1, <3>1, LogReaches DEF TypeInv
    <3>2. CASE t < p.before
      <4>1. Has(l, p.base, p.before)
        BY <1>1, <1>4, <2>1, HasLogIs DEF TypeInv, l
      <4>2. Has(l, i, t)
        BY <1>3, <1>4, <3>2, <4>1 DEF Later
      <4>. QED BY <1>1, <4>2, HasLogIs DEF TypeInv, l
    <3>. QED BY <1>4, <1>5, <1>7, <3>1, <3>2
  <2>3. i \in 1..p.base /\ i <= Len(log'[v])
    BY <1>2, <1>4, <1>7
  <2>. QED BY <1>2, <2>2, <2>3 DEF HasLog
<1>8. 0 < i /\ i <= Len(log'[v]) /\ log'[v][i].term = t
  BY <1>4, <1>6, <1>7
<1>. QED BY <1>8 DEF HasLog, v

\* Who is elected in a later term has the entry.
ElectedHold(i, t) ==
  \A k \in Node : role[k] # "leader" /\ role'[k] = "leader" /\ t < currentTerm'[k] =>
     HasLog(k, i, t)

\* Whoever leads after a step had the entry before it.
LEMMA LeaderHad ==
  ASSUME TypeInv, LogInv, LeadsInv, [Next]_vars,
         NEW i \in Nat, NEW t \in Nat, Own(i, t), Later(i, t), ElectedHold(i, t),
         NEW k \in Node, role'[k] = "leader", t < currentTerm'[k]
  PROVE  HasLog(k, i, t) /\ HasLog(k, i, t)'
<1>1. currentTerm'[k] = currentTerm[k] /\ log[k] \in Seq(Entry) /\ Len(log[k]) \in Nat
      /\ currentTerm[k] \in Nat
  BY RoleSteps, LenProperties DEF TypeInv, TypeOK
<1>2. HasLog(k, i, t)
  <2>1. CASE role[k] = "leader"
    <3>1. t <= currentTerm[k]
      BY <1>1
    <3>. QED BY <2>1, <3>1, LeaderHas DEF LogInv, TypeInv
  <2>2. CASE role[k] # "leader"
    BY <2>2 DEF ElectedHold
  <2>. QED BY <2>1, <2>2
<1>3. i \in 1..Len(log[k]) /\ log[k][i].term = t
  BY <1>1, <1>2 DEF HasLog
<1>4. Len(log[k]) <= Len(log'[k]) /\ log'[k][i] = log[k][i]
  BY <1>3, LeaderLog
<1>. QED BY <1>2, <1>3, <1>4 DEF HasLog

\* Pieces of later terms keep carrying it.
LEMMA LaterStep ==
  ASSUME TypeInv, TypeOK', LogInv, RisingInv, LeadsInv, SentInv, SameTermInv, [Next]_vars,
         NEW i \in Nat, NEW t \in Nat, Own(i, t), Later(i, t), ElectedHold(i, t)
  PROVE  Later(i, t)'
<1>. SUFFICES ASSUME NEW x \in Pieces', NEW j \in Nat, NEW u \in Nat, Has(x, j, u), t < u
              PROVE  (x.base < i => Has(x, i, t)) /\ (i <= x.base => t <= x.before)
  BY DEF Later
<1>. DEFINE Goal == (x.base < i => Has(x, i, t)) /\ (i <= x.base => t <= x.before)
<1>1. \A w \in Pieces : Has(w, j, u) =>
        (w.base < i => Has(w, i, t)) /\ (i <= w.base => t <= w.before)
  BY DEF Later
<1>2. 0 < i /\ \A n \in Node : /\ log[n] \in Seq(Entry) /\ Len(log[n]) \in Nat
                               /\ LogPiece(log[n]) \in Pieces
  BY OwnIs, LenProperties DEF TypeInv, TypeOK, Pieces
<1>3. ASSUME x \in Pieces PROVE Goal
  BY <1>1, <1>3
<1>4. ASSUME NEW n \in Node, NEW c \in Nat, c <= Len(log[n]), x = TailPiece(log[n], c) PROVE Goal
  <2>. DEFINE l == LogPiece(log[n])
  <2>1. /\ l.base = 0 /\ End(l) = Len(log[n]) /\ \A h \in Nat : At(l, h) = log[n][h]
        /\ x.base = c /\ End(x) = Len(log[n]) /\ x.before = TermIn(l, c)
        /\ \A h \in Nat : c < h /\ h <= Len(log[n]) => At(x, h) = log[n][h]
    <3>1. log[n] \in Seq(Entry)
      BY <1>2
    <3>2. l.base = 0 /\ End(l) = Len(log[n]) /\ \A h \in Nat : At(l, h) = log[n][h]
      BY <3>1, LogPieceIs
    <3>3. /\ x.base = c /\ End(x) = Len(log[n]) /\ x.before = TermIn(l, c)
          /\ \A h \in Nat : c < h /\ h <= Len(log[n]) => At(x, h) = log[n][h]
      BY <1>4, <3>1, TailPieceIs
    <3>. QED BY <3>2, <3>3
  <2>2. Rising(l)
    BY <1>2 DEF RisingInv
  <2>. HIDE DEF l
  <2>3. Has(l, j, u)
    BY <2>1 DEF Has
  <2>4. Has(l, i, t)
    BY <1>1, <1>2, <2>1, <2>3 DEF l
  <2>5. x.base < i => Has(x, i, t)
    BY <2>1, <2>4 DEF Has
  <2>6. ASSUME i <= c PROVE t <= x.before
    <3>1. TermIn(l, i) = t
      BY <1>2, <2>1, <2>4 DEF TermIn, Has
    <3>. QED BY <1>2, <1>4, <2>1, <2>2, <2>6, <3>1 DEF Rising
  <2>. QED BY <2>1, <2>5, <2>6
<1>5. ASSUME NEW n \in Node, NEW e \in Entry, Extends(n, e), x = LogPiece(Append(log[n], e)) PROVE Goal
  <2>1. /\ Append(log[n], e) \in Seq(Entry) /\ Len(Append(log[n], e)) = Len(log[n]) + 1
        /\ \A h \in 1..Len(log[n]) : Append(log[n], e)[h] = log[n][h]
        /\ Append(log[n], e)[Len(log[n]) + 1] = e
    BY <1>2, AppendProperties
  <2>2. /\ x.base = 0 /\ End(x) = Len(log[n]) + 1 /\ \A h \in Nat : At(x, h) = Append(log[n], e)[h]
    BY <1>5, <2>1, LogPieceIs
  <2>3. HasLog(n, i, t)
    <3>1. CASE j <= Len(log[n])
      <4>1. HasLog(n, j, u)
        BY <1>2, <2>1, <2>2, <3>1 DEF Has, HasLog
      <4>2. Has(LogPiece(log[n]), j, u)
        BY <4>1, HasLogIs DEF TypeInv
      <4>3. Has(LogPiece(log[n]), i, t)
        BY <1>1, <1>2, <4>2 DEF LogPiece
      <4>. QED BY <4>3, HasLogIs DEF TypeInv
    <3>2. CASE j = Len(log[n]) + 1
      <4>1. role'[n] = "leader" /\ u = currentTerm'[n]
        BY <1>5, <2>1, <2>2, <3>2 DEF Extends, Has
      <4>. QED BY <4>1, LeaderHad
    <3>. QED BY <1>2, <2>2, <3>1, <3>2 DEF Has
  <2>4. i \in 1..Len(log[n]) /\ i <= Len(log[n]) + 1 /\ log[n][i].term = t
    BY <1>2, <2>3 DEF HasLog
  <2>5. Has(x, i, t)
    BY <1>2, <2>1, <2>2, <2>4 DEF Has
  <2>. QED BY <1>2, <2>2, <2>5
<1>6. ASSUME NEW m \in AppendRequests, Merges(m),
             x = LogPiece(Merge(log[m.dst], m.prevLogIndex, m.entries))
      PROVE  Goal
  <2>. DEFINE lg == log[m.dst]
              l == LogPiece(lg)
              p == SentPiece(m)
              w == Merge(lg, m.prevLogIndex, m.entries)
  <2>1. /\ m \in AppendRequest /\ m.dst \in Node /\ HasPrevious(m, lg) /\ p \in Pieces
        /\ Compatible(l, p) /\ log'[m.dst] = w
    BY <1>6, MergeContext
  <2>2. /\ w \in Seq(Entry) /\ End(p) <= Len(w) /\ p.base <= Len(lg)
        /\ p \in Piece /\ p.before = TermAt(lg, p.base)
        /\ \A h \in 1..p.base : w[h] = lg[h]
        /\ \A h \in Nat : p.base < h /\ h <= End(p) => w[h] = At(p, h)
        /\ w = lg \/ Len(w) = End(p)
    BY <1>2, <2>1, MergeHolds
  <2>3. /\ l \in Pieces /\ l.base = 0 /\ End(l) = Len(lg) /\ \A h \in Nat : At(l, h) = lg[h]
        /\ x.base = 0 /\ End(x) = Len(w) /\ \A h \in Nat : At(x, h) = w[h]
        /\ Rising(l) /\ Len(lg) \in Nat
    BY <1>2, <1>6, <2>1, <2>2, LogPieceIs DEF RisingInv
  <2>4. p.base \in Nat /\ End(p) \in Nat /\ p.base <= End(p)
    BY <2>2, PieceType
  <2>5. ASSUME w = lg PROVE Goal
    BY <1>3, <1>6, <2>3, <2>5
  <2>6. ASSUME Len(w) = End(p) PROVE Goal
    <3>1. SUFFICES Has(x, i, t)
      BY <1>2, <2>3
    <3>2. j <= End(p) /\ 0 < j /\ w[j].term = u
      BY <2>3, <2>6 DEF Has
    <3>3. CASE j <= p.base
      <4>1. lg[j].term = u /\ j <= Len(lg)
        BY <2>2, <2>3, <2>4, <3>2, <3>3
      <4>2. Has(l, j, u)
        BY <2>3, <3>2, <4>1 DEF Has
      <4>3. Has(l, i, t)
        BY <1>1, <1>2, <2>3, <4>2
      <4>4. i < j
        <5>1. TermIn(l, i) = t /\ TermIn(l, j) = u
          BY <1>2, <2>3, <4>2, <4>3 DEF Has, TermIn
        <5>2. j <= i => TermIn(l, j) <= TermIn(l, i)
          BY <2>3, <3>2, <4>3 DEF Rising, Has
        <5>. QED BY <5>1, <5>2
      <4>5. i \in 1..p.base /\ i <= Len(w)
        BY <1>2, <2>4, <2>6, <3>2, <3>3, <4>4
      <4>. QED BY <2>2, <2>3, <4>3, <4>5 DEF Has
    <3>4. CASE p.base < j
      <4>1. Has(p, j, u)
        BY <2>2, <3>2, <3>4 DEF Has
      <4>2. (p.base < i => Has(p, i, t)) /\ (i <= p.base => t <= p.before)
        BY <1>1, <2>1, <4>1
      <4>3. i <= End(p)
        BY <2>4, <4>2 DEF Has
      <4>4. HasLog(m.dst, i, t)'
        BY <1>6, <4>2, <4>3, MergeGets
      <4>5. i <= Len(w) /\ w[i].term = t
        BY <2>1, <4>4 DEF HasLog
      <4>. QED BY <1>2, <2>3, <4>5 DEF Has
    <3>. QED BY <2>4, <3>3, <3>4
  <2>. HIDE DEF w, Goal
  <2>. QED BY <2>2, <2>5, <2>6
<1>. HIDE DEF Goal
<1>7. Goal
  BY <1>3, <1>4, <1>5, <1>6, PieceSources
<1>. QED BY <1>7 DEF Goal

\* Requests of later terms keep reaching it.
LEMMA ReachingStep ==
  ASSUME TypeInv, TypeOK', LogInv, LeadsInv, [Next]_vars,
         NEW i \in Nat, NEW t \in Nat, Own(i, t), Later(i, t), Reaching(i, t)
  PROVE  Reaching(i, t)'
<1>. SUFFICES ASSUME NEW a \in AppendRequests', a \notin AppendRequests, t < a.term
              PROVE  i <= End(SentPiece(a))
  BY DEF Reaching
<1>1. PICK n \in Node, b \in Nat :
        /\ role[n] = "leader" /\ a.term = currentTerm[n]
        /\ b <= Len(log[n]) /\ SentPiece(a) = TailPiece(log[n], b)
  BY RequestSources
<1>2. HasLog(n, i, t)
  <2>1. currentTerm[n] \in Nat /\ TypeOK /\ HoldsInv
    BY DEF LogInv, TypeInv, TypeOK
  <2>2. t <= currentTerm[n]
    BY <1>1, <2>1
  <2>. QED BY <1>1, <2>1, <2>2, LeaderHas
<1>3. End(SentPiece(a)) = Len(log[n])
  BY <1>1, TailPieceIs DEF TypeInv, TypeOK
<1>. QED BY <1>2, <1>3 DEF HasLog

\* A candidate that describes a log as good as one with the entry has it too.
LEMMA AskedHas ==
  ASSUME TypeOK, RisingInv, SameTermInv, NEW i \in Nat, NEW t \in Nat, Own(i, t), Later(i, t),
         NEW v \in Node, HasLog(v, i, t), NEW c \in Node, NEW m,
         m.lastLogTerm = LastTerm(log[c]), m.lastLogIndex = Len(log[c]), LogOk(m, log[v])
  PROVE  HasLog(c, i, t)
<1>1. \A n \in {v, c} : /\ log[n] \in Seq(Entry) /\ Len(log[n]) \in Nat /\ LastTerm(log[n]) \in Nat
                        /\ LogPiece(log[n]) \in Pieces
  <2>. SUFFICES ASSUME NEW n \in Node
                PROVE  /\ log[n] \in Seq(Entry) /\ Len(log[n]) \in Nat /\ LastTerm(log[n]) \in Nat
                       /\ LogPiece(log[n]) \in Pieces
    OBVIOUS
  <2>1. log[n] \in Seq(Entry) /\ Len(log[n]) \in Nat
    BY LenProperties DEF TypeOK
  <2>2. Len(log[n]) <= Len(log[n])
    BY <2>1
  <2>. QED BY <2>1, <2>2, TermAtType DEF Pieces, LastTerm
<1>2. \/ LastTerm(log[c]) > LastTerm(log[v])
      \/ LastTerm(log[c]) = LastTerm(log[v]) /\ Len(log[c]) >= Len(log[v])
  BY DEF LogOk, LastIndex
<1>3. 0 < i /\ i <= Len(log[v]) /\ log[v][i].term = t
  BY DEF HasLog
<1>4. t <= LastTerm(log[v])
  <2>. DEFINE l == LogPiece(log[v])
  <2>1. /\ l.base = 0 /\ End(l) = Len(log[v]) /\ Rising(l)
        /\ \A j \in Nat : TermIn(l, j) = TermAt(log[v], j)
    BY <1>1, LogPieceIs DEF RisingInv
  <2>. HIDE DEF l
  <2>2. TermIn(l, i) <= TermIn(l, Len(log[v]))
    BY <1>1, <1>3, <2>1 DEF Rising
  <2>. QED BY <1>1, <1>3, <2>1, <2>2 DEF TermAt, LastTerm
<1>5. CASE t < LastTerm(log[c])
  <2>1. HasLog(c, Len(log[c]), LastTerm(log[c]))
    BY <1>1, <1>5 DEF HasLog, LastTerm, TermAt
  <2>2. Has(LogPiece(log[c]), Len(log[c]), LastTerm(log[c]))
    BY <1>1, <2>1, HasLogIs
  <2>3. Has(LogPiece(log[c]), i, t)
    BY <1>1, <1>3, <1>5, <2>2 DEF Later, LogPiece
  <2>. QED BY <2>3, HasLogIs
<1>6. CASE t = LastTerm(log[c]) /\ Len(log[v]) <= Len(log[c])
  <2>1. 0 < Len(log[c]) /\ i <= Len(log[c])
    BY <1>1, <1>3, <1>6
  <2>2. HasLog(c, Len(log[c]), t)
    BY <1>1, <1>6, <2>1 DEF HasLog, LastTerm, TermAt
  <2>. QED BY <1>1, <2>1, <2>2, LogReaches
<1>. QED BY <1>1, <1>2, <1>4, <1>5, <1>6

\* Its holders keep it, and go on electing only members that have it.
LEMMA HeldStep ==
  ASSUME TypeInv, TypeOK', LogInv, RisingInv, LeadsInv, SentInv, AskedInv, VotesPast,
         SameTermInv, EvidenceAgrees', [Next]_vars,
         NEW i \in Nat, NEW t \in Nat, Own(i, t), ElectedHold(i, t),
         NEW S \in SUBSET Node, Safe(i, t, S), NEW R \in SUBSET Node,
         \A v \in R : v \in S \/ (currentTerm'[v] = t /\ HasLog(v, i, t)')
  PROVE  Held(i, t, R)'
<1>1. Later(i, t) /\ Reaching(i, t) /\ Held(i, t, S)
  BY DEF Safe
<1>2. \A n \in Node : /\ currentTerm[n] \in Nat /\ currentTerm'[n] \in Nat
                      /\ currentTerm[n] <= currentTerm'[n]
  BY TermsGrow DEF TypeInv
<1>3. ASSUME NEW v \in R PROVE t <= currentTerm'[v] /\ HasLog(v, i, t)'
  <2>1. CASE v \in S
    <3>1. t <= currentTerm[v] /\ HasLog(v, i, t) /\ v \in Node
      BY <1>1, <2>1 DEF Held
    <3>2. HasLog(v, i, t)'
      BY <1>1, <3>1, SafeKeeps
    <3>3. t <= currentTerm'[v]
      BY <1>2, <3>1
    <3>. QED BY <3>2, <3>3
  <2>2. CASE currentTerm'[v] = t /\ HasLog(v, i, t)'
    BY <2>2
  <2>. QED BY <2>1, <2>2
<1>4. ASSUME NEW v \in R, NEW c \in Node, role'[c] # "follower", t < currentTerm'[c],
             NEW u \in Nat, u = currentTerm'[c], VotedFor(v, u, c)'
      PROVE  HasLog(c, i, t)'
  <2>1. u <= currentTerm'[v]
    BY <1>4 DEF EvidenceAgrees
  <2>2. v \in S /\ v \in Node
    BY <1>2, <1>4, <2>1
  <2>3. /\ role'[c] \in {"leader", "candidate"}
        /\ role'[c] = "leader" =>
              currentTerm'[c] = currentTerm[c] /\ role[c] \in {"leader", "candidate"}
        /\ role'[c] = "candidate" =>
              \/ currentTerm'[c] = currentTerm[c] /\ role[c] = "candidate"
              \/ currentTerm'[c] > currentTerm[c]
    BY <1>4, RoleSteps DEF TypeInv, TypeOK, Role
  <2>4. CASE role'[c] = "leader"
    BY <1>1, <1>4, <2>4, LeaderHad
  <2>5. CASE role'[c] = "candidate"
    <3>1. SUFFICES HasLog(c, i, t)
      BY <2>5, CandidateLog DEF HasLog
    <3>2. CASE VotedFor(v, u, c)
      <4>1. u <= currentTerm[c]
        BY <3>2 DEF VotesPast
      <4>2. currentTerm[c] = u /\ role[c] = "candidate"
        BY <1>2, <1>4, <2>3, <2>5, <4>1
      <4>. QED BY <1>1, <1>4, <2>2, <3>2, <4>2 DEF Held
    <3>3. CASE v = c
      BY <1>1, <2>2, <3>3 DEF Held
    <3>4. CASE \E m \in rpcs : /\ m.type = "VoteRequest" /\ m.src = c /\ m.dst = v /\ m.term = u
                               /\ LogOk(m, log[v])
      <4>1. PICK m \in rpcs : /\ m.type = "VoteRequest" /\ m.src = c /\ m.dst = v /\ m.term = u
                              /\ LogOk(m, log[v])
        BY <3>4
      <4>2. u <= currentTerm[c]
        BY <4>1 DEF AskedInv
      <4>3. currentTerm[c] = u /\ role[c] = "candidate"
        BY <1>2, <1>4, <2>3, <2>5, <4>2
      <4>4. m.lastLogTerm = LastTerm(log[c]) /\ m.lastLogIndex = Len(log[c])
        BY <4>1, <4>3 DEF AskedInv
      <4>5. HasLog(v, i, t)
        BY <1>1, <2>2 DEF Held
      <4>. QED BY <1>1, <2>2, <4>1, <4>4, <4>5, AskedHas DEF TypeInv
    <3>5. VotedFor(v, u, c)'
      BY <1>4
    <3>. QED BY <2>2, <3>2, <3>3, <3>4, <3>5, VoteSources
  <2>. QED BY <2>3, <2>4, <2>5
<1>. QED BY <1>2, <1>3, <1>4 DEF Held

\* What is safe stays safe, also with members that acknowledge it in the step.
LEMMA SafeStep ==
  ASSUME TypeInv, TypeOK', LogInv, TermsInv, SameTermInv, EvidenceAgrees', [Next]_vars,
         NEW i \in Nat, NEW t \in Nat, Own(i, t), ElectedHold(i, t),
         NEW S \in SUBSET Node, Safe(i, t, S), NEW R \in SUBSET Node,
         \A v \in R : v \in S \/ (currentTerm'[v] = t /\ HasLog(v, i, t)')
  PROVE  Safe(i, t, R)'
<1>1. RisingInv /\ LeadsInv /\ SentInv /\ AskedInv /\ VotesPast
  BY DEF TermsInv
<1>2. Later(i, t) /\ Reaching(i, t)
  BY DEF Safe
<1>3. Later(i, t)'
  BY <1>1, <1>2, LaterStep
<1>4. Reaching(i, t)'
  BY <1>1, <1>2, ReachingStep
<1>5. Held(i, t, R)'
  BY <1>1, HeldStep
<1>. QED BY <1>3, <1>4, <1>5 DEF Safe

\* Who is elected in a later term has it, when every majority that could elect it has a
\* member that holds it.
LEMMA ElectedOf ==
  ASSUME TypeInv, TypeOK', EvidenceAgrees, LeaderHasMajority', [Next]_vars,
         NEW i \in Nat, NEW t \in Nat, NEW S \in SUBSET Node, Held(i, t, S),
         \A Q \in SUBSET Node :
            Cardinality(Q) >= Majority /\ (\A v \in Q : t < currentTerm[v]) => \E v \in Q : v \in S
  PROVE  ElectedHold(i, t)
<1>. SUFFICES ASSUME NEW k \in Node, role[k] # "leader", role'[k] = "leader", t < currentTerm'[k]
              PROVE  HasLog(k, i, t)
  BY DEF ElectedHold
<1>1. /\ role[k] = "candidate" /\ currentTerm'[k] = currentTerm[k] /\ currentTerm[k] \in Nat
      /\ \A v \in votes'[k] : VotedFor(v, currentTerm[k], k)
  BY ElectionSources DEF TypeInv, TypeOK
<1>2. votes'[k] \in SUBSET Node /\ Cardinality(votes'[k]) >= Majority
  BY DEF LeaderHasMajority, TypeOK, Majority
<1>3. ASSUME NEW v \in votes'[k] PROVE t < currentTerm[v]
  <2>1. v \in Node /\ currentTerm[v] \in Nat
    BY <1>2 DEF TypeInv, TypeOK
  <2>2. currentTerm[k] <= currentTerm[v]
    BY <1>1, <2>1 DEF EvidenceAgrees
  <2>. QED BY <1>1, <2>1, <2>2
<1>4. PICK v \in votes'[k] : v \in S
  BY <1>2, <1>3
<1>. QED BY <1>1, <1>4 DEF Held

-----------------------------------------------------------------------------
(* Whatever was acknowledged is safe, or will never be by a majority. *)

\* Every entry is blocked, or safe with all who acknowledged it.
AckedSafe ==
  \A i, t \in Nat : Own(i, t) =>
    \/ Blocked(i, t)
    \/ \E S \in SUBSET Node : (\A v \in Node : Acked(v, i, t) => v \in S) /\ Safe(i, t, S)

\* The leader of a term is who the term is decided for.
LedByDecided ==
  \A n, q \in Node : role[n] = "leader" /\ Decided(currentTerm[n], q) => q = n

\* Its voters are a majority, and so share a voter with any decision.
LEMMA LedBy == TypeOK /\ ElectionInv => LedByDecided
<1>. SUFFICES ASSUME TypeOK, ElectionInv, NEW n \in Node, NEW q \in Node, role[n] = "leader",
                     Decided(currentTerm[n], q)
              PROVE  q = n
  BY DEF LedByDecided
<1>1. PICK Q \in SUBSET Node :
        /\ Cardinality(Q) >= Majority
        /\ \A v \in Q : \A c \in Node : VotedFor(v, currentTerm[n], c) => c = q
  BY DEF Decided
<1>2. votes[n] \in SUBSET Node /\ Cardinality(votes[n]) >= Majority
  BY DEF ElectionInv, LeaderHasMajority, TypeOK
<1>3. PICK v \in Q : v \in votes[n]
  BY <1>1, <1>2, MajoritiesIntersect
<1>4. VotedFor(v, currentTerm[n], n)
  BY <1>3 DEF VotedFor
<1>. QED BY <1>1, <1>4

\* It holds after a step.
LEMMA LedByNext == TypeOK' /\ ElectionInv' => LedByDecided'
  BY LedBy, PTL

\* So does what the evidence is for.
LEMMA AcksAreTrueNext == TypeOK' /\ SameTermInv' /\ AckInv' /\ CountInv' => AcksHold'
  BY AcksAreTrue, PTL

\* An entry that is new has not been acknowledged by anybody.
LEMMA NewUnacked ==
  ASSUME TypeInv, TypeOK', ElectionInv, ElectionInv', LogInv, CalledInv, CountInv, [Next]_vars,
         NEW i \in Nat, NEW t \in Nat, ~Own(i, t), Own(i, t)', NEW v \in Node
  PROVE  ~Acked(v, i, t)
<1>. SUFFICES ASSUME Acked(v, i, t) PROVE FALSE
  OBVIOUS
<1>1. ASSUME NEW k \in Node, HasLog(k, i, t) PROVE FALSE
  BY <1>1, HasLogIs DEF Own, TypeInv
<1>2. PICK x \in Pieces' : Has(x, i, t)
  BY DEF Own
<1>3. PICK n \in Node : role'[n] = "leader" /\ t = currentTerm'[n]
                        /\ i <= Len(log'[n]) /\ log'[n][i].term = t
  <2>1. ASSUME NEW y \in Pieces, y.base < i, i <= End(y), At(y, i) = At(x, i) PROVE FALSE
    BY <1>2, <2>1 DEF Own, Has
  <2>. QED BY <1>2, <2>1, EntrySources DEF LogInv, Has
<1>4. /\ currentTerm[n] = t /\ role[n] \in {"leader", "candidate"}
      /\ Len(log[n]) \in Nat /\ \A j \in 1..Len(log[n]) : log'[n][j] = log[n][j]
  BY <1>3, RoleSteps, LeaderLog, LenProperties DEF TypeInv, TypeOK
<1>5. 0 < i
  <2>1. x \in Piece /\ x.base \in Nat
    BY <1>2, PiecesNext, PieceType DEF PiecesOK
  <2>. QED BY <1>2, <2>1 DEF Has
<1>6. Len(log[n]) < i
  <2>1. SUFFICES ASSUME ~(Len(log[n]) < i) PROVE FALSE
    BY <1>2, <1>4, <1>5
  <2>2. HasLog(n, i, t)
    BY <1>3, <1>4, <1>5, <2>1 DEF HasLog
  <2>. QED BY <1>1, <2>2
\* Who the term was decided for before the step is its leader, then and now.
<1>7. ASSUME NEW q \in Node, Decided(t, q) PROVE q = n /\ role[n] = "leader"
  <2>1. Decided(t, q)'
    BY <1>7, DecidedStays DEF TypeInv
  <2>2. \A k, w \in Node : role'[k] = "leader" /\ Decided(currentTerm[k], w)' => w = k
    BY LedByNext DEF LedByDecided
  <2>3. Decided(currentTerm[n], q)'
    BY <1>3, <2>1 DEF Decided
  <2>4. q = n
    BY <1>3, <2>2, <2>3
  <2>. QED BY <1>4, <1>7, <2>4 DEF Decided
<1>8. ASSUME NEW m \in rpcs, m.type = "AppendReply", m.success, m.dst = v, m.term = t, i <= m.sentUpTo
      PROVE  FALSE
  <2>1. m.src \in Node /\ m.sentUpTo \in Nat
    <3>1. m \in AppendReply
      BY <1>8, RpcKinds DEF TypeInv, TypeOK
    <3>. QED BY <3>1 DEF AppendReply
  <2>2. Decided(t, m.src)
    BY <1>8 DEF CalledInv, Called
  <2>3. m.src = n /\ role[n] = "leader"
    BY <1>7, <2>1, <2>2
  <2>4. m.sentUpTo <= Len(log[n])
    BY <1>4, <1>8, <2>3 DEF TypeInv, AppendCallsInLog, IsAppend, SentUpTo
  <2>. QED BY <1>4, <1>6, <1>8, <2>1, <2>4
<1>9. ASSUME NEW k \in Node, role[k] = "leader", currentTerm[k] = t, i <= matchIndex[k][v]
      PROVE  FALSE
  <2>1. Decided(t, k)
    BY <1>9, LeaderDecided DEF TypeInv
  <2>2. k = n
    BY <1>7, <2>1
  <2>3. matchIndex[k][v] \in Nat /\ matchIndex[k][v] > 0
    <3>1. matchIndex[k][v] \in Nat
      BY DEF TypeInv, TypeOK
    <3>. QED BY <1>5, <1>9, <3>1
  <2>4. matchIndex[k][v] <= Len(log[n])
    BY <1>9, <2>2, <2>3 DEF CountInv
  <2>. QED BY <1>4, <1>6, <1>9, <2>3, <2>4
<1>. QED BY <1>1, <1>8, <1>9 DEF Acked

\* Every step keeps it: a term that is left without a majority blocks the entry, and
\* any later leader was elected by somebody who has it.
LEMMA AckedSafeStep ==
  ASSUME TypeInv, TypeOK', ElectionInv, ElectionInv', LogInv, LogInv', TermsInv, TermsInv',
         SameTermInv, SameTermInv', AckInv', CountInv, CountInv', AckedSafe, [Next]_vars
  PROVE  AckedSafe'
<1>. SUFFICES ASSUME NEW i \in Nat, NEW t \in Nat, Own(i, t)', ~Blocked(i, t)',
                     NEW R \in SUBSET Node, R = {v \in Node : Acked(v, i, t)'}
              PROVE  Safe(i, t, R)'
  <2>1. ASSUME NEW i \in Nat, NEW t \in Nat, Own(i, t)', ~Blocked(i, t)'
        PROVE  \E S \in SUBSET Node : (\A v \in Node : Acked(v, i, t)' => v \in S) /\ Safe(i, t, S)'
    <3>1. PICK R \in SUBSET Node : R = {v \in Node : Acked(v, i, t)'}
      OBVIOUS
    <3>2. Safe(i, t, R)'
      BY <2>1, <3>1
    <3>. QED BY <3>1, <3>2
  <2>. QED BY <2>1 DEF AckedSafe
<1>1. \A v \in R : v \in Node /\ Acked(v, i, t)'
  OBVIOUS
<1>2. AcksHold'
  BY AcksAreTrueNext
<1>3. ASSUME NEW v \in R, currentTerm'[v] = t PROVE HasLog(v, i, t)'
  BY <1>1, <1>2, <1>3 DEF AcksHold
<1>4. CASE Own(i, t)
  <2>1. 0 < i
    BY <1>4, OwnIs DEF TypeInv
  <2>2. ~Blocked(i, t)
    BY <2>1, BlockedStays
  <2>3. PICK S \in SUBSET Node : (\A v \in Node : Acked(v, i, t) => v \in S) /\ Safe(i, t, S)
    BY <1>4, <2>2 DEF AckedSafe
  <2>4. \A Q \in SUBSET Node :
          Cardinality(Q) >= Majority /\ (\A v \in Q : t < currentTerm[v]) => \E v \in Q : v \in S
    BY <2>2, <2>3 DEF Blocked
  <2>5. ElectedHold(i, t)
    BY <2>3, <2>4, ElectedOf DEF ElectionInv, Safe
  <2>6. ASSUME NEW v \in R PROVE v \in S \/ (currentTerm'[v] = t /\ HasLog(v, i, t)')
    <3>1. Acked(v, i, t) \/ currentTerm'[v] = t
      BY <1>1, <2>1, AckedStep
    <3>. QED BY <1>1, <1>3, <2>3, <3>1
  <2>. QED BY <1>4, <2>3, <2>5, <2>6, SafeStep DEF ElectionInv
<1>5. CASE ~Own(i, t)
  <2>1. 0 < i
    <3>1. PICK x \in Pieces' : Has(x, i, t)
      BY DEF Own
    <3>2. x \in Piece /\ x.base \in Nat
      BY <3>1, PiecesNext, PieceType DEF PiecesOK
    <3>. QED BY <3>1, <3>2 DEF Has
  <2>2. ASSUME NEW v \in Node, Acked(v, i, t)' PROVE currentTerm'[v] = t
    <3>1. CalledInv
      BY DEF TermsInv
    <3>2. ~Acked(v, i, t)
      BY <1>5, <3>1, NewUnacked
    <3>. QED BY <2>1, <2>2, <3>2, AckedStep
\* Nobody is in a later term who could have acknowledged it, so no later term is decided.
  <2>3. ASSUME NEW u \in Nat, t < u, NEW q, Decided(u, q)' PROVE FALSE
    <3>1. PICK Q \in SUBSET Node : /\ Cardinality(Q) >= Majority'
                                   /\ \A v \in Q : u <= currentTerm'[v]
      BY <2>3 DEF Decided
    <3>2. ASSUME NEW v \in Q PROVE t < currentTerm'[v] /\ ~Acked(v, i, t)'
      <4>1. v \in Node /\ currentTerm'[v] \in Nat /\ u <= currentTerm'[v]
        BY <3>1 DEF TypeOK
      <4>2. t < currentTerm'[v] /\ currentTerm'[v] # t
        BY <2>3, <4>1
      <4>. QED BY <2>2, <4>1, <4>2
    <3>. QED BY <3>1, <3>2 DEF Blocked
  <2>4. Later(i, t)'
    <3>. SUFFICES ASSUME NEW x \in Pieces', NEW j \in Nat, NEW u \in Nat, Has(x, j, u), t < u
                  PROVE  FALSE
      BY DEF Later
    <3>1. \E q \in Node : Decided(u, q)'
      BY DEF LogInv, OwnedInv, Has
    <3>. QED BY <2>3, <3>1
  <2>5. Reaching(i, t)'
    <3>. SUFFICES ASSUME NEW m \in AppendRequests', t < m.term PROVE FALSE
      BY DEF Reaching
    <3>1. m \in rpcs' /\ m.term \in Nat
      BY RpcKinds DEF AppendRequests, TypeOK
    <3>2. Decided(m.term, m.src)'
      BY <3>1 DEF TermsInv, CalledInv, Called, AppendRequests
    <3>. QED BY <2>3, <3>1, <3>2
  <2>6. ASSUME NEW v \in R PROVE currentTerm'[v] = t /\ HasLog(v, i, t)'
    BY <1>1, <1>3, <2>2
  <2>7. ASSUME NEW v \in R, NEW c \in Node, NEW u \in Nat, t < u, VotedFor(v, u, c)' PROVE FALSE
    <3>1. u <= currentTerm'[v]
      BY <1>1, <2>7 DEF ElectionInv, EvidenceAgrees
    <3>. QED BY <2>6, <2>7, <3>1
  <2>8. Held(i, t, R)'
    <3>1. \A c \in Node : currentTerm'[c] \in Nat
      BY DEF TypeOK
    <3>2. \A v \in R : t <= currentTerm'[v] /\ HasLog(v, i, t)'
      BY <2>6
    <3>3. \A v \in R, c \in Node : t < currentTerm'[c] => ~VotedFor(v, currentTerm[c], c)'
      <4>. SUFFICES ASSUME NEW v \in R, NEW c \in Node, t < currentTerm'[c],
                           VotedFor(v, currentTerm[c], c)'
                    PROVE  FALSE
        OBVIOUS
      <4>1. PICK u \in Nat : u = currentTerm'[c]
        BY <3>1
      <4>2. VotedFor(v, u, c)'
        BY <4>1 DEF VotedFor
      <4>. QED BY <2>7, <4>1, <4>2
    <3>. QED BY <3>2, <3>3 DEF Held
  <2>. QED BY <2>4, <2>5, <2>8 DEF Safe
<1>. QED BY <1>4, <1>5

-----------------------------------------------------------------------------
(* What is committed. *)

\* The entry of term t at i is safe with a majority.
Fixed(i, t) ==
  Own(i, t) /\ \E S \in SUBSET Node : Cardinality(S) >= Majority /\ Safe(i, t, S)

\* A commit index is below an entry that is fixed and in the log of its member.
CommitInv ==
  \A n \in Node : commitIndex[n] = 0 \/
    \E i, t \in Nat : /\ Fixed(i, t) /\ HasLog(n, i, t)
                      /\ commitIndex[n] <= i /\ t <= currentTerm[n]

\* A request that tells of a commit index reaches beyond it.
SentCommitInv ==
  \A m \in AppendRequests : m.leaderCommit = 0 \/
    \E i, t \in Nat : /\ Fixed(i, t) /\ i <= End(SentPiece(m))
                      /\ m.leaderCommit <= i /\ t <= m.term

\* What is fixed stays fixed.
LEMMA FixedStays ==
  ASSUME TypeInv, TypeOK', ElectionInv, ElectionInv', LogInv, TermsInv, SameTermInv, [Next]_vars,
         NEW i \in Nat, NEW t \in Nat, Fixed(i, t)
  PROVE  Fixed(i, t)'
<1>1. PICK S \in SUBSET Node : Cardinality(S) >= Majority /\ Safe(i, t, S)
  BY DEF Fixed
<1>2. Own(i, t)
  BY DEF Fixed
<1>3. \A Q \in SUBSET Node :
        Cardinality(Q) >= Majority /\ (\A v \in Q : t < currentTerm[v]) => \E v \in Q : v \in S
  BY <1>1, MajoritiesIntersect
<1>4. ElectedHold(i, t)
  BY <1>1, <1>3, ElectedOf DEF ElectionInv, Safe
<1>5. Safe(i, t, S)'
  BY <1>1, <1>2, <1>4, SafeStep DEF ElectionInv
<1>6. PICK v \in S : v \in Node
  BY <1>1, MajoritiesIntersect
<1>7. Own(i, t)'
  <2>1. HasLog(v, i, t)'
    BY <1>5 DEF Safe, Held
  <2>2. 0 < i /\ i <= Len(log'[v]) /\ log'[v][i].term = t /\ log'[v] \in Seq(Entry)
    BY <2>1, <1>6 DEF HasLog, TypeOK
  <2>3. LogPiece(log'[v]) \in Pieces'
    BY <1>6 DEF Pieces
  <2>4. Has(LogPiece(log'[v]), i, t)
    BY <2>2, LogPieceIs DEF Has
  <2>. QED BY <2>3, <2>4 DEF Own
<1>. QED BY <1>1, <1>5, <1>7 DEF Fixed, Majority

\* Who knows that a fixed entry is committed keeps all up to it.
LEMMA FixedKeeps ==
  ASSUME TypeInv, TypeOK', LogInv, TermsInv, SameTermInv, [Next]_vars,
         NEW i \in Nat, NEW t \in Nat, Fixed(i, t),
         NEW n \in Node, HasLog(n, i, t), t <= currentTerm[n]
  PROVE  HasLog(n, i, t)' /\ \A j \in 1..i : log'[n][j] = log[n][j]
<1>1. Own(i, t) /\ Later(i, t) /\ Reaching(i, t) /\ SentInv
  BY DEF Fixed, Safe, TermsInv
<1>. QED BY <1>1, SafeKeeps

\* Requests carry only commit indexes of their senders.
LEMMA SentCommitStep ==
  ASSUME TypeInv, TypeOK', ElectionInv, ElectionInv', LogInv, TermsInv, SameTermInv,
         CommitInv, SentCommitInv, [Next]_vars
  PROVE  SentCommitInv'
<1>1. \A i, t \in Nat : Fixed(i, t) => Fixed(i, t)'
  BY FixedStays
<1>2. ASSUME NEW a \in AppendRequests', a \notin AppendRequests, a.leaderCommit # 0
      PROVE  \E i, t \in Nat : /\ Fixed(i, t) /\ i <= End(SentPiece(a))
                               /\ a.leaderCommit <= i /\ t <= a.term
  <2>1. PICK n \in Node, b \in Nat :
           /\ a.term = currentTerm[n] /\ a.leaderCommit = commitIndex[n]
           /\ b <= Len(log[n]) /\ SentPiece(a) = TailPiece(log[n], b)
    BY <1>2, RequestSources
  <2>2. PICK i \in Nat, t \in Nat :
           Fixed(i, t) /\ HasLog(n, i, t) /\ commitIndex[n] <= i /\ t <= currentTerm[n]
    BY <1>2, <2>1 DEF CommitInv
  <2>3. End(SentPiece(a)) = Len(log[n])
    BY <2>1, TailPieceIs DEF TypeInv, TypeOK
  <2>. QED BY <2>1, <2>2, <2>3 DEF HasLog
<1>3. ASSUME NEW a \in AppendRequests', a.leaderCommit # 0
      PROVE  \E i, t \in Nat : /\ Fixed(i, t)' /\ i <= End(SentPiece(a))
                               /\ a.leaderCommit <= i /\ t <= a.term
  BY <1>1, <1>2, <1>3 DEF SentCommitInv
<1>. QED BY <1>3 DEF SentCommitInv

\* What a leader commits is in its log and counted for a majority.
LEMMA CommitCounts ==
  ASSUME TypeOK, NEW n \in Node, NEW match \in [Node -> Nat], NEW i, i \in Committable(n, match)
  PROVE  /\ i \in Nat /\ HasLog(n, i, currentTerm[n])
         /\ \E A \in SUBSET Node :
              Cardinality(A) >= Majority /\ \A v \in A : v = n \/ i <= match[v]
<1>. DEFINE P == {p \in Peers(n) : match[p] >= i}
<1>1. commitIndex[n] \in Nat /\ Len(log[n]) \in Nat
  BY LenProperties DEF TypeOK
<1>2. /\ i \in Nat /\ 0 < i /\ i <= Len(log[n]) /\ log[n][i].term = currentTerm[n]
      /\ 1 + Cardinality(P) >= Majority
  BY <1>1 DEF Committable
<1>3. HasLog(n, i, currentTerm[n])
  BY <1>2 DEF HasLog
<1>4. P \in SUBSET Node /\ IsFiniteSet(P) /\ n \notin P
  <2>1. P \in SUBSET Node /\ n \notin P
    BY DEF Peers
  <2>. QED BY <2>1, NodeAssumption, FS_Subset
<1>5. Cardinality(P \cup {n}) = Cardinality(P) + 1 /\ Cardinality(P) \in Nat
  BY <1>4, FS_AddElement, FS_CardinalityType
<1>6. \A v \in P \cup {n} : v = n \/ i <= match[v]
  BY <1>2, <1>4
<1>7. Cardinality(P \cup {n}) >= Majority
  <2>1. Majority \in Nat
    BY NodeAssumption, FS_CardinalityType DEF Majority
  <2>. HIDE DEF P
  <2>. QED BY <1>2, <1>5, <2>1
<1>. QED BY <1>2, <1>3, <1>4, <1>6, <1>7

\* Every commit index moves to an entry that is fixed.
LEMMA CommitStep ==
  ASSUME TypeInv, TypeOK', ElectionInv, ElectionInv', LogInv, LogInv', TermsInv, SameTermInv,
         AckedSafe', CommitInv, SentCommitInv, [Next]_vars
  PROVE  CommitInv'
<1>. SUFFICES ASSUME NEW n \in Node, commitIndex'[n] # 0
              PROVE  \E i, t \in Nat : /\ Fixed(i, t)' /\ HasLog(n, i, t)'
                                       /\ commitIndex'[n] <= i /\ t <= currentTerm'[n]
  BY DEF CommitInv
<1>. DEFINE Goal == \E i, t \in Nat : /\ Fixed(i, t)' /\ HasLog(n, i, t)'
                                      /\ commitIndex'[n] <= i /\ t <= currentTerm'[n]
<1>1. /\ currentTerm[n] \in Nat /\ currentTerm'[n] \in Nat /\ currentTerm[n] <= currentTerm'[n]
      /\ log'[n] \in Seq(Entry) /\ Len(log'[n]) \in Nat
  BY TermsGrow, LenProperties DEF TypeInv, TypeOK
<1>2. ASSUME commitIndex'[n] = commitIndex[n] PROVE Goal
  <2>1. PICK i \in Nat, t \in Nat :
           Fixed(i, t) /\ HasLog(n, i, t) /\ commitIndex[n] <= i /\ t <= currentTerm[n]
    BY <1>2 DEF CommitInv
  <2>2. Fixed(i, t)'
    BY <2>1, FixedStays
  <2>3. HasLog(n, i, t)'
    BY <2>1, FixedKeeps
  <2>4. t <= currentTerm'[n]
    BY <1>1, <2>1
  <2>. QED BY <1>2, <2>1, <2>2, <2>3, <2>4
<1>3. ASSUME NEW m \in AppendRequests, Merges(m), n = m.dst, commitIndex[n] < m.leaderCommit,
             commitIndex'[n] = Min({m.leaderCommit, Len(log'[n])})
      PROVE  Goal
  <2>1. m.leaderCommit \in Nat /\ m.term \in Nat /\ commitIndex[n] \in Nat
    BY PiecesType DEF AppendRequest, TypeInv, TypeOK
  <2>2. commitIndex'[n] <= m.leaderCommit
    BY <1>1, <1>3, <2>1, MinOfTwo
  <2>3. m.leaderCommit # 0
    BY <1>3, <2>1
  <2>4. PICK i \in Nat, t \in Nat :
           Fixed(i, t) /\ i <= End(SentPiece(m)) /\ m.leaderCommit <= i /\ t <= m.term
    BY <2>3 DEF SentCommitInv
  <2>5. Own(i, t) /\ Later(i, t) /\ SentInv
    BY <2>4 DEF Fixed, Safe, TermsInv
  <2>6. /\ SentPiece(m).base < i => Has(SentPiece(m), i, t)
        /\ i <= SentPiece(m).base => t <= SentPiece(m).before
    BY <2>4, <2>5, SentHolds
  <2>7. HasLog(n, i, t)'
    BY <1>3, <2>4, <2>5, <2>6, MergeGets
  <2>8. Fixed(i, t)'
    BY <2>4, FixedStays
  <2>9. t <= currentTerm'[n] /\ commitIndex'[n] <= i
    <3>1. currentTerm'[n] = m.term
      BY <1>3 DEF Merges
    <3>2. commitIndex'[n] \in Nat
      BY DEF TypeOK
    <3>. QED BY <2>1, <2>2, <2>4, <3>1, <3>2
  <2>. QED BY <2>7, <2>8, <2>9
<1>4. ASSUME role[n] = "leader", UNCHANGED <<role, currentTerm, log>>,
             commitIndex'[n] \in Committable(n, matchIndex'[n])
      PROVE  Goal
  <2>1. PICK match \in [Node -> Nat] : match = matchIndex'[n]
    BY DEF TypeOK
  <2>2. PICK i : i = commitIndex'[n]
    OBVIOUS
  <2>3. PICK t : t = currentTerm[n]
    OBVIOUS
  <2>4. /\ i \in Nat /\ HasLog(n, i, t)
        /\ \E A \in SUBSET Node :
              Cardinality(A) >= Majority /\ \A v \in A : v = n \/ i <= match[v]
    BY <1>4, <2>1, <2>2, <2>3, CommitCounts DEF TypeInv
  <2>5. PICK A \in SUBSET Node :
              Cardinality(A) >= Majority /\ \A v \in A : v = n \/ i <= match[v]
    BY <2>4
  <2>6. HasLog(n, i, t)' /\ t = currentTerm'[n] /\ role'[n] = "leader" /\ t \in Nat
    BY <1>1, <1>4, <2>3, <2>4 DEF HasLog
  <2>7. \A v \in A : Acked(v, i, t)'
    BY <2>1, <2>5, <2>6 DEF Acked
  <2>8. Own(i, t)'
    <3>1. 0 < i /\ i <= Len(log'[n]) /\ log'[n][i].term = t
      BY <2>6 DEF HasLog
    <3>2. LogPiece(log'[n]) \in Pieces'
      BY DEF Pieces
    <3>3. Has(LogPiece(log'[n]), i, t)
      BY <1>1, <2>4, <3>1, LogPieceIs DEF Has
    <3>. QED BY <3>2, <3>3 DEF Own
  <2>9. ~Blocked(i, t)'
    <3>. SUFFICES ASSUME NEW Q \in SUBSET Node, Cardinality(Q) >= Majority,
                         \A v \in Q : ~Acked(v, i, t)'
                  PROVE  FALSE
      BY DEF Blocked, Majority
    <3>. QED BY <2>5, <2>7, MajoritiesIntersect
  <2>10. PICK S \in SUBSET Node : (\A v \in Node : Acked(v, i, t)' => v \in S) /\ Safe(i, t, S)'
    BY <2>4, <2>6, <2>8, <2>9 DEF AckedSafe
  <2>11. A \subseteq S /\ Cardinality(S) >= Majority
    <3>1. A \subseteq S
      BY <2>7, <2>10
    <3>2. IsFiniteSet(S) /\ Cardinality(A) <= Cardinality(S)
      BY <3>1, NodeAssumption, FS_Subset
    <3>3. Cardinality(A) \in Nat /\ Cardinality(S) \in Nat /\ Majority \in Nat
      BY <3>2, NodeAssumption, FS_Subset, FS_CardinalityType DEF Majority
    <3>. QED BY <2>5, <3>1, <3>2, <3>3
  <2>12. Fixed(i, t)'
    BY <2>8, <2>10, <2>11 DEF Fixed, Majority
  <2>13. commitIndex'[n] <= i /\ t <= currentTerm'[n]
    BY <1>1, <2>2, <2>4, <2>6
  <2>. QED BY <2>4, <2>6, <2>12, <2>13
<1>. HIDE DEF Goal
<1>5. Goal
  BY <1>2, <1>3, <1>4, CommitSources
<1>. QED BY <1>5 DEF Goal

-----------------------------------------------------------------------------
(* The inductive invariant, and what follows from it. *)

\* The inductive invariant.
CommitSafe == Acknowledged /\ AckedSafe /\ CommitInv /\ SentCommitInv

\* A group starts without entries, calls and commits.
LEMMA CommitSafeInit == Init => CommitSafe
<1>. SUFFICES ASSUME Init PROVE CommitSafe
  OBVIOUS
<1>1. CommitInv /\ SentCommitInv
  BY DEF Init, CommitInv, SentCommitInv, AppendRequests
<1>2. AckedSafe
  BY NoEntryAtFirst DEF AckedSafe, Own
<1>. QED BY <1>1, <1>2, AcknowledgedInit DEF CommitSafe

\* Every step keeps it.
LEMMA CommitSafeStep == CommitSafe /\ [Next]_vars => CommitSafe'
<1>. SUFFICES ASSUME CommitSafe, [Next]_vars PROVE CommitSafe'
  OBVIOUS
<1>1. /\ TypeInv /\ ElectionInv /\ LogInv /\ TermsInv /\ SameTermInv /\ AckInv /\ CountInv
      /\ AckedSafe /\ CommitInv /\ SentCommitInv
  BY DEF CommitSafe, Acknowledged
<1>2. Acknowledged'
  BY AcknowledgedStep DEF CommitSafe
<1>3. /\ TypeInv' /\ TypeOK' /\ ElectionInv' /\ LogInv' /\ TermsInv' /\ SameTermInv'
      /\ AckInv' /\ CountInv'
  BY <1>2 DEF Acknowledged, TypeInv
<1>10. AckedSafe'
  BY <1>1, <1>3, AckedSafeStep
<1>11. CommitInv'
  BY <1>1, <1>3, <1>10, CommitStep
<1>12. SentCommitInv'
  BY <1>1, <1>3, SentCommitStep
<1>. QED BY <1>2, <1>10, <1>11, <1>12 DEF CommitSafe

\* A leader holds all that any member of its term or an earlier one knows to be
\* committed, in groups of every size.
LEMMA CommitSafeComplete == CommitSafe => LeaderCompleteness
<1>. SUFFICES ASSUME CommitSafe, NEW n \in Node, NEW m \in Node,
                     role[n] = "leader", currentTerm[m] <= currentTerm[n]
              PROVE  IsPrefixOfLog(Committed(m), n)
  BY DEF LeaderCompleteness
<1>1. /\ TypeOK /\ HoldsInv /\ MatchInv /\ LeadsInv /\ CommitInv
      /\ commitIndex[m] \in Nat /\ currentTerm[m] \in Nat /\ currentTerm[n] \in Nat
  BY DEF CommitSafe, Acknowledged, TypeInv, TypeOK, LogInv, TermsInv
<1>2. CASE commitIndex[m] = 0
  BY <1>1, <1>2, EmptyPrefix DEF Committed
<1>3. CASE commitIndex[m] # 0
  <2>1. PICK i \in Nat, t \in Nat :
           Fixed(i, t) /\ HasLog(m, i, t) /\ commitIndex[m] <= i /\ t <= currentTerm[m]
    BY <1>1, <1>3 DEF CommitInv
  <2>2. Own(i, t) /\ Later(i, t) /\ t <= currentTerm[n]
    BY <1>1, <2>1 DEF Fixed, Safe
  <2>3. HasLog(n, i, t)
    BY <1>1, <2>2, LeaderHas
  <2>. QED BY <1>1, <2>1, <2>3, SamePrefix DEF Committed
<1>. QED BY <1>2, <1>3

\* All that a member knows to be committed is in its log and in those of a majority.
LEMMA CommitSafeMajority == CommitSafe => CommittedOnMajority
<1>. SUFFICES ASSUME CommitSafe, NEW n \in Node
              PROVE  /\ commitIndex[n] <= Len(log[n])
                     /\ Cardinality({m \in Node : IsPrefixOfLog(Committed(n), m)}) >= Majority
  BY DEF CommittedOnMajority
<1>. DEFINE Holders == {m \in Node : IsPrefixOfLog(Committed(n), m)}
<1>1. /\ TypeOK /\ MatchInv /\ CommitInv /\ commitIndex[n] \in Nat /\ Len(log[n]) \in Nat
  BY LenProperties DEF CommitSafe, Acknowledged, TypeInv, TypeOK, LogInv
<1>2. ASSUME NEW S \in SUBSET Node, Cardinality(S) >= Majority,
             \A m \in S : IsPrefixOfLog(Committed(n), m)
      PROVE  Cardinality(Holders) >= Majority
  <2>1. S \subseteq Holders /\ Holders \subseteq Node
    BY <1>2
  <2>. HIDE DEF Holders
  <2>2. IsFiniteSet(Holders) /\ IsFiniteSet(S) /\ Cardinality(S) <= Cardinality(Holders)
    BY <2>1, NodeAssumption, FS_Subset
  <2>3. Cardinality(S) \in Nat /\ Cardinality(Holders) \in Nat /\ Majority \in Nat
    BY <2>2, NodeAssumption, FS_CardinalityType DEF Majority
  <2>. QED BY <1>2, <2>2, <2>3
<1>3. CASE commitIndex[n] = 0
  <2>1. \A m \in Node : IsPrefixOfLog(Committed(n), m)
    BY <1>1, <1>3, EmptyPrefix DEF Committed
  <2>2. Cardinality(Node) >= Majority
    <3>1. Cardinality(Node) \in Nat
      BY NodeAssumption, FS_CardinalityType
    <3>2. Cardinality(Node) > 0
      <4>1. Node # {}
        OBVIOUS
      <4>. QED BY <3>1, <4>1, NodeAssumption, FS_EmptySet
    <3>. QED BY <3>1, <3>2 DEF Majority
  <2>3. Node \in SUBSET Node
    OBVIOUS
  <2>. QED BY <1>1, <1>2, <1>3, <2>1, <2>2, <2>3
<1>4. CASE commitIndex[n] # 0
  <2>1. PICK i \in Nat, t \in Nat : Fixed(i, t) /\ HasLog(n, i, t) /\ commitIndex[n] <= i
    BY <1>1, <1>4 DEF CommitInv
  <2>2. PICK S \in SUBSET Node : Cardinality(S) >= Majority /\ Safe(i, t, S)
    BY <2>1 DEF Fixed
  <2>3. \A m \in S : m \in Node /\ HasLog(m, i, t)
    BY <2>2 DEF Safe, Held
  <2>4. \A m \in S : IsPrefixOfLog(Committed(n), m)
    BY <1>1, <2>1, <2>3, SamePrefix DEF Committed
  <2>5. commitIndex[n] <= Len(log[n])
    BY <1>1, <2>1 DEF HasLog
  <2>. QED BY <1>2, <2>2, <2>4, <2>5
<1>. QED BY <1>3, <1>4

\* No step cuts or changes what a member knows to be committed.
LEMMA CommitSafeStays ==
  ASSUME CommitSafe, CommitSafe', [Next]_vars, NEW n \in Node
  PROVE  /\ commitIndex'[n] >= commitIndex[n] /\ commitIndex[n] <= Len(log'[n])
         /\ SubSeq(log'[n], 1, commitIndex[n]) = Committed(n)
<1>1. /\ TypeInv /\ TypeOK /\ TypeOK' /\ LogInv /\ TermsInv /\ SameTermInv /\ CommitInv
  BY DEF CommitSafe, Acknowledged, TypeInv
<1>2. /\ commitIndex[n] \in Nat /\ commitIndex'[n] \in Nat /\ Len(log[n]) \in Nat
      /\ log[n] \in Seq(Entry) /\ log'[n] \in Seq(Entry) /\ Len(log'[n]) \in Nat
  BY <1>1, LenProperties DEF TypeOK
\* Up to the commit index the log is there after the step, and is what it was.
<1>3. commitIndex[n] <= Len(log'[n]) /\ \A j \in 1..commitIndex[n] : log'[n][j] = log[n][j]
  <2>1. CASE commitIndex[n] = 0
    BY <1>2, <2>1
  <2>2. CASE commitIndex[n] # 0
    <3>1. PICK i \in Nat, t \in Nat :
             Fixed(i, t) /\ HasLog(n, i, t) /\ commitIndex[n] <= i /\ t <= currentTerm[n]
      BY <1>1, <2>2 DEF CommitInv
    <3>2. HasLog(n, i, t)' /\ \A j \in 1..i : log'[n][j] = log[n][j]
      BY <1>1, <3>1, FixedKeeps
    <3>3. i <= Len(log'[n])
      BY <3>2 DEF HasLog
    <3>. QED BY <1>2, <3>1, <3>2, <3>3
  <2>. QED BY <2>1, <2>2
<1>4. commitIndex[n] <= Len(log[n])
  BY CommitSafeMajority DEF CommittedOnMajority
<1>5. SubSeq(log'[n], 1, commitIndex[n]) = Committed(n)
  BY <1>2, <1>3, <1>4, EqualPrefixes DEF Committed
<1>6. ASSUME NEW m \in AppendRequests, commitIndex[n] < m.leaderCommit,
             commitIndex'[n] = Min({m.leaderCommit, Len(log'[n])})
      PROVE  commitIndex'[n] >= commitIndex[n]
  <2>1. m.leaderCommit \in Nat
    BY <1>1, PiecesType DEF AppendRequest
  <2>2. commitIndex'[n] = m.leaderCommit \/ commitIndex'[n] = Len(log'[n])
    <3>1. {m.leaderCommit, Len(log'[n])} \in SUBSET Nat
      BY <1>2, <2>1
    <3>2. Min({m.leaderCommit, Len(log'[n])}) \in {m.leaderCommit, Len(log'[n])}
      BY <3>1, Minimum
    <3>. QED BY <1>6, <3>2
  <2>. QED BY <1>2, <1>3, <1>6, <2>1, <2>2
<1>7. ASSUME commitIndex'[n] \in Committable(n, matchIndex'[n])
      PROVE  commitIndex'[n] >= commitIndex[n]
  BY <1>2, <1>7 DEF Committable
<1>8. \/ commitIndex'[n] = commitIndex[n]
      \/ \E m \in AppendRequests :
            commitIndex[n] < m.leaderCommit /\ commitIndex'[n] = Min({m.leaderCommit, Len(log'[n])})
      \/ commitIndex'[n] \in Committable(n, matchIndex'[n])
  BY <1>1, CommitSources, Zenon
<1>9. (\E m \in AppendRequests :
            commitIndex[n] < m.leaderCommit /\ commitIndex'[n] = Min({m.leaderCommit, Len(log'[n])}))
      => commitIndex'[n] >= commitIndex[n]
  BY <1>6
<1>10. commitIndex'[n] = commitIndex[n] => commitIndex'[n] >= commitIndex[n]
  BY <1>2
<1>11. commitIndex'[n] >= commitIndex[n]
  BY <1>7, <1>8, <1>9, <1>10
<1>. QED BY <1>3, <1>5, <1>11

\* Whoever is elected has everything committed, in groups of every size, whatever
\* calls are lost, late or answered after crashes.
THEOREM LeadersComplete == Spec => []LeaderCompleteness
  BY CommitSafeInit, CommitSafeStep, CommitSafeComplete, PTL DEF Spec

\* What a member knows to be committed is in the logs of a majority.
THEOREM CommitsOnMajority == Spec => []CommittedOnMajority
  BY CommitSafeInit, CommitSafeStep, CommitSafeMajority, PTL DEF Spec

\* No step of any member, however late its cause, takes back what is committed.
THEOREM CommitsStay == Spec => CommittedStays
<1>. DEFINE Step == \A n \in Node :
          /\ commitIndex'[n] >= commitIndex[n]
          /\ commitIndex[n] <= Len(log'[n])
          /\ SubSeq(log'[n], 1, commitIndex[n]) = Committed(n)
<1>1. CommitSafe /\ CommitSafe' /\ [Next]_vars => Step
  BY CommitSafeStays
<1>. HIDE DEF Step
<1>2. Spec => [][Step]_vars
  BY <1>1, CommitSafeInit, CommitSafeStep, PTL DEF Spec
<1>. QED BY <1>2 DEF CommittedStays, Step

-----------------------------------------------------------------------------
(* There is one log. *)

\* Where two members know the log to be committed, theirs is the same.
LEMMA CommittedAgree ==
  ASSUME CommitSafe, NEW n \in Node, NEW m \in Node
  PROVE  \A j \in 1..commitIndex[n] : j <= commitIndex[m] => log[n][j] = log[m][j]
<1>1. TypeOK /\ CommittedOnMajority
  BY CommitSafeMajority DEF CommitSafe, Acknowledged, TypeInv
<1>2. ASSUME NEW k \in Node, NEW v \in Node, IsPrefixOfLog(Committed(k), v)
      PROVE  \A j \in 1..commitIndex[k] : log[v][j] = log[k][j]
  <2>1. /\ log[k] \in Seq(Entry) /\ log[v] \in Seq(Entry)
        /\ Len(log[k]) \in Nat /\ Len(log[v]) \in Nat
        /\ commitIndex[k] \in Nat /\ commitIndex[k] <= Len(log[k])
    BY <1>1, LenProperties DEF TypeOK, CommittedOnMajority
  <2>2. /\ Len(Committed(k)) = commitIndex[k]
        /\ \A j \in 1..commitIndex[k] : Committed(k)[j] = log[k][j]
    <3>1. \A j \in 1..commitIndex[k] : log[k][j] \in Entry
      BY <2>1, ElementOfSeq
    <3>. QED BY <2>1, <3>1, SubSeqProperties DEF Committed
  <2>3. /\ commitIndex[k] <= Len(log[v])
        /\ Committed(k) = SubSeq(log[v], 1, commitIndex[k])
    BY <1>2, <2>2 DEF IsPrefixOfLog
  <2>4. \A j \in 1..commitIndex[k] : SubSeq(log[v], 1, commitIndex[k])[j] = log[v][j]
    <3>1. \A j \in 1..commitIndex[k] : log[v][j] \in Entry
      BY <2>1, <2>3, ElementOfSeq
    <3>. QED BY <2>1, <3>1, SubSeqProperties
  <2>. QED BY <2>2, <2>3, <2>4
<1>. DEFINE Holders(k) == {v \in Node : IsPrefixOfLog(Committed(k), v)}
<1>3. PICK v \in Node : IsPrefixOfLog(Committed(n), v) /\ IsPrefixOfLog(Committed(m), v)
  <2>1. Cardinality(Holders(n)) >= Majority /\ Cardinality(Holders(m)) >= Majority
    BY <1>1 DEF CommittedOnMajority
  <2>2. Holders(n) \in SUBSET Node /\ Holders(m) \in SUBSET Node
    OBVIOUS
  <2>. HIDE DEF Holders
  <2>3. Holders(n) \cap Holders(m) # {}
    BY <2>1, <2>2, MajoritiesIntersect
  <2>. QED BY <2>3 DEF Holders
<1>4. /\ \A j \in 1..commitIndex[n] : log[v][j] = log[n][j]
      /\ \A j \in 1..commitIndex[m] : log[v][j] = log[m][j]
  BY <1>2, <1>3
<1>5. commitIndex[n] \in Nat /\ commitIndex[m] \in Nat
  BY <1>1 DEF TypeOK
<1>. QED BY <1>4, <1>5

\* The commit index moves at one member in a step, and then nothing is handed over.
LEMMA OneCommits ==
  ASSUME TypeInv, [Next]_vars
  PROVE  \/ UNCHANGED commitIndex
         \/ /\ UNCHANGED applied
            /\ \E n \in Node : \A m \in Node \ {n} : commitIndex'[m] = commitIndex[m]
<1>. DEFINE Goal == \/ UNCHANGED commitIndex
                    \/ /\ UNCHANGED applied
                       /\ \E n \in Node : \A m \in Node \ {n} : commitIndex'[m] = commitIndex[m]
<1>1. ASSUME NEW m \in rpcs, HandleAppendEntries(m) PROVE Goal
  <2>1. m.dst \in Node /\ commitIndex \in [Node -> Nat]
    BY RpcKinds DEF TypeInv, TypeOK
  <2>2. UNCHANGED applied /\ (UNCHANGED commitIndex
          \/ \E i : commitIndex' = [commitIndex EXCEPT ![m.dst] = i])
    BY <1>1 DEF HandleAppendEntries
  <2>. QED BY <2>1, <2>2
<1>2. ASSUME NEW m \in rpcs, ReceiveAppendReply(m) PROVE Goal
  <2>1. m.src \in Node /\ commitIndex \in [Node -> Nat]
    BY RpcKinds DEF TypeInv, TypeOK
  <2>2. UNCHANGED applied /\ (UNCHANGED commitIndex
          \/ \E i : commitIndex' = [commitIndex EXCEPT ![m.src] = i])
    BY <1>2 DEF ReceiveAppendReply, AdvanceCommit
  <2>. QED BY <2>1, <2>2
<1>3. ASSUME NEW m \in rpcs, HandleRequestVote(m) \/ ReceiveVoteReply(m) \/ Lose(m)
      PROVE  UNCHANGED commitIndex
  BY <1>3 DEF HandleRequestVote, ReceiveVoteReply, Lose, logVars
<1>4. ASSUME NEW n \in Node, StartElection(n) \/ Applier(n) \/ Crash(n) \/ Restart(n)
      PROVE  UNCHANGED commitIndex
  BY <1>4 DEF StartElection, Applier, Crash, Restart, logVars
<1>5. ASSUME NEW n \in Node, NEW p \in Node, ReplicateTo(n, p) PROVE UNCHANGED commitIndex
  BY <1>5 DEF ReplicateTo, logVars
<1>6. ASSUME NEW n \in Node, NEW cmd \in Command, Propose(n, cmd) PROVE UNCHANGED commitIndex
  BY <1>6 DEF Propose
<1>7. UNCHANGED vars => UNCHANGED commitIndex
  BY DEF vars, logVars
<1>. HIDE DEF Goal
<1>8. UNCHANGED commitIndex => Goal
  BY DEF Goal
<1>9. Goal
  BY <1>1, <1>2, <1>3, <1>4, <1>5, <1>6, <1>7, <1>8 DEF Next, GroupStep
<1>. QED BY <1>9 DEF Goal

\* Only the applier hands anything over.
LEMMA OnlyApplierDelivers ==
  ASSUME [Next]_vars
  PROVE  UNCHANGED applied \/ \E n \in Node : Applier(n)
<1>1. ASSUME NEW m \in rpcs,
             \/ HandleRequestVote(m) \/ ReceiveVoteReply(m) \/ HandleAppendEntries(m)
             \/ ReceiveAppendReply(m) \/ Lose(m)
      PROVE  UNCHANGED applied
  BY <1>1 DEF HandleRequestVote, ReceiveVoteReply, HandleAppendEntries, ReceiveAppendReply,
              Lose, logVars
<1>2. ASSUME NEW n \in Node, StartElection(n) \/ Crash(n) \/ Restart(n)
      PROVE  UNCHANGED applied
  BY <1>2 DEF StartElection, Crash, Restart, logVars
<1>3. ASSUME NEW n \in Node, NEW p \in Node, ReplicateTo(n, p) PROVE UNCHANGED applied
  BY <1>3 DEF ReplicateTo, logVars
<1>4. ASSUME NEW n \in Node, NEW cmd \in Command, Propose(n, cmd) PROVE UNCHANGED applied
  BY <1>4 DEF Propose
<1>5. UNCHANGED vars => UNCHANGED applied
  BY DEF vars, logVars
<1>. QED BY <1>1, <1>2, <1>3, <1>4, <1>5 DEF Next, GroupStep

-----------------------------------------------------------------------------
(* What was handed over is the beginning of what is committed. *)

\* A member was handed the first entries of its log, none that is not committed.
DeliveredInv ==
  \A n \in Node : /\ Len(applied[n]) <= commitIndex[n]
                  /\ applied[n] = SubSeq(log[n], 1, Len(applied[n]))

\* The applier hands over all that its member knows to be committed.
LEMMA AppliedIs ==
  ASSUME CommitSafe, DeliveredInv, NEW n \in Node, Applier(n)
  PROVE  /\ applied' = [applied EXCEPT ![n] = Committed(n)]
         /\ Len(applied[n]) < Len(Committed(n)) /\ Len(Committed(n)) = commitIndex[n]
         /\ UNCHANGED <<log, commitIndex>>
<1>1. TypeOK /\ CommittedOnMajority
  BY CommitSafeMajority DEF CommitSafe, Acknowledged, TypeInv
<1>2. /\ log[n] \in Seq(Entry) /\ Len(log[n]) \in Nat /\ Len(applied[n]) \in Nat
      /\ commitIndex[n] \in Nat /\ commitIndex[n] <= Len(log[n])
  BY <1>1, LenProperties DEF TypeOK, CommittedOnMajority
<1>3. Len(applied[n]) < commitIndex[n]
  BY DEF Applier
<1>4. Min({commitIndex[n], Len(log[n])}) = commitIndex[n]
  <2>1. {commitIndex[n], Len(log[n])} \in SUBSET Nat
    BY <1>2
  <2>2. /\ Min({commitIndex[n], Len(log[n])}) \in {commitIndex[n], Len(log[n])}
        /\ Min({commitIndex[n], Len(log[n])}) <= commitIndex[n]
    BY <2>1, Minimum
  <2>. QED BY <1>2, <2>2
<1>5. SubSeq(log[n], 1, Len(applied[n])) \o SubSeq(log[n], Len(applied[n]) + 1, commitIndex[n])
        = Committed(n)
  <2>1. /\ 1 \in 1..Len(log[n]) + 1 /\ Len(applied[n]) \in 1 - 1 .. Len(log[n])
        /\ commitIndex[n] \in Len(applied[n]) .. Len(log[n])
    BY <1>2, <1>3
  <2>. QED BY <1>2, <2>1, ConcatAdjacentSubSeq DEF Committed
<1>6. Len(Committed(n)) = commitIndex[n]
  BY <1>2, EqualPrefixes DEF Committed
<1>7. applied[n] = SubSeq(log[n], 1, Len(applied[n]))
  BY DEF DeliveredInv
<1>8. applied' = [applied EXCEPT ![n] = applied[n]
                    \o SubSeq(log[n], Len(applied[n]) + 1, commitIndex[n])]
  BY <1>4 DEF Applier
<1>9. UNCHANGED <<log, commitIndex>>
  BY DEF Applier
<1>. QED BY <1>3, <1>5, <1>6, <1>7, <1>8, <1>9

\* A group that starts was handed nothing.
LEMMA DeliveredInit == Init => DeliveredInv
<1>1. SubSeq(<< >>, 1, 0) = << >>
  OBVIOUS
<1>. QED BY <1>1 DEF Init, DeliveredInv

\* Every step keeps it.
LEMMA DeliveredStep ==
  ASSUME CommitSafe, CommitSafe', DeliveredInv, [Next]_vars
  PROVE  DeliveredInv'
<1>1. TypeOK /\ TypeOK'
  BY DEF CommitSafe, Acknowledged, TypeInv
<1>2. ASSUME UNCHANGED applied, NEW n \in Node
      PROVE  /\ Len(applied[n]) <= commitIndex'[n]
             /\ applied[n] = SubSeq(log'[n], 1, Len(applied[n]))
  <2>1. /\ commitIndex'[n] >= commitIndex[n] /\ commitIndex[n] <= Len(log'[n])
        /\ SubSeq(log'[n], 1, commitIndex[n]) = Committed(n)
    BY CommitSafeStays
  <2>2. /\ log[n] \in Seq(Entry) /\ log'[n] \in Seq(Entry) /\ Len(log'[n]) \in Nat
        /\ Len(log[n]) \in Nat /\ commitIndex[n] <= Len(log[n]) /\ Len(applied[n]) \in Nat
        /\ commitIndex[n] \in Nat /\ commitIndex'[n] \in Nat
    BY <1>1, LenProperties, CommitSafeMajority DEF TypeOK, CommittedOnMajority
  <2>3. Len(applied[n]) <= commitIndex[n] /\ applied[n] = SubSeq(log[n], 1, Len(applied[n]))
    BY DEF DeliveredInv
  <2>4. \A j \in 1..commitIndex[n] : log'[n][j] = log[n][j]
    <3>1. /\ \A j \in 1..commitIndex[n] : log'[n][j] \in Entry
          /\ \A j \in 1..commitIndex[n] : log[n][j] \in Entry
      BY <2>1, <2>2, ElementOfSeq
    <3>2. \A j \in 1..commitIndex[n] : SubSeq(log'[n], 1, commitIndex[n])[j] = log'[n][j]
      BY <2>1, <2>2, <3>1, SubSeqProperties
    <3>3. \A j \in 1..commitIndex[n] : SubSeq(log[n], 1, commitIndex[n])[j] = log[n][j]
      BY <2>2, <3>1, SubSeqProperties
    <3>. QED BY <2>1, <3>2, <3>3 DEF Committed
  <2>5. SubSeq(log'[n], 1, Len(applied[n])) = SubSeq(log[n], 1, Len(applied[n]))
    <3>1. Len(applied[n]) <= Len(log[n]) /\ Len(applied[n]) <= Len(log'[n])
      BY <2>1, <2>2, <2>3
    <3>2. \A j \in 1..Len(applied[n]) : log'[n][j] = log[n][j]
      BY <2>2, <2>3, <2>4
    <3>. QED BY <2>2, <3>1, <3>2, EqualPrefixes
  <2>6. Len(applied[n]) <= commitIndex'[n]
    BY <2>1, <2>2, <2>3
  <2>. QED BY <2>3, <2>5, <2>6
<1>3. ASSUME NEW n \in Node, Applier(n) PROVE DeliveredInv'
  <2>1. /\ applied' = [applied EXCEPT ![n] = Committed(n)] /\ Len(Committed(n)) = commitIndex[n]
        /\ UNCHANGED <<log, commitIndex>>
    BY <1>3, AppliedIs
  <2>2. /\ applied'[n] = Committed(n) /\ Len(applied'[n]) = commitIndex'[n]
        /\ applied'[n] = SubSeq(log'[n], 1, commitIndex'[n])
    BY <1>1, <2>1 DEF TypeOK, Committed
  <2>3. commitIndex'[n] \in Nat
    BY <1>1 DEF TypeOK
  <2>4. \A m \in Node \ {n} : applied'[m] = applied[m]
    BY <1>1, <2>1 DEF TypeOK
  <2>5. \A m \in Node \ {n} : Len(applied'[m]) <= commitIndex'[m]
                              /\ applied'[m] = SubSeq(log'[m], 1, Len(applied'[m]))
    BY <2>1, <2>4 DEF DeliveredInv
  <2>6. /\ Len(applied'[n]) <= commitIndex'[n]
        /\ applied'[n] = SubSeq(log'[n], 1, Len(applied'[n]))
    BY <2>2, <2>3
  <2>7. \A m \in Node : Len(applied'[m]) <= commitIndex'[m]
                        /\ applied'[m] = SubSeq(log'[m], 1, Len(applied'[m]))
    BY <2>5, <2>6
  <2>. QED BY <2>7 DEF DeliveredInv
<1>4. UNCHANGED applied => DeliveredInv'
  BY <1>2 DEF DeliveredInv
<1>. QED BY <1>3, <1>4, OnlyApplierDelivers

-----------------------------------------------------------------------------
(* Whose commits are the log. *)

\* Some member knows most of what is committed.
HasFurthest == \E n \in Node : \A m \in Node : commitIndex[m] <= commitIndex[n]

\* Then that is a member that Furthest may choose.
LEMMA FurthestIs ==
  ASSUME HasFurthest
  PROVE  Furthest \in Node /\ \A m \in Node : commitIndex[m] <= commitIndex[Furthest]
  BY DEF HasFurthest, Furthest

\* The same after a step.
LEMMA FurthestIsNext == HasFurthest' =>
     /\ (Furthest \in Node)'
     /\ (\A m \in Node : commitIndex[m] <= commitIndex[Furthest])'
<1>1. HasFurthest => /\ Furthest \in Node
                     /\ \A m \in Node : commitIndex[m] <= commitIndex[Furthest]
  BY FurthestIs
<1>. QED BY <1>1, PTL

\* A group that starts has committed nothing.
LEMMA HasFurthestInit == Node # {} /\ Init => HasFurthest
  BY DEF Init, HasFurthest

\* It stays who it is, or is who commits in the step.
LEMMA HasFurthestStep ==
  ASSUME CommitSafe, CommitSafe', HasFurthest, [Next]_vars
  PROVE  HasFurthest'
<1>1. TypeInv /\ \A n \in Node : /\ commitIndex[n] \in Nat /\ commitIndex'[n] \in Nat
  BY DEF CommitSafe, Acknowledged, TypeInv, TypeOK
<1>2. PICK f \in Node : \A m \in Node : commitIndex[m] <= commitIndex[f]
  BY DEF HasFurthest
<1>3. commitIndex'[f] >= commitIndex[f]
  BY CommitSafeStays
<1>4. CASE UNCHANGED commitIndex
  BY <1>2, <1>4 DEF HasFurthest
<1>5. ASSUME NEW n \in Node, \A m \in Node \ {n} : commitIndex'[m] = commitIndex[m]
      PROVE  HasFurthest'
  <2>1. CASE commitIndex'[n] <= commitIndex'[f]
    <3>1. \A m \in Node : commitIndex'[m] <= commitIndex'[f]
      BY <1>1, <1>2, <1>3, <1>5, <2>1
    <3>. QED BY <3>1 DEF HasFurthest
  <2>2. CASE ~(commitIndex'[n] <= commitIndex'[f])
    <3>1. \A m \in Node : commitIndex'[m] <= commitIndex'[n]
      BY <1>1, <1>2, <1>3, <1>5, <2>2
    <3>. QED BY <3>1 DEF HasFurthest
  <2>. QED BY <2>1, <2>2
<1>. QED BY <1>1, <1>4, <1>5, OneCommits

-----------------------------------------------------------------------------
(* The refinement. *)

\* A group that starts is an empty log of which nobody was handed anything.
LEMMA LogInitHolds == Init /\ HasFurthest => Log!Init
<1>. SUFFICES ASSUME Init, HasFurthest PROVE Log!Init
  OBVIOUS
<1>1. log[Furthest] = << >> /\ commitIndex[Furthest] = 0
  BY FurthestIs DEF Init
<1>2. Committed(Furthest) = << >>
  BY <1>1 DEF Committed
<1>. QED BY <1>2 DEF Log!Init, Init

\* The beginning of a beginning.
LEMMA PrefixOfPrefix ==
  ASSUME NEW s \in Seq(Entry), NEW c \in Nat, NEW d \in Nat, c <= d, d <= Len(s)
  PROVE  /\ SubSeq(s, 1, d) \in Seq(Entry) /\ Len(SubSeq(s, 1, d)) = d
         /\ SubSeq(SubSeq(s, 1, d), 1, c) = SubSeq(s, 1, c)
<1>1. Len(s) \in Nat
  BY LenProperties
<1>2. \A j \in 1..d : s[j] \in Entry
  BY <1>1, ElementOfSeq
<1>3. /\ SubSeq(s, 1, d) \in Seq(Entry) /\ Len(SubSeq(s, 1, d)) = d
      /\ \A j \in 1..d : SubSeq(s, 1, d)[j] = s[j]
  BY <1>2, SubSeqProperties
<1>4. c <= Len(SubSeq(s, 1, d)) /\ c <= Len(s) /\ \A j \in 1..c : SubSeq(s, 1, d)[j] = s[j]
  BY <1>1, <1>3
<1>. QED BY <1>3, <1>4, EqualPrefixes

\* Commits are in the logs, and agree.
OneLog ==
  /\ \A n \in Node : commitIndex[n] <= Len(log[n])
  /\ \A n, m \in Node : \A j \in 1..commitIndex[n] :
       j <= commitIndex[m] => log[n][j] = log[m][j]

\* They do so after a step.
LEMMA CommitsNext == CommitSafe' => OneLog'
<1>1. CommitSafe => OneLog
  BY CommitSafeMajority, CommittedAgree DEF CommittedOnMajority, OneLog
<1>. QED BY <1>1, PTL

\* What is committed before a step is the beginning of what is after it.
LEMMA ChosenGrows ==
  ASSUME CommitSafe, CommitSafe', HasFurthest, HasFurthest', [Next]_vars
  PROVE  /\ Committed(Furthest)' \in Seq(Entry)
         /\ Log!IsPrefix(Committed(Furthest), Committed(Furthest)')
<1>1. PICK f \in Node : f = Furthest /\ \A m \in Node : commitIndex[m] <= commitIndex[f]
  BY FurthestIs
<1>2. PICK g \in Node : g = Furthest' /\ \A m \in Node : commitIndex'[m] <= commitIndex'[g]
  BY FurthestIsNext
<1>. DEFINE c == commitIndex[f]
            d == commitIndex'[g]
<1>3. /\ log[f] \in Seq(Entry) /\ log'[f] \in Seq(Entry) /\ log'[g] \in Seq(Entry)
      /\ Len(log[f]) \in Nat /\ Len(log'[f]) \in Nat /\ Len(log'[g]) \in Nat
      /\ c \in Nat /\ d \in Nat /\ commitIndex'[f] \in Nat
  BY LenProperties DEF CommitSafe, Acknowledged, TypeInv, TypeOK
<1>4. /\ d <= Len(log'[g]) /\ c <= Len(log[f])
      /\ \A j \in 1..d : j <= commitIndex'[f] => log'[g][j] = log'[f][j]
  BY CommitsNext, CommitSafeMajority DEF CommittedOnMajority, OneLog
<1>5. /\ commitIndex'[f] >= c /\ c <= Len(log'[f])
      /\ SubSeq(log'[f], 1, c) = SubSeq(log[f], 1, c)
  BY CommitSafeStays DEF Committed
<1>6. commitIndex'[f] <= d
  BY <1>2
<1>7. Committed(Furthest) = SubSeq(log[f], 1, c) /\ Committed(Furthest)' = SubSeq(log'[g], 1, d)
  BY <1>1, <1>2 DEF Committed
<1>. HIDE DEF c, d
<1>8. c <= d
  BY <1>3, <1>5, <1>6
\* After the step both logs hold what was committed before it.
<1>9. SubSeq(log'[g], 1, c) = SubSeq(log[f], 1, c)
  <2>1. \A j \in 1..c : log'[g][j] = log'[f][j]
    BY <1>3, <1>4, <1>5, <1>8
  <2>2. c <= Len(log'[g])
    BY <1>3, <1>4, <1>8
  <2>3. SubSeq(log'[g], 1, c) = SubSeq(log'[f], 1, c)
    BY <1>3, <1>5, <2>1, <2>2, EqualPrefixes
  <2>. QED BY <1>5, <2>3
<1>10. /\ SubSeq(log'[g], 1, d) \in Seq(Entry) /\ Len(SubSeq(log'[g], 1, d)) = d
       /\ SubSeq(SubSeq(log'[g], 1, d), 1, c) = SubSeq(log'[g], 1, c)
  BY <1>3, <1>4, <1>8, PrefixOfPrefix
<1>11. /\ Len(SubSeq(log[f], 1, c)) = c
       /\ SubSeq(SubSeq(log[f], 1, c), 1, c) = SubSeq(log[f], 1, c)
  BY <1>3, <1>4, PrefixOfPrefix
<1>. QED BY <1>7, <1>8, <1>9, <1>10, <1>11 DEF Log!IsPrefix

\* A step that hands nothing over chooses more of the log, or changes nothing.
LEMMA ChooseOrStutter ==
  ASSUME CommitSafe, CommitSafe', HasFurthest, HasFurthest', [Next]_vars, UNCHANGED applied
  PROVE  [Log!Next]_(Log!vars)
<1>1. CASE Committed(Furthest)' = Committed(Furthest)
  BY <1>1 DEF Log!vars
<1>2. CASE Committed(Furthest)' # Committed(Furthest)
  <2>1. Log!IsStrictPrefix(Committed(Furthest), Committed(Furthest)')
    BY <1>2, ChosenGrows DEF Log!IsStrictPrefix
  <2>2. Log!Choose
    BY <2>1, ChosenGrows DEF Log!Choose
  <2>. QED BY <2>2 DEF Log!Next
<1>. QED BY <1>1, <1>2

\* The applier hands over the beginning of the log.
LEMMA ApplierDelivers ==
  ASSUME CommitSafe, DeliveredInv, HasFurthest, NEW n \in Node, Applier(n)
  PROVE  Log!Deliver(n)
<1>1. PICK f \in Node : f = Furthest /\ \A m \in Node : commitIndex[m] <= commitIndex[f]
  BY FurthestIs
<1>2. /\ applied' = [applied EXCEPT ![n] = Committed(n)]
      /\ Len(applied[n]) < Len(Committed(n)) /\ Len(Committed(n)) = commitIndex[n]
      /\ UNCHANGED <<log, commitIndex>>
  BY AppliedIs
<1>3. UNCHANGED Committed(Furthest)
  BY <1>2 DEF Committed, Furthest
<1>4. TypeOK /\ CommittedOnMajority
  BY CommitSafeMajority DEF CommitSafe, Acknowledged, TypeInv
<1>. DEFINE a == Len(applied[n])
            c == commitIndex[n]
            d == commitIndex[f]
<1>5. /\ log[n] \in Seq(Entry) /\ log[f] \in Seq(Entry) /\ applied[n] \in Seq(Entry)
      /\ Len(log[n]) \in Nat /\ Len(log[f]) \in Nat /\ a \in Nat
      /\ c \in Nat /\ d \in Nat /\ c <= d /\ c <= Len(log[n]) /\ d <= Len(log[f]) /\ a < c
  BY <1>1, <1>2, <1>4, LenProperties DEF TypeOK, CommittedOnMajority
<1>6. \A j \in 1..c : j <= d => log[n][j] = log[f][j]
  BY CommittedAgree
<1>7. /\ Committed(Furthest) = SubSeq(log[f], 1, d) /\ Committed(n) = SubSeq(log[n], 1, c)
      /\ applied[n] = SubSeq(log[n], 1, a) /\ applied'[n] = Committed(n)
  BY <1>1, <1>2, <1>4 DEF Committed, DeliveredInv, TypeOK
<1>. HIDE DEF a, c, d
<1>8. SubSeq(log[n], 1, c) = SubSeq(log[f], 1, c)
  <2>1. c <= Len(log[f]) /\ \A j \in 1..c : log[n][j] = log[f][j]
    BY <1>5, <1>6
  <2>. QED BY <1>5, <2>1, EqualPrefixes
<1>9. /\ Len(SubSeq(log[f], 1, d)) = d
      /\ SubSeq(SubSeq(log[f], 1, d), 1, c) = SubSeq(log[f], 1, c)
  BY <1>5, PrefixOfPrefix
<1>10. /\ c \in a + 1 .. Len(Committed(Furthest))
       /\ Committed(n) = SubSeq(Committed(Furthest), 1, c)
  BY <1>5, <1>7, <1>8, <1>9
<1>11. Log!IsPrefix(applied[n], applied'[n])
  <2>1. /\ Len(SubSeq(log[n], 1, a)) = a /\ Len(SubSeq(log[n], 1, c)) = c
        /\ SubSeq(SubSeq(log[n], 1, a), 1, a) = SubSeq(log[n], 1, a)
        /\ SubSeq(SubSeq(log[n], 1, c), 1, a) = SubSeq(log[n], 1, a)
    BY <1>5, PrefixOfPrefix
  <2>2. a <= c
    BY <1>5
  <2>. QED BY <1>7, <2>1, <2>2 DEF Log!IsPrefix
<1>12. \E i \in Len(applied[n]) + 1 .. Len(Committed(Furthest)) :
          applied' = [applied EXCEPT ![n] = SubSeq(Committed(Furthest), 1, i)]
  BY <1>2, <1>10 DEF a
<1>. QED BY <1>3, <1>11, <1>12 DEF Log!Deliver

\* Every step is a step of the log or leaves it alone.
LEMMA LogStepHolds ==
  ASSUME CommitSafe, CommitSafe', DeliveredInv, HasFurthest, HasFurthest', [Next]_vars
  PROVE  [Log!Next]_(Log!vars)
<1>1. ASSUME NEW n \in Node, Applier(n) PROVE [Log!Next]_(Log!vars)
  <2>1. Log!Deliver(n)
    BY <1>1, ApplierDelivers
  <2>. QED BY <2>1 DEF Log!Next
<1>2. UNCHANGED applied => [Log!Next]_(Log!vars)
  BY ChooseOrStutter
<1>. QED BY <1>1, <1>2, OnlyApplierDelivers

\* Every group with members implements one log: it only grows, and each member is
\* handed a prefix of it, each entry once and in order, whatever crashes, elections
\* and lost or late calls there are.
THEOREM GroupIsOneLog == Node # {} /\ Spec => ImplementsLog
<1>1. Node # {} /\ Init => CommitSafe /\ DeliveredInv /\ HasFurthest /\ Log!Init
  BY CommitSafeInit, DeliveredInit, HasFurthestInit, LogInitHolds
<1>2. CommitSafe /\ [Next]_vars => CommitSafe'
  BY CommitSafeStep
<1>3. CommitSafe /\ CommitSafe' /\ DeliveredInv /\ [Next]_vars => DeliveredInv'
  BY DeliveredStep
<1>4. CommitSafe /\ CommitSafe' /\ HasFurthest /\ [Next]_vars => HasFurthest'
  BY HasFurthestStep
<1>5. CommitSafe /\ CommitSafe' /\ DeliveredInv /\ HasFurthest /\ HasFurthest' /\ [Next]_vars
        => [Log!Next]_(Log!vars)
  BY LogStepHolds
<1>. QED BY <1>1, <1>2, <1>3, <1>4, <1>5, PTL DEF Spec, ImplementsLog, Log!Spec
=============================================================================
