-------------------------------- MODULE Raft --------------------------------
(***************************************************************************)
(* Leader election and log replication as src/dssd/raft.py implements      *)
(* them: one Raft group whose members are the processes in Node.           *)
(*                                                                         *)
(* All the code of one member runs on one event loop, so a stretch between *)
(* two awaits is atomic and is one action here.  The awaits are the RPCs:  *)
(* the coroutine that made a call is suspended until the reply, a failure  *)
(* or a timeout, and meanwhile the member's other coroutines run.  A call  *)
(* in flight is one record in rpcs, first as a request and then as a       *)
(* reply; the reply keeps what the suspended coroutine still remembers     *)
(* (the term it captured, the index it sent up to).                        *)
(*                                                                         *)
(* A log is a sequence of entries; the code's sentinel log[0] of term 0 is *)
(* left out, so an entry's index is its position.                          *)
(***************************************************************************)
EXTENDS Integers, Sequences, FiniteSets, FiniteSetsExt

CONSTANTS
    Node,        \* the members of the group
    Command,     \* what clients propose
    NoOp,        \* the empty command a new leader appends
    Nil,         \* "" where the code stores a member id
    MaxTerm,     \* bound: no election starts beyond this term
    MaxLog,      \* bound: no proposal is accepted by a log this long
    MaxCalls,    \* bound: append calls in flight from one member to another
    MaxInFlight, \* bound: calls in flight in the group
    MaxCrashes   \* bound: crashes in one behaviour

ASSUME NodeAssumption == IsFiniteSet(Node) /\ Nil \notin Node
ASSUME CommandAssumption == NoOp \notin Command
ASSUME BoundAssumption ==
    /\ MaxTerm \in Nat /\ MaxLog \in Nat /\ MaxCrashes \in Nat
    /\ MaxCalls \in Nat /\ MaxInFlight \in Nat

VARIABLES
    up,          \* is the member running (between start() and stop())
    currentTerm, votedFor, log, role, leaderId, commitIndex,
    applied,     \* the entries handed to apply, in order; its length is last_applied
    nextIndex, matchIndex,   \* a leader's view of each peer
    votes,       \* who voted for the member in the last election it started
    rpcs,        \* the calls in flight
    crashes      \* how often some member crashed

electionVars == <<currentTerm, votedFor, role, leaderId, votes>>
logVars == <<log, commitIndex, applied>>
leaderVars == <<nextIndex, matchIndex>>
vars == <<up, electionVars, logVars, leaderVars, rpcs, crashes>>

Role == {"follower", "candidate", "leader"}
Entry == [term : Nat, command : Command \cup {NoOp}]
Call == 1..MaxCalls      \* tells apart the append calls of one member to another

VoteRequest == [type : {"VoteRequest"}, src : Node, dst : Node, term : Nat,
                lastLogTerm : Nat, lastLogIndex : Nat]
VoteReply == [type : {"VoteReply"}, src : Node, dst : Node, term : Nat,
              replyTerm : Nat, granted : BOOLEAN]
AppendRequest == [type : {"AppendRequest"}, src : Node, dst : Node, call : Call,
                  term : Nat, prevLogIndex : Nat, prevLogTerm : Nat,
                  entries : Seq(Entry), leaderCommit : Nat]
AppendReply == [type : {"AppendReply"}, src : Node, dst : Node, call : Call,
                term : Nat, sentUpTo : Nat, replyTerm : Nat, success : BOOLEAN]
Rpc == VoteRequest \cup VoteReply \cup AppendRequest \cup AppendReply

TypeOK ==
    /\ up \in [Node -> BOOLEAN]
    /\ currentTerm \in [Node -> Nat]
    /\ votedFor \in [Node -> Node \cup {Nil}]
    /\ log \in [Node -> Seq(Entry)]
    /\ role \in [Node -> Role]
    /\ leaderId \in [Node -> Node \cup {Nil}]
    /\ commitIndex \in [Node -> Nat]
    /\ applied \in [Node -> Seq(Entry)]
    /\ nextIndex \in [Node -> [Node -> Nat \ {0}]]
    /\ matchIndex \in [Node -> [Node -> Nat]]
    /\ votes \in [Node -> SUBSET Node]
    /\ rpcs \in SUBSET Rpc
    /\ crashes \in Nat

-----------------------------------------------------------------------------
(* Helpers. *)

Peers(n) == Node \ {n}
Majority == Cardinality(Node) \div 2 + 1

\* A message's term makes n a follower with a fresh vote.
NotOlder(term, n) == term >= currentTerm[n]                \* mutant of Newer
Newer(term, n) == term > currentTerm[n]

LastIndex(lg) == Len(lg)
TermAt(lg, i) == IF i = 0 THEN 0 ELSE lg[i].term
LastTerm(lg) == TermAt(lg, Len(lg))

\* mutant of LogOk: only the length is compared
LongerLog(req, lg) == req.lastLogIndex >= LastIndex(lg)

\* The candidate's log, as its vote request describes it, is no older than lg.
LogOk(req, lg) ==
    \/ req.lastLogTerm > LastTerm(lg)
    \/ req.lastLogTerm = LastTerm(lg) /\ req.lastLogIndex >= LastIndex(lg)

\* mutant of HasPrevious: the term of the entry is not looked at
HasPreviousIndex(req, lg) == req.prevLogIndex <= Len(lg)

\* Whether lg holds the entry a request says comes right before the new ones.
HasPrevious(req, lg) ==
    req.prevLogIndex <= Len(lg) /\ TermAt(lg, req.prevLogIndex) = req.prevLogTerm

\* The positions of es, placed after prev, that lg lacks or holds with another term.
Differing(lg, prev, es) ==
    {i \in 1..Len(es) : prev + i > Len(lg) \/ lg[prev + i].term # es[i].term}

\* mutant of Merge: the log is cut right after prev, conflict or not
CutAndAppend(lg, prev, es) == SubSeq(lg, 1, prev) \o es

\* mutant of Merge: entries that conflict are kept
KeepAndAppend(lg, prev, es) ==
    IF prev + Len(es) <= Len(lg) THEN lg
    ELSE lg \o SubSeq(es, Len(lg) - prev + 1, Len(es))

\* lg after a request: cut at the first difference and completed from there,
\* unchanged when it already holds every entry.
Merge(lg, prev, es) ==
    IF Differing(lg, prev, es) = {} THEN lg
    ELSE LET i == Min(Differing(lg, prev, es))
         IN  SubSeq(lg, 1, prev + i - 1) \o SubSeq(es, i, Len(es))

\* mutant of AckedUpTo: the log as it is when the reply arrives
LastIndexNow(reply) == LastIndex(log[reply.src])

\* What a successful reply acknowledges: the last entry of its request.
AckedUpTo(reply) == reply.sentUpTo

\* mutant of BackedUp
OneLess(i) == i - 1

\* mutant of BackedUp: the same entry is tried for ever
NotBackedUp(i) == i

\* The next index to try after a rejected request.
BackedUp(i) == IF i > 1 THEN i - 1 ELSE i

\* The entries a leader n may commit once it knows its peers hold match.
Committable(n, match) ==
    {i \in commitIndex[n] + 1 .. Len(log[n]) :
        /\ log[n][i].term = currentTerm[n]
        /\ 1 + Cardinality({p \in Peers(n) : match[p] >= i}) >= Majority}

-----------------------------------------------------------------------------
(* The beginning. *)

Init ==
    /\ up = [n \in Node |-> TRUE]
    /\ currentTerm = [n \in Node |-> 0]
    /\ votedFor = [n \in Node |-> Nil]
    /\ log = [n \in Node |-> << >>]
    /\ role = [n \in Node |-> "follower"]
    /\ leaderId = [n \in Node |-> Nil]
    /\ commitIndex = [n \in Node |-> 0]
    /\ applied = [n \in Node |-> << >>]
    /\ nextIndex = [n \in Node |-> [p \in Node |-> 1]]
    /\ matchIndex = [n \in Node |-> [p \in Node |-> 0]]
    /\ votes = [n \in Node |-> {}]
    /\ rpcs = {}
    /\ crashes = 0

-----------------------------------------------------------------------------
(* Role changes that are a part of several actions. *)

\* _become_follower: the term and the vote change, leader_id does not.
BecomeFollower(n, term) ==
    /\ currentTerm' = [currentTerm EXCEPT ![n] = term]
    /\ votedFor' = [votedFor EXCEPT ![n] = Nil]
    /\ role' = [role EXCEPT ![n] = "follower"]

\* _advance_commit_index: the newest entry that can be committed is.
AdvanceCommit(n, match) ==
    \/ /\ Committable(n, match) = {}
       /\ UNCHANGED commitIndex
    \/ \E i \in Committable(n, match) :
         /\ \A j \in Committable(n, match) : j <= i
         /\ commitIndex' = [commitIndex EXCEPT ![n] = i]

\* _become_leader: next_index is taken before the no-op is appended.
BecomeLeader(n) ==
    /\ role' = [role EXCEPT ![n] = "leader"]
    /\ leaderId' = [leaderId EXCEPT ![n] = n]
    /\ nextIndex' = [nextIndex EXCEPT ![n] = [p \in Node |-> Len(log[n]) + 1]]
    /\ matchIndex' = [matchIndex EXCEPT ![n] = [p \in Node |-> 0]]
    /\ log' = [log EXCEPT ![n] = Append(@, [term |-> currentTerm[n], command |-> NoOp])]

-----------------------------------------------------------------------------
(* Timers. *)

\* An election timeout: a new term, a vote for oneself, a call to every peer.
StartElection(n) ==
    /\ up[n] /\ role[n] # "leader"
    /\ currentTerm[n] < MaxTerm /\ Cardinality(rpcs) + Cardinality(Peers(n)) <= MaxInFlight
    /\ role' = [role EXCEPT ![n] = "candidate"]
    /\ currentTerm' = [currentTerm EXCEPT ![n] = @ + 1]
    /\ votedFor' = [votedFor EXCEPT ![n] = n]
    /\ leaderId' = [leaderId EXCEPT ![n] = Nil]
    /\ votes' = [votes EXCEPT ![n] = {n}]
    /\ rpcs' = rpcs \cup
         {[type |-> "VoteRequest", src |-> n, dst |-> p, term |-> currentTerm[n] + 1,
           lastLogTerm |-> LastTerm(log[n]), lastLogIndex |-> LastIndex(log[n])] :
             p \in Peers(n)}
    /\ UNCHANGED <<up, logVars, leaderVars, crashes>>

\* A heartbeat to one peer: everything from next_index to the end of the log.
ReplicateTo(n, p) ==
    /\ up[n] /\ role[n] = "leader" /\ p # n
    /\ Cardinality(rpcs) < MaxInFlight
    /\ \E c \in Call :
         /\ ~ \E m \in rpcs : /\ m.type \in {"AppendRequest", "AppendReply"}
                              /\ m.src = n /\ m.dst = p /\ m.call = c
         /\ rpcs' = rpcs \cup
              {[type |-> "AppendRequest", src |-> n, dst |-> p, call |-> c,
                term |-> currentTerm[n],
                prevLogIndex |-> nextIndex[n][p] - 1,
                prevLogTerm |-> TermAt(log[n], nextIndex[n][p] - 1),
                entries |-> SubSeq(log[n], nextIndex[n][p], Len(log[n])),
                leaderCommit |-> commitIndex[n]]}
    /\ UNCHANGED <<up, electionVars, logVars, leaderVars, crashes>>

-----------------------------------------------------------------------------
(* Elections. *)

\* The end of a handler: the request is gone and the caller gets the reply,
\* unless the callee went down since the call was accepted.
Answer(request, reply) ==
    rpcs' = (rpcs \ {request}) \cup (IF up[request.dst] THEN {reply} ELSE {})

HandleRequestVote(m) ==
    LET n == m.dst
        newTerm == Newer(m.term, n)
        granted == /\ m.term >= currentTerm[n]
                   /\ newTerm \/ votedFor[n] \in {Nil, m.src}
                   /\ LogOk(m, log[n])
    IN  /\ m \in rpcs /\ m.type = "VoteRequest"
        /\ currentTerm' = [currentTerm EXCEPT ![n] = IF newTerm THEN m.term ELSE @]
        /\ role' = [role EXCEPT ![n] = IF newTerm THEN "follower" ELSE @]
        /\ votedFor' = [votedFor EXCEPT ![n] =
                          IF granted THEN m.src ELSE IF newTerm THEN Nil ELSE @]
        /\ Answer(m, [type |-> "VoteReply", src |-> m.src, dst |-> n, term |-> m.term,
                      replyTerm |-> currentTerm'[n], granted |-> granted])
        /\ UNCHANGED <<up, leaderId, votes, logVars, leaderVars, crashes>>

\* The rest of ask(): a vote counts only for the election it was asked for.
ReceiveVoteReply(m) ==
    LET n == m.src
        counts == /\ role[n] = "candidate" /\ currentTerm[n] = m.term /\ m.granted
    IN  /\ m \in rpcs /\ m.type = "VoteReply"
        /\ rpcs' = rpcs \ {m}
        /\ \/ /\ m.replyTerm > currentTerm[n]
              /\ BecomeFollower(n, m.replyTerm)
              /\ UNCHANGED <<leaderId, votes, log, leaderVars>>
           \/ /\ m.replyTerm <= currentTerm[n] /\ counts
              /\ votes' = [votes EXCEPT ![n] = @ \cup {m.dst}]
              /\ IF Cardinality(votes'[n]) >= Majority
                 THEN BecomeLeader(n)
                 ELSE UNCHANGED <<role, leaderId, leaderVars, log>>
              /\ UNCHANGED <<currentTerm, votedFor>>
           \/ /\ m.replyTerm <= currentTerm[n] /\ ~counts
              /\ UNCHANGED <<electionVars, log, leaderVars>>
        /\ UNCHANGED <<up, commitIndex, applied, crashes>>

-----------------------------------------------------------------------------
(* Replication. *)

HandleAppendEntries(m) ==
    LET n == m.dst
        newTerm == Newer(m.term, n)
        stale == m.term < currentTerm[n]
        matches == HasPrevious(m, log[n])
        merged == Merge(log[n], m.prevLogIndex, m.entries)
        Reply(success) ==
            [type |-> "AppendReply", src |-> m.src, dst |-> n, call |-> m.call,
             term |-> m.term, sentUpTo |-> m.prevLogIndex + Len(m.entries),
             replyTerm |-> currentTerm'[n], success |-> success]
    IN  /\ m \in rpcs /\ m.type = "AppendRequest"
        /\ currentTerm' = [currentTerm EXCEPT ![n] = IF newTerm THEN m.term ELSE @]
        /\ votedFor' = [votedFor EXCEPT ![n] = IF newTerm THEN Nil ELSE @]
        /\ role' = [role EXCEPT ![n] = IF stale THEN @ ELSE "follower"]
        /\ leaderId' = [leaderId EXCEPT ![n] = IF stale THEN @ ELSE m.src]
        /\ \/ /\ stale \/ ~matches
              /\ Answer(m, Reply(FALSE))
              /\ UNCHANGED <<log, commitIndex>>
           \/ /\ ~stale /\ matches
              /\ log' = [log EXCEPT ![n] = merged]
              /\ commitIndex' = [commitIndex EXCEPT ![n] =
                   IF m.leaderCommit > @ THEN Min({m.leaderCommit, Len(merged)}) ELSE @]
              /\ Answer(m, Reply(TRUE))
        /\ UNCHANGED <<up, votes, applied, leaderVars, crashes>>

\* The rest of _replicate_to(), in the state the leader is in by now.
ReceiveAppendReply(m) ==
    LET n == m.src
        p == m.dst
        current == role[n] = "leader" /\ currentTerm[n] = m.term
    IN  /\ m \in rpcs /\ m.type = "AppendReply"
        /\ rpcs' = rpcs \ {m}
        /\ \/ /\ m.replyTerm > currentTerm[n]
              /\ BecomeFollower(n, m.replyTerm)
              /\ UNCHANGED <<leaderVars, commitIndex>>
           \/ /\ m.replyTerm <= currentTerm[n] /\ current /\ m.success
              /\ matchIndex' = [matchIndex EXCEPT ![n][p] = AckedUpTo(m)]
              /\ nextIndex' = [nextIndex EXCEPT ![n][p] = AckedUpTo(m) + 1]
              /\ AdvanceCommit(n, matchIndex'[n])
              /\ UNCHANGED <<currentTerm, votedFor, role>>
           \/ /\ m.replyTerm <= currentTerm[n] /\ current /\ ~m.success
              /\ nextIndex' = [nextIndex EXCEPT ![n][p] = BackedUp(@)]
              /\ UNCHANGED <<matchIndex, commitIndex, currentTerm, votedFor, role>>
           \/ /\ m.replyTerm <= currentTerm[n] /\ ~current
              /\ UNCHANGED <<leaderVars, commitIndex, currentTerm, votedFor, role>>
        /\ UNCHANGED <<up, leaderId, votes, log, applied, crashes>>

\* A client's command: only a leader takes it, a stopped one too (stop() leaves
\* the role as it is).
Propose(n, cmd) ==
    /\ role[n] = "leader" /\ Len(log[n]) < MaxLog
    /\ log' = [log EXCEPT ![n] = Append(@, [term |-> currentTerm[n], command |-> cmd])]
    /\ UNCHANGED <<up, electionVars, commitIndex, applied, leaderVars, rpcs, crashes>>

\* The applier wakes up and hands over everything committed so far (were the
\* commit index beyond the log, it would fail at the end of the log).
Applier(n) ==
    /\ up[n] /\ Len(applied[n]) < commitIndex[n]
    /\ applied' = [applied EXCEPT ![n] =
                     @ \o SubSeq(log[n], Len(@) + 1, Min({commitIndex[n], Len(log[n])}))]
    /\ UNCHANGED <<up, electionVars, log, commitIndex, leaderVars, rpcs, crashes>>

-----------------------------------------------------------------------------
(* What the network and the members' failures do. *)

\* A request or a reply is lost, or the caller gives up waiting: the coroutine
\* that made the call ends without touching the member's state.
Lose(m) ==
    /\ m \in rpcs
    /\ rpcs' = rpcs \ {m}
    /\ UNCHANGED <<up, electionVars, logVars, leaderVars, crashes>>

\* stop(): every coroutine of the member is cancelled, and its calls with them.
Crash(n) ==
    /\ up[n] /\ crashes < MaxCrashes
    /\ up' = [up EXCEPT ![n] = FALSE]
    /\ rpcs' = {m \in rpcs : m.src # n}
    /\ crashes' = crashes + 1
    /\ UNCHANGED <<electionVars, logVars, leaderVars>>

\* mutant of Restart: the vote does not survive
RestartWithoutVote(n) ==
    /\ ~up[n]
    /\ up' = [up EXCEPT ![n] = TRUE]
    /\ role' = [role EXCEPT ![n] = "follower"]
    /\ leaderId' = [leaderId EXCEPT ![n] = Nil]
    /\ votedFor' = [votedFor EXCEPT ![n] = Nil]
    /\ UNCHANGED <<currentTerm, votes, logVars, leaderVars, rpcs, crashes>>

\* start() on the same object: term, vote, log and commit index survive.
Restart(n) ==
    /\ ~up[n]
    /\ up' = [up EXCEPT ![n] = TRUE]
    /\ role' = [role EXCEPT ![n] = "follower"]
    /\ leaderId' = [leaderId EXCEPT ![n] = Nil]
    /\ UNCHANGED <<currentTerm, votedFor, votes, logVars, leaderVars, rpcs, crashes>>

-----------------------------------------------------------------------------
\* What running members and the network do.
GroupStep ==
    \/ \E n \in Node : \/ StartElection(n)
                       \/ \E p \in Node : ReplicateTo(n, p)
                       \/ \E cmd \in Command : Propose(n, cmd)
                       \/ Applier(n)
    \/ \E m \in rpcs : \/ HandleRequestVote(m)
                       \/ ReceiveVoteReply(m)
                       \/ HandleAppendEntries(m)
                       \/ ReceiveAppendReply(m)
                       \/ Lose(m)

Next == GroupStep \/ \E n \in Node : Crash(n) \/ Restart(n)

Spec == Init /\ [][Next]_vars

-----------------------------------------------------------------------------
(* Safety. *)

IsPrefixOfLog(s, n) == Len(s) <= Len(log[n]) /\ s = SubSeq(log[n], 1, Len(s))
Committed(n) == SubSeq(log[n], 1, commitIndex[n])

\* No two members lead in the same term, whatever votes and replies are lost,
\* late or given to a member that has moved on (_start_election,
\* handle_request_vote).
ElectionSafety ==
    \A n, m \in Node :
        role[n] = "leader" /\ role[m] = "leader" /\ currentTerm[n] = currentTerm[m]
            => n = m

\* A term has one leader for good, not just one at a time: nobody is elected in
\* a term in which another member appended its no-op, wherever that entry got to
\* before its leader stepped down or crashed (start, handle_request_vote).
FreshTerm ==
    [][\A n, m \in Node :
          role[n] # "leader" /\ role'[n] = "leader"
              => \A i \in 1..Len(log[m]) : log[m][i].term # currentTerm'[n]]_vars

\* Two logs that agree on the term of an entry agree on everything up to it:
\* what the check of the previous entry and the cut at the first conflict in
\* handle_append_entries are for.
LogMatching ==
    \A n, m \in Node : \A i \in 1..Min({Len(log[n]), Len(log[m])}) :
        log[n][i].term = log[m][i].term
            => SubSeq(log[n], 1, i) = SubSeq(log[m], 1, i)

\* A leader holds all that any member of its term or an earlier one knows to be
\* committed: what the log comparison of handle_request_vote is for.
LeaderCompleteness ==
    \A n, m \in Node :
        role[n] = "leader" /\ currentTerm[m] <= currentTerm[n]
            => IsPrefixOfLog(Committed(m), n)

\* commit_index: "Index of the last entry known to be on a majority".
CommittedOnMajority ==
    \A n \in Node :
        /\ commitIndex[n] <= Len(log[n])
        /\ Cardinality({m \in Node : IsPrefixOfLog(Committed(n), m)}) >= Majority

\* _match_index: what a leader counts as replicated on a peer is replicated
\* there, as long as the peer has not moved to a later term.
MatchSound ==
    \A n, p \in Node :
        role[n] = "leader" /\ p # n /\ currentTerm[p] = currentTerm[n]
            => /\ matchIndex[n][p] <= Len(log[n])
               /\ IsPrefixOfLog(SubSeq(log[n], 1, matchIndex[n][p]), p)

\* Terms only grow and a vote once given in a term stays, across every handler,
\* crash and restart.
VotesStand ==
    [][\A n \in Node :
          \/ currentTerm'[n] > currentTerm[n]
          \/ /\ currentTerm'[n] = currentTerm[n]
             /\ votedFor[n] # Nil => votedFor'[n] = votedFor[n]]_vars

\* No handler, however late the request, cuts or changes a committed entry, and
\* the commit index never goes back.
CommittedStays ==
    [][\A n \in Node :
          /\ commitIndex'[n] >= commitIndex[n]
          /\ commitIndex[n] <= Len(log'[n])
          /\ SubSeq(log'[n], 1, commitIndex[n]) = Committed(n)]_vars
=============================================================================
