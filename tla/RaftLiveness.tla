---------------------------- MODULE RaftLiveness ----------------------------
(***************************************************************************)
(* What a Raft group eventually does, and what it needs for that.          *)
(***************************************************************************)
EXTENDS RaftDivided

AppendDelivered(n, p) ==
    \E m \in rpcs : m.src = n /\ m.dst = p /\ HandleAppendEntries(m)
AppendAnswered(n, p) ==
    \E m \in rpcs : m.src = n /\ m.dst = p /\ ReceiveAppendReply(m)

\* The run loop sends a heartbeat to every peer over and over, the applier is
\* woken for every commit, and a crashed member is started again.  The network
\* may lose any call but not all the calls one member makes to another.
Fairness(leaders) ==
    /\ \A n \in Node : WF_vars(Applier(n)) /\ WF_vars(Restart(n))
    /\ \A n \in leaders : \A p \in Peers(n) :
         /\ WF_vars(ReplicateTo(n, p))
         /\ SF_vars(AppendDelivered(n, p))
         /\ SF_vars(AppendAnswered(n, p))

-----------------------------------------------------------------------------
FairSpec == Divided /\ [][Next]_vars /\ Fairness({Old, New})

\* A member that stays leader, a crash of some other member notwithstanding,
\* gets all of its log applied by everyone: next_index backs up until the logs
\* meet, the conflicting suffix goes, the commit index follows the replies and
\* travels with the next heartbeats.  In particular a stale leader does not stay.
StableLeaderDelivers ==
    \A n \in Node :
        <>[](up[n] /\ role[n] = "leader") => <>[](\A p \in Node : applied[p] = log[n])
=============================================================================
