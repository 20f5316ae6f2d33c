----------------------------- MODULE RaftDeploy -----------------------------
(***************************************************************************)
(* A Raft group as deploy/worker.yaml runs it: a member is a process in a  *)
(* pod with a stable name.  When the pod goes, a new process takes the     *)
(* name over with a new Raft object (src/dssd/diloco/worker.py), so term,  *)
(* vote, log and commit index start from nothing.                          *)
(***************************************************************************)
EXTENDS MCRaft

Replace(n) ==
    /\ crashes < MaxCrashes
    /\ crashes' = crashes + 1
    /\ currentTerm' = [currentTerm EXCEPT ![n] = 0]
    /\ votedFor' = [votedFor EXCEPT ![n] = Nil]
    /\ role' = [role EXCEPT ![n] = "follower"]
    /\ leaderId' = [leaderId EXCEPT ![n] = Nil]
    /\ votes' = [votes EXCEPT ![n] = {}]
    /\ log' = [log EXCEPT ![n] = << >>]
    /\ commitIndex' = [commitIndex EXCEPT ![n] = 0]
    /\ applied' = [applied EXCEPT ![n] = << >>]
    /\ nextIndex' = [nextIndex EXCEPT ![n] = [p \in Node |-> 1]]
    /\ matchIndex' = [matchIndex EXCEPT ![n] = [p \in Node |-> 0]]
    /\ rpcs' = {m \in rpcs : m.src # n}
    /\ UNCHANGED up

DeploySpec == Init /\ [][GroupStep \/ \E n \in Node : Replace(n)]_vars

\* README.md:13, "Raft elects one leader", as tests/raft/test_raft.py:128 states
\* it: in a term, at most one member leads.
OneLeaderPerTerm == ElectionSafety
=============================================================================
