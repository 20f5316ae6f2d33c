-------------------------- MODULE RaftImplementsLog --------------------------
(***************************************************************************)
(* A Raft group implements one replicated log.  The log is what the member *)
(* with the highest commit index has committed; a member is delivered what *)
(* its applier handed over.                                                *)
(***************************************************************************)
EXTENDS Raft

\* A member that knows most of what is committed.
Furthest == CHOOSE n \in Node : \A m \in Node : commitIndex[m] <= commitIndex[n]

Log == INSTANCE ReplicatedLog WITH
         chosen <- Committed(Furthest), delivered <- applied

\* Every step of the group is a step of the one log or leaves it alone: no
\* entry that some member's state machine was handed is ever missing from, or
\* different in, what another is handed (_applier, _advance_commit_index).
ImplementsLog == Log!Spec
=============================================================================
