------------------------------- MODULE MCRaft -------------------------------
(***************************************************************************)
(* Raft on small instances.                                                *)
(***************************************************************************)
EXTENDS Raft, TLC

\* Members are interchangeable.
MemberSymmetry == Permutations(Node)

\* States are told apart by what can still influence a later step: a leader
\* sets next_index, match_index and a candidate its votes afresh before they
\* are read again, and no guard reads leader_id.
LiveState ==
    <<up, currentTerm, votedFor, log, role, commitIndex, rpcs, crashes,
      [n \in Node |-> IF role[n] = "leader" THEN <<nextIndex[n], matchIndex[n]>> ELSE << >>],
      [n \in Node |-> IF role[n] = "candidate" THEN votes[n] ELSE {}]>>

\* The same and what was handed over, for the properties that speak of it.
AppliedState == <<LiveState, applied>>
=============================================================================
