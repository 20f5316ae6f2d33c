--------------------------- MODULE SwimSuspicion ---------------------------
(***************************************************************************)
(* What becomes of a suspicion.  The members have all joined, none stops,  *)
(* and the network loses and delays what it likes.                         *)
(***************************************************************************)
EXTENDS MCSwim

SuspicionSpec == Joined /\ [][Next]_vars

-----------------------------------------------------------------------------
\* The updates that somebody still gossips or that are on their way.
Rumoured == UNION {Content(broadcasts[n]) : n \in Node} \cup UNION {Told(m) : m \in msgs}

\* A suspicion of t at inc can still end in a death: somebody's timer runs for it.
Timed(t, inc) == \E n \in Node : [id |-> t, inc |-> inc] \in timers[n]

\* A suspicion ends: it runs into a timer, or what replaces it, a refutation or a
\* death, is rumoured, or the suspicion itself is, so that t may hear and refute it.
\* That a member that nobody refutes for becomes dead is what swim.py:5 says; _set
\* starts a timer for a member that was not suspected before (swim.py:243).
SuspicionsEnd ==
    \A n, t \in Node : members[n][t].state = Suspect =>
        \/ Timed(t, members[n][t].inc)
        \/ \E u \in Rumoured : u.id = t /\ (u.state = Suspect \/ Supersedes(u, members[n][t]))
=============================================================================
