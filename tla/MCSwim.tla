------------------------------- MODULE MCSwim -------------------------------
(***************************************************************************)
(* SWIM on small instances, starting from a cluster whose members have all *)
(* joined and have nothing left to gossip.                                 *)
(***************************************************************************)
EXTENDS Swim, TLC

Joined ==
    /\ up = [n \in Node |-> TRUE]
    /\ incarnation = [n \in Node |-> 0]
    /\ members = [n \in Node |-> [t \in Node |-> IF t = n THEN Unknown ELSE [state |-> Alive, inc |-> 0]]]
    /\ broadcasts = [n \in Node |-> {}]
    /\ probe = [n \in Node |-> Idle]
    /\ revival = [n \in Node |-> Idle]
    /\ relays = [n \in Node |-> {}]
    /\ timers = [n \in Node |-> {}]
    /\ msgs = {}
    /\ crashes = 0

MemberSymmetry == Permutations(Node \ Prober) \cup Permutations(Prober)
=============================================================================
