----------------------------- MODULE MCRegions -----------------------------
(***************************************************************************)
(* The sharded world on small instances: from the start, or from a moment  *)
(* at which every shard has a leader and every agent a place.              *)
(***************************************************************************)
EXTENDS Regions, TLC

RegionSymmetry == Permutations(Server) \cup Permutations(Agent)

\* Every shard elected a leader in term 1, and a first snapshot is applied everywhere.
Settled ==
    /\ term = [s \in Shard |-> [n \in Server |-> 1]]
    /\ applied = [s \in Shard |-> [n \in Server |-> 2]]
    /\ adds = {}
    /\ tick = [n \in Server |-> Idle]
    /\ placed = Agent
    /\ moves = 0
    /\ \E leader \in [Shard -> Server], home \in [Agent -> Shard] :
         LET registry(s) == [a \in Agent |-> IF home[a] = s THEN s ELSE Nowhere] IN
         /\ leads = [s \in Shard |-> [n \in Server |-> n = leader[s]]]
         /\ matchIndex = [s \in Shard |-> [n \in Server |-> [m \in Server |->
              IF n = leader[s] /\ m # n THEN 2 ELSE 0]]]
         /\ agents = [s \in Shard |-> [n \in Server |-> registry(s)]]
         /\ log = [s \in Shard |-> [n \in Server |->
              <<[term |-> 1, agents |-> NoOp], [term |-> 1, agents |-> registry(s)]>>]]

SettledSpec == Settled /\ [][Next]_vars
=============================================================================
