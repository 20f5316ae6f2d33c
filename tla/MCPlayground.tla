---------------------------- MODULE MCPlayground ----------------------------
(***************************************************************************)
(* The playground with two agents that cross the border between two shards *)
(* now and then.                                                           *)
(***************************************************************************)
EXTENDS Playground, TLC

Started == <<[x |-> 0, y |-> 0, vx |-> 1, vy |-> 1], [x |-> 2, y |-> 1, vx |-> -1, vy |-> 1]>>
=============================================================================
