---------------------------- MODULE RaftDivided ----------------------------
(***************************************************************************)
(* A group in which two members lead.  Old was elected in term 1 by the    *)
(* third member; its no-op reached New, whose reply was lost; then it took *)
(* a command.  New was elected in term 2 by the third member, whose log is *)
(* still empty, and has not sent anything yet.  With no term beyond 2      *)
(* nobody else ever leads.                                                 *)
(***************************************************************************)

EXTENDS MCRaft, RaftImplementsLog

CONSTANTS Old, New, Cmd

ASSUME DividedAssumption == Old \in Node /\ New \in Node \ {Old} /\ Cmd \in Command

Divided ==
    /\ up = [n \in Node |-> TRUE]
    /\ currentTerm = [n \in Node |-> IF n = Old THEN 1 ELSE 2]
    /\ votedFor = [n \in Node |-> IF n = Old THEN Old ELSE New]
    /\ log = [n \in Node |->
                CASE n = Old -> <<[term |-> 1, command |-> NoOp], [term |-> 1, command |-> Cmd]>>
                  [] n = New -> <<[term |-> 1, command |-> NoOp], [term |-> 2, command |-> NoOp]>>
                  [] OTHER   -> << >>]
    /\ role = [n \in Node |-> IF n \in {Old, New} THEN "leader" ELSE "follower"]
    /\ leaderId = [n \in Node |-> IF n \in {Old, New} THEN n ELSE Nil]
    /\ commitIndex = [n \in Node |-> 0]
    /\ applied = [n \in Node |-> << >>]
    /\ nextIndex = [n \in Node |-> [p \in Node |-> IF n = New THEN 2 ELSE 1]]
    /\ matchIndex = [n \in Node |-> [p \in Node |-> 0]]
    /\ votes = [n \in Node |-> CASE n = Old -> Node \ {New} [] n = New -> Node \ {Old} [] OTHER -> {}]
    /\ rpcs = {}
    /\ crashes = 0

DividedSpec == Divided /\ [][Next]_vars
=============================================================================
