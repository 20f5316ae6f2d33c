---------------------------- MODULE ReplicatedLog ----------------------------
(***************************************************************************)
(* What a Raft group promises the code above it (the apply callback of     *)
(* src/dssd/raft.py): there is one log, it only grows, and every member    *)
(* is handed a prefix of it, each entry once and in order.  Nothing is     *)
(* said of terms, votes, leaders or messages.                              *)
(***************************************************************************)
EXTENDS Sequences, SequencesExt

CONSTANTS Node, Entry

VARIABLES
    chosen,      \* the entries that are committed somewhere
    delivered    \* what each member's state machine was handed

vars == <<chosen, delivered>>

Init ==
    /\ chosen = << >>
    /\ delivered = [n \in Node |-> << >>]

\* More of the log becomes permanent.
Choose ==
    /\ chosen' \in Seq(Entry)
    /\ IsStrictPrefix(chosen, chosen')
    /\ UNCHANGED delivered

\* Member n is handed the next entries, all of them chosen.
Deliver(n) ==
    /\ \E i \in Len(delivered[n]) + 1 .. Len(chosen) :
         delivered' = [delivered EXCEPT ![n] = SubSeq(chosen, 1, i)]
    /\ IsPrefix(delivered[n], delivered'[n])
    /\ UNCHANGED chosen

Next == Choose \/ \E n \in Node : Deliver(n)

Spec == Init /\ [][Next]_vars
=============================================================================
