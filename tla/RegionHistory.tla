--------------------------- MODULE RegionHistory ---------------------------
(***************************************************************************)
(* The sharded world with a history of two mistakes that can cost an agent *)
(* its only place.  Up to a mistake the steps are those of Regions; what   *)
(* comes of the mistake is for the runs of Regions itself to show.         *)
(***************************************************************************)
EXTENDS MCRegions

VARIABLES
    back,      \* <<n, d>>: d is a departure of n's tick, and d.from took the agent in since
    mistaken   \* has one of the two mistakes been made

history == <<back, mistaken>>

\* The departures that the tick of n has not finished with.
Departures(n) ==
    LET t == tick[n] IN
    CASE t.at = "moving"   -> t.out
      [] t.at = "sending"  -> t.out \cup {t.call} \cup t.done
      [] t.at = "removing" -> t.done
      [] OTHER             -> {}

\* The calls that this step has propose an agent (AddPropose): before, nobody in
\* the lock had proposed.
Proposing ==
    {c \in adds' : /\ c.stage = "committing"
                   /\ \A b \in adds : b.shard = c.shard /\ b.at = c.at => b.stage # "committing"}

\* shard_state.py:69: a failing add_agent puts the registry of before the call back,
\* although entries were applied meanwhile.
TakesBackNews ==
    \E c \in adds : c.stage = "committing" /\ applied[c.shard][c.at] >= c.index /\ AddFails(c)

\* region_server.py:79: phase 2 drops an agent that its shard took in again after
\* phase 1 had moved it out.
DropsReturned ==
    \E b \in back : tick[b[1]].at = "removing" /\ tick[b[1]].holds = b[2].from /\ Remove(b[1])

HistoryStep ==
    /\ back' = UNION {{n} \X {d \in Departures(n) \cap Departures(n)' :
                                \/ <<n, d>> \in back
                                \/ \E c \in Proposing : c.shard = d.from /\ c.agent = d.agent} : n \in Server}
    /\ mistaken' = (mistaken \/ TakesBackNews \/ DropsReturned)

HistoryInit == back = {} /\ mistaken = FALSE
HistoryNext == ~mistaken /\ Next /\ HistoryStep

-----------------------------------------------------------------------------
\* handoff.py:5-6, "never lose one", up to the first mistake (add_agent, tick, HandOff).
LostByMistake == ~mistaken => NeverLost
HistorySpec == Init /\ HistoryInit /\ [][HistoryNext]_<<vars, history>>
=============================================================================
