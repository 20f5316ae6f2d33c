---------------------------- MODULE SwimHistory ----------------------------
(***************************************************************************)
(* SWIM with a history of who was there to answer and of whom a suspicion *)
(* timer killed.  The history changes nothing: its steps are those of Swim.*)
(***************************************************************************)
EXTENDS MCSwim

CONSTANTS
    QuietMessages,  \* MaxMessages and
    QuietCrashes    \* MaxCrashes where nobody gossips

ASSUME HistoryAssumption == QuietMessages \in Nat /\ QuietCrashes \in Nat

\* Gossip has no part in matching acks with requests: without it there is room for
\* more datagrams in flight and for members that stop.
Quiet == INSTANCE Swim WITH
           MaxUpdates <- 0, MaxMessages <- QuietMessages, MaxCrashes <- QuietCrashes

VARIABLES
    gossips,    \* do the members gossip, from start to end
    gone,       \* n's probe is of a member that has been down since it began
    buried,     \* n's re-ping is of a member that has been down since it began
    expired     \* <<t, inc>>: a suspicion timer for t at inc ran out and killed it

history == <<gossips, gone, buried, expired>>

\* Whether the target of a wait is down and was all the time since it began.
StillDown(was, task, n) ==
    /\ task'[n] # Idle
    /\ ~up'[task'[n].target]
    /\ task[n] = Idle \/ was[n]

Killed(n, t) ==
    /\ t \in timers[n] /\ t \notin timers'[n] /\ up'[n]
    /\ members[n][t.id] = [state |-> Suspect, inc |-> t.inc]
    /\ members'[n][t.id].state = Dead

HistoryInit ==
    /\ Joined
    /\ gossips \in BOOLEAN
    /\ gone = [n \in Node |-> FALSE]
    /\ buried = [n \in Node |-> FALSE]
    /\ expired = {}

HistoryStep ==
    /\ gossips' = gossips
    /\ gone' = [n \in Node |-> StillDown(gone, probe, n)]
    /\ buried' = [n \in Node |-> StillDown(buried, revival, n)]
    /\ expired' = expired \cup
         UNION {{<<t.id, t.inc>> : t \in {s \in timers[n] : Killed(n, s)}} : n \in Node}

HistoryNext ==
    /\ \/ gossips /\ Next
       \/ ~gossips /\ Quiet!Next
    /\ HistoryStep

HistorySpec == HistoryInit /\ [][HistoryNext]_<<vars, history>>

-----------------------------------------------------------------------------
\* Only the living answer: a probe or a re-ping of a member that is down from
\* its start to its end finds no answer, neither a late one to an earlier ping
\* nor one that a helper got for an earlier request (_request, _relay_ping).
AnsweredByLiving ==
    [][\A n \in Node :
          /\ gone[n] /\ up'[n] => /\ ~(probe[n].at = "ping" /\ probe'[n] = Idle)
                                  /\ probe'[n].at = "ask" => ~probe'[n].acked
          /\ buried[n] /\ up'[n] => revival'[n].at # "acked"]_<<vars, history>>

\* No rumour of a death without one: wherever a member counts as dead, at some
\* incarnation, some suspicion timer ran out for it at that incarnation
\* (_mark, _merge, join).
DeathsAreTimedOut ==
    \A n, t \in Node : members[n][t].state = Dead => <<t, members[n][t].inc>> \in expired

\* A death is undone only by news of a higher incarnation: not by a probe that began
\* before the verdict and fails after it (_probe_once, _mark).
DeathsStand ==
    [][\A n, t \in Node : members[n][t].state = Dead /\ members'[n][t].state # Dead
          => members'[n][t].inc > members[n][t].inc]_<<vars, history>>

\* Nobody's incarnation is raised by others but to undo a death: where an incarnation is
\* believed that the member itself has not reached, a timer killed it at the one before,
\* however a re-ping, its answer and the member's own refutations follow each other
\* (_resurrect_once, _merge).
OnlyDeathsAreUndone ==
    \A n, t \in Node : members[n][t].inc > incarnation[t]
        => <<t, members[n][t].inc - 1>> \in expired
=============================================================================
