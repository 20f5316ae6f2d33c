---------------------------- MODULE SwimLiveness ----------------------------
(***************************************************************************)
(* What a SWIM cluster eventually does once the network has calmed down:   *)
(* from some moment on nothing is lost and every answer comes in time, so  *)
(* a wait runs out only when no datagram of it is in flight any more.      *)
(***************************************************************************)
EXTENDS MCSwim

VARIABLE calm

InFlight(n, why) == \E m \in msgs : m.why = why /\ m.for = n

\* No wait of n is given up while its answer is on the way.
InTime(n) ==
    /\ probe[n].at = "ping" /\ InFlight(n, "probe") => probe'[n].at # "ask"
    /\ probe[n].at = "ask" /\ InFlight(n, "ask") /\ probe'[n].at = "ask"
         => probe'[n].acked \/ probe'[n].open = probe[n].open
    /\ revival[n].at = "ping" /\ InFlight(n, "revive") => revival'[n] # Idle

\* A happens in the weather there is, which may turn calm at any moment.
Calmly(A) ==
    /\ A
    /\ \/ ~calm /\ calm' \in BOOLEAN
       \/ calm /\ calm' = calm /\ \A n \in Node : up[n] /\ up'[n] => InTime(n)

CalmNext ==
    \/ Calmly((\E n \in Node : Step(n)) \/ \E m \in msgs : Deliver(m))
    \/ ~calm /\ calm' \in BOOLEAN /\ \E m \in msgs : Lose(m)

\* Each coroutine goes on, the loops come round to every member sooner or later,
\* a stopped member is started again, and what is in flight for a member arrives
\* or, if the member is down, is gone.  The loops are strongly fair only because
\* the bound on datagrams in flight interrupts them.
Fairness ==
    \A n \in Node :
      /\ WF_vars(Calmly(ProbeTimeout(n) \/ ProbeVerdict(n) \/ \E h \in Node : AskTimeout(n, h)))
      /\ WF_vars(Calmly(ReviveTimeout(n) \/ ReviveVerdict(n)))
      /\ WF_vars(Calmly(\E t \in timers[n] : SuspicionTimeout(n, t)))
      /\ WF_vars(Calmly(\E r \in relays[n] : RelayTimeout(n, r)))
      /\ WF_vars(Calmly(Restart(n))) /\ SF_vars(Calmly(JoinContact(n)))
      /\ \A t \in Node \ {n} : SF_vars(Calmly(ProbeMember(n, t))) /\ SF_vars(Calmly(Revive(n, t)))
      /\ \A ts \in {{"ping"}, {"ping-req", "join"}, {"ack", "join-ack"}} :
           WF_vars(Calmly(\E m \in msgs : m.dst = n /\ m.type \in ts /\ Deliver(m)))

\* Bad weather from the start, when nobody knows anybody, until it ends, if ever.
CalmInit == Init /\ calm = FALSE
CalmSpec == CalmInit /\ [][CalmNext]_<<vars, calm>> /\ Fairness

-----------------------------------------------------------------------------
AllAlive == \A n, t \in Node : n # t => members[n][t].state = Alive

\* Whatever joins failed and however many false verdicts the network's bad days
\* left behind, once it is calm every member comes to know all the others and to
\* count them as alive, for good: newcomers ask again or make themselves known by
\* their pings, suspected members hear of it and refute, and dead ones are
\* re-pinged (_resurrect_once).
Recovers == <>calm => <>[]AllAlive
=============================================================================
