-------------------------- MODULE SwimHistoryProofs --------------------------
(***************************************************************************)
(* Proofs about SwimHistory: of whom a suspicion timer killed and of who   *)
(* answers, for groups of every size and all bounds, with gossip and       *)
(* without.                                                                *)
(***************************************************************************)
EXTENDS SwimHistory, SwimProofs

-----------------------------------------------------------------------------
(* What is proved of Swim holds of its steps without gossip, too. *)

QuietProofs == INSTANCE SwimProofs WITH
                 MaxUpdates <- 0, MaxMessages <- QuietMessages, MaxCrashes <- QuietCrashes

LEMMA QuietNodes == QuietProofs!IsFiniteSet(Node)
<1>1. IsFiniteSet(Node) => QuietProofs!IsFiniteSet(Node)
  BY DEF IsFiniteSet, QuietProofs!IsFiniteSet
<1>. QED BY <1>1, SwimAssumption

LEMMA QuietSteps == Quiet!Next <=> QuietProofs!Next
  BY DEF
         Quiet!Accepts, QuietProofs!Accepts, Quiet!AfterSending,
         QuietProofs!AfterSending, Quiet!Alive, QuietProofs!Alive,
         Quiet!AskTimeout, QuietProofs!AskTimeout, Quiet!Believe,
         QuietProofs!Believe, Quiet!Candidates, QuietProofs!Candidates,
         Quiet!Concerns, QuietProofs!Concerns, Quiet!Content,
         QuietProofs!Content, Quiet!Crash, QuietProofs!Crash, Quiet!Dead,
         QuietProofs!Dead, Quiet!Deliver, QuietProofs!Deliver, Quiet!Due,
         QuietProofs!Due, Quiet!Forget, QuietProofs!Forget, Quiet!Fresh,
         QuietProofs!Fresh, Quiet!Gossip, QuietProofs!Gossip, Quiet!HandleAck,
         QuietProofs!HandleAck, Quiet!HandleJoin, QuietProofs!HandleJoin,
         Quiet!HandleJoinAck, QuietProofs!HandleJoinAck, Quiet!HandlePing,
         QuietProofs!HandlePing, Quiet!HandlePingReq, QuietProofs!HandlePingReq,
         Quiet!Idle, QuietProofs!Idle, Quiet!IsRequest, QuietProofs!IsRequest,
         Quiet!JoinContact, QuietProofs!JoinContact, Quiet!Learn,
         QuietProofs!Learn, Quiet!LearnOnly, QuietProofs!LearnOnly, Quiet!Lose,
         QuietProofs!Lose, Quiet!MemberList, QuietProofs!MemberList, Quiet!News,
         QuietProofs!News, Quiet!Next, QuietProofs!Next, Quiet!ProbeMember,
         QuietProofs!ProbeMember, Quiet!ProbeTimeout, QuietProofs!ProbeTimeout,
         Quiet!ProbeVerdict, QuietProofs!ProbeVerdict, Quiet!Put,
         QuietProofs!Put, Quiet!Refuting, QuietProofs!Refuting,
         Quiet!RelayTimeout, QuietProofs!RelayTimeout, Quiet!Restart,
         QuietProofs!Restart, Quiet!Revive, QuietProofs!Revive,
         Quiet!ReviveTimeout, QuietProofs!ReviveTimeout, Quiet!ReviveVerdict,
         QuietProofs!ReviveVerdict, Quiet!RoomFor, QuietProofs!RoomFor,
         Quiet!Rumours, QuietProofs!Rumours, Quiet!Set, QuietProofs!Set,
         Quiet!Started, QuietProofs!Started, Quiet!Step, QuietProofs!Step,
         Quiet!Strangers, QuietProofs!Strangers, Quiet!Supersedes,
         QuietProofs!Supersedes, Quiet!Suspect, QuietProofs!Suspect,
         Quiet!SuspicionTimeout, QuietProofs!SuspicionTimeout, Quiet!Told,
         QuietProofs!Told, Quiet!Unknown, QuietProofs!Unknown, Quiet!beliefVars,
         QuietProofs!beliefVars, Quiet!taskVars, QuietProofs!taskVars,
         Quiet!Cardinality, QuietProofs!Cardinality, Quiet!Min, QuietProofs!Min, Quiet!Max,
         QuietProofs!Max, Quiet!IsFiniteSet, QuietProofs!IsFiniteSet

LEMMA QuietInv == (QuietProofs!SwimInv <=> SwimInv) /\ (QuietProofs!SwimInv' <=> SwimInv')
  BY DEF
         SwimInv, QuietProofs!SwimInv, TypeOK, QuietProofs!TypeOK, BeliefInv,
         QuietProofs!BeliefInv, GossipIsBelief, QuietProofs!GossipIsBelief,
         SelfUnknown, QuietProofs!SelfUnknown, MessagesInv,
         QuietProofs!MessagesInv, AwaitedInv, QuietProofs!AwaitedInv, Alive,
         QuietProofs!Alive, Suspect, QuietProofs!Suspect, Dead,
         QuietProofs!Dead, Status, QuietProofs!Status, Unknown,
         QuietProofs!Unknown, Update, QuietProofs!Update, Why, QuietProofs!Why,
         Ping, QuietProofs!Ping, Ack, QuietProofs!Ack, PingReq,
         QuietProofs!PingReq, Join, QuietProofs!Join, Message,
         QuietProofs!Message, Idle, QuietProofs!Idle, Probing,
         QuietProofs!Probing, Asking, QuietProofs!Asking, Reviving,
         QuietProofs!Reviving, Relay, QuietProofs!Relay, OneEach,
         QuietProofs!OneEach, Told, QuietProofs!Told, Waiter,
         QuietProofs!Waiter, IsRequest, QuietProofs!IsRequest

LEMMA QuietTasks == (QuietProofs!TasksInv <=> TasksInv) /\ (QuietProofs!TasksInv' <=> TasksInv')
  BY DEF
         TasksInv, QuietProofs!TasksInv, Awaited, QuietProofs!Awaited, Answerer,
         QuietProofs!Answerer, Waiter, QuietProofs!Waiter, IsRequest,
         QuietProofs!IsRequest, RelayInv, QuietProofs!RelayInv, Alone,
         QuietProofs!Alone

LEMMA QuietAnswers == \A n \in Node : QuietProofs!Unanswered(n) <=> Unanswered(n)
  BY DEF
         Unanswered, QuietProofs!Unanswered, NoAnswer, QuietProofs!NoAnswer,
         NoRevival, QuietProofs!NoRevival, Idle, QuietProofs!Idle

LEMMA QuietDeaths ==
  ASSUME NEW deaths
  PROVE  /\ QuietProofs!DeathsIn(deaths) <=> DeathsIn(deaths)
         /\ QuietProofs!DeathsIn(deaths)' <=> DeathsIn(deaths)'
         /\ QuietProofs!DeathsTimed(deaths) <=> DeathsTimed(deaths)
  BY DEF
         DeathsIn, QuietProofs!DeathsIn, Dead, QuietProofs!Dead, DeathsTimed,
         QuietProofs!DeathsTimed, Suspect, QuietProofs!Suspect

-----------------------------------------------------------------------------
(* The invariant. *)

\* While whom n probes, or re-pings, is down since n began, no answer is under way.
GoneInv ==
  \A n \in Node : gone[n] => probe[n] # Idle /\ ~up[probe[n].target] /\ NoAnswer(n)
BuriedInv ==
  \A n \in Node : buried[n] => revival[n] # Idle /\ ~up[revival[n].target] /\ NoRevival(n)

HistoryInv == SwimInv /\ TasksInv /\ DeathsIn(expired) /\ GoneInv /\ BuriedInv

LEMMA HistoryInitInv == HistoryInit => HistoryInv
<1>. SUFFICES ASSUME HistoryInit PROVE HistoryInv
  OBVIOUS
<1>1. TypeOK
  BY DEF HistoryInit, Joined, TypeOK, Idle, Status, Alive
<1>2. BeliefInv
  BY DEF HistoryInit, Joined, BeliefInv, GossipIsBelief, SelfUnknown
<1>3. MessagesInv /\ AwaitedInv
  BY DEF HistoryInit, Joined, MessagesInv, AwaitedInv
<1>4. TasksInv
  BY DEF HistoryInit, Joined, TasksInv, RelayInv
<1>5. DeathsIn(expired)
  BY DEF HistoryInit, Joined, DeathsIn, Unknown, Alive, Dead
<1>6. GoneInv /\ BuriedInv
  BY DEF HistoryInit, GoneInv, BuriedInv
<1>. QED BY <1>1, <1>2, <1>3, <1>4, <1>5, <1>6 DEF SwimInv, HistoryInv

\* What every step does, with gossip or without.
LEMMA EitherStep ==
  ASSUME SwimInv, TasksInv, HistoryNext
  PROVE  SwimInv' /\ TasksInv' /\ \A n \in Node : Unanswered(n)
<1>1. CASE Next
  BY <1>1, StepInv, StepWaits
<1>2. CASE QuietProofs!Next
  <2>. USE SwimAssumption, HistoryAssumption, QuietNodes
  <2>1. SwimInv'
    BY <1>2, QuietInv, QuietProofs!StepInv
  <2>2. TasksInv' /\ \A n \in Node : Unanswered(n)
    BY <1>2, QuietInv, QuietTasks, QuietAnswers, QuietProofs!StepWaits
  <2>. QED BY <2>1, <2>2
<1>. QED BY <1>1, <1>2, QuietSteps DEF HistoryNext

LEMMA EitherDeaths ==
  ASSUME SwimInv, HistoryNext, NEW deaths, DeathsIn(deaths), DeathsTimed(deaths)
  PROVE  DeathsIn(deaths)'
<1>1. CASE Next
  BY <1>1, StepDeaths
<1>2. CASE QuietProofs!Next
  BY <1>2, QuietInv, QuietDeaths, QuietProofs!StepDeaths, SwimAssumption, HistoryAssumption, QuietNodes
<1>. QED BY <1>1, <1>2, QuietSteps DEF HistoryNext

LEMMA HistoryStepInv == HistoryInv /\ [HistoryNext]_<<vars, history>> => HistoryInv'
<1>. SUFFICES ASSUME HistoryInv, [HistoryNext]_<<vars, history>> PROVE HistoryInv'
  OBVIOUS
<1>1. CASE UNCHANGED <<vars, history>>
  <2>1. SwimInv' /\ TasksInv'
    BY <1>1, StepInv, StepWaits DEF HistoryInv
  <2>2. DeathsIn(expired)' /\ GoneInv' /\ BuriedInv'
    BY <1>1 DEF HistoryInv, vars, history, beliefVars, taskVars, DeathsIn, GoneInv, BuriedInv, NoAnswer, NoRevival
  <2>. QED BY <2>1, <2>2 DEF HistoryInv
<1>2. CASE HistoryNext
  <2>1. SwimInv' /\ TasksInv' /\ \A n \in Node : Unanswered(n)
    BY <1>2, EitherStep DEF HistoryInv
  <2>2. DeathsIn(expired)'
    <3>1. PICK deaths : deaths = expired'
      OBVIOUS
    <3>2. expired \subseteq deaths /\ DeathsTimed(deaths)
      BY <1>2, <3>1 DEF HistoryNext, HistoryStep, DeathsTimed, Killed
    <3>3. DeathsIn(deaths)
      BY <3>2 DEF HistoryInv, DeathsIn
    <3>4. DeathsIn(deaths)'
      BY <1>2, <3>2, <3>3, EitherDeaths DEF HistoryInv
    <3>. QED BY <3>1, <3>4 DEF DeathsIn
  <2>3. GoneInv'
    <3>1. ASSUME NEW n \in Node, gone'[n]
          PROVE  probe'[n] # Idle /\ ~up'[probe'[n].target] /\ NoAnswer(n)'
      <4>1. StillDown(gone, probe, n)
        BY <1>2, <3>1 DEF HistoryNext, HistoryStep
      <4>2. probe[n] = Idle \/ (~up[probe[n].target] /\ NoAnswer(n))
        BY <4>1 DEF StillDown, HistoryInv, GoneInv
      <4>. QED BY <2>1, <4>1, <4>2 DEF StillDown, Unanswered
    <3>. QED BY <3>1 DEF GoneInv, NoAnswer
  <2>4. BuriedInv'
    <3>1. ASSUME NEW n \in Node, buried'[n]
          PROVE  revival'[n] # Idle /\ ~up'[revival'[n].target] /\ NoRevival(n)'
      <4>1. StillDown(buried, revival, n)
        BY <1>2, <3>1 DEF HistoryNext, HistoryStep
      <4>2. revival[n] = Idle \/ (~up[revival[n].target] /\ NoRevival(n))
        BY <4>1 DEF StillDown, HistoryInv, BuriedInv
      <4>. QED BY <2>1, <4>1, <4>2 DEF StillDown, Unanswered
    <3>. QED BY <3>1 DEF BuriedInv, NoRevival
  <2>. QED BY <2>1, <2>2, <2>3, <2>4 DEF HistoryInv
<1>. QED BY <1>1, <1>2

LEMMA HistoryInvariance == HistorySpec => []HistoryInv
  BY HistoryInitInv, HistoryStepInv, PTL DEF HistorySpec

-----------------------------------------------------------------------------
(* What it says of every behaviour. *)

\* No member counts as dead, at some incarnation, unless some member's suspicion
\* timer ran out for it at that incarnation, however rumours of deaths, member
\* lists, revivals and restarts mix (_mark, _merge, join).
THEOREM DeathsAreTimed == HistorySpec => []DeathsAreTimedOut
<1>1. HistoryInv => DeathsAreTimedOut
  BY DEF HistoryInv, DeathsIn, DeathsAreTimedOut
<1>. QED BY <1>1, HistoryInvariance, PTL

\* A probe or a re-ping of a member that is down all the while is never answered:
\* no ack of an earlier request, or that a helper got for one, counts for it
\* (_request, _handle, _relay_ping).
THEOREM OnlyTheLivingAnswer == HistorySpec => AnsweredByLiving
<1>. DEFINE A == \A n \in Node :
          /\ gone[n] /\ up'[n] => /\ ~(probe[n].at = "ping" /\ probe'[n] = Idle)
                                  /\ probe'[n].at = "ask" => ~probe'[n].acked
          /\ buried[n] /\ up'[n] => revival'[n].at # "acked"
<1>1. ASSUME HistoryInv, [HistoryNext]_<<vars, history>> PROVE [A]_<<vars, history>>
  <2>1. CASE HistoryNext
    <3>1. \A n \in Node : Unanswered(n)
      BY <1>1, <2>1, EitherStep DEF HistoryInv
    <3>2. ASSUME NEW n \in Node, gone[n], up'[n]
          PROVE  /\ ~(probe[n].at = "ping" /\ probe'[n] = Idle)
                 /\ probe'[n].at = "ask" => ~probe'[n].acked
      <4>1. ~up[probe[n].target] /\ NoAnswer(n)
        BY <1>1, <3>2 DEF HistoryInv, GoneInv
      <4>2. probe'[n] # Idle => NoAnswer(n)'
        BY <3>1, <4>1 DEF Unanswered
      <4>3. probe[n].at = "ping" => probe'[n] # Idle
        BY <3>1, <3>2, <4>1 DEF Unanswered
      <4>. QED BY <4>2, <4>3 DEF NoAnswer, Idle
    <3>3. ASSUME NEW n \in Node, buried[n] PROVE revival'[n].at # "acked"
      <4>1. ~up[revival[n].target] /\ NoRevival(n)
        BY <1>1, <3>3 DEF HistoryInv, BuriedInv
      <4>. QED BY <3>1, <4>1 DEF Unanswered, NoRevival
    <3>. QED BY <3>2, <3>3
  <2>. QED BY <1>1, <2>1
<1>2. HistorySpec => [][A]_<<vars, history>>
  BY <1>1, HistoryInvariance, PTL DEF HistorySpec
<1>. QED BY <1>2 DEF AnsweredByLiving
=============================================================================
