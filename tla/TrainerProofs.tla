---------------------------- MODULE TrainerProofs ----------------------------
(***************************************************************************)
(* Proofs about Trainer for any number of workers, and all bounds.         *)
(***************************************************************************)
EXTENDS Trainer, FiniteSetTheorems, TLAPS

-----------------------------------------------------------------------------
(* The operators of the model. *)

\* A nonempty set of naturals has a least element.
LEMMA LeastNumber ==
  ASSUME NEW S \in SUBSET Nat, S # {}
  PROVE  \E x \in S : \A y \in S : x <= y
<1>. DEFINE T == {0..y : y \in S}
<1>1. T \subseteq FiniteSubsetsOf(Nat) /\ T # {}
  <2>1. ASSUME NEW y \in S PROVE 0..y \in SUBSET Nat /\ IsFiniteSet(0..y)
    BY FS_Interval
  <2>. QED BY <2>1 DEF FiniteSubsetsOf
<1>2. PICK X \in T : \A Y \in T : <<Y, X>> \notin StrictSubsetOrdering(Nat)
  BY <1>1, FS_StrictSubsetOrderingWellFounded, WFMin
<1>3. PICK x \in S : X = 0..x
  OBVIOUS
<1>4. ASSUME NEW y \in S, y < x PROVE FALSE
  <2>1. 0..y \in SUBSET Nat /\ 0..x \in SUBSET Nat /\ 0..y \subseteq 0..x
    BY <1>4
  <2>2. x \in 0..x /\ x \notin 0..y
    BY <1>4
  <2>3. <<0..y, 0..x>> \in StrictSubsetOrdering(Nat)
    BY <2>1, <2>2 DEF StrictSubsetOrdering
  <2>. QED BY <2>3, <1>2, <1>3
<1>. QED BY <1>4

\* A nonempty set of bounded naturals has a greatest element, and Max is it.
LEMMA Greatest ==
  ASSUME NEW n \in Nat, NEW S \in SUBSET (0..n), S # {}
  PROVE  Max(S) \in S /\ \A y \in S : y <= Max(S)
<1>. DEFINE U == {m \in Nat : \A y \in S : y <= m}
<1>1. n \in U
  OBVIOUS
<1>2. PICK m \in U : \A k \in U : m <= k
  BY <1>1, LeastNumber
<1>3. m \in S
  <2>. SUFFICES ASSUME m \notin S PROVE FALSE
    OBVIOUS
  <2>1. \A y \in S : y \in Nat /\ y <= m /\ y # m
    OBVIOUS
  <2>2. m \in Nat /\ m # 0
    <3>1. PICK y \in S : TRUE
      OBVIOUS
    <3>. QED BY <2>1, <3>1
  <2>3. m - 1 \in Nat /\ \A y \in S : y <= m - 1
    BY <2>1, <2>2
  <2>. QED BY <2>2, <2>3, <1>2
<1>. QED BY <1>3 DEF Max

\* A majority is a set of workers that is not empty.
LEMMA MajorityType ==
  ASSUME NEW Q \in Majority
  PROVE  Q \subseteq Worker
  BY DEF Majority

\* A barrier stays one when a round closes, and when a gradient is submitted.
LEMMA AfterRoundType ==
  ASSUME NEW b \in Barrier
  PROVE  AfterRound(b) \in Barrier
<1>1. /\ b.at \in Worker /\ b.term \in Nat /\ b.round + 1 \in Nat
      /\ b.model \in Model /\ b.pending \subseteq Gradient
  BY DEF Barrier
<1>. DEFINE m == [b.model EXCEPT !.grads = @ \cup b.pending]
<1>2. m \in Model
  BY <1>1 DEF Model
<1>3. AfterRound(b) = [b EXCEPT !.model = m, !.round = @ + 1, !.pending = {}, !.timer = FALSE]
  BY DEF AfterRound, OuterStep
<1>. HIDE DEF m
<1>4. [b EXCEPT !.model = m, !.round = @ + 1, !.pending = {}, !.timer = FALSE] \in Barrier
  BY <1>1, <1>2 DEF Barrier
<1>. QED BY <1>3, <1>4

LEMMA RoundType ==
  ASSUME NEW b \in Barrier, NEW grad \in Gradient, NEW alive
  PROVE  /\ WithGradient(b, grad) \in Barrier
         /\ Submitted(b, alive) \in Barrier
<1>1. WithGradient(b, grad) \in Barrier
  BY DEF WithGradient, Barrier
<1>2. [b EXCEPT !.timer = TRUE] \in Barrier
  BY DEF Barrier
<1>. QED BY <1>1, <1>2, AfterRoundType DEF Submitted

LEMMA BarrierOfType ==
  ASSUME NEW l \in Worker, TypeOK
  PROVE  BarrierOf(l) \in Barrier
<1>1. CASE \E b \in barriers : b.at = l /\ b.term = term[l]
  <2>1. BarrierOf(l) \in barriers
    BY <1>1 DEF BarrierOf
  <2>. QED BY <2>1 DEF TypeOK
<1>2. CASE ~ \E b \in barriers : b.at = l /\ b.term = term[l]
  BY <1>2 DEF BarrierOf, TypeOK, Barrier
<1>. QED BY <1>1, <1>2

-----------------------------------------------------------------------------
(* Types. *)

LEMMA TypeInit == Init => TypeOK
  BY TrainerAssumption DEF Init, TypeOK, Untrained, Model

LEMMA TypeStep == TypeOK /\ [Next]_vars => TypeOK'
<1>. SUFFICES ASSUME TypeOK, [Next]_vars PROVE TypeOK'
  OBVIOUS
<1>. USE TrainerAssumption DEF TypeOK, raftVars
<1>1. ASSUME NEW w \in Worker, Elect(w) PROVE TypeOK'
  <2>1. PICK Q \in Majority :
          LET t == Max({term[q] : q \in Q}) + 1 IN
          /\ w \in Q /\ t <= MaxTerm
          /\ term' = [q \in Worker |-> IF q \in Q THEN t ELSE term[q]]
          /\ leads' = [q \in Worker |-> IF q \in Q THEN q = w ELSE leads[q]]
          /\ lastTerm' = [lastTerm EXCEPT ![w] = t]
    BY <1>1 DEF Elect
  <2>2. Max({term[q] : q \in Q}) \in {term[q] : q \in Q}
    <3>1. {term[q] : q \in Q} \in SUBSET (0..MaxTerm) /\ {term[q] : q \in Q} # {}
      BY <2>1, MajorityType
    <3>. QED BY <3>1, Greatest
  <2>3. Max({term[q] : q \in Q}) + 1 \in 0..MaxTerm
    BY <2>1, <2>2, MajorityType
  <2>4. UNCHANGED <<model, round, trainings, client, barriers, calls, retries, replaced>>
    BY <1>1 DEF Elect
  <2>. DEFINE t == Max({term[q] : q \in Q}) + 1
  <2>. HIDE DEF t
  <2>5. t \in 0..MaxTerm
    BY <2>3 DEF t
  <2>6. /\ term' = [q \in Worker |-> IF q \in Q THEN t ELSE term[q]]
        /\ leads' = [q \in Worker |-> IF q \in Q THEN q = w ELSE leads[q]]
        /\ lastTerm' = [lastTerm EXCEPT ![w] = t]
    BY <2>1 DEF t
  <2>7. term' \in [Worker -> 0..MaxTerm] /\ lastTerm' \in [Worker -> 0..MaxTerm]
    BY <2>5, <2>6
  <2>8. leads' \in [Worker -> BOOLEAN]
    BY <2>6, Zenon
  <2>. QED BY <2>4, <2>7, <2>8
<1>2. ASSUME NEW w \in Worker, NEW l \in Worker, Hear(w, l) \/ LearnTerm(w, l) PROVE TypeOK'
  BY <1>2 DEF Hear, LearnTerm
<1>2a. ASSUME NEW w \in Worker, Stand(w) PROVE TypeOK'
  BY <1>2a DEF Stand
<1>3. ASSUME NEW w \in Worker, InnerTrain(w) PROVE TypeOK'
  BY <1>3 DEF InnerTrain
<1>4. ASSUME NEW w \in Worker, NEW l \in Worker, Sync(w, l) PROVE TypeOK'
  <2>. DEFINE b == WithGradient(BarrierOf(l), MyGradient(w))
  <2>1. PICK alive \in SUBSET Worker :
          /\ barriers' = {c \in barriers : ~(c.at = l /\ c.term = term[l])} \cup {Submitted(b, alive)}
          /\ calls' = calls \cup {[by |-> w, at |-> l, term |-> term[l], event |-> Event(b, Submitted(b, alive))]}
    BY <1>4 DEF Sync
  <2>2. MyGradient(w) \in Gradient
    BY DEF MyGradient, Gradient
  <2>3. b \in Barrier
    BY <2>2, BarrierOfType, RoundType
  <2>. HIDE DEF b
  <2>4. Submitted(b, alive) \in Barrier
    BY <2>2, <2>3, RoundType
  <2>5. [by |-> w, at |-> l, term |-> term[l], event |-> Event(b, Submitted(b, alive))] \in Waiting
    BY <2>3 DEF Event, Barrier, Waiting
  <2>6. client' \in [Worker -> {"training", "syncing", "calling"}]
        /\ UNCHANGED <<raftVars, model, round, trainings, retries, replaced>>
    BY <1>4 DEF Sync
  <2>. QED BY <2>1, <2>4, <2>5, <2>6
<1>5. ASSUME NEW w \in Worker, SyncFails(w) PROVE TypeOK'
  BY <1>5 DEF SyncFails
<1>6. ASSUME NEW w \in Worker, ReplacePod(w) PROVE TypeOK'
  BY <1>6 DEF ReplacePod, Untrained, Model
<1>7. ASSUME NEW b \in barriers, TimerFires(b) PROVE TypeOK'
  <2>1. b \in Barrier
    OBVIOUS
  <2>2. AfterRound(b) \in Barrier
    BY <2>1, AfterRoundType
  <2>3. [b EXCEPT !.timer = FALSE] \in Barrier
    BY <2>1 DEF Barrier
  <2>. QED BY <1>7, <2>2, <2>3 DEF TimerFires
<1>8. ASSUME NEW c \in calls, SyncReturns(c) PROVE TypeOK'
  <2>1. c \in Waiting
    BY <1>8 DEF SyncReturns
  <2>2. PICK b \in barriers :
          calls' = (calls \ {c}) \cup
            {[by |-> c.by, at |-> c.at, term |-> c.term, round |-> RoundReached(c, b), model |-> b.model]}
    BY <1>8 DEF SyncReturns
  <2>3. [by |-> c.by, at |-> c.at, term |-> c.term, round |-> RoundReached(c, b), model |-> b.model] \in Answered
    BY <2>1 DEF Waiting, Answered, RoundReached, Barrier
  <2>4. UNCHANGED <<raftVars, model, round, trainings, client, barriers, retries, replaced>>
    BY <1>8 DEF SyncReturns
  <2>. QED BY <2>2, <2>3, <2>4
<1>9. ASSUME NEW c \in calls, Adopt(c) PROVE TypeOK'
  <2>1. c.by \in Worker /\ c.round \in Nat /\ c.model \in Model
    BY <1>9 DEF Adopt, Answered
  <2>. QED BY <1>9, <2>1 DEF Adopt
<1>10. CASE UNCHANGED vars
  BY <1>10 DEF vars
<1>. QED BY <1>1, <1>2, <1>2a, <1>3, <1>4, <1>5, <1>6, <1>7, <1>8, <1>9, <1>10 DEF Next

\* Terms, rounds and gradients are well formed, for any number of workers.
THEOREM TypesHold == Spec => []TypeOK
  BY TypeInit, TypeStep, PTL DEF Spec

-----------------------------------------------------------------------------
(* Everyone gets back what it sent. *)

\* A call is the only one of its worker, which waits for it.
OneCallEach ==
  /\ \A c \in calls : client[c.by] = "calling"
  /\ \A c, d \in calls : c.by = d.by => c = d

\* A leader has one barrier in a term.
OneBarrierEach == \A b, c \in barriers : b.at = c.at /\ b.term = c.term => b = c

\* Whoever waits has its gradient in the round it waits for, or that round is over and
\* the gradient in the barrier's model.
Waits(c, b) ==
  /\ b.at = c.at /\ b.term = c.term
  /\ \/ b.round = c.event /\ MyGradient(c.by) \in b.pending
     \/ b.round > c.event /\ MyGradient(c.by) \in b.model.grads

WaitingInv == \A c \in calls \cap Waiting : \E b \in barriers : Waits(c, b)
AnsweredInv == \A c \in calls \cap Answered : MyGradient(c.by) \in c.model.grads

CallInv == OneCallEach /\ OneBarrierEach /\ WaitingInv /\ AnsweredInv

\* A call that waits is not answered.
LEMMA WaitingOrAnswered == Waiting \cap Answered = {}
  BY DEF Waiting, Answered

LEMMA CallInit == Init => CallInv
  BY DEF Init, CallInv, OneCallEach, OneBarrierEach, WaitingInv, AnsweredInv

\* What a step leaves of the barriers, the calls and the trainings keeps the invariant.
LEMMA CallFrame ==
  ASSUME CallInv, UNCHANGED <<barriers, trainings>>, calls' \subseteq calls,
         \A c \in calls' : client'[c.by] = client[c.by]
  PROVE  CallInv'
<1>. USE DEF CallInv
<1>1. OneCallEach'
  BY DEF OneCallEach
<1>2. OneBarrierEach'
  BY DEF OneBarrierEach
<1>3. WaitingInv'
  BY DEF WaitingInv, Waits, MyGradient
<1>4. AnsweredInv'
  BY DEF AnsweredInv, MyGradient
<1>. QED BY <1>1, <1>2, <1>3, <1>4

\* Nobody's gradient gets lost when a round closes.
LEMMA RoundKeeps ==
  ASSUME NEW b \in Barrier, NEW c \in Waiting, Waits(c, b)
  PROVE  Waits(c, AfterRound(b)) /\ Waits(c, [b EXCEPT !.timer = FALSE]) /\ Waits(c, [b EXCEPT !.timer = TRUE])
<1>1. /\ AfterRound(b).at = b.at /\ AfterRound(b).term = b.term
      /\ AfterRound(b).round = b.round + 1
      /\ AfterRound(b).model.grads = b.model.grads \cup b.pending
  BY DEF AfterRound, OuterStep, Barrier, Model
<1>2. b.round \in Nat /\ c.event \in Nat
  BY DEF Barrier, Waiting
<1>3. Waits(c, AfterRound(b))
  BY <1>1, <1>2 DEF Waits
<1>4. Waits(c, [b EXCEPT !.timer = FALSE]) /\ Waits(c, [b EXCEPT !.timer = TRUE])
  BY DEF Waits, Barrier
<1>. QED BY <1>3, <1>4

\* A barrier that takes the place of the leader's, and keeps what it held for those
\* who wait, while calls are only added.
LEMMA BarrierOfIs ==
  ASSUME NEW l \in Worker, OneBarrierEach
  PROVE  /\ BarrierOf(l).at = l /\ BarrierOf(l).term = term[l]
         /\ \A d \in barriers : d.at = l /\ d.term = term[l] => d = BarrierOf(l)
  BY DEF BarrierOf, OneBarrierEach

\* A gradient that is submitted does not take the place of another worker's.
LEMMA SubmissionKeeps ==
  ASSUME NEW b \in Barrier, NEW c \in Waiting, NEW w \in Worker, c.by # w, Waits(c, b)
  PROVE  Waits(c, WithGradient(b, MyGradient(w)))
<1>1. MyGradient(c.by).by = c.by /\ MyGradient(w).by = w
  BY DEF MyGradient
<1>. QED BY <1>1 DEF Waits, WithGradient, Barrier

LEMMA SyncCalls ==
  ASSUME NEW w \in Worker, NEW l \in Worker, TypeOK, CallInv, Sync(w, l)
  PROVE  CallInv'
<1>. DEFINE b == WithGradient(BarrierOf(l), MyGradient(w))
<1>1. PICK alive \in SUBSET Worker :
        /\ barriers' = {c \in barriers : ~(c.at = l /\ c.term = term[l])} \cup {Submitted(b, alive)}
        /\ calls' = calls \cup {[by |-> w, at |-> l, term |-> term[l], event |-> Event(b, Submitted(b, alive))]}
  BY DEF Sync
<1>2. /\ client[w] = "syncing" /\ client' = [client EXCEPT ![w] = "calling"]
      /\ UNCHANGED trainings
  BY DEF Sync
<1>. DEFINE after == Submitted(b, alive)
            new == [by |-> w, at |-> l, term |-> term[l], event |-> b.round]
<1>3. calls' = calls \cup {new}
  BY <1>1 DEF Event
<1>4. /\ BarrierOf(l) \in Barrier /\ BarrierOf(l).at = l /\ BarrierOf(l).term = term[l]
      /\ \A d \in barriers : d.at = l /\ d.term = term[l] => d = BarrierOf(l)
  BY BarrierOfType, BarrierOfIs DEF CallInv
<1>5. MyGradient(w) \in Gradient
  BY DEF MyGradient, Gradient, TypeOK
<1>6. b \in Barrier /\ b.at = l /\ b.term = term[l] /\ MyGradient(w) \in b.pending
  BY <1>4, <1>5, RoundType DEF WithGradient, Barrier
<1>7. \A c \in calls : c.by # w
  BY <1>2 DEF CallInv, OneCallEach
<1>8. new \in Waiting /\ Waits(new, b)
  <2>1. new \in Waiting
    BY <1>6 DEF Waiting, TypeOK, Barrier
  <2>. QED BY <2>1, <1>6 DEF Waits
<1>9. ASSUME NEW c \in Waiting, Waits(c, b)
      PROVE  Waits(c, after)
  BY <1>6, <1>9, RoundKeeps DEF Submitted
<1>10. after.at = l /\ after.term = term[l]
  BY <1>8, <1>9 DEF Waits
<1>11. barriers' = {c \in barriers : ~(c.at = l /\ c.term = term[l])} \cup {after}
  BY <1>1
<1>. HIDE DEF b, after, new
<1>12. new.by = w
  BY DEF new
<1>13. OneCallEach'
  <2>1. \A c \in calls : c.by \in Worker /\ client'[c.by] = "calling"
    BY <1>2, <1>7 DEF CallInv, OneCallEach, TypeOK, Waiting, Answered
  <2>2. client'[w] = "calling"
    BY <1>2 DEF TypeOK
  <2>. QED BY <1>3, <1>7, <1>12, <2>1, <2>2 DEF CallInv, OneCallEach
<1>14. OneBarrierEach'
  BY <1>10, <1>11 DEF CallInv, OneBarrierEach
<1>15. ASSUME NEW c \in calls' \cap Waiting
       PROVE  \E d \in barriers' : Waits(c, d)
  <2>1. CASE c = new
    BY <1>8, <1>9, <1>11, <2>1
  <2>2. CASE c \in calls
    <3>1. PICK d \in barriers : Waits(c, d)
      BY <2>2 DEF CallInv, WaitingInv
    <3>2. CASE d.at = l /\ d.term = term[l]
      <4>1. Waits(c, BarrierOf(l))
        BY <1>4, <3>1, <3>2
      <4>2. Waits(c, b)
        BY <1>4, <1>7, <2>2, <4>1, SubmissionKeeps DEF b
      <4>. QED BY <1>9, <1>11, <4>2
    <3>3. CASE ~(d.at = l /\ d.term = term[l])
      BY <1>11, <3>1, <3>3
    <3>. QED BY <3>2, <3>3
  <2>. QED BY <1>3, <2>1, <2>2
<1>16. WaitingInv'
  BY <1>2, <1>15 DEF WaitingInv, Waits, MyGradient
<1>17. AnsweredInv'
  BY <1>2, <1>3, <1>8, WaitingOrAnswered DEF CallInv, AnsweredInv, MyGradient
<1>. QED BY <1>13, <1>14, <1>16, <1>17 DEF CallInv

LEMMA CallStep == TypeOK /\ CallInv /\ [Next]_vars => CallInv'
<1>. SUFFICES ASSUME TypeOK, CallInv, [Next]_vars PROVE CallInv'
  OBVIOUS
<1>0. \A c \in calls : c.by \in Worker
  BY DEF TypeOK, Waiting, Answered
<1>1. ASSUME \E w \in Worker : Stand(w) \/ Elect(w) \/ \E l \in Worker : Hear(w, l) \/ LearnTerm(w, l)
      PROVE  CallInv'
  BY <1>1, CallFrame DEF Stand, Elect, Hear, LearnTerm
<1>2. ASSUME NEW w \in Worker, InnerTrain(w) PROVE CallInv'
  <2>1. /\ client[w] = "training" /\ client' = [client EXCEPT ![w] = "syncing"]
        /\ trainings' = [trainings EXCEPT ![w] = @ + 1]
        /\ UNCHANGED <<barriers, calls>>
    BY <1>2 DEF InnerTrain
  <2>2. \A c \in calls : c.by # w
    BY <2>1 DEF CallInv, OneCallEach
  <2>3. \A c \in calls : client'[c.by] = client[c.by] /\ MyGradient(c.by)' = MyGradient(c.by)
    BY <1>0, <2>1, <2>2 DEF TypeOK, MyGradient
  <2>. QED BY <2>1, <2>3 DEF CallInv, OneCallEach, OneBarrierEach, WaitingInv, AnsweredInv, Waits
<1>3. ASSUME NEW w \in Worker, NEW l \in Worker, Sync(w, l) PROVE CallInv'
  BY <1>3, SyncCalls
<1>4. ASSUME NEW w \in Worker, SyncFails(w) PROVE CallInv'
  <2>1. /\ client' = [client EXCEPT ![w] = "syncing"] /\ calls' = {c \in calls : c.by # w}
        /\ UNCHANGED <<barriers, trainings>>
    BY <1>4 DEF SyncFails
  <2>2. \A c \in calls' : client'[c.by] = client[c.by]
    BY <1>0, <2>1 DEF TypeOK
  <2>. QED BY <2>1, <2>2, CallFrame
<1>5. ASSUME NEW w \in Worker, ReplacePod(w) PROVE CallInv'
  <2>1. /\ barriers' = {b \in barriers : b.at # w}
        /\ calls' = {c \in calls : c.by # w /\ c.at # w}
        /\ UNCHANGED trainings
        /\ client' = [v \in Worker |->
             IF v = w THEN "training"
             ELSE IF \E c \in calls : c.by = v /\ c.at = w THEN "syncing" ELSE client[v]]
    BY <1>5 DEF ReplacePod
  <2>2. OneCallEach'
    BY <1>0, <2>1 DEF CallInv, OneCallEach
  <2>3. OneBarrierEach'
    BY <2>1 DEF CallInv, OneBarrierEach
  <2>4. WaitingInv'
    BY <2>1 DEF CallInv, WaitingInv, Waits, MyGradient
  <2>5. AnsweredInv'
    BY <2>1 DEF CallInv, AnsweredInv, MyGradient
  <2>. QED BY <2>2, <2>3, <2>4, <2>5 DEF CallInv
<1>6. ASSUME NEW b \in barriers, TimerFires(b) PROVE CallInv'
  <2>1. PICK a \in {AfterRound(b), [b EXCEPT !.timer = FALSE]} : barriers' = (barriers \ {b}) \cup {a}
    BY <1>6 DEF TimerFires
  <2>2. UNCHANGED <<calls, client, trainings>> /\ b \in Barrier
    BY <1>6 DEF TimerFires, TypeOK
  <2>3. a.at = b.at /\ a.term = b.term
    BY <2>2 DEF AfterRound, OuterStep, Barrier
  <2>4. \A c \in Waiting : Waits(c, b) => Waits(c, a)
    BY <2>2, RoundKeeps
  <2>5. WaitingInv'
    BY <2>1, <2>2, <2>4 DEF CallInv, WaitingInv, Waits, MyGradient
  <2>6. OneBarrierEach'
    BY <2>1, <2>3 DEF CallInv, OneBarrierEach
  <2>. QED BY <2>2, <2>5, <2>6 DEF CallInv, OneCallEach, AnsweredInv, MyGradient
<1>7. ASSUME NEW c \in calls, SyncReturns(c) PROVE CallInv'
  <2>1. PICK b \in barriers :
          /\ b.at = c.at /\ b.term = c.term /\ b.round > c.event
          /\ calls' = (calls \ {c}) \cup
               {[by |-> c.by, at |-> c.at, term |-> c.term, round |-> RoundReached(c, b), model |-> b.model]}
    BY <1>7 DEF SyncReturns
  <2>2. UNCHANGED <<client, barriers, trainings>> /\ c \in Waiting
    BY <1>7 DEF SyncReturns
  <2>. DEFINE d == [by |-> c.by, at |-> c.at, term |-> c.term, round |-> RoundReached(c, b), model |-> b.model]
  <2>3. d \in Answered /\ d.by = c.by /\ d.model = b.model
    BY <2>2 DEF Waiting, Answered, RoundReached, Barrier, TypeOK
  <2>4. MyGradient(c.by) \in b.model.grads
    <3>1. PICK a \in barriers : Waits(c, a)
      BY <2>2 DEF CallInv, WaitingInv
    <3>2. a = b
      BY <2>1, <3>1 DEF Waits, CallInv, OneBarrierEach
    <3>3. b.round \in Nat /\ c.event \in Nat
      BY <2>2 DEF Waiting, Barrier, TypeOK
    <3>. QED BY <2>1, <3>1, <3>2, <3>3 DEF Waits
  <2>5. calls' = (calls \ {c}) \cup {d}
    BY <2>1
  <2>. HIDE DEF d
  <2>6. OneCallEach'
    BY <2>2, <2>3, <2>5 DEF CallInv, OneCallEach
  <2>7. WaitingInv'
    BY <2>2, <2>3, <2>5, WaitingOrAnswered DEF CallInv, WaitingInv, Waits, MyGradient
  <2>8. AnsweredInv'
    BY <2>2, <2>3, <2>4, <2>5 DEF CallInv, AnsweredInv, MyGradient
  <2>. QED BY <2>2, <2>6, <2>7, <2>8 DEF CallInv, OneBarrierEach
<1>8. ASSUME NEW c \in calls, Adopt(c) PROVE CallInv'
  <2>1. /\ client' = [client EXCEPT ![c.by] = "training"] /\ calls' = calls \ {c}
        /\ UNCHANGED <<barriers, trainings>>
    BY <1>8 DEF Adopt
  <2>2. \A d \in calls' : client'[d.by] = client[d.by]
    BY <1>0, <2>1 DEF TypeOK, CallInv, OneCallEach
  <2>. QED BY <2>1, <2>2, CallFrame
<1>9. CASE UNCHANGED vars
  BY <1>9, CallFrame DEF vars
<1>. QED BY <1>1, <1>2, <1>3, <1>4, <1>5, <1>6, <1>7, <1>8, <1>9 DEF Next

\* A worker goes on with a model that its own last training is part of, whichever
\* barrier, round, retry or timeout its call ended in.
THEOREM EveryoneContributes == Spec => Contributes
<1>1. TypeOK /\ CallInv /\ [Next]_vars =>
        [\A w \in Worker : client[w] = "calling" /\ client'[w] = "training" /\ replaced' = replaced
           => MyGradient(w) \in model'[w].grads]_vars
  <2>. SUFFICES ASSUME TypeOK, CallInv, Next, NEW w \in Worker,
                       client[w] = "calling", client'[w] = "training", replaced' = replaced
                PROVE  MyGradient(w) \in model'[w].grads
    OBVIOUS
  <2>1. ASSUME NEW c \in calls, Adopt(c) PROVE MyGradient(w) \in model'[w].grads
    <3>1. c \in Answered /\ c.by \in Worker
      BY <2>1 DEF Adopt, Answered
    <3>2. client' = [client EXCEPT ![c.by] = "training"] /\ model' = [model EXCEPT ![c.by] = c.model]
      BY <2>1 DEF Adopt
    <3>3. c.by = w
      BY <3>2 DEF TypeOK
    <3>4. MyGradient(c.by) \in c.model.grads
      BY <2>1, <3>1 DEF CallInv, AnsweredInv
    <3>. QED BY <3>2, <3>3, <3>4 DEF TypeOK
  <2>2. ASSUME NEW v \in Worker, ReplacePod(v) PROVE FALSE
    BY <2>2 DEF ReplacePod, TypeOK
  <2>3. ASSUME NEW v \in Worker, InnerTrain(v) \/ SyncFails(v) \/ \E l \in Worker : Sync(v, l) PROVE FALSE
    <3>1. client' = [client EXCEPT ![v] = "syncing"] \/ client' = [client EXCEPT ![v] = "calling"]
      BY <2>3 DEF InnerTrain, SyncFails, Sync
    <3>. QED BY <3>1 DEF TypeOK
  <2>4. CASE UNCHANGED client
    BY <2>4
  <2>. QED BY <2>1, <2>2, <2>3, <2>4 DEF Next, Stand, Elect, Hear, LearnTerm, TimerFires, SyncReturns
<1>. QED BY <1>1, TypeInit, TypeStep, CallInit, CallStep, PTL DEF Spec, Contributes

-----------------------------------------------------------------------------
(* Nothing is averaged twice. *)

\* A gradient that was applied: it is in some model.
InModels(g) ==
  \/ \E w \in Worker : g \in model[w].grads
  \/ \E b \in barriers : g \in b.model.grads
  \/ \E c \in calls \cap Answered : g \in c.model.grads

\* Whose gradient is pending in a barrier waits for that round of it.
PendingWaits ==
  \A b \in barriers : \A g \in b.pending :
     /\ g = MyGradient(g.by)
     /\ \E c \in calls \cap Waiting : c.at = b.at /\ c.term = b.term /\ c.by = g.by /\ c.event = b.round

\* What was applied is none that is yet to be computed, sent or applied.
AppliedInv ==
  \A g \in Gradient : InModels(g) =>
     /\ g.training <= trainings[g.by]
     /\ g = MyGradient(g.by) => client[g.by] # "syncing"
     /\ \A b \in barriers : g \notin b.pending

OnceInv == retries = 0 /\ replaced = 0 => PendingWaits /\ AppliedInv

LEMMA OnceInit == Init => OnceInv
<1>. SUFFICES ASSUME Init PROVE PendingWaits /\ AppliedInv
  BY DEF OnceInv
<1>1. barriers = {} /\ calls = {} /\ \A w \in Worker : model[w].grads = {}
  BY DEF Init, Untrained
<1>. QED BY <1>1 DEF PendingWaits, AppliedInv, InModels

\* A submission joins those that are pending; those of a round that closes were
\* pending nowhere else.
LEMMA SyncOnce ==
  ASSUME NEW w \in Worker, NEW l \in Worker, TypeOK, CallInv, PendingWaits, AppliedInv, Sync(w, l)
  PROVE  PendingWaits' /\ AppliedInv'
<1>. DEFINE old == BarrierOf(l)
            b == WithGradient(old, MyGradient(w))
<1>1. PICK alive \in SUBSET Worker :
        /\ barriers' = {c \in barriers : ~(c.at = l /\ c.term = term[l])} \cup {Submitted(b, alive)}
        /\ calls' = calls \cup {[by |-> w, at |-> l, term |-> term[l], event |-> Event(b, Submitted(b, alive))]}
  BY DEF Sync
<1>2. /\ client[w] = "syncing" /\ client' = [client EXCEPT ![w] = "calling"]
      /\ UNCHANGED <<trainings, model>>
  BY DEF Sync
<1>. DEFINE after == Submitted(b, alive)
            new == [by |-> w, at |-> l, term |-> term[l], event |-> b.round]
<1>3. calls' = calls \cup {new} /\ new.by = w /\ new.at = l /\ new.term = term[l] /\ new.event = b.round
  BY <1>1 DEF Event
<1>4. /\ old \in Barrier /\ old.at = l /\ old.term = term[l]
      /\ \A d \in barriers : d.at = l /\ d.term = term[l] => d = old
  BY BarrierOfType, BarrierOfIs DEF CallInv
<1>5. /\ old \in barriers \/ old.pending = {}
      /\ \A g \in old.model.grads : InModels(g)
  <2>1. CASE \E c \in barriers : c.at = l /\ c.term = term[l]
    BY <2>1, <1>4 DEF InModels
  <2>2. CASE ~ \E c \in barriers : c.at = l /\ c.term = term[l]
    <3>1. old = [at |-> l, term |-> term[l], round |-> round[l], model |-> model[l], pending |-> {}, timer |-> FALSE]
      BY <2>2 DEF BarrierOf
    <3>. QED BY <3>1 DEF InModels
  <2>. QED BY <2>1, <2>2
<1>6. MyGradient(w) \in Gradient /\ MyGradient(w).by = w /\ ~InModels(MyGradient(w))
  BY <1>2 DEF MyGradient, Gradient, TypeOK, AppliedInv
<1>. HIDE DEF old
<1>7. /\ b \in Barrier /\ b.at = l /\ b.term = term[l] /\ b.round = old.round
      /\ b.model = old.model /\ b.pending \subseteq old.pending \cup {MyGradient(w)}
  BY <1>4, <1>6, RoundType DEF WithGradient, Barrier
<1>. HIDE DEF b
<1>8. /\ after.at = l /\ after.term = term[l]
      /\ \/ after.round = b.round /\ after.pending = b.pending /\ after.model.grads = b.model.grads
         \/ after.pending = {} /\ after.model.grads = b.model.grads \cup b.pending
  BY <1>7 DEF Submitted, AfterRound, OuterStep, Barrier, Model
<1>9. barriers' = {c \in barriers : ~(c.at = l /\ c.term = term[l])} \cup {after}
  BY <1>1
<1>. HIDE DEF after, new
<1>10. new \in Waiting
  <2>1. new = [by |-> w, at |-> l, term |-> term[l], event |-> b.round]
    BY DEF new
  <2>. QED BY <2>1, <1>7 DEF Waiting, TypeOK, Barrier
<1>11. ASSUME NEW g \in b.pending
       PROVE  /\ g = MyGradient(g.by) /\ ~InModels(g) /\ client'[g.by] = "calling" /\ g.by \in Worker
              /\ \E c \in calls' \cap Waiting : c.at = l /\ c.term = term[l] /\ c.by = g.by /\ c.event = b.round
              /\ \A d \in barriers : g \in d.pending => d.at = l /\ d.term = term[l]
  <2>1. CASE g = MyGradient(w)
    <3>1. ASSUME NEW d \in barriers, g \in d.pending PROVE FALSE
      BY <1>2, <1>6, <2>1, <3>1 DEF PendingWaits, CallInv, OneCallEach
    <3>. QED BY <1>2, <1>3, <1>6, <1>10, <2>1, <3>1 DEF TypeOK
  <2>2. CASE g # MyGradient(w)
    <3>1. g \in old.pending /\ old \in barriers
      BY <1>5, <1>7, <2>2
    <3>2. PICK c \in calls \cap Waiting : c.at = l /\ c.term = term[l] /\ c.by = g.by /\ c.event = b.round
      BY <1>4, <1>7, <3>1 DEF PendingWaits
    <3>3. g = MyGradient(g.by) /\ g.by \in Worker /\ g \in Gradient
      BY <1>4, <3>1, <3>2 DEF PendingWaits, Barrier, Waiting
    <3>4. client[g.by] = "calling" /\ client'[g.by] = "calling"
      BY <1>2, <3>2, <3>3 DEF CallInv, OneCallEach, TypeOK
    <3>5. ~InModels(g)
      BY <3>1, <3>3 DEF AppliedInv
    <3>6. ASSUME NEW d \in barriers, g \in d.pending PROVE d.at = l /\ d.term = term[l]
      BY <3>2, <3>6 DEF PendingWaits, CallInv, OneCallEach
    <3>. QED BY <1>3, <3>2, <3>3, <3>4, <3>5, <3>6
  <2>. QED BY <2>1, <2>2
<1>12. \A g : MyGradient(g)' = MyGradient(g)
  BY <1>2 DEF MyGradient
<1>13. PendingWaits'
  <2>. SUFFICES ASSUME NEW d \in barriers', NEW g \in d.pending
                PROVE  /\ g = MyGradient(g.by)
                       /\ \E c \in calls' \cap Waiting : c.at = d.at /\ c.term = d.term /\ c.by = g.by /\ c.event = d.round
    BY <1>12 DEF PendingWaits
  <2>1. CASE d = after
    BY <1>8, <1>11, <2>1
  <2>2. CASE d \in barriers
    BY <1>3, <2>2 DEF PendingWaits
  <2>. QED BY <1>9, <2>1, <2>2
<1>14. ASSUME NEW g \in Gradient, InModels(g)'
       PROVE  InModels(g) \/ (g \in b.pending /\ after.pending = {})
  <2>1. ASSUME NEW d \in barriers', g \in d.model.grads
        PROVE  InModels(g) \/ (g \in b.pending /\ after.pending = {})
    <3>1. CASE d = after
      BY <1>5, <1>7, <1>8, <2>1, <3>1
    <3>2. CASE d \in barriers
      BY <2>1, <3>2 DEF InModels
    <3>. QED BY <1>9, <3>1, <3>2
  <2>2. new \notin Answered
    BY <1>10, WaitingOrAnswered
  <2>. QED BY <1>2, <1>3, <1>14, <2>1, <2>2 DEF InModels
<1>15. AppliedInv'
  <2>. SUFFICES ASSUME NEW g \in Gradient, InModels(g)'
                PROVE  /\ g.training <= trainings[g.by]
                       /\ g = MyGradient(g.by) => client'[g.by] # "syncing"
                       /\ \A d \in barriers' : g \notin d.pending
    BY <1>2, <1>12 DEF AppliedInv
  <2>1. CASE InModels(g)
    <3>0. /\ g.training <= trainings[g.by] /\ (g = MyGradient(g.by) => client[g.by] # "syncing")
          /\ \A d \in barriers : g \notin d.pending
      BY <2>1 DEF AppliedInv
    <3>1. ASSUME NEW d \in barriers' PROVE g \notin d.pending
      <4>1. CASE d = after
        BY <1>8, <1>11, <2>1, <4>1
      <4>2. CASE d \in barriers
        BY <3>0, <4>2
      <4>. QED BY <1>9, <4>1, <4>2
    <3>2. g.training <= trainings[g.by] /\ (g = MyGradient(g.by) => client[g.by] # "syncing") /\ g.by \in Worker
      BY <3>0 DEF Gradient
    <3>3. client'[g.by] # "syncing" \/ client[g.by] = "syncing"
      BY <1>2, <3>2 DEF TypeOK
    <3>. QED BY <3>1, <3>2, <3>3
  <2>2. CASE g \in b.pending /\ after.pending = {}
    <3>1. \A d \in barriers' : g \notin d.pending
      BY <1>9, <1>11, <2>2
    <3>2. g.training <= trainings[g.by] /\ client'[g.by] # "syncing"
      BY <1>11, <2>2 DEF MyGradient, TypeOK
    <3>. QED BY <3>1, <3>2
  <2>. QED BY <1>14, <2>1, <2>2
<1>. QED BY <1>13, <1>15

\* A step that adds nothing to a model, leaves the pending where they are and answers
\* nobody who waits for them.
LEMMA OnceFrame ==
  ASSUME TypeOK, PendingWaits, AppliedInv, UNCHANGED trainings,
         \A w \in Worker : client'[w] = "syncing" => client[w] = "syncing",
         \A g \in Gradient : InModels(g)' => InModels(g),
         \A d \in barriers' : \E b \in barriers :
            d.at = b.at /\ d.term = b.term /\ d.pending \subseteq b.pending /\ (d.pending # {} => d.round = b.round),
         \A c \in (calls \cap Waiting) \ calls' : \A b \in barriers :
            b.at = c.at /\ b.term = c.term => b.round # c.event
  PROVE  PendingWaits' /\ AppliedInv'
<1>1. \A g : MyGradient(g)' = MyGradient(g)
  BY DEF MyGradient
<1>2. ASSUME NEW d \in barriers', NEW g \in d.pending
      PROVE  /\ g = MyGradient(g.by)
             /\ \E c \in calls' \cap Waiting : c.at = d.at /\ c.term = d.term /\ c.by = g.by /\ c.event = d.round
  <2>1. PICK b \in barriers : d.at = b.at /\ d.term = b.term /\ g \in b.pending /\ d.round = b.round
    OBVIOUS
  <2>2. PICK c \in calls \cap Waiting : c.at = b.at /\ c.term = b.term /\ c.by = g.by /\ c.event = b.round
    BY <2>1 DEF PendingWaits
  <2>3. c \in calls'
    BY <2>1, <2>2
  <2>. QED BY <2>1, <2>2, <2>3 DEF PendingWaits
<1>3. PendingWaits'
  BY <1>1, <1>2 DEF PendingWaits
<1>4. ASSUME NEW g \in Gradient, InModels(g)
      PROVE  /\ g.training <= trainings'[g.by]
             /\ g = MyGradient(g.by) => client'[g.by] # "syncing"
             /\ \A d \in barriers' : g \notin d.pending
  <2>1. g.by \in Worker
    BY DEF Gradient
  <2>2. /\ g.training <= trainings[g.by] /\ (g = MyGradient(g.by) => client[g.by] # "syncing")
        /\ \A b \in barriers : g \notin b.pending
    BY <1>4 DEF AppliedInv
  <2>. QED BY <2>1, <2>2
<1>5. AppliedInv'
  BY <1>1, <1>4 DEF AppliedInv
<1>. QED BY <1>3, <1>5

LEMMA TimerOnce ==
  ASSUME NEW b \in barriers, TypeOK, CallInv, PendingWaits, AppliedInv, TimerFires(b)
  PROVE  PendingWaits' /\ AppliedInv'
<1>1. /\ b.timer /\ UNCHANGED <<raftVars, model, round, trainings, client, calls, retries, replaced>>
      /\ barriers' = (barriers \ {b}) \cup {IF b.pending = {} THEN [b EXCEPT !.timer = FALSE] ELSE AfterRound(b)}
  BY DEF TimerFires
<1>. DEFINE a == IF b.pending = {} THEN [b EXCEPT !.timer = FALSE] ELSE AfterRound(b)
<1>2. /\ a.at = b.at /\ a.term = b.term /\ a.pending = {}
      /\ a.model.grads = b.model.grads \cup b.pending
  BY DEF AfterRound, OuterStep, Barrier, Model, TypeOK
<1>3. barriers' = (barriers \ {b}) \cup {a}
  BY <1>1
<1>. HIDE DEF a
<1>4. \A g : MyGradient(g)' = MyGradient(g)
  BY <1>1 DEF MyGradient
<1>5. PendingWaits'
  BY <1>1, <1>2, <1>3, <1>4 DEF PendingWaits
<1>6. ASSUME NEW g \in b.pending
      PROVE  /\ g = MyGradient(g.by) /\ g.by \in Worker /\ client[g.by] = "calling"
             /\ \A d \in barriers : g \in d.pending => d = b
  <2>1. PICK c \in calls \cap Waiting : c.at = b.at /\ c.term = b.term /\ c.by = g.by
    BY DEF PendingWaits
  <2>2. c.by \in Worker /\ client[c.by] = "calling"
    BY <2>1 DEF Waiting, CallInv, OneCallEach
  <2>3. ASSUME NEW d \in barriers, g \in d.pending PROVE d = b
    <3>1. PICK e \in calls \cap Waiting : e.at = d.at /\ e.term = d.term /\ e.by = g.by
      BY <2>3 DEF PendingWaits
    <3>2. e = c
      BY <2>1, <3>1 DEF CallInv, OneCallEach
    <3>. QED BY <2>1, <3>1, <3>2 DEF CallInv, OneBarrierEach
  <2>. QED BY <2>1, <2>2, <2>3 DEF PendingWaits
<1>7. ASSUME NEW g \in Gradient, InModels(g)'
      PROVE  InModels(g) \/ g \in b.pending
  <2>1. ASSUME NEW d \in barriers', g \in d.model.grads
        PROVE  InModels(g) \/ g \in b.pending
    BY <1>2, <1>3, <2>1 DEF InModels
  <2>. QED BY <1>1, <1>7, <2>1 DEF InModels
<1>8. ASSUME NEW g \in Gradient, InModels(g)'
      PROVE  /\ g.training <= trainings[g.by]
             /\ g = MyGradient(g.by) => client[g.by] # "syncing"
             /\ \A d \in barriers' : g \notin d.pending
  <2>1. CASE InModels(g)
    BY <1>2, <1>3, <2>1 DEF AppliedInv
  <2>2. CASE g \in b.pending
    <3>1. g.training = trainings[g.by] /\ client[g.by] = "calling"
      BY <1>6, <2>2 DEF MyGradient
    <3>2. trainings[g.by] \in Nat
      BY <1>6, <2>2 DEF TypeOK
    <3>3. \A d \in barriers' : g \notin d.pending
      BY <1>2, <1>3, <1>6, <2>2
    <3>. QED BY <3>1, <3>2, <3>3
  <2>. QED BY <1>7, <1>8, <2>1, <2>2
<1>9. AppliedInv'
  BY <1>1, <1>4, <1>8 DEF AppliedInv
<1>. QED BY <1>5, <1>9

LEMMA OnceStep == TypeOK /\ CallInv /\ OnceInv /\ [Next]_vars => OnceInv'
<1>. SUFFICES ASSUME TypeOK, CallInv, OnceInv, [Next]_vars, retries' = 0, replaced' = 0
              PROVE  PendingWaits' /\ AppliedInv'
  BY DEF OnceInv
<1>1. ASSUME NEW w \in Worker, SyncFails(w) \/ ReplacePod(w) PROVE FALSE
  BY <1>1 DEF SyncFails, ReplacePod, TypeOK
<1>2. UNCHANGED <<retries, replaced>>
  BY <1>1 DEF Next, vars, Stand, Elect, Hear, LearnTerm, InnerTrain, Sync, TimerFires, SyncReturns, Adopt
<1>3. PendingWaits /\ AppliedInv
  BY <1>2 DEF OnceInv
<1>4. ASSUME UNCHANGED <<model, trainings, client, barriers, calls>>
      PROVE  PendingWaits' /\ AppliedInv'
  <2>1. \A g \in Gradient : InModels(g)' => InModels(g)
    BY <1>4 DEF InModels
  <2>. QED BY <1>3, <1>4, <2>1, OnceFrame
<1>5. ASSUME NEW w \in Worker, InnerTrain(w) PROVE PendingWaits' /\ AppliedInv'
  <2>1. /\ client[w] = "training" /\ client' = [client EXCEPT ![w] = "syncing"]
        /\ trainings' = [trainings EXCEPT ![w] = @ + 1]
        /\ UNCHANGED <<model, barriers, calls>>
    BY <1>5 DEF InnerTrain
  <2>2. \A c \in calls : c.by # w
    BY <2>1 DEF CallInv, OneCallEach
  <2>3. ASSUME NEW v \in Worker, v # w
        PROVE  MyGradient(v)' = MyGradient(v) /\ client'[v] = client[v] /\ trainings'[v] = trainings[v]
    BY <2>1, <2>3 DEF TypeOK, MyGradient
  <2>4. PendingWaits'
    <3>. SUFFICES ASSUME NEW b \in barriers, NEW g \in b.pending
                  PROVE  /\ g = MyGradient(g.by)'
                         /\ \E c \in calls \cap Waiting : c.at = b.at /\ c.term = b.term /\ c.by = g.by /\ c.event = b.round
      BY <2>1 DEF PendingWaits
    <3>1. PICK c \in calls \cap Waiting : c.at = b.at /\ c.term = b.term /\ c.by = g.by /\ c.event = b.round
      BY <1>3 DEF PendingWaits
    <3>2. g.by \in Worker /\ g.by # w /\ g = MyGradient(g.by)
      BY <1>3, <2>2, <3>1 DEF PendingWaits, Waiting
    <3>. QED BY <2>3, <3>1, <3>2
  <2>5. ASSUME NEW g \in Gradient, InModels(g)
        PROVE  /\ g.training <= trainings'[g.by]
               /\ g = MyGradient(g.by)' => client'[g.by] # "syncing"
    <3>1. /\ g.by \in Worker /\ g.training \in Nat /\ g.training <= trainings[g.by]
          /\ g = MyGradient(g.by) => client[g.by] # "syncing"
      BY <1>3, <2>5 DEF AppliedInv, Gradient
    <3>2. CASE g.by = w
      <4>1. trainings[w] \in Nat /\ trainings'[w] = trainings[w] + 1
        BY <2>1 DEF TypeOK
      <4>2. MyGradient(w)'.training = trainings'[w]
        BY DEF MyGradient
      <4>. QED BY <3>1, <3>2, <4>1, <4>2
    <3>3. CASE g.by # w
      BY <2>3, <3>1, <3>3
    <3>. QED BY <3>2, <3>3
  <2>6. \A g \in Gradient : InModels(g)' <=> InModels(g)
    BY <2>1 DEF InModels
  <2>7. AppliedInv'
    BY <1>3, <2>1, <2>5, <2>6 DEF AppliedInv
  <2>. QED BY <2>4, <2>7
<1>6. ASSUME NEW w \in Worker, NEW l \in Worker, Sync(w, l) PROVE PendingWaits' /\ AppliedInv'
  BY <1>3, <1>6, SyncOnce
<1>7. ASSUME NEW b \in barriers, TimerFires(b) PROVE PendingWaits' /\ AppliedInv'
  BY <1>3, <1>7, TimerOnce
<1>8. ASSUME NEW c \in calls, SyncReturns(c) PROVE PendingWaits' /\ AppliedInv'
  <2>1. PICK b \in barriers :
          /\ b.at = c.at /\ b.term = c.term /\ b.round > c.event
          /\ calls' = (calls \ {c}) \cup
               {[by |-> c.by, at |-> c.at, term |-> c.term, round |-> RoundReached(c, b), model |-> b.model]}
    BY <1>8 DEF SyncReturns
  <2>2. UNCHANGED <<model, trainings, client, barriers>> /\ c \in Waiting
    BY <1>8 DEF SyncReturns
  <2>3. \A g \in Gradient : InModels(g)' => InModels(g)
    BY <2>1, <2>2 DEF InModels
  <2>4. \A d \in barriers : d.at = c.at /\ d.term = c.term => d.round # c.event
    BY <2>1, <2>2 DEF CallInv, OneBarrierEach, Waiting, Barrier, TypeOK
  <2>5. \A d \in (calls \cap Waiting) \ calls' : d = c
    BY <2>1
  <2>. QED BY <1>3, <2>2, <2>3, <2>4, <2>5, OnceFrame
<1>9. ASSUME NEW c \in calls, Adopt(c) PROVE PendingWaits' /\ AppliedInv'
  <2>1. /\ c \in Answered /\ c.by \in Worker /\ calls' = calls \ {c}
        /\ model' = [model EXCEPT ![c.by] = c.model] /\ client' = [client EXCEPT ![c.by] = "training"]
        /\ UNCHANGED <<trainings, barriers>>
    BY <1>9 DEF Adopt, Answered
  <2>2. \A g \in Gradient : InModels(g)' => InModels(g)
    BY <2>1 DEF InModels, TypeOK
  <2>3. \A w \in Worker : client'[w] = "syncing" => client[w] = "syncing"
    BY <2>1 DEF TypeOK
  <2>4. (calls \cap Waiting) \ calls' = {}
    BY <2>1, WaitingOrAnswered
  <2>. QED BY <1>3, <2>1, <2>2, <2>3, <2>4, OnceFrame
<1>10. ASSUME \E w \in Worker : Stand(w) \/ Elect(w) \/ \E l \in Worker : Hear(w, l) \/ LearnTerm(w, l)
       PROVE  PendingWaits' /\ AppliedInv'
  BY <1>4, <1>10 DEF Stand, Elect, Hear, LearnTerm
<1>11. CASE UNCHANGED vars
  BY <1>4, <1>11 DEF vars
<1>. QED BY <1>1, <1>5, <1>6, <1>7, <1>8, <1>9, <1>10, <1>11 DEF Next

\* Without a call given up or a pod replaced, no training is averaged twice, however
\* the leadership moves and timers fire.
THEOREM NothingIsAveragedTwice == Spec => []AveragedOnce
<1>1. TypeOK /\ OnceInv => AveragedOnce
  <2>. SUFFICES ASSUME TypeOK, OnceInv, retries = 0, replaced = 0, NEW b \in barriers, NEW c \in barriers
                PROVE  b.pending \cap c.model.grads = {}
    BY DEF AveragedOnce
  <2>1. \A g \in c.model.grads : InModels(g) /\ g \in Gradient
    BY DEF InModels, TypeOK, Barrier, Model
  <2>. QED BY <2>1 DEF OnceInv, AppliedInv
<1>. QED BY <1>1, TypeInit, TypeStep, CallInit, CallStep, OnceInit, OnceStep, PTL DEF Spec

-----------------------------------------------------------------------------
(* A round is a model. *)

\* There has been one leader at most.
OneEra == replaced = 0 /\ \A w \in Worker : term[w] <= 1

\* Who leads is alone, has a majority in its term, and the only barrier.
SoleLeader ==
  /\ \A w \in Worker : leads[w] => term[w] = 1
  /\ \A v, w \in Worker : leads[v] /\ leads[w] => v = w
  /\ (\E w \in Worker : leads[w]) => \E Q \in Majority : \A q \in Q : term[q] = 1
  /\ \A b \in barriers : leads[b.at] /\ b.term = 1

\* Somebody takes m for the outcome of round r.
Outcome(r, m) ==
  \/ \E w \in Worker : round[w] = r /\ model[w] = m
  \/ \E c \in calls \cap Answered : c.round = r /\ c.model = m
  \/ \E b \in barriers : b.round = r /\ b.model = m

\* A round that is over has one outcome; no barrier is behind it, and some has been there.
OutcomeInv ==
  /\ \A r \in Nat, m, k \in Model : r > 0 /\ Outcome(r, m) /\ Outcome(r, k) => m = k
  /\ \A r \in Nat, m \in Model : Outcome(r, m) => \A b \in barriers : r <= b.round
  /\ \A r \in Nat, m \in Model : Outcome(r, m) /\ r > 0 => barriers # {}

EraInv == OneEra => SoleLeader /\ OutcomeInv

\* At first nobody leads and no round is over.
LEMMA EraInit == Init => EraInv
<1>. SUFFICES ASSUME Init PROVE SoleLeader /\ OutcomeInv
  BY DEF EraInv
<1>1. SoleLeader
  BY DEF Init, SoleLeader
<1>2. \A r \in Nat, m \in Model : Outcome(r, m) => r = 0
  BY DEF Init, Outcome
<1>3. barriers = {}
  BY DEF Init
<1>. QED BY <1>1, <1>2, <1>3 DEF OutcomeInv

\* Two majorities share a worker.
LEMMA MajoritiesMeet ==
  ASSUME NEW Q \in Majority, NEW R \in Majority
  PROVE  Q \cap R # {}
<1>1. Q \subseteq Worker /\ R \subseteq Worker
  BY DEF Majority
<1>2. Cardinality(Worker) \in Nat /\ Cardinality(Q) \in Nat /\ Cardinality(R) \in Nat
  BY <1>1, TrainerAssumption, FS_CardinalityType, FS_Subset
<1>3. 2 * Cardinality(Q) > Cardinality(Worker) /\ 2 * Cardinality(R) > Cardinality(Worker)
  BY DEF Majority
<1>4. Cardinality(Q) + Cardinality(R) > Cardinality(Worker)
  BY <1>2, <1>3
<1>. QED BY <1>1, <1>4, TrainerAssumption, FS_MajoritiesIntersect

\* The first election leaves one leader.
LEMMA FirstElection ==
  ASSUME TypeOK, EraInv, OneEra', NEW w \in Worker, Elect(w)
  PROVE  OneEra /\ SoleLeader' /\ UNCHANGED <<round, model, calls, barriers>>
<1>1. PICK Q \in Majority :
        LET t == Max({term[q] : q \in Q}) + 1 IN
        /\ w \in Q
        /\ term' = [q \in Worker |-> IF q \in Q THEN t ELSE term[q]]
        /\ leads' = [q \in Worker |-> IF q \in Q THEN q = w ELSE leads[q]]
  BY DEF Elect
<1>2. UNCHANGED <<round, model, calls, barriers, replaced>>
  BY DEF Elect
<1>. DEFINE x == Max({term[q] : q \in Q})
<1>3. x \in Nat /\ \A q \in Q : term[q] <= x
  <2>1. {term[q] : q \in Q} \in SUBSET (0..MaxTerm) /\ {term[q] : q \in Q} # {}
    BY <1>1, MajorityType DEF TypeOK
  <2>2. /\ x \in {term[q] : q \in Q}
        /\ \A y \in {term[q] : q \in Q} : y <= x
    BY <2>1, TrainerAssumption, Greatest
  <2>. HIDE DEF x
  <2>. QED BY <2>1, <2>2
<1>4. /\ term' = [q \in Worker |-> IF q \in Q THEN x + 1 ELSE term[q]]
      /\ leads' = [q \in Worker |-> IF q \in Q THEN q = w ELSE leads[q]]
  BY <1>1
<1>. HIDE DEF x
<1>5. Q \subseteq Worker /\ w \in Q /\ \A q \in Worker : term[q] \in Nat
  BY <1>1, MajorityType DEF TypeOK
<1>6. x = 0
  <2>1. term'[w] = x + 1 /\ term'[w] <= 1
    BY <1>4, <1>5 DEF OneEra
  <2>. QED BY <1>3, <2>1
<1>7. \A q \in Q : term[q] = 0
  BY <1>3, <1>5, <1>6
<1>8. OneEra
  <2>1. \A q \in Worker : term[q] <= 1
    BY <1>4, <1>5, <1>7 DEF OneEra
  <2>. QED BY <1>2, <2>1 DEF OneEra
<1>9. SoleLeader
  BY <1>8 DEF EraInv
<1>11. \A v \in Worker : ~leads[v]
  <2>. SUFFICES ASSUME NEW v \in Worker, leads[v] PROVE FALSE
    OBVIOUS
  <2>1. PICK R \in Majority : \A q \in R : term[q] = 1
    BY <1>9 DEF SoleLeader
  <2>2. PICK q \in Q : q \in R
    BY MajoritiesMeet
  <2>. QED BY <1>7, <2>1, <2>2
<1>12. barriers = {}
  BY <1>9, <1>11 DEF SoleLeader, TypeOK, Barrier
<1>13. \A v \in Worker : leads'[v] => v = w
  BY <1>4, <1>11
<1>14. \A q \in Q : term'[q] = 1
  BY <1>4, <1>5, <1>6
<1>15. SoleLeader'
  BY <1>2, <1>5, <1>12, <1>13, <1>14 DEF SoleLeader
<1>. QED BY <1>2, <1>8, <1>15

\* Who hears of the leader joins its term.
LEMMA HearInEra ==
  ASSUME TypeOK, EraInv, OneEra', NEW w \in Worker, NEW l \in Worker, Hear(w, l)
  PROVE  OneEra /\ SoleLeader' /\ UNCHANGED <<round, model, calls, barriers>>
<1>1. /\ leads[l] /\ w # l /\ term[w] <= term[l]
      /\ term' = [term EXCEPT ![w] = term[l]] /\ leads' = [leads EXCEPT ![w] = FALSE]
      /\ UNCHANGED <<round, model, calls, barriers, replaced>>
  BY DEF Hear
<1>2. OneEra
  <2>1. \A v \in Worker : term[v] \in Nat /\ term[v] <= term'[v]
    BY <1>1 DEF TypeOK
  <2>2. \A v \in Worker : term'[v] <= 1 /\ term'[v] \in Nat
    BY <1>1 DEF TypeOK, OneEra
  <2>. QED BY <1>1, <2>1, <2>2 DEF OneEra
<1>3. SoleLeader
  BY <1>2 DEF EraInv
<1>4. term[l] = 1 /\ ~leads[w]
  BY <1>1, <1>3 DEF SoleLeader
<1>5. \A v \in Worker : leads'[v] = leads[v] /\ (term'[v] = IF v = w THEN 1 ELSE term[v])
  BY <1>1, <1>4 DEF TypeOK
<1>6. PICK Q \in Majority : \A q \in Q : term[q] = 1
  BY <1>1, <1>3 DEF SoleLeader
<1>7. \A q \in Q : term'[q] = 1
  BY <1>5, <1>6, MajorityType
<1>8. \A b \in barriers : b.at \in Worker
  BY DEF TypeOK, Barrier
<1>9. SoleLeader'
  BY <1>1, <1>3, <1>5, <1>7, <1>8 DEF SoleLeader
<1>. QED BY <1>1, <1>2, <1>9

\* Who stands, or learns of a term, in the era of the first leader is not that leader.
LEMMA StandInEra ==
  ASSUME TypeOK, EraInv, OneEra', NEW w \in Worker, NEW t \in Nat,
         term[w] < t, term' = [term EXCEPT ![w] = t],
         leads' = [leads EXCEPT ![w] = FALSE], UNCHANGED <<barriers, replaced>>
  PROVE  OneEra /\ SoleLeader'
<1>1. /\ term \in [Worker -> Nat] /\ leads \in [Worker -> BOOLEAN]
      /\ \A b \in barriers : b.at \in Worker
  BY DEF TypeOK, Barrier
<1>2. t = 1 /\ term[w] = 0
  BY <1>1 DEF OneEra
<1>3. OneEra
  BY <1>1, <1>2 DEF OneEra
<1>4. SoleLeader
  BY <1>3 DEF EraInv
<1>5. ~leads[w] /\ \A v \in Worker : leads'[v] = leads[v]
  <2>1. ~leads[w]
    BY <1>2, <1>4 DEF SoleLeader
  <2>2. \A v \in Worker : leads'[v] = IF v = w THEN FALSE ELSE leads[v]
    BY <1>1
  <2>3. leads[w] \in BOOLEAN
    BY <1>1
  <2>. QED BY <2>1, <2>2, <2>3
<1>6. \A v \in Worker : term'[v] = IF v = w THEN 1 ELSE term[v]
  BY <1>1, <1>2
<1>7. \A Q \in Majority : Q \subseteq Worker
  BY MajorityType
<1>8. (\E v \in Worker : leads'[v]) => \E Q \in Majority : \A q \in Q : term'[q] = 1
  BY <1>4, <1>5, <1>6, <1>7 DEF SoleLeader
<1>9. \A v \in Worker : leads'[v] => term'[v] = 1
  BY <1>4, <1>5, <1>6 DEF SoleLeader
<1>. QED BY <1>1, <1>3, <1>4, <1>5, <1>8, <1>9 DEF SoleLeader

\* Nothing changes for rounds when nobody learns of a new outcome.
LEMMA OutcomeFrame ==
  ASSUME OutcomeInv, UNCHANGED barriers,
         \A r \in Nat, m \in Model : Outcome(r, m)' => Outcome(r, m)
  PROVE  OutcomeInv'
  BY DEF OutcomeInv

\* A barrier that takes the place of all others, no round behind, is the outcome of its own.
LEMMA OutcomeReplace ==
  ASSUME TypeOK, OutcomeInv, NEW a \in Barrier, barriers' = {a}, UNCHANGED <<round, model>>,
         calls' \cap Answered \subseteq calls,
         \A r \in Nat, m \in Model : Outcome(r, m) =>
            r <= a.round /\ (r = a.round /\ r > 0 => m = a.model)
  PROVE  OutcomeInv'
<1>1. \A r \in Nat, m \in Model : Outcome(r, m)' => Outcome(r, m) \/ (r = a.round /\ m = a.model)
  BY DEF Outcome
<1>2. a.round \in Nat /\ a.model \in Model
  BY DEF Barrier
<1>3. \A r \in Nat, m \in Model : Outcome(r, m)' =>
         r <= a.round /\ (r = a.round /\ r > 0 => m = a.model)
  BY <1>1, <1>2
<1>4. \A r \in Nat, m, k \in Model : r > 0 /\ Outcome(r, m)' /\ Outcome(r, k)' => m = k
  BY <1>1, <1>3 DEF OutcomeInv
<1>. QED BY <1>3, <1>4 DEF OutcomeInv

\* The barrier that a leader has or creates knows of the latest outcome.
LEMMA BarrierIsLatest ==
  ASSUME TypeOK, CallInv, SoleLeader, OutcomeInv, NEW l \in Worker, leads[l]
  PROVE  /\ \A d \in barriers : d = BarrierOf(l)
         /\ \A r \in Nat, m \in Model : Outcome(r, m) =>
              r <= BarrierOf(l).round /\ (r = BarrierOf(l).round /\ r > 0 => m = BarrierOf(l).model)
<1>1. \A d \in barriers : d.at \in Worker /\ d.at = l /\ d.term = term[l]
  BY DEF SoleLeader, TypeOK, Barrier
<1>2. \A d \in barriers : d = BarrierOf(l)
  BY <1>1, BarrierOfIs DEF CallInv
<1>3. CASE barriers # {}
  <2>1. BarrierOf(l) \in barriers
    BY <1>2, <1>3
  <2>2. /\ BarrierOf(l).round \in Nat /\ BarrierOf(l).model \in Model
        /\ Outcome(BarrierOf(l).round, BarrierOf(l).model)
    BY <2>1 DEF Outcome, TypeOK, Barrier
  <2>. QED BY <1>2, <2>1, <2>2 DEF OutcomeInv
<1>4. CASE barriers = {}
  <2>1. \A r \in Nat, m \in Model : Outcome(r, m) => r = 0
    BY <1>4 DEF OutcomeInv
  <2>2. round[l] \in Nat /\ model[l] \in Model /\ Outcome(round[l], model[l])
    BY DEF TypeOK, Outcome
  <2>3. BarrierOf(l).round = round[l]
    BY <1>4 DEF BarrierOf
  <2>. QED BY <1>2, <2>1, <2>2, <2>3
<1>. QED BY <1>2, <1>3, <1>4

\* A round that closes has an outcome that nobody knew; otherwise the barrier stays.
LEMMA RoundOutcome ==
  ASSUME NEW b \in Barrier,
         \A r \in Nat, m \in Model : Outcome(r, m) =>
            r <= b.round /\ (r = b.round /\ r > 0 => m = b.model),
         NEW a \in {AfterRound(b), [b EXCEPT !.timer = TRUE], [b EXCEPT !.timer = FALSE]}
  PROVE  /\ a.at = b.at /\ a.term = b.term
         /\ \A r \in Nat, m \in Model : Outcome(r, m) =>
              r <= a.round /\ (r = a.round /\ r > 0 => m = a.model)
<1>1. b.round \in Nat
  BY DEF Barrier
<1>2. CASE a = AfterRound(b)
  <2>1. a.at = b.at /\ a.term = b.term /\ a.round = b.round + 1
    BY <1>2 DEF AfterRound, Barrier
  <2>. QED BY <1>1, <2>1
<1>3. CASE a # AfterRound(b)
  <2>1. a.at = b.at /\ a.term = b.term /\ a.round = b.round /\ a.model = b.model
    BY <1>3 DEF Barrier
  <2>. QED BY <2>1
<1>. QED BY <1>2, <1>3

\* A submission.
LEMMA SyncOutcome ==
  ASSUME TypeOK, CallInv, EraInv, OneEra', NEW w \in Worker, NEW l \in Worker, Sync(w, l)
  PROVE  SoleLeader' /\ OutcomeInv'
<1>. DEFINE b == WithGradient(BarrierOf(l), MyGradient(w))
<1>1. PICK alive \in SUBSET Worker :
        /\ barriers' = {c \in barriers : ~(c.at = l /\ c.term = term[l])} \cup {Submitted(b, alive)}
        /\ calls' = calls \cup {[by |-> w, at |-> l, term |-> term[l], event |-> Event(b, Submitted(b, alive))]}
  BY DEF Sync
<1>2. leads[l] /\ UNCHANGED <<term, leads, model, round, replaced>>
  BY DEF Sync, raftVars
<1>3. SoleLeader /\ OutcomeInv
  BY <1>2 DEF EraInv, OneEra
<1>4. /\ BarrierOf(l) \in Barrier /\ BarrierOf(l).at = l /\ BarrierOf(l).term = term[l]
      /\ \A d \in barriers : d = BarrierOf(l)
      /\ \A r \in Nat, m \in Model : Outcome(r, m) =>
           r <= BarrierOf(l).round /\ (r = BarrierOf(l).round /\ r > 0 => m = BarrierOf(l).model)
  BY <1>2, <1>3, BarrierOfType, BarrierOfIs, BarrierIsLatest DEF CallInv
<1>5. MyGradient(w) \in Gradient
  BY DEF MyGradient, Gradient, TypeOK
<1>6. /\ b \in Barrier /\ b.at = l /\ b.term = term[l]
      /\ b.round = BarrierOf(l).round /\ b.model = BarrierOf(l).model
  BY <1>4, <1>5, RoundType DEF WithGradient, Barrier
<1>. DEFINE a == Submitted(b, alive)
<1>. HIDE DEF b
<1>7. a \in Barrier /\ a \in {AfterRound(b), [b EXCEPT !.timer = TRUE], [b EXCEPT !.timer = FALSE]}
  <2>1. a \in Barrier
    BY <1>5, <1>6, RoundType
  <2>. QED BY <2>1 DEF Submitted
<1>. HIDE DEF a
<1>8. /\ a.at = l /\ a.term = term[l]
      /\ \A r \in Nat, m \in Model : Outcome(r, m) =>
           r <= a.round /\ (r = a.round /\ r > 0 => m = a.model)
  BY <1>4, <1>6, <1>7, RoundOutcome
<1>9. barriers' = {a}
  BY <1>1, <1>4 DEF a
<1>10. calls' \cap Answered \subseteq calls
  BY <1>1 DEF Answered
<1>11. OutcomeInv'
  BY <1>2, <1>3, <1>7, <1>8, <1>9, <1>10, OutcomeReplace
<1>12. SoleLeader'
  BY <1>2, <1>3, <1>8, <1>9 DEF SoleLeader
<1>. QED BY <1>11, <1>12

\* A timeout.
LEMMA TimerOutcome ==
  ASSUME TypeOK, CallInv, EraInv, OneEra', NEW b \in barriers, TimerFires(b)
  PROVE  SoleLeader' /\ OutcomeInv'
<1>1. /\ barriers' = (barriers \ {b}) \cup
           {IF b.pending = {} THEN [b EXCEPT !.timer = FALSE] ELSE AfterRound(b)}
      /\ UNCHANGED <<term, leads, model, round, calls, replaced>>
  BY DEF TimerFires, raftVars
<1>2. SoleLeader /\ OutcomeInv
  BY <1>1 DEF EraInv, OneEra
<1>3. b \in Barrier /\ b.at \in Worker /\ leads[b.at] /\ b.term = 1
  BY <1>2 DEF SoleLeader, TypeOK, Barrier
<1>4. /\ \A d \in barriers : d = b
      /\ \A r \in Nat, m \in Model : Outcome(r, m) =>
           r <= b.round /\ (r = b.round /\ r > 0 => m = b.model)
  BY <1>2, <1>3, BarrierIsLatest
<1>5. PICK a \in {AfterRound(b), [b EXCEPT !.timer = TRUE], [b EXCEPT !.timer = FALSE]} :
        barriers' = {a}
  <2>1. barriers \ {b} = {}
    BY <1>4
  <2>2. CASE b.pending = {}
    BY <1>1, <2>1, <2>2
  <2>3. CASE b.pending # {}
    BY <1>1, <2>1, <2>3
  <2>. QED BY <2>2, <2>3
<1>6. a \in Barrier
  <2>1. [b EXCEPT !.timer = FALSE] \in Barrier /\ [b EXCEPT !.timer = TRUE] \in Barrier
    BY <1>3 DEF Barrier
  <2>. QED BY <1>3, <1>5, <2>1, AfterRoundType
<1>7. /\ a.at = b.at /\ a.term = b.term
      /\ \A r \in Nat, m \in Model : Outcome(r, m) =>
           r <= a.round /\ (r = a.round /\ r > 0 => m = a.model)
  BY <1>3, <1>4, <1>5, RoundOutcome
<1>8. OutcomeInv'
  BY <1>1, <1>2, <1>5, <1>6, <1>7, OutcomeReplace
<1>9. SoleLeader'
  BY <1>1, <1>2, <1>3, <1>5, <1>7 DEF SoleLeader
<1>. QED BY <1>8, <1>9

\* Every step keeps it, as long as there is one leader.
LEMMA EraStep == TypeOK /\ CallInv /\ EraInv /\ [Next]_vars => EraInv'
<1>. SUFFICES ASSUME TypeOK, CallInv, EraInv, [Next]_vars, OneEra' PROVE SoleLeader' /\ OutcomeInv'
  BY DEF EraInv
\* What leaves leaders and barriers alone, and makes no outcome up.
<1>1. ASSUME UNCHANGED <<term, leads, barriers, replaced>>,
             \A r \in Nat, m \in Model : Outcome(r, m)' => Outcome(r, m)
      PROVE  SoleLeader' /\ OutcomeInv'
  <2>1. SoleLeader /\ OutcomeInv
    BY <1>1 DEF EraInv, OneEra
  <2>2. SoleLeader'
    BY <1>1, <2>1 DEF SoleLeader
  <2>. QED BY <1>1, <2>1, <2>2, OutcomeFrame
<1>2. ASSUME OneEra, SoleLeader', UNCHANGED <<round, model, calls, barriers>>
      PROVE  SoleLeader' /\ OutcomeInv'
  <2>1. OutcomeInv
    BY <1>2 DEF EraInv
  <2>2. \A r \in Nat, m \in Model : Outcome(r, m)' => Outcome(r, m)
    BY <1>2 DEF Outcome
  <2>. QED BY <1>2, <2>1, <2>2, OutcomeFrame
<1>3. ASSUME NEW w \in Worker, Elect(w) PROVE SoleLeader' /\ OutcomeInv'
  BY <1>2, <1>3, FirstElection
<1>4. ASSUME NEW w \in Worker, NEW l \in Worker, Hear(w, l) PROVE SoleLeader' /\ OutcomeInv'
  BY <1>2, <1>4, HearInEra
<1>4a. ASSUME NEW w \in Worker, Stand(w) PROVE SoleLeader' /\ OutcomeInv'
  <2>1. /\ term[w] \in Nat /\ leads \in [Worker -> BOOLEAN]
    BY DEF TypeOK
  <2>2. /\ ~leads[w] /\ leads' = leads /\ term' = [term EXCEPT ![w] = term[w] + 1]
        /\ UNCHANGED <<round, model, calls, barriers, replaced>>
    BY <1>4a DEF Stand
  <2>3. leads' = [leads EXCEPT ![w] = FALSE] /\ term[w] + 1 \in Nat /\ term[w] < term[w] + 1
    BY <2>1, <2>2
  <2>4. OneEra /\ SoleLeader'
    BY <2>2, <2>3, StandInEra
  <2>. QED BY <1>2, <2>2, <2>4
<1>4b. ASSUME NEW w \in Worker, NEW v \in Worker, LearnTerm(w, v) PROVE SoleLeader' /\ OutcomeInv'
  <2>1. /\ term[v] \in Nat /\ term[w] < term[v]
        /\ term' = [term EXCEPT ![w] = term[v]] /\ leads' = [leads EXCEPT ![w] = FALSE]
        /\ UNCHANGED <<round, model, calls, barriers, replaced>>
    BY <1>4b DEF LearnTerm, TypeOK
  <2>2. OneEra /\ SoleLeader'
    BY <2>1, StandInEra
  <2>. QED BY <1>2, <2>1, <2>2
<1>5. ASSUME NEW w \in Worker, NEW l \in Worker, Sync(w, l) PROVE SoleLeader' /\ OutcomeInv'
  BY <1>5, SyncOutcome
<1>6. ASSUME NEW b \in barriers, TimerFires(b) PROVE SoleLeader' /\ OutcomeInv'
  BY <1>6, TimerOutcome
<1>7. ASSUME NEW w \in Worker, InnerTrain(w) \/ SyncFails(w) PROVE SoleLeader' /\ OutcomeInv'
  <2>1. /\ UNCHANGED <<term, leads, model, round, barriers, replaced>> /\ calls' \subseteq calls
    BY <1>7 DEF InnerTrain, SyncFails, raftVars
  <2>2. \A r \in Nat, m \in Model : Outcome(r, m)' => Outcome(r, m)
    BY <2>1 DEF Outcome
  <2>. QED BY <1>1, <2>1, <2>2
<1>8. ASSUME NEW w \in Worker, ReplacePod(w) PROVE FALSE
  <2>1. replaced' = replaced + 1 /\ replaced \in Nat /\ replaced' = 0
    BY <1>8, TrainerAssumption DEF ReplacePod, TypeOK, OneEra
  <2>. QED BY <2>1
<1>9. ASSUME NEW c \in calls, SyncReturns(c) PROVE SoleLeader' /\ OutcomeInv'
  <2>1. PICK b \in barriers :
          calls' = (calls \ {c}) \cup
            {[by |-> c.by, at |-> c.at, term |-> c.term, round |-> b.round, model |-> b.model]}
    BY <1>9 DEF SyncReturns, RoundReached
  <2>2. UNCHANGED <<term, leads, model, round, barriers, replaced>>
    BY <1>9 DEF SyncReturns, raftVars
  <2>3. \A d \in calls' : d \in calls \/ (d.round = b.round /\ d.model = b.model)
    BY <2>1
  <2>4. \A r \in Nat, m \in Model : Outcome(r, m)' => Outcome(r, m)
    BY <2>2, <2>3 DEF Outcome
  <2>. QED BY <1>1, <2>2, <2>4
<1>10. ASSUME NEW c \in calls, Adopt(c) PROVE SoleLeader' /\ OutcomeInv'
  <2>1. /\ c \in Answered /\ c.by \in Worker /\ calls' = calls \ {c}
        /\ model' = [model EXCEPT ![c.by] = c.model] /\ round' = [round EXCEPT ![c.by] = c.round]
        /\ UNCHANGED <<term, leads, barriers, replaced>>
    BY <1>10 DEF Adopt, Answered, raftVars
  <2>2. \A v \in Worker : \/ round'[v] = round[v] /\ model'[v] = model[v]
                          \/ round'[v] = c.round /\ model'[v] = c.model
    BY <2>1 DEF TypeOK
  <2>3. \A r \in Nat, m \in Model : Outcome(r, m)' => Outcome(r, m)
    BY <2>1, <2>2 DEF Outcome
  <2>. QED BY <1>1, <2>1, <2>3
<1>11. CASE UNCHANGED vars
  <2>1. UNCHANGED <<term, leads, model, round, calls, barriers, replaced>>
    BY <1>11 DEF vars, raftVars
  <2>2. \A r \in Nat, m \in Model : Outcome(r, m)' => Outcome(r, m)
    BY <2>1 DEF Outcome
  <2>. QED BY <1>1, <2>1, <2>2
<1>. QED BY <1>3, <1>4, <1>4a, <1>4b, <1>5, <1>6, <1>7, <1>8, <1>9, <1>10, <1>11 DEF Next

\* While there has been one leader, a round is a model, whatever calls are given up
\* and however late each worker reads the outcome.
THEOREM RoundsAreModels == Spec => []OneModelPerRound
<1>1. TypeOK /\ EraInv => OneModelPerRound
  <2>. SUFFICES ASSUME TypeOK, EraInv, OneEra, NEW v \in Worker, NEW w \in Worker,
                       round[v] = round[w], round[v] > 0
                PROVE  model[v] = model[w]
    BY DEF OneModelPerRound, OneEra
  <2>1. round[v] \in Nat /\ model[v] \in Model /\ model[w] \in Model
    BY DEF TypeOK
  <2>2. Outcome(round[v], model[v]) /\ Outcome(round[v], model[w])
    BY DEF Outcome
  <2>. QED BY <2>1, <2>2 DEF EraInv, OutcomeInv
<1>. QED BY <1>1, TypeInit, TypeStep, CallInit, CallStep, EraInit, EraStep, PTL DEF Spec
=============================================================================
