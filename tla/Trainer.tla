------------------------------ MODULE Trainer ------------------------------
(***************************************************************************)
(* DiLoCo training (src/dssd/diloco/worker.py, barrier.py).  Every worker  *)
(* trains on its own and then syncs with whoever leads its Raft group: the *)
(* leader's barrier collects pseudo-gradients, and a round closes when     *)
(* every member it believes alive has submitted, or on a timeout.          *)
(*                                                                         *)
(* A model is where its weights come from: the initial weights of some     *)
(* process and the gradients applied since.  A gradient is known by who    *)
(* computed it and in which of its trainings.  SWIM's opinion of who is    *)
(* alive is any set of workers that has the leader in it.  Of Raft there   *)
(* is who leads in which term; its log holds one empty entry per term, so  *)
(* the term of the last entry says all about it.                           *)
(***************************************************************************)
EXTENDS Integers, FiniteSets, FiniteSetsExt

CONSTANTS
    Worker,
    MaxTerm,           \* bound: terms
    MaxTrainings,      \* bound: trainings of one worker
    MaxRetries,        \* bound: Sync calls given up, of all workers
    MaxReplaced        \* bound: pods replaced

ASSUME TrainerAssumption ==
    /\ IsFiniteSet(Worker)
    /\ MaxTerm \in Nat /\ MaxTrainings \in Nat /\ MaxRetries \in Nat /\ MaxReplaced \in Nat

VARIABLES
    term, leads, lastTerm,   \* Raft's state, at each worker
    model, round,            \* the worker's global_state and round
    trainings,               \* how often it has trained
    client,                  \* its run loop: training, or syncing what it learnt
    barriers,                \* the RoundBarriers of all leaders, those of old terms too
    calls,                   \* Sync calls that wait in a barrier or are answered
    retries, replaced

raftVars == <<term, leads, lastTerm>>
vars == <<raftVars, model, round, trainings, client, barriers, calls, retries, replaced>>

Gradient == [by : Worker, training : Nat]
Model == [from : Worker, life : Nat, grads : SUBSET Gradient]
Barrier == [at : Worker, term : Nat, round : Nat, model : Model, pending : SUBSET Gradient, timer : BOOLEAN]
Waiting == [by : Worker, at : Worker, term : Nat, event : Nat]
Answered == [by : Worker, at : Worker, term : Nat, round : Nat, model : Model]

TypeOK ==
    /\ term \in [Worker -> 0..MaxTerm] /\ lastTerm \in [Worker -> 0..MaxTerm]
    /\ leads \in [Worker -> BOOLEAN]
    /\ model \in [Worker -> Model] /\ round \in [Worker -> Nat]
    /\ trainings \in [Worker -> 0..MaxTrainings]
    /\ client \in [Worker -> {"training", "syncing", "calling"}]
    /\ barriers \subseteq Barrier
    /\ calls \subseteq Waiting \cup Answered
    /\ retries \in 0..MaxRetries /\ replaced \in 0..MaxReplaced

\* The weights of a new process are random: nobody else has them.
Untrained(w, life) == [from |-> w, life |-> life, grads |-> {}]

Init ==
    /\ term = [w \in Worker |-> 0]
    /\ leads = [w \in Worker |-> FALSE]
    /\ lastTerm = [w \in Worker |-> 0]
    /\ model = [w \in Worker |-> Untrained(w, 0)]
    /\ round = [w \in Worker |-> 0]
    /\ trainings = [w \in Worker |-> 0]
    /\ client = [w \in Worker |-> "training"]
    /\ barriers = {}
    /\ calls = {}
    /\ retries = 0
    /\ replaced = 0

-----------------------------------------------------------------------------
(* Who leads. *)

Majority == {Q \in SUBSET Worker : 2 * Cardinality(Q) > Cardinality(Worker)}

\* w stands for election and is not elected, or not yet: its term is all that changes.
Stand(w) ==
    /\ ~leads[w] /\ term[w] < MaxTerm
    /\ term' = [term EXCEPT ![w] = @ + 1]
    /\ UNCHANGED <<leads, lastTerm, model, round, trainings, client, barriers, calls, retries, replaced>>

\* w learns of v's term from a call or an answer, and leads no longer.
LearnTerm(w, v) ==
    /\ term[w] < term[v]
    /\ term' = [term EXCEPT ![w] = term[v]]
    /\ leads' = [leads EXCEPT ![w] = FALSE]
    /\ UNCHANGED <<lastTerm, model, round, trainings, client, barriers, calls, retries, replaced>>

\* w is elected by the workers in Q, in a term that is new to them.
Elect(w) ==
    /\ ~leads[w]
    /\ \E Q \in Majority :
         LET t == Max({term[q] : q \in Q}) + 1 IN
         /\ w \in Q /\ t <= MaxTerm
         /\ \A q \in Q : lastTerm[q] <= lastTerm[w]
         /\ term' = [q \in Worker |-> IF q \in Q THEN t ELSE term[q]]
         /\ leads' = [q \in Worker |-> IF q \in Q THEN q = w ELSE leads[q]]
         /\ lastTerm' = [lastTerm EXCEPT ![w] = t]
    /\ UNCHANGED <<model, round, trainings, client, barriers, calls, retries, replaced>>

\* w hears from a leader.
Hear(w, l) ==
    /\ leads[l] /\ w # l /\ term[w] <= term[l] /\ lastTerm[w] # lastTerm[l]
    /\ term' = [term EXCEPT ![w] = term[l]]
    /\ leads' = [leads EXCEPT ![w] = FALSE]
    /\ lastTerm' = [lastTerm EXCEPT ![w] = lastTerm[l]]
    /\ UNCHANGED <<model, round, trainings, client, barriers, calls, retries, replaced>>

-----------------------------------------------------------------------------
(* RoundBarrier. *)

\* The outer step: the average of the gradients is applied to the model.
OuterStep(m, gradients) == [m EXCEPT !.grads = @ \cup gradients]

\* mutant of AfterRound: what was pending is left for the next round
KeepPending(b) ==
    [b EXCEPT !.model = OuterStep(@, b.pending), !.round = @ + 1, !.timer = FALSE]

\* _finish_round
AfterRound(b) ==
    [b EXCEPT !.model = OuterStep(@, b.pending),
              !.round = @ + 1, !.pending = {}, !.timer = FALSE]

\* submit by a worker, up to the wait: the worker's gradient takes the place of
\* an earlier one, and if everybody believed alive has submitted the round closes.
WithGradient(b, grad) ==
    [b EXCEPT !.pending = {g \in @ : g.by # grad.by} \cup {grad}]

Submitted(b, alive) ==
    IF alive \subseteq {g.by : g \in b.pending} THEN AfterRound(b)
    ELSE [b EXCEPT !.timer = TRUE]

\* The event of a round, whose submitters wait for it, is known by the round.
\* mutants of Event: grabbed after the round closed, and not renewed when it did
NextEvent(b, after) == after.round
OldEvent(b, after) == b.round - 1
Event(b, after) == b.round

TimerFires(b) ==
    /\ b \in barriers /\ b.timer
    /\ barriers' = (barriers \ {b}) \cup {IF b.pending = {} THEN [b EXCEPT !.timer = FALSE] ELSE AfterRound(b)}
    /\ UNCHANGED <<raftVars, model, round, trainings, client, calls, retries, replaced>>

\* The barrier of the leader l for its term: the one it has, or a new one.
BarrierOf(l) ==
    IF \E b \in barriers : b.at = l /\ b.term = term[l]
    THEN CHOOSE b \in barriers : b.at = l /\ b.term = term[l]
    ELSE [at |-> l, term |-> term[l], round |-> round[l], model |-> model[l], pending |-> {}, timer |-> FALSE]

-----------------------------------------------------------------------------
(* Worker. *)

InnerTrain(w) ==
    /\ client[w] = "training" /\ trainings[w] < MaxTrainings
    /\ trainings' = [trainings EXCEPT ![w] = @ + 1]
    /\ client' = [client EXCEPT ![w] = "syncing"]
    /\ UNCHANGED <<raftVars, model, round, barriers, calls, retries, replaced>>

MyGradient(w) == [by |-> w, training |-> trainings[w]]

\* w calls the leader l it heard of, for the term of l: for another term, or when
\* l leads no longer, the call is refused and nothing changes.
Sync(w, l) ==
    /\ client[w] = "syncing" /\ leads[l]
    /\ client' = [client EXCEPT ![w] = "calling"]
    /\ \E alive \in SUBSET Worker :
         LET b == WithGradient(BarrierOf(l), MyGradient(w))
             after == Submitted(b, alive)
         IN  /\ l \in alive
             /\ barriers' = {c \in barriers : ~(c.at = l /\ c.term = term[l])} \cup {after}
             /\ calls' = calls \cup {[by |-> w, at |-> l, term |-> term[l], event |-> Event(b, after)]}
    /\ UNCHANGED <<raftVars, model, round, trainings, retries, replaced>>

RoundWaitedFor(c, b) == c.event + 1                              \* mutant of RoundReached
RoundReached(c, b) == b.round

\* A waiter goes on once its round is over, and answers with what the barrier has by then.
SyncReturns(c) ==
    /\ c \in calls \cap Waiting
    /\ \E b \in barriers :
         /\ b.at = c.at /\ b.term = c.term /\ b.round > c.event
         /\ calls' = (calls \ {c}) \cup
              {[by |-> c.by, at |-> c.at, term |-> c.term, round |-> RoundReached(c, b), model |-> b.model]}
    /\ UNCHANGED <<raftVars, model, round, trainings, client, barriers, retries, replaced>>

\* The worker takes over the answer, and trains again.
Adopt(c) ==
    /\ c \in calls \cap Answered
    /\ model' = [model EXCEPT ![c.by] = c.model]
    /\ round' = [round EXCEPT ![c.by] = c.round]
    /\ client' = [client EXCEPT ![c.by] = "training"]
    /\ calls' = calls \ {c}
    /\ UNCHANGED <<raftVars, trainings, barriers, retries, replaced>>

\* The deadline passes or the connection breaks: the worker tries again with the
\* same gradient.  What it submitted stays where it is.
SyncFails(w) ==
    /\ client[w] = "calling" /\ retries < MaxRetries
    /\ client' = [client EXCEPT ![w] = "syncing"]
    /\ calls' = {c \in calls : c.by # w}
    /\ retries' = retries + 1
    /\ UNCHANGED <<raftVars, model, round, trainings, barriers, replaced>>

\* The pod of w is replaced: a new process with nothing but the name.
ReplacePod(w) ==
    /\ replaced < MaxReplaced
    /\ replaced' = replaced + 1
    /\ term' = [term EXCEPT ![w] = 0]
    /\ leads' = [leads EXCEPT ![w] = FALSE]
    /\ lastTerm' = [lastTerm EXCEPT ![w] = 0]
    /\ model' = [model EXCEPT ![w] = Untrained(w, replaced + 1)]
    /\ round' = [round EXCEPT ![w] = 0]
    /\ client' = [v \in Worker |->
         IF v = w THEN "training"
         ELSE IF \E c \in calls : c.by = v /\ c.at = w THEN "syncing" ELSE client[v]]
    /\ barriers' = {b \in barriers : b.at # w}
    /\ calls' = {c \in calls : c.by # w /\ c.at # w}
    /\ UNCHANGED <<trainings, retries>>

-----------------------------------------------------------------------------
Next ==
    \/ \E w, l \in Worker : Hear(w, l) \/ LearnTerm(w, l) \/ Sync(w, l)
    \/ \E w \in Worker : Stand(w) \/ Elect(w) \/ InnerTrain(w) \/ SyncFails(w) \/ ReplacePod(w)
    \/ \E b \in barriers : TimerFires(b)
    \/ \E c \in calls : SyncReturns(c) \/ Adopt(c)

Spec == Init /\ [][Next]_vars

\* Timers fire, and answered workers go on.
Fairness ==
    /\ WF_vars(\E b \in barriers : TimerFires(b))
    /\ \A w \in Worker : WF_vars(\E c \in calls : c.by = w /\ (SyncReturns(c) \/ Adopt(c)))

FairSpec == Spec /\ Fairness

-----------------------------------------------------------------------------
\* A worker goes on with a model that its own last training is part of, whichever
\* barrier, round, retry or timeout its call ended in (submit, _outer_sync).
Contributes ==
    [][\A w \in Worker : client[w] = "calling" /\ client'[w] = "training" /\ replaced' = replaced
          => MyGradient(w) \in model'[w].grads]_vars

\* Nobody hangs in a barrier: not the one whose submission closes the round, not
\* the one that is alone in the next, not those in the barrier of a leader that
\* was deposed (submit, _finish_after_timeout).
NobodyHangs == \A w \in Worker : client[w] = "calling" ~> client[w] # "calling"

\* A submission is averaged once: no barrier holds on to one that is already part of
\* its own or another barrier's model, whoever leads in between, unless the worker
\* sent it again because a call was given up or a leader's pod replaced (submit, Sync).
AveragedOnce ==
    retries = 0 /\ replaced = 0 =>
      \A b, c \in barriers : b.pending \cap c.model.grads = {}

\* A round is a model: as long as there has been one leader, workers that are in the
\* same round go on from the same weights, however late each reads the outcome of
\* the round it waited for (submit).
OneModelPerRound ==
    replaced = 0 /\ (\A w \in Worker : term[w] <= 1) =>
      \A v, w \in Worker : round[v] = round[w] /\ round[v] > 0 => model[v] = model[w]
=============================================================================
