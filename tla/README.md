# Verification of DSSD

TLA+ models of the program in this repository, TLC runs that check them on small
instances, and TLAPS proofs about them for instances of every size. Source paths
are relative to the repository; line numbers are those of the modelled commit.

## 1. The system

DSSD runs two demonstrations on one "spine": SWIM for membership and Raft for
consensus. One demonstration is a sharded world whose agents wander between
shards, the other is DiLoCo training of a small model. Everything is asyncio
Python. A process runs on one event loop, so a stretch of code between two
`await`s is atomic, and everything else interleaves: the loops of one process with
each other and with the handlers of incoming calls, and processes through calls and
datagrams. Nothing is written to disk.

### Components

| component | source (`src/dssd/`) | state | operations | talks to |
|---|---|---|---|---|
| Raft | `raft.py` | term, vote, role, leader id, log, commit and applied index, next and match index | election timer, heartbeats, `handle_request_vote`, `handle_append_entries`, `propose`, applier, `start`, `stop` | its peers by calls; the code above by the `apply` callback |
| SWIM | `swim.py` | what it knows of each member, own incarnation, updates to gossip with counts, pending acks, suspicion timers | probe, ping-req, re-ping of the dead, suspicion timeout, a datagram received, `join`, `start`, `stop` | its peers by datagrams |
| shard | `sharding/shard_state.py` | registry of agents, lock | `_apply`, `add_agent`, `propose_tick`, `wait_caught_up` | its own Raft group |
| region server | `sharding/region_server.py`, `handoff.py` | departures of a tick | `tick` (move, hand off, remove), `spawn_agent`, `HandOff` | its shards; other region servers by calls |
| world | `sharding/world.py` | position and velocity of an agent | `step`, `shard_id` | |
| barrier | `diloco/barrier.py` | round, global model, pending gradients, timer, event | `submit`, its timeout, `_finish_round` | SWIM, for who is alive |
| trainer | `diloco/worker.py`, `outer.py` | round, global model, barrier and the barrier's term | `Sync`, `_outer_sync`, the training loop | the leader's `Sync`; Raft for who leads |
| glue | `membership.py`, `addr.py`, `shutdown.py` | channels | forwards calls | Raft, SWIM |
| playground | `playground.py` | links, sides, servers that are down, tasks, agents that count | boot, reset, shutdown, kill, revive, spawning, partition, loss, reports | all of the above, over memory |

### What is hard, and what makes each part correct

**Raft.** Calls are awaited, and the caller's term, role and log may be others when
the answer comes; two heartbeats to one peer may overlap, and their requests and
their answers overtake each other; calls are lost or given up; members stop and
start. Correct means: one leader per term; votes stand; logs match; nothing that is
committed is lost or changed; what a leader counts as replicated is; members are
handed the same entries in the same order; a leader that stays gets its log applied.

**SWIM.** A probe, a re-ping, relays for others, timers and gossip of one member
interleave; answers are late; gossip has a budget and so may die out. Correct means:
a member gossips what it believes; nobody counts as dead whom no timer pronounced
dead; only the living answer; false verdicts do not last.

**Shards and region servers.** The registry of a leader is changed before it is
replicated, two coroutines change it, one waits in a lock, and the leadership may go
at every wait; a hand-off is two commits in two groups with a call between that can
fail on either side. Correct means: an agent that was placed durably is never lost.

**Trainer.** The barrier is a moving target: waiters of one round wake in a later
one, a timer races the last submission, the leader changes and old barriers keep
their waiters, workers retry with what they sent already. Correct means: nobody
hangs, a worker's own training is in what it goes on with, none counts twice, and a
round means the same model to everybody.

**Playground.** Controls are coroutines of their own that wait between the parts
they stop, so a kill, a revival and a reset overlap each other and the spawning of
agents, which goes on through all of them. Correct means: what is down or past stays
silent, what counts was durably added, and the spawning comes to its end.

## 2. Modules

```
Raft ── MCRaft ─┬─ RaftDeploy            (pods that are replaced)
  │             └─ RaftDivided ── RaftLiveness
  ├─ RaftImplementsLog ── INSTANCE ReplicatedLog    (used by RaftDivided and below)
  └─ RaftProofs ── RaftCommitProofs     (TLAPS)

Swim ─┬─ MCSwim ─┬─ SwimHistory          (history variables)
      │          ├─ SwimLiveness         (a network that calms down)
      │          └─ SwimSuspicion        (what ends a suspicion)
      └─ SwimProofs ── SwimHistoryProofs (TLAPS; the latter extends SwimHistory, too)

Regions ── MCRegions ── RegionHistory ─┬─ RegionWorlds     (above an abstract Raft group
                                       ├─ RegionsProofs     per shard; TLAPS)
                                       └─ RegionWorldsProofs (TLAPS; extends those two)

Trainer ── TrainerProofs                 (above who leads in which term; TLAPS)

World ── Playground ─┬─ MCPlayground     (the sharded world in one process)
                     └─ PlaygroundProofs (TLAPS)
```

### Raft

One action per handler or timer. A variable of a member is a function of `Node`:
`currentTerm`, `votedFor`, `log`, `role`, `leaderId`, `commitIndex`, `nextIndex`
and `matchIndex` are the code's fields of those names, `applied` is what the apply
callback was handed (its length is `_last_applied`), `votes` is the local variable
of the election a candidate runs. `rpcs` is every call that is awaited, first as a
request and then as a reply that carries what the suspended coroutine remembers;
this is where a late answer meets a member that has moved on.

| action | code |
|---|---|
| `StartElection` | `_start_election` up to the calls |
| `HandleRequestVote`, `ReceiveVoteReply` | `handle_request_vote`; the rest of `ask()` with `_become_leader` |
| `ReplicateTo` | a heartbeat to one peer, up to the call |
| `HandleAppendEntries`, `ReceiveAppendReply` | `handle_append_entries`; the rest of `_replicate_to` with `_advance_commit_index` |
| `Propose`, `Applier` | `propose`, which asks for the role only and so is open to a leader that was stopped; one round of `_applier` |
| `Lose` | a request or reply is lost, or the caller times out |
| `Crash`, `Restart` | `stop`, and `start` on the same object, as the playground does |

The code's sentinel `log[0]` is left out, so an entry's index is its position. An
empty append is sent like any other. A heartbeat round is one `ReplicateTo` per
peer in any order, since the calls are started one after the other but answered
independently. `RaftDeploy` replaces `Restart` by `Replace`: a new process with the
old name and an empty object, which is what a replaced pod is (`worker.py`,
`deploy/worker.yaml`).

`ReplicatedLog` is the promise to the code above: one growing log, and everyone is
handed prefixes of it. `RaftImplementsLog` maps `chosen` to what the member with
the greatest commit index has committed and `delivered` to `applied`.

`RaftDivided` is a reachable state (its comment tells how it comes about) from
which the interesting part of replication starts: two leaders of different terms,
diverging logs, a third member that has nothing.

### Swim

`members`, `incarnation`, `broadcasts` and `timers` are the code's. `probe`,
`revival` and `relays` say what the coroutines of a member wait for. A sequence
number names the waiter of an ack; the model names it directly (`why`, `for`), and
when a waiter gives up, the datagrams of its wait become `"late"`, as the code then
no longer knows their number. A received datagram is one action: sender and
updates are merged (`Learn`), then the type's own part. `Due` is
`_take_broadcasts`: any choice among equally gossiped updates. `ProbeMember`
chooses any candidate, which covers the code's shuffled round.

`SwimHistory` adds what the properties have to remember (it constrains nothing), and
a choice at the start between behaviours with gossip and `Quiet` ones without it.
The quiet ones are an `INSTANCE` of `Swim` with `MaxUpdates` 0 and other bounds:
gossip has no part in matching answers with requests, and without it there is room
for members that stop and for more datagrams in flight.
`SwimLiveness` adds a flag `calm`: from some moment on nothing is lost and no wait
is given up while its answer is in flight. `SwimSuspicion` states what may end a
suspicion.

### Regions

Registries map an agent to the shard its position falls in, or to `Nowhere`. `adds`
holds the running `add_agent` calls with what each waits for; `tick` is the state
of a server's tick loop: `moving` (phase 1), `sending` (phase 2, the hand-offs) and
`removing`. The lock of a shard is held by who is in its critical section
(`Locked`). Moving lets every agent of the registry go anywhere (`Moved`), at most
`MaxMoves` crossings in all; what `world.py` computes is one of the outcomes.

Each shard's Raft group is abstracted to what the code above can tell: `Elect` and
`Replicate` are a whole round of calls, and a server applies what it learns to be
committed in the same step, because `shard_state.py` reads `last_applied` and never
the commit index. Kept are the term and the log of every server, what a leader knows
its followers to hold (`matchIndex`: it commits by that, as `_advance_commit_index`
does, and not by what they hold), leaders that do not know they are deposed,
uncommitted suffixes that are overwritten, and leaders that have not applied all
their log. A crash is a server that takes no more steps.
`Elect` waits until nobody waits in the lock of the server: a waiter polls every
10 ms and leaves when the leadership is gone, and a server needs an election
timeout to win again. Deadlines of waits and of calls may pass at any moment
(`AddFails`, `HandOffGivenUp`), and `add_agent` goes on without its caller.

`MCRegions` adds a start at which every shard has a leader and every agent a place.
`RegionHistory` tells whether one of the two mistakes was made that cost an agent its
only place (section 5): `TakesBackNews` is the failing `add_agent` that restores the
registry although its entry, or the one that took its place, was applied meanwhile,
`DropsReturned` the phase 2 that removes an agent that its shard took in again.
`back` remembers who returned while the tick that moved it out goes on. Its behaviours
are those of `Regions`, up to a mistake. `RegionWorlds` puts two instances of
different sizes side by side: a behaviour is of one or of the other.

### Trainer

A model is where its weights come from: which process drew them and which
gradients were applied. A gradient is known by its worker and training. `barriers`
are the barriers of all leaders and terms, `calls` the `Sync` calls that wait in
them or are answered; the event of a round is known by the round's number, and a
waiter goes on once that is over and answers with what the barrier has by then. Who
SWIM believes alive is any set with the leader in it. Of Raft there is who leads in
which term and the term of the last entry; the log of a trainer's group holds only
leaders' no-ops. `Elect` is an election that is won; `Stand` is one that is lost, or not won
yet, which changes a term and nothing else, and by `LearnTerm` a worker takes over a newer
term and leads no longer, without hearing of a leader. `ReplacePod` is the deletion of a pod, which `experiment.py` does.

### World and Playground

`World` is `world.py` in whole numbers: `Step` moves an agent and bounces it off the
edges, `Home` is the shard of its position.

`Playground` is the class of that name's cluster `World` (`playground.py:353-461`):
what it keeps, and the coroutines that its controls start.

| action | code |
|---|---|
| `Boot` | `_boot` to its end: no part of it waits for another task |
| `Reset`, `ShutdownStop`, `Reinit` | `reset`: `_shutdown` up to its first wait, one stopped part after the other, `__init__` and `start` on the same object |
| `Kill`, `KillStop`, `Revive` | `_kill` up to its first wait and the rest of it; `_revive`, which does not wait |
| `Ask`, `Added`, `Refused`, `Count`, `Fall` | `_spawn_agents`: a server is asked, its `add_agent` commits, the answer is no or late, the answer is yes; it fails between two lives |
| `Move` | phase 1 of `RegionServer.tick`: a leader that holds a copy of an agent moves it one step, durably |

`running` says which Raft members' loops run, `ticking` which tick loops; `kills` and
`halting` what the coroutines under way have still to stop. Spawners are records
that outlive a reset, as the coroutine does.

Which registry holds an agent, how it is handed over and how it may be lost is what
`Regions` is about, and no part of this module: here `agents` is the state of an agent in
any one of its copies, or `Absent` as long as the agent was not durably added in this
life. A copy may lag in a registry of a shard it has left, so any shard's leader may move
it; an agent that is lost moves no more. Nothing here says that an agent that was added
stays: by section 5 it need not. A move or an addition becomes durable if some server that
is up may lead the shard and a majority is up (`MayCommit`), and never has to.

## 3. Runs

Twelve runs. "Bound" says what it takes for the interesting case to happen and that
the bound allows it.

| run | shows | bound |
|---|---|---|
| `raft_elections` | `ElectionSafety`, `FreshTerm`, `VotesStand`, `LogMatching`, `LeaderCompleteness`, `CommittedOnMajority` hold | 3 members, 3 terms: the third leader is needed for an entry of the first to be lost to the second and offered again; one crash lets a voter forget; two calls in flight are those of one election, so a vote that comes late for a later election is left to the theorems on `ElectionSafety` and `FreshTerm` |
| `raft_overlap` | `TypeOK`, `MatchSound`, `CommittedStays` hold, and the group implements `ReplicatedLog` | from `RaftDivided`, two calls from one member to another at once, one further command so that logs grow while a call is under way |
| `raft_liveness` | `StableLeaderDelivers` | from `RaftDivided`, one crash and restart, all calls may be lost as long as not all of them are |
| `raft_replaced_pod` | violation of `OneLeaderPerTerm` | one replaced pod |
| `region_worlds` | `WellTyped`, `NobodyIsLost` hold: in either of two worlds `TypeOK`, and `NeverLost` as long as no mistake is made | leaders change: 3 servers, so that a majority can lack what one server holds; one shard, one agent, two terms; 4 entries: a no-op, a spawn, the next no-op, a tick. A border: 2 servers that may lead either of 2 shards, two terms each, two agents, so that one's snapshot can overwrite the other, one crossing |
| `region_rollback` | violation of `NeverLost` | three servers, one shard, a third term, two agents |
| `region_returned` | violation of `NeverLost` | the border without elections, one agent, two crossings |
| `swim_rumours` | `TypeOK`, `GossipIsBelief`, `DeathsAreTimedOut`, `DeathsStand`, `OnlyDeathsAreUndone`, `AnsweredByLiving` hold | 3 members, one probes and may be wrong about both others, updates are gossiped once, two fit a datagram; in the quiet behaviours one of the others may stop and the other helps, and two datagrams may be under way when a probe starts, so that one of them can be late |
| `swim_recovers` | `Recovers` | 2 members that both probe, from knowing nobody |
| `swim_renewed` | violation of `SuspicionsEnd` | 3 members, two probe, none stops; updates are gossiped once, so that one lost datagram stands for the loss of all that carry one |
| `trainer_rounds` | `TypeOK`, `AveragedOnce`, `OneModelPerRound`, `Contributes`, `NobodyHangs` hold | 2 workers, 2 trainings each, 2 terms, one retry, one replaced pod |
| `playground` | `TypeOK`, `DeadIsQuiet`, `SpawnedInOrder`, `Populated` hold | 3 servers, so that one may be down and the others lead; 2 shards and 2 agents that cross between them; one reset, so that a spawner outlives it; 2 kills, so that a server is killed again while its first kill waits; two moves in each life, so that an agent crosses the border |

Members are symmetric where a run treats them alike and no liveness property is
checked. The views of `MCRaft` leave out what no later step reads.

The bounds are guards in the actions and are named there: `MaxTerm`, `MaxLog`,
`MaxCalls`, `MaxInFlight`, `MaxCrashes` (Raft); `Prober`, `Fragile`,
`MaxIncarnation`, `MaxMessages`, `MaxCrashes` (Swim); `MaxTerm`, `MaxLog`,
`MaxMoves` (Regions); `MaxTerm`, `MaxTrainings`, `MaxRetries`, `MaxReplaced`
(Trainer); `MaxResets`, `MaxKills`, `MaxTicks` (Playground); `QuietMessages`,
`QuietCrashes` stand for `MaxMessages`, `MaxCrashes` in quiet behaviours, and
`BorderTerm`, `BorderLog`, `BorderMoves` for those of `Regions` in the second world. Two of them
deserve a word. `MaxIncarnation` stops a prober whose probe
fails for a member at that incarnation, so a member can be wrongly suspected once
per incarnation below it. A helper relays for one asker at a time.
Runs turn off the deadlock check only where a bound or a lost call leaves nothing
to do; the configurations say which.

### The properties

- `ElectionSafety`, `FreshTerm`: no two leaders in a term, at a time or one after
  the other. `FreshTerm` needs no history: a leader leaves its no-op behind.
- `LogMatching`, `LeaderCompleteness`, `CommittedOnMajority`, `CommittedStays`,
  `MatchSound`: what `handle_append_entries`, `_replicate_to` and
  `_advance_commit_index` must keep together when calls overtake each other.
- `ImplementsLog`: what an apply callback relies on, and nothing about how.
- `NeverLost` says "durable" as `add_agent` does: the spawn that returned True. It
  is looked up in the committed registry, so a copy that only some server has in
  memory does not count. `NobodyIsLost` says who is to blame: up to the first of the
  two mistakes nobody is lost. In its run the first mistake does happen; an agent that
  comes back takes a second crossing, for which see `region_returned` and the theorem.
- `AnsweredByLiving`: a member that is down from the start to the end of a probe or
  a re-ping is not taken for alive by it, whichever old acks and relayed acks come
  in. `DeathsAreTimedOut` ties every belief in a death, however it was learnt, to a
  timer that pronounced it at that incarnation. `DeathsStand` is the other direction: a
  probe that started before the verdict and fails after it must not turn the death into
  a suspicion. `OnlyDeathsAreUndone`: a re-ping raises the incarnation of another member,
  and that only to undo a death; the answer to it may itself bring news that does.
- `Contributes`, `AveragedOnce`: the two sides of swapping the event and the pending
  gradients when a round closes, and the second one also across leaders: what waits
  in a barrier is in nobody's model. It is stated for behaviours without retries and
  replaced pods: a retry after a lost answer is averaged again, the code does not
  tell it from a new gradient.
- `OneModelPerRound`: a waiter reads round and model after its wait, possibly some
  rounds later; it must read a pair that belongs together. It is stated for one
  leader, since the rounds of two leaders' barriers are numbered independently.
- `DeadIsQuiet`: of a server that is down runs at most what a kill under way is about
  to stop, and when a life starts nothing of an earlier one runs.
- `SpawnedInOrder`: once this life's spawner is past an agent, the agent is in
  `_expected` and was durably added in this life, whatever became of the offers, the
  servers and the spawners of earlier lives in between. That is what the spawner can
  answer for; whether the agent is lost later is the matter of `NobodyIsLost`.
- `Populated`: if every shard has a majority from some moment on, the spawner of the
  present life gets to its end, with every agent counted and durably added in this life,
  also when an older one spawns next to it.

Operators that are marked "mutant of" another one are plausible bugs, such as a
missing comparison or an off-by-one. Put in the place of the operator they are
mutants of, each breaks the property that `PROJECT.json` names with it, in the same
run: no property holds for want of cases.

### Fairness

Raft: heartbeats are sent over and over, the applier is woken, a stopped member is
started (weak); of the calls that one member makes to another infinitely often,
some arrive and some are answered (strong: the network loses calls, but not all).
There is no fairness for elections: `StableLeaderDelivers` speaks of a leader that
stays. That one is elected eventually is a matter of random timeouts and not
claimed.

SWIM: every coroutine goes on and every datagram for a running member arrives once
the network is calm (weak). Probes and re-pings of each member are strongly fair;
the loops of the code come round to everyone in any case, but in the model the
bound on datagrams in flight disables them now and then. The same holds for `join`:
a worker whose join times out exits, and its pod starts another that knows nobody.

Trainer: timers fire and answered coroutines go on (weak). Nothing is assumed of
elections, of training, or of calls being given up.

Playground: the coroutines of the cluster go on (weak). Of the offers that a spawner
makes over and over, some is added and some addition is confirmed in time (strong),
which the code can expect of a shard that has a majority: it elects a leader, and the
spawner asks every server in turn. Nothing is assumed of kills, revivals and ticks.

## 4. What is proved

`RaftProofs` proves five theorems for every finite group, every set of commands and
all values of the bounds, from the assumptions of `Raft` (`NodeAssumption`,
`CommandAssumption`, `BoundAssumption`: members are finitely many, none is the empty
name, the no-op is not a command, bounds are naturals).

- `TypeCorrect`: `Spec => []TypeOK`. The types are not inductive: the term before
  the new entries is read at `next_index - 1`, which must be within the log. The
  inductive invariant `TypeInv` adds `NextIndexInLog` (a leader never asks for
  what is beyond the end of its log) and `AppendCallsInLog` (an append call was
  made by a leader of its term, and while it leads, its log holds what it sent,
  which is why an acknowledged index is within the log however late the answer
  is). Lemmas on `Min`, `SubSeq` and `Merge` come first.
- `VotesAreKept`: `Spec => VotesStand`, an action property.
- `OneLeaderPerTermHolds`: `Spec => []ElectionSafety`. `VotedFor(v, t, c)` collects
  the evidence that v voted for c in term t: the vote itself, a granted reply on
  its way, or a place among the votes c counted. `ElectionInv` says that evidence
  agrees with the voter's state as long as the voter is in that term, that there is
  no evidence of two votes in one term, and that a leader counted a majority. Two
  leaders of a term would have a voter in common (`MajoritiesIntersect`), hence two
  votes of it.

The two about logs speak of *pieces*, whole logs and what append requests carry: entries
with the index and the term right before them.

- `LogsMatch`: `Spec => []LogMatching`. `MatchInv` says that any two pieces that have the
  same term somewhere have the same entries up to there and the same term before these
  (`Compatible`). What a heartbeat sends is the tail of a log (`TailCompatible`), what a
  follower keeps is its log up to the request's previous entry and the request
  (`MergedCompatible`, from what `Merge` does: `MergeIs`), and what a leader appends has a
  place and a term that no other piece has (`LongerCompatible`). The last is `HoldsInv`: a
  leader holds every entry of its term, wherever it is.
- `TermsStayFresh`: `Spec => FreshTerm`, an action property. `HoldsInv` starts with the
  election, for which no entry of the term may exist: `OwnedInv` says that the term of
  every entry is `Decided` for one member, which is no candidate in it any more, while a
  majority will never vote for another. `Decided` is stable across every step, restarts
  included, by `VotesAreKept` and the evidence of `RaftProofs`.

`RaftCommitProofs` goes on from there to what the group is for, from the same assumptions.

- `CountsMatch`: `Spec => []MatchSound`. A reply may be about a request that an earlier
  one overtook, so the log it answered for may have changed since. `TermsInv` collects
  what terms mean (they rise along every piece, a leader's log and its requests end in
  its term, a vote request describes the log of its candidate) and `SameTermInv` that
  the entries of one term stand side by side: between two of them no piece has another.
  Hence a request of the member's own term never cuts what it acknowledged in it
  (`MergeKeeps`), and `AckInv` and `CountInv` say that acknowledgements and counts stay
  true while their member stays in the term.
- `LeadersComplete`, `CommitsOnMajority`, `CommitsStay`: `LeaderCompleteness`,
  `CommittedOnMajority` and `CommittedStays`. The model has no history, so that an entry
  is safe must be said of the present state: `Safe(i, t, S)` says that every piece with
  an entry of a later term carries the entry of term t at i, that every request of a
  later term reaches it, and that the members of S hold it and have elected, in a
  later term, only who holds it too. `AckedSafe` is the core: every entry is
  either `Blocked` (a majority is past its term and there is no evidence that any of them
  acknowledged it, hence it is never committed) or safe with all that acknowledged it.
  When a later leader is elected, its voters are a majority past the term of the entry:
  either none of them acknowledged it, which blocks it, or one of them did, and the
  comparison of logs made the candidate hold it (`AskedHas`). What is committed is
  `Fixed`, safe with a majority, and no leader is elected without it. `CommitSafe` is
  the inductive invariant.
- `GroupIsOneLog`: `Node # {} /\ Spec => ImplementsLog`. Every step is a step of
  `ReplicatedLog` or a stutter. `CommittedAgree` says that commits agree (two majorities
  share a member), `DeliveredInv` that what a member was handed is the beginning of its
  commits, `HasFurthest` that there is a member that knows most. A group without members
  has no such member, hence the premise.

`PlaygroundProofs` proves three theorems from `SizesAssumption`, `SpeedAssumption`
(no agent is faster per tick than a shard is wide) and `PlaygroundAssumption`, for
every grid, every number of servers, agents, kills and resets.

- `TypesHold`: `Spec => []TypeOK`. That agents stay inside the world is the part with
  content: `BounceStaysInside` shows that one bounce is enough, `HomeIsShard` that
  every position has a shard.
- `DeadStaysQuiet`: `Spec => []DeadIsQuiet`. The invariant `QuietInv` says which kill:
  what still runs of a server that is down is among what one of its kills has yet to
  stop. And a shutdown under way covers all that runs.
- `SpawnedWereAdded`: `Spec => []SpawnedInOrder`. `SpawnInv` adds that an agent that a
  spawner of this life takes for added was durably added in it, and that a life starts
  without a spawner of its own, which is why an old spawner that goes on in it can count
  and add agents (`CountStep`, `SameAgentStep`) but not stand in for the new one. Only a
  reset makes an agent `Absent` again (`Keeping`, `MoveKeeps`).

`TrainerProofs` proves four from `TrainerAssumption`, for every group of workers.

- `TypesHold`: `Spec => []TypeOK`.
- `EveryoneContributes`: `Spec => Contributes`, an action property. `CallInv` says that
  a worker has one call, that a leader has one barrier per term, that a call that
  waits has its gradient pending in the round of its event or in the barrier's model
  (`WaitingInv`), and that an answer contains it (`AnsweredInv`).
- `NothingIsAveragedTwice`: `Spec => []AveragedOnce`. `OnceInv` adds that what is
  pending belongs to a call that waits (`PendingWaits`) and that a gradient in any
  model is nowhere pending and not about to be submitted (`AppliedInv`).
- `RoundsAreModels`: `Spec => []OneModelPerRound`. The invariant `EraInv` is about the era
  of the first leader (`OneEra`). `SoleLeader`: no two workers lead, a majority is
  in term 1 once somebody leads, so no second one can be elected in it, and only who leads
  has a barrier; a worker that stands, or learns of the term, is not that leader (`StandInEra`). `OutcomeInv`:
  whoever has the outcome of a round, the barrier, an answer nobody has read yet or a
  worker, has the same one, and the barrier is behind none of them.

`SwimProofs` proves two from `SwimAssumption`, for groups of every size, every gossip
budget and all bounds. The behaviours start where nobody knows anybody (the runs
start later, when some have joined).

- `TypesHold`: `Spec => []TypeOK`. Its content is in two places. A count of gossip
  stays below `MaxTransmits`. And `HandleAck` moves a re-ping on to `"acked"` without a
  look at whether there is one: `AwaitedInv` says that there is, since the datagrams
  that serve a re-ping, sent or answered, are only ever one and become late when the
  wait for it ends, be it by a timeout, an answer or a crash.
- `GossipAgreesWithBelief`: `Spec => []GossipIsBelief`. Not inductive either: what is
  merged from a datagram would contradict itself if it spoke of one member twice. So
  `MessagesInv` says that a datagram does not, its sender's own incarnation included,
  for which an entry about the sender must be its refutation: `GossipIsBelief` again,
  at the sender. `SelfUnknown` says that nobody keeps a belief about itself, which is
  why a probe or a re-ping never doubts its own member.

`SwimHistoryProofs` proves two more, from the same assumption and `HistoryAssumption`, of
the behaviours that the run checks: they start where all have joined, with gossip or
without. `SwimProofs` proves what a step of either kind does; for the steps without gossip
its lemmas are instantiated with the other bounds (`QuietProofs`, `QuietSteps`).

- `DeathsAreTimed`: `HistorySpec => []DeathsAreTimedOut`. A belief may come from any
  datagram and a datagram from any belief, so the invariant `DeathsIn` bounds the deaths
  that are told, too. What is gossiped needs no part of its own, `GossipIsBelief` says
  that it is believed.
- `OnlyTheLivingAnswer`: `HistorySpec => AnsweredByLiving`, an action property. `TasksInv`
  says what belongs to what: a datagram that is not late serves a wait that goes on, is
  alone in it (`Alone`), and goes to or comes from whom that wait is about (`Awaited`); a
  relay that is not late pings for its asker's present probe (`RelayInv`). Then an answer
  to a probe can only have been sent, to the prober or to a helper, by the target of that
  very probe, during it: `NoAnswer` is kept by every step while the target is down
  (`Unanswered`).

`RegionsProofs` proves two from `RegionsAssumption` (servers and agents are finitely many,
the marks `"main"`, `"nobody"`, `Nowhere` and `NoOp` are none of what they stand next to,
there is at least one term), for every number of servers, shards and agents, from the very
start of the world.

- `TypesHold`: `Spec => []TypeOK`. That nobody has applied more than its log holds takes the
  whole of Raft's argument, here about a group whose rounds are single steps: a shard has
  one leader a term (`OneLeader`, since a majority is past the term: `TermsBacked`), terms
  rise along logs (`TermsAscend`), a leader's log ends in its term and is the longest of
  it (`LeaderOwns`), entries of one term stand at the same places below the same entries
  (`Coherent`), what a leader counts as held by a follower is held (`AcksHold`), and any
  log with an entry of a later term holds an entry of a leader or a majority is past it
  without it (`LaterHold`, `Blocked`). Then what is applied is `Safe`: a majority holds it,
  and so do all that go on from there (`AppliedSafe`). `GroupInv` is all of these, for
  every shard.
- `OnlyMistakesLose`: `HistorySpec => []LostByMistake`. Nothing in the state says where an
  agent was last taken in, so the invariant says that a record of it exists (`Events`): a
  set of *events*, each an `add_agent` that was proposed at an index of a shard's log in a
  term, at a time, and for each server and shard the time at which its tick last moved
  agents out. An event is *durable* once some server applied it, and *overruled* once its
  agent has a durable event that is later. Of events that are not overruled, every log
  that holds the event keeps the agent in all snapshots after it (`Kept`), so does every
  registry of a server that applied it (`Registered`), and so does what a failing
  `add_agent` may put back without a mistake (`Restorable`). A hand-off that was accepted
  has a durable event later than the departure (`DoneBacked`, through the answer:
  `CallBacked`), while a departed agent that did not come back has no event in the old
  shard that is later (`GoneSince`): hence who is removed is overruled. Whoever was placed
  has a durable event; the latest is not overruled, and the server that applied the most
  of its shard's log has it in the committed registry (`EventsKeepAll`). The steps that
  propose need `Locks`: one coroutine at a time in a shard's lock, and as long as its
  server leads, the log has grown by nothing but its own entry. `WorldInv` is the
  invariant, `EventsStep` the step; `WorldStart` and `SettledWorld` say that it holds at
  the start, and where every shard has a leader and every agent a place.

`RegionWorldsProofs` proves `WellTyped` and `NobodyIsLost` of `RegionWorlds`
(`WorldsWellTyped`, `WorldsLoseNobody`) from `RegionsAssumption` and `WorldsAssumption`:
the lemmas of `RegionsProofs` are instantiated with the other world's constants (`BP`),
and the invariant is that of the world whose shards the logs are of.

Only model-checked: liveness under fairness (`NobodyHangs`, `StableLeaderDelivers`,
`Recovers`, `Populated`), since fairness is about `ENABLED`, which is beyond the proof
system's backends; and `DeathsStand` and `OnlyDeathsAreUndone` of SWIM.

## 5. Findings

Each is a run that TLC ends with a counterexample; `PROJECT.json` quotes the lines.

- `region_rollback` (a bug): `add_agent` that fails after proposing puts back the
  registry from before the call (`shard_state.py:69`), although entries of the next
  leader may have been applied during its wait. The server then has applied all of
  its log and holds an older registry. If it is elected again before another
  snapshot reaches it, its next tick makes that registry permanent.
- `region_returned` (a bug): phase 2 removes an accepted agent by its name
  (`region_server.py:79`). If the new owner has handed it back in the meantime, it
  is removed from its only registry.
- `swim_renewed` (a bug): a member that is SUSPECT and becomes SUSPECT again at a higher
  incarnation, because the refutation in between did not arrive, gets no timer
  (`swim.py:243`), and the running one is for the old incarnation. Unless news comes from
  a third member, it stays suspected, whether it is down or well: a probe that fails marks
  only the ALIVE, one that succeeds brings the same incarnation, which does not undo a
  SUSPECT, and re-pings are for the DEAD only. Two members cannot do this to each other,
  which is why `Recovers` holds in `swim_recovers`.
- `raft_replaced_pod`: Raft keeps term and vote in memory only. One replaced pod,
  not only a restart of every node, is enough to elect two leaders in a term.

Met on the way, and not claimed by any line of the repository:

- A retry of `Sync` is averaged a second time (`worker.py:141`), see `AveragedOnce`.
- A shutdown does not cancel the coroutine that spawns agents (`playground.py:422`).
  After a reset it goes on in the next life, counts agents there and sets `spawned`
  perhaps before that life's own spawner is done, against the comment of
  `playground.py:369`. `SpawnedInOrder` and `Populated` hold all the same, because the
  new spawner offers every agent itself; both are about agents being added, not about
  their staying, which the first two findings refute.
- A server that is revived while its kill waits ends up "up" with some of its parts
  stopped again (`playground.py:450`, `458`); their handlers still answer. `Populated`
  asks for a majority of running parts, not of servers that count as up.

## 6. Not modelled, and why

- The rounding of floats in `world.py`, and agents faster than a shard is wide, which
  no configuration has. (One faster than the world is wide could leave it.)
- The numerical side of training (`model.py`, `data.py`, the averaging in
  `outer.py` beyond which gradients it is given): no protocol state.
- `membership.py`, generated stubs, command lines, site, manifests: wiring. One thing
  of `sharding/cli.py:52-56`: a process offers its agents once, one second after its
  start. If the leadership moves in that second, a second process spawns the same
  agent again, or nobody does. `Regions` spawns an agent once.
- The playground's `Consensus` cluster: its kill, revive, reset and shutdown are those
  of `World` over Raft and SWIM members, its event feed reports what it sees. `stop()`
  is called by no component of the site. A second reset, or a revival, during the
  waits of a shutdown: the site's controls are off then (`World.tsx:131`,
  `client.ts:103`), so `Reset`, `Kill` and `Revive` have the guard `phase = "ready"`.
- In Raft, a group of one member: in the code votes are counted only when a peer
  answers, so such a group never elects anybody. No deployment here is one.
- Split votes for ever: ends with probability one only.
- Datagrams are not duplicated. UDP may do that; an ack then finds no waiter and its
  updates are old news, but that is an argument and not a check.

## 7. Plan

Done, in order of importance: Raft, its theorems, the shards above it, SWIM, the
trainer, the playground above the world, and their theorems. Next:

1. SWIM with timers of older suspicions: `stop` cancels the timers that `start` does
   not start again, and a re-ping raises an incarnation on behalf of the member
   (`swim.py:226`). Each needs a run of its own. A three-member join, in which gossip
   of a newcomer dies out.
2. Liveness of a hand-off (a duplicate is brief), which needs a `Regions` whose log
   is summarised so that ticks can go on for ever; `Regions` above `Raft` itself
   instead of its abstraction.
3. The trainer across leaders: which rounds and starting points may be mixed when a
   leader that lags takes over (`worker.py:86-94`); three workers.
