# A TLA+ model of the AgentJet swarm

AgentJet trains language-model agents. In swarm mode the agents run in *swarm clients*,
outside the trainer: a client claims an *episode* from the *swarm server*, talks to the model
through the server's OpenAI endpoint, and ends the episode with a reward. The trainer collects
the episodes of one *rollout*, updates the weights, and opens the next rollout. This directory
models that cycle, from the client's throttle to the trainer's checkpoint, checks it with TLC,
and proves with TLAPS every safety property that a passing run checks. Paths are relative to the repository's `src/`;
`swarm_server.py`, `swarm_client.py` and their neighbours are in `ajet/tuner_lib/experimental/`.

## 1. The system

| Component | State | Operations | Module |
|---|---|---|---|
| Swarm server (`swarm_server.py`, `interchange_utils.py`) | engine status, episode records, list of unclaimed episodes, finished records | `register_episode`, `claim_episode`, `end_episode`, `abort_episode`, `is_episode_claimed`, `update_engine_status`; a janitor coroutine; blocking functions in threads | `SwarmServer` |
| Runner (`task_runner/swarm_runner.py`, `base_runner.py`) | a REP socket, a tracker | register, wait for an output, serve a reset, give up | `SwarmServer`, `EpisodeTracker` |
| Rollout (`task_rollout/native_parallel_worker.py`, `single_worker.py`) | stop flags, completed episodes by task | worker loop, stop conditions, collecting the batch | `RolloutPool` |
| Agreement on weight syncing (`interchange_utils.py`, `swarm_server.py`, `swarm_client.py`) | list of active clients, the trainer's copy of it | enter, refresh, expire, agree, clean up, fetch | `SyncAgreement` |
| Engine start and stop (`swarm_server.py`, `trainer_verl.py`, `main_verl.py`, `process_killer.py`) | stored configuration, process id, engine status | `sync_train_config`, `start_engine`, `stop_engine`, failures of the trainer | `EngineLifecycle` |
| LLM endpoint and service loop (`oai_model_server.py`, `oai_model_client.py`) | calls under way, the service loop of an episode | pass a call on, wait, answer, serve, end | `EpisodeTracker` |
| Context tracker (`context_tracker/`, `schema/extended_msg.py`) | saved timelines, rewards, flags | prepare, track, save, reset, merge, tokenize | `EpisodeTracker`, `Timelines` |
| Swarm client (`swarm_client.py`, `utils/thread_executors.py`, `utils/retry.py`) | remembered tasks, claims, groups of jobs | begin, end, abort an episode; throttle; submit groups; retry | `SwarmClient` |
| Training loop (`backbone/trainer_verl.py`) | step, batch, weights, replicas, checkpoint | rollout, gather, update, save, publish, validate, resume | `TrainerLoop` |
| Advantages, judges, readers, configuration, display, proxies, other backbones | see `PROJECT.json` | sequential | not modelled |

How they talk: clients, the trainer and runners post to the server by HTTP; the server's threads
send outputs and resets to runners, and the endpoint sends calls to the trainer, by ZeroMQ; runner
and service loop share the tracker of an episode; the workers of a rollout share a dictionary; all
of the server's handlers and threads share `shared_mem_dict`.

The hard part is that nobody is in charge of anything. Five parties act on one episode record: the
client that holds it, one that held it before, the runner that serves it, the janitor that takes it
away, the trainer that wants to close the rollout. Four write the engine status. Two threads use a
tracker without a lock. Handlers wait in the middle, for up to five minutes, in threads that
read and write the same dictionary. What makes each part correct:

- *server*: no episode is lost or handed out twice; a record has a runner behind it; the end of
  an episode is final; nothing of a rollout survives it; it always drains, whoever crashes;
- *rollout*: no episode that was paid for is lost; the batch meets the condition that ended the
  rollout; the engine is not reopened while weights are synced; a rollout once stopped ends;
- *agreement*: a rollout is ended by agreements of that rollout only, and an agreement is honoured;
- *engine*: one trainer, on the job it was started with, and a status that tells the truth;
- *tracker*: what the model said to the owner of an episode is learned from, unless a reset wiped it, no
  answer twice and every timeline with a reward; what it said to anybody else is not;
- *client*: the throttle bounds the client's share of a batch and never stops everybody;
- *training loop*: updates are on policy, and steps, weights and checkpoints keep pace over crashes.

`PROJECT.json` lists every hazard met while reading the code, at its line, with the properties
that cover it.

## 2. Modules

An MC module adds symmetry sets or bounds for TLC; a module whose name ends in `Proofs` holds the
theorems about the module it is named for. A definition whose name begins with `Bug` is not part of
a model: it is the definition after it with a plausible mistake.

### SwarmServer

One variable per key of `shared_mem_dict` that matters (`engine_status`, `rec`, `unclaimed`,
`finished`, `active`); `idle` and `expired` for the janitor; `call[k][e]`, the request of caller
`k` on episode `e` that waits in a thread or for one; `held`, what a client believes it holds;
`runner`, `posts` and `tries` for the runners; `trainer` for the main thread of the trainer.

A handler is one action up to its first `await`. What comes after is an action of its own:

- `end_episode` of a training episode: `EndTrainEpisode` (checks), `SendOutput` (the thread sends
  to the runner), `RunnerTakeOutput` or `StopWaitingForAck`, `RecordOutput` (records cleaned up under
  the lock), `EndReturns` (back on the event loop).
- `_revert_episode_to_unclaimed`, called by the janitor, by `abort_episode` and by the end of an
  evaluation episode: `RevertEnter`, `RunnerReset` or `StopWaitingForReset`, `RevertTail` (the record
  is mutated in place), `RevertCommit` (it is written back under the lock). No handler runs between
  the last two, but a thread may.
- `is_episode_claimed` and the runner that asks are one action, `RunnerExit`: the runner reads the
  answer and does nothing else in between.
- The janitor is one coroutine. `JanitorScan` collects the idle claims and enters the first revert,
  `JanitorNext` the others, `ExpireClients` runs between scans.
- The trainer: `StartRolling`, `StopCollecting` (the stop flags), `EnterRollingPost`,
  `EnterWeightSyncing` once all runners have left, `CleanUpEngineStatus` ten seconds later.

Left out, and why that is sound:

- The server is the default one, a single process (`num_fastapi_process` is 1).
- A refused request changes nothing and is no step.
- A waiting runner answers within a second, a wait lasts fifteen times twenty seconds, so only a
  runner that is gone exhausts one. Sending a reset and the runner's receiving it are one step.
- A client has one request per episode in flight. It ends or aborts only what it holds, but may
  do so long after the claim was taken away, and may never do it.
- `episode_type` is dropped when a claim is reverted: it is read of claimed records only, and the
  next claim sets it. Timestamps are `idle`; payloads, call counts and task ids are left out.
- Two windows of preemption, see the head of the module. `RevertCommit` may bring back a record that
  a thread removed just before; such an episode is put in the history variable `ghost`, and the
  properties that speak of removed records except it. That is a defect of the code as it stands
  (`swarm_server.py:155-167` checks, mutates, and only then locks); the model shows that it is
  the only way those properties fail.

`EpisodePool` is what the server promises its clients, abstractly: a first-in first-out pool, `free`
a sequence and `owner` a function. `Clear` is allowed only while the pool is closed, `Claim` only of
the head, and only when nobody owns it. `SwarmServer` implements it with `open` the status
`ENGINE.ROLLING`, `free` the list and `owner` the client of a claimed record.

### RolloutPool

Each worker goes round `LoopTop`, an episode, `Look` and `Write` under `executor_lock`, the stop
condition and the preview; the main thread polls the same condition. `Evaluate` is any of the five
stop conditions; if it finds too many episodes cached, `ClearCache` follows as a step of its own,
without the lock. `Answer` is `stop_condition_callback`. `Shutdown` waits for the workers,
`Collect` builds the batch and applies `filter_out_dummy_tasks` where the method asks for it. A
list of trackers is the bag of its rewards. What an episode does inside is `SwarmServer`; here it
ends with a tracker, without one, or with an exception that ends the worker's thread. Counting is one step,
and the stop flags are raised in one
step (all readers but one look at a single flag; the other asks whether all are up). How many
trackers a bag has is the number of its numbered copies, a cardinality, which can be proved about. The preview
after the batch has been collected is left out: nothing reads what it fetches.

### SyncAgreement

`active` is `active_swarm_clients`: for each client no entry, or one that has `allowed` the weight
syncing and is `old` (nothing for `CLIENT_ACTIVE_TIMEOUT`) or not. `EndEpisode` and
`RegisterActiveClient` are the two ends of `end_episode`, with its thread in between;
`RefreshClientActivity` is a call of an agent; `AgreeSyncWeight` the handler; `CleanUp` the thread of
`clean_up_engine_status`, and `CleanUpInBetween` the same, falling between the read and the write of
a handler. `Fetch` and `StopCondition` are the trainer's, whose `fetched` may be seconds old. The
client's `agree_sync_weight` is `StartAgree`, then the handler, then waiting until `SeesStop`; it ends
with `GiveUp` when the client is not in the list, with `Abandon` when the rollout is over already. A list
written back over a clean-up makes
`stale` true and the behaviour stops there: nothing is claimed after it.

### EngineLifecycle

A run is a training process with its wrapper. `StartEngine` is `start_engine` up to its await:
BOOTING is set, a process exists, no process id is stored; `StartReturns` stores it. `StartFails` is
an error before there is a process, `StartBreaksOff` one after, when the process goes on and no id is
ever stored. `StopEngine` kills what the stored process id names. A report of a run is in
`posts` until `UpdateEngineStatus` handles it, and may be handled after the run is dead, or be lost
with the sender. `Advance` is the trainer's way through its statuses; `Finish`, `TrainerFails`,
`WrapperReports`, `LaunchFails` and `RunExits` are the ends a run can have. Two history variables
delimit the claims: `latest` tells that the last start or launch failed, `stray` that a report or a
returning start came after the run it is about was over, or that a stop missed a trainer. What clients
believe about the status is
left out: a request may come at any time.

### EpisodeTracker and Timelines

One episode, its LLM calls and its claims. The record is as much of `SwarmServer`'s as the tracker sees:
`record` is registered, claimed or gone; `resets` counts the reverts that wait for the runner's reset,
`writes` those that have had it and have yet to write the record, and `output` is the claim whose
`end_episode` has passed its checks. `AskReset` leaves the record claimed, so `EndEpisode` may pass
while a reset is under way, and the thread of either goes on without looking again: `RunnerReset` serves
the reset, `RevertWrite` writes the record whoever has it by then, `TakeOutput` is the runner's taking
whichever output has come. `RecordOutput` and `DeleteRecord` remove the record.

`Send` is the endpoint: the call is
handed over before the record is looked at, and nobody asks whether the caller still has the claim.
`Serve`, `Track` and `Save` are `step_prepare`, `step_track` and `save_llm_interaction_timeline` of one
call in the service loop; the save reads the list of timelines (`loaded`), copies the new one, and
stores the extended list, so a reset or a merge may come in between. `ServiceFails` is an exception
in a call. After the output the runner goes through `RewardFirst`, `Merge`, `ReadOnly`, `RewardAgain` and
`Tokenize`; without one it leaves by `HardExit`. A text is a value; a prompt is what came before, with a
reply as the model gave it or edited by the client.

Five history variables. `owner` is who had the episode when the output was taken, and `owed` what its client
had been answered when `end_episode` passed. `wiped` are the calls replied to before the last reset, and
`late` tells that a timeline was saved that is not the owner's, or between a reset and the loss of the
claim, or after the merge. `raw` is the list as it was when merged.

`Timelines` has the pure part: `merge_tracker_timelines` with its in-place changes of authors, the
loss mask of a message (`blackout_token_combo`, `lack_normal_eos`), the split in prompt and response
with its hundred steps forward (`MaxForward`) and its truncation. Its loops are recursive functions: `Round`
and `Absorbed` the two loops of the
merge, `Unabsorbed` the comprehension after them, `FlatUpTo` the concatenation of the masks. Tokens
are the three of the template and one kind for all the others. The
properties compare the results with definitions that do not follow the code's loops.

### SwarmClient

`SubmitGroup` is `submit_group` with its semaphore. A job is one episode to be done: `Admit`
(`begin_episode` up to the lock, with `Throttled`, the throttle, and `Remember`, the list of recently
seen tasks), `Claim` or `ClaimFails`, `End` and the ways an end can fail or come too late, `Abort`,
`EndExpired` (the client's own clock), `AgentFails` (the retry wrapper runs the job again). `Reclaim` is the
server taking a claim back, `ForeignClaim` and
`ForeignEnd` are other clients. The trainer stops by `rollout_until_finish_enough_tasks`, which the
throttle asks for. How the server does its part is `SwarmServer`.

### TrainerLoop

`fit`, one action per stretch between the calls that can fail or wait: `Resume`, `BeginRollout`,
`EndRollout`, `KeepGenerating` or `GeneratedTooMany` (filtered groups), `Align`, `UpdateActor`,
`SaveCheckpoint`, `UpdateWeights`, `Validate`, `EndStep`, `NextEpoch`, `RunOut`. A version of the weights
is the number of updates it went through, a prompt of the batch the version that answered it.
`Crash` may happen anywhere; `Resume` starts from the last checkpoint, at a position of the data loader
that is verl's affair and left open.

### Composition

`SwarmServer` composes server, runners, clients and trainer; `EpisodeTracker` composes endpoint,
service loop, tracker and runner; the others meet at narrow places, each modelled on both sides.
`RolloutPool` assumes that every episode ends, which `RollingPostDrains` shows of `SwarmServer`; of the
record, `AskReset`, `RunnerReset` and `RevertWrite` of `EpisodeTracker` are `RevertEnter`, `RunnerReset` and
`RevertTail` with `RevertCommit` of `SwarmServer`, and `EndEpisode`, `TakeOutput` and `RecordOutput` are
`EndTrainEpisode`, `RunnerTakeOutput` and `RecordOutput`, in every order `SwarmServer` has but the window
of `ghost`; the answer to a client method
in `RolloutPool` is any list of agreements, and `SyncAgreement` has how one comes about;
`TrainerLoop` takes a rollout as one step with any number of prompts.

## 3. What the runs show

| Run | Instance | Shows |
|---|---|---|
| `server_records` | 1 episode, 2 clients, both types, 1 repeated registration | `NoLostEpisode`: a registered episode can always be claimed; `RecordHasRunner`: no claimable record without a runner to take the output; `FinishedIsFinal`: no finished episode comes back; `TrainingStartsClean`: no late request leaves anything in the pool once it was cleaned up |
| `server_queue` | 2 episodes, 1 client | `QueueExact`: the list has no duplicate, no claimed and no removed episode; `PoolRefinement`: the server implements `EpisodePool` |
| `server_drain` | 1 episode, 2 clients, fairness | `RollingPostDrains`: the stop always leads to the next training step; `JanitorComesBack`: no revert keeps the janitor |
| `rollout_batch` | 2 workers, 2 tasks, 2 rewards, 4 methods, 4 trackers (2 for the client method) | `BatchComplete`, `BatchMeetsCondition`, `SyncingIsFinal`, `StopEndsRollout` |
| `agreement` | 2 clients, both methods, fairness | `StopIsAgreed`: nothing left over stops a rollout; `AgreementKept`: no handler loses an agreement; `AgreementEnds`: what is agreed to happens, unless an agreement is dropped for its age |
| `engine` | 2 jobs, 2 runs, fairness | `OneTrainer`, `ConfigFrozen`, `StatusTruthful`, `BootingEnds` |
| `tracker` | 3 calls in one claim, or 2 in two claims with 2 reverts at a time; 2 samples | `AnswersKept`: what the owner was answered is trained on, unless a reset wiped it; `ResetTakesClaim`: an owner whose answers a reset wiped loses the claim; `OwnersOnly`: nothing of a former owner is trained on unless it was saved late; `TrainedOnce`: no answer twice; `MergeSound`, `MaskExact`, `SampleComplete`, `RewardsAligned` |
| `client` | 2 tasks, 2 repeats, 2 episodes, limit 1 | `ThrottleBound`: the count holds when the claim succeeds; `NeverStarved`: the throttle never holds up the batch it waits for |
| `trainer` | 5 steps, 4 epochs of 2 batches, 2 crashes | `OnPolicy`, `BatchFull` (of batches that are filtered), `StepsMatchWeights` (the last step's checkpoint included), `ServesNewest` |

Each of `server_records`, `rollout_batch`, `agreement`, `engine`, `tracker`, `client` and `trainer` also
checks its module's `TypeOK`. Every property has a mutant in `PROJECT.json`: a plausible mistake in
one definition with which TLC finds it violated.

Three runs look for a disagreement between documentation and code, and find it:

- `server_claim_kept`: a claim is taken away from a client that has become active again. The
  revert decides once, then waits for the runner, and does not look again.
- `rollout_hang`: a worker's evaluation stops the rollout, another's clears the cache, and the main
  thread, which alone can end it, waits for a condition that no worker is left to meet.
- `tracker_post`: an episode that goes on in `ROLLING_POST` gets its answers and its reward, but the
  answers are in no timeline.

**Bounds.**

- *Server*: an episode never returns once its runner has left, so every race about one record needs
  one episode and two claimants; two episodes are needed for the order of the list. Everything
  else is cyclic and unbounded: any number of claims, reverts and rollouts. `MaxResend` bounds
  repeated registrations (the code's bound is 14; one is enough for a post that arrives after its
  episode was claimed, and the proofs are for any number).
- *Rollout*: `MaxEpisodes` bounds the trackers made in one rollout. For the counting methods 4 is one
  more than overfills the cache (`MaxCached` is 2, a complete batch): a worker can clear a cache that
  another has just found complete, or clear it under a worker that has looked up its list and not
  yet stored into it. The client methods do not count; there 2 trackers let both workers store at once.
- *Agreement*: no bound; two clients, one that agrees and one that does not.
- *Engine*: a run never comes back, so two runs are one that is over and one that replaces it.
- *Tracker*: what becomes of timelines needs 3 calls, so that two can be absorbed by a third, and a claim
  that is not taken back; what becomes of claims needs two, `MaxClaims` = 2, a former owner and the
  present one, 2 calls, one of each or both of one owner around a reset, and `MaxReverts` = 2 reverts at a
  time, so that the one may write over the claim made after the other. `MaxShared` = 2 keeps the two
  apart: an episode whose claim is taken back sees no third call. `Cuttable` and `Madness` are the call
  that can be cut short and the one that can be taken for mad, `MaxSamples` = 2 is one less than the
  timelines there can be, and `MaxMessages` = 3 lets a third turn overflow. The proofs have no such bound:
  `MaxShared` and `Cuttable` may be as large as `Calls`, but a reply is cut short only while no claim has been
  taken back.
- *Client*: a batch of one task and a limit of one, at which threads of two tasks meet, both
  groups submitted (`MaxGroups` = 2); `MaxForeign` = 1 claim of another client per batch, which is enough
  for it to take an episode, or a task, of this client's.
- *Training loop*: `TotalSteps` = 5 has two saves (`SaveFreq` 2) and a last step between; more batches
  than steps, so that filtered groups may take several, and not so many that they cannot run out;
  `MaxPrompts` = 3 overfills a batch of 2; `MaxCrashes` = 2, so that a resumed process can die again. The
  warm-up is 0 or 2 steps.

**Symmetry** is used in `server_records`, `server_queue` and `client`, which check no liveness property.

**Fairness.** Of the *server*: threads and runners run on (weak fairness). The event loop serves its
callbacks in order, so one that is ready is served although commits delay it again and again (strong
fairness), the janitor and the trainer's requests included. Clients are not assumed to do anything;
`GoIdle` is fair, that is, a claim is at last left alone for `discard_episode_timeout` and long
enough for the ten-second scan. A client that calls the model for ever can indeed keep the engine in
`ROLLING_POST`. Of the *rollout*: every episode ends; and strong fairness for the lock, which several
workers contend for. Of the *engine*: `start_engine` returns, reports that arrive are handled, a booting
trainer gets on or fails, a wrapper reports, processes that are done exit; nothing of clients. Of the
*agreement*: handlers, the janitor and the trainer go on; a client that stays agrees if it is
in the list again and again (strong), the trainer fetches every few seconds and so sees a list that
keeps coming back (strong); clients may leave, or never end an episode.

**Deadlock** is not checked: every one of these systems may stop. A rollout ends, an episode ends,
training ends, nobody starts the engine again, or no runner comes.

### What reading and checking showed besides

Each of these is in the model as the code has it; where a property would fail of it, its exception
names it.

- *Server.* Aborting an episode makes a client active (`swarm_server.py:797`), against the docstrings in
  `interchange_utils.py:141` and `:223`. `register_episode` appends without looking, so `QueueExact` fails
  once a registration is repeated, and one client can claim an episode from another by its second entry.
  The output of a client whose claim was revoked between the checks of `end_episode` and the send of its
  thread still ends the episode, which is then someone else's, whose answers get its reward.
- *Rollout.* An exception of an episode that is raised again ends the thread of its worker
  (`single_worker.py:213`), and nothing starts another. With `rollout_until_finish_enough_tasks` the batch
  holds incomplete groups too
  (`native_parallel_worker.py:555`; `docs/en/swarm_deepdive.md:60` speaks of complete ones).
- *Engine.* A stop served while `start_engine` waits (`swarm_server.py:509`) finds no process id, kills
  nothing and says OFFLINE, against `docs/en/swarm.md:113`. A start that fails after BOOTING leaves BOOTING
  behind, and so does a launch that fails
  before the wrapper's `try`. A start that breaks off when the process exists says that it failed, and
  leaves a trainer that no stop can find.
- *Agreement.* A client that waits makes no call, so its own entry may be dropped after an hour
  (`copilot/job.py:85` and `ajet_default.yaml:386` speak of ten minutes), and it then waits for ever. With
  several server processes (`ajet_default.yaml:370` allows 2 or 4) the unlocked read and write
  of the list can lose an agreement; with one, only the clean-up's thread can come in between. The
  client's docstring says it retries indefinitely; it raises after more than three failures.
- *Tracker.* A revert leaves the record claimed while it waits for the reset, so its client may end the
  episode meanwhile (`swarm_server.py:150`, `:733-745`). If the runner serves the reset first and another
  call is saved before it takes the output, the episode is trained on, with its reward, without the
  answers that were wiped; that is what `AnswersKept` excepts. A former owner's call that is saved after
  the reset is trained on with the next owner's. A save that has read the list stores it over a reset or a
  merge (`multiagent_tracking.py:303`).
  The index in `single_agent_tracking.py:294` stays within the mask only because a timeline that gets there
  has a token to be trained on, behind everything the split may step over.
  A message whose author is toggled does not get the `lack_normal_eos` of the message it is taken from.
  The endpoint waits fifty rounds of thirty seconds where the comment says five minutes.
- *Client.* A task is remembered as seen before its claim succeeds, and passes the throttle ever
  after, so a client may exceed its limit; `ThrottleBound` is about the tasks let in by the count. The loop over
  completed tasks counts one own episode per task and breaks: `NeverStarved` needs every task to be
  repeated at least twice (with one repeat, dropped outputs can stall the client), and no other client on the
  same tasks. The throttle lets everyone in when the statistics cannot be fetched. `abort_episode` does not
  check who aborts. The client gives a claim up after eight times `discard_episode_timeout`;
  `docs/en/swarm_deepdive.md:169` says twice. `stop_engine` of the client does nothing when its cached
  status says OFFLINE.
- *Training loop.* During critic warm-up the replicas are put to sleep and not woken. Filtered groups
  use up batches of the data loader, so the epochs may be over before the last step, and then nothing
  is saved. On resuming, the epoch is computed from the step as if a step took one batch. Resuming
  from the checkpoint of the last step trains one more. In swarm mode a prompt that is in two
  generated batches counts twice.

## 4. What is proved

Thirty-seven theorems in eight modules, for all constants that satisfy the named assumption of the
module (`ServerAssumption`, `RolloutAssumption`, `AgreementAssumption`, `EngineAssumption`,
`TrackerAssumption`, `ClientAssumption`, `TrainerAssumption`): any number of episodes, clients, calls,
messages, workers, runs, steps and crashes. The assumptions say that sets do not contain the values that
stand for "none", that sizes are natural or positive numbers, and that the calls of an episode and the
repeats of a task are finitely many; TLC evaluates each in the runs of its module. Three theorems have a
hypothesis besides, named below: `MaxResend = 0` or `NumRepeat >= 2`.

**SwarmServer** (`SwarmServerProofs`, and `SwarmServerPoolProofs` for the pool and the records):

- `TypeCorrect`: `TypeOK` is inductive, given that the janitor's requests are reverts of expired claims
  (`CallsOK`).
- `NothingLost`: `NoLostEpisode` is inductive relative to `TypeOK`. The exception for a revert between
  mutation and lock is essential: that revert appends the episode, and the lemma `LoopFreeCommits` keeps
  every handler out until it has.
- `ListIsExact`, with `MaxResend = 0`: not inductive. Why `register_episode` never appends twice depends
  on the runner, which has exactly one POST under way until it is answered, and on the reverts, none of
  which can write back the record of an episode that was never registered. `SinglePost` says both
  and is proved first.
- `PoolImplemented`, with `MaxResend = 0`: the steps are sorted by what they do to records and list
  (lemma `Shapes`) and each shape is mapped to an action of the pool or to a stutter, with `ClaimInv`: a
  record about to be written back is claimed by nobody, a claim names a client, and the clean-up
  runs only after rolling has stopped.
- `RecordsHaveRunners`, `FinishedStaysFinished`, `TrainingIsClean`, for any `MaxResend`: none is inductive.
  `RecInv` adds that the status is the one the trainer set (`Phases`), how often a runner has posted
  (`Once`), and that a revert about to write is about a record that is there (`CommitsPresent`). Most steps
  are shown to be mild, that is, to bring in no record, post, revert or listed episode; the others are taken
  one by one.

**RolloutPool**: `TypeCorrect`, `BatchIsComplete`, `NobodyAfterSyncing`, `BatchMeets`. `IInv` says who has
the lock (`Locked`), who has left when (`Ended`), and where trackers are: those made are those cached plus
those in the hands of workers (`Accounted`). A sum over a set of workers is moved by one element at a time.
`BatchMeets`: when the main thread stops it has seen the condition met (`Decided`), and while nothing is
cleared every condition that is met stays met: a bag with a tracker more has one more numbered copy.

**EngineLifecycle**: `TypeCorrect`, `AtMostOneTrainer`, `ConfigIsFrozen`, `StatusIsTruthful`. What reports
a run can have under way depends on where it is (`Reports`). Unless something is stray: a late status
of the cycle is followed by the report of the run's end (`Follows`); whoever trains was started last,
with the job that is stored (`Owned`); while a start waits the engine is not
offline (`Begun`); and the status is truthful. `OneTrainer` and `ConfigFrozen` follow from `Owned`.

**SyncAgreement**: `TypeCorrect`, `StopsAreAgreed`, `AgreementsAreKept`. `Known`, up to the first
stale list: an agreement in the list, or in the trainer's copy while the engine rolls, was given since
the clean-up. `StopWasMet`: a rollout that drains
was stopped on a copy that met the condition.

**TrainerLoop**: `TypeCorrect`, `BatchesAreFull`, `StepsAndWeights`, `NewestServed`,
`UpdatesOnPolicy`. The parts of `IInv` say how full the batch is at each place (`Gathered`), that its
prompts have the actor's version (`Fresh`), what the replicas serve (`Served`), how step and actor relate
(`Paced`), how many batches the epochs have given (`Counted`), and what is on disk (`Saved`).

**EpisodeTracker** and **Timelines**: `MergeMeets`, `TypeCorrect`, `KeepsAnswers`, `TakesClaims`,
`TrainsOnce`, `TrainsOnOwner`, `MergesSoundly`, `MasksExactly`, `CompletesSamples`, `AlignsRewards`, all but
the first from `Invariance`, which says that `IInv` holds.

- *Induction.* The library's induction theorems take a predicate, which no prover here can instantiate.
  That a nonempty set of numbers has a least one takes a set: `LeastNumber` follows from the
  well-foundedness of the numbers, and `UpTo` from it. The recursive functions of `Timelines` (the two
  loops of the merge, the list that is left, the concatenation) are reasoned about by `UpTo`, over the set of
  the rounds after which the loop's invariant holds.
- *The merge*, for every list of timelines. The loop's invariant (`MergeInv`) is that texts never change,
  that what is the model's in a timeline was so in some given one after the same texts, that what was the
  model's still is, and that every absorbed timeline is the beginning of one that is not. `Settled` says of a
  pair that was visited that one of the two is absorbed or they are not mergeable. `MergedFrom` is what follows.
- *Masks and samples*: `LossMask` of what the model said, whole, cut short, or cut short with its mark
  lost in a merge, and where the first token to be trained on stands in a concatenation. A
  sample is cut right, whatever `MaxPrompt` and `MaxResponse` are.
- *The tracker*: hardly a property is inductive, since they speak of the end. `CallsInv` says how far a
  call can be with its endpoint's thread and with the service loop, `PhaseInv` that only the merge closes the
  tracker. `LinesInv`: every timeline, saved or in the list that a save has loaded, is *good*, that is,
  what the model says in it is a call's reply after that call's prompt, and no two end with the same
  call. `OwnersInv`: unless something was saved late, all timelines are the present owner's, and from a
  reset to the next claim there are none. `KeptInv`: what the owner has been answered and no reset has wiped
  is in the list, and also in the list a save is about to store, which is why the unlocked save of
  `multiagent_tracking.py:303` loses none of it. `WipedInv`: a reset wipes replies only, and the revert
  that asked for it will write the record (`ResetTakesClaim`). `OnceInv`: before the merge only the last
  message of a timeline is the model's; after it, no two timelines have an answer in common, unless a save
  was late. `MergedInv` and `SamplesInv` carry this over the merge, by `MergeMeets`, and into the samples.

**SwarmClient**: `TypeCorrect`, `ThrottleHolds`, `NobodyStarves`. The throttle counts in `begin_episode` and the claim
succeeds later. `OneHolds`: one job at a time is between the two; `Counted`: what it was let in upon
still holds, since nobody else brings this client a task it has not worked on; `AliensShared`: the tasks the
count leaves out as other clients' have been claimed by other clients in this batch; `OwnIsLast`: the
statistics of a task end with the first own episode. From the last one, `NobodyStarves` follows if every
task is repeated at least twice. With one repetition it is false: the client takes a finished episode for a
complete task, though the trainer may have dropped the output.

The lemmas about `RemoveFirst` and `Contains` of the community modules are proved where they are needed.

**Only model-checked.** The liveness properties `RollingPostDrains`, `JanitorComesBack`,
`StopEndsRollout`, `BootingEnds` and `AgreementEnds` need ENABLED and fairness, which the prover does not
handle. `QueueExact` and `PoolRefinement` are proved for `MaxResend = 0`, the instance their run checks:
with repeated registrations the first is false (see above), and the second rests on it. That the models need
no more than
the bounds named in section 3 is argued there and not proved, but no theorem depends on a
bound's value.

## 5. Not modelled, and the plan

The map covers less than a tenth of the repository's lines. The greater part of the rest
holds no state that a model checker could explore:

- the example projects under `tutorial/` (agents, prompts, games and judges of the users), data
  readers, task generation and judges: data loading and prompting;
- numeric code (advantages, losses, statistics of rewards, `compute_string_madness`): floating point;
- tokenization, tool calls, multi-modal inputs, the responses adapter and the one-to-many proxy:
  formats. What tokenization means for training, masks and splits, is in `Timelines`;
- the terminal displays (overwatch, command line, beautified logs);
- configuration: reading and merging YAML;
- Ray, process trees, daemons, and the drivers of verl and other frameworks: external programs.

Hazards that no property catches, each with its reason in `PROJECT.json`:

- what the code does go wrong of, in the model: the record that a revert brings back (`swarm_server.py:163`), the
  BOOTING that a failed start leaves behind (`:524`), the report that comes after the end of its run
  (`trainer_verl.py:440`), a stop that misses a starting trainer (`swarm_server.py:509`), a registration
  that is repeated
  (`interchange_utils.py:332`), an agreement dropped for its age (`swarm_client.py:1109`), replicas asleep
  after a step of warm-up (`trainer_verl.py:751`). The properties except these (`ghost`, `latest`, `stray`,
  `MaxResend`, age, steps asleep), and so show that nothing else breaks them;
- what nothing in the code makes good: a worker's thread that ends on an exception (`single_worker.py:196`
  and `:213`), calls left unanswered by a service loop that has ended (`oai_model_client.py:173`), a group
  whose job always fails (`thread_executors.py:145`), which is the user's program's affair;
- what lies inside one step of a model: the janitor iterating a dictionary that threads change
  (`swarm_server.py:84`), and the unlocked reads inside `IterationSafeDict` (`async_utils.py:145`);
- the unlocked read and write of the agreement list with several server processes (`interchange_utils.py:240`).

Open, in this order:

1. the server with several processes, for the agreement list and the episode records;
2. `RolloutPool` composed with `SyncAgreement`, for the two client methods;
3. `rollout_static`, the benchmark with the trainer's own runners;
4. periodic draining of the executors, and the client's own start and stop of the engine;
5. proofs that the narrow places of section 2 fit: that a run of `SwarmServer` is, for one episode, what
   `EpisodeTracker` takes the record to do, and that `SyncAgreement` gives `RolloutPool` its answers.
