------------------------------ MODULE TrainerLoop ------------------------------
(***************************************************************************)
(* The training loop of the trainer (fit): a step collects a batch, over   *)
(* several rollouts if groups are filtered, updates the actor, saves a     *)
(* checkpoint, and publishes the new weights to the replicas that answer   *)
(* during the next rollout.  The process may die at any point, and the     *)
(* next one resumes from the last checkpoint.                              *)
(*                                                                         *)
(* A version of the weights is the number of updates it went through, and  *)
(* a prompt of a batch is the version of the weights that answered it.     *)
(* Saving, loading, publishing and putting replicas to sleep are verl's:   *)
(* here they do what fit relies on.  How a rollout goes is RolloutPool.    *)
(*                                                                         *)
(* A definition whose name begins with Bug is not part of the model: it is *)
(* the definition after it with a plausible mistake, kept to show which    *)
(* property notices.                                                       *)
(***************************************************************************)
EXTENDS Integers, Sequences

CONSTANTS
  TotalSteps,     \* total_training_steps
  Epochs,         \* total_epochs
  Batches,        \* len(train_dataloader)
  BatchSize,      \* train_batch_size: prompts of a batch
  SaveFreq,       \* save_freq, positive or not
  TestFreq,       \* test_freq, positive or not
  Warmups,        \* values of critic_warmup
  MaxGenBatches,  \* max_num_gen_batches; no limit unless positive
  MaxPrompts,     \* bound: prompts with something to learn in a rollout
  MaxCrashes      \* bound: how often the process dies

ASSUME TrainerAssumption ==
  /\ {TotalSteps, Epochs, Batches, BatchSize} \subseteq Nat \ {0}
  /\ {SaveFreq, TestFreq, MaxGenBatches} \subseteq Int
  /\ Warmups \subseteq Nat /\ Warmups # {}
  /\ {MaxPrompts, MaxCrashes} \subseteq Nat

VARIABLES
  config,       \* critic_warmup, filter_groups.enable and enable_swarm_mode
  pc,           \* where fit is
  step,         \* global_steps
  place,        \* the epoch, and the batches the dataloader has given in it
  batch,        \* the prompts of the batch so far
  numPrompts,   \* num_prompt_in_batch
  numGen,       \* num_gen_batches
  actor,        \* the version of the actor
  replicas,     \* the version that the replicas serve, and whether they are awake
  disk,         \* the last checkpoint: its step and its version of the actor
  crashes

loopVars == <<step, place, batch, numPrompts, numGen>>
vars == <<config, pc, loopVars, actor, replicas, disk, crashes>>

Places ==
  {"down", "step", "rolling", "rolled", "collected", "updated", "saved", "trained",
   "validated", "finished", "exhausted", "failed"}

\* Nothing has been saved: the model as it was.
NoCheckpoint == [step |-> 0, actor |-> 0]

WarmedUp == config.warmup <= step
IsLastStep == step >= TotalSteps
Every(freq) == freq > 0 /\ (IsLastStep \/ step % freq = 0)

TypeOK ==
  /\ config \in [warmup : Warmups, filter : BOOLEAN, swarm : BOOLEAN]
  /\ pc \in Places
  /\ step \in 0..(TotalSteps + 1 + MaxCrashes)
  /\ place \in [epoch : Nat, given : 0..Batches]
  /\ batch \in Seq(0..actor) /\ Len(batch) < BatchSize + MaxPrompts
  /\ numPrompts \in 0..(BatchSize + MaxPrompts)
  /\ numGen \in 0..(Epochs * Batches)
  /\ (MaxGenBatches > 0 => numGen <= MaxGenBatches)
  /\ actor \in 0..step
  /\ replicas \in [version : 0..actor, awake : BOOLEAN]
  /\ disk \in [step : Nat, actor : Nat]
  /\ crashes \in 0..MaxCrashes

Init ==
  /\ config \in [warmup : Warmups, filter : BOOLEAN, swarm : BOOLEAN]
  /\ pc = "down"
  /\ step = 0 /\ actor = 0
  /\ place = [epoch |-> 0, given |-> 0]
  /\ batch = <<>> /\ numPrompts = 0 /\ numGen = 0
  /\ replicas = [version |-> 0, awake |-> FALSE]
  /\ disk = NoCheckpoint
  /\ crashes = 0

-----------------------------------------------------------------------------

\* The weights are published before anything else, and the step after the one saved is
\* the next.  The epoch follows from the step; where in it the dataloader goes on is
\* verl's affair.
BugResume(given) ==
  /\ pc = "down"
  /\ pc' = "step"
  /\ step' = disk.step
  /\ place' = [epoch |-> disk.step \div Batches, given |-> given]
  /\ actor' = disk.actor
  /\ replicas' = [version |-> disk.actor, awake |-> TRUE]
  /\ UNCHANGED <<config, batch, numPrompts, numGen, disk, crashes>>
Resume(given) ==
  /\ pc = "down"
  /\ disk = NoCheckpoint => given = 0
  /\ pc' = "step"
  /\ step' = disk.step + 1
  /\ place' = [epoch |-> disk.step \div Batches, given |-> given]
  /\ actor' = disk.actor
  /\ replicas' = [version |-> disk.actor, awake |-> TRUE]
  /\ UNCHANGED <<config, batch, numPrompts, numGen, disk, crashes>>

\* ENGINE.ROLLING is posted.
BeginRollout ==
  /\ pc = "step"
  /\ place.epoch < Epochs /\ place.given < Batches
  /\ place' = [place EXCEPT !.given = @ + 1]
  /\ pc' = "rolling"
  /\ UNCHANGED <<config, step, batch, numPrompts, numGen, actor, replicas, disk, crashes>>

NextEpoch ==
  /\ pc = "step"
  /\ place.epoch < Epochs /\ place.given = Batches
  /\ place' = [epoch |-> place.epoch + 1, given |-> 0]
  /\ UNCHANGED <<config, pc, step, batch, numPrompts, numGen, actor, replicas, disk, crashes>>

\* The loop over the epochs ends before the last step: fit returns and saves nothing.
RunOut ==
  /\ pc = "step"
  /\ place.epoch >= Epochs
  /\ pc' = "exhausted"
  /\ UNCHANGED <<config, loopVars, actor, replicas, disk, crashes>>

\* The rollout brings n prompts to learn from (without the filter, n prompts), and
\* ENGINE.WEIGHT_SYNCING is posted.
Answers(n) == [i \in 1..n |-> replicas.version]

EndRollout(n) ==
  /\ pc = "rolling"
  /\ pc' = "rolled"
  /\ numGen' = numGen + 1
  /\ IF config.filter
     THEN batch' = batch \o Answers(n) /\ numPrompts' = numPrompts + n
     ELSE batch' = Answers(n) /\ UNCHANGED numPrompts
  /\ UNCHANGED <<config, step, place, actor, replicas, disk, crashes>>

TooFew == config.filter /\ numPrompts < BatchSize

KeepGenerating ==
  /\ pc = "rolled"
  /\ TooFew
  /\ MaxGenBatches <= 0 \/ numGen < MaxGenBatches
  /\ pc' = "step"
  /\ UNCHANGED <<config, loopVars, actor, replicas, disk, crashes>>

GeneratedTooMany ==
  /\ pc = "rolled"
  /\ TooFew
  /\ MaxGenBatches > 0 /\ numGen >= MaxGenBatches
  /\ pc' = "failed"
  /\ UNCHANGED <<config, loopVars, actor, replicas, disk, crashes>>

\* The batch is cut to size, and the replicas make room.
Align ==
  /\ pc = "rolled"
  /\ ~TooFew
  /\ batch' = SubSeq(batch, 1, IF Len(batch) < BatchSize THEN Len(batch) ELSE BatchSize)
  /\ replicas' = [replicas EXCEPT !.awake = FALSE]
  /\ pc' = "collected"
  /\ UNCHANGED <<config, step, place, numPrompts, numGen, actor, disk, crashes>>

UpdateActor ==
  /\ pc = "collected"
  /\ actor' = IF WarmedUp THEN actor + 1 ELSE actor
  /\ pc' = "updated"
  /\ UNCHANGED <<config, loopVars, replicas, disk, crashes>>

\* esi: the instance is about to expire.
SaveDue(esi) == WarmedUp /\ (Every(SaveFreq) \/ (SaveFreq > 0 /\ esi))

SaveCheckpoint ==
  /\ pc = "updated"
  /\ \E esi \in BOOLEAN :
       disk' = IF SaveDue(esi) THEN [step |-> step, actor |-> actor] ELSE disk
  /\ pc' = "saved"
  /\ UNCHANGED <<config, loopVars, actor, replicas, crashes>>

BugUpdateWeights ==
  /\ pc = "saved"
  /\ replicas' = IF Every(SaveFreq) THEN [version |-> actor, awake |-> TRUE] ELSE replicas
  /\ pc' = "trained"
  /\ UNCHANGED <<config, loopVars, actor, disk, crashes>>
UpdateWeights ==
  /\ pc = "saved"
  /\ replicas' = IF WarmedUp THEN [version |-> actor, awake |-> TRUE] ELSE replicas
  /\ pc' = "trained"
  /\ UNCHANGED <<config, loopVars, actor, disk, crashes>>

\* Validation ends by publishing the weights again.
Validate ==
  /\ pc = "trained"
  /\ replicas' = IF Every(TestFreq) /\ ~config.swarm
                 THEN [version |-> actor, awake |-> TRUE] ELSE replicas
  /\ pc' = "validated"
  /\ UNCHANGED <<config, loopVars, actor, disk, crashes>>

\* The bugs: the batch, or one of its counters, goes on into the next step.
BugNewBatch == UNCHANGED batch /\ numPrompts' = 0 /\ numGen' = 0
BugNewGen == batch' = <<>> /\ numPrompts' = 0 /\ UNCHANGED numGen
BugNewCount == batch' = <<>> /\ UNCHANGED numPrompts /\ numGen' = 0
NewBatch == batch' = <<>> /\ numPrompts' = 0 /\ numGen' = 0

EndStep ==
  /\ pc = "validated"
  /\ NewBatch
  /\ step' = step + 1
  /\ pc' = IF IsLastStep THEN "finished" ELSE "step"
  /\ UNCHANGED <<config, place, actor, replicas, disk, crashes>>

\* The process is killed or dies of an exception, and will be started again.
Crash ==
  /\ pc \notin {"down", "finished", "exhausted"}
  /\ crashes < MaxCrashes
  /\ crashes' = crashes + 1
  /\ pc' = "down"
  /\ step' = 0 /\ actor' = 0
  /\ place' = [epoch |-> 0, given |-> 0]
  /\ batch' = <<>> /\ numPrompts' = 0 /\ numGen' = 0
  /\ replicas' = [version |-> 0, awake |-> FALSE]
  /\ UNCHANGED <<config, disk>>

Step ==
  \/ \E given \in 0..Batches : Resume(given)
  \/ BeginRollout \/ NextEpoch \/ RunOut
  \/ \E n \in 0..MaxPrompts : EndRollout(n)
  \/ KeepGenerating \/ GeneratedTooMany \/ Align
  \/ UpdateActor \/ SaveCheckpoint \/ UpdateWeights \/ Validate \/ EndStep

Next == Step \/ Crash

Spec == Init /\ [][Next]_vars

-----------------------------------------------------------------------------
(* Properties *)

\* The batch is on policy: every answer the actor is updated on was given by weights of
\* the actor's own version, although the batch may come from several rollouts, and
\* crashes and warm-up steps lie between them.
OnPolicy ==
  [][actor' > actor /\ pc = "collected" => \A i \in DOMAIN batch : batch[i] = actor]_vars

\* A batch that is filtered is full when the actor is updated on it.
BatchFull == config.filter /\ pc = "collected" => Len(batch) = BatchSize

\* Steps and weights keep pace, across any number of restarts: at the beginning of a
\* step the actor has been updated once for every step before it that was warmed up,
\* and so it had been when the checkpoint was saved.  No step is lost or done twice, and a
\* training that comes to its last step leaves its final weights in the checkpoint.
UpdatesFrom(warmup, n) ==
  LET first == IF warmup = 0 THEN 1 ELSE warmup
  IN  IF n < first THEN 0 ELSE n - first + 1
Updates(n) == UpdatesFrom(config.warmup, n)

StepsMatchWeights ==
  /\ pc \in {"step", "rolling", "rolled", "collected"} => actor = Updates(step - 1)
  /\ disk.actor = Updates(disk.step)
  /\ pc = "finished" /\ SaveFreq > 0 => disk.actor = actor

\* Answers come from the newest weights: during a rollout, and during validation, the
\* replicas serve the actor's version, and they are awake, unless the step before was
\* one of warm-up, which puts them to sleep and does not wake them.
ServesNewest ==
  /\ pc \in {"rolling", "trained"} => replicas.version = actor
  /\ pc = "rolling" => replicas.awake \/ step <= config.warmup

==============================================================================
