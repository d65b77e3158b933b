--------------------------- MODULE TrainerLoopProofs ---------------------------
(***************************************************************************)
(* Theorems about TrainerLoop, for every number of steps, epochs and       *)
(* crashes, every size of batch and rollout, and all frequencies.          *)
(***************************************************************************)
EXTENDS TrainerLoop, SequenceTheorems, TLAPS

\* Where a batch is being gathered, and where the step is yet to be updated on it.
Gathering == {"step", "rolling", "rolled"}
BeforeUpdate == Gathering \union {"collected"}
AfterUpdate == {"updated", "saved", "trained", "validated"}

-----------------------------------------------------------------------------
(* The inductive invariant *)

Types ==
  /\ config \in [warmup : Warmups, filter : BOOLEAN, swarm : BOOLEAN]
  /\ pc \in Places
  /\ step \in Nat
  /\ place \in [epoch : Nat, given : 0..Batches]
  /\ batch \in Seq(Nat)
  /\ numPrompts \in Nat
  /\ numGen \in Nat
  /\ actor \in Nat
  /\ replicas \in [version : Nat, awake : BOOLEAN]
  /\ disk \in [step : Nat, actor : Nat]
  /\ crashes \in 0..MaxCrashes

\* The batch and its counters go together.
Gathered ==
  /\ Len(batch) < BatchSize + MaxPrompts
  /\ numPrompts < BatchSize + MaxPrompts
  /\ pc \in Gathering /\ config.filter => Len(batch) = numPrompts
  /\ pc \in {"step", "rolling"} => numPrompts < BatchSize
  /\ ~config.filter => numPrompts = 0
  /\ pc = "down" => batch = <<>> /\ numPrompts = 0 /\ numGen = 0
  /\ BatchFull

\* No prompt is of another version than the actor's, until the actor is updated.
Fresh ==
  /\ \A i \in 1..Len(batch) : batch[i] <= actor
  /\ pc \in BeforeUpdate => \A i \in 1..Len(batch) : batch[i] = actor

\* The replicas serve the actor's version unless it has been updated and is not yet
\* published, and they are put to sleep only while the step goes on to wake them, or by
\* a step of warm-up.
Served ==
  /\ replicas.version <= actor
  /\ pc \notin {"updated", "saved"} => replicas.version = actor
  /\ pc \in {"updated", "saved"} => WarmedUp \/ replicas.version = actor
  /\ pc \in Gathering => replicas.awake \/ step <= config.warmup
  /\ pc \in {"trained", "validated"} => replicas.awake \/ step < config.warmup

\* Steps, weights and checkpoints keep pace, and no step is far beyond the last.
Paced ==
  /\ pc \in BeforeUpdate => step >= 1 /\ actor = Updates(step - 1)
  /\ pc \in AfterUpdate => actor = Updates(step)
  /\ disk.actor = Updates(disk.step)
  /\ pc \in BeforeUpdate \union {"updated"} => disk.step < step
  /\ pc \in {"saved", "trained", "validated"} => disk.step <= step
  /\ pc \in AfterUpdate => step >= 1
  /\ actor <= step
  /\ pc # "finished" => step <= TotalSteps + crashes
  /\ pc = "finished" => step <= TotalSteps + crashes + 1
  /\ disk.step <= TotalSteps + crashes
  /\ pc = "down" => disk.step = 0 \/ disk.step < TotalSteps + crashes

\* The rollouts of a step are among the batches the dataloader has given.
Counted ==
  /\ numGen <= Epochs * Batches
  /\ MaxGenBatches > 0 => numGen <= MaxGenBatches
  /\ pc \in {"step", "rolling"} /\ MaxGenBatches > 0 => numGen < MaxGenBatches
  /\ pc # "rolling" => numGen <= place.epoch * Batches + place.given
  /\ pc = "rolling" => /\ place.epoch < Epochs
                       /\ numGen + 1 <= place.epoch * Batches + place.given

\* What the last step leaves behind.
Saved ==
  pc \in {"saved", "trained", "validated", "finished"} /\ SaveFreq > 0
    => (pc = "finished" \/ IsLastStep => disk.actor = actor)

IInv == Types /\ Gathered /\ Fresh /\ Served /\ Paced /\ Counted /\ Saved

-----------------------------------------------------------------------------
(* Lemmas *)

LEMMA Constants ==
  /\ TotalSteps \in Nat /\ TotalSteps > 0
  /\ Epochs \in Nat /\ Batches \in Nat /\ Batches > 0
  /\ BatchSize \in Nat /\ BatchSize > 0
  /\ SaveFreq \in Int /\ MaxGenBatches \in Int
  /\ MaxPrompts \in Nat /\ MaxCrashes \in Nat
BY TrainerAssumption

LEMMA ConfigTypes ==
  ASSUME Types
  PROVE  config.warmup \in Nat /\ config.filter \in BOOLEAN
BY TrainerAssumption DEF Types

\* The same as Types, for use in arithmetic.
LEMMA Fields ==
  ASSUME Types
  PROVE  /\ config.warmup \in Nat
         /\ place.epoch \in Nat /\ place.given \in Nat /\ place.given <= Batches
         /\ replicas.version \in Nat
         /\ disk.step \in Nat /\ disk.actor \in Nat
         /\ Len(batch) \in Nat /\ numPrompts \in Nat /\ numGen \in Nat
         /\ step \in Nat /\ actor \in Nat
         /\ crashes \in Nat /\ crashes <= MaxCrashes
<1>1. place \in [epoch : Nat, given : 0..Batches]
  BY DEF Types
<1>2. place.epoch \in Nat /\ place.given \in 0..Batches
  BY <1>1
<1>3. place.given \in Nat /\ place.given <= Batches
  BY <1>2, Constants
<1>4. crashes \in Nat /\ crashes <= MaxCrashes
  BY Constants DEF Types
<1>5. /\ replicas.version \in Nat
      /\ disk.step \in Nat /\ disk.actor \in Nat
      /\ Len(batch) \in Nat /\ numPrompts \in Nat /\ numGen \in Nat
      /\ step \in Nat /\ actor \in Nat
  BY DEF Types
<1> QED
  BY <1>2, <1>3, <1>4, <1>5, ConfigTypes

LEMMA DivNat ==
  ASSUME NEW a \in Nat, NEW b \in Nat, b > 0
  PROVE  a \div b \in Nat
OBVIOUS

\* What a rollout adds to a batch.
LEMMA AnswersAre ==
  ASSUME NEW n \in Nat, Types
  PROVE  /\ Answers(n) \in Seq(Nat)
         /\ Len(Answers(n)) = n
         /\ \A i \in 1..n : Answers(n)[i] = replicas.version
BY DEF Answers, Types

LEMMA AnswersAdded ==
  ASSUME NEW n \in Nat, Types
  PROVE  /\ batch \o Answers(n) \in Seq(Nat)
         /\ Len(batch \o Answers(n)) = Len(batch) + n
         /\ \A i \in 1..(Len(batch) + n) :
              (batch \o Answers(n))[i] = IF i <= Len(batch) THEN batch[i]
                                                            ELSE replicas.version
<1>1. batch \in Seq(Nat)
  BY DEF Types
<1>2. /\ Answers(n) \in Seq(Nat)
      /\ Len(Answers(n)) = n
      /\ \A i \in 1..n : Answers(n)[i] = replicas.version
  BY AnswersAre
<1>3. /\ batch \o Answers(n) \in Seq(Nat)
      /\ Len(batch \o Answers(n)) = Len(batch) + n
      /\ \A i \in 1..(Len(batch) + n) :
           (batch \o Answers(n))[i] = IF i <= Len(batch) THEN batch[i]
                                                         ELSE Answers(n)[i - Len(batch)]
  BY <1>1, <1>2, ConcatProperties
<1>4. ASSUME NEW i \in 1..(Len(batch) + n), ~ (i <= Len(batch))
      PROVE  Answers(n)[i - Len(batch)] = replicas.version
  <2>1. i - Len(batch) \in 1..n
    BY <1>1, <1>4
  <2> QED
    BY <1>2, <2>1
<1> QED
  BY <1>3, <1>4

\* What cutting a batch to size leaves.
Cut == SubSeq(batch, 1, IF Len(batch) < BatchSize THEN Len(batch) ELSE BatchSize)

LEMMA CutIs ==
  ASSUME Types
  PROVE  /\ Cut \in Seq(Nat)
         /\ Len(Cut) = IF Len(batch) < BatchSize THEN Len(batch) ELSE BatchSize
         /\ \A i \in 1..Len(Cut) : i \in 1..Len(batch) /\ Cut[i] = batch[i]
<1> DEFINE m == IF Len(batch) < BatchSize THEN Len(batch) ELSE BatchSize
<1>1. batch \in Seq(Nat) /\ m \in Nat /\ m <= Len(batch)
  BY Constants DEF Types
<1>2. \A i \in 1..m : i \in 1..Len(batch) /\ batch[i] \in Nat
  BY <1>1
<1>3. /\ SubSeq(batch, 1, m) \in Seq(Nat)
      /\ Len(SubSeq(batch, 1, m)) = m
      /\ \A i \in 1..m : SubSeq(batch, 1, m)[i] = batch[i]
  <2>1. \A i \in 1..m : batch[i] \in Nat
    BY <1>2
  <2> QED
    BY <1>1, <2>1, SubSeqProperties
<1> QED
  BY <1>1, <1>2, <1>3 DEF Cut

-----------------------------------------------------------------------------
(* Every step keeps every part of the invariant *)

LEMMA TypesKept ==
  ASSUME Types, [Next]_vars
  PROVE  Types'
<1>1. ASSUME NEW given \in 0..Batches, Resume(given)
      PROVE  Types'
  <2>1. disk.step \div Batches \in Nat
    BY Constants, Fields, DivNat
  <2>2. place' \in [epoch : Nat, given : 0..Batches]
    BY <1>1, <2>1 DEF Resume
  <2>3. step' \in Nat /\ actor' \in Nat
    BY <1>1, Fields DEF Resume
  <2>4. pc' \in Places /\ replicas' \in [version : Nat, awake : BOOLEAN]
    BY <1>1, Fields DEF Resume, Places
  <2>5. UNCHANGED <<config, batch, numPrompts, numGen, disk, crashes>>
    BY <1>1 DEF Resume
  <2> QED
    BY <2>2, <2>3, <2>4, <2>5 DEF Types
<1>2. CASE BeginRollout
  <2>0. place.given < Batches
    BY <1>2 DEF BeginRollout
  <2>1. place.given + 1 \in 0..Batches
    <3>1. place.given \in Nat
      BY Fields
    <3> QED
      BY <2>0, <3>1, Constants
  <2>2. place' \in [epoch : Nat, given : 0..Batches]
    BY <1>2, <2>1 DEF BeginRollout, Types
  <2> QED
    BY <1>2, <2>2 DEF BeginRollout, Types, Places
<1>3. CASE NextEpoch
  BY <1>3 DEF NextEpoch, Types, Places, loopVars
<1>4. CASE RunOut
  BY <1>4 DEF RunOut, Types, Places, loopVars
<1>5. ASSUME NEW n \in 0..MaxPrompts, EndRollout(n)
      PROVE  Types'
  <2>1. n \in Nat
    BY Constants
  <2>2. CASE config.filter
    <3>1. batch' = batch \o Answers(n) /\ numPrompts' = numPrompts + n
      BY <1>5, <2>2 DEF EndRollout
    <3>2. batch' \in Seq(Nat)
      BY <2>1, <3>1, AnswersAdded
    <3>3. numPrompts' \in Nat
      BY <2>1, <3>1, Fields
    <3> QED
      BY <1>5, <3>2, <3>3 DEF EndRollout, Types, Places
  <2>3. CASE ~ config.filter
    <3>1. batch' = Answers(n) /\ numPrompts' = numPrompts
      BY <1>5, <2>3 DEF EndRollout
    <3>2. batch' \in Seq(Nat)
      BY <2>1, <3>1, AnswersAre
    <3> QED
      BY <1>5, <3>1, <3>2 DEF EndRollout, Types, Places
  <2> QED
    BY <2>2, <2>3
<1>6. CASE KeepGenerating
  BY <1>6 DEF KeepGenerating, TooFew, Types, Places, loopVars
<1>7. CASE GeneratedTooMany
  BY <1>7 DEF GeneratedTooMany, Types, Places, loopVars
<1>8. CASE Align
  <2>1. batch' \in Seq(Nat)
    BY <1>8, CutIs DEF Align, Cut
  <2> QED
    BY <1>8, <2>1 DEF Align, Types, Places
<1>9. CASE UpdateActor
  BY <1>9 DEF UpdateActor, WarmedUp, Types, Places, loopVars
<1>10. CASE SaveCheckpoint
  BY <1>10 DEF SaveCheckpoint, Types, Places, loopVars
<1>11. CASE UpdateWeights
  BY <1>11 DEF UpdateWeights, WarmedUp, Types, Places, loopVars
<1>12. CASE Validate
  BY <1>12 DEF Validate, Types, Places, loopVars
<1>13. CASE EndStep
  BY <1>13 DEF EndStep, NewBatch, Types, Places, loopVars
<1>14. CASE Crash
  <2>1. crashes < MaxCrashes /\ crashes' = crashes + 1
    BY <1>14 DEF Crash
  <2>2. crashes' \in 0..MaxCrashes
    BY <2>1, Constants, Fields
  <2>3. /\ step' = 0 /\ actor' = 0 /\ batch' = <<>> /\ numPrompts' = 0 /\ numGen' = 0
        /\ place' = [epoch |-> 0, given |-> 0]
        /\ replicas' = [version |-> 0, awake |-> FALSE]
        /\ pc' = "down" /\ UNCHANGED <<config, disk>>
    BY <1>14 DEF Crash
  <2>4. /\ place' \in [epoch : Nat, given : 0..Batches]
        /\ replicas' \in [version : Nat, awake : BOOLEAN]
    BY <2>3, Constants
  <2>5. batch' \in Seq(Nat)
    BY <2>3
  <2> QED
    BY <2>2, <2>3, <2>4, <2>5 DEF Types, Places
<1>15. CASE UNCHANGED vars
  BY <1>15 DEF vars, Types, Places, loopVars
<1> QED
  BY <1>1, <1>2, <1>3, <1>4, <1>5, <1>6, <1>7, <1>8, <1>9, <1>10,
     <1>11, <1>12, <1>13, <1>14, <1>15 DEF Next, Step

LEMMA GatheredKept ==
  ASSUME Types, Gathered, [Next]_vars
  PROVE  Gathered'
<1>1. ASSUME NEW given \in 0..Batches, Resume(given)
      PROVE  Gathered'
  BY <1>1, Constants, Fields DEF Resume, Gathered, BatchFull, Gathering, loopVars
<1>2. CASE BeginRollout
  BY <1>2, Constants, Fields DEF BeginRollout, Gathered, BatchFull, Gathering, loopVars
<1>3. CASE NextEpoch
  BY <1>3, Constants, Fields DEF NextEpoch, Gathered, BatchFull, Gathering, loopVars
<1>4. CASE RunOut
  BY <1>4, Constants, Fields DEF RunOut, Gathered, BatchFull, Gathering, loopVars
<1>5. ASSUME NEW n \in 0..MaxPrompts, EndRollout(n)
      PROVE  Gathered'
  <2>1. n \in Nat /\ n <= MaxPrompts /\ pc = "rolling" /\ pc' = "rolled" /\ config' = config
    BY <1>5, Constants DEF EndRollout
  <2>2. CASE config.filter
    <3>1. numPrompts' = numPrompts + n /\ Len(batch') = Len(batch) + n
      BY <1>5, <2>1, <2>2, AnswersAdded DEF EndRollout
    <3>2. Len(batch) = numPrompts /\ numPrompts < BatchSize
      BY <2>1, <2>2 DEF Gathered, Gathering
    <3> QED
      BY <2>1, <2>2, <3>1, <3>2, Constants, Fields DEF Gathered, BatchFull
  <2>3. CASE ~ config.filter
    <3>1. numPrompts' = numPrompts /\ Len(batch') = n
      BY <1>5, <2>1, <2>3, AnswersAre DEF EndRollout
    <3> QED
      BY <2>1, <2>3, <3>1, Constants, Fields DEF Gathered, BatchFull
  <2> QED
    BY <2>2, <2>3
<1>6. CASE KeepGenerating
  BY <1>6, Constants, Fields
     DEF KeepGenerating, TooFew, Gathered, BatchFull, Gathering, loopVars
<1>7. CASE GeneratedTooMany
  BY <1>7, Constants, Fields DEF GeneratedTooMany, Gathered, BatchFull, Gathering, loopVars
<1>8. CASE Align
  <2>1. Len(batch') = IF Len(batch) < BatchSize THEN Len(batch) ELSE BatchSize
    BY <1>8, CutIs DEF Align, Cut
  <2>2. pc = "rolled" /\ pc' = "collected" /\ config' = config /\ numPrompts' = numPrompts
    BY <1>8 DEF Align
  <2>3. ASSUME config.filter PROVE Len(batch) = numPrompts /\ numPrompts >= BatchSize
    BY <1>8, <2>2, <2>3, Constants, Fields DEF Align, TooFew, Gathered, Gathering
  <2> QED
    BY <2>1, <2>2, <2>3, Constants, Fields DEF Gathered, BatchFull, Gathering
<1>9. CASE UpdateActor
  BY <1>9, Constants, Fields
     DEF UpdateActor, WarmedUp, Gathered, BatchFull, Gathering, loopVars
<1>10. CASE SaveCheckpoint
  BY <1>10, Constants, Fields DEF SaveCheckpoint, Gathered, BatchFull, Gathering, loopVars
<1>11. CASE UpdateWeights
  BY <1>11, Constants, Fields
     DEF UpdateWeights, WarmedUp, Gathered, BatchFull, Gathering, loopVars
<1>12. CASE Validate
  BY <1>12, Constants, Fields DEF Validate, Gathered, BatchFull, Gathering, loopVars
<1>13. CASE EndStep
  BY <1>13, Constants, Fields
     DEF EndStep, NewBatch, Gathered, BatchFull, Gathering, loopVars
<1>14. CASE Crash
  BY <1>14, Constants, Fields DEF Crash, Gathered, BatchFull, Gathering, loopVars
<1>15. CASE UNCHANGED vars
  BY <1>15 DEF vars, Gathered, BatchFull, Gathering, loopVars
<1> QED
  BY <1>1, <1>2, <1>3, <1>4, <1>5, <1>6, <1>7, <1>8, <1>9, <1>10,
     <1>11, <1>12, <1>13, <1>14, <1>15 DEF Next, Step

LEMMA ServedKept ==
  ASSUME Types, Served, [Next]_vars
  PROVE  Served'
<1>1. ASSUME NEW given \in 0..Batches, Resume(given)
      PROVE  Served'
  BY <1>1, Fields DEF Resume, Served, Gathering, WarmedUp, loopVars
<1>2. CASE BeginRollout
  BY <1>2, Fields DEF BeginRollout, Served, Gathering, WarmedUp, loopVars
<1>3. CASE NextEpoch
  BY <1>3, Fields DEF NextEpoch, Served, Gathering, WarmedUp, loopVars
<1>4. CASE RunOut
  BY <1>4, Fields DEF RunOut, Served, Gathering, WarmedUp, loopVars
<1>5. ASSUME NEW n \in 0..MaxPrompts, EndRollout(n)
      PROVE  Served'
  BY <1>5, Fields DEF EndRollout, Served, Gathering, WarmedUp, loopVars
<1>6. CASE KeepGenerating
  BY <1>6, Fields DEF KeepGenerating, TooFew, Served, Gathering, WarmedUp, loopVars
<1>7. CASE GeneratedTooMany
  BY <1>7, Fields DEF GeneratedTooMany, Served, Gathering, WarmedUp, loopVars
<1>8. CASE Align
  BY <1>8, Fields DEF Align, Served, Gathering, WarmedUp, loopVars
<1>9. CASE UpdateActor
  BY <1>9, Fields DEF UpdateActor, Served, Gathering, WarmedUp, loopVars
<1>10. CASE SaveCheckpoint
  BY <1>10, Fields DEF SaveCheckpoint, Served, Gathering, WarmedUp, loopVars
<1>11. CASE UpdateWeights
  BY <1>11, Fields DEF UpdateWeights, Served, Gathering, WarmedUp, loopVars
<1>12. CASE Validate
  BY <1>12, Fields DEF Validate, Served, Gathering, WarmedUp, loopVars
<1>13. CASE EndStep
  <2>1. CASE IsLastStep
    BY <1>13, <2>1, Fields DEF EndStep, Served, Gathering, WarmedUp, loopVars
  <2>2. CASE ~ IsLastStep
    BY <1>13, <2>2, Fields DEF EndStep, Served, Gathering, WarmedUp, loopVars
  <2> QED
    BY <2>1, <2>2
<1>14. CASE Crash
  BY <1>14, Fields DEF Crash, Served, Gathering, WarmedUp, loopVars
<1>15. CASE UNCHANGED vars
  BY <1>15 DEF vars, Served, Gathering, WarmedUp, loopVars
<1> QED
  BY <1>1, <1>2, <1>3, <1>4, <1>5, <1>6, <1>7, <1>8, <1>9, <1>10,
     <1>11, <1>12, <1>13, <1>14, <1>15 DEF Next, Step

LEMMA FreshKept ==
  ASSUME Types, Gathered, Served, Fresh, [Next]_vars
  PROVE  Fresh'
<1>1. ASSUME NEW given \in 0..Batches, Resume(given)
      PROVE  Fresh'
  <2>1. batch' = <<>> /\ Len(batch') = 0
    BY <1>1 DEF Resume, Gathered
  <2> QED
    BY <2>1 DEF Fresh
<1>2. CASE BeginRollout
  BY <1>2, Fields DEF BeginRollout, Fresh, BeforeUpdate, Gathering, loopVars
<1>3. CASE NextEpoch
  BY <1>3, Fields DEF NextEpoch, Fresh, BeforeUpdate, Gathering, loopVars
<1>4. CASE RunOut
  BY <1>4, Fields DEF RunOut, Fresh, BeforeUpdate, Gathering, loopVars
<1>5. ASSUME NEW n \in 0..MaxPrompts, EndRollout(n)
      PROVE  Fresh'
  <2>1. n \in Nat /\ pc = "rolling" /\ pc' = "rolled" /\ actor' = actor
    BY <1>5, Constants DEF EndRollout
  <2>2. replicas.version = actor /\ \A i \in 1..Len(batch) : batch[i] = actor
    BY <2>1 DEF Served, Fresh, BeforeUpdate, Gathering
  <2>3. \A i \in 1..Len(batch') : batch'[i] = actor
    <3>1. CASE config.filter
      <4>1. batch' = batch \o Answers(n)
        BY <1>5, <3>1 DEF EndRollout
      <4>2. /\ Len(batch') = Len(batch) + n
            /\ \A i \in 1..(Len(batch) + n) :
                 batch'[i] = IF i <= Len(batch) THEN batch[i] ELSE replicas.version
        BY <2>1, <4>1, AnswersAdded
      <4> QED
        BY <2>1, <2>2, <4>2, Fields
    <3>2. CASE ~ config.filter
      BY <1>5, <2>1, <2>2, <3>2, AnswersAre DEF EndRollout
    <3> QED
      BY <3>1, <3>2
  <2> QED
    BY <2>1, <2>3, Fields DEF Fresh
<1>6. CASE KeepGenerating
  BY <1>6, Fields DEF KeepGenerating, TooFew, Fresh, BeforeUpdate, Gathering, loopVars
<1>7. CASE GeneratedTooMany
  BY <1>7, Fields DEF GeneratedTooMany, Fresh, BeforeUpdate, Gathering, loopVars
<1>8. CASE Align
  <2>1. /\ pc = "rolled" /\ actor' = actor
        /\ \A i \in 1..Len(batch') : i \in 1..Len(batch) /\ batch'[i] = batch[i]
    BY <1>8, CutIs DEF Align, Cut
  <2>2. \A i \in 1..Len(batch) : batch[i] = actor
    BY <2>1 DEF Fresh, BeforeUpdate, Gathering
  <2>3. \A i \in 1..Len(batch') : batch'[i] = actor
    BY <2>1, <2>2
  <2> QED
    BY <2>1, <2>3, Fields DEF Fresh
<1>9. CASE UpdateActor
  <2>1. batch' = batch /\ pc' = "updated" /\ actor' >= actor
    BY <1>9, Fields DEF UpdateActor, loopVars
  <2>2. actor' \in Nat
    BY <1>9, Fields DEF UpdateActor
  <2>3. ASSUME NEW i \in 1..Len(batch) PROVE batch[i] <= actor'
    <3>1. batch[i] <= actor /\ batch[i] \in Nat
      BY DEF Fresh, Types
    <3> QED
      BY <2>1, <2>2, <3>1, Fields
  <2> QED
    BY <2>1, <2>3 DEF Fresh, BeforeUpdate, Gathering
<1>10. CASE SaveCheckpoint
  BY <1>10, Fields DEF SaveCheckpoint, Fresh, BeforeUpdate, Gathering, loopVars
<1>11. CASE UpdateWeights
  BY <1>11, Fields DEF UpdateWeights, WarmedUp, Fresh, BeforeUpdate, Gathering, loopVars
<1>12. CASE Validate
  BY <1>12, Fields DEF Validate, Fresh, BeforeUpdate, Gathering, loopVars
<1>13. CASE EndStep
  <2>1. batch' = <<>> /\ Len(batch') = 0
    BY <1>13 DEF EndStep, NewBatch
  <2> QED
    BY <2>1 DEF Fresh
<1>14. CASE Crash
  <2>1. batch' = <<>> /\ Len(batch') = 0
    BY <1>14 DEF Crash
  <2> QED
    BY <2>1 DEF Fresh
<1>15. CASE UNCHANGED vars
  BY <1>15 DEF vars, Fresh, BeforeUpdate, Gathering, loopVars
<1> QED
  BY <1>1, <1>2, <1>3, <1>4, <1>5, <1>6, <1>7, <1>8, <1>9, <1>10,
     <1>11, <1>12, <1>13, <1>14, <1>15 DEF Next, Step

\* One step more is one update more, once warmed up.
LEMMA OneMore ==
  ASSUME NEW w \in Nat, NEW n \in Nat, n >= 1
  PROVE  UpdatesFrom(w, n) = IF w <= n THEN UpdatesFrom(w, n - 1) + 1 ELSE UpdatesFrom(w, n - 1)
BY DEF UpdatesFrom

LEMMA UpdatesBounded ==
  ASSUME NEW w \in Nat, NEW n \in Nat
  PROVE  UpdatesFrom(w, n) \in Nat /\ UpdatesFrom(w, n) <= n
BY DEF UpdatesFrom

LEMMA PacedKept ==
  ASSUME Types, Paced, [Next]_vars
  PROVE  Paced'
<1>1. ASSUME NEW given \in 0..Batches, Resume(given)
      PROVE  Paced'
  <2>1. step' - 1 = disk.step /\ actor' = disk.actor /\ UNCHANGED <<config, disk, crashes>>
    BY <1>1, Fields DEF Resume
  <2>2. disk.actor = UpdatesFrom(config.warmup, disk.step)
    BY DEF Paced, Updates
  <2>3. disk.actor <= disk.step
    BY <2>2, UpdatesBounded, Fields
  <2>4. pc = "down" /\ pc' = "step" /\ step' = disk.step + 1
    BY <1>1 DEF Resume
  <2>5. disk.step + 1 <= TotalSteps + crashes
    BY <2>4, Fields, Constants DEF Paced
  <2>6. /\ actor' = UpdatesFrom(config'.warmup, step' - 1)
        /\ disk'.actor = UpdatesFrom(config'.warmup, disk'.step)
    BY <2>1, <2>2
  <2>7. disk' = disk /\ step' >= 1 /\ disk'.step < step'
    BY <2>1, <2>4, Fields
  <2>10. actor' <= step'
    BY <2>1, <2>3, <2>4, Fields
  <2>9. step' <= TotalSteps + crashes'
    BY <2>1, <2>4, <2>5
  <2>8. disk'.step <= TotalSteps + crashes'
    BY <2>1, <2>5, Fields, Constants
  <2> QED
    BY <2>4, <2>6, <2>7, <2>8, <2>9, <2>10
       DEF Paced, BeforeUpdate, AfterUpdate, Gathering, Updates, loopVars
<1>2. CASE BeginRollout
  BY <1>2, Fields, Constants
     DEF BeginRollout, Paced, BeforeUpdate, AfterUpdate, Gathering, Updates, loopVars
<1>3. CASE NextEpoch
  BY <1>3, Fields, Constants
     DEF NextEpoch, Paced, BeforeUpdate, AfterUpdate, Gathering, Updates, loopVars
<1>4. CASE RunOut
  BY <1>4, Fields, Constants
     DEF RunOut, Paced, BeforeUpdate, AfterUpdate, Gathering, Updates, loopVars
<1>5. ASSUME NEW n \in 0..MaxPrompts, EndRollout(n)
      PROVE  Paced'
  BY <1>5, Fields, Constants
     DEF EndRollout, Paced, BeforeUpdate, AfterUpdate, Gathering, Updates, loopVars
<1>6. CASE KeepGenerating
  BY <1>6, Fields, Constants
     DEF KeepGenerating, TooFew, Paced, BeforeUpdate, AfterUpdate, Gathering, Updates, loopVars
<1>7. CASE GeneratedTooMany
  BY <1>7, Fields, Constants
     DEF GeneratedTooMany, Paced, BeforeUpdate, AfterUpdate, Gathering, Updates, loopVars
<1>8. CASE Align
  BY <1>8, Fields, Constants
     DEF Align, Paced, BeforeUpdate, AfterUpdate, Gathering, Updates, loopVars
<1>9. CASE UpdateActor
  <2>1. pc = "collected" /\ pc' = "updated" /\ UNCHANGED <<config, step, disk, crashes>>
    BY <1>9 DEF UpdateActor, loopVars
  <2>2. step >= 1 /\ actor = UpdatesFrom(config.warmup, step - 1)
    BY <2>1 DEF Paced, BeforeUpdate, AfterUpdate, Gathering, Updates, loopVars
  <2>3. actor' = UpdatesFrom(config.warmup, step)
    <3>1. actor' = IF config.warmup <= step THEN actor + 1 ELSE actor
      BY <1>9 DEF UpdateActor, WarmedUp
    <3> QED
      BY <2>2, <3>1, OneMore, Fields
  <2>4. actor' <= step
    BY <2>3, UpdatesBounded, Fields
  <2> QED
    BY <2>1, <2>2, <2>3, <2>4, Fields
       DEF Paced, BeforeUpdate, AfterUpdate, Gathering, Updates, loopVars
<1>10. CASE SaveCheckpoint
  <2>1. pc = "updated" /\ pc' = "saved" /\ UNCHANGED <<config, step, actor, crashes>>
    BY <1>10 DEF SaveCheckpoint, loopVars
  <2>2. /\ actor = UpdatesFrom(config.warmup, step) /\ step >= 1
        /\ step <= TotalSteps + crashes /\ disk.step < step
    BY <2>1 DEF Paced, BeforeUpdate, AfterUpdate, Gathering, Updates, loopVars
  <2>3. disk' = disk \/ disk' = [step |-> step, actor |-> actor]
    BY <1>10 DEF SaveCheckpoint
  <2>4. /\ disk'.actor = UpdatesFrom(config.warmup, disk'.step)
        /\ disk'.step <= step /\ disk'.step <= TotalSteps + crashes
    <3>1. CASE disk' = disk
      BY <2>2, <3>1, Fields, Constants DEF Paced, Updates
    <3>2. CASE disk' = [step |-> step, actor |-> actor]
      BY <2>2, <3>2, Fields
    <3> QED
      BY <2>3, <3>1, <3>2
  <2> QED
    BY <2>1, <2>2, <2>4 DEF Paced, BeforeUpdate, AfterUpdate, Gathering, Updates, loopVars
<1>11. CASE UpdateWeights
  BY <1>11, Fields, Constants
     DEF UpdateWeights, WarmedUp, Paced, BeforeUpdate, AfterUpdate, Gathering, Updates, loopVars
<1>12. CASE Validate
  BY <1>12, Fields, Constants
     DEF Validate, Paced, BeforeUpdate, AfterUpdate, Gathering, Updates, loopVars
<1>13. CASE EndStep
  <2>1. /\ pc = "validated" /\ step' = step + 1 /\ UNCHANGED <<config, actor, disk, crashes>>
    BY <1>13 DEF EndStep
  <2>2. pc' = "finished" \/ (pc' = "step" /\ step < TotalSteps)
    BY <1>13, Fields, Constants DEF EndStep, IsLastStep
  <2>3. /\ actor = UpdatesFrom(config.warmup, step) /\ step >= 1 /\ actor <= step
        /\ disk.actor = UpdatesFrom(config.warmup, disk.step) /\ disk.step <= step
        /\ step <= TotalSteps + crashes /\ disk.step <= TotalSteps + crashes
    BY <2>1 DEF Paced, BeforeUpdate, AfterUpdate, Gathering, Updates, loopVars
  <2>4. /\ step' - 1 = step /\ step' >= 1 /\ actor' <= step'
        /\ disk'.step < step' /\ disk'.step <= step'
    BY <2>1, <2>3, Fields
  <2>5. crashes' = crashes /\ disk' = disk
    BY <2>1
  <2>6. step' <= TotalSteps + crashes' + 1
    BY <2>1, <2>3, <2>5, Fields, Constants
  <2>7. step < TotalSteps => step' <= TotalSteps + crashes'
    BY <2>1, <2>5, Fields, Constants
  <2> QED
    BY <2>1, <2>2, <2>3, <2>4, <2>5, <2>6, <2>7
       DEF Paced, BeforeUpdate, AfterUpdate, Gathering, Updates, loopVars
<1>14. CASE Crash
  <2>1. /\ pc' = "down" /\ step' = 0 /\ actor' = 0 /\ crashes' = crashes + 1
        /\ UNCHANGED <<config, disk>>
        /\ pc \notin {"finished"}
    BY <1>14 DEF Crash
  <2>2. disk.step <= TotalSteps + crashes /\ disk.actor = UpdatesFrom(config.warmup, disk.step)
    BY DEF Paced, Updates
  <2>3. disk' = disk /\ disk'.step < TotalSteps + crashes'
    BY <2>1, <2>2, Fields, Constants
  <2>5. actor' <= step' /\ step' <= TotalSteps + crashes'
    BY <2>1, Fields, Constants
  <2>4. disk'.step <= TotalSteps + crashes' /\ disk'.actor = UpdatesFrom(config'.warmup, disk'.step)
    BY <2>1, <2>2, <2>3, Fields, Constants
  <2> QED
    BY <2>1, <2>3, <2>4, <2>5
       DEF Paced, BeforeUpdate, AfterUpdate, Gathering, Updates, loopVars
<1>15. CASE UNCHANGED vars
  BY <1>15 DEF vars, Paced, BeforeUpdate, AfterUpdate, Gathering, Updates, loopVars
<1> QED
  BY <1>1, <1>2, <1>3, <1>4, <1>5, <1>6, <1>7, <1>8, <1>9, <1>10,
     <1>11, <1>12, <1>13, <1>14, <1>15 DEF Next, Step

\* Products, which the provers know little of.
LEMMA ProductNat ==
  ASSUME NEW a \in Nat, NEW b \in Nat
  PROVE  a * b \in Nat /\ 0 * b = 0
OBVIOUS

LEMMA Distribute ==
  ASSUME NEW a \in Nat, NEW b \in Nat
  PROVE  (a + 1) * b = a * b + b
OBVIOUS

LEMMA Multiples ==
  ASSUME NEW a \in Nat, NEW c \in Nat, NEW b \in Nat, a < c
  PROVE  a * b + b <= c * b
<1>1. PICK d \in Nat : c = a + 1 + d
  <2>1. c - (a + 1) \in Nat /\ c = a + 1 + (c - (a + 1))
    OBVIOUS
  <2> QED
    BY <2>1
<1>2. c * b = a * b + b + d * b
  BY <1>1
<1>3. d * b \in Nat /\ a * b \in Nat
  BY ProductNat
<1> QED
  BY <1>2, <1>3

LEMMA Within ==
  ASSUME NEW a \in Nat, NEW b \in Nat, NEW c \in Nat, NEW d \in Nat, NEW e \in Nat,
         a <= b + c, b + d <= e, c <= d
  PROVE  a <= e
OBVIOUS

LEMMA CountedKept ==
  ASSUME Types, Gathered, Counted, [Next]_vars
  PROVE  Counted'
<1>1. ASSUME NEW given \in 0..Batches, Resume(given)
      PROVE  Counted'
  <2>1. /\ numGen' = 0 /\ pc' = "step"
        /\ place' = [epoch |-> disk.step \div Batches, given |-> given]
    BY <1>1 DEF Resume, Gathered
  <2>2. disk.step \div Batches \in Nat
    BY Fields, Constants, DivNat
  <2>4. given \in Nat
    BY Constants
  <2>3. place'.epoch * Batches + place'.given >= 0 /\ Epochs * Batches >= 0
    BY <2>1, <2>2, <2>4, Constants, ProductNat
  <2> QED
    BY <2>1, <2>3, Constants DEF Counted
<1>2. CASE BeginRollout
  <2>1. /\ pc = "step" /\ pc' = "rolling" /\ numGen' = numGen /\ place.epoch < Epochs
        /\ place'.epoch = place.epoch /\ place'.given = place.given + 1
    BY <1>2 DEF BeginRollout, Types
  <2>2. place.epoch * Batches \in Nat
    BY Fields, Constants, ProductNat
  <2>3. numGen + 1 <= place'.epoch * Batches + place'.given
    <3>1. numGen <= place.epoch * Batches + place.given
      BY <2>1 DEF Counted
    <3> QED
      BY <2>1, <2>2, <3>1, Fields
  <2>4. /\ numGen <= Epochs * Batches
        /\ MaxGenBatches > 0 => numGen <= MaxGenBatches /\ numGen < MaxGenBatches
    BY <2>1 DEF Counted
  <2> QED
    BY <2>1, <2>3, <2>4 DEF Counted
<1>3. CASE NextEpoch
  <2>1. /\ pc = "step" /\ pc' = pc /\ numGen' = numGen /\ place.given = Batches
        /\ place'.epoch = place.epoch + 1 /\ place'.given = 0
    BY <1>3 DEF NextEpoch
  <2>2. (place.epoch + 1) * Batches = place.epoch * Batches + Batches
    BY Fields, Constants, Distribute
  <2>3. place'.epoch * Batches + place'.given = place.epoch * Batches + place.given
    BY <2>1, <2>2, Fields, Constants, ProductNat
  <2> QED
    BY <2>1, <2>3 DEF Counted
<1>4. CASE RunOut
  BY <1>4, Fields, Constants DEF RunOut, Counted, loopVars
<1>5. ASSUME NEW n \in 0..MaxPrompts, EndRollout(n)
      PROVE  Counted'
  <2>1. /\ pc = "rolling" /\ pc' = "rolled" /\ numGen' = numGen + 1 /\ place' = place
    BY <1>5 DEF EndRollout
  <2>2. place.epoch * Batches + Batches <= Epochs * Batches
    BY <2>1, Fields, Constants, Multiples DEF Counted
  <2>3. place.epoch * Batches \in Nat /\ Epochs * Batches \in Nat
    BY Fields, Constants, ProductNat
  <2>4. numGen + 1 <= place.epoch * Batches + place.given
    BY <2>1 DEF Counted
  <2>5. numGen + 1 <= Epochs * Batches
    <3>1. place.given \in Nat /\ place.given <= Batches /\ numGen + 1 \in Nat
      BY Fields
    <3> QED
      BY <2>2, <2>3, <2>4, <3>1, Constants, Within
  <2>6. MaxGenBatches > 0 => numGen + 1 <= MaxGenBatches
    BY <2>1, Fields, Constants DEF Counted
  <2> QED
    BY <2>1, <2>4, <2>5, <2>6 DEF Counted
<1>6. CASE KeepGenerating
  BY <1>6, Fields, Constants DEF KeepGenerating, TooFew, Counted, loopVars
<1>7. CASE GeneratedTooMany
  BY <1>7, Fields, Constants DEF GeneratedTooMany, Counted, loopVars
<1>8. CASE Align
  BY <1>8, Fields, Constants DEF Align, Counted, loopVars
<1>9. CASE UpdateActor
  BY <1>9, Fields, Constants DEF UpdateActor, WarmedUp, Counted, loopVars
<1>10. CASE SaveCheckpoint
  BY <1>10, Fields, Constants DEF SaveCheckpoint, Counted, loopVars
<1>11. CASE UpdateWeights
  BY <1>11, Fields, Constants DEF UpdateWeights, WarmedUp, Counted, loopVars
<1>12. CASE Validate
  BY <1>12, Fields, Constants DEF Validate, Counted, loopVars
<1>13. CASE EndStep
  <2>1. /\ numGen' = 0 /\ place' = place /\ pc' # "rolling"
    BY <1>13 DEF EndStep, NewBatch
  <2>2. place.epoch * Batches \in Nat /\ Epochs * Batches \in Nat
    BY Fields, Constants, ProductNat
  <2>3. 0 <= place.epoch * Batches + place.given /\ 0 <= Epochs * Batches
    BY <2>2, Fields
  <2> QED
    BY <2>1, <2>3, Constants DEF Counted
<1>14. CASE Crash
  <2>1. /\ numGen' = 0 /\ place' = [epoch |-> 0, given |-> 0] /\ pc' = "down"
    BY <1>14 DEF Crash
  <2>2. Epochs * Batches \in Nat /\ 0 * Batches = 0
    BY Constants, ProductNat
  <2> QED
    BY <2>1, <2>2, Constants DEF Counted
<1>15. CASE UNCHANGED vars
  BY <1>15 DEF vars, Counted, loopVars
<1> QED
  BY <1>1, <1>2, <1>3, <1>4, <1>5, <1>6, <1>7, <1>8, <1>9, <1>10,
     <1>11, <1>12, <1>13, <1>14, <1>15 DEF Next, Step

LEMMA SavedKept ==
  ASSUME Types, Paced, Saved, [Next]_vars
  PROVE  Saved'
<1>1. ASSUME NEW given \in 0..Batches, Resume(given)
      PROVE  Saved'
  BY <1>1, Fields, Constants DEF Resume, Saved, loopVars, IsLastStep
<1>2. CASE BeginRollout
  BY <1>2, Fields, Constants DEF BeginRollout, Saved, loopVars, IsLastStep
<1>3. CASE NextEpoch
  BY <1>3, Fields, Constants DEF NextEpoch, Saved, loopVars, IsLastStep
<1>4. CASE RunOut
  BY <1>4, Fields, Constants DEF RunOut, Saved, loopVars, IsLastStep
<1>5. ASSUME NEW n \in 0..MaxPrompts, EndRollout(n)
      PROVE  Saved'
  BY <1>5, Fields, Constants DEF EndRollout, Saved, loopVars, IsLastStep
<1>6. CASE KeepGenerating
  BY <1>6, Fields, Constants DEF KeepGenerating, TooFew, Saved, loopVars, IsLastStep
<1>7. CASE GeneratedTooMany
  BY <1>7, Fields, Constants DEF GeneratedTooMany, Saved, loopVars, IsLastStep
<1>8. CASE Align
  BY <1>8, Fields, Constants DEF Align, Saved, loopVars, IsLastStep
<1>9. CASE UpdateActor
  BY <1>9, Fields, Constants DEF UpdateActor, WarmedUp, Saved, loopVars, IsLastStep
<1>10. CASE SaveCheckpoint
  <2>1. pc = "updated" /\ pc' = "saved" /\ UNCHANGED <<config, step, actor, crashes>>
    BY <1>10 DEF SaveCheckpoint, loopVars
  <2>2. ASSUME SaveFreq > 0, IsLastStep PROVE disk'.actor = actor
    <3>1. CASE WarmedUp
      BY <1>10, <2>2, <3>1 DEF SaveCheckpoint, SaveDue, Every
    <3>2. CASE ~ WarmedUp
      <4>1. disk' = disk
        BY <1>10, <3>2 DEF SaveCheckpoint, SaveDue
      <4>2. actor = UpdatesFrom(config.warmup, step) /\ disk.step < step
        BY <2>1 DEF Paced, BeforeUpdate, AfterUpdate, Updates
      <4>3. disk.actor = UpdatesFrom(config.warmup, disk.step)
        BY DEF Paced, Updates
      <4> QED
        BY <3>2, <4>1, <4>2, <4>3, Fields DEF UpdatesFrom, WarmedUp
    <3> QED
      BY <3>1, <3>2
  <2> QED
    BY <2>1, <2>2 DEF Saved, IsLastStep
<1>11. CASE UpdateWeights
  BY <1>11, Fields, Constants DEF UpdateWeights, WarmedUp, Saved, loopVars, IsLastStep
<1>12. CASE Validate
  BY <1>12, Fields, Constants DEF Validate, Saved, loopVars, IsLastStep
<1>13. CASE EndStep
  <2>1. pc = "validated" /\ UNCHANGED <<actor, disk>> /\ (pc' = "finished" \/ pc' = "step")
    BY <1>13 DEF EndStep
  <2>2. pc' = "finished" => IsLastStep
    BY <1>13 DEF EndStep
  <2> QED
    BY <2>1, <2>2 DEF Saved
<1>14. CASE Crash
  BY <1>14, Fields, Constants DEF Crash, Saved, loopVars, IsLastStep
<1>15. CASE UNCHANGED vars
  BY <1>15 DEF vars, Saved, loopVars, IsLastStep
<1> QED
  BY <1>1, <1>2, <1>3, <1>4, <1>5, <1>6, <1>7, <1>8, <1>9, <1>10,
     <1>11, <1>12, <1>13, <1>14, <1>15 DEF Next, Step

-----------------------------------------------------------------------------
(* The theorems *)

LEMMA InitIInv == Init => IInv
<1> SUFFICES ASSUME Init
             PROVE  IInv
  OBVIOUS
<1>1. Types
  BY Constants DEF Init, Types, Places, NoCheckpoint
<1>2. batch = <<>> /\ Len(batch) = 0 /\ pc = "down" /\ step = 0 /\ actor = 0
  BY DEF Init
<1>3. disk.step = 0 /\ disk.actor = 0 /\ crashes = 0 /\ numPrompts = 0 /\ numGen = 0
  BY DEF Init, NoCheckpoint
<1>4. replicas.version = 0 /\ place.epoch = 0 /\ place.given = 0
  BY DEF Init
<1>5. Gathered
  BY <1>2, <1>3, Constants DEF Gathered, BatchFull, Gathering
<1>6. Fresh
  BY <1>2 DEF Fresh
<1>7. Served
  BY <1>2, <1>4 DEF Served, Gathering
<1>8. Paced
  <2>1. UpdatesFrom(config.warmup, 0) = 0
    BY <1>1, Fields DEF UpdatesFrom
  <2> QED
    BY <1>2, <1>3, <2>1, Constants DEF Paced, BeforeUpdate, AfterUpdate, Gathering, Updates
<1>9. Counted
  <2>1. Epochs * Batches \in Nat /\ 0 * Batches = 0
    BY Constants, ProductNat
  <2> QED
    BY <1>2, <1>3, <1>4, <2>1, Constants DEF Counted
<1>10. Saved
  BY <1>2 DEF Saved
<1> QED
  BY <1>1, <1>5, <1>6, <1>7, <1>8, <1>9, <1>10 DEF IInv

LEMMA NextIInv == IInv /\ [Next]_vars => IInv'
BY TypesKept, GatheredKept, FreshKept, ServedKept, PacedKept, CountedKept, SavedKept
   DEF IInv

\* The invariant holds in every state the code can reach.
THEOREM Invariance == Spec => []IInv
BY InitIInv, NextIInv, PTL DEF Spec

\* The variables keep their types, and the counters of a step stay within their bounds:
\* TypeOK of fit's state.
LEMMA TypesOK == IInv => TypeOK
<1> SUFFICES ASSUME IInv
             PROVE  TypeOK
  OBVIOUS
<1>1. Types /\ Gathered /\ Fresh /\ Served /\ Paced /\ Counted
  BY DEF IInv
<1>2. config \in [warmup : Warmups, filter : BOOLEAN, swarm : BOOLEAN] /\ pc \in Places
  BY <1>1 DEF Types
<1>3. step \in 0..(TotalSteps + 1 + MaxCrashes)
  BY <1>1, Fields, Constants DEF Paced
<1>4. place \in [epoch : Nat, given : 0..Batches] /\ crashes \in 0..MaxCrashes
  BY <1>1 DEF Types
<1>5. batch \in Seq(0..actor) /\ Len(batch) < BatchSize + MaxPrompts
  <2>1. batch \in Seq(Nat) /\ actor \in Nat
    BY <1>1 DEF Types
  <2>2. \A i \in 1..Len(batch) : batch[i] \in 0..actor
    BY <1>1, <2>1 DEF Fresh
  <2>3. batch \in Seq(0..actor)
    BY <2>1, <2>2, SeqDef
  <2> QED
    BY <1>1, <2>3 DEF Gathered
<1>6. numPrompts \in 0..(BatchSize + MaxPrompts)
  BY <1>1, Fields, Constants DEF Gathered
<1>7. numGen \in 0..(Epochs * Batches) /\ (MaxGenBatches > 0 => numGen <= MaxGenBatches)
  <2>1. Epochs * Batches \in Nat
    BY Constants, ProductNat
  <2> QED
    BY <1>1, <2>1, Fields DEF Counted
<1>8. actor \in 0..step /\ disk \in [step : Nat, actor : Nat]
  BY <1>1, Fields DEF Paced, Types
<1>9. replicas \in [version : 0..actor, awake : BOOLEAN]
  <2>1. replicas.version \in 0..actor
    BY <1>1, Fields DEF Served
  <2> QED
    BY <1>1, <2>1 DEF Types
<1> QED
  BY <1>2, <1>3, <1>4, <1>5, <1>6, <1>7, <1>8, <1>9 DEF TypeOK

THEOREM TypeCorrect == Spec => []TypeOK
BY Invariance, TypesOK, PTL

\* A filtered batch is full when the actor is updated on it, whatever the rollouts of
\* the step brought.
THEOREM BatchesAreFull == Spec => []BatchFull
<1>1. IInv => BatchFull
  BY DEF IInv, Gathered
<1> QED
  BY <1>1, Invariance, PTL

\* Steps, weights and checkpoints keep pace, whenever the process dies, and the last step leaves
\* its weights in the checkpoint, if checkpoints are saved at all.
THEOREM StepsAndWeights == Spec => []StepsMatchWeights
<1>1. IInv => StepsMatchWeights
  BY DEF IInv, Paced, Saved, StepsMatchWeights, BeforeUpdate, Gathering
<1> QED
  BY <1>1, Invariance, PTL

\* A rollout is answered by the newest weights, and by replicas that are awake unless
\* the step before was one of warm-up.
THEOREM NewestServed == Spec => []ServesNewest
<1>1. IInv => ServesNewest
  BY DEF IInv, Served, ServesNewest, Gathering
<1> QED
  BY <1>1, Invariance, PTL

\* The actor is only ever updated on answers of its own version.
THEOREM UpdatesOnPolicy == Spec => OnPolicy
<1>1. IInv => (pc = "collected" => \A i \in DOMAIN batch : batch[i] = actor)
  <2>1. ASSUME IInv PROVE DOMAIN batch = 1..Len(batch)
    BY <2>1 DEF IInv, Types
  <2> QED
    BY <2>1 DEF IInv, Fresh, BeforeUpdate
<1>2. IInv /\ [Next]_vars =>
        [actor' > actor /\ pc = "collected" => \A i \in DOMAIN batch : batch[i] = actor]_vars
  BY <1>1
<1> QED
  BY <1>2, Invariance, PTL DEF Spec, OnPolicy

==============================================================================
