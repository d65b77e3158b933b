----------------------------- MODULE RolloutPool -----------------------------
(***************************************************************************)
(* One rollout of the trainer in swarm mode: rollout_swarm, its worker     *)
(* threads, the dictionary of completed episodes they fill, and the        *)
(* decision to stop.                                                       *)
(*                                                                         *)
(* Every worker evaluates the stop condition after each episode, and so    *)
(* does the main thread, every few seconds.  The first worker that finds   *)
(* it met raises the stop flags and tells the server; but only the main    *)
(* thread's own evaluation ends the rollout.  Evaluating the condition is  *)
(* not pure: it clears the dictionary when too much is cached, and it does *)
(* so without the lock under which workers write.                          *)
(*                                                                         *)
(* An episode is what SwarmServer makes of it: it ends without a result or *)
(* with one tracker, of a task the client chose.  A task's list of         *)
(* trackers is the bag of their rewards; a task that is not in the         *)
(* dictionary has the empty bag.                                           *)
(*                                                                         *)
(* A definition whose name begins with Bug is not part of the model: it is *)
(* the definition after it with a plausible mistake, kept to show which    *)
(* property notices.                                                       *)
(***************************************************************************)
EXTENDS Naturals, FiniteSets

CONSTANTS
  Workers,      \* threads running rollout_env_worker_loop
  Main,         \* the thread running rollout_swarm
  Tasks,        \* task ids the clients report
  Rewards,      \* performance rewards
  Clients,      \* swarm clients, for the agree_sync_weight methods
  RolloutN,     \* episodes that complete a task
  BatchTasks,   \* n_batch_task, the tasks a batch is made of
  MaxCached,    \* swarm_mode_sample_collection_max_cached_episodes
  Methods,      \* values of swarm_mode_sample_collection_method to consider
  MaxEpisodes   \* bound of the model: trackers made in one rollout, by method

CountingMethods == {"enough_episodes", "enough_tasks", "enough_non_dummy_tasks"}
ClientMethods == {"any_client_agree", "all_clients_agree"}

ASSUME RolloutAssumption ==
  /\ IsFiniteSet(Workers) /\ Main \notin Workers /\ "nobody" \notin Workers
  /\ IsFiniteSet(Tasks) /\ IsFiniteSet(Rewards)
  /\ RolloutN \in Nat \ {0} /\ BatchTasks \in Nat \ {0}
  /\ MaxCached \in Nat
  /\ Methods \subseteq CountingMethods \cup ClientMethods
  /\ MaxEpisodes \in [Methods -> Nat]

VARIABLES
  method,   \* the configured stop condition
  pc,       \* where each thread is
  verdict,  \* the answer of a thread that has yet to clear the dictionary
  result,   \* the tracker each worker has to store
  known,    \* whether the worker storing found its task in the dictionary, and with what
  lock,     \* owner of executor_lock
  cache,    \* completed_task_id_map_ct
  stop,     \* observation_window["stop"]
  status,   \* the engine status the trainer last set
  listed,   \* the server's active clients, and which of them have agreed
  seen,     \* latest_swarm_client_instructions
  batch,    \* tracker_array as returned
  made,     \* history: every tracker the workers had to store
  cleared   \* history: some evaluation has cleared the dictionary

vars == <<method, pc, verdict, result, known, lock, cache, stop, status, listed, seen,
          batch, made, cleared>>

Threads == Workers \cup {Main}
Nobody == "nobody"
Empty == [r \in Rewards |-> 0]
Nothing == [t \in Tasks |-> Empty]
Trackers == [task : Tasks, reward : Rewards]
NoTracker == [task |-> "none", reward |-> "none"]

WorkerPC == {"top", "episode", "store", "write", "check", "clear",
             "raise", "post", "preview", "lastpreview", "gone", "dead"}
MainPC == {"check", "clear", "preview", "raise", "post", "shutdown",
           "collect", "done"}

TypeOK ==
  /\ method \in Methods
  /\ pc \in [Threads -> WorkerPC \cup MainPC]
  /\ \A w \in Workers : pc[w] \in WorkerPC
  /\ pc[Main] \in MainPC
  /\ verdict \in [Threads -> BOOLEAN]
  /\ result \in [Workers -> Trackers \cup {NoTracker}]
  /\ known \in [Rewards -> Nat]
  /\ lock \in Workers \cup {Nobody}
  /\ cache \in [Tasks -> [Rewards -> Nat]]
  /\ stop \in BOOLEAN
  /\ status \in {"ENGINE.ROLLING", "ENGINE.ROLLING_POST", "ENGINE.WEIGHT_SYNCING"}
  /\ listed \in [Clients -> {"away", "active", "agreed"}]
  /\ seen \in [Clients -> {"away", "active", "agreed"}]
  /\ batch \in [Tasks -> [Rewards -> Nat]]
  /\ made \in [Tasks -> [Rewards -> Nat]]
  /\ cleared \in BOOLEAN

Init ==
  /\ method \in Methods
  /\ pc = [th \in Threads |-> IF th = Main THEN "preview" ELSE "top"]
  /\ verdict = [th \in Threads |-> FALSE]
  /\ result = [w \in Workers |-> NoTracker]
  /\ known = Empty
  /\ lock = Nobody
  /\ cache = Nothing
  /\ stop = FALSE
  /\ status = "ENGINE.ROLLING"
  /\ listed = [c \in Clients |-> "away"]
  /\ seen = [c \in Clients |-> "away"]
  /\ batch = Nothing
  /\ made = Nothing
  /\ cleared = FALSE

-----------------------------------------------------------------------------
(* Counting, and the stop conditions *)

\* The trackers of a bag, told apart by number.
Copies(bag) == UNION {{r} \X (1..bag[r]) : r \in Rewards}
Size(bag) == Cardinality(Copies(bag))
Total(m) == Cardinality(UNION {{t} \X Copies(m[t]) : t \in Tasks})

AllEqual(bag) == Cardinality({r \in Rewards : bag[r] > 0}) < 2
Completed(m) == {t \in Tasks : Size(m[t]) >= RolloutN}
NonDummy(m) == {t \in Completed(m) : ~AllEqual(m[t])}

Agreed(s) == {c \in Clients : s[c] = "agreed"}
Active(s) == {c \in Clients : s[c] # "away"}

\* The five stop conditions, without the clearing two of them do.
Met(m, s) ==
  \/ method = "enough_episodes" /\ Total(m) >= BatchTasks * RolloutN
  \/ method = "enough_tasks" /\ Cardinality(Completed(m)) >= BatchTasks
  \/ method = "enough_non_dummy_tasks" /\ Cardinality(NonDummy(m)) >= BatchTasks
  \/ method = "any_client_agree" /\ Agreed(s) # {}
  \/ method = "all_clients_agree" /\ Active(s) # {} /\ Active(s) = Agreed(s)

Overfull ==
  method \in {"enough_tasks", "enough_non_dummy_tasks"} /\ Total(cache) > MaxCached

\* filter_out_dummy_tasks, applied to the batch of one method
BugFilterFull(m) == [t \in Tasks |-> IF Size(m[t]) <= RolloutN \/ AllEqual(m[t]) THEN Empty ELSE m[t]]
FilterDummy(m) == [t \in Tasks |-> IF Size(m[t]) < 2 \/ AllEqual(m[t]) THEN Empty ELSE m[t]]
HandedOver(m) == IF method = "enough_non_dummy_tasks" THEN FilterDummy(m) ELSE m

Go(th, to) == pc' = [pc EXCEPT ![th] = to]

-----------------------------------------------------------------------------
(* Worker threads: rollout_env_worker_loop *)

\* The head of the loop, and the same check after the callback has returned False.
LoopTop(w) ==
  /\ pc[w] = "top"
  /\ Go(w, IF stop THEN "gone" ELSE "episode")
  /\ UNCHANGED <<method, verdict, result, known, lock, cache, stop, status, listed, seen, batch, made, cleared>>

\* rollout_env_worker returns None, or raises what the episode raised, and the thread ends ...
EndWithout(w) ==
  /\ pc[w] = "episode"
  /\ \E to \in {"check", "dead"} : Go(w, to)
  /\ UNCHANGED <<method, verdict, result, known, lock, cache, stop, status, listed, seen, batch, made, cleared>>

\* ... or it returns a tracker with timelines.
EndWith(w, tracker) ==
  /\ pc[w] = "episode"
  /\ Total(made) < MaxEpisodes[method]
  /\ made' = [made EXCEPT ![tracker.task][tracker.reward] = @ + 1]
  /\ result' = [result EXCEPT ![w] = tracker]
  /\ Go(w, "store")
  /\ UNCHANGED <<method, verdict, known, lock, cache, stop, status, listed, seen, batch, cleared>>

\* Under executor_lock, the worker first looks for its task ...
BugLookUnlocked(w) ==
  /\ pc[w] = "store"
  /\ lock' = w
  /\ known' = cache[result[w].task]
  /\ Go(w, "write")
  /\ UNCHANGED <<method, verdict, result, cache, stop, status, listed, seen, batch, made, cleared>>
Look(w) ==
  /\ pc[w] = "store"
  /\ lock = Nobody
  /\ lock' = w
  /\ known' = cache[result[w].task]
  /\ Go(w, "write")
  /\ UNCHANGED <<method, verdict, result, cache, stop, status, listed, seen, batch, made, cleared>>

\* ... then adds its tracker to the list it found, or starts a list.  If another
\* thread has cleared the dictionary meanwhile, the old list comes back with it.
Write(w) ==
  LET t == result[w].task
  IN  /\ pc[w] = "write"
      /\ cache' = [cache EXCEPT ![t] = [known EXCEPT ![result[w].reward] = @ + 1]]
      /\ result' = [result EXCEPT ![w] = NoTracker]
      /\ known' = Empty
      /\ lock' = Nobody
      /\ Go(w, "check")
      /\ UNCHANGED <<method, verdict, stop, status, listed, seen, batch, made, cleared>>

\* Or the list is gone before it is read: a KeyError, and the thread ends.
WriteFails(w) ==
  LET t == result[w].task
  IN  /\ pc[w] = "write"
      /\ known # Empty
      /\ cache[t] = Empty
      /\ result' = [result EXCEPT ![w] = NoTracker]
      /\ known' = Empty
      /\ lock' = Nobody
      /\ Go(w, "dead")
      /\ UNCHANGED <<method, verdict, cache, stop, status, listed, seen, batch, made, cleared>>

-----------------------------------------------------------------------------
(* The stop condition, evaluated by any thread *)

\* What a thread does with the answer, stop_condition_callback for a worker: the
\* first to see the condition met raises the flags.  The main thread raises them
\* (again) whenever it sees it met.
BugMainAlike(th, met) ==
  Go(th, IF ~met THEN "preview" ELSE IF stop THEN "gone" ELSE "raise")
Answer(th, met) ==
  Go(th, IF ~met THEN "preview" ELSE IF th # Main /\ stop THEN "gone" ELSE "raise")

Evaluate(th) ==
  /\ pc[th] = "check"
  /\ IF Overfull
     THEN Go(th, "clear") /\ verdict' = [verdict EXCEPT ![th] = Met(cache, seen)]
     ELSE Answer(th, Met(cache, seen)) /\ UNCHANGED verdict
  /\ UNCHANGED <<method, result, known, lock, cache, stop, status, listed, seen, batch, made, cleared>>

\* The counts are taken already; the answer stands.
ClearCache(th) ==
  /\ pc[th] = "clear"
  /\ cache' = Nothing
  /\ cleared' = TRUE
  /\ Answer(th, verdict[th])
  /\ verdict' = [verdict EXCEPT ![th] = FALSE]
  /\ UNCHANGED <<method, result, known, lock, stop, status, listed, seen, batch, made>>

\* stop_all_threads_soft: the flags ...
RaiseStop(th) ==
  /\ pc[th] = "raise"
  /\ stop' = TRUE
  /\ Go(th, "post")
  /\ UNCHANGED <<method, verdict, result, known, lock, cache, status, listed, seen, batch, made, cleared>>

\* ... then the server.
PostRollingPost(th) ==
  /\ pc[th] = "post"
  /\ status' = "ENGINE.ROLLING_POST"
  /\ Go(th, IF th = Main THEN "shutdown" ELSE "lastpreview")
  /\ UNCHANGED <<method, verdict, result, known, lock, cache, stop, listed, seen, batch, made, cleared>>

\* update_rollout_result_array_preview: pool information out, instruction in.
Preview(th) ==
  /\ pc[th] \in {"preview", "lastpreview"}
  /\ seen' = listed
  /\ Go(th, IF th = Main THEN "check" ELSE IF pc[th] = "preview" THEN "top" ELSE "gone")
  /\ UNCHANGED <<method, verdict, result, known, lock, cache, stop, status, listed, batch, made, cleared>>

\* The main loop prints, and previews, in one cycle out of three.
SkipPreview ==
  /\ pc[Main] = "preview"
  /\ Go(Main, "check")
  /\ UNCHANGED <<method, verdict, result, known, lock, cache, stop, status, listed, seen, batch, made, cleared>>

-----------------------------------------------------------------------------
(* The end of rollout_swarm *)

\* executor.shutdown(wait=True), then stop_all_threads_hard
BugShutdownNoWait ==
  /\ pc[Main] = "shutdown"
  /\ status' = "ENGINE.WEIGHT_SYNCING"
  /\ Go(Main, "collect")
  /\ UNCHANGED <<method, verdict, result, known, lock, cache, stop, listed, seen, batch, made, cleared>>
Shutdown ==
  /\ pc[Main] = "shutdown"
  /\ \A w \in Workers : pc[w] \in {"gone", "dead"}
  /\ status' = "ENGINE.WEIGHT_SYNCING"
  /\ Go(Main, "collect")
  /\ UNCHANGED <<method, verdict, result, known, lock, cache, stop, listed, seen, batch, made, cleared>>

Collect ==
  /\ pc[Main] = "collect"
  /\ batch' = HandedOver(cache)
  /\ cache' = Nothing
  /\ Go(Main, "done")
  /\ UNCHANGED <<method, verdict, result, known, lock, stop, status, listed, seen, made, cleared>>

\* What clients do to the server's list: end an episode, agree, fall silent.
ListChanges(c) ==
  /\ method \in ClientMethods
  /\ status # "ENGINE.WEIGHT_SYNCING"
  /\ \/ listed[c] = "away" /\ listed' = [listed EXCEPT ![c] = "active"]
     \/ listed[c] = "active" /\ listed' = [listed EXCEPT ![c] = "agreed"]
     \/ listed[c] # "away" /\ listed' = [listed EXCEPT ![c] = "away"]
  /\ UNCHANGED <<method, pc, verdict, result, known, lock, cache, stop, status, seen, batch, made, cleared>>

-----------------------------------------------------------------------------

Condition(th) ==
  Evaluate(th) \/ ClearCache(th) \/ RaiseStop(th) \/ PostRollingPost(th) \/ Preview(th)

WorkerStep(w) ==
  \/ LoopTop(w) \/ Look(w) \/ Write(w) \/ WriteFails(w) \/ Condition(w)
  \/ EndWithout(w) \/ \E tracker \in Trackers : EndWith(w, tracker)

MainStep == Condition(Main) \/ SkipPreview \/ Shutdown \/ Collect

Next ==
  \/ \E w \in Workers : WorkerStep(w)
  \/ MainStep
  \/ \E c \in Clients : ListChanges(c)

Spec == Init /\ [][Next]_vars

\* Threads go on, and every episode ends: the server sees to that once the stop
\* flags are up (RollingPostDrains of SwarmServer).  The lock is contended.
Fairness ==
  /\ \A w \in Workers : WF_vars(WorkerStep(w)) /\ SF_vars(Look(w))
  /\ WF_vars(MainStep)

FairSpec == Spec /\ Fairness

-----------------------------------------------------------------------------
(* Properties *)

\* No tracker is lost between the threads that make them and the batch that is
\* trained on, and none is counted twice, unless the dictionary has been cleared.
BatchComplete == pc[Main] = "done" /\ ~cleared => batch = HandedOver(made)

\* The batch handed over meets the condition that ended the rollout, though the
\* workers went on adding to it and dummy tasks were dropped afterwards.
BatchMeetsCondition ==
  pc[Main] = "done" /\ ~cleared /\ method \in CountingMethods => Met(batch, seen)

\* Once the server has been told WEIGHT_SYNCING, no worker sends it back to
\* ROLLING_POST, and no worker is left to add to the batch.
SyncingIsFinal ==
  status = "ENGINE.WEIGHT_SYNCING" =>
    \A w \in Workers : pc[w] \notin {"episode", "store", "write", "raise", "post"}

\* When some thread has raised the stop flags, the rollout ends: the main thread
\* reaches the same verdict by itself.  For the counting methods, unless the
\* dictionary has been cleared.
StopEndsRollout ==
  stop /\ method \in CountingMethods ~> pc[Main] = "done" \/ cleared

-----------------------------------------------------------------------------
(* What the documentation says and the code does not do *)

\* Once the stop condition is met, in-flight episodes drain and the engine moves
\* to WEIGHT_SYNCING (docs/en/swarm_deepdive.md, "Transition").
StopLeadsToSync == stop ~> status = "ENGINE.WEIGHT_SYNCING"

==============================================================================
