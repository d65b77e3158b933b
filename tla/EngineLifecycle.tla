---------------------------- MODULE EngineLifecycle ----------------------------
(***************************************************************************)
(* Starting and stopping the training engine of the swarm server.          *)
(*                                                                         *)
(* Four parties write one variable, engine_status, and none of them checks *)
(* who wrote it last: start_engine (before and after it waits), stop_engine,*)
(* update_engine_status on behalf of a trainer, and on behalf of the       *)
(* wrapper process around a trainer that has failed.                       *)
(*                                                                         *)
(* A run is one training process: the wrapper (execute_training_process)   *)
(* with the trainer it starts.  The status reports of a run travel as HTTP *)
(* requests: a request may be handled after its sender is dead, because    *)
(* the event loop was busy (stop_engine blocks it while it kills) or       *)
(* because the sender was not among the killed children.                   *)
(*                                                                         *)
(* A client decides on a copy of the status that may be old, so a request  *)
(* of a client can come at any time; what the client makes of the answer   *)
(* is module SwarmClient.                                                  *)
(*                                                                         *)
(* A definition whose name begins with Bug is not part of the model: it is *)
(* the definition after it with a plausible mistake, kept to show which    *)
(* property notices.                                                       *)
(***************************************************************************)
EXTENDS Naturals, FiniteSets

CONSTANTS
  Clients,    \* clients that start and stop the engine, each with its own job
  Runs,       \* training processes
  NoClient,
  NoRun       \* no training_process_pid

ASSUME EngineAssumption ==
  /\ NoClient \notin Clients /\ NoRun \notin Runs
  /\ {"none", "failed", "stopped"} \cap Runs = {}

VARIABLES
  engine_status,  \* shared_mem_dict["engine_status"]
  config,         \* whose job is in shared_mem_dict["train_config_yaml"]
  pid,            \* shared_mem_dict["training_process_pid"]
  phase,          \* what each run is doing
  job,            \* the job each run was started with
  posts,          \* status reports of each run not yet handled
  starting,       \* runs whose start_engine has not returned
  latest,         \* history: the last start or stop that began
  stray           \* history: some report or start_engine came too late, or a stop missed a trainer

vars == <<engine_status, config, pid, phase, job, posts, starting, latest, stray>>

Offline == "ENGINE.OFFLINE"
Booting == "ENGINE.BOOTING"
Cycle == {"ENGINE.ROLLING", "ENGINE.ROLLING_POST", "ENGINE.WEIGHT_SYNCING"}
Statuses == {Offline, Booting} \cup Cycle

\* A run: absent; booting, or in the phase it reported last; its trainer has
\* failed or finished and reports OFFLINE on exit; its wrapper reports the failure.
Phases == {"absent", Booting, "failing", "finishing", "reporting"} \cup Cycle

TypeOK ==
  /\ engine_status \in Statuses
  /\ config \in Clients \cup {NoClient}
  /\ pid \in Runs \cup {NoRun}
  /\ phase \in [Runs -> Phases]
  /\ job \in [Runs -> Clients \cup {NoClient}]
  /\ posts \in [Runs -> SUBSET (Statuses \ {Booting})]
  /\ starting \in SUBSET Runs
  /\ latest \in Runs \cup {"none", "failed", "stopped"}
  /\ stray \in BOOLEAN

Init ==
  /\ engine_status = Offline
  /\ config = NoClient
  /\ pid = NoRun
  /\ phase = [r \in Runs |-> "absent"]
  /\ job = [r \in Runs |-> NoClient]
  /\ posts = [r \in Runs |-> {}]
  /\ starting = {}
  /\ latest = "none"
  /\ stray = FALSE

\* The run has a trainer that boots or trains.
Training(r) == phase[r] \in {Booting} \cup Cycle

-----------------------------------------------------------------------------
(* The handlers of the server *)

\* sync_train_config stores a job, if the engine is offline.
BugSyncTrainConfig(c) ==
  /\ config' = c
  /\ UNCHANGED <<engine_status, pid, phase, job, posts, starting, latest, stray>>
SyncTrainConfig(c) ==
  /\ engine_status = Offline
  /\ config' = c
  /\ UNCHANGED <<engine_status, pid, phase, job, posts, starting, latest, stray>>

BugMayStart == config # NoClient
MayStart == engine_status = Offline /\ config # NoClient

\* start_engine up to its await.  BOOTING comes first: an error on the way to the
\* process is returned to the caller and leaves it behind.
StartFails ==
  /\ MayStart
  /\ engine_status' = Booting
  /\ latest' = "failed"
  /\ UNCHANGED <<config, pid, phase, job, posts, starting, stray>>

\* Otherwise the process is started, and the pool cleaned up in a thread.
StartEngine(r) ==
  /\ MayStart
  /\ phase[r] = "absent" /\ posts[r] = {} /\ r \notin starting /\ r # pid
  /\ engine_status' = Booting
  /\ phase' = [phase EXCEPT ![r] = Booting]
  /\ job' = [job EXCEPT ![r] = config]
  /\ starting' = starting \cup {r}
  /\ latest' = r
  /\ UNCHANGED <<config, pid, posts, stray>>

\* The thread is done: the pid is stored, whatever has happened to it by then.
StartReturns(r) ==
  /\ r \in starting
  /\ pid' = r
  /\ engine_status' = Booting
  /\ starting' = starting \ {r}
  /\ stray' = (stray \/ latest # r)
  /\ UNCHANGED <<config, phase, job, posts, latest>>

\* An error after the process has been started (no process group for it, say, or in the
\* clean-up): the caller is told that the start has failed, and the pid is not stored.
StartBreaksOff(r) ==
  /\ r \in starting
  /\ starting' = starting \ {r}
  /\ UNCHANGED <<engine_status, config, pid, phase, job, posts, latest, stray>>

\* A run whose start_engine is still waiting, or broke off, has no pid and is not found.
Missed == starting # {} \/ \E r \in Runs : Training(r) /\ r # pid

\* kill_process_tree, with the event loop blocked.  The dying trainer and its wrapper
\* may have sent OFFLINE; reports that were under way may be lost or yet arrive.
BugStopWithoutKill ==
  /\ engine_status' = Offline
  /\ pid' = NoRun
  /\ latest' = "stopped"
  /\ stray' = (stray \/ Missed)
  /\ UNCHANGED <<config, phase, job, posts, starting>>
StopEngine ==
  /\ engine_status' = Offline
  /\ pid' = NoRun
  /\ latest' = "stopped"
  /\ IF pid # NoRun /\ phase[pid] # "absent"
     THEN /\ phase' = [phase EXCEPT ![pid] = "absent"]
          /\ \E late \in SUBSET (posts[pid] \cup {Offline}) :
               posts' = [posts EXCEPT ![pid] = late]
     ELSE UNCHANGED <<phase, posts>>
  /\ stray' = (stray \/ Missed)
  /\ UNCHANGED <<config, job, starting>>

\* update_engine_status asks neither who reports nor what the status was.
UpdateEngineStatus(r, status) ==
  /\ status \in posts[r]
  /\ posts' = [posts EXCEPT ![r] = @ \ {status}]
  /\ engine_status' = status
  /\ stray' = (stray \/ latest # r \/ r \in starting
                    \/ (status = Offline /\ posts[r] # {Offline}))
  /\ UNCHANGED <<config, pid, phase, job, starting, latest>>

-----------------------------------------------------------------------------
(* A run: execute_training_process around main_verl *)

BugBootAgain(p) ==
  CASE p = Booting                 -> "ENGINE.ROLLING"
    [] p = "ENGINE.ROLLING"        -> "ENGINE.ROLLING_POST"
    [] p = "ENGINE.ROLLING_POST"   -> "ENGINE.WEIGHT_SYNCING"
    [] p = "ENGINE.WEIGHT_SYNCING" -> Booting
NextPhase(p) ==
  CASE p = Booting                 -> "ENGINE.ROLLING"
    [] p = "ENGINE.ROLLING"        -> "ENGINE.ROLLING_POST"
    [] p = "ENGINE.ROLLING_POST"   -> "ENGINE.WEIGHT_SYNCING"
    [] p = "ENGINE.WEIGHT_SYNCING" -> "ENGINE.ROLLING"

\* The trainer goes on and reports it; it waits for the reply to its last report.
\* Booting takes minutes, start_engine's clean-up a moment.
Advance(r) ==
  /\ Training(r)
  /\ posts[r] = {}
  /\ r \notin starting
  /\ phase' = [phase EXCEPT ![r] = NextPhase(phase[r])]
  /\ posts' = [posts EXCEPT ![r] = {NextPhase(phase[r])}]
  /\ UNCHANGED <<engine_status, config, pid, job, starting, latest, stray>>

\* The last step is done: main_verl reports OFFLINE on exit.
Finish(r) ==
  /\ phase[r] = "ENGINE.WEIGHT_SYNCING"
  /\ posts[r] = {}
  /\ phase' = [phase EXCEPT ![r] = "finishing"]
  /\ posts' = [posts EXCEPT ![r] = {Offline}]
  /\ UNCHANGED <<engine_status, config, pid, job, starting, latest, stray>>

\* The trainer fails, at any time: it reports OFFLINE on exit ...
TrainerFails(r) ==
  /\ Training(r)
  /\ phase' = [phase EXCEPT ![r] = "failing"]
  /\ posts' = [posts EXCEPT ![r] = @ \cup {Offline}]
  /\ UNCHANGED <<engine_status, config, pid, job, starting, latest, stray>>

\* ... and then so does the wrapper, which sees its exit code.  A trainer that is
\* killed, or never started, reports nothing itself.
BugSilentWrapper(r) ==
  /\ phase[r] = "failing" \/ Training(r)
  /\ posts[r] = {}
  /\ phase' = [phase EXCEPT ![r] = "reporting"]
  /\ UNCHANGED <<engine_status, config, pid, job, posts, starting, latest, stray>>
WrapperReports(r) ==
  /\ phase[r] = "failing" \/ Training(r)
  /\ posts[r] = {}
  /\ phase' = [phase EXCEPT ![r] = "reporting"]
  /\ posts' = [posts EXCEPT ![r] = {Offline}]
  /\ UNCHANGED <<engine_status, config, pid, job, starting, latest, stray>>

\* align_parameters comes before the wrapper's try: an error in it ends the process
\* without a word to the server.
LaunchFails(r) ==
  /\ phase[r] = Booting
  /\ posts[r] = {}
  /\ phase' = [phase EXCEPT ![r] = "absent"]
  /\ latest' = IF latest = r THEN "failed" ELSE latest
  /\ UNCHANGED <<engine_status, config, pid, job, posts, starting, stray>>

RunExits(r) ==
  /\ phase[r] \in {"finishing", "reporting"}
  /\ Offline \notin posts[r]
  /\ phase' = [phase EXCEPT ![r] = "absent"]
  /\ UNCHANGED <<engine_status, config, pid, job, posts, starting, latest, stray>>

-----------------------------------------------------------------------------

RunStep(r) ==
  \/ StartReturns(r) \/ StartBreaksOff(r)
  \/ \E status \in Statuses : UpdateEngineStatus(r, status)
  \/ Advance(r) \/ Finish(r) \/ TrainerFails(r) \/ WrapperReports(r) \/ LaunchFails(r)
  \/ RunExits(r)

Request ==
  \/ \E c \in Clients : SyncTrainConfig(c)
  \/ StartFails \/ \E r \in Runs : StartEngine(r)
  \/ StopEngine

Next == Request \/ \E r \in Runs : RunStep(r)

Spec == Init /\ [][Next]_vars

\* The server answers, a booting trainer gets on or fails, the wrapper of one that has
\* failed reports it, and processes that are done exit.  Nothing is asked of clients.
Fairness ==
  \A r \in Runs :
    /\ WF_vars(StartReturns(r))
    /\ WF_vars(\E status \in Statuses : UpdateEngineStatus(r, status))
    /\ WF_vars(phase[r] = Booting /\ Advance(r))
    /\ WF_vars(phase[r] = "failing" /\ WrapperReports(r))
    /\ WF_vars(RunExits(r))

FairSpec == Spec /\ Fairness

-----------------------------------------------------------------------------
(* Properties *)

\* Two trainers never run side by side on the same GPUs, unless a report or a start
\* came too late, or a stop missed one: start_engine refuses while one is up, and one that fails is down
\* before its report lets another start.
OneTrainer == ~stray => Cardinality({r \in Runs : Training(r)}) <= 1

\* The job stored on the server is the job being trained: sync_train_config cannot
\* slip in between start_engine's reading of it and the end of the run.
ConfigFrozen == ~stray => \A r \in Runs : Training(r) => job[r] = config

\* The status tells whether there is a trainer: it is OFFLINE only when none runs,
\* and something else only when one runs, or its report of the end is on the way;
\* a start or a launch that failed is the exception.
StatusTruthful ==
  ~stray /\ latest # "failed" =>
    /\ engine_status = Offline => \A r \in Runs : ~Training(r)
    /\ engine_status # Offline =>
         \E r \in Runs : Training(r) \/ phase[r] = "failing" \/ Offline \in posts[r]

\* Booting ends, in ROLLING or in OFFLINE, however start, failure and stop interleave,
\* unless a start or a launch failed or something came too late.
BootingEnds ==
  engine_status = Booting ~> engine_status # Booting \/ latest = "failed" \/ stray

==============================================================================
