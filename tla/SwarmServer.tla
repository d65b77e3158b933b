----------------------------- MODULE SwarmServer -----------------------------
(***************************************************************************)
(* The episode pool of the swarm server, with the three parties that work  *)
(* on it:                                                                  *)
(*                                                                         *)
(*   - clients claim an episode, call the LLM, then end or abort it;       *)
(*   - runners (worker threads of the trainer) register an episode, wait   *)
(*     on a REP socket for its output, and serve RESET requests;           *)
(*   - the trainer drives the engine status around the cycle               *)
(*     ROLLING -> ROLLING_POST -> WEIGHT_SYNCING -> ROLLING.               *)
(*                                                                         *)
(* The server is the default one: a single process (num_fastapi_process    *)
(* is 1) with one event loop, a plain dict and a threading.Lock.  A        *)
(* handler is atomic from one await to the next; the functions it hands    *)
(* to asyncio.to_thread run in threads of their own and interleave with    *)
(* everything.  A handler can also be preempted by such a thread where it  *)
(* holds no lock.  The one such window kept here is the tail of            *)
(* _revert_episode_to_unclaimed, which mutates a record and only then      *)
(* takes the lock: "commit" below.  Two are left out: the KeyError between *)
(* a membership test and the read that follows it, which the caller sees   *)
(* as a refusal, and the unlocked update of active_swarm_clients.          *)
(*                                                                         *)
(* A definition whose name begins with Bug is not part of the model: it is *)
(* the definition after it with a plausible mistake, kept to show which    *)
(* property notices.                                                       *)
(*                                                                         *)
(* Time is abstract: idle is the set of episodes whose claim has seen no   *)
(* activity for discard_episode_timeout.                                   *)
(***************************************************************************)
EXTENDS Naturals, SequencesExt

CONSTANTS
  Episodes,      \* episode uuids, one per runner
  Clients,       \* swarm client uuids
  NoClient,      \* the empty client_uuid of an unclaimed record
  Janitor,       \* caller of the reverts made by register_episode_ready_listener
  EpisodeTypes,  \* the episode types clients ask for
  Declares,      \* the values of declare_client_active clients send
  MaxResend      \* how often a runner repeats a registration POST it got no reply to

ASSUME ServerAssumption ==
  /\ NoClient \notin Clients
  /\ Janitor \notin Clients
  /\ EpisodeTypes \subseteq {"train", "eval"}
  /\ Declares \subseteq BOOLEAN
  /\ MaxResend \in Nat

VARIABLES
  engine_status,  \* shared_mem_dict["engine_status"]
  rec,            \* shared_mem_dict["episodes-*"]; status "absent": no such key
  unclaimed,      \* shared_mem_dict["unclaimed_episodes"]
  finished,       \* the keys shared_mem_dict["finished-episodes-*"]
  active,         \* the uuids in shared_mem_dict["active_swarm_clients"]
  idle,           \* episodes claimed and past their discard_episode_timeout
  expired,        \* what is left of the janitor's to_unclaim_episodes
  call,           \* call[k][e]: the request of caller k on episode e in flight
  held,           \* held[c]: the episodes client c has not ended nor aborted
  runner,         \* state of the runner of each episode
  posts,          \* registration POSTs of each runner not yet handled
  tries,          \* how often each runner has called http_register_episode's body
  trainer,        \* where the main thread of the trainer is
  ghost           \* history: episodes removed by a thread while a revert of
                  \* them stood between its mutation and its lock

serverVars == <<engine_status, rec, unclaimed, finished, active>>
janitorVars == <<idle, expired>>
runnerVars == <<runner, posts, tries>>
vars == <<serverVars, janitorVars, call, held, runnerVars, trainer, ghost>>

Rolling == {"ENGINE.ROLLING", "ENGINE.ROLLING_POST"}
Statuses == Rolling \cup {"ENGINE.BOOTING", "ENGINE.WEIGHT_SYNCING"}
Callers == Clients \cup {Janitor}

Record == [status : {"absent", "registered", "claimed"},
           client : Clients \cup {NoClient},
           type   : EpisodeTypes \cup {"none"}]

Absent == [status |-> "absent", client |-> NoClient, type |-> "none"]
BugUnclaimedStatus == [Absent EXCEPT !.status = "unclaimed"]

\* A record nobody has claimed.  A revert leaves episode_type as it was; it is
\* overwritten by the next claim and read of claimed records only.
Registered == [status |-> "registered", client |-> NoClient, type |-> "none"]

\* A request in flight: op is what was asked, at is where it stands.
\*   end:                 dispatched -> sent -> acked -> recorded
\*   eval, abort, expire: reset -> tail -> commit
CallOps == {"none", "end", "eval", "abort", "expire"}
CallPlaces == {"returned", "dispatched", "sent", "acked", "recorded", "reset", "tail", "commit"}
Returned == [op |-> "none", at |-> "returned"]

\* The janitor's requests are reverts of expired claims and nothing else.
CallsOK ==
  /\ call \in [Callers -> [Episodes -> [op : CallOps, at : CallPlaces]]]
  /\ \A e \in Episodes : call[Janitor][e].op \in {"none", "expire"}

TypeOK ==
  /\ engine_status \in Statuses
  /\ rec \in [Episodes -> Record]
  /\ unclaimed \in Seq(Episodes)
  /\ finished \subseteq Episodes
  /\ active \subseteq Clients
  /\ idle \subseteq Episodes
  /\ expired \subseteq Episodes
  /\ CallsOK
  /\ held \in [Clients -> SUBSET Episodes]
  /\ runner \in [Episodes -> {"unborn", "registering", "waiting", "took", "left"}]
  /\ posts \in [Episodes -> Nat]
  /\ tries \in [Episodes -> Nat]
  /\ trainer \in {"training", "collecting", "stopping", "draining", "leaving"}
  /\ ghost \subseteq Episodes

Init ==
  /\ engine_status = "ENGINE.BOOTING"
  /\ rec = [e \in Episodes |-> Absent]
  /\ unclaimed = <<>>
  /\ finished = {}
  /\ active = {}
  /\ idle = {}
  /\ expired = {}
  /\ call = [k \in Callers |-> [e \in Episodes |-> Returned]]
  /\ held = [c \in Clients |-> {}]
  /\ runner = [e \in Episodes |-> "unborn"]
  /\ posts = [e \in Episodes |-> 0]
  /\ tries = [e \in Episodes |-> 0]
  /\ trainer = "training"
  /\ ghost = {}

-----------------------------------------------------------------------------
(* Helpers *)

Present(e) == rec[e].status # "absent"
Claimed(e) == rec[e].status = "claimed"
InFlight(k, e) == call[k][e].at # "returned"

\* A revert of e has mutated the record and not yet taken the lock.
Committing(e) == \E k \in Callers : call[k][e].at = "commit"

\* The event loop runs no handler.
LoopFree == \A e \in Episodes : ~Committing(e)

\* observation_window["stop"] of the current rollout
StopFlag == trainer # "collecting"

RunnerLive(e) == runner[e] \in {"registering", "waiting"}

BugEnqueueTwice(e) == unclaimed' = Append(unclaimed, e)
Enqueue(e) ==
  unclaimed' = IF Contains(unclaimed, e) THEN unclaimed ELSE Append(unclaimed, e)

BugKeepRecord(e) == unclaimed' = RemoveFirst(unclaimed, e) /\ UNCHANGED <<rec, idle>>
BugDropHead(e) ==
  /\ rec' = [rec EXCEPT ![e] = Absent]
  /\ unclaimed' = IF unclaimed = <<>> THEN <<>> ELSE Tail(unclaimed)
  /\ idle' = idle \ {e}
DeleteRecord(e) ==
  /\ rec' = [rec EXCEPT ![e] = Absent]
  /\ unclaimed' = RemoveFirst(unclaimed, e)
  /\ idle' = idle \ {e}

BugRegisterOnce(e) ==
  /\ rec' = [rec EXCEPT ![e] = Registered]
  /\ unclaimed' = IF Present(e) THEN unclaimed ELSE Append(unclaimed, e)
  /\ idle' = idle \ {e}
AddRecord(e) ==
  /\ rec' = [rec EXCEPT ![e] = Registered]
  /\ unclaimed' = Append(unclaimed, e)
  /\ idle' = idle \ {e}

Goto(k, e, op, at) == call' = [call EXCEPT ![k][e] = [op |-> op, at |-> at]]
Return(k, e) == call' = [call EXCEPT ![k][e] = Returned]

\* _register_active_client, run when the request declares its client active
MayActivate(c) ==
  \E declare \in Declares : active' = IF declare THEN active \cup {c} ELSE active
ActivateIfAbort(k, op) == IF op = "abort" THEN MayActivate(k) ELSE UNCHANGED active

-----------------------------------------------------------------------------
(* Runners: register_episode_and_wait_output and the register_episode handler *)

\* A worker thread begins an episode: unless the stop flag is up it registers it.
StartRunner(e) ==
  /\ runner[e] = "unborn"
  /\ ~StopFlag
  /\ runner' = [runner EXCEPT ![e] = "registering"]
  /\ tries' = [tries EXCEPT ![e] = 1]
  /\ posts' = [posts EXCEPT ![e] = 1]
  /\ UNCHANGED <<serverVars, janitorVars, call, held, trainer, ghost>>

\* No reply has come: http_register_episode is retried, and gives up by itself
\* when the stop flag is up by then.
RetryRegister(e) ==
  /\ runner[e] = "registering"
  /\ tries[e] <= MaxResend
  /\ tries' = [tries EXCEPT ![e] = @ + 1]
  /\ IF StopFlag
     THEN runner' = [runner EXCEPT ![e] = "left"] /\ UNCHANGED posts
     ELSE posts' = [posts EXCEPT ![e] = @ + 1] /\ UNCHANGED runner
  /\ UNCHANGED <<serverVars, janitorVars, call, held, trainer, ghost>>

\* The handler register_episode, and its reply: delivered, or lost when the
\* runner may still repeat the POST.  A runner that has its reply ignores others.
RegisterEpisode(e) ==
  /\ LoopFree
  /\ posts[e] > 0
  /\ posts' = [posts EXCEPT ![e] = @ - 1]
  /\ IF engine_status = "ENGINE.ROLLING"
     THEN AddRecord(e)
     ELSE UNCHANGED <<rec, unclaimed, idle>>
  /\ \/ /\ runner[e] = "registering"
        /\ runner' = [runner EXCEPT ![e] =
                        IF engine_status = "ENGINE.ROLLING" THEN "waiting" ELSE "left"]
     \/ /\ runner[e] # "registering" \/ tries[e] <= MaxResend
        /\ UNCHANGED runner
  /\ UNCHANGED <<engine_status, finished, active, expired, call, held, tries, trainer, ghost>>

\* The handler is_episode_claimed with unregister_if_not_claimed: its answer, and
\* what it does when the answer is no.
BugHasRecord(e) == engine_status \in Rolling /\ Present(e)
HasClaimed(e) == engine_status \in Rolling /\ Claimed(e)
BugNoUnregister(e) == UNCHANGED <<rec, unclaimed, idle>>
Unregister(e) ==
  IF engine_status \in Rolling /\ Present(e)
  THEN DeleteRecord(e)
  ELSE UNCHANGED <<rec, unclaimed, idle>>

\* recv_string timed out and the stop flag is up: should_interrupt_hard_fn gives
\* the episode up unless a client has it.
RunnerExit(e) ==
  /\ LoopFree
  /\ runner[e] = "waiting"
  /\ StopFlag
  /\ ~HasClaimed(e)
  /\ Unregister(e)
  /\ runner' = [runner EXCEPT ![e] = "left"]
  /\ UNCHANGED <<engine_status, finished, active, expired, call, held, posts, tries, trainer, ghost>>

\* The runner receives a workflow output, acknowledges it and closes its socket.
RunnerTakeOutput(c, e) ==
  /\ runner[e] = "waiting"
  /\ call[c][e].at = "sent"
  /\ runner' = [runner EXCEPT ![e] = "took"]
  /\ Goto(c, e, "end", "acked")
  /\ UNCHANGED <<serverVars, janitorVars, held, posts, tries, trainer, ghost>>

\* The runner resets its context tracker, acknowledges and keeps waiting.
RunnerReset(k, e) ==
  /\ runner[e] = "waiting"
  /\ call[k][e].at = "reset"
  /\ Goto(k, e, call[k][e].op, "tail")
  /\ UNCHANGED <<serverVars, janitorVars, held, runnerVars, trainer, ghost>>

-----------------------------------------------------------------------------
(* Clients *)

\* The head of the list is popped whether or not its record is still there.
ClaimEpisode(c, type) ==
  /\ LoopFree
  /\ engine_status = "ENGINE.ROLLING"
  /\ unclaimed # <<>>
  /\ unclaimed' = Tail(unclaimed)
  /\ LET e == Head(unclaimed)
     IN  IF Present(e)
         THEN /\ rec' = [rec EXCEPT ![e] =
                           [status |-> "claimed", client |-> c, type |-> type]]
              /\ held' = [held EXCEPT ![c] = @ \cup {e}]
              /\ idle' = idle \ {e}
         ELSE UNCHANGED <<rec, held, idle>>
  /\ UNCHANGED <<engine_status, finished, active, expired, call, runnerVars, trainer, ghost>>

\* A chat completion refreshes the activity of its episode, in the handler and
\* then every thirty seconds in the thread that waits for the answer, which does
\* not look at the engine status first.  The caller need not own the episode any
\* more: only the episode's key is looked up.
LlmCall(e) ==
  /\ Present(e)
  /\ idle' = idle \ {e}
  /\ UNCHANGED <<serverVars, expired, call, held, runnerVars, trainer, ghost>>

\* Time passes: nothing has refreshed the claim for discard_episode_timeout.
GoIdle(e) ==
  /\ Claimed(e)
  /\ idle' = idle \cup {e}
  /\ UNCHANGED <<serverVars, expired, call, held, runnerVars, trainer, ghost>>

\* What end_episode checks before it does anything.  A refused request changes
\* nothing, and the client keeps the episode (it may still abort it).
MayEnd(c, e, type) ==
  /\ LoopFree
  /\ e \in held[c]
  /\ ~InFlight(c, e)
  /\ engine_status \in Rolling
  /\ Claimed(e)
  /\ rec[e].client = c
  /\ rec[e].type = type

GiveUp(c, e) == held' = [held EXCEPT ![c] = @ \ {e}]

EndTrainEpisode(c, e) ==
  /\ MayEnd(c, e, "train")
  /\ GiveUp(c, e)
  /\ Goto(c, e, "end", "dispatched")
  /\ UNCHANGED <<serverVars, janitorVars, runnerVars, trainer, ghost>>

\* The first half of _revert_episode_to_unclaimed, up to its await.
RevertEnter(k, e, op) ==
  IF Claimed(e)
  THEN /\ Goto(k, e, op, "reset")
       /\ UNCHANGED <<unclaimed, active>>
  ELSE /\ IF Present(e) THEN Enqueue(e) ELSE UNCHANGED unclaimed
       /\ ActivateIfAbort(k, op)
       /\ UNCHANGED call

EndEvalEpisode(c, e) ==
  /\ MayEnd(c, e, "eval")
  /\ GiveUp(c, e)
  /\ IF engine_status = "ENGINE.ROLLING"
     THEN RevertEnter(c, e, "eval") /\ UNCHANGED <<rec, idle>>
     ELSE DeleteRecord(e) /\ UNCHANGED <<call, active>>
  /\ UNCHANGED <<engine_status, finished, expired, runnerVars, trainer, ghost>>

\* abort_episode looks neither at the client nor at the status of the record.
AbortEpisode(c, e) ==
  /\ LoopFree
  /\ e \in held[c]
  /\ ~InFlight(c, e)
  /\ GiveUp(c, e)
  /\ IF engine_status \in Rolling /\ Present(e)
     THEN \/ /\ engine_status = "ENGINE.ROLLING"
             /\ RevertEnter(c, e, "abort")
             /\ UNCHANGED <<rec, idle>>
          \/ /\ engine_status = "ENGINE.ROLLING_POST"
             /\ DeleteRecord(e)
             /\ MayActivate(c)
             /\ UNCHANGED call
     ELSE UNCHANGED <<rec, unclaimed, active, idle, call>>
  /\ UNCHANGED <<engine_status, finished, expired, runnerVars, trainer, ghost>>

-----------------------------------------------------------------------------
(* The rest of end_episode: _register_final_episode_output_blocking in its thread *)

\* The thread reads the address from the record, which may be gone by now (KeyError).
SendOutput(c, e) ==
  /\ call[c][e].at = "dispatched"
  /\ IF Present(e) THEN Goto(c, e, "end", "sent") ELSE Return(c, e)
  /\ UNCHANGED <<serverVars, janitorVars, held, runnerVars, trainer, ghost>>

\* No ack: the engine has left rolling, or all RCVTIMEO_WAIT_N waits have passed.
\* A waiting runner answers within a second, so only a dead one lets them all pass.
StopWaitingForAck(c, e) ==
  /\ call[c][e].at = "sent"
  /\ engine_status \notin Rolling \/ ~RunnerLive(e)
  /\ Goto(c, e, "end", "acked")
  /\ UNCHANGED <<serverVars, janitorVars, held, runnerVars, trainer, ghost>>

RecordOutput(c, e) ==
  /\ call[c][e].at = "acked"
  /\ finished' = IF Present(e) THEN finished \cup {e} ELSE finished
  /\ DeleteRecord(e)
  /\ ghost' = IF Committing(e) THEN ghost \cup {e} ELSE ghost
  /\ Goto(c, e, "end", "recorded")
  /\ UNCHANGED <<engine_status, active, expired, held, runnerVars, trainer>>

\* Back on the event loop, the handler marks the client active and replies.
EndReturns(c, e) ==
  /\ LoopFree
  /\ call[c][e].at = "recorded"
  /\ MayActivate(c)
  /\ Return(c, e)
  /\ UNCHANGED <<engine_status, rec, unclaimed, finished, janitorVars, held, runnerVars, trainer, ghost>>

-----------------------------------------------------------------------------
(* The rest of _revert_episode_to_unclaimed *)

\* _context_tracker_reset_blocking ends without an ack: the record is gone, or the
\* wait was exhausted on a dead runner; or it raises, the engine having left rolling.
BugWaitForRunner(k, e) ==
  /\ call[k][e].at = "reset"
  /\ Present(e) /\ engine_status \notin Rolling
  /\ Return(k, e)
  /\ UNCHANGED <<serverVars, janitorVars, held, runnerVars, trainer, ghost>>
StopWaitingForReset(k, e) ==
  /\ call[k][e].at = "reset"
  /\ \/ /\ ~Present(e) \/ (engine_status \in Rolling /\ ~RunnerLive(e))
        /\ Goto(k, e, call[k][e].op, "tail")
     \/ /\ Present(e) /\ engine_status \notin Rolling
        /\ Return(k, e)
  /\ UNCHANGED <<serverVars, janitorVars, held, runnerVars, trainer, ghost>>

\* Back on the event loop: nothing is done for a record that is gone; one that is
\* there is mutated in place, whoever owns it now, before the lock is taken.
BugRevertBlindly(k, e) ==
  /\ LoopFree
  /\ call[k][e].at = "tail"
  /\ rec' = [rec EXCEPT ![e] = Registered]
  /\ idle' = idle \ {e}
  /\ Goto(k, e, call[k][e].op, "commit")
  /\ UNCHANGED <<engine_status, unclaimed, finished, active, expired, held, runnerVars, trainer, ghost>>
RevertTail(k, e) ==
  /\ LoopFree
  /\ call[k][e].at = "tail"
  /\ IF Present(e)
     THEN /\ rec' = [rec EXCEPT ![e] = Registered]
          /\ idle' = idle \ {e}
          /\ Goto(k, e, call[k][e].op, "commit")
          /\ UNCHANGED active
     ELSE /\ Return(k, e)
          /\ ActivateIfAbort(k, call[k][e].op)
          /\ UNCHANGED <<rec, idle>>
  /\ UNCHANGED <<engine_status, unclaimed, finished, expired, held, runnerVars, trainer, ghost>>

\* Under the lock the mutated object is written back, even over a removal.
RevertCommit(k, e) ==
  /\ call[k][e].at = "commit"
  /\ rec' = [rec EXCEPT ![e] = Registered]
  /\ Enqueue(e)
  /\ Return(k, e)
  /\ ActivateIfAbort(k, call[k][e].op)
  /\ UNCHANGED <<engine_status, finished, janitorVars, held, runnerVars, trainer, ghost>>

-----------------------------------------------------------------------------
(* The janitor: register_episode_ready_listener, one revert at a time *)

JanitorFree == LoopFree /\ \A e \in Episodes : ~InFlight(Janitor, e)

\* The scan collects every idle claim and at once enters the revert of one of them.
BugScanWhileRolling(e) ==
  /\ JanitorFree
  /\ expired = {}
  /\ e \in idle
  /\ engine_status = "ENGINE.ROLLING"
  /\ expired' = idle \ {e}
  /\ RevertEnter(Janitor, e, "expire")
  /\ UNCHANGED <<engine_status, rec, finished, idle, held, runnerVars, trainer, ghost>>
JanitorScan(e) ==
  /\ JanitorFree
  /\ expired = {}
  /\ e \in idle
  /\ expired' = idle \ {e}
  /\ RevertEnter(Janitor, e, "expire")
  /\ UNCHANGED <<engine_status, rec, finished, idle, held, runnerVars, trainer, ghost>>

\* The others follow from the list of that scan, however old it is by then.
JanitorNext(e) ==
  /\ JanitorFree
  /\ e \in expired
  /\ expired' = expired \ {e}
  /\ RevertEnter(Janitor, e, "expire")
  /\ UNCHANGED <<engine_status, rec, finished, idle, held, runnerVars, trainer, ghost>>

\* _expire_inactive_clients, between two scans
ExpireClients ==
  /\ JanitorFree
  /\ expired = {}
  /\ \E gone \in SUBSET active : gone # {} /\ active' = active \ gone
  /\ UNCHANGED <<engine_status, rec, unclaimed, finished, janitorVars, call, held, runnerVars, trainer, ghost>>

-----------------------------------------------------------------------------
(* The trainer: rollout_swarm and the update_engine_status handler *)

StartRolling ==
  /\ LoopFree
  /\ trainer = "training"
  /\ engine_status' = "ENGINE.ROLLING"
  /\ trainer' = "collecting"
  /\ UNCHANGED <<rec, unclaimed, finished, active, janitorVars, call, held, runnerVars, ghost>>

\* stop_all_threads_soft raises the stop flags ...
StopCollecting ==
  /\ trainer = "collecting"
  /\ trainer' = "stopping"
  /\ UNCHANGED <<serverVars, janitorVars, call, held, runnerVars, ghost>>

\* ... and then tells the server.
EnterRollingPost ==
  /\ LoopFree
  /\ trainer = "stopping"
  /\ engine_status' = "ENGINE.ROLLING_POST"
  /\ trainer' = "draining"
  /\ UNCHANGED <<rec, unclaimed, finished, active, janitorVars, call, held, runnerVars, ghost>>

\* executor.shutdown(wait=True) has returned: stop_all_threads_hard.
EnterWeightSyncing ==
  /\ LoopFree
  /\ trainer = "draining"
  /\ \A e \in Episodes : ~RunnerLive(e)
  /\ engine_status' = "ENGINE.WEIGHT_SYNCING"
  /\ trainer' = "leaving"
  /\ UNCHANGED <<rec, unclaimed, finished, active, janitorVars, call, held, runnerVars, ghost>>

\* _clean_up_engine_status in its thread, after the sleep; then the POST returns.
CleanUpEngineStatus ==
  /\ trainer = "leaving"
  /\ rec' = [e \in Episodes |-> Absent]
  /\ finished' = {}
  /\ unclaimed' = <<>>
  /\ active' = {}
  /\ idle' = {}
  /\ ghost' = ghost \cup {e \in Episodes : Committing(e)}
  /\ trainer' = "training"
  /\ UNCHANGED <<engine_status, expired, call, held, runnerVars>>

-----------------------------------------------------------------------------

RunnerStep(e) ==
  \/ StartRunner(e) \/ RetryRegister(e) \/ RunnerExit(e)
  \/ \E c \in Clients : RunnerTakeOutput(c, e)
  \/ \E k \in Callers : RunnerReset(k, e)

ServerStep(e) ==
  \/ RegisterEpisode(e)
  \/ \E c \in Clients : SendOutput(c, e) \/ StopWaitingForAck(c, e)
                          \/ RecordOutput(c, e) \/ EndReturns(c, e)
  \/ \E k \in Callers : StopWaitingForReset(k, e) \/ RevertTail(k, e) \/ RevertCommit(k, e)
  \/ JanitorScan(e) \/ JanitorNext(e)

ClientStep(c) ==
  \/ \E type \in EpisodeTypes : ClaimEpisode(c, type)
  \/ \E e \in Episodes : EndTrainEpisode(c, e) \/ EndEvalEpisode(c, e) \/ AbortEpisode(c, e)

TrainerStep ==
  StartRolling \/ StopCollecting \/ EnterRollingPost \/ EnterWeightSyncing \/ CleanUpEngineStatus

Next ==
  \/ \E e \in Episodes : RunnerStep(e) \/ ServerStep(e) \/ LlmCall(e) \/ GoIdle(e)
  \/ \E c \in Clients : ClientStep(c)
  \/ ExpireClients
  \/ TrainerStep

Spec == Init /\ [][Next]_vars

\* What a thread of request k goes on to do, and what the runner answers it.
ThreadStep(k, e) ==
  \/ /\ k \in Clients
     /\ RunnerTakeOutput(k, e) \/ SendOutput(k, e) \/ StopWaitingForAck(k, e) \/ RecordOutput(k, e)
  \/ RunnerReset(k, e) \/ StopWaitingForReset(k, e) \/ RevertCommit(k, e)

\* What the event loop goes on to do for request k.
LoopStep(k, e) == (k \in Clients /\ EndReturns(k, e)) \/ RevertTail(k, e)

TrainerDrains == EnterRollingPost \/ EnterWeightSyncing \/ CleanUpEngineStatus

\* Threads and runners go on.  So does the event loop, which serves its callbacks
\* in order: a commit in between only delays one (strong fairness).  Nothing is
\* asked of clients, which may crash or never come back; the one assumption about
\* them is that a claim is at last left alone for discard_episode_timeout, and
\* for long enough that the janitor's scan, every ten seconds, finds it so.
Fairness ==
  /\ \A e \in Episodes :
       /\ SF_vars(RegisterEpisode(e))
       /\ WF_vars(RunnerExit(e))
       /\ WF_vars(GoIdle(e))
       /\ SF_vars(JanitorScan(e) \/ JanitorNext(e))
       /\ \A k \in Callers : WF_vars(ThreadStep(k, e)) /\ SF_vars(LoopStep(k, e))
  /\ SF_vars(TrainerDrains)

FairSpec == Spec /\ Fairness

-----------------------------------------------------------------------------
(* Safety *)

\* A registered episode is in the list, so some client can still get it: no
\* handler, thread or early return loses it.  The exception lasts from the
\* mutation to the lock of one revert, when no handler runs.
NoLostEpisode ==
  \A e \in Episodes :
    rec[e].status = "registered" => Contains(unclaimed, e) \/ Committing(e)

\* The list holds no duplicate and no episode that is claimed or gone, so one
\* episode is never handed to two clients.  Holds when no registration POST is
\* repeated.
QueueExact ==
  /\ \A i, j \in 1..Len(unclaimed) : unclaimed[i] = unclaimed[j] => i = j
  /\ \A i \in 1..Len(unclaimed) : rec[unclaimed[i]].status = "registered"

\* Two exceptions to what follows.  A ghost was brought back by the window above.  An
\* episode whose runner tried to register it twice may be recorded by a POST that is
\* handled when its runner has left or its output has been taken.
Regular == {e \in Episodes \ ghost : tries[e] <= 1}

\* While the engine rolls, the record of a regular episode has a runner behind it
\* that will answer, or an output the runner took is about to remove it.
RecordHasRunner ==
  \A e \in Regular :
    Present(e) /\ engine_status \in Rolling =>
      RunnerLive(e) \/ \E c \in Clients : call[c][e].at = "acked"

\* A regular episode that is finished is over: no record of it comes back for
\* another client to claim.
FinishedIsFinal == \A e \in finished \cap Regular : ~Present(e)

\* Once the engine has left rolling and cleaned up, no late request of the old
\* rollout, a repeated registration included, brings an episode back (a ghost
\* excepted) before the next one starts.
TrainingStartsClean ==
  trainer = "training" =>
    \A e \in Episodes \ ghost : ~Present(e) /\ ~Contains(unclaimed, e)

\* The server's list and records implement the abstract pool.
Pool == INSTANCE EpisodePool WITH
          Nobody <- NoClient,
          open   <- engine_status = "ENGINE.ROLLING",
          free   <- unclaimed,
          owner  <- [e \in Episodes |-> IF Claimed(e) THEN rec[e].client ELSE NoClient]
PoolRefinement == Pool!PoolSpec

-----------------------------------------------------------------------------
(* Liveness, under FairSpec *)

\* Once the trainer has asked for the stop, every runner leaves and weight
\* syncing begins, whatever is claimed and whoever has crashed
\* (docs/en/swarm_deepdive.md: "weight syncing won't be blocked by zombie episodes").
RollingPostDrains == trainer = "stopping" ~> trainer = "training"

\* The one janitor comes back from every revert, also of an episode that ends, is
\* deleted or loses its runner meanwhile: it can go on to the next idle claim.
JanitorComesBack == \A e \in Episodes : InFlight(Janitor, e) ~> ~InFlight(Janitor, e)

-----------------------------------------------------------------------------
(* What the documentation says and the code does not do *)

\* A claim its client has not given up is taken away only after it has been
\* idle (docs/en/swarm_deepdive.md, on begin_episode).
ClaimKept ==
  [][\A c \in Clients, e \in Episodes :
       /\ Claimed(e) /\ rec[e].client = c
       /\ e \in held[c] \cap held'[c]
       /\ e \notin idle
       /\ engine_status \in Rolling
       => rec'[e] = rec[e]]_vars

==============================================================================
