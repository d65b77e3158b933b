------------------------------ MODULE SwarmClient ------------------------------
(***************************************************************************)
(* A client of the swarm server at work: the executor that hands out its   *)
(* tasks in groups, the threads that begin and end episodes for them, and  *)
(* the throttle that keeps the client to its share of a batch.             *)
(*                                                                         *)
(* Each task is to be done NumRepeat times: each time is a job, run by a   *)
(* thread of its own that tries again whenever something is raised.  To    *)
(* begin an episode a thread waits for the status, takes the lock, looks   *)
(* at the statistics of the batch, and claims.  Other clients claim too.   *)
(*                                                                         *)
(* Of the server, each episode of the pool is here in one of two states,   *)
(* free or claimed, and so are the statistics and the status; how claims   *)
(* are taken back is module SwarmServer.  The trainer collects under       *)
(* rollout_until_finish_enough_tasks, which the throttle requires.         *)
(*                                                                         *)
(* A definition whose name begins with Bug is not part of the model: it is *)
(* the definition after it with a plausible mistake, kept to show which    *)
(* property notices.                                                       *)
(***************************************************************************)
EXTENDS Integers, SequencesExt

CONSTANTS
  NumTasks,     \* the client's tasks are 1..NumTasks
  Repeats,      \* the jobs of a task
  BatchSize,    \* expected_batch_size, and the trainer's n_batch_task
  Limit,        \* expected_batch_size * ratio, rounded up
  MaxGroups,    \* max_parallel_groups of the executor
  Episodes,     \* places in the pool; a finished episode makes room for a new one
  MaxForeign,   \* bound: claims of other clients in a batch
  NoEpisode

ASSUME ClientAssumption ==
  /\ NumTasks \in Nat /\ IsFiniteSet(Repeats) /\ Repeats # {} /\ BatchSize \in Nat \ {0}
  /\ Limit \in Nat \ {0} /\ MaxGroups \in Nat \ {0} /\ MaxForeign \in Nat
  /\ NoEpisode \notin Episodes

Tasks == 1..NumTasks
NoTask == 0
Jobs == Tasks \X Repeats
NumRepeat == Cardinality(Repeats)   \* expected_num_repeat, and the trainer's rollout_n
TaskOf(j) == j[1]

VARIABLES
  engine,     \* the status on the server
  submitted,  \* the groups submitted so far are those of tasks 1..submitted
  pc,         \* where each job's thread is
  holds,      \* the episode a job works on, as far as it knows
  seen,       \* _recent_seen_tasks
  record,     \* the records: whose claim, and optional_task_id
  finished,   \* of each task, whose claims were finished, up to the first of its own
  foreign     \* in this batch: how many claims other clients made, and the tasks
              \* whose identifier stood in an episode they claimed

serverVars == <<engine, record, finished, foreign>>
vars == <<serverVars, submitted, pc, holds, seen>>

Free == [owner |-> "nobody", task |-> NoTask]
NoForeign == [claimed |-> 0, shared |-> {}]

\* A job: not submitted; to begin an episode; let in by the count or past it, and to
\* claim with the lock held; at work on an episode; done.
Places == {"none", "begin", "counted", "bypassing", "working", "done"}

TypeOK ==
  /\ engine \in {"rolling", "post", "syncing"}
  /\ submitted \in 0..NumTasks
  /\ pc \in [Jobs -> Places]
  /\ holds \in [Jobs -> Episodes \cup {NoEpisode}]
  /\ seen \in Seq(Tasks) /\ Len(seen) <= BatchSize * NumRepeat * 3 /\ IsInjective(seen)
  /\ record \in [Episodes -> [owner : {"nobody", "own", "other"}, task : Tasks \cup {NoTask}]]
  /\ \A t \in Tasks : finished[t] \in Seq({"own", "other"})
  /\ foreign \in [claimed : 0..MaxForeign, shared : SUBSET Tasks]

Init ==
  /\ engine = "rolling"
  /\ submitted = 0
  /\ pc = [j \in Jobs |-> "none"]
  /\ holds = [j \in Jobs |-> NoEpisode]
  /\ seen = <<>>
  /\ record = [e \in Episodes |-> Free]
  /\ finished = [t \in Tasks |-> <<>>]
  /\ foreign = NoForeign

Goto(j, place) == pc' = [pc EXCEPT ![j] = place]

-----------------------------------------------------------------------------
(* The executor and the poller *)

InFlight(t) == t <= submitted /\ \E j \in Jobs : TaskOf(j) = t /\ pc[j] # "done"

\* A group's slot is given back when the last job of the group is done.
SubmitGroup ==
  /\ submitted < NumTasks
  /\ Cardinality({t \in Tasks : InFlight(t)}) < MaxGroups
  /\ submitted' = submitted + 1
  /\ pc' = [j \in Jobs |-> IF TaskOf(j) = submitted' THEN "begin" ELSE pc[j]]
  /\ UNCHANGED <<serverVars, holds, seen>>

-----------------------------------------------------------------------------
(* begin_episode *)

\* What _check_throttle_policy makes of the statistics.  Of a task's finished episodes
\* it looks at none after the first of its own: finished leaves them out.
Running == {e \in Episodes : record[e].owner # "nobody"}
WorkedOnBy(owner) ==
  {t \in Tasks : Contains(finished[t], owner) \/
                 \E e \in Running : record[e] = [owner |-> owner, task |-> t]}
TaskSet == WorkedOnBy("own")
AlienSet == WorkedOnBy("other")
RealUnique == TaskSet \ AlienSet

\* Nothing runs, and the batch is not complete as far as the count goes.
Hatch ==
  /\ Running = {}
  /\ Cardinality({t \in Tasks : Len(finished[t]) >= NumRepeat}) < BatchSize

Bypass(t) == Hatch \/ Contains(seen, t) \/ t \in TaskSet \cup AlienSet
Throttled(t) == ~Bypass(t) /\ Cardinality(RealUnique) >= Limit

\* A task is remembered before anything is claimed for it.
BugRemember(t) == seen' = Append(seen, t)
Remember(t) ==
  seen' = IF Contains(seen, t) THEN seen
          ELSE LET longer == Append(seen, t)
                   size   == BatchSize * NumRepeat * 3
               IN  SubSeq(longer, IF Len(longer) > size THEN Len(longer) - size + 1 ELSE 1, Len(longer))

\* The thread has seen ROLLING, and waited for the lock since: what it saw may have
\* been any while old, so the status is no guard.  With the lock it looks at the
\* statistics; a task that is throttled goes round again.  Without statistics (the
\* request failed, here or there) the policy sees an empty pool.
Holding(j) == pc[j] \in {"counted", "bypassing"}
BugLockIsFree == TRUE
LockIsFree == \A k \in Jobs : ~Holding(k)

Admit(j) ==
  /\ pc[j] = "begin"
  /\ LockIsFree
  /\ Remember(TaskOf(j))
  /\ \/ ~Bypass(TaskOf(j)) /\ ~Throttled(TaskOf(j)) /\ Goto(j, "counted")
     \/ Goto(j, "bypassing")
  /\ UNCHANGED <<serverVars, submitted, holds>>

ClaimAt(e, owner, task) ==
  /\ engine = "rolling"
  /\ record[e].owner = "nobody"
  /\ record' = [record EXCEPT ![e] = [owner |-> owner, task |-> task]]

Claim(j) ==
  /\ pc[j] \in {"counted", "bypassing"}
  /\ \E e \in Episodes :
       /\ ClaimAt(e, "own", TaskOf(j))
       /\ holds' = [holds EXCEPT ![j] = e]
  /\ Goto(j, "working")
  /\ UNCHANGED <<engine, finished, foreign, submitted, seen>>

\* Refused, or the reply is lost: the lock is released, and the thread begins anew.
ClaimFails(j) ==
  /\ pc[j] \in {"counted", "bypassing"}
  /\ \/ /\ engine # "rolling" \/ Running = Episodes
        /\ UNCHANGED record
     \/ \E e \in Episodes : ClaimAt(e, "own", TaskOf(j))
  /\ Goto(j, "begin")
  /\ UNCHANGED <<engine, finished, foreign, submitted, holds, seen>>

-----------------------------------------------------------------------------
(* end_episode and abort_episode *)

\* The episode is over: its uuid is known no more, a new one takes its place.
Forget(e) ==
  /\ record' = [record EXCEPT ![e] = Free]
  /\ holds' = [k \in Jobs |-> IF holds[k] = e THEN NoEpisode ELSE holds[k]]

\* The bug: every finished episode of a task counts.
BugFinish(t, owner) ==
  finished' = [k \in Tasks |-> IF k = t /\ Len(finished[t]) < NumRepeat
                               THEN Append(finished[t], owner) ELSE finished[k]]
Finish(t, owner) ==
  finished' = [k \in Tasks |-> IF k = t /\ ~Contains(finished[t], "own")
                               THEN Append(finished[t], owner) ELSE finished[k]]

\* The server looks whether its client has the claim, not whether this thread has.
MayEnd(j) ==
  /\ pc[j] = "working"
  /\ engine \in {"rolling", "post"}
  /\ holds[j] # NoEpisode /\ record[holds[j]].owner = "own"

\* Whether the trainer keeps the output (it drops one without timelines), and under
\* which task, the statistics do not tell.
Submit(j) ==
  /\ MayEnd(j)
  /\ Forget(holds[j])
  /\ Finish(record[holds[j]].task, "own")
  /\ UNCHANGED <<engine, foreign, submitted, seen>>

End(j) == Submit(j) /\ Goto(j, "done")

\* Refused, or the reply does not come in time: end_episode raises, the job starts over.
EndFails(j) ==
  \/ Submit(j) /\ Goto(j, "begin")
  \/ /\ pc[j] = "working"
     /\ engine \in {"rolling", "post"}
     /\ ~MayEnd(j)
     /\ Goto(j, "begin")
     /\ holds' = [holds EXCEPT ![j] = NoEpisode]
     /\ UNCHANGED <<serverVars, submitted, seen>>

\* While weights are synced the output is discarded with a warning.
EndTooLate(j) ==
  /\ pc[j] = "working"
  /\ engine = "syncing"
  /\ Goto(j, "done")
  /\ holds' = [holds EXCEPT ![j] = NoEpisode]
  /\ UNCHANGED <<serverVars, submitted, seen>>

\* abort_episode frees the episode whoever has it; in ROLLING_POST it deletes it.
Abort(j) ==
  IF engine # "syncing" /\ holds[j] # NoEpisode
  THEN IF engine = "post" THEN Forget(holds[j])
       ELSE /\ record' = [record EXCEPT ![holds[j]].owner = "nobody"]
            /\ holds' = [holds EXCEPT ![j] = NoEpisode]
  ELSE holds' = [holds EXCEPT ![j] = NoEpisode] /\ UNCHANGED record

\* The claim has lasted too long by the client's own clock: the job is done without output.
EndExpired(j) ==
  /\ pc[j] = "working"
  /\ Abort(j)
  /\ Goto(j, "done")
  /\ UNCHANGED <<engine, finished, foreign, submitted, seen>>

\* The agent raises; the rollout function aborts first, or does not care to.
AgentFails(j) ==
  /\ pc[j] = "working"
  /\ Abort(j) \/ (holds' = [holds EXCEPT ![j] = NoEpisode] /\ UNCHANGED record)
  /\ Goto(j, "begin")
  /\ UNCHANGED <<engine, finished, foreign, submitted, seen>>

-----------------------------------------------------------------------------
(* The server: its janitor, other clients, the trainer *)

\* An idle claim is taken back; the thread that holds it does not learn of it.
Reclaim(e) ==
  /\ engine \in {"rolling", "post"}
  /\ record[e].owner # "nobody"
  /\ record' = [record EXCEPT ![e].owner = "nobody"]
  /\ UNCHANGED <<engine, finished, foreign, submitted, pc, holds, seen>>

\* Another client, without a throttle, leaves optional_task_id as it is.
ForeignClaim(e) ==
  /\ foreign.claimed < MaxForeign
  /\ ClaimAt(e, "other", record[e].task)
  /\ foreign' = [foreign EXCEPT !.claimed = @ + 1, !.shared = @ \cup ({record[e].task} \ {NoTask})]
  /\ UNCHANGED <<engine, finished, submitted, pc, holds, seen>>

ForeignEnd(e) ==
  /\ engine \in {"rolling", "post"}
  /\ record[e].owner = "other"
  /\ Forget(e)
  /\ Finish(record[e].task, "other")
  /\ UNCHANGED <<engine, foreign, submitted, pc, seen>>

\* The trainer has enough tasks, of this client or of others.
StopRolling ==
  /\ engine = "rolling"
  /\ engine' = "post"
  /\ UNCHANGED <<record, finished, foreign, submitted, pc, holds, seen>>

StartSyncing ==
  /\ engine = "post"
  /\ Running = {}
  /\ engine' = "syncing"
  /\ UNCHANGED <<record, finished, foreign, submitted, pc, holds, seen>>

\* The pool has been cleaned up, and new runners have registered new episodes.
NextBatch ==
  /\ engine = "syncing"
  /\ engine' = "rolling"
  /\ record' = [e \in Episodes |-> Free]
  /\ holds' = [j \in Jobs |-> NoEpisode]
  /\ finished' = [t \in Tasks |-> <<>>]
  /\ foreign' = NoForeign
  /\ UNCHANGED <<submitted, pc, seen>>

-----------------------------------------------------------------------------

BeginStep(j) ==
  Admit(j) \/ Claim(j) \/ ClaimFails(j)

EndStep(j) ==
  End(j) \/ EndFails(j) \/ EndTooLate(j) \/ EndExpired(j) \/ AgentFails(j)

ServerStep ==
  \/ \E e \in Episodes : Reclaim(e) \/ ForeignClaim(e) \/ ForeignEnd(e)
  \/ StopRolling \/ StartSyncing \/ NextBatch

Next ==
  \/ SubmitGroup
  \/ \E j \in Jobs : BeginStep(j) \/ EndStep(j)
  \/ ServerStep

Spec == Init /\ [][Next]_vars

-----------------------------------------------------------------------------
(* Properties *)

\* The throttle holds: a task that the count lets into a batch finds fewer than the
\* limit of this client's tasks in it, not when the count was taken but when the claim
\* succeeds, however many threads try at once.
ThrottleBound ==
  [][\A j \in Jobs :
       pc[j] = "counted" /\ pc'[j] = "working"
         => Cardinality(TaskSet \ (foreign.shared \cup {TaskOf(j)})) < Limit]_vars

\* The throttle never holds up the batch it waits for: as long as no other client has
\* worked on this client's tasks, whenever nothing runs and jobs are waiting for the
\* batch, some job is let in, whatever was dropped, aborted or taken back.
NeverStarved ==
  /\ engine = "rolling"
  /\ Running = {} /\ foreign.shared = {}
  /\ \E j \in Jobs : pc[j] = "begin"
  => \E j \in Jobs : pc[j] = "begin" /\ ~Throttled(TaskOf(j))

==============================================================================
