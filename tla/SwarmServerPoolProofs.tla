------------------------ MODULE SwarmServerPoolProofs ------------------------
(***************************************************************************)
(* SwarmServer implements EpisodePool when no registration is repeated.    *)
(* The proof sorts the steps of the server by what they do to the records  *)
(* and the list (Shapes), and maps each shape to an action of the pool.    *)
(***************************************************************************)
EXTENDS SwarmServerProofs

\* A record a revert is about to write back is claimed by nobody; a claim names
\* a client; and the server is cleaned up only after it has left rolling.
ClaimInv ==
  /\ \A e \in Episodes : Committing(e) => ~Claimed(e)
  /\ \A e \in Episodes : Claimed(e) => rec[e].client \in Clients
  /\ trainer = "leaving" => engine_status = "ENGINE.WEIGHT_SYNCING"

NoNewCommit == \A x \in Episodes : Committing(x)' => Committing(x)

\* What a step may do to the records and the list
Quiet == UNCHANGED <<rec, unclaimed>>
Adds == \E e \in Episodes : RegisterEpisode(e) /\ AddRecord(e)
Deletes == \E e \in Episodes : DeleteRecord(e)
Enqueues == \E e \in Episodes : Present(e) /\ ~Claimed(e) /\ Enqueue(e) /\ UNCHANGED rec
Commits == \E k \in Callers, e \in Episodes : RevertCommit(k, e)
Mutates == \E k \in Callers, e \in Episodes : Present(e) /\ RevertTail(k, e)
Claims == \E c \in Clients, type \in EpisodeTypes : ClaimEpisode(c, type)

-----------------------------------------------------------------------------

LEMMA GotoNoCommit ==
  ASSUME CallsOK, NEW k \in Callers, NEW e \in Episodes, NEW op, NEW at,
         at # "commit", Goto(k, e, op, at)
  PROVE  NoNewCommit
<1> SUFFICES ASSUME NEW x \in Episodes, NEW l \in Callers, call'[l][x].at = "commit"
             PROVE  call[l][x].at = "commit"
  BY Zenon DEF NoNewCommit, Committing
<1> QED
  BY DEF Goto, CallsOK

LEMMA ReturnNoCommit ==
  ASSUME CallsOK, NEW k \in Callers, NEW e \in Episodes, Return(k, e)
  PROVE  NoNewCommit
<1> SUFFICES ASSUME NEW x \in Episodes, NEW l \in Callers, call'[l][x].at = "commit"
             PROVE  call[l][x].at = "commit"
  BY Zenon DEF NoNewCommit, Committing
<1> QED
  BY DEF Return, Returned, CallsOK

LEMMA SameCallNoCommit ==
  ASSUME UNCHANGED call
  PROVE  NoNewCommit
BY Zenon DEF NoNewCommit, Committing

LEMMA RevertEnterShape ==
  ASSUME CallsOK, NEW k \in Callers, NEW e \in Episodes, NEW op, RevertEnter(k, e, op), UNCHANGED rec
  PROVE  NoNewCommit /\ (Quiet \/ Enqueues)
<1>1. CASE Claimed(e)
  BY <1>1, GotoNoCommit DEF RevertEnter, Quiet
<1>2. CASE ~Claimed(e)
  <2>1. NoNewCommit
    BY <1>2, SameCallNoCommit DEF RevertEnter
  <2>2. UNCHANGED unclaimed \/ (Present(e) /\ Enqueue(e))
    BY <1>2, Zenon DEF RevertEnter
  <2> QED
    BY <1>2, <2>1, <2>2 DEF Quiet, Enqueues
<1> QED
  BY <1>1, <1>2

LEMMA RunnerShape ==
  ASSUME TypeOK, NEW e \in Episodes, RunnerStep(e)
  PROVE  NoNewCommit /\ (Quiet \/ Deletes) /\ UNCHANGED <<engine_status, trainer>>
<1>1. CASE StartRunner(e) \/ RetryRegister(e)
  BY <1>1, SameCallNoCommit DEF StartRunner, RetryRegister, Quiet, serverVars
<1>2. CASE RunnerExit(e)
  <2>1. Quiet \/ Deletes
    BY <1>2, Zenon DEF RunnerExit, Unregister, Quiet, Deletes
  <2> QED
    BY <1>2, <2>1, SameCallNoCommit DEF RunnerExit
<1>3. ASSUME NEW c \in Clients, RunnerTakeOutput(c, e)
      PROVE  NoNewCommit /\ Quiet /\ UNCHANGED <<engine_status, trainer>>
  BY <1>3, GotoNoCommit DEF RunnerTakeOutput, TypeOK, Callers, Quiet, serverVars
<1>4. ASSUME NEW k \in Callers, RunnerReset(k, e)
      PROVE  NoNewCommit /\ Quiet /\ UNCHANGED <<engine_status, trainer>>
  BY <1>4, GotoNoCommit DEF RunnerReset, TypeOK, Quiet, serverVars
<1> QED
  BY <1>1, <1>2, <1>3, <1>4 DEF RunnerStep

LEMMA EndStepShape ==
  ASSUME TypeOK, NEW e \in Episodes, NEW c \in Clients,
         SendOutput(c, e) \/ StopWaitingForAck(c, e) \/ RecordOutput(c, e) \/ EndReturns(c, e)
  PROVE  NoNewCommit /\ (Quiet \/ Deletes) /\ UNCHANGED <<engine_status, trainer>>
<1>1. c \in Callers
  BY DEF Callers
<1>2. NoNewCommit
  BY <1>1, GotoNoCommit, ReturnNoCommit
     DEF SendOutput, StopWaitingForAck, RecordOutput, EndReturns, TypeOK
<1>3. Quiet \/ Deletes
  BY DEF SendOutput, StopWaitingForAck, RecordOutput, EndReturns, serverVars, Quiet, Deletes
<1> QED
  BY <1>2, <1>3 DEF SendOutput, StopWaitingForAck, RecordOutput, EndReturns, serverVars

LEMMA ServerShape ==
  ASSUME TypeOK, NEW e \in Episodes, ServerStep(e)
  PROVE  /\ (NoNewCommit /\ (Quiet \/ Adds \/ Deletes \/ Enqueues \/ Commits)) \/ Mutates
         /\ UNCHANGED <<engine_status, trainer>>
<1>1. CASE RegisterEpisode(e)
  <2>1. Quiet \/ Adds
    BY <1>1, Zenon DEF RegisterEpisode, Quiet, Adds
  <2> QED
    BY <1>1, <2>1, SameCallNoCommit DEF RegisterEpisode
<1>2. ASSUME NEW k \in Callers, StopWaitingForReset(k, e)
      PROVE  NoNewCommit /\ Quiet /\ UNCHANGED <<engine_status, trainer>>
  BY <1>2, GotoNoCommit, ReturnNoCommit DEF StopWaitingForReset, TypeOK, Quiet, serverVars
<1>3. ASSUME NEW k \in Callers, RevertTail(k, e)
      PROVE  /\ (NoNewCommit /\ Quiet) \/ Mutates
             /\ UNCHANGED <<engine_status, trainer>>
  <2>1. CASE Present(e)
    BY <1>3, <2>1 DEF RevertTail, Mutates
  <2>2. CASE ~Present(e)
    BY <1>3, <2>2, ReturnNoCommit DEF RevertTail, Quiet, TypeOK
  <2> QED
    BY <2>1, <2>2
<1>4. ASSUME NEW k \in Callers, RevertCommit(k, e)
      PROVE  NoNewCommit /\ Commits /\ UNCHANGED <<engine_status, trainer>>
  <2>1. NoNewCommit /\ UNCHANGED <<engine_status, trainer>>
    BY <1>4, ReturnNoCommit DEF RevertCommit, TypeOK
  <2> QED
    BY <1>4, <2>1 DEF Commits
<1>5. CASE JanitorScan(e) \/ JanitorNext(e)
  BY <1>5, RevertEnterShape DEF JanitorScan, JanitorNext, Callers, TypeOK
<1> QED
  BY <1>1, <1>2, <1>3, <1>4, <1>5, EndStepShape DEF ServerStep

LEMMA ClientShape ==
  ASSUME TypeOK, NEW c \in Clients, ClientStep(c)
  PROVE  /\ NoNewCommit /\ (Quiet \/ Deletes \/ Enqueues \/ Claims)
         /\ UNCHANGED <<engine_status, trainer>>
<1>1. c \in Callers
  BY DEF Callers
<1>2. ASSUME NEW type \in EpisodeTypes, ClaimEpisode(c, type)
      PROVE  NoNewCommit /\ Claims /\ UNCHANGED <<engine_status, trainer>>
  <2>1. Claims
    BY <1>2, Zenon DEF Claims
  <2> QED
    BY <1>2, <2>1, ClaimEffect, SameCallNoCommit
<1>3. ASSUME NEW e \in Episodes,
             EndTrainEpisode(c, e) \/ EndEvalEpisode(c, e) \/ AbortEpisode(c, e)
      PROVE  NoNewCommit /\ (Quiet \/ Deletes \/ Enqueues) /\ UNCHANGED <<engine_status, trainer>>
  <2>1. \/ Quiet /\ UNCHANGED call
        \/ Quiet /\ Goto(c, e, "end", "dispatched")
        \/ UNCHANGED rec /\ \E op \in CallOps : RevertEnter(c, e, op)
        \/ Deletes /\ UNCHANGED call
    BY <1>3 DEF EndTrainEpisode, EndEvalEpisode, AbortEpisode, serverVars, CallOps, Quiet, Deletes
  <2>2. NoNewCommit /\ (Quiet \/ Deletes \/ Enqueues)
    BY <1>1, <2>1, SameCallNoCommit, GotoNoCommit, RevertEnterShape DEF TypeOK
  <2> QED
    BY <1>3, <2>2 DEF EndTrainEpisode, EndEvalEpisode, AbortEpisode, serverVars
<1> QED
  BY <1>2, <1>3 DEF ClientStep

\* Every step has one of these shapes, and only the trainer touches the status.
LEMMA Shapes ==
  ASSUME TypeOK, [Next]_vars
  PROVE  \/ /\ UNCHANGED <<engine_status, trainer>>
            /\ \/ NoNewCommit /\ (Quiet \/ Adds \/ Deletes \/ Enqueues \/ Commits \/ Claims)
               \/ Mutates
         \/ NoNewCommit /\ Quiet /\ TrainerStep
         \/ NoNewCommit /\ CleanUpEngineStatus
<1>1. ASSUME NEW e \in Episodes, LlmCall(e) \/ GoIdle(e)
      PROVE  NoNewCommit /\ Quiet /\ UNCHANGED <<engine_status, trainer>>
  BY <1>1, SameCallNoCommit DEF LlmCall, GoIdle, Quiet, serverVars
<1>2. CASE ExpireClients \/ UNCHANGED vars
  BY <1>2, SameCallNoCommit DEF ExpireClients, vars, serverVars, Quiet
<1>3. CASE TrainerStep
  <2>1. NoNewCommit
    BY <1>3, SameCallNoCommit DEF TrainerStep, StartRolling, StopCollecting, EnterRollingPost,
                                  EnterWeightSyncing, CleanUpEngineStatus
  <2>2. Quiet \/ CleanUpEngineStatus
    BY <1>3 DEF TrainerStep, StartRolling, StopCollecting, EnterRollingPost,
                EnterWeightSyncing, Quiet, serverVars
  <2> QED
    BY <1>3, <2>1, <2>2
<1> QED
  BY <1>1, <1>2, <1>3, RunnerShape, ServerShape, ClientShape DEF Next

-----------------------------------------------------------------------------
(* The invariant *)

\* A step that claims nothing keeps ClaimInv.
LEMMA NoNewClaim ==
  ASSUME ClaimInv, NoNewCommit,
         trainer' = "leaving" => engine_status' = "ENGINE.WEIGHT_SYNCING",
         \A x \in Episodes : Claimed(x)' => Claimed(x) /\ rec'[x] = rec[x]
  PROVE  ClaimInv'
BY Zenon DEF ClaimInv, NoNewCommit

LEMMA MutateEffect ==
  ASSUME TypeOK, NEW k \in Callers, NEW e \in Episodes, Present(e), RevertTail(k, e)
  PROVE  /\ rec' = [rec EXCEPT ![e] = Registered]
         /\ UNCHANGED <<unclaimed, engine_status, trainer>>
         /\ \A x \in Episodes : Committing(x)' => Committing(x) \/ x = e
<1>1. rec' = [rec EXCEPT ![e] = Registered] /\ UNCHANGED <<unclaimed, engine_status, trainer>>
  BY DEF RevertTail
<1>2. call' = [call EXCEPT ![k][e] = [op |-> call[k][e].op, at |-> "commit"]]
  BY Zenon DEF RevertTail, Goto
<1>3. ASSUME NEW x \in Episodes, x # e, NEW l \in Callers, call'[l][x].at = "commit"
      PROVE  call[l][x].at = "commit"
  BY <1>2, <1>3 DEF TypeOK, CallsOK
<1> QED
  BY <1>1, <1>3, Zenon DEF Committing

LEMMA ClaimInvStep ==
  ASSUME TypeOK, ClaimInv, [Next]_vars
  PROVE  ClaimInv'
<1>1. trainer' = "leaving" => engine_status' = "ENGINE.WEIGHT_SYNCING"
  <2>1. CASE UNCHANGED <<engine_status, trainer>>
    BY <2>1 DEF ClaimInv
  <2>2. CASE TrainerStep
    BY <2>2 DEF TrainerStep, StartRolling, StopCollecting, EnterRollingPost, EnterWeightSyncing,
                CleanUpEngineStatus
  <2>3. CleanUpEngineStatus => TrainerStep
    BY DEF TrainerStep
  <2> QED
    BY <2>1, <2>2, <2>3, Shapes
<1>2. ASSUME NoNewCommit, Quiet \/ Adds \/ Deletes \/ Enqueues \/ Commits \/ CleanUpEngineStatus
      PROVE  ClaimInv'
  <2>1. \/ rec' = rec
        \/ \E e \in Episodes : rec' = [rec EXCEPT ![e] = Registered] \/ rec' = [rec EXCEPT ![e] = Absent]
        \/ rec' = [e \in Episodes |-> Absent]
    BY <1>2 DEF Quiet, Adds, AddRecord, Deletes, DeleteRecord, Enqueues, Commits, RevertCommit,
                CleanUpEngineStatus
  <2>2. \A x \in Episodes : Claimed(x)' => Claimed(x) /\ rec'[x] = rec[x]
    BY <2>1 DEF Claimed, Registered, Absent, TypeOK
  <2> QED
    BY <1>1, <1>2, <2>2, NoNewClaim
<1>3. CASE Mutates
  <2>1. PICK k \in Callers, e \in Episodes : Present(e) /\ RevertTail(k, e)
    BY <1>3 DEF Mutates
  <2>2. /\ rec' = [rec EXCEPT ![e] = Registered]
        /\ \A x \in Episodes : Committing(x)' => Committing(x) \/ x = e
    BY <2>1, MutateEffect
  <2>3. ~Claimed(e)' /\ \A x \in Episodes : Claimed(x)' => Claimed(x) /\ rec'[x] = rec[x]
    BY <2>2 DEF Claimed, Registered, TypeOK
  <2> QED
    BY <1>1, <2>2, <2>3, Zenon DEF ClaimInv
<1>4. ASSUME NoNewCommit, Claims
      PROVE  ClaimInv'
  <2>1. PICK c \in Clients, type \in EpisodeTypes : ClaimEpisode(c, type)
    BY <1>4 DEF Claims
  <2> DEFINE h == Head(unclaimed)
  <2>2. /\ LoopFree /\ h \in Episodes
        /\ Present(h) =>
             rec' = [rec EXCEPT ![h] = [status |-> "claimed", client |-> c, type |-> type]]
        /\ ~Present(h) => rec' = rec
    BY <2>1, ClaimEffect
  <2> HIDE DEF h
  <2>3. \A x \in Episodes : ~Committing(x)'
    BY <1>4, <2>2, Zenon DEF NoNewCommit, LoopFree
  <2>4. \A x \in Episodes : Claimed(x)' => rec'[x].client \in Clients
    <3>1. CASE Present(h)
      <4>1. rec' = [rec EXCEPT ![h] = [status |-> "claimed", client |-> c, type |-> type]]
        BY <2>2, <3>1
      <4>2. rec'[h].client = c
        BY <2>2, <4>1 DEF TypeOK
      <4>3. \A x \in Episodes : x # h => rec'[x] = rec[x]
        BY <4>1 DEF TypeOK
      <4> QED
        BY <4>2, <4>3 DEF ClaimInv, Claimed
    <3>2. CASE ~Present(h)
      BY <2>2, <3>2, Zenon DEF ClaimInv, Claimed
    <3> QED
      BY <3>1, <3>2
  <2> QED
    BY <1>1, <2>3, <2>4, Zenon DEF ClaimInv
<1> QED
  BY <1>2, <1>3, <1>4, Shapes

LEMMA ClaimInvInit == Init => ClaimInv
BY DEF Init, ClaimInv, Committing, Claimed, Returned, Absent

-----------------------------------------------------------------------------
(* The refinement: each shape is an action of the pool *)

Owner == [e \in Episodes |-> IF Claimed(e) THEN rec[e].client ELSE NoClient]
Open == engine_status = "ENGINE.ROLLING"

\* The pool's membership test is that of the list.
LEMMA FreeIsContained ==
  ASSUME NEW e
  PROVE  Pool!IsFree(e) <=> Contains(unclaimed, e)
BY DEF Pool!IsFree, Contains

LEMMA SameOwner ==
  ASSUME \A x \in Episodes : (Claimed(x)' <=> Claimed(x)) /\ (Claimed(x) => rec'[x] = rec[x])
  PROVE  Owner' = Owner
BY DEF Owner

LEMMA SetOpenStep ==
  ASSUME unclaimed' = unclaimed, Owner' = Owner
  PROVE  Pool!PoolNext
<1>1. Pool!SetOpen
  BY DEF Pool!SetOpen, Owner
<1> QED
  BY <1>1 DEF Pool!PoolNext

LEMMA PublishStep ==
  ASSUME NEW e \in Episodes, ~Contains(unclaimed, e), ~Claimed(e), Owner' = Owner,
         unclaimed' = Append(unclaimed, e), UNCHANGED engine_status
  PROVE  Pool!PoolNext
<1>1. Pool!Publish(e)
  BY FreeIsContained DEF Pool!Publish, Owner
<1> QED
  BY <1>1 DEF Pool!PoolNext

LEMMA EnqueueStep ==
  ASSUME NEW e \in Episodes, ~Claimed(e), Owner' = Owner, Enqueue(e), UNCHANGED engine_status
  PROVE  Pool!PoolNext
BY SetOpenStep, PublishStep, Zenon DEF Enqueue

LEMMA ReleaseStep ==
  ASSUME TypeOK, NEW e \in Episodes, Claimed(e), rec[e].client \in Clients, ~Claimed(e)',
         \A x \in Episodes : x # e => rec'[x] = rec[x],
         UNCHANGED <<unclaimed, engine_status>>
  PROVE  Pool!PoolNext
<1>1. Owner' = [Owner EXCEPT ![e] = NoClient]
  BY DEF Owner, Claimed
<1>2. Owner[e] # NoClient
  BY ServerAssumption DEF Owner
<1>3. Pool!Withdraw(e)
  BY <1>1, <1>2 DEF Pool!Withdraw, Owner
<1> QED
  BY <1>3 DEF Pool!PoolNext

LEMMA ListedClaimed ==
  ASSUME QueueExact, NEW e \in Episodes, Contains(unclaimed, e)
  PROVE  rec[e].status = "registered"
BY DEF QueueExact, Contains

\* Removing a record: a claim is withdrawn, a waiting episode leaves the pool, and
\* nothing happens to an episode that is neither.
LEMMA DeleteStep ==
  ASSUME TypeOK, QueueExact, ClaimInv, NEW e \in Episodes, DeleteRecord(e), UNCHANGED engine_status
  PROVE  Pool!PoolNext
<1>1. rec' = [rec EXCEPT ![e] = Absent] /\ unclaimed' = RemoveFirst(unclaimed, e)
  BY DEF DeleteRecord
<1>2. ~Claimed(e)' /\ \A x \in Episodes : x # e => rec'[x] = rec[x]
  BY <1>1 DEF Claimed, Absent, TypeOK
<1>3. CASE Claimed(e)
  <2>1. ~Contains(unclaimed, e)
    BY <1>3, ListedClaimed DEF Claimed
  <2>2. unclaimed' = unclaimed
    BY <1>1, <2>1, RemoveFirstAbsent
  <2>3. rec[e].client \in Clients
    BY <1>3 DEF ClaimInv
  <2> QED
    BY <1>2, <1>3, <2>2, <2>3, ReleaseStep
<1>4. CASE ~Claimed(e)
  <2>1. Owner' = Owner
    BY <1>2, <1>4, SameOwner DEF Claimed
  <2>2. CASE ~Contains(unclaimed, e)
    BY <1>1, <2>1, <2>2, RemoveFirstAbsent, SetOpenStep
  <2>3. CASE Contains(unclaimed, e)
    <3> DEFINE I == {i \in 1..Len(unclaimed) : unclaimed[i] = e}
               n == Min(I)
    <3>1. I \subseteq Nat /\ I # {}
      BY <2>3 DEF Contains
    <3>2. n \in 1..Len(unclaimed) /\ unclaimed[n] = e
      BY <3>1, MinNat
    <3>3. unclaimed' = SubSeq(unclaimed, 1, n - 1) \o SubSeq(unclaimed, n + 1, Len(unclaimed))
      BY <1>1, <3>1 DEF RemoveFirst, RemoveAt, SelectInSeq, Contains
    <3> HIDE DEF n
    <3>4. Pool!Withdraw(e)
      BY <2>1, <3>2, <3>3 DEF Pool!Withdraw, Owner
    <3> QED
      BY <3>4 DEF Pool!PoolNext
  <2> QED
    BY <2>2, <2>3
<1> QED
  BY <1>3, <1>4

LEMMA ClaimStep ==
  ASSUME TypeOK, QueueExact, ClaimInv, NEW c \in Clients, NEW type, ClaimEpisode(c, type)
  PROVE  Pool!PoolNext
<1> DEFINE h == Head(unclaimed)
<1>1. /\ unclaimed # <<>> /\ unclaimed' = Tail(unclaimed) /\ h \in Episodes
      /\ engine_status = "ENGINE.ROLLING" /\ UNCHANGED engine_status
      /\ Present(h) =>
           rec' = [rec EXCEPT ![h] = [status |-> "claimed", client |-> c, type |-> type]]
  BY ClaimEffect
<1>2. rec[h].status = "registered"
  <2>1. Contains(unclaimed, h)
    <3>1. Len(unclaimed) \in Nat \ {0} /\ h = unclaimed[1]
      BY <1>1, EmptySeq DEF TypeOK
    <3> QED
      BY <3>1 DEF Contains
  <2> QED
    BY <1>1, <2>1, ListedClaimed
<1>3. rec' = [rec EXCEPT ![h] = [status |-> "claimed", client |-> c, type |-> type]]
  BY <1>1, <1>2 DEF Present
<1>4. Owner' = [Owner EXCEPT ![h] = c] /\ Owner[h] = NoClient
  <2> HIDE DEF h
  <2> QED
    BY <1>1, <1>2, <1>3 DEF Owner, Claimed, TypeOK
<1>5. Pool!Claim(c)
  BY <1>1, <1>4 DEF Pool!Claim, Owner
<1> QED
  BY <1>5 DEF Pool!PoolNext

LEMMA AddStep ==
  ASSUME MaxResend = 0, TypeOK, SinglePost, QueueExact, NEW e \in Episodes,
         RegisterEpisode(e), AddRecord(e)
  PROVE  Pool!PoolNext
<1>1. ~Present(e)
  BY RegisterSinglePost DEF SinglePost
<1>2. ~Contains(unclaimed, e) /\ ~Claimed(e)
  BY <1>1, ListedClaimed DEF Present, Claimed
<1>3. Owner' = Owner
  <2>1. ~Claimed(e)' /\ \A x \in Episodes : x # e => rec'[x] = rec[x]
    BY DEF AddRecord, Claimed, Registered, TypeOK
  <2> QED
    BY <1>2, <2>1, SameOwner DEF Claimed
<1>4. unclaimed' = Append(unclaimed, e) /\ UNCHANGED engine_status
  BY DEF AddRecord, RegisterEpisode
<1> QED
  BY <1>2, <1>3, <1>4, PublishStep

LEMMA MutateStep ==
  ASSUME TypeOK, ClaimInv, NEW k \in Callers, NEW e \in Episodes, Present(e), RevertTail(k, e)
  PROVE  Pool!PoolNext
<1>1. /\ rec' = [rec EXCEPT ![e] = Registered]
      /\ UNCHANGED <<unclaimed, engine_status>>
  BY MutateEffect
<1>2. ~Claimed(e)' /\ \A x \in Episodes : x # e => rec'[x] = rec[x]
  BY <1>1 DEF Claimed, Registered, TypeOK
<1>3. CASE Claimed(e)
  <2>1. rec[e].client \in Clients
    BY <1>3 DEF ClaimInv
  <2> QED
    BY <1>1, <1>2, <1>3, <2>1, ReleaseStep
<1>4. CASE ~Claimed(e)
  <2>1. Owner' = Owner
    BY <1>2, <1>4, SameOwner DEF Claimed
  <2> QED
    BY <1>1, <2>1, SetOpenStep
<1> QED
  BY <1>3, <1>4

LEMMA CommitStep ==
  ASSUME TypeOK, ClaimInv, NEW k \in Callers, NEW e \in Episodes, RevertCommit(k, e)
  PROVE  Pool!PoolNext
<1>1. rec' = [rec EXCEPT ![e] = Registered] /\ Enqueue(e) /\ UNCHANGED engine_status
  BY DEF RevertCommit
<1>2. ~Claimed(e)
  <2>1. Committing(e)
    BY Zenon DEF RevertCommit, Committing
  <2> QED
    BY <2>1 DEF ClaimInv
<1>3. Owner' = Owner
  <2>1. ~Claimed(e)' /\ \A x \in Episodes : x # e => rec'[x] = rec[x]
    BY <1>1 DEF Claimed, Registered, TypeOK
  <2> QED
    BY <1>2, <2>1, SameOwner DEF Claimed
<1> QED
  BY <1>1, <1>2, <1>3, EnqueueStep

LEMMA CleanUpStep ==
  ASSUME ClaimInv, CleanUpEngineStatus
  PROVE  Pool!PoolNext
<1>1. ~Open /\ Open' = Open
  BY DEF ClaimInv, CleanUpEngineStatus, Open
<1>2. Owner' = [e \in Episodes |-> NoClient] /\ unclaimed' = <<>>
  BY DEF CleanUpEngineStatus, Owner, Claimed, Absent
<1>3. Pool!Clear
  BY <1>1, <1>2 DEF Pool!Clear, Owner, Open
<1> QED
  BY <1>3 DEF Pool!PoolNext

LEMMA PoolStep ==
  ASSUME MaxResend = 0, TypeOK, SinglePost, QueueExact, ClaimInv, [Next]_vars
  PROVE  Pool!PoolNext
<1>1. CASE Quiet
  <2>1. Owner' = Owner
    BY <1>1, Zenon DEF Quiet, Owner, Claimed
  <2> QED
    BY <1>1, <2>1, SetOpenStep DEF Quiet
<1>2. CASE Enqueues /\ UNCHANGED engine_status
  <2>1. PICK e \in Episodes : Present(e) /\ ~Claimed(e) /\ Enqueue(e) /\ UNCHANGED rec
    BY <1>2 DEF Enqueues
  <2>2. Owner' = Owner
    BY <2>1, Zenon DEF Owner, Claimed
  <2> QED
    BY <1>2, <2>1, <2>2, EnqueueStep
<1>3. CASE (Adds \/ Deletes \/ Commits \/ Claims \/ Mutates) /\ UNCHANGED engine_status
  BY <1>3, AddStep, DeleteStep, CommitStep, ClaimStep, MutateStep
     DEF Adds, Deletes, Commits, Claims, Mutates
<1> QED
  BY <1>1, <1>2, <1>3, CleanUpStep, Shapes

\* When every registration is posted once, the server is the pool it promises to
\* be: first in, first out, one owner at a time, closed outside rolling.  No
\* interleaving of handlers, threads, timeouts and clean-up shows through.
THEOREM PoolImplemented ==
  ASSUME MaxResend = 0
  PROVE  Spec => PoolRefinement
<1> DEFINE IInv == TypeOK /\ SinglePost /\ QueueExact /\ ClaimInv
<1>1. Init => IInv /\ Pool!PoolInit
  <2>1. Init => Pool!PoolInit
    BY DEF Init, Pool!PoolInit, Claimed, Absent
  <2> QED
    BY <2>1, TypeInit, QueueInit, ClaimInvInit
<1>2. IInv /\ [Next]_vars => IInv' /\ [Pool!PoolNext]_(Pool!poolVars)
  BY TypeStep, SinglePostStep, QueueStep, ClaimInvStep, PoolStep
<1> QED
  BY <1>1, <1>2, PTL DEF Spec, PoolRefinement, Pool!PoolSpec

-----------------------------------------------------------------------------
(***************************************************************************)
(* What holds of the records of SwarmServer for any number of repeated     *)
(* registrations: a claimable record has a runner behind it, a finished    *)
(* episode stays finished, and training begins with an empty pool.         *)
(*                                                                         *)
(* None of the three is inductive.  Why nothing comes back depends on how  *)
(* often a runner has posted (Once), on reverts being about records that   *)
(* are still there (CommitsPresent), and on the status following the       *)
(* trainer (Phases).                                                       *)
(***************************************************************************)

Acked(e) == \E c \in Clients : call[c][e].at = "acked"

\* The status the server shows is the one the trainer last set.
Phases ==
  /\ trainer \in {"collecting", "stopping"} => engine_status = "ENGINE.ROLLING"
  /\ trainer = "draining" => engine_status = "ENGINE.ROLLING_POST"
  /\ trainer \in {"leaving", "training"} => engine_status \notin Rolling

\* A runner that has posted at most once has had no record before that post is handled.
Once ==
  \A e \in Episodes :
    /\ runner[e] = "unborn" => tries[e] = 0
    /\ runner[e] = "registering" => tries[e] >= 1
    /\ tries[e] <= 1 =>
         /\ posts[e] = 0 \/ (posts[e] = 1 /\ runner[e] = "registering")
         /\ runner[e] = "unborn" \/ posts[e] = 1 => ~Present(e) /\ ~Committing(e)

\* A revert between its mutation and its lock is about a record that is there.
CommitsPresent == \A e \in Episodes \ ghost : Committing(e) => Present(e)

\* What is finished has no post and no revert that could bring it back.
Finals ==
  \A e \in finished \cap Regular :
    ~Present(e) /\ ~Committing(e) /\ posts[e] = 0 /\ runner[e] # "unborn"

\* Between two rollouts there is no record, nor a revert about to write one.
Clean ==
  trainer = "training" =>
    \A e \in Episodes \ ghost : ~Present(e) /\ ~Committing(e) /\ ~Contains(unclaimed, e)

HasRunner ==
  \A e \in Regular :
    Present(e) /\ engine_status \in Rolling => RunnerLive(e) \/ Acked(e)

RecInv == Phases /\ Once /\ CommitsPresent /\ Finals /\ Clean /\ HasRunner

-----------------------------------------------------------------------------
(* What the operations on the list of unclaimed episodes bring in *)

LEMMA AppendNews ==
  ASSUME NEW S, NEW s \in Seq(S), NEW e
  PROVE  \A x : Contains(Append(s, e), x) => Contains(s, x) \/ x = e
<1> SUFFICES ASSUME NEW x, Contains(Append(s, e), x), x # e
             PROVE  Contains(s, x)
  OBVIOUS
<1>1. PICK i \in 1..Len(Append(s, e)) : Append(s, e)[i] = x
  BY DEF Contains
<1>2. i \in 1..Len(s) /\ s[i] = x
  BY <1>1
<1> QED
  BY <1>2 DEF Contains

LEMMA EnqueueNews ==
  ASSUME TypeOK, NEW e \in Episodes, Enqueue(e)
  PROVE  \A x \in Episodes : Contains(unclaimed, x)' => Contains(unclaimed, x) \/ x = e
BY AppendNews, Zenon DEF Enqueue, TypeOK

LEMMA TailNews ==
  ASSUME TypeOK, unclaimed # <<>>
  PROVE  \A x : Contains(Tail(unclaimed), x) => Contains(unclaimed, x)
<1> SUFFICES ASSUME NEW x, Contains(Tail(unclaimed), x)
             PROVE  Contains(unclaimed, x)
  OBVIOUS
<1>1. PICK i \in 1..Len(Tail(unclaimed)) : Tail(unclaimed)[i] = x
  BY DEF Contains
<1>2. i + 1 \in 1..Len(unclaimed) /\ unclaimed[i + 1] = x
  BY <1>1 DEF TypeOK
<1> QED
  BY <1>2 DEF Contains

LEMMA RemoveNews ==
  ASSUME TypeOK, NEW e \in Episodes
  PROVE  \A x : Contains(RemoveFirst(unclaimed, e), x) => Contains(unclaimed, x)
<1>1. CASE ~Contains(unclaimed, e)
  BY <1>1, RemoveFirstAbsent
<1>2. CASE Contains(unclaimed, e)
  <2>0. unclaimed \in Seq(Episodes)
    BY Zenon DEF TypeOK
  <2>1. PICK n \in 1..Len(unclaimed) :
          /\ unclaimed[n] = e
          /\ RemoveFirst(unclaimed, e) \in Seq(Episodes)
          /\ Len(RemoveFirst(unclaimed, e)) = Len(unclaimed) - 1
          /\ \A i \in 1..(Len(unclaimed) - 1) :
               RemoveFirst(unclaimed, e)[i] = IF i < n THEN unclaimed[i] ELSE unclaimed[i + 1]
    BY <1>2, <2>0, RemoveFirstShifts, SMT
  <2> SUFFICES ASSUME NEW x, Contains(RemoveFirst(unclaimed, e), x)
               PROVE  Contains(unclaimed, x)
    OBVIOUS
  <2>2. PICK i \in 1..Len(RemoveFirst(unclaimed, e)) : RemoveFirst(unclaimed, e)[i] = x
    BY DEF Contains
  <2>3. /\ Len(unclaimed) \in Nat /\ i \in 1..(Len(unclaimed) - 1)
        /\ x = IF i < n THEN unclaimed[i] ELSE unclaimed[i + 1]
    <3>1. Len(unclaimed) \in Nat
      BY DEF TypeOK
    <3>2. i \in 1..(Len(unclaimed) - 1)
      BY <2>1, <2>2
    <3>3. RemoveFirst(unclaimed, e)[i] = IF i < n THEN unclaimed[i] ELSE unclaimed[i + 1]
      BY <2>1, <3>2
    <3> QED
      BY <2>2, <3>1, <3>2, <3>3
  <2>4. \E j \in 1..Len(unclaimed) : unclaimed[j] = x
    BY <2>3
  <2> QED
    BY <2>4 DEF Contains
<1> QED
  BY <1>1, <1>2

-----------------------------------------------------------------------------
(* What most steps do: nothing that could break the invariant *)

AcksStay == \A x \in Episodes : Acked(x) => Acked(x)'
Steady == UNCHANGED <<engine_status, trainer, ghost, finished, runner, posts, tries>>

\* Records and list entries come from records that are there or are being written back.
NothingNew ==
  /\ \A x \in Episodes : Present(x)' => Present(x) \/ Committing(x)
  /\ \A x \in Episodes : Committing(x)' /\ Present(x) => Present(x)'
  /\ \A x \in Episodes :
       Contains(unclaimed, x)' => Contains(unclaimed, x) \/ Present(x) \/ Committing(x)

Mild == Steady /\ NothingNew /\ CommitsOfPresent /\ AcksStay

LEMMA MildKeeps ==
  ASSUME RecInv, Mild
  PROVE  RecInv'
<1>1. /\ engine_status' = engine_status /\ trainer' = trainer /\ ghost' = ghost
      /\ finished' = finished /\ runner' = runner /\ posts' = posts /\ tries' = tries
  BY DEF Mild, Steady
<1>2. Regular' = Regular
  BY <1>1, Zenon DEF Regular
<1>3. Phases'
  BY <1>1, Zenon DEF RecInv, Phases, Rolling
<1>4. Once'
  BY <1>1 DEF RecInv, Once, Mild, NothingNew, CommitsOfPresent
<1>5. CommitsPresent'
  BY <1>1, Zenon DEF RecInv, CommitsPresent, Mild, NothingNew, CommitsOfPresent
<1>6. \A e \in Regular : e \in Episodes /\ e \notin ghost
  BY DEF Regular
<1>7. Finals'
  BY <1>1, <1>2, <1>6, Zenon DEF RecInv, Finals, Mild, NothingNew, CommitsOfPresent
<1>8. Clean'
  BY <1>1, Zenon DEF RecInv, Clean, Mild, NothingNew, CommitsOfPresent
<1>9. HasRunner'
  BY <1>1, <1>2, <1>6, Zenon
     DEF RecInv, HasRunner, CommitsPresent, Mild, NothingNew, AcksStay, RunnerLive, Rolling
<1> QED
  BY <1>3, <1>4, <1>5, <1>7, <1>8, <1>9 DEF RecInv

LEMMA GotoAcks ==
  ASSUME CallsOK, NEW k \in Callers, NEW e \in Episodes, NEW op, NEW at,
         call[k][e].at # "acked", Goto(k, e, op, at)
  PROVE  AcksStay
<1> SUFFICES ASSUME NEW x \in Episodes, NEW c \in Clients, call[c][x].at = "acked"
             PROVE  call'[c][x].at = "acked"
  BY Zenon DEF AcksStay, Acked
<1> QED
  BY DEF Goto, CallsOK, Callers

LEMMA ReturnAcks ==
  ASSUME CallsOK, NEW k \in Callers, NEW e \in Episodes, call[k][e].at # "acked", Return(k, e)
  PROVE  AcksStay
<1> SUFFICES ASSUME NEW x \in Episodes, NEW c \in Clients, call[c][x].at = "acked"
             PROVE  call'[c][x].at = "acked"
  BY Zenon DEF AcksStay, Acked
<1> QED
  BY DEF Return, CallsOK, Callers

LEMMA SameCallAcks ==
  ASSUME UNCHANGED call
  PROVE  AcksStay
BY Zenon DEF AcksStay, Acked

LEMMA SameRecords ==
  ASSUME UNCHANGED <<rec, unclaimed>>
  PROVE  NothingNew
<1>1. rec' = rec /\ unclaimed' = unclaimed
  OBVIOUS
<1> QED
  BY <1>1, Zenon DEF NothingNew, Present

LEMMA RevertEnterMild ==
  ASSUME CallsOK, TypeOK, NEW k \in Callers, NEW e \in Episodes, NEW op, RevertEnter(k, e, op),
         UNCHANGED rec, ~InFlight(k, e)
  PROVE  NothingNew /\ CommitsOfPresent /\ AcksStay
<1>1. CommitsOfPresent
  BY RevertEnterCommits
<1>2. AcksStay
  <2>1. call[k][e].at # "acked"
    BY DEF InFlight
  <2>2. Goto(k, e, op, "reset") \/ UNCHANGED call
    BY Zenon DEF RevertEnter
  <2> QED
    BY <2>1, <2>2, GotoAcks, SameCallAcks
<1>3. NothingNew
  <2>1. rec' = rec
    OBVIOUS
  <2>2. UNCHANGED unclaimed \/ (Present(e) /\ Enqueue(e))
    BY Zenon DEF RevertEnter
  <2>3. CASE UNCHANGED unclaimed
    BY <2>1, <2>3, SameRecords
  <2>4. CASE Present(e) /\ Enqueue(e)
    <3>1. \A x \in Episodes : Contains(unclaimed, x)' => Contains(unclaimed, x) \/ x = e
      BY <2>4, EnqueueNews
    <3> QED
      BY <2>1, <2>4, <3>1, Zenon DEF NothingNew, Present
  <2> QED
    BY <2>2, <2>3, <2>4
<1> QED
  BY <1>1, <1>2, <1>3

LEMMA DeleteMild ==
  ASSUME TypeOK, NEW e \in Episodes, DeleteRecord(e), LoopFree, UNCHANGED call
  PROVE  NothingNew /\ CommitsOfPresent /\ AcksStay
<1>1. \A x \in Episodes : ~Committing(x) /\ ~Committing(x)'
  BY Zenon DEF LoopFree, Committing
<1>2. \A x \in Episodes : Present(x)' => Present(x)
  BY DeletePresent
<1>3. \A x \in Episodes : Contains(unclaimed, x)' => Contains(unclaimed, x)
  BY RemoveNews, Zenon DEF DeleteRecord
<1> QED
  BY <1>1, <1>2, <1>3, SameCallAcks, SameCallCommits, Zenon DEF NothingNew

LEMMA RunnerResetMild ==
  ASSUME TypeOK, NEW k \in Callers, NEW e \in Episodes, RunnerReset(k, e)
  PROVE  Mild
<1>1. CommitsOfPresent /\ AcksStay
  BY GotoCommits, GotoAcks DEF RunnerReset, TypeOK
<1>2. NothingNew
  BY SameRecords DEF RunnerReset, serverVars
<1>3. Steady
  BY DEF RunnerReset, Steady, serverVars, runnerVars
<1> QED
  BY <1>1, <1>2, <1>3 DEF Mild

LEMMA EndStepMild ==
  ASSUME TypeOK, NEW c \in Clients, NEW e \in Episodes,
         SendOutput(c, e) \/ StopWaitingForAck(c, e) \/ EndReturns(c, e)
  PROVE  Mild
<1>0. c \in Callers
  BY DEF Callers
<1>1. CommitsOfPresent
  BY <1>0, GotoCommits, ReturnCommits DEF SendOutput, StopWaitingForAck, EndReturns, TypeOK
<1>2. AcksStay
  BY <1>0, GotoAcks, ReturnAcks DEF SendOutput, StopWaitingForAck, EndReturns, TypeOK
<1>3. NothingNew
  BY SameRecords DEF SendOutput, StopWaitingForAck, EndReturns, serverVars
<1>4. Steady
  BY DEF SendOutput, StopWaitingForAck, EndReturns, Steady, serverVars, runnerVars
<1> QED
  BY <1>1, <1>2, <1>3, <1>4 DEF Mild

LEMMA RevertMild ==
  ASSUME TypeOK, NEW k \in Callers, NEW e \in Episodes,
         StopWaitingForReset(k, e) \/ RevertTail(k, e) \/ RevertCommit(k, e)
  PROVE  Mild
<1>1. CASE StopWaitingForReset(k, e)
  <2>1. CommitsOfPresent /\ AcksStay
    BY <1>1, GotoCommits, ReturnCommits, GotoAcks, ReturnAcks DEF StopWaitingForReset, TypeOK
  <2>2. NothingNew
    BY <1>1, SameRecords DEF StopWaitingForReset, serverVars
  <2>3. Steady
    BY <1>1 DEF StopWaitingForReset, Steady, serverVars, runnerVars
  <2> QED
    BY <2>1, <2>2, <2>3 DEF Mild
<1>2. CASE RevertTail(k, e)
  <2>1. CommitsOfPresent /\ AcksStay
    BY <1>2, GotoCommits, ReturnCommits, GotoAcks, ReturnAcks DEF RevertTail, TypeOK
  <2>2. Steady /\ UNCHANGED unclaimed
    BY <1>2 DEF RevertTail, Steady, runnerVars
  <2>3. \A x \in Episodes : Present(x)' <=> Present(x)
    <3>1. CASE Present(e)
      <4>1. rec' = [rec EXCEPT ![e] = Registered]
        BY <1>2, <3>1, Zenon DEF RevertTail
      <4> QED
        BY <3>1, <4>1 DEF Present, TypeOK, Registered
    <3>2. CASE ~Present(e)
      BY <1>2, <3>2, Zenon DEF RevertTail, Present
    <3> QED
      BY <3>1, <3>2
  <2>4. NothingNew
    BY <2>2, <2>3, Zenon DEF NothingNew
  <2> QED
    BY <2>1, <2>2, <2>4 DEF Mild
<1>3. CASE RevertCommit(k, e)
  <2>1. CommitsOfPresent /\ AcksStay
    BY <1>3, ReturnCommits, ReturnAcks DEF RevertCommit, TypeOK
  <2>2. Steady
    BY <1>3 DEF RevertCommit, Steady, runnerVars
  <2>3. Committing(e)
    BY <1>3, Zenon DEF RevertCommit, Committing
  <2>4. \A x \in Episodes : (Present(x)' <=> Present(x) \/ x = e)
    BY <1>3 DEF RevertCommit, Present, TypeOK, Registered
  <2>5. \A x \in Episodes : Contains(unclaimed, x)' => Contains(unclaimed, x) \/ x = e
    BY <1>3, EnqueueNews DEF RevertCommit
  <2>6. NothingNew
    BY <2>3, <2>4, <2>5, Zenon DEF NothingNew
  <2> QED
    BY <2>1, <2>2, <2>6 DEF Mild
<1> QED
  BY <1>1, <1>2, <1>3

LEMMA JanitorMild ==
  ASSUME TypeOK, NEW e \in Episodes, JanitorScan(e) \/ JanitorNext(e)
  PROVE  Mild
<1>1. /\ RevertEnter(Janitor, e, "expire") /\ UNCHANGED rec /\ ~InFlight(Janitor, e)
      /\ CallsOK /\ Janitor \in Callers
  BY DEF JanitorScan, JanitorNext, JanitorFree, TypeOK, Callers
<1>2. NothingNew /\ CommitsOfPresent /\ AcksStay
  BY <1>1, RevertEnterMild
<1>3. Steady
  BY DEF JanitorScan, JanitorNext, Steady, runnerVars
<1> QED
  BY <1>2, <1>3 DEF Mild

LEMMA ClientMild ==
  ASSUME TypeOK, NEW c \in Clients, ClientStep(c)
  PROVE  Mild
<1>0. c \in Callers
  BY DEF Callers
<1>1. ASSUME NEW type \in EpisodeTypes, ClaimEpisode(c, type)
      PROVE  Mild
  <2> DEFINE h == Head(unclaimed)
  <2>1. /\ unclaimed # <<>> /\ unclaimed' = Tail(unclaimed) /\ h \in Episodes
        /\ Present(h) =>
             rec' = [rec EXCEPT ![h] = [status |-> "claimed", client |-> c, type |-> type]]
        /\ ~Present(h) => rec' = rec
        /\ UNCHANGED call
    BY <1>1, ClaimEffect
  <2>2. Steady
    BY <1>1 DEF ClaimEpisode, Steady, runnerVars
  <2> HIDE DEF h
  <2>3. \A x \in Episodes : Present(x)' <=> Present(x)
    <3>1. CASE Present(h)
      <4>1. /\ rec'[h].status = "claimed"
            /\ \A x \in Episodes : x # h => rec'[x] = rec[x]
        BY <2>1, <3>1 DEF TypeOK
      <4> QED
        BY <3>1, <4>1 DEF Present
    <3>2. CASE ~Present(h)
      BY <2>1, <3>2, Zenon DEF Present
    <3> QED
      BY <3>1, <3>2
  <2>4. \A x \in Episodes : Contains(unclaimed, x)' => Contains(unclaimed, x)
    BY <2>1, TailNews
  <2>5. NothingNew
    BY <2>3, <2>4, Zenon DEF NothingNew
  <2> QED
    BY <2>1, <2>2, <2>5, SameCallCommits, SameCallAcks DEF Mild
<1>2. ASSUME NEW e \in Episodes,
             EndTrainEpisode(c, e) \/ EndEvalEpisode(c, e) \/ AbortEpisode(c, e)
      PROVE  Mild
  <2>1. /\ LoopFree /\ ~InFlight(c, e)
        /\ \/ UNCHANGED <<rec, unclaimed, call>>
           \/ UNCHANGED <<rec, unclaimed>> /\ Goto(c, e, "end", "dispatched")
           \/ UNCHANGED rec /\ \E op \in CallOps : RevertEnter(c, e, op)
           \/ DeleteRecord(e) /\ UNCHANGED call
    BY <1>2 DEF EndTrainEpisode, EndEvalEpisode, AbortEpisode, MayEnd, serverVars, CallOps
  <2>2. CallsOK /\ call[c][e].at # "acked"
    BY <2>1 DEF TypeOK, InFlight
  <2>3. NothingNew /\ CommitsOfPresent /\ AcksStay
    <3>1. CASE UNCHANGED <<rec, unclaimed, call>>
      BY <3>1, SameRecords, SameCallCommits, SameCallAcks
    <3>2. CASE UNCHANGED <<rec, unclaimed>> /\ Goto(c, e, "end", "dispatched")
      BY <1>0, <2>2, <3>2, SameRecords, GotoCommits, GotoAcks
    <3>3. CASE UNCHANGED rec /\ \E op \in CallOps : RevertEnter(c, e, op)
      BY <1>0, <2>1, <2>2, <3>3, RevertEnterMild
    <3>4. CASE DeleteRecord(e) /\ UNCHANGED call
      BY <2>1, <3>4, DeleteMild
    <3> QED
      BY <2>1, <3>1, <3>2, <3>3, <3>4
  <2>4. Steady
    BY <1>2 DEF EndTrainEpisode, EndEvalEpisode, AbortEpisode, Steady, serverVars, runnerVars
  <2> QED
    BY <2>3, <2>4 DEF Mild
<1> QED
  BY <1>1, <1>2 DEF ClientStep

LEMMA OtherMild ==
  ASSUME ExpireClients \/ UNCHANGED vars \/ \E e \in Episodes : LlmCall(e) \/ GoIdle(e)
  PROVE  Mild
<1>1. UNCHANGED <<rec, unclaimed, call>> /\ Steady
  BY DEF ExpireClients, LlmCall, GoIdle, vars, serverVars, runnerVars, Steady
<1> QED
  BY <1>1, SameRecords, SameCallCommits, SameCallAcks DEF Mild

-----------------------------------------------------------------------------
(* The other steps *)

\* A step that changes nothing but runners
LEMMA SameServer ==
  ASSUME UNCHANGED <<serverVars, call, trainer, ghost>>
  PROVE  /\ \A x \in Episodes : /\ Present(x)' <=> Present(x)
                                /\ Committing(x)' <=> Committing(x)
                                /\ Acked(x)' <=> Acked(x)
         /\ rec' = rec /\ unclaimed' = unclaimed /\ finished' = finished
         /\ engine_status' = engine_status /\ trainer' = trainer /\ ghost' = ghost
<1>1. rec' = rec /\ unclaimed' = unclaimed /\ finished' = finished /\ call' = call
      /\ engine_status' = engine_status /\ trainer' = trainer /\ ghost' = ghost
  BY DEF serverVars
<1> QED
  BY <1>1, Zenon DEF Present, Committing, Acked

LEMMA RegularEpisodes == Regular = {e \in Episodes : e \notin ghost /\ tries[e] <= 1}
BY DEF Regular

LEMMA StartRunnerKeeps ==
  ASSUME TypeOK, RecInv, NEW e \in Episodes, StartRunner(e)
  PROVE  RecInv'
<1>1. /\ \A x \in Episodes : /\ Present(x)' <=> Present(x)
                             /\ Committing(x)' <=> Committing(x)
                             /\ Acked(x)' <=> Acked(x)
      /\ unclaimed' = unclaimed /\ finished' = finished
      /\ engine_status' = engine_status /\ trainer' = trainer /\ ghost' = ghost
  BY SameServer DEF StartRunner
<1>2. /\ runner[e] = "unborn" /\ runner'[e] = "registering" /\ tries'[e] = 1 /\ posts'[e] = 1
      /\ \A x \in Episodes : x # e =>
           runner'[x] = runner[x] /\ tries'[x] = tries[x] /\ posts'[x] = posts[x]
  BY DEF StartRunner, TypeOK
<1>3. tries[e] = 0 /\ ~Present(e) /\ ~Committing(e)
  BY <1>2 DEF RecInv, Once
<1>4. Phases'
  BY <1>1, Zenon DEF RecInv, Phases, Rolling
<1>5. Once'
  BY <1>1, <1>2, <1>3 DEF RecInv, Once
<1>6. CommitsPresent'
  BY <1>1, Zenon DEF RecInv, CommitsPresent
<1>7. Finals'
  BY <1>1, <1>2, <1>3, RegularEpisodes DEF RecInv, Finals, Regular
<1>8. Clean'
  BY <1>1, Zenon DEF RecInv, Clean
<1>9. HasRunner'
  BY <1>1, <1>2, <1>3 DEF RecInv, HasRunner, RunnerLive, Regular, Rolling
<1> QED
  BY <1>4, <1>5, <1>6, <1>7, <1>8, <1>9 DEF RecInv

LEMMA RetryRegisterKeeps ==
  ASSUME TypeOK, RecInv, NEW e \in Episodes, RetryRegister(e)
  PROVE  RecInv'
<1>1. /\ \A x \in Episodes : /\ Present(x)' <=> Present(x)
                             /\ Committing(x)' <=> Committing(x)
                             /\ Acked(x)' <=> Acked(x)
      /\ unclaimed' = unclaimed /\ finished' = finished
      /\ engine_status' = engine_status /\ trainer' = trainer /\ ghost' = ghost
  BY SameServer DEF RetryRegister
<1>2. /\ runner[e] = "registering" /\ tries'[e] = tries[e] + 1
      /\ runner'[e] \in {"registering", "left"}
      /\ \A x \in Episodes : x # e =>
           runner'[x] = runner[x] /\ tries'[x] = tries[x] /\ posts'[x] = posts[x]
  BY DEF RetryRegister, TypeOK
<1>3. tries'[e] >= 1 /\ ~(tries'[e] <= 1)
  <2>1. tries[e] \in Nat /\ tries[e] >= 1
    BY <1>2 DEF RecInv, Once, TypeOK
  <2> QED
    BY <1>2, <2>1
<1>4. Phases'
  BY <1>1, Zenon DEF RecInv, Phases, Rolling
<1>5. Once'
  BY <1>1, <1>2, <1>3 DEF RecInv, Once
<1>6. CommitsPresent'
  BY <1>1, Zenon DEF RecInv, CommitsPresent
<1>7. Finals'
  BY <1>1, <1>2, <1>3 DEF RecInv, Finals, Regular
<1>8. Clean'
  BY <1>1, Zenon DEF RecInv, Clean
<1>9. HasRunner'
  BY <1>1, <1>2, <1>3 DEF RecInv, HasRunner, RunnerLive, Regular, Rolling
<1> QED
  BY <1>4, <1>5, <1>6, <1>7, <1>8, <1>9 DEF RecInv

LEMMA RegisterKeeps ==
  ASSUME TypeOK, RecInv, NEW e \in Episodes, RegisterEpisode(e)
  PROVE  RecInv'
<1>1. /\ LoopFree /\ posts[e] > 0 /\ posts' = [posts EXCEPT ![e] = @ - 1]
      /\ IF engine_status = "ENGINE.ROLLING" THEN AddRecord(e) ELSE UNCHANGED <<rec, unclaimed>>
      /\ engine_status' = engine_status /\ finished' = finished /\ call' = call
      /\ tries' = tries /\ trainer' = trainer /\ ghost' = ghost
  BY DEF RegisterEpisode
<1>2. /\ \A x \in Episodes : ~Committing(x) /\ ~Committing(x)'
      /\ \A x \in Episodes : Acked(x)' <=> Acked(x)
  BY <1>1, Zenon DEF LoopFree, Committing, Acked
<1>3. /\ posts'[e] = posts[e] - 1 /\ posts[e] \in Nat
      /\ runner'[e] \in {runner[e], "waiting", "left"}
      /\ runner[e] # "registering" => runner'[e] = runner[e]
      /\ runner'[e] = "left" => runner[e] = "left" \/ engine_status # "ENGINE.ROLLING"
      /\ \A x \in Episodes : x # e => runner'[x] = runner[x] /\ posts'[x] = posts[x]
  BY <1>1 DEF RegisterEpisode, TypeOK
<1>4. \A x \in Episodes : /\ x # e => (Present(x)' <=> Present(x))
                          /\ engine_status # "ENGINE.ROLLING" => (Present(x)' <=> Present(x))
  BY <1>1 DEF AddRecord, Present, TypeOK
<1>5. tries[e] <= 1 => runner[e] = "registering" /\ posts[e] = 1 /\ ~Present(e)
  BY <1>1 DEF RecInv, Once
<1>6. Phases'
  BY <1>1, Zenon DEF RecInv, Phases, Rolling
<1>7. Once'
  <2> SUFFICES ASSUME NEW x \in Episodes
               PROVE  /\ runner'[x] = "unborn" => tries[x] = 0
                      /\ runner'[x] = "registering" => tries[x] >= 1
                      /\ tries[x] <= 1 =>
                           /\ posts'[x] = 0 \/ (posts'[x] = 1 /\ runner'[x] = "registering")
                           /\ runner'[x] = "unborn" \/ posts'[x] = 1 =>
                                ~Present(x)' /\ ~Committing(x)'
    BY <1>1, Zenon DEF Once
  <2>1. CASE x = e
    BY <1>2, <1>3, <1>5, <2>1 DEF RecInv, Once
  <2>2. CASE x # e
    BY <1>2, <1>3, <1>4, <2>2 DEF RecInv, Once
  <2> QED
    BY <2>1, <2>2
<1>8. CommitsPresent'
  BY <1>2, Zenon DEF CommitsPresent
<1>9. Finals'
  <2>1. e \notin finished \cap Regular
    BY <1>5 DEF RecInv, Finals, Regular
  <2>2. Regular' = Regular /\ finished' = finished
    BY <1>1, Zenon DEF Regular
  <2>3. \A x \in finished \cap Regular : x \in Episodes /\ x # e
    BY <2>1 DEF Regular
  <2> QED
    BY <1>2, <1>3, <1>4, <2>2, <2>3 DEF RecInv, Finals
<1>10. Clean'
  <2> SUFFICES ASSUME trainer = "training"
               PROVE  Clean'
    BY <1>1 DEF Clean
  <2>1. engine_status # "ENGINE.ROLLING"
    BY DEF RecInv, Phases, Rolling
  <2> QED
    BY <1>1, <1>2, <1>4, <2>1 DEF RecInv, Clean
<1>11. HasRunner'
  <2> SUFFICES ASSUME NEW x \in Regular, Present(x)', engine_status \in Rolling
               PROVE  RunnerLive(x)' \/ Acked(x)'
    BY <1>1, Zenon DEF HasRunner, Regular, Rolling
  <2>0. x \in Episodes /\ tries[x] <= 1
    BY DEF Regular
  <2>1. CASE x = e
    BY <1>3, <1>4, <1>5, <2>0, <2>1 DEF RunnerLive
  <2>2. CASE x # e
    BY <1>2, <1>3, <1>4, <2>0, <2>2 DEF RecInv, HasRunner, RunnerLive
  <2> QED
    BY <2>1, <2>2
<1> QED
  BY <1>6, <1>7, <1>8, <1>9, <1>10, <1>11 DEF RecInv

LEMMA RunnerExitKeeps ==
  ASSUME TypeOK, RecInv, NEW e \in Episodes, RunnerExit(e)
  PROVE  RecInv'
<1>1. /\ LoopFree /\ runner[e] = "waiting" /\ ~HasClaimed(e) /\ Unregister(e)
      /\ runner' = [runner EXCEPT ![e] = "left"]
      /\ engine_status' = engine_status /\ finished' = finished /\ call' = call
      /\ posts' = posts /\ tries' = tries /\ trainer' = trainer /\ ghost' = ghost
  BY DEF RunnerExit
<1>2. /\ \A x \in Episodes : ~Committing(x) /\ ~Committing(x)'
      /\ \A x \in Episodes : Acked(x)' <=> Acked(x)
  BY <1>1, Zenon DEF LoopFree, Committing, Acked
<1>3. /\ \A x \in Episodes : Present(x)' => Present(x)
      /\ \A x \in Episodes : Contains(unclaimed, x)' => Contains(unclaimed, x)
  <2>1. DeleteRecord(e) \/ UNCHANGED <<rec, unclaimed>>
    BY <1>1, Zenon DEF Unregister
  <2>2. CASE DeleteRecord(e)
    BY <2>2, DeletePresent, RemoveNews, Zenon DEF DeleteRecord
  <2>3. CASE UNCHANGED <<rec, unclaimed>>
    BY <2>3, SameRecords, <1>2, Zenon DEF Present
  <2> QED
    BY <2>1, <2>2, <2>3
<1>4. engine_status \in Rolling => ~Present(e)'
  <2>1. CASE Present(e) /\ engine_status \in Rolling
    <3>1. rec' = [rec EXCEPT ![e] = Absent]
      BY <1>1, <2>1, Zenon DEF Unregister, DeleteRecord
    <3> QED
      BY <3>1 DEF Present, Absent, TypeOK
  <2>2. CASE ~Present(e)
    BY <1>3, <2>2
  <2> QED
    BY <2>1, <2>2
<1>5. /\ runner'[e] = "left"
      /\ \A x \in Episodes : x # e => runner'[x] = runner[x]
  BY <1>1 DEF TypeOK
<1>6. Phases'
  BY <1>1, Zenon DEF RecInv, Phases, Rolling
<1>7. Once'
  BY <1>1, <1>2, <1>3, <1>5 DEF RecInv, Once
<1>8. CommitsPresent'
  BY <1>2, Zenon DEF CommitsPresent
<1>9. Finals'
  BY <1>1, <1>2, <1>3, <1>5 DEF RecInv, Finals, Regular
<1>10. Clean'
  BY <1>1, <1>2, <1>3, Zenon DEF RecInv, Clean
<1>11. HasRunner'
  BY <1>1, <1>2, <1>3, <1>4, <1>5 DEF RecInv, HasRunner, RunnerLive, Regular, Rolling
<1> QED
  BY <1>6, <1>7, <1>8, <1>9, <1>10, <1>11 DEF RecInv

LEMMA TakeOutputKeeps ==
  ASSUME TypeOK, RecInv, NEW c \in Clients, NEW e \in Episodes, RunnerTakeOutput(c, e)
  PROVE  RecInv'
<1>0. c \in Callers
  BY DEF Callers
<1>1. /\ runner[e] = "waiting" /\ call[c][e].at = "sent"
      /\ runner' = [runner EXCEPT ![e] = "took"] /\ Goto(c, e, "end", "acked")
      /\ rec' = rec /\ unclaimed' = unclaimed /\ finished' = finished
      /\ engine_status' = engine_status
      /\ posts' = posts /\ tries' = tries /\ trainer' = trainer /\ ghost' = ghost
  BY DEF RunnerTakeOutput, serverVars
<1>2. NoNewCommit /\ AcksStay
  BY <1>0, <1>1, GotoNoCommit, GotoAcks DEF TypeOK
<1>3. Acked(e)'
  BY <1>0, <1>1 DEF Goto, Acked, TypeOK, CallsOK
<1>4. \A x \in Episodes : Present(x)' <=> Present(x)
  BY <1>1, Zenon DEF Present
<1>5. /\ runner'[e] = "took"
      /\ \A x \in Episodes : x # e => runner'[x] = runner[x]
  BY <1>1 DEF TypeOK
<1>6. Phases'
  BY <1>1, Zenon DEF RecInv, Phases, Rolling
<1>7. Once'
  BY <1>1, <1>2, <1>4, <1>5 DEF RecInv, Once, NoNewCommit
<1>8. CommitsPresent'
  BY <1>1, <1>2, <1>4, Zenon DEF RecInv, CommitsPresent, NoNewCommit
<1>9. Finals'
  BY <1>1, <1>2, <1>4, <1>5 DEF RecInv, Finals, Regular, NoNewCommit
<1>10. Clean'
  BY <1>1, <1>2, <1>4, Zenon DEF RecInv, Clean, NoNewCommit
<1>11. HasRunner'
  BY <1>1, <1>2, <1>3, <1>4, <1>5 DEF RecInv, HasRunner, RunnerLive, Regular, Rolling, AcksStay
<1> QED
  BY <1>6, <1>7, <1>8, <1>9, <1>10, <1>11 DEF RecInv

LEMMA RecordOutputKeeps ==
  ASSUME TypeOK, RecInv, NEW c \in Clients, NEW e \in Episodes, RecordOutput(c, e)
  PROVE  RecInv'
<1>0. c \in Callers
  BY DEF Callers
<1>1. /\ call[c][e].at = "acked" /\ Goto(c, e, "end", "recorded") /\ DeleteRecord(e)
      /\ finished' = IF Present(e) THEN finished \cup {e} ELSE finished
      /\ ghost' = IF Committing(e) THEN ghost \cup {e} ELSE ghost
      /\ engine_status' = engine_status /\ runner' = runner
      /\ posts' = posts /\ tries' = tries /\ trainer' = trainer
  BY DEF RecordOutput, runnerVars
<1>2. NoNewCommit
  BY <1>0, <1>1, GotoNoCommit DEF TypeOK
<1>3. \A x \in Episodes : x # e => (Acked(x) => Acked(x)')
  BY <1>0, <1>1 DEF Goto, Acked, TypeOK, CallsOK
<1>4. /\ ~Present(e)'
      /\ \A x \in Episodes : x # e => (Present(x)' <=> Present(x))
      /\ \A x \in Episodes : Contains(unclaimed, x)' => Contains(unclaimed, x)
  <2>1. rec' = [rec EXCEPT ![e] = Absent]
    BY <1>1 DEF DeleteRecord
  <2>2. ~Present(e)' /\ \A x \in Episodes : x # e => (Present(x)' <=> Present(x))
    BY <2>1 DEF Present, Absent, TypeOK
  <2> QED
    BY <1>1, <2>2, RemoveNews, Zenon DEF DeleteRecord
<1>5. \A x \in Episodes : x \notin ghost' => x \notin ghost /\ (x = e => ~Committing(e))
  BY <1>1
<1>6. Phases'
  BY <1>1, Zenon DEF RecInv, Phases, Rolling
<1>7. Once'
  BY <1>1, <1>2, <1>4 DEF RecInv, Once, NoNewCommit
<1>8. CommitsPresent'
  BY <1>2, <1>4, <1>5, Zenon DEF RecInv, CommitsPresent, NoNewCommit
<1>9. Finals'
  <2> SUFFICES ASSUME NEW x \in Episodes, x \in finished', x \notin ghost', tries[x] <= 1
               PROVE  ~Present(x)' /\ ~Committing(x)' /\ posts[x] = 0 /\ runner[x] # "unborn"
    BY <1>1, Zenon DEF Finals, Regular
  <2>1. CASE x \in finished
    BY <1>2, <1>4, <1>5, <2>1 DEF RecInv, Finals, Regular, NoNewCommit
  <2>2. CASE x \notin finished
    <3>1. x = e /\ Present(e)
      BY <1>1, <2>2
    <3>2. posts[e] = 0 /\ runner[e] # "unborn"
      BY <3>1 DEF RecInv, Once
    <3>3. ~Committing(e)'
      BY <1>2, <1>5, <3>1 DEF NoNewCommit
    <3> QED
      BY <1>4, <3>1, <3>2, <3>3
  <2> QED
    BY <2>1, <2>2
<1>10. Clean'
  BY <1>1, <1>2, <1>4, <1>5, Zenon DEF RecInv, Clean, NoNewCommit
<1>11. HasRunner'
  BY <1>1, <1>3, <1>4, <1>5 DEF RecInv, HasRunner, RunnerLive, Regular, Rolling
<1> QED
  BY <1>6, <1>7, <1>8, <1>9, <1>10, <1>11 DEF RecInv

LEMMA TrainerKeeps ==
  ASSUME TypeOK, RecInv, TrainerStep
  PROVE  RecInv'
<1>1. CASE CleanUpEngineStatus
  <2>1. /\ trainer = "leaving" /\ trainer' = "training" /\ finished' = {} /\ unclaimed' = <<>>
        /\ ghost' = ghost \cup {x \in Episodes : Committing(x)}
        /\ engine_status' = engine_status /\ call' = call
        /\ runner' = runner /\ posts' = posts /\ tries' = tries
    BY <1>1 DEF CleanUpEngineStatus, runnerVars
  <2>2. \A x \in Episodes : ~Present(x)'
    BY <1>1 DEF CleanUpEngineStatus, Present, Absent
  <2>3. \A x \in Episodes : Committing(x)' <=> Committing(x)
    BY <2>1, Zenon DEF Committing
  <2>4. \A x : ~Contains(unclaimed, x)'
    BY <2>1 DEF Contains
  <2>5. Phases'
    BY <2>1 DEF RecInv, Phases
  <2>6. Once'
    BY <2>1, <2>2, <2>3 DEF RecInv, Once
  <2>7. CommitsPresent' /\ Finals' /\ Clean' /\ HasRunner'
    BY <2>1, <2>2, <2>3, <2>4 DEF CommitsPresent, Finals, Clean, HasRunner, Regular
  <2> QED
    BY <2>5, <2>6, <2>7 DEF RecInv
<1>2. CASE StartRolling \/ StopCollecting \/ EnterRollingPost \/ EnterWeightSyncing
  <2>1. /\ rec' = rec /\ unclaimed' = unclaimed /\ finished' = finished /\ call' = call
        /\ runner' = runner /\ posts' = posts /\ tries' = tries /\ ghost' = ghost
    BY <1>2 DEF StartRolling, StopCollecting, EnterRollingPost, EnterWeightSyncing,
                serverVars, runnerVars
  <2>2. \A x \in Episodes : /\ Present(x)' <=> Present(x)
                            /\ Committing(x)' <=> Committing(x)
                            /\ Acked(x)' <=> Acked(x)
    BY <2>1, Zenon DEF Present, Committing, Acked
  <2>3. Phases'
    BY <1>2 DEF RecInv, Phases, StartRolling, StopCollecting, EnterRollingPost,
                EnterWeightSyncing, serverVars, Rolling
  <2>4. trainer' # "training"
    BY <1>2 DEF StartRolling, StopCollecting, EnterRollingPost, EnterWeightSyncing
  <2>5. Once' /\ CommitsPresent'
    BY <2>1, <2>2 DEF RecInv, Once, CommitsPresent
  <2>6. Finals' /\ Clean'
    BY <2>1, <2>2, <2>4 DEF RecInv, Finals, Clean, Regular
  <2>7. (engine_status' \in Rolling => engine_status \in Rolling) \/ trainer = "training"
    BY <1>2 DEF RecInv, Phases, StartRolling, StopCollecting, EnterRollingPost,
                EnterWeightSyncing, serverVars, Rolling
  <2>8. HasRunner'
    <3> SUFFICES ASSUME NEW x \in Regular, Present(x), engine_status' \in Rolling
                 PROVE  RunnerLive(x) \/ Acked(x)
      BY <2>1, <2>2 DEF HasRunner, Regular, RunnerLive, Rolling
    <3>1. x \in Episodes \ ghost
      BY DEF Regular
    <3>2. trainer # "training"
      BY <3>1 DEF RecInv, Clean
    <3> QED
      BY <2>7, <3>2 DEF RecInv, HasRunner
  <2> QED
    BY <2>3, <2>5, <2>6, <2>8 DEF RecInv
<1> QED
  BY <1>1, <1>2 DEF TrainerStep

-----------------------------------------------------------------------------
(* The theorems *)

LEMMA RecInit == Init => RecInv
<1> SUFFICES ASSUME Init PROVE RecInv
  OBVIOUS
<1>1. \A x \in Episodes : ~Present(x) /\ ~Committing(x) /\ ~Contains(unclaimed, x)
  BY DEF Init, Present, Committing, Absent, Returned, Contains
<1> QED
  BY <1>1 DEF Init, RecInv, Phases, Once, CommitsPresent, Finals, Clean, HasRunner, Regular, Rolling

LEMMA RecStep ==
  ASSUME TypeOK, RecInv, [Next]_vars
  PROVE  RecInv'
<1>1. ASSUME NEW e \in Episodes, RunnerStep(e)
      PROVE  RecInv'
  BY <1>1, StartRunnerKeeps, RetryRegisterKeeps, RunnerExitKeeps, TakeOutputKeeps,
     RunnerResetMild, MildKeeps DEF RunnerStep
<1>2. ASSUME NEW e \in Episodes, ServerStep(e)
      PROVE  RecInv'
  BY <1>2, RegisterKeeps, EndStepMild, RecordOutputKeeps, RevertMild, JanitorMild, MildKeeps
     DEF ServerStep
<1>3. ASSUME NEW c \in Clients, ClientStep(c)
      PROVE  RecInv'
  BY <1>3, ClientMild, MildKeeps
<1>4. CASE ExpireClients \/ UNCHANGED vars \/ \E e \in Episodes : LlmCall(e) \/ GoIdle(e)
  BY <1>4, OtherMild, MildKeeps
<1> QED
  BY <1>1, <1>2, <1>3, <1>4, TrainerKeeps DEF Next

\* The invariant holds in every state of the server, its clients and its runners.
THEOREM Invariance == Spec => [](TypeOK /\ RecInv)
<1>1. Init => TypeOK /\ RecInv
  BY TypeInit, RecInit
<1>2. (TypeOK /\ RecInv) /\ [Next]_vars => (TypeOK /\ RecInv)'
  BY TypeStep, RecStep
<1> QED
  BY <1>1, <1>2, PTL DEF Spec

\* While the engine rolls, a record that a client could claim has a runner that takes its
\* output, whatever janitor, clients and repeated registrations do.
THEOREM RecordsHaveRunners == Spec => []RecordHasRunner
<1>1. RecInv => RecordHasRunner
  BY Zenon DEF RecInv, HasRunner, RecordHasRunner, Acked
<1> QED
  BY <1>1, Invariance, PTL

\* No late request brings the record of a finished episode back.
THEOREM FinishedStaysFinished == Spec => []FinishedIsFinal
<1>1. RecInv => FinishedIsFinal
  BY Zenon DEF RecInv, Finals, FinishedIsFinal
<1> QED
  BY <1>1, Invariance, PTL

\* Training starts with an empty pool, whatever was in flight when the pool was cleaned up.
THEOREM TrainingIsClean == Spec => []TrainingStartsClean
<1>1. RecInv => TrainingStartsClean
  BY Zenon DEF RecInv, Clean, TrainingStartsClean
<1> QED
  BY <1>1, Invariance, PTL

===============================================================================
