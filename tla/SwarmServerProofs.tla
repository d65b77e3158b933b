--------------------------- MODULE SwarmServerProofs ---------------------------
(***************************************************************************)
(* Theorems about SwarmServer, for every set of episodes and clients and   *)
(* every number of repeated registrations.                                 *)
(***************************************************************************)
EXTENDS SwarmServer, SequenceTheorems, WellFoundedInduction, TLAPS

-----------------------------------------------------------------------------
(* Lemmas about the list operators of the model *)

\* A non-empty set of naturals has the minimum that Min chooses.
LEMMA MinNat ==
  ASSUME NEW I, I \subseteq Nat, I # {}
  PROVE  Min(I) \in I
<1>1. PICK m \in I : \A y \in I : ~ (<<y, m>> \in OpToRel(<, Nat))
  BY WFMin, NatLessThanWellFounded, Zenon
<1>2. \A y \in I : ~ (<<y, m>> \in {ss \in Nat \X Nat : ss[1] < ss[2]})
  BY <1>1, Zenon DEF OpToRel
<1>3. ASSUME NEW y \in I PROVE m =< y
  <2>1. <<y, m>> \in Nat \X Nat
    OBVIOUS
  <2>2. ~ (<<y, m>>[1] < <<y, m>>[2])
    BY <1>2, <2>1, Zenon
  <2> QED
    BY <2>2
<1> QED
  BY <1>3 DEF Min

\* What list.remove does: one occurrence of e goes, the others close the gap.
LEMMA RemoveFirstShifts ==
  ASSUME NEW S, NEW s \in Seq(S), NEW e, Contains(s, e)
  PROVE  \E n \in 1..Len(s) :
           /\ s[n] = e
           /\ RemoveFirst(s, e) \in Seq(S)
           /\ Len(RemoveFirst(s, e)) = Len(s) - 1
           /\ \A i \in 1..(Len(s) - 1) :
                RemoveFirst(s, e)[i] = IF i < n THEN s[i] ELSE s[i + 1]
<1> DEFINE I == {i \in 1..Len(s) : s[i] = e}
           n == Min(I)
           l == SubSeq(s, 1, n - 1)
           r == SubSeq(s, n + 1, Len(s))
<1>1. I \subseteq Nat /\ I # {}
  BY DEF Contains
<1>2. n \in 1..Len(s) /\ s[n] = e
  BY <1>1, MinNat
<1>3. RemoveFirst(s, e) = l \o r
  BY <1>1 DEF RemoveFirst, RemoveAt, SelectInSeq, Contains
<1> HIDE DEF n
<1>4. /\ l \in Seq(S)
      /\ Len(l) = n - 1
      /\ \A i \in 1..(n - 1) : l[i] = s[i]
  BY <1>2, SubSeqProperties
<1>5. /\ r \in Seq(S)
      /\ Len(r) = Len(s) - n
      /\ \A i \in 1..(Len(s) - n) : r[i] = s[n + i]
  BY <1>2, SubSeqProperties
<1> HIDE DEF l, r
<1>6. /\ l \o r \in Seq(S)
      /\ Len(l \o r) = Len(s) - 1
      /\ \A i \in 1..(Len(s) - 1) : (l \o r)[i] = IF i < n THEN l[i] ELSE r[i - (n - 1)]
  <2>1. Len(l) + Len(r) = Len(s) - 1
    BY <1>2, <1>4, <1>5
  <2>2. /\ l \o r \in Seq(S)
        /\ Len(l \o r) = Len(l) + Len(r)
        /\ \A i \in 1..(Len(l) + Len(r)) :
             (l \o r)[i] = IF i <= Len(l) THEN l[i] ELSE r[i - Len(l)]
    BY <1>4, <1>5, ConcatProperties
  <2> QED
    BY <1>2, <1>4, <2>1, <2>2
<1>7. ASSUME NEW i \in 1..(Len(s) - 1)
      PROVE  (IF i < n THEN l[i] ELSE r[i - (n - 1)]) = IF i < n THEN s[i] ELSE s[i + 1]
  <2>1. CASE i < n
    BY <1>2, <1>4, <2>1
  <2>2. CASE ~ (i < n)
    <3>1. i - (n - 1) \in 1..(Len(s) - n) /\ n + (i - (n - 1)) = i + 1
      BY <1>2, <2>2
    <3> QED
      BY <1>5, <2>2, <3>1
  <2> QED
    BY <2>1, <2>2
<1> QED
  BY <1>2, <1>3, <1>6, <1>7

LEMMA RemoveFirstAbsent ==
  ASSUME NEW s, NEW e, ~ Contains(s, e)
  PROVE  RemoveFirst(s, e) = s
BY DEF RemoveFirst, Contains

\* RemoveFirst yields a sequence and takes no other element away.
LEMMA RemoveFirstKeeps ==
  ASSUME NEW S, NEW s \in Seq(S), NEW e
  PROVE  /\ RemoveFirst(s, e) \in Seq(S)
         /\ \A x : x # e /\ Contains(s, x) => Contains(RemoveFirst(s, e), x)
<1>1. CASE ~ Contains(s, e)
  BY <1>1, RemoveFirstAbsent
<1>2. CASE Contains(s, e)
  <2>1. PICK n \in 1..Len(s) :
          /\ s[n] = e
          /\ RemoveFirst(s, e) \in Seq(S)
          /\ Len(RemoveFirst(s, e)) = Len(s) - 1
          /\ \A i \in 1..(Len(s) - 1) :
               RemoveFirst(s, e)[i] = IF i < n THEN s[i] ELSE s[i + 1]
    BY <1>2, RemoveFirstShifts
  <2>2. ASSUME NEW x, x # e, Contains(s, x) PROVE Contains(RemoveFirst(s, e), x)
    <3>1. PICK i \in 1..Len(s) : s[i] = x
      BY <2>2 DEF Contains
    <3>2. CASE i < n
      BY <2>1, <3>1, <3>2 DEF Contains
    <3>3. CASE i > n
      <4>1. i - 1 \in 1..(Len(s) - 1) /\ RemoveFirst(s, e)[i - 1] = s[i]
        BY <2>1, <3>3
      <4> QED
        BY <2>1, <3>1, <4>1 DEF Contains
    <3> QED
      BY <2>1, <2>2, <3>1, <3>2, <3>3
  <2> QED
    BY <2>1, <2>2
<1> QED
  BY <1>1, <1>2

LEMMA ListTypes ==
  ASSUME NEW e \in Episodes, TypeOK
  PROVE  /\ RemoveFirst(unclaimed, e) \in Seq(Episodes)
         /\ Append(unclaimed, e) \in Seq(Episodes)
<1>1. unclaimed \in Seq(Episodes)
  BY DEF TypeOK
<1> QED
  BY <1>1, RemoveFirstKeeps, AppendProperties

LEMMA HeadType ==
  ASSUME TypeOK, unclaimed # <<>>
  PROVE  Head(unclaimed) \in Episodes /\ Tail(unclaimed) \in Seq(Episodes)
BY HeadTailProperties DEF TypeOK

-----------------------------------------------------------------------------
(* What the helpers of the model do to the types *)

LEMMA GotoType ==
  ASSUME CallsOK, NEW k \in Callers, NEW e \in Episodes, NEW op \in CallOps, NEW at \in CallPlaces,
         k = Janitor => op \in {"none", "expire"}, Goto(k, e, op, at)
  PROVE  CallsOK'
BY DEF CallsOK, Goto, Callers

LEMMA ReturnType ==
  ASSUME CallsOK, NEW k \in Callers, NEW e \in Episodes, Return(k, e)
  PROVE  CallsOK'
BY DEF CallsOK, Return, Returned, CallOps, CallPlaces, Callers

LEMMA CallOpType ==
  ASSUME CallsOK, NEW k \in Callers, NEW e \in Episodes
  PROVE  call[k][e].op \in CallOps /\ (k = Janitor => call[k][e].op \in {"none", "expire"})
BY DEF CallsOK, Callers

LEMMA DeleteRecordType ==
  ASSUME TypeOK, NEW e \in Episodes, DeleteRecord(e)
  PROVE  rec' \in [Episodes -> Record] /\ unclaimed' \in Seq(Episodes) /\ idle' \subseteq Episodes
BY ListTypes DEF DeleteRecord, TypeOK, Record, Absent

LEMMA AddRecordType ==
  ASSUME TypeOK, NEW e \in Episodes, AddRecord(e)
  PROVE  rec' \in [Episodes -> Record] /\ unclaimed' \in Seq(Episodes) /\ idle' \subseteq Episodes
BY ListTypes DEF AddRecord, TypeOK, Record, Registered

LEMMA EnqueueType ==
  ASSUME TypeOK, NEW e \in Episodes, Enqueue(e)
  PROVE  unclaimed' \in Seq(Episodes)
BY ListTypes DEF Enqueue, TypeOK

LEMMA ActivateType ==
  ASSUME TypeOK, NEW k \in Callers, NEW op, k = Janitor => op \in {"none", "expire"},
         ActivateIfAbort(k, op)
  PROVE  active' \subseteq Clients
BY DEF ActivateIfAbort, MayActivate, TypeOK, Callers

LEMMA RevertEnterType ==
  ASSUME TypeOK, NEW k \in Callers, NEW e \in Episodes, NEW op \in {"eval", "abort", "expire"},
         k = Janitor => op = "expire", RevertEnter(k, e, op)
  PROVE  CallsOK' /\ unclaimed' \in Seq(Episodes) /\ active' \subseteq Clients
<1>1. CASE Claimed(e)
  BY <1>1, GotoType DEF RevertEnter, TypeOK, CallOps, CallPlaces
<1>2. CASE ~Claimed(e)
  <2>1. CallsOK'
    BY <1>2 DEF RevertEnter, TypeOK, CallsOK
  <2>2. unclaimed' \in Seq(Episodes)
    BY <1>2, EnqueueType DEF RevertEnter, TypeOK
  <2>3. active' \subseteq Clients
    BY <1>2, ActivateType DEF RevertEnter
  <2> QED
    BY <2>1, <2>2, <2>3
<1> QED
  BY <1>1, <1>2

-----------------------------------------------------------------------------
(* Type correctness *)

LEMMA TypeInit == Init => TypeOK
BY DEF Init, TypeOK, CallsOK, Statuses, Rolling, Callers, Record, Absent, Returned, CallOps, CallPlaces

LEMMA RunnerStepType ==
  ASSUME TypeOK, NEW e \in Episodes, RunnerStep(e)
  PROVE  TypeOK'
<1>1. CASE StartRunner(e)
  BY <1>1 DEF StartRunner, TypeOK, CallsOK, serverVars, janitorVars
<1>2. CASE RetryRegister(e)
  <2>1. UNCHANGED <<serverVars, janitorVars, call, held, trainer, ghost>>
    BY <1>2 DEF RetryRegister
  <2>2. CASE StopFlag
    <3>1. /\ posts' = posts
          /\ runner' = [runner EXCEPT ![e] = "left"]
          /\ tries' = [tries EXCEPT ![e] = @ + 1]
      BY <1>2, <2>2 DEF RetryRegister
    <3>2. tries' \in [Episodes -> Nat]
      BY <3>1 DEF TypeOK
    <3>3. runner' \in [Episodes -> {"unborn", "registering", "waiting", "took", "left"}]
      BY <3>1 DEF TypeOK
    <3> QED
      BY <2>1, <3>1, <3>2, <3>3 DEF TypeOK, CallsOK, serverVars, janitorVars
  <2>3. CASE ~StopFlag
    <3>1. /\ runner' = runner
          /\ posts' = [posts EXCEPT ![e] = @ + 1]
          /\ tries' = [tries EXCEPT ![e] = @ + 1]
      BY <1>2, <2>3 DEF RetryRegister
    <3>2. posts' \in [Episodes -> Nat] /\ tries' \in [Episodes -> Nat]
      BY <3>1 DEF TypeOK
    <3> QED
      BY <2>1, <3>1, <3>2 DEF TypeOK, CallsOK, serverVars, janitorVars
  <2> QED
    BY <2>2, <2>3
<1>3. CASE RunnerExit(e)
  <2>1. rec' \in [Episodes -> Record] /\ unclaimed' \in Seq(Episodes) /\ idle' \subseteq Episodes
    BY <1>3, DeleteRecordType DEF RunnerExit, Unregister, TypeOK
  <2> QED
    BY <1>3, <2>1 DEF RunnerExit, TypeOK, CallsOK
<1>4. ASSUME NEW c \in Clients, RunnerTakeOutput(c, e)
      PROVE  TypeOK'
  <2>1. CallsOK'
    BY <1>4, GotoType, ServerAssumption DEF RunnerTakeOutput, TypeOK, Callers, CallOps, CallPlaces
  <2> QED
    BY <1>4, <2>1 DEF RunnerTakeOutput, TypeOK, serverVars, janitorVars
<1>5. ASSUME NEW k \in Callers, RunnerReset(k, e)
      PROVE  TypeOK'
  <2>1. CallsOK'
    BY <1>5, GotoType, CallOpType DEF RunnerReset, TypeOK, CallPlaces
  <2> QED
    BY <1>5, <2>1 DEF RunnerReset, TypeOK, serverVars, janitorVars, runnerVars
<1> QED
  BY <1>1, <1>2, <1>3, <1>4, <1>5 DEF RunnerStep

LEMMA RegisterEpisodeType ==
  ASSUME TypeOK, NEW e \in Episodes, RegisterEpisode(e)
  PROVE  TypeOK'
<1>1. posts' \in [Episodes -> Nat]
  <2>1. posts[e] - 1 \in Nat
    BY DEF RegisterEpisode, TypeOK
  <2> QED
    BY <2>1 DEF RegisterEpisode, TypeOK
<1>2. rec' \in [Episodes -> Record] /\ unclaimed' \in Seq(Episodes) /\ idle' \subseteq Episodes
  BY AddRecordType DEF RegisterEpisode, TypeOK
<1>3. runner' \in [Episodes -> {"unborn", "registering", "waiting", "took", "left"}]
  BY DEF RegisterEpisode, TypeOK
<1> QED
  BY <1>1, <1>2, <1>3 DEF RegisterEpisode, TypeOK, CallsOK

\* The thread of end_episode and its return to the event loop
LEMMA EndStepType ==
  ASSUME TypeOK, NEW e \in Episodes, NEW c \in Clients,
         SendOutput(c, e) \/ StopWaitingForAck(c, e) \/ RecordOutput(c, e) \/ EndReturns(c, e)
  PROVE  TypeOK'
<1>1. c \in Callers /\ c # Janitor
  BY ServerAssumption DEF Callers
<1>2. CASE SendOutput(c, e)
  <2>1. CallsOK'
    BY <1>1, <1>2, GotoType, ReturnType DEF SendOutput, TypeOK, CallOps, CallPlaces
  <2> QED
    BY <1>2, <2>1 DEF SendOutput, TypeOK, serverVars, janitorVars, runnerVars
<1>3. CASE StopWaitingForAck(c, e)
  <2>1. CallsOK'
    BY <1>1, <1>3, GotoType DEF StopWaitingForAck, TypeOK, CallOps, CallPlaces
  <2> QED
    BY <1>3, <2>1 DEF StopWaitingForAck, TypeOK, serverVars, janitorVars, runnerVars
<1>4. CASE RecordOutput(c, e)
  <2>1. CallsOK'
    BY <1>1, <1>4, GotoType DEF RecordOutput, TypeOK, CallOps, CallPlaces
  <2>2. rec' \in [Episodes -> Record] /\ unclaimed' \in Seq(Episodes) /\ idle' \subseteq Episodes
    BY <1>4, DeleteRecordType DEF RecordOutput
  <2> QED
    BY <1>4, <2>1, <2>2 DEF RecordOutput, TypeOK, runnerVars
<1>5. CASE EndReturns(c, e)
  <2>1. CallsOK'
    BY <1>1, <1>5, ReturnType DEF EndReturns, TypeOK
  <2>2. active' \subseteq Clients
    BY <1>5 DEF EndReturns, MayActivate, TypeOK
  <2> QED
    BY <1>5, <2>1, <2>2 DEF EndReturns, TypeOK, janitorVars, runnerVars
<1> QED
  BY <1>2, <1>3, <1>4, <1>5

\* The thread of a revert and its return to the event loop
LEMMA RevertStepType ==
  ASSUME TypeOK, NEW e \in Episodes, NEW k \in Callers,
         StopWaitingForReset(k, e) \/ RevertTail(k, e) \/ RevertCommit(k, e)
  PROVE  TypeOK'
<1> DEFINE op == call[k][e].op
<1>1. op \in CallOps /\ (k = Janitor => op \in {"none", "expire"})
  BY CallOpType DEF TypeOK
<1> HIDE DEF op
<1>2. CASE StopWaitingForReset(k, e)
  <2>1. CallsOK'
    BY <1>1, <1>2, GotoType, ReturnType DEF StopWaitingForReset, TypeOK, CallPlaces, op
  <2> QED
    BY <1>2, <2>1 DEF StopWaitingForReset, TypeOK, serverVars, janitorVars, runnerVars
<1>3. CASE RevertTail(k, e)
  <2>1. CallsOK'
    BY <1>1, <1>3, GotoType, ReturnType DEF RevertTail, TypeOK, CallPlaces, op
  <2>2. active' \subseteq Clients
    BY <1>1, <1>3, ActivateType DEF RevertTail, TypeOK, op
  <2>3. rec' \in [Episodes -> Record] /\ idle' \subseteq Episodes
    <3>1. CASE Present(e)
      <4>1. rec' = [rec EXCEPT ![e] = Registered] /\ idle' = idle \ {e}
        BY <1>3, <3>1, Zenon DEF RevertTail
      <4> QED
        BY <4>1 DEF TypeOK, Record, Registered
    <3>2. CASE ~Present(e)
      BY <1>3, <3>2 DEF RevertTail, TypeOK
    <3> QED
      BY <3>1, <3>2
  <2> QED
    BY <1>3, <2>1, <2>2, <2>3 DEF RevertTail, TypeOK, runnerVars
<1>4. CASE RevertCommit(k, e)
  <2>1. CallsOK'
    BY <1>4, ReturnType DEF RevertCommit, TypeOK
  <2>2. active' \subseteq Clients
    BY <1>1, <1>4, ActivateType DEF RevertCommit, op
  <2>3. rec' \in [Episodes -> Record] /\ unclaimed' \in Seq(Episodes)
    BY <1>4, EnqueueType DEF RevertCommit, TypeOK, Record, Registered
  <2> QED
    BY <1>4, <2>1, <2>2, <2>3 DEF RevertCommit, TypeOK, janitorVars, runnerVars
<1> QED
  BY <1>2, <1>3, <1>4

LEMMA JanitorStepType ==
  ASSUME TypeOK, NEW e \in Episodes, JanitorScan(e) \/ JanitorNext(e)
  PROVE  TypeOK'
<1>1. CallsOK' /\ unclaimed' \in Seq(Episodes) /\ active' \subseteq Clients
  BY RevertEnterType DEF JanitorScan, JanitorNext, Callers
<1>2. expired' \subseteq Episodes
  BY DEF JanitorScan, JanitorNext, TypeOK
<1> QED
  BY <1>1, <1>2 DEF JanitorScan, JanitorNext, TypeOK, runnerVars

LEMMA ServerStepType ==
  ASSUME TypeOK, NEW e \in Episodes, ServerStep(e)
  PROVE  TypeOK'
BY RegisterEpisodeType, EndStepType, RevertStepType, JanitorStepType DEF ServerStep

LEMMA ClientStepType ==
  ASSUME TypeOK, NEW c \in Clients, ClientStep(c)
  PROVE  TypeOK'
<1>1. c \in Callers /\ c # Janitor
  BY ServerAssumption DEF Callers
<1>2. ASSUME NEW type \in EpisodeTypes, ClaimEpisode(c, type)
      PROVE  TypeOK'
  <2> DEFINE h == Head(unclaimed)
  <2>1. unclaimed' \in Seq(Episodes) /\ h \in Episodes
    <3>1. unclaimed # <<>> /\ unclaimed' = Tail(unclaimed)
      BY <1>2, Zenon DEF ClaimEpisode
    <3> QED
      BY <3>1, HeadType
  <2>2. rec' \in [Episodes -> Record] /\ held' \in [Clients -> SUBSET Episodes] /\ idle' \subseteq Episodes
    <3>1. CASE Present(h)
      <4>1. /\ rec' = [rec EXCEPT ![h] = [status |-> "claimed", client |-> c, type |-> type]]
            /\ held' = [held EXCEPT ![c] = @ \cup {h}]
            /\ idle' = idle \ {h}
        BY <1>2, <3>1, Zenon DEF ClaimEpisode
      <4> HIDE DEF h
      <4> QED
        BY <2>1, <4>1 DEF TypeOK, Record
    <3>2. CASE ~Present(h)
      <4>1. UNCHANGED <<rec, held, idle>>
        BY <1>2, <3>2, Zenon DEF ClaimEpisode
      <4> QED
        BY <4>1 DEF TypeOK
    <3> QED
      BY <3>1, <3>2
  <2> QED
    BY <1>2, <2>1, <2>2 DEF ClaimEpisode, TypeOK, CallsOK, runnerVars
<1>3. ASSUME NEW e \in Episodes, GiveUp(c, e)
      PROVE  held' \in [Clients -> SUBSET Episodes]
  BY <1>3 DEF GiveUp, TypeOK
<1>4. ASSUME NEW e \in Episodes, EndTrainEpisode(c, e)
      PROVE  TypeOK'
  <2>1. CallsOK'
    BY <1>1, <1>4, GotoType DEF EndTrainEpisode, TypeOK, CallOps, CallPlaces
  <2> QED
    BY <1>3, <1>4, <2>1 DEF EndTrainEpisode, TypeOK, serverVars, janitorVars, runnerVars
<1>5. ASSUME NEW e \in Episodes, EndEvalEpisode(c, e)
      PROVE  TypeOK'
  <2>1. CASE engine_status = "ENGINE.ROLLING"
    <3>1. CallsOK' /\ unclaimed' \in Seq(Episodes) /\ active' \subseteq Clients
      BY <1>1, <1>5, <2>1, RevertEnterType DEF EndEvalEpisode
    <3> QED
      BY <1>3, <1>5, <2>1, <3>1 DEF EndEvalEpisode, TypeOK, runnerVars
  <2>2. CASE engine_status # "ENGINE.ROLLING"
    <3>1. rec' \in [Episodes -> Record] /\ unclaimed' \in Seq(Episodes) /\ idle' \subseteq Episodes
      BY <1>5, <2>2, DeleteRecordType DEF EndEvalEpisode
    <3> QED
      BY <1>3, <1>5, <2>2, <3>1 DEF EndEvalEpisode, TypeOK, CallsOK, runnerVars
  <2> QED
    BY <2>1, <2>2
<1>6. ASSUME NEW e \in Episodes, AbortEpisode(c, e)
      PROVE  TypeOK'
  <2>1. CASE engine_status \in Rolling /\ Present(e) /\ engine_status = "ENGINE.ROLLING"
    <3>1. CallsOK' /\ unclaimed' \in Seq(Episodes) /\ active' \subseteq Clients
      BY <1>1, <1>6, <2>1, RevertEnterType DEF AbortEpisode
    <3> QED
      BY <1>3, <1>6, <2>1, <3>1 DEF AbortEpisode, TypeOK, runnerVars
  <2>2. CASE engine_status \in Rolling /\ Present(e) /\ engine_status = "ENGINE.ROLLING_POST"
    <3>1. rec' \in [Episodes -> Record] /\ unclaimed' \in Seq(Episodes) /\ idle' \subseteq Episodes
      BY <1>6, <2>2, DeleteRecordType DEF AbortEpisode
    <3>2. active' \subseteq Clients
      BY <1>6, <2>2 DEF AbortEpisode, MayActivate, TypeOK
    <3> QED
      BY <1>3, <1>6, <2>2, <3>1, <3>2 DEF AbortEpisode, TypeOK, CallsOK, runnerVars
  <2>3. CASE ~(engine_status \in Rolling /\ Present(e))
    BY <1>3, <1>6, <2>3 DEF AbortEpisode, TypeOK, CallsOK, runnerVars
  <2> QED
    BY <2>1, <2>2, <2>3 DEF Rolling
<1> QED
  BY <1>2, <1>4, <1>5, <1>6, Zenon DEF ClientStep

LEMMA TrainerStepType ==
  ASSUME TypeOK, TrainerStep
  PROVE  TypeOK'
<1>1. CASE StartRolling
  BY <1>1 DEF StartRolling, TypeOK, CallsOK, Statuses, Rolling, janitorVars, runnerVars
<1>2. CASE StopCollecting
  BY <1>2 DEF StopCollecting, TypeOK, CallsOK, serverVars, janitorVars, runnerVars
<1>3. CASE EnterRollingPost
  BY <1>3 DEF EnterRollingPost, TypeOK, CallsOK, Statuses, Rolling, janitorVars, runnerVars
<1>4. CASE EnterWeightSyncing
  BY <1>4 DEF EnterWeightSyncing, TypeOK, CallsOK, Statuses, Rolling, janitorVars, runnerVars
<1>5. CASE CleanUpEngineStatus
  <2>1. rec' \in [Episodes -> Record] /\ unclaimed' \in Seq(Episodes)
    BY <1>5 DEF CleanUpEngineStatus, Record, Absent
  <2>2. ghost' \subseteq Episodes
    BY <1>5 DEF CleanUpEngineStatus, TypeOK
  <2> QED
    BY <1>5, <2>1, <2>2 DEF CleanUpEngineStatus, TypeOK, CallsOK, runnerVars
<1> QED
  BY <1>1, <1>2, <1>3, <1>4, <1>5 DEF TrainerStep

LEMMA TypeStep ==
  ASSUME TypeOK, [Next]_vars
  PROVE  TypeOK'
<1>1. ASSUME NEW e \in Episodes, LlmCall(e) \/ GoIdle(e)
      PROVE  TypeOK'
  BY <1>1 DEF LlmCall, GoIdle, TypeOK, CallsOK, serverVars, runnerVars
<1>2. CASE ExpireClients
  BY <1>2 DEF ExpireClients, TypeOK, CallsOK, janitorVars, runnerVars
<1>3. CASE UNCHANGED vars
  BY <1>3 DEF vars, serverVars, janitorVars, runnerVars, TypeOK, CallsOK
<1> QED
  BY <1>1, <1>2, <1>3, RunnerStepType, ServerStepType, ClientStepType, TrainerStepType DEF Next

\* Every action keeps every variable in its type: the server never stores a
\* record, a list or a request state that the handlers do not expect, and the
\* janitor's requests are never anything but reverts.
THEOREM TypeCorrect == Spec => []TypeOK
BY TypeInit, TypeStep, PTL DEF Spec

-----------------------------------------------------------------------------
(* No registered episode is lost *)

\* A step ends no revert between its mutation and its lock.
CommitsStay == \A x \in Episodes : Committing(x) => Committing(x)'

LEMMA GotoKeepsCommits ==
  ASSUME CallsOK, NEW k \in Callers, NEW e \in Episodes, NEW op, NEW at,
         call[k][e].at # "commit", Goto(k, e, op, at)
  PROVE  CommitsStay
<1> SUFFICES ASSUME NEW x \in Episodes, NEW l \in Callers, call[l][x].at = "commit"
             PROVE  call'[l][x].at = "commit"
  BY Zenon DEF CommitsStay, Committing
<1> QED
  BY DEF Goto, CallsOK

LEMMA ReturnKeepsCommits ==
  ASSUME CallsOK, NEW k \in Callers, NEW e \in Episodes, call[k][e].at # "commit", Return(k, e)
  PROVE  CommitsStay
<1> SUFFICES ASSUME NEW x \in Episodes, NEW l \in Callers, call[l][x].at = "commit"
             PROVE  call'[l][x].at = "commit"
  BY Zenon DEF CommitsStay, Committing
<1> QED
  BY DEF Return, CallsOK

LEMMA SameCallKeepsCommits ==
  ASSUME UNCHANGED call
  PROVE  CommitsStay
BY Zenon DEF CommitsStay, Committing

\* While the event loop is free there is no commit to keep.
LEMMA LoopFreeCommits ==
  ASSUME LoopFree
  PROVE  CommitsStay
BY Zenon DEF CommitsStay, LoopFree

LEMMA StutterReachable ==
  ASSUME NoLostEpisode, UNCHANGED <<rec, unclaimed>>, CommitsStay
  PROVE  NoLostEpisode'
<1>1. rec' = rec /\ unclaimed' = unclaimed
  OBVIOUS
<1> QED
  BY <1>1, Zenon DEF NoLostEpisode, CommitsStay

\* Removing one record takes no other episode from the list.
LEMMA DeleteReachable ==
  ASSUME TypeOK, NoLostEpisode, NEW e \in Episodes, DeleteRecord(e), CommitsStay
  PROVE  NoLostEpisode'
<1> SUFFICES ASSUME NEW x \in Episodes, rec'[x].status = "registered"
             PROVE  Contains(unclaimed', x) \/ Committing(x)'
  BY Zenon DEF NoLostEpisode
<1>1. x # e /\ rec[x].status = "registered"
  BY DEF DeleteRecord, TypeOK, Absent
<1>2. CASE Contains(unclaimed, x)
  BY <1>1, <1>2, RemoveFirstKeeps DEF DeleteRecord, TypeOK
<1>3. CASE Committing(x)
  BY <1>3, Zenon DEF CommitsStay
<1> QED
  BY <1>1, <1>2, <1>3, Zenon DEF NoLostEpisode

LEMMA AppendContains ==
  ASSUME NEW S, NEW s \in Seq(S), NEW e \in S
  PROVE  Contains(Append(s, e), e) /\ \A x : Contains(s, x) => Contains(Append(s, e), x)
<1>1. Append(s, e)[Len(s) + 1] = e /\ Len(s) + 1 \in 1..Len(Append(s, e))
  BY AppendProperties
<1>2. ASSUME NEW x, Contains(s, x)
      PROVE  Contains(Append(s, e), x)
  <2>1. PICK i \in 1..Len(s) : s[i] = x
    BY <1>2 DEF Contains
  <2>2. Append(s, e)[i] = x /\ i \in 1..Len(Append(s, e))
    BY <2>1, AppendProperties
  <2> QED
    BY <2>2 DEF Contains
<1> QED
  BY <1>1, <1>2 DEF Contains

LEMMA EnqueueContains ==
  ASSUME TypeOK, NEW e \in Episodes, Enqueue(e)
  PROVE  Contains(unclaimed', e) /\ \A x : Contains(unclaimed, x) => Contains(unclaimed', x)
BY AppendContains, Zenon DEF Enqueue, TypeOK

LEMMA AddReachable ==
  ASSUME TypeOK, NoLostEpisode, NEW e \in Episodes, AddRecord(e), CommitsStay
  PROVE  NoLostEpisode'
<1> SUFFICES ASSUME NEW x \in Episodes, rec'[x].status = "registered"
             PROVE  Contains(unclaimed', x) \/ Committing(x)'
  BY Zenon DEF NoLostEpisode
<1>1. Contains(unclaimed', e) /\ \A y : Contains(unclaimed, y) => Contains(unclaimed', y)
  BY AppendContains, Zenon DEF AddRecord, TypeOK
<1>2. x = e \/ rec[x].status = "registered"
  BY DEF AddRecord, TypeOK
<1> QED
  BY <1>1, <1>2, Zenon DEF NoLostEpisode, CommitsStay

\* A revert that finds nothing to do puts a lost episode back at most.
LEMMA RevertEnterReachable ==
  ASSUME TypeOK, NoLostEpisode, NEW k \in Callers, NEW e \in Episodes, NEW op,
         LoopFree, UNCHANGED rec, RevertEnter(k, e, op)
  PROVE  NoLostEpisode'
<1>1. CommitsStay
  BY LoopFreeCommits
<1>2. CASE UNCHANGED unclaimed
  BY <1>1, <1>2, StutterReachable
<1>3. CASE Enqueue(e)
  <2>1. \A x : Contains(unclaimed, x) => Contains(unclaimed', x)
    BY <1>3, EnqueueContains
  <2>2. rec' = rec
    OBVIOUS
  <2> QED
    BY <1>1, <2>1, <2>2, Zenon DEF NoLostEpisode, CommitsStay
<1> QED
  BY <1>2, <1>3 DEF RevertEnter

LEMMA ClaimReachable ==
  ASSUME TypeOK, NoLostEpisode, NEW c \in Clients, NEW type, ClaimEpisode(c, type)
  PROVE  NoLostEpisode'
<1> DEFINE h == Head(unclaimed)
<1> SUFFICES ASSUME NEW x \in Episodes, rec'[x].status = "registered"
             PROVE  Contains(unclaimed', x) \/ Committing(x)'
  BY Zenon DEF NoLostEpisode
<1>1. LoopFree /\ unclaimed # <<>> /\ unclaimed' = Tail(unclaimed)
  BY Zenon DEF ClaimEpisode
<1>2. h \in Episodes
  BY <1>1, HeadType
<1>3. rec[x].status = "registered" /\ x # h
  <2>1. CASE Present(h)
    <3>1. rec' = [rec EXCEPT ![h] = [status |-> "claimed", client |-> c, type |-> type]]
      BY <2>1, Zenon DEF ClaimEpisode
    <3> HIDE DEF h
    <3> QED
      BY <1>2, <3>1 DEF TypeOK
  <2>2. CASE ~Present(h)
    <3>1. rec' = rec
      BY <2>2, Zenon DEF ClaimEpisode
    <3> QED
      BY <2>2, <3>1 DEF Present
  <2> QED
    BY <2>1, <2>2
<1>4. Contains(unclaimed, x)
  BY <1>1, <1>3, Zenon DEF NoLostEpisode, LoopFree
<1>5. PICK i \in 1..Len(unclaimed) : unclaimed[i] = x
  BY <1>4 DEF Contains
<1>6. i # 1
  BY <1>3, <1>5
<1>7. /\ i - 1 \in 1..Len(Tail(unclaimed))
      /\ Tail(unclaimed)[i - 1] = unclaimed[i]
  <2>1. unclaimed \in Seq(Episodes)
    BY DEF TypeOK
  <2> QED
    BY <1>1, <1>5, <1>6, <2>1, HeadTailProperties
<1> QED
  BY <1>1, <1>5, <1>7 DEF Contains

LEMMA RunnerReachable ==
  ASSUME TypeOK, NoLostEpisode, NEW e \in Episodes, RunnerStep(e)
  PROVE  NoLostEpisode'
<1>1. CASE StartRunner(e) \/ RetryRegister(e)
  BY <1>1, SameCallKeepsCommits, StutterReachable DEF StartRunner, RetryRegister, serverVars
<1>2. CASE RunnerExit(e)
  <2>1. CommitsStay
    BY <1>2, LoopFreeCommits DEF RunnerExit
  <2>2. DeleteRecord(e) \/ UNCHANGED <<rec, unclaimed>>
    BY <1>2, Zenon DEF RunnerExit, Unregister
  <2> QED
    BY <2>1, <2>2, DeleteReachable, StutterReachable
<1>3. ASSUME NEW c \in Clients, RunnerTakeOutput(c, e)
      PROVE  NoLostEpisode'
  <2>1. CommitsStay
    BY <1>3, GotoKeepsCommits DEF RunnerTakeOutput, TypeOK, Callers
  <2> QED
    BY <1>3, <2>1, StutterReachable DEF RunnerTakeOutput, serverVars
<1>4. ASSUME NEW k \in Callers, RunnerReset(k, e)
      PROVE  NoLostEpisode'
  <2>1. CommitsStay
    BY <1>4, GotoKeepsCommits DEF RunnerReset, TypeOK
  <2> QED
    BY <1>4, <2>1, StutterReachable DEF RunnerReset, serverVars
<1> QED
  BY <1>1, <1>2, <1>3, <1>4 DEF RunnerStep

LEMMA EndStepReachable ==
  ASSUME TypeOK, NoLostEpisode, NEW e \in Episodes, NEW c \in Clients,
         SendOutput(c, e) \/ StopWaitingForAck(c, e) \/ RecordOutput(c, e) \/ EndReturns(c, e)
  PROVE  NoLostEpisode'
<1>1. c \in Callers
  BY DEF Callers
<1>2. CASE SendOutput(c, e)
  <2>1. CommitsStay
    BY <1>1, <1>2, GotoKeepsCommits, ReturnKeepsCommits DEF SendOutput, TypeOK
  <2> QED
    BY <1>2, <2>1, StutterReachable DEF SendOutput, serverVars
<1>3. CASE StopWaitingForAck(c, e)
  <2>1. CommitsStay
    BY <1>1, <1>3, GotoKeepsCommits DEF StopWaitingForAck, TypeOK
  <2> QED
    BY <1>3, <2>1, StutterReachable DEF StopWaitingForAck, serverVars
<1>4. CASE RecordOutput(c, e)
  <2>1. CommitsStay
    BY <1>1, <1>4, GotoKeepsCommits DEF RecordOutput, TypeOK
  <2> QED
    BY <1>4, <2>1, DeleteReachable DEF RecordOutput
<1>5. CASE EndReturns(c, e)
  <2>1. CommitsStay
    BY <1>5, LoopFreeCommits DEF EndReturns
  <2> QED
    BY <1>5, <2>1, StutterReachable DEF EndReturns
<1> QED
  BY <1>2, <1>3, <1>4, <1>5

\* The tail of a revert makes a record registered before it is in the list; its
\* own commit stands for it until it is.
LEMMA RevertTailReachable ==
  ASSUME TypeOK, NoLostEpisode, NEW e \in Episodes, NEW k \in Callers, RevertTail(k, e)
  PROVE  NoLostEpisode'
<1>1. CommitsStay
  BY LoopFreeCommits DEF RevertTail
<1>2. CASE ~Present(e)
  BY <1>1, <1>2, StutterReachable DEF RevertTail
<1>3. CASE Present(e)
  <2>1. rec' = [rec EXCEPT ![e] = Registered] /\ unclaimed' = unclaimed
    BY <1>3, Zenon DEF RevertTail
  <2>2. Committing(e)'
    <3>1. call' = [call EXCEPT ![k][e] = [op |-> call[k][e].op, at |-> "commit"]]
      BY <1>3, Zenon DEF RevertTail, Goto
    <3>2. call'[k][e].at = "commit"
      BY <3>1 DEF TypeOK, CallsOK
    <3> QED
      BY <3>2, Zenon DEF Committing
  <2> SUFFICES ASSUME NEW x \in Episodes, rec'[x].status = "registered"
               PROVE  Contains(unclaimed', x) \/ Committing(x)'
    BY Zenon DEF NoLostEpisode
  <2>3. x = e \/ rec[x].status = "registered"
    BY <2>1 DEF TypeOK
  <2> QED
    BY <1>1, <2>1, <2>2, <2>3, Zenon DEF NoLostEpisode, CommitsStay
<1> QED
  BY <1>2, <1>3

LEMMA RevertCommitReachable ==
  ASSUME TypeOK, NoLostEpisode, NEW e \in Episodes, NEW k \in Callers, RevertCommit(k, e)
  PROVE  NoLostEpisode'
<1> SUFFICES ASSUME NEW x \in Episodes, rec'[x].status = "registered"
             PROVE  Contains(unclaimed', x) \/ Committing(x)'
  BY Zenon DEF NoLostEpisode
<1>1. Contains(unclaimed', e) /\ \A y : Contains(unclaimed, y) => Contains(unclaimed', y)
  BY EnqueueContains DEF RevertCommit
<1>2. CASE x # e
  <2>1. rec[x].status = "registered"
    BY <1>2 DEF RevertCommit, TypeOK
  <2>2. Committing(x) => Committing(x)'
    <3> SUFFICES ASSUME NEW l \in Callers, call[l][x].at = "commit"
                 PROVE  call'[l][x].at = "commit"
      BY Zenon DEF Committing
    <3> QED
      BY <1>2 DEF RevertCommit, Return, TypeOK, CallsOK
  <2> QED
    BY <1>1, <2>1, <2>2, Zenon DEF NoLostEpisode
<1> QED
  BY <1>1, <1>2

LEMMA ServerReachable ==
  ASSUME TypeOK, NoLostEpisode, NEW e \in Episodes, ServerStep(e)
  PROVE  NoLostEpisode'
<1>1. CASE RegisterEpisode(e)
  <2>1. CommitsStay
    BY <1>1, LoopFreeCommits DEF RegisterEpisode
  <2>2. AddRecord(e) \/ UNCHANGED <<rec, unclaimed>>
    BY <1>1, Zenon DEF RegisterEpisode
  <2> QED
    BY <2>1, <2>2, AddReachable, StutterReachable
<1>2. ASSUME NEW k \in Callers, StopWaitingForReset(k, e)
      PROVE  NoLostEpisode'
  <2>1. CommitsStay
    BY <1>2, GotoKeepsCommits, ReturnKeepsCommits DEF StopWaitingForReset, TypeOK
  <2> QED
    BY <1>2, <2>1, StutterReachable DEF StopWaitingForReset, serverVars
<1>3. CASE JanitorScan(e) \/ JanitorNext(e)
  BY <1>3, RevertEnterReachable DEF JanitorScan, JanitorNext, JanitorFree, Callers
<1> QED
  BY <1>1, <1>2, <1>3, EndStepReachable, RevertTailReachable, RevertCommitReachable DEF ServerStep

LEMMA ClientReachable ==
  ASSUME TypeOK, NoLostEpisode, NEW c \in Clients, ClientStep(c)
  PROVE  NoLostEpisode'
<1>1. c \in Callers
  BY DEF Callers
<1>2. ASSUME NEW e \in Episodes, EndTrainEpisode(c, e)
      PROVE  NoLostEpisode'
  <2>1. CommitsStay
    BY <1>2, LoopFreeCommits DEF EndTrainEpisode, MayEnd
  <2> QED
    BY <1>2, <2>1, StutterReachable DEF EndTrainEpisode, serverVars
<1>3. ASSUME NEW e \in Episodes, EndEvalEpisode(c, e)
      PROVE  NoLostEpisode'
  <2>1. LoopFree
    BY <1>3 DEF EndEvalEpisode, MayEnd
  <2>2. (UNCHANGED rec /\ RevertEnter(c, e, "eval")) \/ DeleteRecord(e)
    BY <1>3, Zenon DEF EndEvalEpisode
  <2> QED
    BY <1>1, <2>1, <2>2, LoopFreeCommits, RevertEnterReachable, DeleteReachable
<1>4. ASSUME NEW e \in Episodes, AbortEpisode(c, e)
      PROVE  NoLostEpisode'
  <2>1. LoopFree
    BY <1>4 DEF AbortEpisode
  <2>2. \/ UNCHANGED rec /\ RevertEnter(c, e, "abort")
        \/ DeleteRecord(e)
        \/ UNCHANGED <<rec, unclaimed>>
    BY <1>4, Zenon DEF AbortEpisode
  <2> QED
    BY <1>1, <2>1, <2>2, LoopFreeCommits, RevertEnterReachable, DeleteReachable, StutterReachable
<1> QED
  BY <1>2, <1>3, <1>4, ClaimReachable DEF ClientStep

LEMMA TrainerReachable ==
  ASSUME TypeOK, NoLostEpisode, TrainerStep
  PROVE  NoLostEpisode'
<1>1. CASE CleanUpEngineStatus
  BY <1>1 DEF CleanUpEngineStatus, NoLostEpisode, Absent
<1>2. CASE ~CleanUpEngineStatus
  <2>1. UNCHANGED <<rec, unclaimed, call>>
    BY <1>2 DEF TrainerStep, StartRolling, StopCollecting, EnterRollingPost, EnterWeightSyncing,
                serverVars
  <2> QED
    BY <2>1, SameCallKeepsCommits, StutterReachable
<1> QED
  BY <1>1, <1>2

LEMMA NoLostStep ==
  ASSUME TypeOK, NoLostEpisode, [Next]_vars
  PROVE  NoLostEpisode'
<1>1. CASE (\E e \in Episodes : LlmCall(e) \/ GoIdle(e)) \/ ExpireClients \/ UNCHANGED vars
  <2>1. UNCHANGED <<rec, unclaimed, call>>
    BY <1>1 DEF LlmCall, GoIdle, ExpireClients, vars, serverVars
  <2> QED
    BY <2>1, SameCallKeepsCommits, StutterReachable
<1> QED
  BY <1>1, RunnerReachable, ServerReachable, ClientReachable, TrainerReachable DEF Next

\* A registered episode stays in the list until it is claimed or removed: whatever
\* handlers and threads interleave, and however often a registration is repeated,
\* no episode with a runner behind it becomes one that no client can get.
THEOREM NothingLost == Spec => []NoLostEpisode
<1>1. Init => NoLostEpisode
  BY DEF Init, NoLostEpisode, Absent
<1> QED
  BY <1>1, TypeInit, TypeStep, NoLostStep, PTL DEF Spec

-----------------------------------------------------------------------------
(***************************************************************************)
(* What holds of SwarmServer when no registration is repeated, that is     *)
(* with MaxResend = 0: the list of unclaimed episodes is exact.            *)
(*                                                                         *)
(* The list alone is not inductive.  That register_episode never appends   *)
(* an episode twice depends on the runner, which posts once, and on the    *)
(* reverts: none may write back the record of an episode whose runner has  *)
(* not had its registration answered.  SinglePost says both.               *)
(***************************************************************************)

SinglePost ==
  \A e \in Episodes :
    /\ posts[e] = IF runner[e] = "registering" THEN 1 ELSE 0
    /\ runner[e] = "registering" => tries[e] > 0
    /\ runner[e] \in {"unborn", "registering"} => ~Present(e) /\ ~Committing(e)

-----------------------------------------------------------------------------
(* The runner side: SinglePost *)

\* No revert of a young episode gets as far as its mutation.
CommitsOfPresent == \A x \in Episodes : Committing(x)' => Committing(x) \/ Present(x)

LEMMA GotoCommits ==
  ASSUME CallsOK, NEW k \in Callers, NEW e \in Episodes, NEW op, NEW at,
         at # "commit" \/ Present(e), Goto(k, e, op, at)
  PROVE  CommitsOfPresent
<1> SUFFICES ASSUME NEW x \in Episodes, NEW l \in Callers, call'[l][x].at = "commit", ~Present(x)
             PROVE  call[l][x].at = "commit"
  BY Zenon DEF CommitsOfPresent, Committing
<1> QED
  BY DEF Goto, CallsOK

LEMMA ReturnCommits ==
  ASSUME CallsOK, NEW k \in Callers, NEW e \in Episodes, Return(k, e)
  PROVE  CommitsOfPresent
<1> SUFFICES ASSUME NEW x \in Episodes, NEW l \in Callers, call'[l][x].at = "commit"
             PROVE  call[l][x].at = "commit"
  BY Zenon DEF CommitsOfPresent, Committing
<1> QED
  BY DEF Return, Returned, CallsOK

LEMMA SameCallCommits ==
  ASSUME UNCHANGED call
  PROVE  CommitsOfPresent
BY Zenon DEF CommitsOfPresent, Committing

\* Whatever leaves the runners alone and brings no removed record back, unless a
\* revert of it stands before its lock, keeps SinglePost.
LEMMA RunnersAlone ==
  ASSUME SinglePost, UNCHANGED <<runner, posts, tries>>, CommitsOfPresent,
         \A x \in Episodes : Present(x)' => Present(x) \/ Committing(x)
  PROVE  SinglePost'
<1>1. runner' = runner /\ posts' = posts /\ tries' = tries
  OBVIOUS
<1> QED
  BY <1>1, Zenon DEF SinglePost, CommitsOfPresent

LEMMA DeletePresent ==
  ASSUME TypeOK, NEW e \in Episodes, DeleteRecord(e)
  PROVE  \A x \in Episodes : Present(x)' => Present(x)
BY DEF DeleteRecord, Present, Absent, TypeOK

LEMMA RevertEnterCommits ==
  ASSUME CallsOK, NEW k \in Callers, NEW e \in Episodes, NEW op, RevertEnter(k, e, op)
  PROVE  CommitsOfPresent
<1>1. CASE Claimed(e)
  BY <1>1, GotoCommits DEF RevertEnter
<1>2. CASE ~Claimed(e)
  BY <1>2, SameCallCommits DEF RevertEnter
<1> QED
  BY <1>1, <1>2

LEMMA RunnerSinglePost ==
  ASSUME MaxResend = 0, TypeOK, SinglePost, NEW e \in Episodes, RunnerStep(e)
  PROVE  SinglePost'
<1>1. CASE StartRunner(e)
  <2>1. UNCHANGED <<rec, call>>
    BY <1>1 DEF StartRunner, serverVars
  <2>2. \A x \in Episodes : (Present(x)' <=> Present(x)) /\ (Committing(x)' <=> Committing(x))
    BY <2>1, Zenon DEF Present, Committing
  <2> QED
    BY <1>1, <2>2 DEF StartRunner, SinglePost, TypeOK
<1>2. ~RetryRegister(e)
  BY DEF RetryRegister, SinglePost, TypeOK
<1>3. CASE RunnerExit(e)
  <2>1. \A x \in Episodes : Present(x)' => Present(x)
    BY <1>3, DeletePresent, Zenon DEF RunnerExit, Unregister, Present
  <2>2. CommitsOfPresent
    BY <1>3, SameCallCommits DEF RunnerExit
  <2>3. /\ runner' = [runner EXCEPT ![e] = "left"]
        /\ runner[e] = "waiting"
        /\ posts' = posts /\ tries' = tries
    BY <1>3 DEF RunnerExit
  <2>4. ASSUME NEW x \in Episodes
        PROVE  /\ posts'[x] = IF runner'[x] = "registering" THEN 1 ELSE 0
               /\ runner'[x] = "registering" => tries'[x] > 0
               /\ runner'[x] \in {"unborn", "registering"} => runner[x] \in {"unborn", "registering"}
    BY <2>3 DEF SinglePost, TypeOK
  <2> QED
    BY <2>1, <2>2, <2>4, Zenon DEF SinglePost, CommitsOfPresent
<1>4. ASSUME NEW c \in Clients, RunnerTakeOutput(c, e)
      PROVE  SinglePost'
  <2>1. CommitsOfPresent
    BY <1>4, GotoCommits DEF RunnerTakeOutput, TypeOK, Callers
  <2>2. \A x \in Episodes : Present(x)' <=> Present(x)
    BY <1>4, Zenon DEF RunnerTakeOutput, Present, serverVars
  <2>3. ASSUME NEW x \in Episodes
        PROVE  /\ posts'[x] = IF runner'[x] = "registering" THEN 1 ELSE 0
               /\ runner'[x] = "registering" => tries'[x] > 0
               /\ runner'[x] \in {"unborn", "registering"} => runner[x] \in {"unborn", "registering"}
    BY <1>4 DEF RunnerTakeOutput, SinglePost, TypeOK
  <2> QED
    BY <2>1, <2>2, <2>3, Zenon DEF SinglePost, CommitsOfPresent
<1>5. ASSUME NEW k \in Callers, RunnerReset(k, e)
      PROVE  SinglePost'
  <2>1. CommitsOfPresent
    BY <1>5, GotoCommits DEF RunnerReset, TypeOK
  <2>2. \A x \in Episodes : Present(x)' <=> Present(x)
    BY <1>5, Zenon DEF RunnerReset, Present, serverVars
  <2> QED
    BY <1>5, <2>1, <2>2, RunnersAlone DEF RunnerReset, runnerVars
<1> QED
  BY <1>1, <1>2, <1>3, <1>4, <1>5 DEF RunnerStep

LEMMA RegisterSinglePost ==
  ASSUME MaxResend = 0, TypeOK, SinglePost, NEW e \in Episodes, RegisterEpisode(e)
  PROVE  /\ SinglePost'
         /\ runner[e] = "registering"
<1>1. runner[e] = "registering" /\ ~(tries[e] <= MaxResend)
  BY DEF RegisterEpisode, SinglePost, TypeOK
<1>2. /\ runner' = [runner EXCEPT ![e] = IF engine_status = "ENGINE.ROLLING" THEN "waiting" ELSE "left"]
      /\ posts' = [posts EXCEPT ![e] = @ - 1]
      /\ tries' = tries /\ call' = call
      /\ \A x \in Episodes : x # e => rec'[x] = rec[x]
  BY <1>1 DEF RegisterEpisode, AddRecord, TypeOK
<1>3. \A x \in Episodes : Committing(x)' <=> Committing(x)
  BY <1>2, Zenon DEF Committing
<1>4. posts'[e] = 0 /\ runner'[e] \in {"waiting", "left"}
  BY <1>1, <1>2 DEF SinglePost, TypeOK
<1>5. ASSUME NEW x \in Episodes, x # e
      PROVE  posts'[x] = posts[x] /\ runner'[x] = runner[x] /\ (Present(x)' <=> Present(x))
  BY <1>2, <1>5 DEF TypeOK, Present
<1> QED
  BY <1>1, <1>2, <1>3, <1>4, <1>5 DEF SinglePost

LEMMA EndStepSinglePost ==
  ASSUME TypeOK, SinglePost, NEW e \in Episodes, NEW c \in Clients,
         SendOutput(c, e) \/ StopWaitingForAck(c, e) \/ RecordOutput(c, e) \/ EndReturns(c, e)
  PROVE  SinglePost'
<1>1. c \in Callers
  BY DEF Callers
<1>2. CommitsOfPresent
  BY <1>1, GotoCommits, ReturnCommits
     DEF SendOutput, StopWaitingForAck, RecordOutput, EndReturns, TypeOK
<1>3. rec' = rec \/ DeleteRecord(e)
  BY DEF SendOutput, StopWaitingForAck, RecordOutput, EndReturns, serverVars
<1>4. \A x \in Episodes : Present(x)' => Present(x)
  BY <1>3, DeletePresent, Zenon DEF Present
<1> QED
  BY <1>2, <1>4, RunnersAlone
     DEF SendOutput, StopWaitingForAck, RecordOutput, EndReturns, runnerVars

LEMMA RevertStepSinglePost ==
  ASSUME TypeOK, SinglePost, NEW e \in Episodes, NEW k \in Callers,
         StopWaitingForReset(k, e) \/ RevertTail(k, e) \/ RevertCommit(k, e)
  PROVE  SinglePost'
<1>1. CASE StopWaitingForReset(k, e)
  <2>1. CommitsOfPresent
    BY <1>1, GotoCommits, ReturnCommits DEF StopWaitingForReset, TypeOK
  <2>2. \A x \in Episodes : Present(x)' => Present(x)
    BY <1>1, Zenon DEF StopWaitingForReset, Present, serverVars
  <2> QED
    BY <1>1, <2>1, <2>2, RunnersAlone DEF StopWaitingForReset, runnerVars
<1>2. CASE RevertTail(k, e)
  <2>1. CommitsOfPresent
    BY <1>2, GotoCommits, ReturnCommits DEF RevertTail, TypeOK
  <2>2. \A x \in Episodes : Present(x)' => Present(x)
    <3>1. CASE Present(e)
      <4>1. rec' = [rec EXCEPT ![e] = Registered]
        BY <1>2, <3>1, Zenon DEF RevertTail
      <4> QED
        BY <3>1, <4>1 DEF Present, TypeOK
    <3>2. CASE ~Present(e)
      BY <1>2, <3>2, Zenon DEF RevertTail, Present
    <3> QED
      BY <3>1, <3>2
  <2> QED
    BY <1>2, <2>1, <2>2, RunnersAlone DEF RevertTail, runnerVars
<1>3. CASE RevertCommit(k, e)
  <2>1. CommitsOfPresent
    BY <1>3, ReturnCommits DEF RevertCommit, TypeOK
  <2>2. Committing(e)
    BY <1>3, Zenon DEF RevertCommit, Committing
  <2>3. \A x \in Episodes : Present(x)' => Present(x) \/ Committing(x)
    BY <1>3, <2>2 DEF RevertCommit, Present, TypeOK
  <2> QED
    BY <1>3, <2>1, <2>3, RunnersAlone DEF RevertCommit, runnerVars
<1> QED
  BY <1>1, <1>2, <1>3

LEMMA JanitorSinglePost ==
  ASSUME TypeOK, SinglePost, NEW e \in Episodes, JanitorScan(e) \/ JanitorNext(e)
  PROVE  SinglePost'
<1>1. CommitsOfPresent
  BY RevertEnterCommits DEF JanitorScan, JanitorNext, Callers, TypeOK
<1>2. \A x \in Episodes : Present(x)' => Present(x)
  BY Zenon DEF JanitorScan, JanitorNext, Present
<1> QED
  BY <1>1, <1>2, RunnersAlone DEF JanitorScan, JanitorNext, runnerVars

\* What a claim does, without the LET of its definition
LEMMA ClaimEffect ==
  ASSUME TypeOK, NEW c \in Clients, NEW type, ClaimEpisode(c, type), NEW h, h = Head(unclaimed)
  PROVE  /\ LoopFree /\ engine_status = "ENGINE.ROLLING"
         /\ unclaimed # <<>> /\ unclaimed' = Tail(unclaimed) /\ h \in Episodes
         /\ Present(h) =>
              rec' = [rec EXCEPT ![h] = [status |-> "claimed", client |-> c, type |-> type]]
         /\ ~Present(h) => rec' = rec
         /\ UNCHANGED <<call, runner, posts, tries, engine_status, trainer>>
<1>1. /\ LoopFree /\ engine_status = "ENGINE.ROLLING"
      /\ unclaimed # <<>> /\ unclaimed' = Tail(unclaimed)
      /\ Present(h) =>
           rec' = [rec EXCEPT ![h] = [status |-> "claimed", client |-> c, type |-> type]]
      /\ ~Present(h) => rec' = rec
      /\ UNCHANGED <<call, engine_status, trainer>> /\ UNCHANGED runnerVars
  BY Zenon DEF ClaimEpisode
<1>2. h \in Episodes
  BY <1>1, HeadType
<1> QED
  BY <1>1, <1>2 DEF runnerVars

LEMMA ClientSinglePost ==
  ASSUME TypeOK, SinglePost, NEW c \in Clients, ClientStep(c)
  PROVE  SinglePost'
<1>1. c \in Callers
  BY DEF Callers
<1>2. ASSUME NEW type \in EpisodeTypes, ClaimEpisode(c, type)
      PROVE  SinglePost'
  <2> DEFINE h == Head(unclaimed)
  <2>1. /\ h \in Episodes
        /\ Present(h) =>
             rec' = [rec EXCEPT ![h] = [status |-> "claimed", client |-> c, type |-> type]]
        /\ ~Present(h) => rec' = rec
        /\ UNCHANGED <<call, runner, posts, tries>>
    BY <1>2, ClaimEffect
  <2> HIDE DEF h
  <2>2. \A x \in Episodes : Present(x)' => Present(x)
    BY <2>1 DEF Present, TypeOK
  <2>3. CommitsOfPresent
    BY <2>1, SameCallCommits
  <2> QED
    BY <2>1, <2>2, <2>3, RunnersAlone
<1>3. ASSUME NEW e \in Episodes,
             EndTrainEpisode(c, e) \/ EndEvalEpisode(c, e) \/ AbortEpisode(c, e)
      PROVE  SinglePost'
  <2>1. \/ UNCHANGED rec /\ UNCHANGED call
        \/ UNCHANGED rec /\ Goto(c, e, "end", "dispatched")
        \/ UNCHANGED rec /\ \E op \in CallOps : RevertEnter(c, e, op)
        \/ DeleteRecord(e) /\ UNCHANGED call
    BY <1>3 DEF EndTrainEpisode, EndEvalEpisode, AbortEpisode, serverVars, CallOps
  <2>2. CommitsOfPresent
    BY <1>1, <2>1, SameCallCommits, GotoCommits, RevertEnterCommits DEF TypeOK
  <2>3. \A x \in Episodes : Present(x)' => Present(x)
    BY <2>1, DeletePresent, Zenon DEF Present
  <2> QED
    BY <1>3, <2>2, <2>3, RunnersAlone DEF EndTrainEpisode, EndEvalEpisode, AbortEpisode, runnerVars
<1> QED
  BY <1>2, <1>3 DEF ClientStep

LEMMA OtherSinglePost ==
  ASSUME TypeOK, SinglePost,
         TrainerStep \/ ExpireClients \/ UNCHANGED vars \/ \E e \in Episodes : LlmCall(e) \/ GoIdle(e)
  PROVE  SinglePost'
<1>1. UNCHANGED <<call, runner, posts, tries>>
  BY DEF TrainerStep, StartRolling, StopCollecting, EnterRollingPost, EnterWeightSyncing,
         CleanUpEngineStatus, ExpireClients, LlmCall, GoIdle, runnerVars, vars
<1>2. CASE CleanUpEngineStatus
  <2>1. \A x \in Episodes : ~Present(x)'
    BY <1>2 DEF CleanUpEngineStatus, Present, Absent
  <2> QED
    BY <1>1, <2>1, SameCallCommits, RunnersAlone
<1>3. CASE ~CleanUpEngineStatus
  <2>1. rec' = rec
    BY <1>3 DEF TrainerStep, StartRolling, StopCollecting, EnterRollingPost, EnterWeightSyncing,
                ExpireClients, LlmCall, GoIdle, serverVars, vars
  <2>2. \A x \in Episodes : Present(x)' => Present(x)
    BY <2>1, Zenon DEF Present
  <2> QED
    BY <1>1, <2>2, SameCallCommits, RunnersAlone
<1> QED
  BY <1>2, <1>3

LEMMA SinglePostStep ==
  ASSUME MaxResend = 0, TypeOK, SinglePost, [Next]_vars
  PROVE  SinglePost'
BY RunnerSinglePost, RegisterSinglePost, EndStepSinglePost, RevertStepSinglePost,
   JanitorSinglePost, ClientSinglePost, OtherSinglePost DEF Next, ServerStep

-----------------------------------------------------------------------------
(* The server side: QueueExact *)

\* A step that leaves the list alone and takes no registered record away
LEMMA SameListExact ==
  ASSUME TypeOK, QueueExact, UNCHANGED unclaimed,
         \A x \in Episodes : rec[x].status = "registered" => rec'[x].status = "registered"
  PROVE  QueueExact'
<1>1. \A i \in 1..Len(unclaimed) : unclaimed[i] \in Episodes
  BY DEF TypeOK
<1> QED
  BY <1>1 DEF QueueExact

LEMMA DeleteExact ==
  ASSUME TypeOK, QueueExact, NEW e \in Episodes, DeleteRecord(e)
  PROVE  QueueExact'
<1>1. \A i \in 1..Len(unclaimed) : unclaimed[i] \in Episodes
  BY DEF TypeOK
<1>2. \A x \in Episodes : x # e => rec'[x] = rec[x]
  BY DEF DeleteRecord, TypeOK
<1>3. CASE ~Contains(unclaimed, e)
  <2>1. unclaimed' = unclaimed
    BY <1>3, RemoveFirstAbsent DEF DeleteRecord
  <2>2. \A i \in 1..Len(unclaimed) : unclaimed[i] # e
    BY <1>3 DEF Contains
  <2> QED
    BY <1>1, <1>2, <2>1, <2>2 DEF QueueExact
<1>4. CASE Contains(unclaimed, e)
  <2>1. PICK n \in 1..Len(unclaimed) :
          /\ unclaimed[n] = e
          /\ unclaimed' \in Seq(Episodes)
          /\ Len(unclaimed') = Len(unclaimed) - 1
          /\ \A i \in 1..(Len(unclaimed) - 1) :
               unclaimed'[i] = IF i < n THEN unclaimed[i] ELSE unclaimed[i + 1]
    <3>1. unclaimed \in Seq(Episodes) /\ unclaimed' = RemoveFirst(unclaimed, e)
      BY Zenon DEF DeleteRecord, TypeOK
    <3> QED
      BY <1>4, <3>1, RemoveFirstShifts
  <2> DEFINE old(i) == IF i < n THEN i ELSE i + 1
  <2>2. ASSUME NEW i \in 1..Len(unclaimed')
        PROVE  old(i) \in 1..Len(unclaimed) /\ old(i) # n /\ unclaimed'[i] = unclaimed[old(i)]
    BY <2>1
  <2>3. \A i, j \in 1..Len(unclaimed') : old(i) = old(j) => i = j
    BY <2>1
  <2> HIDE DEF old
  <2>4. ASSUME NEW i \in 1..Len(unclaimed'), NEW j \in 1..Len(unclaimed'),
               unclaimed'[i] = unclaimed'[j]
        PROVE  i = j
    <3>1. unclaimed[old(i)] = unclaimed[old(j)]
      BY <2>2, <2>4
    <3>2. old(i) = old(j)
      BY <2>2, <3>1, Zenon DEF QueueExact
    <3> QED
      BY <2>3, <3>2
  <2>5. \A i \in 1..Len(unclaimed') : unclaimed'[i] # e
    BY <2>1, <2>2 DEF QueueExact
  <2>6. \A i \in 1..Len(unclaimed') : rec'[unclaimed'[i]].status = "registered"
    BY <1>1, <1>2, <2>2, <2>5 DEF QueueExact
  <2> QED
    BY <2>4, <2>6 DEF QueueExact
<1> QED
  BY <1>3, <1>4

\* An episode that is not in the list joins it.
LEMMA AppendExact ==
  ASSUME TypeOK, QueueExact, NEW e \in Episodes, ~Contains(unclaimed, e),
         unclaimed' = Append(unclaimed, e), rec'[e].status = "registered",
         \A x \in Episodes : rec[x].status = "registered" => rec'[x].status = "registered"
  PROVE  QueueExact'
<1>1. /\ Len(unclaimed') = Len(unclaimed) + 1
      /\ \A i \in 1..Len(unclaimed) : unclaimed'[i] = unclaimed[i]
      /\ unclaimed'[Len(unclaimed) + 1] = e
  BY AppendProperties DEF TypeOK
<1>2. \A i \in 1..Len(unclaimed) : unclaimed[i] \in Episodes /\ unclaimed[i] # e
  BY DEF TypeOK, Contains
<1>3. Len(unclaimed) \in Nat
  BY DEF TypeOK
<1> QED
  BY <1>1, <1>2, <1>3 DEF QueueExact

LEMMA EnqueueExact ==
  ASSUME TypeOK, QueueExact, NEW e \in Episodes, Enqueue(e), rec'[e].status = "registered",
         \A x \in Episodes : rec[x].status = "registered" => rec'[x].status = "registered"
  PROVE  QueueExact'
BY SameListExact, AppendExact, Zenon DEF Enqueue

LEMMA RevertEnterExact ==
  ASSUME TypeOK, QueueExact, NEW k \in Callers, NEW e \in Episodes, NEW op,
         UNCHANGED rec, RevertEnter(k, e, op)
  PROVE  QueueExact'
<1>1. rec' = rec
  OBVIOUS
<1>2. CASE UNCHANGED unclaimed
  BY <1>1, <1>2, SameListExact
<1>3. CASE Enqueue(e) /\ Present(e) /\ ~Claimed(e)
  <2>1. rec[e].status = "registered"
    BY <1>3 DEF Present, Claimed, TypeOK, Record
  <2> QED
    BY <1>1, <1>3, <2>1, EnqueueExact
<1> QED
  BY <1>2, <1>3, Zenon DEF RevertEnter

\* The claimed episode was in the list once, and leaves it.
LEMMA ClaimExact ==
  ASSUME TypeOK, QueueExact, NEW c \in Clients, NEW type, ClaimEpisode(c, type)
  PROVE  QueueExact'
<1> DEFINE h == Head(unclaimed)
<1>1. /\ unclaimed # <<>> /\ unclaimed' = Tail(unclaimed) /\ h \in Episodes
      /\ Present(h) =>
           rec' = [rec EXCEPT ![h] = [status |-> "claimed", client |-> c, type |-> type]]
      /\ ~Present(h) => rec' = rec
  BY ClaimEffect
<1>2. /\ Len(unclaimed') = Len(unclaimed) - 1
      /\ Len(unclaimed) \in Nat \ {0}
      /\ \A i \in 1..Len(unclaimed') : unclaimed'[i] = unclaimed[i + 1]
      /\ h = unclaimed[1]
  BY <1>1, HeadTailProperties, EmptySeq DEF TypeOK
<1> HIDE DEF h
<1>3. \A x \in Episodes : x # h => rec'[x] = rec[x]
  BY <1>1 DEF TypeOK
<1>4. \A i \in 1..Len(unclaimed) : unclaimed[i] \in Episodes
  BY DEF TypeOK
<1>5. ASSUME NEW i \in 1..Len(unclaimed')
      PROVE  i + 1 \in 1..Len(unclaimed) /\ unclaimed'[i] # h
  BY <1>2 DEF QueueExact
<1>6. \A i, j \in 1..Len(unclaimed') : unclaimed'[i] = unclaimed'[j] => i = j
  BY <1>2, <1>5 DEF QueueExact
<1>7. \A i \in 1..Len(unclaimed') : rec'[unclaimed'[i]].status = "registered"
  BY <1>2, <1>3, <1>4, <1>5 DEF QueueExact
<1> QED
  BY <1>6, <1>7 DEF QueueExact

LEMMA RegisterExact ==
  ASSUME MaxResend = 0, TypeOK, SinglePost, QueueExact, NEW e \in Episodes, RegisterEpisode(e)
  PROVE  QueueExact'
<1>1. CASE UNCHANGED <<rec, unclaimed>>
  BY <1>1, SameListExact
<1>2. CASE AddRecord(e)
  <2>1. ~Present(e)
    BY RegisterSinglePost DEF SinglePost
  <2>2. ~Contains(unclaimed, e)
    BY <2>1 DEF QueueExact, Contains, Present
  <2>3. \A x \in Episodes : rec[x].status = "registered" => rec'[x].status = "registered"
    BY <1>2 DEF AddRecord, Registered, TypeOK
  <2>4. rec'[e].status = "registered" /\ unclaimed' = Append(unclaimed, e)
    BY <1>2 DEF AddRecord, Registered, TypeOK
  <2> QED
    BY <2>2, <2>3, <2>4, AppendExact
<1> QED
  BY <1>1, <1>2, Zenon DEF RegisterEpisode

\* Both halves of a revert make the record registered; the second lists it.
LEMMA RevertStepExact ==
  ASSUME TypeOK, QueueExact, NEW e \in Episodes, NEW k \in Callers,
         StopWaitingForReset(k, e) \/ RevertTail(k, e) \/ RevertCommit(k, e)
  PROVE  QueueExact'
<1>1. CASE UNCHANGED <<rec, unclaimed>>
  BY <1>1, SameListExact
<1>2. CASE rec' = [rec EXCEPT ![e] = Registered]
  <2>1. \A x \in Episodes : rec[x].status = "registered" => rec'[x].status = "registered"
    BY <1>2 DEF Registered, TypeOK
  <2>2. rec'[e].status = "registered"
    BY <1>2 DEF Registered, TypeOK
  <2>3. Enqueue(e) \/ UNCHANGED unclaimed
    BY DEF StopWaitingForReset, RevertTail, RevertCommit, serverVars
  <2> QED
    BY <2>1, <2>2, <2>3, SameListExact, EnqueueExact
<1>3. UNCHANGED <<rec, unclaimed>> \/ rec' = [rec EXCEPT ![e] = Registered]
  <2>1. CASE StopWaitingForReset(k, e)
    BY <2>1, Zenon DEF StopWaitingForReset, serverVars
  <2>2. CASE RevertTail(k, e)
    BY <2>2, Zenon DEF RevertTail
  <2>3. CASE RevertCommit(k, e)
    BY <2>3, Zenon DEF RevertCommit
  <2> QED
    BY <2>1, <2>2, <2>3
<1> QED
  BY <1>1, <1>2, <1>3

LEMMA ServerExact ==
  ASSUME MaxResend = 0, TypeOK, SinglePost, QueueExact, NEW e \in Episodes, ServerStep(e)
  PROVE  QueueExact'
<1>1. ASSUME NEW c \in Clients,
             SendOutput(c, e) \/ StopWaitingForAck(c, e) \/ RecordOutput(c, e) \/ EndReturns(c, e)
      PROVE  QueueExact'
  <2>1. UNCHANGED <<rec, unclaimed>> \/ DeleteRecord(e)
    BY <1>1 DEF SendOutput, StopWaitingForAck, RecordOutput, EndReturns, serverVars
  <2> QED
    BY <2>1, SameListExact, DeleteExact
<1>2. CASE JanitorScan(e) \/ JanitorNext(e)
  BY <1>2, RevertEnterExact DEF JanitorScan, JanitorNext, Callers
<1> QED
  BY <1>1, <1>2, RegisterExact, RevertStepExact DEF ServerStep

LEMMA ClientExact ==
  ASSUME TypeOK, QueueExact, NEW c \in Clients, ClientStep(c)
  PROVE  QueueExact'
<1>1. c \in Callers
  BY DEF Callers
<1>2. ASSUME NEW e \in Episodes,
             EndTrainEpisode(c, e) \/ EndEvalEpisode(c, e) \/ AbortEpisode(c, e)
      PROVE  QueueExact'
  <2>1. \/ UNCHANGED <<rec, unclaimed>>
        \/ UNCHANGED rec /\ \E op \in CallOps : RevertEnter(c, e, op)
        \/ DeleteRecord(e)
    BY <1>2 DEF EndTrainEpisode, EndEvalEpisode, AbortEpisode, serverVars, CallOps
  <2> QED
    BY <1>1, <2>1, SameListExact, RevertEnterExact, DeleteExact
<1> QED
  BY <1>2, ClaimExact DEF ClientStep

LEMMA OtherExact ==
  ASSUME TypeOK, QueueExact,
         \/ TrainerStep \/ ExpireClients \/ UNCHANGED vars
         \/ \E e \in Episodes : RunnerStep(e) \/ LlmCall(e) \/ GoIdle(e)
  PROVE  QueueExact'
<1>1. CASE CleanUpEngineStatus
  BY <1>1 DEF CleanUpEngineStatus, QueueExact
<1>2. CASE \E e \in Episodes : RunnerExit(e) /\ DeleteRecord(e)
  BY <1>2, DeleteExact
<1>3. CASE UNCHANGED <<rec, unclaimed>>
  BY <1>3, SameListExact
<1>4. CleanUpEngineStatus \/ (\E e \in Episodes : RunnerExit(e) /\ DeleteRecord(e))
      \/ UNCHANGED <<rec, unclaimed>>
  BY DEF TrainerStep, StartRolling, StopCollecting, EnterRollingPost, EnterWeightSyncing,
         ExpireClients, LlmCall, GoIdle, RunnerStep, StartRunner, RetryRegister, RunnerExit,
         Unregister, RunnerTakeOutput, RunnerReset, serverVars, vars
<1> QED
  BY <1>1, <1>2, <1>3, <1>4

LEMMA QueueStep ==
  ASSUME MaxResend = 0, TypeOK, SinglePost, QueueExact, [Next]_vars
  PROVE  QueueExact'
BY ServerExact, ClientExact, OtherExact DEF Next

LEMMA QueueInit == Init => SinglePost /\ QueueExact
BY DEF Init, SinglePost, QueueExact, Present, Committing, Absent, Returned

\* When every registration is posted once, the list of unclaimed episodes never
\* holds a duplicate, a claimed episode or a removed one, so no episode is handed
\* to two clients, however handlers, threads, timeouts and reverts interleave.
THEOREM ListIsExact ==
  ASSUME MaxResend = 0
  PROVE  Spec => []QueueExact
<1>1. TypeOK /\ SinglePost /\ QueueExact /\ [Next]_vars => (TypeOK /\ SinglePost /\ QueueExact)'
  BY TypeStep, SinglePostStep, QueueStep
<1> QED
  BY <1>1, TypeInit, QueueInit, PTL DEF Spec

===============================================================================
