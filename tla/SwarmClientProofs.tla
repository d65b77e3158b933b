--------------------------- MODULE SwarmClientProofs ---------------------------
(***************************************************************************)
(* Theorems about SwarmClient, for every number of tasks, jobs, places in  *)
(* the pool and claims of other clients.                                   *)
(*                                                                         *)
(* The throttle counts once and claims later.  That the count is still     *)
(* right then rests on three facts: one job at a time is between the two   *)
(* (OneHolds); meanwhile nobody else brings this client a task it has not  *)
(* worked on (the lemma WorkStep); and the tasks the count leaves out as   *)
(* other clients' are tasks other clients have claimed in this batch       *)
(* (AliensShared).                                                         *)
(***************************************************************************)
EXTENDS SwarmClient, SequenceTheorems, FiniteSetTheorems, TLAPS

-----------------------------------------------------------------------------
(* The inductive invariant *)

OneHolds == \A j, k \in Jobs : Holding(j) /\ Holding(k) => j = k

AliensShared == AlienSet \subseteq foreign.shared

\* What a job was let in upon holds until it has claimed.
Counted ==
  \A j \in Jobs :
    pc[j] = "counted" => Cardinality(TaskSet \ (foreign.shared \cup {TaskOf(j)})) < Limit

\* What the statistics say of a task ends with the first episode of its own.
OwnIsLast ==
  \A t \in Tasks : \A i \in 1..Len(finished[t]) :
    finished[t][i] = "own" => i = Len(finished[t])

IInv == TypeOK /\ OneHolds /\ AliensShared /\ Counted /\ OwnIsLast

-----------------------------------------------------------------------------
(* Lists *)

LEMMA AppendHas ==
  ASSUME NEW S, NEW s \in Seq(S), NEW x \in S
  PROVE  \A y : Contains(Append(s, x), y) <=> Contains(s, y) \/ x = y
<1> DEFINE longer == Append(s, x)
<1>1. /\ Len(s) \in Nat /\ Len(longer) = Len(s) + 1
      /\ \A i \in 1..Len(s) : longer[i] = s[i]
      /\ longer[Len(s) + 1] = x
  BY AppendProperties
<1> HIDE DEF longer
<1> SUFFICES ASSUME NEW y
             PROVE  Contains(longer, y) <=> Contains(s, y) \/ x = y
  BY DEF longer
<1>2. ASSUME Contains(s, y) PROVE Contains(longer, y)
  <2>1. PICK i \in 1..Len(s) : s[i] = y
    BY <1>2 DEF Contains
  <2>2. i \in 1..Len(longer) /\ longer[i] = y
    BY <1>1, <2>1
  <2> QED
    BY <2>2 DEF Contains
<1>3. ASSUME x = y PROVE Contains(longer, y)
  <2>1. Len(longer) \in 1..Len(longer) /\ longer[Len(longer)] = y
    BY <1>1, <1>3
  <2> QED
    BY <2>1 DEF Contains
<1>4. ASSUME Contains(longer, y) PROVE Contains(s, y) \/ x = y
  <2>1. PICK i \in 1..Len(longer) : longer[i] = y
    BY <1>4 DEF Contains
  <2>2. CASE i = Len(longer)
    BY <1>1, <2>1, <2>2
  <2>3. CASE i # Len(longer)
    <3>1. i \in 1..Len(s) /\ s[i] = y
      BY <1>1, <2>1, <2>3
    <3> QED
      BY <3>1 DEF Contains
  <2> QED
    BY <2>2, <2>3
<1> QED
  BY <1>2, <1>3, <1>4

LEMMA RepeatsNat == NumRepeat \in Nat \ {0}
<1>1. NumRepeat \in Nat /\ NumRepeat # 0
  BY ClientAssumption, FS_CardinalityType, FS_EmptySet DEF NumRepeat
<1> QED
  BY <1>1

\* The memory of recent tasks keeps its bound, and no task stands in it twice.
LEMMA RememberType ==
  ASSUME TypeOK, NEW t \in Tasks, Remember(t)
  PROVE  /\ seen' \in Seq(Tasks) /\ Len(seen') <= BatchSize * NumRepeat * 3
         /\ IsInjective(seen')
<1> DEFINE size == BatchSize * NumRepeat * 3
           longer == Append(seen, t)
           from == IF Len(longer) > size THEN Len(longer) - size + 1 ELSE 1
           kept == SubSeq(longer, from, Len(longer))
<1>1. size \in Nat \ {0}
  <2>1. \A b \in Nat \ {0}, n \in Nat \ {0} : b * n * 3 \in Nat \ {0}
    OBVIOUS
  <2> QED
    BY <2>1, RepeatsNat, ClientAssumption
<1>2. seen \in Seq(Tasks) /\ Len(seen) \in Nat /\ Len(seen) <= size /\ IsInjective(seen)
  BY DEF TypeOK
<1> HIDE DEF size
<1>3. CASE Contains(seen, t)
  BY <1>2, <1>3 DEF Remember, size
<1>4. CASE ~Contains(seen, t)
  <2>1. seen' = kept
    BY <1>4 DEF Remember, size
  <2>2. /\ longer \in Seq(Tasks) /\ Len(longer) = Len(seen) + 1
        /\ \A i \in 1..Len(seen) : longer[i] = seen[i]
        /\ longer[Len(seen) + 1] = t
    BY <1>2, AppendProperties
  <2>3. IsInjective(longer)
    <3> SUFFICES ASSUME NEW a \in 1..Len(longer), NEW b \in 1..Len(longer), longer[a] = longer[b]
                 PROVE  a = b
      <4>1. DOMAIN longer = 1..Len(longer)
        BY <2>2
      <4> QED
        BY <4>1 DEF IsInjective
    <3>1. CASE a \in 1..Len(seen) /\ b \in 1..Len(seen)
      <4>1. DOMAIN seen = 1..Len(seen) /\ seen[a] = seen[b]
        BY <1>2, <2>2, <3>1
      <4> QED
        BY <1>2, <3>1, <4>1 DEF IsInjective
    <3>2. CASE a \in 1..Len(seen) /\ b \notin 1..Len(seen)
      <4>1. b = Len(seen) + 1 /\ seen[a] = t
        BY <1>2, <2>2, <3>2
      <4> QED
        BY <1>4, <3>2, <4>1 DEF Contains
    <3>3. CASE a \notin 1..Len(seen) /\ b \in 1..Len(seen)
      <4>1. a = Len(seen) + 1 /\ seen[b] = t
        BY <1>2, <2>2, <3>3
      <4> QED
        BY <1>4, <3>3, <4>1 DEF Contains
    <3>4. CASE a \notin 1..Len(seen) /\ b \notin 1..Len(seen)
      BY <1>2, <2>2, <3>4
    <3> QED
      BY <3>1, <3>2, <3>3, <3>4
  <2> HIDE DEF longer
  <2>4. from \in 1..Len(longer) /\ Len(longer) - from + 1 <= size
    BY <1>1, <1>2, <2>2
  <2> HIDE DEF from
  <2>5. /\ kept \in Seq(Tasks) /\ Len(kept) = Len(longer) - from + 1
        /\ \A i \in 1..(Len(longer) - from + 1) : kept[i] = longer[from + i - 1]
    BY <2>2, <2>4, SubSeqProperties
  <2> HIDE DEF kept
  <2>6. IsInjective(kept)
    <3> SUFFICES ASSUME NEW a \in 1..Len(kept), NEW b \in 1..Len(kept), kept[a] = kept[b]
                 PROVE  a = b
      <4>1. DOMAIN kept = 1..Len(kept)
        BY <2>5
      <4> QED
        BY <4>1 DEF IsInjective
    <3>1. longer[from + a - 1] = longer[from + b - 1]
      BY <2>5
    <3>2. from + a - 1 \in DOMAIN longer /\ from + b - 1 \in DOMAIN longer
      BY <2>2, <2>4, <2>5
    <3>3. from + a - 1 = from + b - 1
      BY <2>3, <3>1, <3>2, Zenon DEF IsInjective
    <3> QED
      BY <2>4, <2>5, <3>3
  <2> QED
    BY <2>1, <2>4, <2>5, <2>6 DEF size
<1> QED
  BY <1>3, <1>4

-----------------------------------------------------------------------------
(* Types *)

LEMMA JobsAre ==
  ASSUME NEW j \in Jobs
  PROVE  TaskOf(j) \in Tasks
BY DEF Jobs, TaskOf

LEMMA PlaceType ==
  ASSUME TypeOK, NEW j \in Jobs, NEW place \in Places, Goto(j, place)
  PROVE  pc' \in [Jobs -> Places] /\ \A k \in Jobs : pc'[k] = IF k = j THEN place ELSE pc[k]
BY DEF TypeOK, Goto

LEMMA ClaimAtType ==
  ASSUME TypeOK, NEW e \in Episodes, NEW owner \in {"own", "other"},
         NEW t \in Tasks \cup {NoTask}, ClaimAt(e, owner, t)
  PROVE  /\ record' \in [Episodes -> [owner : {"nobody", "own", "other"}, task : Tasks \cup {NoTask}]]
         /\ engine = "rolling" /\ record[e].owner = "nobody"
         /\ \A f \in Episodes : record'[f] = IF f = e THEN [owner |-> owner, task |-> t] ELSE record[f]
BY DEF TypeOK, ClaimAt

LEMMA ForgetType ==
  ASSUME TypeOK, NEW e \in Episodes, Forget(e)
  PROVE  /\ record' \in [Episodes -> [owner : {"nobody", "own", "other"}, task : Tasks \cup {NoTask}]]
         /\ holds' \in [Jobs -> Episodes \cup {NoEpisode}]
         /\ \A f \in Episodes : record'[f] = IF f = e THEN Free ELSE record[f]
BY DEF TypeOK, Forget, Free

LEMMA FinishType ==
  ASSUME TypeOK, NEW t, NEW owner \in {"own", "other"}, Finish(t, owner)
  PROVE  \A k \in Tasks :
           /\ finished'[k] = IF k = t /\ ~Contains(finished[t], "own")
                             THEN Append(finished[k], owner) ELSE finished[k]
           /\ finished'[k] \in Seq({"own", "other"})
<1> SUFFICES ASSUME NEW k \in Tasks
             PROVE  /\ finished'[k] = IF k = t /\ ~Contains(finished[t], "own")
                                      THEN Append(finished[k], owner) ELSE finished[k]
                    /\ finished'[k] \in Seq({"own", "other"})
  OBVIOUS
<1>1. finished'[k] = IF k = t /\ ~Contains(finished[t], "own")
                     THEN Append(finished[k], owner) ELSE finished[k]
  BY DEF Finish
<1>2. finished[k] \in Seq({"own", "other"})
  BY DEF TypeOK
<1>3. Append(finished[k], owner) \in Seq({"own", "other"})
  BY <1>2, AppendProperties
<1> QED
  BY <1>1, <1>2, <1>3

LEMMA AbortType ==
  ASSUME TypeOK, NEW j \in Jobs, Abort(j)
  PROVE  /\ record' \in [Episodes -> [owner : {"nobody", "own", "other"}, task : Tasks \cup {NoTask}]]
         /\ holds' \in [Jobs -> Episodes \cup {NoEpisode}]
         /\ \A e \in Episodes : record'[e] = record[e] \/ record'[e].owner = "nobody"
<1>1. CASE engine # "syncing" /\ holds[j] # NoEpisode /\ engine = "post"
  <2>1. holds[j] \in Episodes /\ Forget(holds[j])
    BY <1>1 DEF Abort, TypeOK
  <2> QED
    BY <2>1, ForgetType DEF Free
<1>2. CASE engine # "syncing" /\ holds[j] # NoEpisode /\ engine # "post"
  BY <1>2 DEF Abort, TypeOK
<1>3. CASE ~(engine # "syncing" /\ holds[j] # NoEpisode)
  BY <1>3 DEF Abort, TypeOK
<1> QED
  BY <1>1, <1>2, <1>3

\* What a submission finds and leaves
LEMMA SubmitType ==
  ASSUME TypeOK, NEW j \in Jobs, Submit(j)
  PROVE  \E e \in Episodes :
           /\ record[e].owner = "own" /\ pc[j] = "working" /\ Forget(e)
           /\ Finish(record[e].task, "own")
           /\ engine' = engine /\ foreign' = foreign /\ submitted' = submitted /\ seen' = seen
<1>1. holds[j] \in Episodes
  BY DEF Submit, MayEnd, TypeOK
<1> QED
  BY <1>1 DEF Submit, MayEnd

LEMMA TypeKept ==
  ASSUME TypeOK, [Next]_vars
  PROVE  TypeOK'
<1>1. CASE SubmitGroup
  <2>1. submitted' \in 0..NumTasks
    BY <1>1, ClientAssumption DEF SubmitGroup, TypeOK
  <2>2. pc' \in [Jobs -> Places]
    BY <1>1 DEF SubmitGroup, TypeOK, Places
  <2> QED
    BY <1>1, <2>1, <2>2 DEF SubmitGroup, serverVars, TypeOK
<1>2. ASSUME NEW j \in Jobs, Admit(j)
      PROVE  TypeOK'
  <2>1. Remember(TaskOf(j)) /\ TaskOf(j) \in Tasks
    BY <1>2, JobsAre DEF Admit
  <2>2. pc' \in [Jobs -> Places]
    BY <1>2, PlaceType DEF Admit, Places
  <2> QED
    BY <1>2, <2>1, <2>2, RememberType DEF Admit, serverVars, TypeOK
<1>3. ASSUME NEW j \in Jobs, Claim(j)
      PROVE  TypeOK'
  <2>1. PICK e \in Episodes : ClaimAt(e, "own", TaskOf(j)) /\ holds' = [holds EXCEPT ![j] = e]
    BY <1>3 DEF Claim
  <2>2. pc' \in [Jobs -> Places]
    BY <1>3, PlaceType DEF Claim, Places
  <2> QED
    BY <1>3, <2>1, <2>2, JobsAre, ClaimAtType DEF Claim, TypeOK
<1>4. ASSUME NEW j \in Jobs, ClaimFails(j)
      PROVE  TypeOK'
  <2>1. pc' \in [Jobs -> Places]
    BY <1>4, PlaceType DEF ClaimFails, Places
  <2>2. UNCHANGED record \/ \E e \in Episodes : ClaimAt(e, "own", TaskOf(j))
    BY <1>4 DEF ClaimFails
  <2> QED
    BY <1>4, <2>1, <2>2, JobsAre, ClaimAtType DEF ClaimFails, TypeOK
<1>5. ASSUME NEW j \in Jobs, NEW place \in {"done", "begin"}, Submit(j), Goto(j, place)
      PROVE  TypeOK'
  <2>1. PICK e \in Episodes :
           /\ record[e].owner = "own" /\ pc[j] = "working" /\ Forget(e)
           /\ Finish(record[e].task, "own")
           /\ engine' = engine /\ foreign' = foreign /\ submitted' = submitted /\ seen' = seen
    BY <1>5, SubmitType
  <2>2. pc' \in [Jobs -> Places]
    BY <1>5, PlaceType DEF Places
  <2>3. /\ record' \in [Episodes -> [owner : {"nobody", "own", "other"}, task : Tasks \cup {NoTask}]]
        /\ holds' \in [Jobs -> Episodes \cup {NoEpisode}]
    BY <2>1, ForgetType
  <2>4. \A k \in Tasks : finished'[k] \in Seq({"own", "other"})
    BY <2>1, FinishType
  <2> QED
    BY <2>1, <2>2, <2>3, <2>4 DEF TypeOK
<1>6. ASSUME NEW j \in Jobs, NEW place \in {"done", "begin"}, Goto(j, place),
             holds' = [holds EXCEPT ![j] = NoEpisode], UNCHANGED <<serverVars, submitted, seen>>
      PROVE  TypeOK'
  <2>1. pc' \in [Jobs -> Places]
    BY <1>6, PlaceType DEF Places
  <2> QED
    BY <1>6, <2>1 DEF serverVars, TypeOK
<1>7. ASSUME NEW j \in Jobs, NEW place \in {"done", "begin"}, Goto(j, place), Abort(j),
             UNCHANGED <<engine, finished, foreign, submitted, seen>>
      PROVE  TypeOK'
  <2>1. pc' \in [Jobs -> Places]
    BY <1>7, PlaceType DEF Places
  <2> QED
    BY <1>7, <2>1, AbortType DEF TypeOK
<1>8. ASSUME NEW j \in Jobs, EndStep(j)
      PROVE  TypeOK'
  BY <1>5, <1>6, <1>7, <1>8
     DEF EndStep, End, EndFails, EndTooLate, EndExpired, AgentFails, serverVars
<1>9. ASSUME NEW e \in Episodes, Reclaim(e)
      PROVE  TypeOK'
  BY <1>9 DEF Reclaim, TypeOK
<1>10. ASSUME NEW e \in Episodes, ForeignClaim(e)
      PROVE  TypeOK'
  <2>1. record[e].task \in Tasks \cup {NoTask}
    BY DEF TypeOK
  <2>2. record' \in [Episodes -> [owner : {"nobody", "own", "other"}, task : Tasks \cup {NoTask}]]
    BY <1>10, <2>1, ClaimAtType DEF ForeignClaim
  <2>3. foreign' \in [claimed : 0..MaxForeign, shared : SUBSET Tasks]
    <3> DEFINE more == {record[e].task} \ {NoTask}
    <3>1. foreign.claimed \in 0..MaxForeign /\ foreign.shared \subseteq Tasks
      BY DEF TypeOK
    <3>2. foreign.claimed + 1 \in 0..MaxForeign
      BY <1>10, <3>1, ClientAssumption DEF ForeignClaim
    <3>3. foreign.shared \cup more \subseteq Tasks
      BY <2>1, <3>1
    <3>4. foreign' = [claimed |-> foreign.claimed + 1, shared |-> foreign.shared \cup more]
      BY <1>10 DEF ForeignClaim, TypeOK
    <3> HIDE DEF more
    <3> QED
      BY <3>2, <3>3, <3>4
  <2> QED
    BY <1>10, <2>2, <2>3 DEF ForeignClaim, TypeOK
<1>11. ASSUME NEW e \in Episodes, ForeignEnd(e)
      PROVE  TypeOK'
  <2>1. /\ record' \in [Episodes -> [owner : {"nobody", "own", "other"}, task : Tasks \cup {NoTask}]]
        /\ holds' \in [Jobs -> Episodes \cup {NoEpisode}]
    BY <1>11, ForgetType DEF ForeignEnd
  <2>2. \A k \in Tasks : finished'[k] \in Seq({"own", "other"})
    BY <1>11, FinishType DEF ForeignEnd
  <2> QED
    BY <1>11, <2>1, <2>2 DEF ForeignEnd, TypeOK
<1>12. CASE StopRolling \/ StartSyncing
  BY <1>12 DEF StopRolling, StartSyncing, TypeOK
<1>13. CASE NextBatch
  BY <1>13, ClientAssumption DEF NextBatch, Free, NoForeign, TypeOK
<1>14. CASE UNCHANGED vars
  BY <1>14 DEF vars, serverVars, TypeOK
<1> QED
  BY <1>1, <1>2, <1>3, <1>4, <1>8, <1>9, <1>10, <1>11, <1>12, <1>13, <1>14
     DEF Next, BeginStep, ServerStep

-----------------------------------------------------------------------------
(* The lock *)

\* Only Admit brings a job to hold the lock, and nothing changes what it holds it for.
LEMMA HoldingStep ==
  ASSUME TypeOK, [Next]_vars, NEW j \in Jobs, Holding(j)', pc'[j] # pc[j]
  PROVE  Admit(j)
<1>1. \A k \in Jobs, place \in Places : Goto(k, place) => pc'[j] = IF j = k THEN place ELSE pc[j]
  BY PlaceType
<1>2. CASE SubmitGroup
  BY <1>2 DEF SubmitGroup, Holding, TypeOK
<1>3. ASSUME NEW k \in Jobs, Admit(k)
      PROVE  Admit(j)
  <2>1. Goto(k, "counted") \/ Goto(k, "bypassing")
    BY <1>3 DEF Admit
  <2>2. j = k
    BY <1>1, <2>1 DEF Holding, Places
  <2> QED
    BY <1>3, <2>2
<1>4. ASSUME NEW k \in Jobs, Claim(k) \/ ClaimFails(k) \/ EndStep(k)
      PROVE  FALSE
  <2>1. Goto(k, "working") \/ Goto(k, "begin") \/ Goto(k, "done")
    BY <1>4 DEF Claim, ClaimFails, EndStep, End, EndFails, EndTooLate, EndExpired, AgentFails
  <2> QED
    BY <1>1, <2>1 DEF Holding, Places
<1>5. CASE ServerStep \/ UNCHANGED vars
  BY <1>5 DEF ServerStep, Reclaim, ForeignClaim, ForeignEnd, StopRolling, StartSyncing, NextBatch, vars
<1> QED
  BY <1>2, <1>3, <1>4, <1>5 DEF Next, BeginStep

LEMMA OneKept ==
  ASSUME TypeOK, OneHolds, [Next]_vars
  PROVE  OneHolds'
<1> SUFFICES ASSUME NEW j \in Jobs, NEW k \in Jobs, Holding(j)', Holding(k)'
             PROVE  j = k
  BY DEF OneHolds
<1>1. ASSUME NEW a \in Jobs, NEW b \in Jobs, Holding(a)', Holding(b)', ~Holding(a)
      PROVE  a = b
  <2>1. Admit(a)
    BY <1>1, HoldingStep DEF Holding
  <2>2. ~Holding(b)
    BY <2>1 DEF Admit, LockIsFree
  <2>3. \E place \in Places : Goto(a, place)
    BY <2>1 DEF Admit, Places
  <2> QED
    BY <1>1, <2>2, <2>3, PlaceType DEF Holding
<1> QED
  BY <1>1 DEF OneHolds

-----------------------------------------------------------------------------
(* The tasks the statistics count *)

LEMMA WorkedOn ==
  ASSUME NEW owner \in {"own", "other"}, NEW t
  PROVE  /\ t \in WorkedOnBy(owner) <=>
              t \in Tasks /\ (\/ Contains(finished[t], owner)
                             \/ \E e \in Episodes : record[e] = [owner |-> owner, task |-> t])
         /\ t \in WorkedOnBy(owner)' <=>
              t \in Tasks /\ (\/ Contains(finished'[t], owner)
                             \/ \E e \in Episodes : record'[e] = [owner |-> owner, task |-> t])
<1>1. \A e \in Episodes : record[e] = [owner |-> owner, task |-> t] => e \in Running
  BY DEF Running
<1>2. \A e \in Episodes : record'[e] = [owner |-> owner, task |-> t] => e \in Running'
  BY DEF Running
<1>3. Running \subseteq Episodes /\ Running' \subseteq Episodes
  BY DEF Running
<1> QED
  BY <1>1, <1>2, <1>3, Zenon DEF WorkedOnBy

\* What was being worked on before is what is being worked on after, at most.
LEMMA ReleaseWorks ==
  ASSUME TypeOK, NEW owner \in {"own", "other"}, finished' = finished,
         \A e \in Episodes : record'[e] = record[e] \/ record'[e].owner = "nobody"
  PROVE  WorkedOnBy(owner)' \subseteq WorkedOnBy(owner)
<1> SUFFICES ASSUME NEW t, t \in WorkedOnBy(owner)'
             PROVE  t \in WorkedOnBy(owner)
  OBVIOUS
<1>1. \A e \in Episodes : record'[e] = [owner |-> owner, task |-> t] => record'[e] = record[e]
  OBVIOUS
<1> QED
  BY <1>1, WorkedOn

LEMMA FinishWorks ==
  ASSUME TypeOK, NEW e \in Episodes, NEW by \in {"own", "other"}, NEW owner \in {"own", "other"},
         record[e].owner = by, Forget(e), Finish(record[e].task, by)
  PROVE  WorkedOnBy(owner)' \subseteq WorkedOnBy(owner)
<1> SUFFICES ASSUME NEW t, t \in WorkedOnBy(owner)'
             PROVE  t \in WorkedOnBy(owner)
  OBVIOUS
<1>1. t \in Tasks
  BY WorkedOn
<1>2. CASE Contains(finished'[t], owner)
  <2> DEFINE task == record[e].task
  <2>1. finished'[t] = IF t = task /\ ~Contains(finished[task], "own")
                       THEN Append(finished[t], by) ELSE finished[t]
    <3> HIDE DEF task
    <3> QED
      BY <1>1, FinishType DEF task
  <2>2. CASE Contains(finished[t], owner)
    BY <1>1, <2>2, WorkedOn
  <2>3. CASE t = task /\ owner = by
    <3>1. record[e] = [owner |-> owner, task |-> t]
      BY <2>3 DEF TypeOK
    <3> QED
      BY <1>1, <3>1, WorkedOn
  <2>4. finished[t] \in Seq({"own", "other"})
    BY <1>1 DEF TypeOK
  <2>5. Contains(Append(finished[t], by), owner) => Contains(finished[t], owner) \/ by = owner
    BY <2>4, AppendHas
  <2> QED
    BY <1>2, <2>1, <2>2, <2>3, <2>5
<1>3. ASSUME NEW f \in Episodes, record'[f] = [owner |-> owner, task |-> t]
      PROVE  t \in WorkedOnBy(owner)
  <2>1. record'[f] = record[f]
    BY <1>3, ForgetType DEF Free
  <2> QED
    BY <1>1, <1>3, <2>1, WorkedOn
<1> QED
  BY <1>2, <1>3, WorkedOn

LEMMA ClaimWorks ==
  ASSUME TypeOK, NEW e \in Episodes, NEW by \in {"own", "other"}, NEW owner \in {"own", "other"},
         NEW t \in Tasks \cup {NoTask}, ClaimAt(e, by, t), finished' = finished,
         NEW s, s \in WorkedOnBy(owner)'
  PROVE  s \in WorkedOnBy(owner) \/ (owner = by /\ s = t /\ s # NoTask)
<1>1. s \in Tasks /\ s # NoTask
  <2>1. s \in Tasks
    BY WorkedOn
  <2> QED
    BY <2>1 DEF Tasks, NoTask
<1>2. CASE Contains(finished'[s], owner)
  BY <1>1, <1>2, WorkedOn
<1>3. ASSUME NEW f \in Episodes, record'[f] = [owner |-> owner, task |-> s]
      PROVE  s \in WorkedOnBy(owner) \/ (owner = by /\ s = t /\ s # NoTask)
  <2>1. record'[f] = IF f = e THEN [owner |-> by, task |-> t] ELSE record[f]
    BY ClaimAtType
  <2>2. CASE f = e
    BY <1>1, <1>3, <2>1, <2>2
  <2>3. CASE f # e
    BY <1>1, <1>3, <2>1, <2>3, WorkedOn
  <2> QED
    BY <2>2, <2>3
<1> QED
  BY <1>2, <1>3, WorkedOn

\* While a job holds the lock, nothing the others do gives this client a task it did not
\* have, or gives other clients one without it being known as shared.
WorkKept ==
  /\ \A j \in Jobs : Holding(j) /\ Holding(j)' /\ OneHolds => TaskSet' \subseteq TaskSet
  /\ AlienSet' \subseteq AlienSet \cup foreign'.shared
  /\ foreign.shared \subseteq foreign'.shared \/ (TaskSet' = {} /\ AlienSet' = {})

LEMMA ReleaseKept ==
  ASSUME TypeOK, finished' = finished, foreign' = foreign,
         \A e \in Episodes : record'[e] = record[e] \/ record'[e].owner = "nobody"
  PROVE  WorkKept
<1>1. TaskSet' \subseteq TaskSet /\ AlienSet' \subseteq AlienSet
  BY ReleaseWorks DEF TaskSet, AlienSet
<1> QED
  BY <1>1 DEF WorkKept

LEMMA FinishKept ==
  ASSUME TypeOK, NEW e \in Episodes, NEW by \in {"own", "other"}, record[e].owner = by,
         Forget(e), Finish(record[e].task, by), foreign' = foreign
  PROVE  WorkKept
<1>1. TaskSet' \subseteq TaskSet /\ AlienSet' \subseteq AlienSet
  BY FinishWorks DEF TaskSet, AlienSet
<1> QED
  BY <1>1 DEF WorkKept

LEMMA OwnClaimKept ==
  ASSUME TypeOK, NEW j \in Jobs, NEW e \in Episodes, ClaimAt(e, "own", TaskOf(j)),
         finished' = finished, foreign' = foreign, Holding(j), ~Holding(j)'
  PROVE  WorkKept
<1>1. AlienSet' \subseteq AlienSet
  BY JobsAre, ClaimWorks DEF AlienSet
<1> QED
  BY <1>1 DEF WorkKept, OneHolds

LEMMA ForeignClaimKept ==
  ASSUME TypeOK, NEW e \in Episodes, ForeignClaim(e)
  PROVE  WorkKept
<1> DEFINE task == record[e].task
<1>1. task \in Tasks \cup {NoTask} /\ finished' = finished
  BY DEF ForeignClaim, TypeOK
<1>2. ClaimAt(e, "other", task)
  BY DEF ForeignClaim
<1>3. foreign'.shared = foreign.shared \cup ({task} \ {NoTask})
  BY DEF ForeignClaim, TypeOK
<1> HIDE DEF task
<1>4. TaskSet' \subseteq TaskSet
  BY <1>1, <1>2, ClaimWorks DEF TaskSet
<1>5. \A s \in AlienSet' : s \in AlienSet \/ (s = task /\ s # NoTask)
  BY <1>1, <1>2, ClaimWorks DEF AlienSet
<1> QED
  BY <1>3, <1>4, <1>5 DEF WorkKept

LEMMA NextBatchKept ==
  ASSUME NextBatch
  PROVE  WorkKept
<1>1. \A t \in Tasks, owner \in {"own", "other"} : ~Contains(finished'[t], owner)
  BY DEF NextBatch, Contains
<1>2. Running' = {}
  BY DEF NextBatch, Running, Free
<1>3. TaskSet' = {} /\ AlienSet' = {}
  BY <1>1, <1>2 DEF TaskSet, AlienSet, WorkedOnBy
<1> QED
  BY <1>3 DEF WorkKept

LEMMA WorkStep ==
  ASSUME TypeOK, [Next]_vars
  PROVE  WorkKept
<1>1. CASE UNCHANGED <<record, finished, foreign>>
  BY <1>1, ReleaseKept
<1>2. ASSUME NEW j \in Jobs, Claim(j) \/ ClaimFails(j)
      PROVE  WorkKept
  <2>1. Holding(j) /\ finished' = finished /\ foreign' = foreign
    BY <1>2 DEF Claim, ClaimFails, Holding
  <2>2. ~Holding(j)'
    <3>1. Goto(j, "working") \/ Goto(j, "begin")
      BY <1>2 DEF Claim, ClaimFails
    <3> QED
      BY <3>1, PlaceType DEF Places, Holding
  <2>3. record' = record \/ \E e \in Episodes : ClaimAt(e, "own", TaskOf(j))
    BY <1>2 DEF Claim, ClaimFails
  <2> QED
    BY <1>1, <2>1, <2>2, <2>3, OwnClaimKept
<1>3. ASSUME NEW j \in Jobs, EndStep(j)
      PROVE  WorkKept
  <2>1. CASE Submit(j)
    <3>1. foreign' = foreign /\ \E e \in Episodes : record[e].owner = "own" /\ Forget(e) /\ Finish(record[e].task, "own")
      BY <2>1, SubmitType
    <3> QED
      BY <3>1, FinishKept
  <2>2. CASE Abort(j) /\ finished' = finished /\ foreign' = foreign
    BY <2>2, AbortType, ReleaseKept
  <2> QED
    BY <1>1, <1>3, <2>1, <2>2
       DEF EndStep, End, EndFails, EndTooLate, EndExpired, AgentFails, serverVars
<1>4. ASSUME NEW e \in Episodes, Reclaim(e)
      PROVE  WorkKept
  <2>1. \A f \in Episodes : record'[f] = record[f] \/ record'[f].owner = "nobody"
    BY <1>4 DEF Reclaim, TypeOK
  <2> QED
    BY <1>4, <2>1, ReleaseKept DEF Reclaim
<1>5. ASSUME NEW e \in Episodes, ForeignEnd(e)
      PROVE  WorkKept
  BY <1>5, FinishKept DEF ForeignEnd
<1>6. CASE SubmitGroup \/ (\E j \in Jobs : Admit(j)) \/ StopRolling \/ StartSyncing \/ UNCHANGED vars
  BY <1>1, <1>6 DEF SubmitGroup, Admit, StopRolling, StartSyncing, vars, serverVars
<1> QED
  BY <1>2, <1>3, <1>4, <1>5, <1>6, ForeignClaimKept, NextBatchKept DEF Next, BeginStep, ServerStep

LEMMA AliensKept ==
  ASSUME TypeOK, AliensShared, [Next]_vars
  PROVE  AliensShared'
BY WorkStep DEF AliensShared, WorkKept

LEMMA TasksFinite == \A S : S \subseteq Tasks => IsFiniteSet(S) /\ Cardinality(S) \in Nat
<1>1. IsFiniteSet(Tasks)
  BY FS_Interval, ClientAssumption DEF Tasks
<1> QED
  BY <1>1, FS_Subset, FS_CardinalityType

LEMMA CountedKept ==
  ASSUME TypeOK, OneHolds, AliensShared, Counted, [Next]_vars
  PROVE  Counted'
<1> SUFFICES ASSUME NEW j \in Jobs, pc'[j] = "counted"
             PROVE  Cardinality(TaskSet' \ (foreign'.shared \cup {TaskOf(j)})) < Limit
  BY DEF Counted
<1> DEFINE after == TaskSet' \ (foreign'.shared \cup {TaskOf(j)})
<1>1. after \subseteq Tasks
  BY DEF TaskSet, WorkedOnBy
<1>2. Limit \in Nat \ {0}
  BY ClientAssumption
<1>3. SUFFICES ASSUME NEW before, before \subseteq Tasks, after \subseteq before, Cardinality(before) < Limit
               PROVE  Cardinality(after) < Limit
  <2>1. CASE TaskSet' = {} /\ AlienSet' = {}
    <3>1. Cardinality({}) < Limit
      BY <1>2, FS_EmptySet
    <3> QED
      BY <1>3, <2>1, <3>1
  <2>2. CASE pc[j] = "counted" /\ foreign.shared \subseteq foreign'.shared
    <3>1. TaskSet' \subseteq TaskSet
      BY <2>2, WorkStep DEF Holding, WorkKept
    <3>2. after \subseteq TaskSet \ (foreign.shared \cup {TaskOf(j)})
      BY <2>2, <3>1
    <3>3. TaskSet \subseteq Tasks
      BY DEF TaskSet, WorkedOnBy
    <3> QED
      BY <1>3, <2>2, <3>2, <3>3 DEF Counted
  <2>3. CASE pc[j] # "counted"
    <3>1. Admit(j)
      BY <2>3, HoldingStep DEF Holding
    <3>2. ~Bypass(TaskOf(j)) /\ ~Throttled(TaskOf(j))
      BY <3>1, PlaceType DEF Admit, Places
    <3>3. Cardinality(RealUnique) < Limit
      <4>1. RealUnique \subseteq Tasks
        BY DEF RealUnique, TaskSet, WorkedOnBy
      <4>2. Cardinality(RealUnique) \in Nat
        BY <4>1, TasksFinite
      <4>3. ~(Cardinality(RealUnique) >= Limit)
        BY <3>2 DEF Throttled
      <4> QED
        BY <1>2, <4>2, <4>3
    <3>4. UNCHANGED <<record, finished, foreign>>
      BY <3>1 DEF Admit, serverVars
    <3>5. TaskSet' = TaskSet
      BY <3>4 DEF TaskSet, WorkedOnBy, Running
    <3>6. after \subseteq RealUnique
      BY <3>4, <3>5 DEF RealUnique, AliensShared
    <3>7. RealUnique \subseteq Tasks
      BY DEF RealUnique, TaskSet, WorkedOnBy
    <3> QED
      BY <1>3, <3>3, <3>6, <3>7
  <2> QED
    BY <2>1, <2>2, <2>3, WorkStep DEF WorkKept
<1> HIDE DEF after
<1>4. IsFiniteSet(before) /\ Cardinality(before) \in Nat /\ Cardinality(after) \in Nat
  BY <1>1, <1>3, TasksFinite
<1>5. Cardinality(after) <= Cardinality(before)
  BY <1>3, <1>4, FS_Subset
<1> QED
  BY <1>2, <1>3, <1>4, <1>5

LEMMA FinishLast ==
  ASSUME TypeOK, OwnIsLast, NEW task, NEW by \in {"own", "other"}, Finish(task, by)
  PROVE  OwnIsLast'
<1> SUFFICES ASSUME NEW t \in Tasks, NEW i \in 1..Len(finished'[t]), finished'[t][i] = "own"
             PROVE  i = Len(finished'[t])
  BY DEF OwnIsLast
<1>1. finished'[t] = IF t = task /\ ~Contains(finished[task], "own")
                     THEN Append(finished[t], by) ELSE finished[t]
  BY FinishType
<1>2. CASE finished'[t] = finished[t]
  BY <1>2 DEF OwnIsLast
<1>3. CASE finished'[t] = Append(finished[t], by) /\ ~Contains(finished[t], "own")
  <2>1. finished[t] \in Seq({"own", "other"})
    BY DEF TypeOK
  <2>2. /\ Len(finished[t]) \in Nat /\ Len(finished'[t]) = Len(finished[t]) + 1
        /\ \A k \in 1..Len(finished[t]) : finished'[t][k] = finished[t][k]
    BY <1>3, <2>1, AppendProperties
  <2>3. i \notin 1..Len(finished[t])
    BY <1>3, <2>2 DEF Contains
  <2> QED
    BY <2>2, <2>3
<1> QED
  BY <1>1, <1>2, <1>3

LEMMA LastKept ==
  ASSUME TypeOK, OwnIsLast, [Next]_vars
  PROVE  OwnIsLast'
<1>1. CASE finished' = finished
  BY <1>1 DEF OwnIsLast
<1>2. ASSUME NEW j \in Jobs, EndStep(j)
      PROVE  OwnIsLast'
  <2>1. CASE Submit(j)
    <3>1. \E task : Finish(task, "own")
      BY <2>1 DEF Submit
    <3> QED
      BY <3>1, FinishLast
  <2> QED
    BY <1>1, <1>2, <2>1
       DEF EndStep, End, EndFails, EndTooLate, EndExpired, AgentFails, serverVars
<1>3. ASSUME NEW e \in Episodes, ForeignEnd(e)
      PROVE  OwnIsLast'
  BY <1>3, FinishLast DEF ForeignEnd
<1>4. CASE NextBatch
  BY <1>4 DEF NextBatch, OwnIsLast
<1> QED
  BY <1>1, <1>2, <1>3, <1>4
     DEF Next, BeginStep, ServerStep, SubmitGroup, Admit, Claim, ClaimFails, Reclaim, ForeignClaim,
         StopRolling, StartSyncing, vars, serverVars

\* Without other clients on its tasks, a task's list of finished episodes has no second entry.
LEMMA OneFinished ==
  ASSUME TypeOK, AliensShared, OwnIsLast, foreign.shared = {}, NEW t \in Tasks
  PROVE  Len(finished[t]) =< 1
<1>1. finished[t] \in Seq({"own", "other"})
  BY DEF TypeOK
<1>2. ~Contains(finished[t], "other")
  <2>1. AlienSet = {}
    BY DEF AliensShared
  <2> QED
    BY <2>1 DEF AlienSet, WorkedOnBy
<1>3. \A i \in 1..Len(finished[t]) : finished[t][i] = "own"
  BY <1>1, <1>2 DEF Contains
<1>4. \A i \in 1..Len(finished[t]) : i = Len(finished[t])
  BY <1>3 DEF OwnIsLast
<1>5. Len(finished[t]) \in Nat
  BY <1>1
<1> DEFINE n == Len(finished[t])
<1> HIDE DEF n
<1>6. n \in Nat /\ \A i \in 1..n : i = n
  BY <1>4, <1>5 DEF n
<1>7. n =< 1
  BY <1>6
<1> QED
  BY <1>7 DEF n

-----------------------------------------------------------------------------
(* The theorems *)

LEMMA InitIInv == Init => IInv
<1> SUFFICES ASSUME Init
             PROVE  IInv
  OBVIOUS
<1>1. TypeOK
  <2>1. \A b \in Nat \ {0}, n \in Nat \ {0} : 0 <= b * n * 3
    OBVIOUS
  <2>2. <<>> \in Seq(Tasks) /\ Len(<<>>) <= BatchSize * NumRepeat * 3 /\ IsInjective(<<>>)
    BY <2>1, RepeatsNat, ClientAssumption DEF IsInjective
  <2> QED
    BY <2>2, ClientAssumption DEF Init, TypeOK, Places, Free, NoForeign
<1>2. OneHolds /\ Counted /\ OwnIsLast
  BY DEF Init, OneHolds, Counted, OwnIsLast, Holding
<1>3. AliensShared
  BY DEF Init, AliensShared, AlienSet, WorkedOnBy, Running, Contains, Free
<1> QED
  BY <1>1, <1>2, <1>3 DEF IInv

LEMMA NextIInv == IInv /\ [Next]_vars => IInv'
BY TypeKept, OneKept, AliensKept, CountedKept, LastKept DEF IInv

\* The invariant holds in every state of every client.
THEOREM Invariance == Spec => []IInv
BY InitIInv, NextIInv, PTL DEF Spec

\* Every variable keeps its type: the memory of recent tasks never outgrows the three
\* batches it is meant for, nor remembers a task twice, and no thread leaves the places
\* begin_episode and end_episode are written for.
THEOREM TypeCorrect == Spec => []TypeOK
<1>1. IInv => TypeOK
  BY DEF IInv
<1> QED
  BY <1>1, Invariance, PTL

\* A task that the count lets into a batch finds fewer than the limit of this client's
\* tasks in it when its claim succeeds, for every number of threads, tasks and other
\* clients, and whatever the server takes back between the count and the claim.
THEOREM ThrottleHolds == Spec => ThrottleBound
<1> DEFINE Step ==
      \A j \in Jobs :
        pc[j] = "counted" /\ pc'[j] = "working"
          => Cardinality(TaskSet \ (foreign.shared \cup {TaskOf(j)})) < Limit
<1>1. IInv => [Step]_vars
  BY DEF IInv, Counted
<1>2. [][Step]_vars <=> ThrottleBound
  BY DEF ThrottleBound
<1> HIDE DEF Step
<1> QED
  BY <1>1, <1>2, Invariance, PTL

\* The throttle never starves the batch it waits for, for every batch size, limit and
\* number of tasks, when each task is to be done more than once: nothing is held back
\* while nothing runs.  (With one repetition the client takes its finished episodes for
\* a complete batch, though the trainer may have dropped some.)
THEOREM NobodyStarves ==
  ASSUME NumRepeat >= 2
  PROVE  Spec => []NeverStarved
<1>1. IInv => NeverStarved
  <2> SUFFICES ASSUME IInv, Running = {}, foreign.shared = {},
                      NEW j \in Jobs, pc[j] = "begin"
               PROVE  ~Throttled(TaskOf(j))
    BY DEF NeverStarved
  <2>1. \A t \in Tasks : ~(Len(finished[t]) >= NumRepeat)
    <3> SUFFICES ASSUME NEW t \in Tasks
                 PROVE  ~(Len(finished[t]) >= NumRepeat)
      OBVIOUS
    <3>1. Len(finished[t]) =< 1 /\ finished[t] \in Seq({"own", "other"})
      BY OneFinished DEF IInv, TypeOK
    <3>2. Len(finished[t]) \in Nat
      BY <3>1
    <3> QED
      BY <3>1, <3>2, RepeatsNat
  <2>2. {t \in Tasks : Len(finished[t]) >= NumRepeat} = {}
    BY <2>1
  <2>3. Cardinality({t \in Tasks : Len(finished[t]) >= NumRepeat}) < BatchSize
    <3>1. Cardinality({}) < BatchSize
      BY FS_EmptySet, ClientAssumption
    <3> QED
      BY <2>2, <3>1, Zenon
  <2>4. Hatch
    BY <2>3 DEF Hatch
  <2> QED
    BY <2>4 DEF Throttled, Bypass
<1> QED
  BY <1>1, Invariance, PTL

===============================================================================
