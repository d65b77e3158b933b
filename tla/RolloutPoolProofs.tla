--------------------------- MODULE RolloutPoolProofs ---------------------------
(***************************************************************************)
(* Theorems about RolloutPool, for every number of workers and episodes,   *)
(* and all stop conditions.                                                *)
(***************************************************************************)
EXTENDS RolloutPool, FiniteSetTheorems, TLAPS

-----------------------------------------------------------------------------
(* The inductive invariant *)

\* Only the owner of the lock is between finding its task and writing, and what it found
\* is still there, unless the dictionary has been cleared.
Locked ==
  \A w \in Workers :
    /\ pc[w] \in {"store", "write"} => result[w] \in Trackers
    /\ pc[w] = "write" => lock = w
    /\ pc[w] = "write" /\ ~cleared => known = cache[result[w].task]

\* The server is told WEIGHT_SYNCING when no worker goes on any more.
Ended ==
  /\ status = "ENGINE.WEIGHT_SYNCING" => pc[Main] \in {"collect", "done"}
  /\ pc[Main] \in {"collect", "done"} => \A w \in Workers : pc[w] \in {"gone", "dead"}

\* The workers that have yet to store a tracker of a task with a reward.
Storing(w) == pc[w] \in {"store", "write"}
Pending(t, r) ==
  {w \in Workers : Storing(w) /\ result[w].task = t /\ result[w].reward = r}

\* Every tracker made is in the dictionary or with the worker that stores it, and in
\* the end in the batch.
Accounted ==
  ~cleared /\ pc[Main] # "done" =>
    \A t \in Tasks, r \in Rewards : made[t][r] = cache[t][r] + Cardinality(Pending(t, r))

-----------------------------------------------------------------------------
(* Every step keeps every part of the invariant *)

LEMMA TypeKept ==
  ASSUME TypeOK, Locked, [Next]_vars
  PROVE  TypeOK'
<1>1. ASSUME NEW w \in Workers, LoopTop(w)
      PROVE  TypeOK'
  BY <1>1, RolloutAssumption DEF LoopTop, Go, TypeOK, WorkerPC, MainPC, Threads
<1>2. ASSUME NEW w \in Workers, EndWithout(w)
      PROVE  TypeOK'
  BY <1>2, RolloutAssumption DEF EndWithout, Go, TypeOK, WorkerPC, MainPC, Threads
<1>3. ASSUME NEW w \in Workers, NEW tracker \in Trackers, EndWith(w, tracker)
      PROVE  TypeOK'
  <2>1. tracker.task \in Tasks /\ tracker.reward \in Rewards
    BY DEF Trackers
  <2>2. made' \in [Tasks -> [Rewards -> Nat]]
    BY <1>3, <2>1 DEF EndWith, TypeOK
  <2>3. result' \in [Workers -> Trackers \cup {NoTracker}]
    BY <1>3 DEF EndWith, TypeOK
  <2>4. pc' = [pc EXCEPT ![w] = "store"]
    BY <1>3 DEF EndWith, Go
  <2> QED
    BY <1>3, <2>2, <2>3, <2>4, RolloutAssumption
       DEF EndWith, TypeOK, WorkerPC, MainPC, Threads
<1>4. ASSUME NEW w \in Workers, Look(w)
      PROVE  TypeOK'
  <2>1. result[w].task \in Tasks
    BY <1>4 DEF Look, Locked, Trackers
  <2>2. known' \in [Rewards -> Nat]
    BY <1>4, <2>1 DEF Look, TypeOK
  <2> QED
    BY <1>4, <2>2, RolloutAssumption DEF Look, Go, TypeOK, WorkerPC, MainPC, Threads
<1>5. ASSUME NEW w \in Workers, Write(w)
      PROVE  TypeOK'
  <2>1. result[w].task \in Tasks /\ result[w].reward \in Rewards
    BY <1>5 DEF Write, Locked, Trackers
  <2>2. cache' \in [Tasks -> [Rewards -> Nat]]
    BY <1>5, <2>1 DEF Write, TypeOK
  <2>3. result' \in [Workers -> Trackers \cup {NoTracker}] /\ known' \in [Rewards -> Nat]
    BY <1>5 DEF Write, TypeOK, Empty
  <2>4. pc' = [pc EXCEPT ![w] = "check"] /\ lock' = Nobody
    BY <1>5 DEF Write, Go
  <2> QED
    BY <1>5, <2>2, <2>3, <2>4, RolloutAssumption
       DEF Write, TypeOK, WorkerPC, MainPC, Threads
<1>6. ASSUME NEW w \in Workers, WriteFails(w)
      PROVE  TypeOK'
  <2>1. result' \in [Workers -> Trackers \cup {NoTracker}] /\ known' \in [Rewards -> Nat]
    BY <1>6 DEF WriteFails, TypeOK, Empty
  <2>2. pc' = [pc EXCEPT ![w] = "dead"] /\ lock' = Nobody
    BY <1>6 DEF WriteFails, Go
  <2> QED
    BY <1>6, <2>1, <2>2, RolloutAssumption DEF WriteFails, TypeOK, WorkerPC, MainPC, Threads
<1>7. ASSUME NEW th \in Threads, Evaluate(th)
      PROVE  TypeOK'
  <2>1. Met(cache, seen) \in BOOLEAN
    BY DEF Met
  <2>2. PICK to \in {"clear", "preview", "raise"} \cup (IF th = Main THEN {} ELSE {"gone"}) :
          pc' = [pc EXCEPT ![th] = to]
    BY <1>7 DEF Evaluate, Answer, Go
  <2>3. verdict' \in [Threads -> BOOLEAN]
    BY <1>7, <2>1 DEF Evaluate, TypeOK
  <2> QED
    BY <1>7, <2>2, <2>3, RolloutAssumption DEF Evaluate, TypeOK, WorkerPC, MainPC, Threads
<1>8. ASSUME NEW th \in Threads, ClearCache(th)
      PROVE  TypeOK'
  <2>1. PICK to \in {"preview", "raise"} \cup (IF th = Main THEN {} ELSE {"gone"}) :
          pc' = [pc EXCEPT ![th] = to]
    BY <1>8 DEF ClearCache, Answer, Go
  <2>2. cache' \in [Tasks -> [Rewards -> Nat]] /\ verdict' \in [Threads -> BOOLEAN]
    BY <1>8 DEF ClearCache, Nothing, Empty, TypeOK
  <2> QED
    BY <1>8, <2>1, <2>2, RolloutAssumption DEF ClearCache, TypeOK, WorkerPC, MainPC, Threads
<1>9. ASSUME NEW th \in Threads, RaiseStop(th)
      PROVE  TypeOK'
  BY <1>9, RolloutAssumption DEF RaiseStop, Go, TypeOK, WorkerPC, MainPC, Threads
<1>10. ASSUME NEW th \in Threads, PostRollingPost(th)
      PROVE  TypeOK'
  BY <1>10, RolloutAssumption DEF PostRollingPost, Go, TypeOK, WorkerPC, MainPC, Threads
<1>11. ASSUME NEW th \in Threads, Preview(th)
      PROVE  TypeOK'
  BY <1>11, RolloutAssumption DEF Preview, Go, TypeOK, WorkerPC, MainPC, Threads
<1>12. CASE SkipPreview
  BY <1>12, RolloutAssumption DEF SkipPreview, Go, TypeOK, WorkerPC, MainPC, Threads
<1>13. CASE Shutdown
  BY <1>13, RolloutAssumption DEF Shutdown, Go, TypeOK, WorkerPC, MainPC, Threads
<1>14. CASE Collect
  <2>1. HandedOver(cache) \in [Tasks -> [Rewards -> Nat]]
    BY DEF HandedOver, FilterDummy, Empty, TypeOK
  <2>2. batch' \in [Tasks -> [Rewards -> Nat]] /\ cache' \in [Tasks -> [Rewards -> Nat]]
    BY <1>14, <2>1 DEF Collect, Nothing, Empty
  <2> QED
    BY <1>14, <2>2, RolloutAssumption DEF Collect, Go, TypeOK, WorkerPC, MainPC, Threads
<1>15. ASSUME NEW c \in Clients, ListChanges(c)
      PROVE  TypeOK'
  BY <1>15, RolloutAssumption DEF ListChanges, Go, TypeOK, WorkerPC, MainPC, Threads
<1>16. CASE UNCHANGED vars
  BY <1>16 DEF vars, TypeOK, WorkerPC, MainPC, Threads
<1> QED
  BY <1>1, <1>2, <1>3, <1>4, <1>5, <1>6, <1>7, <1>8, <1>9, <1>10,
     <1>11, <1>12, <1>13, <1>14, <1>15, <1>16
     DEF Next, WorkerStep, MainStep, Condition, Threads

LEMMA LockedKept ==
  ASSUME TypeOK, Locked, Ended, [Next]_vars
  PROVE  Locked'
<1>1. ASSUME NEW w \in Workers, LoopTop(w)
      PROVE  Locked'
  BY <1>1, RolloutAssumption DEF LoopTop, Go, Locked, TypeOK, Threads, Nobody
<1>2. ASSUME NEW w \in Workers, EndWithout(w)
      PROVE  Locked'
  BY <1>2, RolloutAssumption DEF EndWithout, Go, Locked, TypeOK, Threads, Nobody
<1>3. ASSUME NEW w \in Workers, NEW tracker \in Trackers, EndWith(w, tracker)
      PROVE  Locked'
  BY <1>3, RolloutAssumption DEF EndWith, Go, Locked, TypeOK, Threads, Nobody
<1>4. ASSUME NEW w \in Workers, Look(w)
      PROVE  Locked'
  BY <1>4, RolloutAssumption DEF Look, Go, Locked, TypeOK, Threads, Nobody
<1>5. ASSUME NEW w \in Workers, Write(w)
      PROVE  Locked'
  BY <1>5, RolloutAssumption DEF Write, Go, Locked, TypeOK, Threads, Nobody
<1>6. ASSUME NEW w \in Workers, WriteFails(w)
      PROVE  Locked'
  BY <1>6, RolloutAssumption DEF WriteFails, Go, Locked, TypeOK, Threads, Nobody
<1>7. ASSUME NEW th \in Threads, Evaluate(th)
      PROVE  Locked'
  BY <1>7, RolloutAssumption DEF Evaluate, Answer, Go, Locked, TypeOK, Threads, Nobody
<1>8. ASSUME NEW th \in Threads, ClearCache(th)
      PROVE  Locked'
  BY <1>8, RolloutAssumption DEF ClearCache, Answer, Go, Locked, TypeOK, Threads, Nobody
<1>9. ASSUME NEW th \in Threads, RaiseStop(th)
      PROVE  Locked'
  BY <1>9, RolloutAssumption DEF RaiseStop, Go, Locked, TypeOK, Threads, Nobody
<1>10. ASSUME NEW th \in Threads, PostRollingPost(th)
      PROVE  Locked'
  BY <1>10, RolloutAssumption DEF PostRollingPost, Go, Locked, TypeOK, Threads, Nobody
<1>11. ASSUME NEW th \in Threads, Preview(th)
      PROVE  Locked'
  BY <1>11, RolloutAssumption DEF Preview, Go, Locked, TypeOK, Threads, Nobody
<1>12. CASE SkipPreview
  BY <1>12, RolloutAssumption DEF SkipPreview, Go, Locked, TypeOK, Threads, Nobody
<1>13. CASE Shutdown
  BY <1>13, RolloutAssumption DEF Shutdown, Go, Locked, TypeOK, Threads, Nobody
<1>14. CASE Collect
  <2>1. \A v \in Workers : pc[v] \in {"gone", "dead"}
    BY <1>14 DEF Collect, Ended
  <2> QED
    BY <1>14, <2>1, RolloutAssumption DEF Collect, Go, Locked, TypeOK, Threads, Nobody
<1>15. ASSUME NEW c \in Clients, ListChanges(c)
      PROVE  Locked'
  BY <1>15, RolloutAssumption DEF ListChanges, Go, Locked, TypeOK, Threads, Nobody
<1>16. CASE UNCHANGED vars
  BY <1>16 DEF vars, Locked, TypeOK, Threads, Nobody
<1> QED
  BY <1>1, <1>2, <1>3, <1>4, <1>5, <1>6, <1>7, <1>8, <1>9, <1>10,
     <1>11, <1>12, <1>13, <1>14, <1>15, <1>16
     DEF Next, WorkerStep, MainStep, Condition, Threads

LEMMA EndedKept ==
  ASSUME TypeOK, Ended, [Next]_vars
  PROVE  Ended'
<1>1. ASSUME NEW w \in Workers, LoopTop(w)
      PROVE  Ended'
  BY <1>1, RolloutAssumption DEF LoopTop, Go, Ended, TypeOK, Threads
<1>2. ASSUME NEW w \in Workers, EndWithout(w)
      PROVE  Ended'
  BY <1>2, RolloutAssumption DEF EndWithout, Go, Ended, TypeOK, Threads
<1>3. ASSUME NEW w \in Workers, NEW tracker \in Trackers, EndWith(w, tracker)
      PROVE  Ended'
  BY <1>3, RolloutAssumption DEF EndWith, Go, Ended, TypeOK, Threads
<1>4. ASSUME NEW w \in Workers, Look(w)
      PROVE  Ended'
  BY <1>4, RolloutAssumption DEF Look, Go, Ended, TypeOK, Threads
<1>5. ASSUME NEW w \in Workers, Write(w)
      PROVE  Ended'
  BY <1>5, RolloutAssumption DEF Write, Go, Ended, TypeOK, Threads
<1>6. ASSUME NEW w \in Workers, WriteFails(w)
      PROVE  Ended'
  BY <1>6, RolloutAssumption DEF WriteFails, Go, Ended, TypeOK, Threads
<1>7. ASSUME NEW th \in Threads, Evaluate(th)
      PROVE  Ended'
  BY <1>7, RolloutAssumption DEF Evaluate, Answer, Go, Ended, TypeOK, Threads
<1>8. ASSUME NEW th \in Threads, ClearCache(th)
      PROVE  Ended'
  BY <1>8, RolloutAssumption DEF ClearCache, Answer, Go, Ended, TypeOK, Threads
<1>9. ASSUME NEW th \in Threads, RaiseStop(th)
      PROVE  Ended'
  BY <1>9, RolloutAssumption DEF RaiseStop, Go, Ended, TypeOK, Threads
<1>10. ASSUME NEW th \in Threads, PostRollingPost(th)
      PROVE  Ended'
  BY <1>10, RolloutAssumption DEF PostRollingPost, Go, Ended, TypeOK, Threads
<1>11. ASSUME NEW th \in Threads, Preview(th)
      PROVE  Ended'
  BY <1>11, RolloutAssumption DEF Preview, Go, Ended, TypeOK, Threads
<1>12. CASE SkipPreview
  BY <1>12, RolloutAssumption DEF SkipPreview, Go, Ended, TypeOK, Threads
<1>13. CASE Shutdown
  BY <1>13, RolloutAssumption DEF Shutdown, Go, Ended, TypeOK, Threads
<1>14. CASE Collect
  BY <1>14, RolloutAssumption DEF Collect, Go, Ended, TypeOK, Threads
<1>15. ASSUME NEW c \in Clients, ListChanges(c)
      PROVE  Ended'
  BY <1>15, RolloutAssumption DEF ListChanges, Go, Ended, TypeOK, Threads
<1>16. CASE UNCHANGED vars
  BY <1>16 DEF vars, Ended, TypeOK, Threads
<1> QED
  BY <1>1, <1>2, <1>3, <1>4, <1>5, <1>6, <1>7, <1>8, <1>9, <1>10,
     <1>11, <1>12, <1>13, <1>14, <1>15, <1>16
     DEF Next, WorkerStep, MainStep, Condition, Threads

\* Nobody begins or ends to store: the pending workers are the same.
LEMMA SamePending ==
  ASSUME TypeOK, NEW t \in Tasks, NEW r \in Rewards, result' = result,
         \A w \in Workers : Storing(w)' = Storing(w)
  PROVE  Pending(t, r)' = Pending(t, r)
BY DEF Pending

LEMMA PendingFinite ==
  ASSUME NEW t, NEW r
  PROVE  IsFiniteSet(Pending(t, r)) /\ Cardinality(Pending(t, r)) \in Nat
<1>1. Pending(t, r) \subseteq Workers
  BY DEF Pending
<1> QED
  BY <1>1, RolloutAssumption, FS_Subset, FS_CardinalityType

\* A step that stores nothing and begins nothing keeps the account.
LEMMA SameAccount ==
  ASSUME TypeOK, Accounted, result' = result, made' = made, cache' = cache,
         cleared' = cleared, pc'[Main] # "done" => pc[Main] # "done",
         \A w \in Workers : Storing(w)' = Storing(w)
  PROVE  Accounted'
<1>1. \A t \in Tasks, r \in Rewards : Pending(t, r)' = Pending(t, r)
  BY SamePending
<1> QED
  BY <1>1 DEF Accounted

LEMMA GoAside ==
  ASSUME TypeOK, Accounted, NEW th \in Threads, NEW to, Go(th, to),
         pc[th] \notin {"store", "write", "done"}, to \notin {"store", "write"},
         result' = result, made' = made, cache' = cache, cleared' = cleared
  PROVE  Accounted'
<1>1. \A u \in Threads : pc'[u] = IF u = th THEN to ELSE pc[u]
  BY DEF Go, TypeOK
<1>2. \A w \in Workers : Storing(w)' = Storing(w)
  BY <1>1 DEF Storing, Threads
<1>3. pc'[Main] # "done" => pc[Main] # "done"
  BY <1>1 DEF Threads
<1> QED
  BY <1>2, <1>3, SameAccount

LEMMA AccountedKept ==
  ASSUME TypeOK, Locked, Accounted, Ended, [Next]_vars
  PROVE  Accounted'
<1>1. ASSUME NEW w \in Workers, LoopTop(w)
      PROVE  Accounted'
  <2>1. Go(w, (IF stop THEN "gone" ELSE "episode")) /\ pc[w] \notin {"store", "write", "done"}
    BY <1>1 DEF LoopTop
  <2>2. (IF stop THEN "gone" ELSE "episode") \notin {"store", "write"}
    OBVIOUS
  <2>3. result' = result /\ made' = made /\ cache' = cache /\ cleared' = cleared
    BY <1>1 DEF LoopTop
  <2> QED
    BY <2>1, <2>2, <2>3, GoAside DEF Threads
<1>2. ASSUME NEW w \in Workers, EndWithout(w)
      PROVE  Accounted'
  <2>1. PICK to \in {"check", "dead"} : Go(w, to)
    BY <1>2 DEF EndWithout
  <2>2. to \notin {"store", "write"} /\ pc[w] \notin {"store", "write", "done"}
    BY <1>2 DEF EndWithout
  <2>3. result' = result /\ made' = made /\ cache' = cache /\ cleared' = cleared
    BY <1>2 DEF EndWithout
  <2> QED
    BY <2>1, <2>2, <2>3, GoAside DEF Threads
<1>3. ASSUME NEW w \in Workers, NEW tracker \in Trackers, EndWith(w, tracker)
      PROVE  Accounted'
  <2>1. \A u \in Threads : pc'[u] = IF u = w THEN "store" ELSE pc[u]
    BY <1>3 DEF EndWith, Go, TypeOK
  <2>2. /\ \A u \in Workers : result'[u] = IF u = w THEN tracker ELSE result[u]
        /\ cache' = cache /\ cleared' = cleared /\ pc[w] = "episode"
    BY <1>3 DEF EndWith, TypeOK
  <2>3. SUFFICES ASSUME ~cleared, pc[Main] # "done", NEW t \in Tasks, NEW r \in Rewards
                 PROVE  made'[t][r] = cache[t][r] + Cardinality(Pending(t, r)')
    BY <2>1, <2>2, RolloutAssumption DEF Accounted, Threads
  <2>4. made[t][r] = cache[t][r] + Cardinality(Pending(t, r))
    BY <2>3 DEF Accounted
  <2>5. made[t][r] \in Nat /\ cache[t][r] \in Nat /\ Cardinality(Pending(t, r)) \in Nat
    BY PendingFinite DEF TypeOK
  <2>6. made'[t][r] = IF tracker.task = t /\ tracker.reward = r THEN made[t][r] + 1
                      ELSE made[t][r]
    BY <1>3 DEF EndWith, TypeOK, Trackers
  <2>7. w \notin Pending(t, r)
    BY <2>2 DEF Pending, Storing
  <2>8. CASE tracker.task = t /\ tracker.reward = r
    <3>1. Pending(t, r)' = Pending(t, r) \cup {w}
      BY <2>1, <2>2, <2>8 DEF Pending, Storing, Threads
    <3>2. Cardinality(Pending(t, r)') = Cardinality(Pending(t, r)) + 1
      BY <3>1, <2>7, PendingFinite, FS_AddElement
    <3> QED
      BY <3>2, <2>4, <2>5, <2>6, <2>8
  <2>9. CASE ~(tracker.task = t /\ tracker.reward = r)
    <3>1. Pending(t, r)' = Pending(t, r)
      BY <2>1, <2>2, <2>9 DEF Pending, Storing, Threads
    <3> QED
      BY <3>1, <2>4, <2>6, <2>9
  <2> QED
    BY <2>8, <2>9
<1>4. ASSUME NEW w \in Workers, Look(w)
      PROVE  Accounted'
  <2>1. \A u \in Threads : pc'[u] = IF u = w THEN "write" ELSE pc[u]
    BY <1>4 DEF Look, Go, TypeOK
  <2>2. \A u \in Workers : Storing(u)' = Storing(u)
    BY <1>4, <2>1 DEF Look, Storing, Threads
  <2>3. pc'[Main] # "done" => pc[Main] # "done"
    BY <2>1, RolloutAssumption DEF Threads
  <2>4. result' = result /\ made' = made /\ cache' = cache /\ cleared' = cleared
    BY <1>4 DEF Look
  <2> QED
    BY <2>2, <2>3, <2>4, SameAccount
<1>5. ASSUME NEW w \in Workers, Write(w)
      PROVE  Accounted'
  <2>1. \A u \in Threads : pc'[u] = IF u = w THEN "check" ELSE pc[u]
    BY <1>5 DEF Write, Go, TypeOK
  <2>2. /\ \A u \in Workers : result'[u] = IF u = w THEN NoTracker ELSE result[u]
        /\ made' = made /\ cleared' = cleared /\ pc[w] = "write"
    BY <1>5 DEF Write, TypeOK
  <2>3. SUFFICES ASSUME ~cleared, pc[Main] # "done", NEW t \in Tasks, NEW r \in Rewards
                 PROVE  made[t][r] = cache'[t][r] + Cardinality(Pending(t, r)')
    BY <2>1, <2>2, RolloutAssumption DEF Accounted, Threads
  <2>4. made[t][r] = cache[t][r] + Cardinality(Pending(t, r))
    BY <2>3 DEF Accounted
  <2>5. made[t][r] \in Nat /\ cache[t][r] \in Nat /\ Cardinality(Pending(t, r)) \in Nat
    BY PendingFinite DEF TypeOK
  <2>6. result[w] \in Trackers /\ known = cache[result[w].task]
    BY <2>2, <2>3 DEF Locked
  <2>7. cache'[t][r] = IF result[w].task = t /\ result[w].reward = r THEN cache[t][r] + 1
                       ELSE cache[t][r]
    BY <1>5, <2>6 DEF Write, TypeOK, Trackers
  <2>8. CASE result[w].task = t /\ result[w].reward = r
    <3>1. Pending(t, r)' = Pending(t, r) \ {w} /\ w \in Pending(t, r)
      BY <2>1, <2>2, <2>8 DEF Pending, Storing, Threads
    <3>2. Cardinality(Pending(t, r)') = Cardinality(Pending(t, r)) - 1
      BY <3>1, PendingFinite, FS_RemoveElement
    <3> QED
      BY <3>2, <2>4, <2>5, <2>7, <2>8
  <2>9. CASE ~(result[w].task = t /\ result[w].reward = r)
    <3>1. Pending(t, r)' = Pending(t, r)
      BY <2>1, <2>2, <2>9 DEF Pending, Storing, Threads
    <3> QED
      BY <3>1, <2>4, <2>7, <2>9
  <2> QED
    BY <2>8, <2>9
<1>6. ASSUME NEW w \in Workers, WriteFails(w)
      PROVE  Accounted'
  <2>1. cleared
    BY <1>6 DEF WriteFails, Locked
  <2>2. cleared' = cleared
    BY <1>6 DEF WriteFails
  <2> QED
    BY <2>1, <2>2 DEF Accounted
<1>7. ASSUME NEW th \in Threads, Evaluate(th)
      PROVE  Accounted'
  <2>1. PICK to \in {"clear", "preview", "gone", "raise"} : Go(th, to)
    BY <1>7 DEF Evaluate, Answer
  <2>2. pc[th] \notin {"store", "write", "done"}
    BY <1>7 DEF Evaluate
  <2>3. result' = result /\ made' = made /\ cache' = cache /\ cleared' = cleared
    BY <1>7 DEF Evaluate
  <2> QED
    BY <2>1, <2>2, <2>3, GoAside
<1>8. ASSUME NEW th \in Threads, ClearCache(th)
      PROVE  Accounted'
  BY <1>8 DEF ClearCache, Accounted
<1>9. ASSUME NEW th \in Threads, RaiseStop(th)
      PROVE  Accounted'
  <2>1. Go(th, "post") /\ pc[th] \notin {"store", "write", "done"}
    BY <1>9 DEF RaiseStop
  <2>2. "post" \notin {"store", "write"}
    OBVIOUS
  <2>3. result' = result /\ made' = made /\ cache' = cache /\ cleared' = cleared
    BY <1>9 DEF RaiseStop
  <2> QED
    BY <2>1, <2>2, <2>3, GoAside DEF Threads
<1>10. ASSUME NEW th \in Threads, PostRollingPost(th)
      PROVE  Accounted'
  <2> DEFINE to == IF th = Main THEN "shutdown" ELSE "lastpreview"
  <2>1. Go(th, to) /\ pc[th] \notin {"store", "write", "done"}
    BY <1>10 DEF PostRollingPost
  <2>2. to \notin {"store", "write"}
    OBVIOUS
  <2>3. result' = result /\ made' = made /\ cache' = cache /\ cleared' = cleared
    BY <1>10 DEF PostRollingPost
  <2> HIDE DEF to
  <2> QED
    BY <2>1, <2>2, <2>3, GoAside DEF Threads
<1>11. ASSUME NEW th \in Threads, Preview(th)
      PROVE  Accounted'
  <2> DEFINE to == IF th = Main THEN "check" ELSE IF pc[th] = "preview" THEN "top" ELSE "gone"
  <2>1. Go(th, to) /\ pc[th] \notin {"store", "write", "done"}
    BY <1>11 DEF Preview
  <2>2. to \notin {"store", "write"}
    OBVIOUS
  <2>3. result' = result /\ made' = made /\ cache' = cache /\ cleared' = cleared
    BY <1>11 DEF Preview
  <2> HIDE DEF to
  <2> QED
    BY <2>1, <2>2, <2>3, GoAside DEF Threads
<1>12. CASE SkipPreview
  <2>1. Go(Main, "check") /\ pc[Main] \notin {"store", "write", "done"}
    BY <1>12 DEF SkipPreview
  <2>2. "check" \notin {"store", "write"}
    OBVIOUS
  <2>3. result' = result /\ made' = made /\ cache' = cache /\ cleared' = cleared
    BY <1>12 DEF SkipPreview
  <2> QED
    BY <2>1, <2>2, <2>3, GoAside DEF Threads
<1>13. CASE Shutdown
  <2>1. Go(Main, "collect") /\ pc[Main] \notin {"store", "write", "done"}
    BY <1>13 DEF Shutdown
  <2>2. "collect" \notin {"store", "write"}
    OBVIOUS
  <2>3. result' = result /\ made' = made /\ cache' = cache /\ cleared' = cleared
    BY <1>13 DEF Shutdown
  <2> QED
    BY <2>1, <2>2, <2>3, GoAside DEF Threads
<1>14. CASE Collect
  <2>1. pc'[Main] = "done"
    BY <1>14 DEF Collect, Go, TypeOK, Threads
  <2> QED
    BY <2>1 DEF Accounted
<1>15. ASSUME NEW c \in Clients, ListChanges(c)
      PROVE  Accounted'
  <2>1. \A w \in Workers : Storing(w)' = Storing(w)
    BY <1>15 DEF ListChanges, Storing
  <2>2. result' = result /\ made' = made /\ cache' = cache /\ cleared' = cleared /\ pc' = pc
    BY <1>15 DEF ListChanges
  <2> QED
    BY <2>1, <2>2, SameAccount
<1>16. CASE UNCHANGED vars
  <2>1. \A w \in Workers : Storing(w)' = Storing(w)
    BY <1>16 DEF vars, Storing
  <2> QED
    BY <1>16, <2>1, SameAccount DEF vars
<1> QED
  BY <1>1, <1>2, <1>3, <1>4, <1>5, <1>6, <1>7, <1>8, <1>9, <1>10,
     <1>11, <1>12, <1>13, <1>14, <1>15, <1>16
     DEF Next, WorkerStep, MainStep, Condition, Threads

LEMMA CompleteKept ==
  ASSUME TypeOK, Locked, Accounted, Ended, BatchComplete, [Next]_vars
  PROVE  BatchComplete'
<1>1. ASSUME NEW w \in Workers, LoopTop(w)
      PROVE  BatchComplete'
  BY <1>1, RolloutAssumption DEF LoopTop, Go, BatchComplete, HandedOver, TypeOK, Threads
<1>2. ASSUME NEW w \in Workers, EndWithout(w)
      PROVE  BatchComplete'
  BY <1>2, RolloutAssumption DEF EndWithout, Go, BatchComplete, HandedOver, TypeOK, Threads
<1>3. ASSUME NEW w \in Workers, NEW tracker \in Trackers, EndWith(w, tracker)
      PROVE  BatchComplete'
  <2>1. pc[Main] \notin {"collect", "done"}
    BY <1>3 DEF EndWith, Ended
  <2>2. pc'[Main] = pc[Main]
    BY <1>3, RolloutAssumption DEF EndWith, Go, TypeOK, Threads
  <2> QED
    BY <2>1, <2>2 DEF BatchComplete
<1>4. ASSUME NEW w \in Workers, Look(w)
      PROVE  BatchComplete'
  BY <1>4, RolloutAssumption DEF Look, Go, BatchComplete, HandedOver, TypeOK, Threads
<1>5. ASSUME NEW w \in Workers, Write(w)
      PROVE  BatchComplete'
  BY <1>5, RolloutAssumption DEF Write, Go, BatchComplete, HandedOver, TypeOK, Threads
<1>6. ASSUME NEW w \in Workers, WriteFails(w)
      PROVE  BatchComplete'
  BY <1>6, RolloutAssumption DEF WriteFails, Go, BatchComplete, HandedOver, TypeOK, Threads
<1>7. ASSUME NEW th \in Threads, Evaluate(th)
      PROVE  BatchComplete'
  BY <1>7, RolloutAssumption
     DEF Evaluate, Answer, Go, BatchComplete, HandedOver, TypeOK, Threads
<1>8. ASSUME NEW th \in Threads, ClearCache(th)
      PROVE  BatchComplete'
  BY <1>8, RolloutAssumption
     DEF ClearCache, Answer, Go, BatchComplete, HandedOver, TypeOK, Threads
<1>9. ASSUME NEW th \in Threads, RaiseStop(th)
      PROVE  BatchComplete'
  BY <1>9, RolloutAssumption DEF RaiseStop, Go, BatchComplete, HandedOver, TypeOK, Threads
<1>10. ASSUME NEW th \in Threads, PostRollingPost(th)
      PROVE  BatchComplete'
  BY <1>10, RolloutAssumption
     DEF PostRollingPost, Go, BatchComplete, HandedOver, TypeOK, Threads
<1>11. ASSUME NEW th \in Threads, Preview(th)
      PROVE  BatchComplete'
  BY <1>11, RolloutAssumption DEF Preview, Go, BatchComplete, HandedOver, TypeOK, Threads
<1>12. CASE SkipPreview
  BY <1>12, RolloutAssumption
     DEF SkipPreview, Go, BatchComplete, HandedOver, TypeOK, Threads
<1>13. CASE Shutdown
  BY <1>13, RolloutAssumption DEF Shutdown, Go, BatchComplete, HandedOver, TypeOK, Threads
<1>14. CASE Collect
  <2>1. SUFFICES ASSUME ~cleared
                 PROVE  batch' = HandedOver(made)'
    BY <1>14 DEF Collect, BatchComplete
  <2>2. \A t \in Tasks, r \in Rewards : made[t][r] = cache[t][r]
    <3> SUFFICES ASSUME NEW t \in Tasks, NEW r \in Rewards
                 PROVE  made[t][r] = cache[t][r]
      OBVIOUS
    <3>1. Pending(t, r) = {}
      BY <1>14 DEF Collect, Ended, Pending, Storing
    <3>2. Cardinality(Pending(t, r)) = 0
      BY <3>1, FS_EmptySet
    <3>3. made[t][r] = cache[t][r] + Cardinality(Pending(t, r))
      BY <1>14, <2>1 DEF Accounted, Collect
    <3>4. cache[t][r] \in Nat
      BY DEF TypeOK
    <3> QED
      BY <3>2, <3>3, <3>4
  <2>3. made = cache
    <3>1. \A t \in Tasks : made[t] = cache[t]
      BY <2>2 DEF TypeOK
    <3> QED
      BY <3>1 DEF TypeOK
  <2>4. batch' = HandedOver(cache) /\ made' = made /\ method' = method
    BY <1>14 DEF Collect
  <2> QED
    BY <2>3, <2>4 DEF HandedOver, FilterDummy, AllEqual
<1>15. ASSUME NEW c \in Clients, ListChanges(c)
      PROVE  BatchComplete'
  BY <1>15, RolloutAssumption
     DEF ListChanges, Go, BatchComplete, HandedOver, TypeOK, Threads
<1>16. CASE UNCHANGED vars
  BY <1>16 DEF vars, BatchComplete, HandedOver, TypeOK, Threads
<1> QED
  BY <1>1, <1>2, <1>3, <1>4, <1>5, <1>6, <1>7, <1>8, <1>9, <1>10,
     <1>11, <1>12, <1>13, <1>14, <1>15, <1>16
     DEF Next, WorkerStep, MainStep, Condition, Threads

-----------------------------------------------------------------------------
(* Counting: a dictionary to which trackers are added meets what it met *)

\* A union over a finite set of indices of finite sets is finite.
LEMMA FiniteUnion ==
  ASSUME NEW f, NEW S, IsFiniteSet(S), \A x \in S : IsFiniteSet(f[x])
  PROVE  IsFiniteSet(UNION {f[x] : x \in S})
<1> DEFINE T == {f[x] : x \in S}
<1>1. [x \in S |-> f[x]] \in Surjection(S, T)
  BY DEF Surjection
<1>2. IsFiniteSet(T)
  BY <1>1, FS_Surjection
<1> QED
  BY <1>2, FS_UNION

LEMMA CopiesFinite ==
  ASSUME NEW bag \in [Rewards -> Nat]
  PROVE  IsFiniteSet(Copies(bag)) /\ Size(bag) \in Nat
<1> DEFINE f == [r \in Rewards |-> {r} \X (1..bag[r])]
<1>1. ASSUME NEW r \in Rewards
      PROVE  IsFiniteSet(f[r])
  <2>1. IsFiniteSet({r}) /\ IsFiniteSet(1..bag[r])
    <3>1. bag[r] \in Nat
      OBVIOUS
    <3>2. IsFiniteSet(1..bag[r])
      BY <3>1, FS_Interval
    <3> QED
      BY <3>2, FS_Singleton, Zenon
  <2> QED
    BY <2>1, FS_Product
<1>2. IsFiniteSet(UNION {f[r] : r \in Rewards})
  <2> HIDE DEF f
  <2> QED
    BY <1>1, FiniteUnion, RolloutAssumption, Zenon
<1>3. Copies(bag) = UNION {f[r] : r \in Rewards}
  BY DEF Copies
<1> QED
  BY <1>2, <1>3, FS_CardinalityType DEF Size

LEMMA TotalFinite ==
  ASSUME NEW m \in [Tasks -> [Rewards -> Nat]]
  PROVE  IsFiniteSet(UNION {{t} \X Copies(m[t]) : t \in Tasks}) /\ Total(m) \in Nat
<1> DEFINE f == [t \in Tasks |-> {t} \X Copies(m[t])]
<1>1. ASSUME NEW t \in Tasks
      PROVE  IsFiniteSet(f[t])
  <2>1. IsFiniteSet({t}) /\ IsFiniteSet(Copies(m[t]))
    BY FS_Singleton, CopiesFinite
  <2> QED
    BY <2>1, FS_Product
<1>2. IsFiniteSet(UNION {f[t] : t \in Tasks})
  <2> HIDE DEF f
  <2> QED
    BY <1>1, FiniteUnion, RolloutAssumption, Zenon
<1>3. UNION {{t} \X Copies(m[t]) : t \in Tasks} = UNION {f[t] : t \in Tasks}
  OBVIOUS
<1> QED
  BY <1>2, <1>3, FS_CardinalityType DEF Total

\* big holds at least what small holds.
Within(small, big) == \A t \in Tasks, r \in Rewards : small[t][r] =< big[t][r]

LEMMA CopiesGrow ==
  ASSUME NEW small \in [Rewards -> Nat], NEW big \in [Rewards -> Nat],
         \A r \in Rewards : small[r] =< big[r]
  PROVE  Copies(small) \subseteq Copies(big)
<1>1. ASSUME NEW r \in Rewards
      PROVE  {r} \X (1..small[r]) \subseteq {r} \X (1..big[r])
  <2>1. small[r] \in Nat /\ big[r] \in Nat /\ small[r] =< big[r]
    OBVIOUS
  <2>2. 1..small[r] \subseteq 1..big[r]
    BY <2>1
  <2> QED
    BY <2>2
<1> QED
  BY <1>1 DEF Copies

LEMMA SizeGrows ==
  ASSUME NEW small \in [Rewards -> Nat], NEW big \in [Rewards -> Nat],
         \A r \in Rewards : small[r] =< big[r]
  PROVE  Size(small) =< Size(big)
BY CopiesGrow, CopiesFinite, FS_Subset DEF Size

LEMMA TotalGrows ==
  ASSUME NEW small \in [Tasks -> [Rewards -> Nat]], NEW big \in [Tasks -> [Rewards -> Nat]],
         Within(small, big)
  PROVE  Total(small) =< Total(big)
<1>1. ASSUME NEW t \in Tasks
      PROVE  Copies(small[t]) \subseteq Copies(big[t])
  BY CopiesGrow DEF Within
<1>2. UNION {{t} \X Copies(small[t]) : t \in Tasks} \subseteq UNION {{t} \X Copies(big[t]) : t \in Tasks}
  BY <1>1
<1> QED
  BY <1>2, TotalFinite, FS_Subset DEF Total

LEMMA DifferGrows ==
  ASSUME NEW small \in [Rewards -> Nat], NEW big \in [Rewards -> Nat],
         \A r \in Rewards : small[r] =< big[r], ~AllEqual(small)
  PROVE  ~AllEqual(big)
<1> DEFINE Positive(b) == {r \in Rewards : b[r] > 0}
<1>1. Positive(small) \subseteq Positive(big)
  OBVIOUS
<1>2. IsFiniteSet(Positive(big)) /\ Cardinality(Positive(big)) \in Nat
  BY RolloutAssumption, FS_Subset, FS_CardinalityType
<1>3. Cardinality(Positive(small)) =< Cardinality(Positive(big)) /\ IsFiniteSet(Positive(small))
  BY <1>1, <1>2, FS_Subset
<1>4. Cardinality(Positive(small)) \in Nat
  BY <1>3, FS_CardinalityType
<1> QED
  BY <1>2, <1>3, <1>4 DEF AllEqual

LEMMA CompletedGrows ==
  ASSUME NEW small \in [Tasks -> [Rewards -> Nat]], NEW big \in [Tasks -> [Rewards -> Nat]],
         Within(small, big)
  PROVE  Completed(small) \subseteq Completed(big) /\ NonDummy(small) \subseteq NonDummy(big)
<1>1. ASSUME NEW t \in Tasks
      PROVE  /\ Size(small[t]) >= RolloutN => Size(big[t]) >= RolloutN
             /\ ~AllEqual(small[t]) => ~AllEqual(big[t])
  <2>1. \A r \in Rewards : small[t][r] =< big[t][r]
    BY DEF Within
  <2>2. Size(small[t]) =< Size(big[t])
    BY <2>1, SizeGrows
  <2>3. Size(small[t]) \in Nat /\ Size(big[t]) \in Nat
    BY CopiesFinite
  <2>4. ~AllEqual(small[t]) => ~AllEqual(big[t])
    BY <2>1, DifferGrows
  <2> QED
    BY <2>2, <2>3, <2>4, RolloutAssumption
<1> QED
  BY <1>1 DEF Completed, NonDummy

\* A counting condition that is met stays met when trackers are added.
LEMMA MetGrows ==
  ASSUME NEW small \in [Tasks -> [Rewards -> Nat]], NEW big \in [Tasks -> [Rewards -> Nat]],
         Within(small, big), method \in CountingMethods, NEW s, Met(small, s), NEW r
  PROVE  Met(big, r)
<1> DEFINE Few(S) == Cardinality(S) \in Nat
<1>1. Total(small) \in Nat /\ Total(big) \in Nat /\ Total(small) =< Total(big)
  BY TotalFinite, TotalGrows
<1>2. Few(Completed(small)) /\ Few(Completed(big)) /\ IsFiniteSet(Completed(big))
  <2>1. Completed(small) \subseteq Tasks /\ Completed(big) \subseteq Tasks
    BY DEF Completed
  <2> QED
    BY <2>1, RolloutAssumption, FS_Subset, FS_CardinalityType
<1>3. Few(NonDummy(small)) /\ Few(NonDummy(big)) /\ IsFiniteSet(NonDummy(big))
  <2>1. NonDummy(small) \subseteq Tasks /\ NonDummy(big) \subseteq Tasks
    BY DEF Completed, NonDummy
  <2> QED
    BY <2>1, RolloutAssumption, FS_Subset, FS_CardinalityType
<1>4. /\ Cardinality(Completed(small)) =< Cardinality(Completed(big))
      /\ Cardinality(NonDummy(small)) =< Cardinality(NonDummy(big))
  BY <1>2, <1>3, CompletedGrows, FS_Subset
<1>5. BatchTasks \in Nat /\ BatchTasks * RolloutN \in Nat
  BY RolloutAssumption
<1>6. CASE method = "enough_episodes"
  BY <1>1, <1>5, <1>6 DEF Met
<1>7. CASE method = "enough_tasks"
  BY <1>2, <1>4, <1>5, <1>7 DEF Met
<1>8. CASE method = "enough_non_dummy_tasks"
  BY <1>3, <1>4, <1>5, <1>8 DEF Met
<1> QED
  BY <1>6, <1>7, <1>8 DEF CountingMethods

\* Two trackers of different rewards are two trackers.
LEMMA DifferIsTwo ==
  ASSUME NEW bag \in [Rewards -> Nat], ~AllEqual(bag)
  PROVE  Size(bag) >= 2
<1> DEFINE Positive == {r \in Rewards : bag[r] > 0}
<1>1. IsFiniteSet(Positive) /\ Cardinality(Positive) \in Nat
  BY RolloutAssumption, FS_Subset, FS_CardinalityType
<1>2. Cardinality(Positive) >= 2
  BY <1>1 DEF AllEqual
<1>3. PICK r \in Positive, q \in Positive : r # q
  <2>1. Positive # {}
    BY <1>2, FS_EmptySet
  <2>2. PICK r \in Positive : TRUE
    BY <2>1
  <2>3. Positive # {r}
    <3>1. Cardinality({r}) = 1
      BY FS_Singleton, Zenon
    <3> HIDE DEF Positive
    <3> QED
      BY <1>2, <3>1
  <2> QED
    BY <2>2, <2>3
<1>4. {<<r, 1>>, <<q, 1>>} \subseteq Copies(bag)
  <2>1. \A x \in Positive : 1 \in 1..bag[x]
    OBVIOUS
  <2>2. \A x \in Positive : <<x, 1>> \in {x} \X (1..bag[x])
    BY <2>1
  <2> QED
    BY <1>3, <2>2 DEF Copies
<1>5. Cardinality({<<r, 1>>, <<q, 1>>}) = 2 /\ IsFiniteSet({<<r, 1>>, <<q, 1>>})
  <2>1. {<<r, 1>>, <<q, 1>>} = {<<r, 1>>} \cup {<<q, 1>>} /\ <<q, 1>> \notin {<<r, 1>>}
    BY <1>3
  <2>2. IsFiniteSet({<<r, 1>>}) /\ Cardinality({<<r, 1>>}) = 1
    BY FS_Singleton, Zenon
  <2>3. /\ IsFiniteSet({<<r, 1>>} \cup {<<q, 1>>})
        /\ Cardinality({<<r, 1>>} \cup {<<q, 1>>}) = Cardinality({<<r, 1>>}) + 1
    BY <2>1, <2>2, FS_AddElement, Zenon
  <2> QED
    BY <2>1, <2>2, <2>3
<1> QED
  BY <1>4, <1>5, CopiesFinite, FS_Subset DEF Size

\* Dropping the dummy tasks drops no task that counts.
LEMMA FilterKeepsCounted ==
  ASSUME NEW m \in [Tasks -> [Rewards -> Nat]]
  PROVE  NonDummy(m) \subseteq NonDummy(FilterDummy(m))
<1> SUFFICES ASSUME NEW t \in NonDummy(m)
             PROVE  t \in NonDummy(FilterDummy(m))
  OBVIOUS
<1>1. t \in Tasks /\ Size(m[t]) >= RolloutN /\ ~AllEqual(m[t]) /\ m[t] \in [Rewards -> Nat]
  BY DEF NonDummy, Completed
<1>2. ~(Size(m[t]) < 2)
  BY <1>1, DifferIsTwo, CopiesFinite
<1>3. FilterDummy(m)[t] = m[t]
  BY <1>1, <1>2 DEF FilterDummy
<1> QED
  BY <1>1, <1>3 DEF NonDummy, Completed

LEMMA HandedOverMeets ==
  ASSUME NEW m \in [Tasks -> [Rewards -> Nat]], NEW s, Met(m, s), method \in CountingMethods
  PROVE  Met(HandedOver(m), s)
<1>1. CASE method # "enough_non_dummy_tasks"
  BY <1>1 DEF HandedOver
<1>2. CASE method = "enough_non_dummy_tasks"
  <2> DEFINE kept == NonDummy(FilterDummy(m))
  <2>1. kept \subseteq Tasks
    BY DEF NonDummy, Completed
  <2>2. IsFiniteSet(kept) /\ Cardinality(kept) \in Nat
    BY <2>1, RolloutAssumption, FS_Subset, FS_CardinalityType
  <2>3. Cardinality(NonDummy(m)) =< Cardinality(kept) /\ IsFiniteSet(NonDummy(m))
    BY <2>2, FilterKeepsCounted, FS_Subset
  <2>4. Cardinality(NonDummy(m)) \in Nat
    BY <2>3, FS_CardinalityType
  <2>5. Cardinality(NonDummy(m)) >= BatchTasks
    BY <1>2 DEF Met
  <2> HIDE DEF kept
  <2>6. Cardinality(kept) >= BatchTasks
    BY <2>2, <2>3, <2>4, <2>5, RolloutAssumption
  <2>7. HandedOver(m) = FilterDummy(m)
    BY <1>2 DEF HandedOver
  <2> QED
    BY <1>2, <2>6, <2>7 DEF Met, kept
<1> QED
  BY <1>1, <1>2

-----------------------------------------------------------------------------
(* The batch meets the condition *)

Ending == {"raise", "post", "shutdown", "collect"}

\* Once the main thread has found the condition met, what the dictionary holds goes on
\* to meet it.
Decided ==
  pc[Main] \in Ending /\ ~cleared /\ method \in CountingMethods => Met(cache, seen)

LEMMA WithinSelf ==
  ASSUME NEW m \in [Tasks -> [Rewards -> Nat]]
  PROVE  Within(m, m)
<1> SUFFICES ASSUME NEW t \in Tasks, NEW r \in Rewards
             PROVE  m[t][r] =< m[t][r]
  BY DEF Within
<1>1. m[t][r] \in Nat
  OBVIOUS
<1> QED
  BY <1>1

LEMMA DecidedStays ==
  ASSUME TypeOK, TypeOK', Decided, Within(cache, cache'), method' = method, cleared' = cleared,
         pc'[Main] \in Ending => pc[Main] \in Ending \/ Met(cache, seen)
  PROVE  Decided'
<1> SUFFICES ASSUME pc'[Main] \in Ending, ~cleared, method \in CountingMethods
             PROVE  Met(cache, seen)'
  BY DEF Decided
<1>1. Met(cache, seen)
  BY DEF Decided
<1>2. cache \in [Tasks -> [Rewards -> Nat]] /\ cache' \in [Tasks -> [Rewards -> Nat]]
  BY DEF TypeOK
<1>3. Met(cache', seen')
  BY <1>1, <1>2, MetGrows
<1> QED
  BY <1>3 DEF Met

\* What a step leaves of where the main thread is
LEMMA OthersGo ==
  ASSUME TypeOK, NEW w \in Workers, NEW to, Go(w, to)
  PROVE  pc'[Main] = pc[Main]
BY RolloutAssumption DEF Go, TypeOK, Threads

LEMMA MainGoes ==
  ASSUME TypeOK, NEW to, Go(Main, to)
  PROVE  pc'[Main] = to
BY DEF Go, TypeOK, Threads

\* The main thread enters the end of the rollout only when it finds the condition met.
LEMMA EndingEntered ==
  ASSUME TypeOK, [Next]_vars, pc'[Main] \in Ending, pc[Main] \notin Ending
  PROVE  Met(cache, seen) \/ cleared'
<1>1. ASSUME NEW w \in Workers, WorkerStep(w)
      PROVE  FALSE
  <2>1. \E to : Go(w, to)
    BY <1>1 DEF WorkerStep, LoopTop, Look, Write, WriteFails, EndWithout, EndWith, Condition,
                Evaluate, Answer, ClearCache, RaiseStop, PostRollingPost, Preview
  <2> QED
    BY <2>1, OthersGo
<1>2. CASE MainStep
  <2>1. CASE Evaluate(Main)
    <3>1. CASE Overfull
      <4>1. pc'[Main] = "clear"
        BY <2>1, <3>1, MainGoes DEF Evaluate
      <4> QED
        BY <4>1 DEF Ending
    <3>2. CASE ~Overfull /\ ~Met(cache, seen)
      <4>1. pc'[Main] = "preview"
        BY <2>1, <3>2, MainGoes DEF Evaluate, Answer
      <4> QED
        BY <4>1 DEF Ending
    <3> QED
      BY <3>1, <3>2
  <2>2. CASE ClearCache(Main)
    BY <2>2 DEF ClearCache
  <2>3. CASE RaiseStop(Main) \/ PostRollingPost(Main) \/ Shutdown \/ Collect
    BY <2>3 DEF RaiseStop, PostRollingPost, Shutdown, Collect, Ending
  <2>4. CASE Preview(Main) \/ SkipPreview
    <3>1. pc'[Main] = "check"
      BY <2>4, MainGoes DEF Preview, SkipPreview
    <3> QED
      BY <3>1 DEF Ending
  <2> QED
    BY <1>2, <2>1, <2>2, <2>3, <2>4 DEF MainStep, Condition
<1>3. ASSUME NEW c \in Clients, ListChanges(c)
      PROVE  FALSE
  BY <1>3 DEF ListChanges
<1>4. CASE UNCHANGED vars
  BY <1>4 DEF vars
<1> QED
  BY <1>1, <1>2, <1>3, <1>4 DEF Next

\* Unless the dictionary is cleared or handed over, a step only adds to it.
LEMMA CacheGrows ==
  ASSUME TypeOK, Locked, [Next]_vars, ~cleared', pc'[Main] # "done"
  PROVE  Within(cache, cache') /\ cleared' = cleared
<1>1. ASSUME NEW w \in Workers, Write(w)
      PROVE  Within(cache, cache') /\ cleared' = cleared
  <2>1. cleared' = cleared /\ pc[w] = "write"
    BY <1>1 DEF Write
  <2>2. result[w] \in Trackers /\ known = cache[result[w].task]
    BY <2>1 DEF Locked
  <2>3. cache' = [cache EXCEPT ![result[w].task] = [known EXCEPT ![result[w].reward] = @ + 1]]
    BY <1>1 DEF Write
  <2> SUFFICES ASSUME NEW t \in Tasks, NEW r \in Rewards
               PROVE  cache[t][r] =< cache'[t][r]
    BY <2>1 DEF Within
  <2>4. cache[t][r] \in Nat
    BY DEF TypeOK
  <2>5. cache'[t][r] \in {cache[t][r], cache[t][r] + 1}
    BY <2>2, <2>3 DEF TypeOK, Trackers
  <2> QED
    BY <2>4, <2>5
<1>2. CASE cache' = cache /\ cleared' = cleared
  BY <1>2, WithinSelf DEF TypeOK
<1>3. ASSUME NEW th \in Threads, ClearCache(th)
      PROVE  FALSE
  BY <1>3 DEF ClearCache
<1>4. CASE Collect
  BY <1>4, MainGoes DEF Collect
<1>5. ASSUME NEW w \in Workers, WorkerStep(w), ~Write(w), ~ClearCache(w)
      PROVE  cache' = cache /\ cleared' = cleared
  BY <1>5 DEF WorkerStep, LoopTop, Look, WriteFails, EndWithout, EndWith, Condition,
              Evaluate, RaiseStop, PostRollingPost, Preview
<1>6. ASSUME MainStep, ~ClearCache(Main), ~Collect
      PROVE  cache' = cache /\ cleared' = cleared
  BY <1>6 DEF MainStep, Condition, Evaluate, RaiseStop, PostRollingPost, Preview, SkipPreview,
              Shutdown
<1>7. ASSUME NEW c \in Clients, ListChanges(c)
      PROVE  cache' = cache /\ cleared' = cleared
  BY <1>7 DEF ListChanges
<1>8. CASE UNCHANGED vars
  BY <1>2, <1>8 DEF vars
<1> QED
  BY <1>1, <1>2, <1>3, <1>4, <1>5, <1>6, <1>7, <1>8 DEF Next, Threads

LEMMA MethodStays ==
  ASSUME [Next]_vars
  PROVE  method' = method
BY DEF Next, WorkerStep, MainStep, Condition, LoopTop, Look, Write, WriteFails, EndWithout,
       EndWith, Evaluate, ClearCache, RaiseStop, PostRollingPost, Preview, SkipPreview,
       Shutdown, Collect, ListChanges, vars

LEMMA DecidedKept ==
  ASSUME TypeOK, TypeOK', Locked, Decided, [Next]_vars
  PROVE  Decided'
<1>1. CASE cleared' \/ pc'[Main] \notin Ending
  BY <1>1 DEF Decided
<1>2. CASE ~cleared' /\ pc'[Main] \in Ending
  <2>1. Within(cache, cache') /\ cleared' = cleared
    BY <1>2, CacheGrows DEF Ending
  <2>2. pc[Main] \in Ending \/ Met(cache, seen)
    BY <1>2, EndingEntered
  <2> QED
    BY <2>1, <2>2, MethodStays, DecidedStays
<1> QED
  BY <1>1, <1>2

\* The batch is set when it is handed over, and stays as it is.
LEMMA BatchSet ==
  ASSUME TypeOK, Ended, [Next]_vars, pc'[Main] = "done", ~cleared'
  PROVE  \/ pc[Main] = "collect" /\ ~cleared /\ batch' = HandedOver(cache) /\ seen' = seen
         \/ pc[Main] = "done" /\ ~cleared /\ batch' = batch
<1>1. ASSUME NEW w \in Workers, WorkerStep(w)
      PROVE  pc[Main] # "done"
  BY <1>1 DEF Ended, WorkerStep, LoopTop, Look, Write, WriteFails, EndWithout,
       EndWith, Condition, Evaluate, ClearCache, RaiseStop, PostRollingPost, Preview
<1>2. ASSUME NEW w \in Workers, WorkerStep(w)
      PROVE  FALSE
  <2>1. \E to : Go(w, to)
    BY <1>2 DEF WorkerStep, LoopTop, Look, Write, WriteFails, EndWithout, EndWith, Condition,
                Evaluate, Answer, ClearCache, RaiseStop, PostRollingPost, Preview
  <2> QED
    BY <1>1, <1>2, <2>1, OthersGo
<1>3. CASE Collect
  BY <1>3 DEF Collect
<1>4. CASE Condition(Main) \/ SkipPreview \/ Shutdown
  <2>1. \E to : to # "done" /\ Go(Main, to)
    BY <1>4 DEF Condition, Evaluate, Answer, ClearCache, RaiseStop, PostRollingPost, Preview,
                SkipPreview, Shutdown
  <2> QED
    BY <2>1, MainGoes
<1>5. ASSUME NEW c \in Clients, ListChanges(c)
      PROVE  pc[Main] = "done" /\ ~cleared /\ batch' = batch
  BY <1>5 DEF ListChanges
<1>6. CASE UNCHANGED vars
  BY <1>6 DEF vars
<1> QED
  BY <1>2, <1>3, <1>4, <1>5, <1>6 DEF Next, MainStep

LEMMA MeetsKept ==
  ASSUME TypeOK, Ended, Decided, BatchMeetsCondition, [Next]_vars
  PROVE  BatchMeetsCondition'
<1> SUFFICES ASSUME pc'[Main] = "done", ~cleared', method' \in CountingMethods
             PROVE  Met(batch, seen)'
  BY DEF BatchMeetsCondition
<1>1. method' = method
  BY MethodStays
<1>2. CASE pc[Main] = "collect" /\ ~cleared /\ batch' = HandedOver(cache) /\ seen' = seen
  <2>1. Met(cache, seen)
    BY <1>1, <1>2 DEF Decided, Ending
  <2>2. Met(HandedOver(cache), seen)
    BY <1>1, <2>1, HandedOverMeets DEF TypeOK
  <2> QED
    BY <1>1, <1>2, <2>2 DEF Met
<1>3. CASE pc[Main] = "done" /\ ~cleared /\ batch' = batch
  <2>1. Met(batch, seen)
    BY <1>1, <1>3 DEF BatchMeetsCondition
  <2>2. Met(batch, seen')
    BY <1>1, <2>1, WithinSelf, MetGrows DEF TypeOK
  <2> QED
    BY <1>1, <1>3, <2>2 DEF Met
<1> QED
  BY <1>2, <1>3, BatchSet

-----------------------------------------------------------------------------
(* The theorems *)

IInv ==
  TypeOK /\ Locked /\ Ended /\ Accounted /\ BatchComplete /\ Decided /\ BatchMeetsCondition

LEMMA InitIInv == Init => IInv
<1> SUFFICES ASSUME Init PROVE IInv
  OBVIOUS
<1>1. TypeOK
  BY RolloutAssumption
     DEF Init, TypeOK, WorkerPC, MainPC, Threads, Empty, Nothing, NoTracker, Nobody, Trackers
<1>2. Locked
  BY RolloutAssumption DEF Init, Locked, Threads
<1>3. Ended
  BY DEF Init, Ended, Threads
<1>4. Accounted
  <2> SUFFICES ASSUME NEW t \in Tasks, NEW r \in Rewards
               PROVE  made[t][r] = cache[t][r] + Cardinality(Pending(t, r))
    BY DEF Accounted
  <2>1. Pending(t, r) = {}
    BY RolloutAssumption DEF Init, Pending, Storing, Threads
  <2>2. Cardinality(Pending(t, r)) = 0
    BY <2>1, FS_EmptySet
  <2>3. made[t][r] = 0 /\ cache[t][r] = 0
    BY DEF Init, Nothing, Empty
  <2> QED
    BY <2>2, <2>3
<1>5. BatchComplete
  BY DEF Init, BatchComplete, Threads
<1>6. Decided /\ BatchMeetsCondition
  BY DEF Init, Decided, Ending, BatchMeetsCondition, Threads
<1> QED
  BY <1>1, <1>2, <1>3, <1>4, <1>5, <1>6 DEF IInv

LEMMA NextIInv == IInv /\ [Next]_vars => IInv'
BY TypeKept, LockedKept, EndedKept, AccountedKept, CompleteKept, DecidedKept, MeetsKept DEF IInv

\* The invariant holds in every state of every rollout.
THEOREM Invariance == Spec => []IInv
BY InitIInv, NextIInv, PTL DEF Spec

\* Every variable keeps its type: rollout_swarm and its workers never leave the states
\* they are written for, whatever the order of their steps.
THEOREM TypeCorrect == Spec => []TypeOK
<1>1. IInv => TypeOK
  BY DEF IInv
<1> QED
  BY <1>1, Invariance, PTL

\* No tracker is lost between the workers and the batch, and none is counted twice, for
\* every number of workers and every stop condition, unless the dictionary was cleared.
THEOREM BatchIsComplete == Spec => []BatchComplete
<1>1. IInv => BatchComplete
  BY DEF IInv
<1> QED
  BY <1>1, Invariance, PTL

\* The batch that is trained on meets the condition that ended the rollout: what workers
\* add after the main thread's count, and the dummy tasks dropped from the batch, take
\* nothing away from it, unless the dictionary was cleared.
THEOREM BatchMeets == Spec => []BatchMeetsCondition
<1>1. IInv => BatchMeetsCondition
  BY DEF IInv
<1> QED
  BY <1>1, Invariance, PTL

\* No worker evaluates, stores or posts any more once the server was told WEIGHT_SYNCING.
THEOREM NobodyAfterSyncing == Spec => []SyncingIsFinal
<1>1. IInv => SyncingIsFinal
  <2> SUFFICES ASSUME IInv, status = "ENGINE.WEIGHT_SYNCING", NEW w \in Workers
               PROVE  pc[w] \notin {"episode", "store", "write", "raise", "post"}
    BY DEF SyncingIsFinal
  <2>1. pc[w] \in {"gone", "dead"}
    BY DEF IInv, Ended
  <2> QED
    BY <2>1
<1> QED
  BY <1>1, Invariance, PTL

==============================================================================
