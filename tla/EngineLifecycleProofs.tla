------------------------- MODULE EngineLifecycleProofs -------------------------
(***************************************************************************)
(* Theorems about EngineLifecycle, for any number of clients and of runs   *)
(* of the trainer.                                                         *)
(***************************************************************************)
EXTENDS EngineLifecycle, FiniteSetTheorems, TLAPS

-----------------------------------------------------------------------------
(* The inductive invariant *)

\* A trainer whose report of the end is under way trains no more.
Reports == \A r \in Runs : Offline \in posts[r] => ~Training(r)

\* A status of the cycle that the latest run has reported is followed by the report of
\* its end, if the run has ended.
Follows ==
  \A r \in Runs : latest = r /\ posts[r] \cap Cycle # {} => Training(r) \/ Offline \in posts[r]

\* Who trains was started last, with the configuration that is still there, and is not
\* thought to be offline.
Owned ==
  \A r \in Runs : Training(r) =>
    /\ latest = r
    /\ job[r] = config
    /\ engine_status # Offline

\* While start_engine waits, the engine is not offline, and the run it has started is
\* there or about to report its end, unless the launch has failed.
Begun ==
  \A r \in starting :
    /\ engine_status # Offline
    /\ latest = r \/ latest = "failed"
    /\ latest = r => Training(r) \/ Offline \in posts[r]

Truthful ==
  engine_status # Offline /\ latest # "failed" =>
    \E r \in Runs : Training(r) \/ phase[r] = "failing" \/ Offline \in posts[r]

Orderly == ~stray => Follows /\ Owned /\ Begun /\ Truthful

IInv == TypeOK /\ Reports /\ Orderly

-----------------------------------------------------------------------------
(* Every step keeps every part of the invariant *)

LEMMA TypeKept ==
  ASSUME TypeOK, [Next]_vars
  PROVE  TypeOK'
<1>1. ASSUME NEW c \in Clients, SyncTrainConfig(c)
      PROVE  TypeOK'
  BY <1>1, EngineAssumption
     DEF SyncTrainConfig, MayStart, TypeOK, Statuses, Phases, Cycle, Offline, Booting
<1>2. CASE StartFails
  BY <1>2, EngineAssumption
     DEF StartFails, MayStart, TypeOK, Statuses, Phases, Cycle, Offline, Booting
<1>3. ASSUME NEW r \in Runs, StartEngine(r)
      PROVE  TypeOK'
  BY <1>3, EngineAssumption
     DEF StartEngine, MayStart, TypeOK, Statuses, Phases, Cycle, Offline, Booting
<1>4. CASE StopEngine
  <2>1. CASE pid # NoRun /\ phase[pid] # "absent"
    <3>1. pid \in Runs
      BY <2>1 DEF TypeOK
    <3>2. PICK late \in SUBSET (posts[pid] \cup {Offline}) :
            posts' = [posts EXCEPT ![pid] = late]
      BY <1>4, <2>1 DEF StopEngine
    <3>3. late \subseteq Statuses \ {Booting}
      BY <3>1, <3>2 DEF TypeOK, Statuses, Cycle, Offline, Booting
    <3>4. posts' \in [Runs -> SUBSET (Statuses \ {Booting})]
      BY <3>1, <3>2, <3>3 DEF TypeOK
    <3>5. phase' \in [Runs -> Phases]
      BY <1>4, <2>1 DEF StopEngine, Missed, TypeOK, Phases
    <3> QED
      BY <1>4, <3>4, <3>5 DEF StopEngine, Missed, TypeOK, Statuses
  <2>2. CASE ~ (pid # NoRun /\ phase[pid] # "absent")
    BY <1>4, <2>2 DEF StopEngine, Missed, TypeOK, Statuses
  <2> QED
    BY <2>1, <2>2
<1>5. ASSUME NEW r \in Runs, StartReturns(r)
      PROVE  TypeOK'
  BY <1>5, EngineAssumption
     DEF StartReturns, TypeOK, Statuses, Phases, Cycle, Offline, Booting
<1>6. ASSUME NEW r \in Runs, NEW status \in Statuses, UpdateEngineStatus(r, status)
      PROVE  TypeOK'
  BY <1>6, EngineAssumption
     DEF UpdateEngineStatus, TypeOK, Statuses, Phases, Cycle, Offline, Booting
<1>7. ASSUME NEW r \in Runs, Advance(r)
      PROVE  TypeOK'
  <2>1. NextPhase(phase[r]) \in Cycle
    BY <1>7 DEF Advance, Training, NextPhase, Cycle, Booting
  <2>2. phase' \in [Runs -> Phases] /\ posts' \in [Runs -> SUBSET (Statuses \ {Booting})]
    BY <1>7, <2>1 DEF Advance, TypeOK, Phases, Statuses, Cycle, Offline, Booting
  <2> QED
    BY <1>7, <2>2 DEF Advance, TypeOK
<1>8. ASSUME NEW r \in Runs, Finish(r)
      PROVE  TypeOK'
  BY <1>8, EngineAssumption DEF Finish, TypeOK, Statuses, Phases, Cycle, Offline, Booting
<1>9. ASSUME NEW r \in Runs, TrainerFails(r)
      PROVE  TypeOK'
  BY <1>9, EngineAssumption
     DEF TrainerFails, TypeOK, Statuses, Phases, Cycle, Offline, Booting
<1>10. ASSUME NEW r \in Runs, WrapperReports(r)
      PROVE  TypeOK'
  BY <1>10, EngineAssumption
     DEF WrapperReports, TypeOK, Statuses, Phases, Cycle, Offline, Booting
<1>11. ASSUME NEW r \in Runs, LaunchFails(r)
      PROVE  TypeOK'
  BY <1>11, EngineAssumption
     DEF LaunchFails, TypeOK, Statuses, Phases, Cycle, Offline, Booting
<1>12. ASSUME NEW r \in Runs, RunExits(r)
      PROVE  TypeOK'
  BY <1>12, EngineAssumption DEF RunExits, TypeOK, Statuses, Phases, Cycle, Offline, Booting
<1>13. CASE UNCHANGED vars
  BY <1>13 DEF vars, TypeOK, Statuses, Phases, Cycle, Offline, Booting
<1>14. ASSUME NEW r \in Runs, StartBreaksOff(r)
       PROVE  TypeOK'
  BY <1>14 DEF StartBreaksOff, TypeOK
<1> QED
  BY <1>1, <1>2, <1>3, <1>4, <1>5, <1>6, <1>7, <1>8, <1>9, <1>10,
     <1>11, <1>12, <1>13, <1>14 DEF Next, Request, RunStep

LEMMA ReportsKept ==
  ASSUME TypeOK, Reports, [Next]_vars
  PROVE  Reports'
<1>1. ASSUME NEW c \in Clients, SyncTrainConfig(c)
      PROVE  Reports'
  BY <1>1, EngineAssumption
     DEF SyncTrainConfig, MayStart, Reports, Training, TypeOK, Statuses, Phases, Cycle, Offline, Booting
<1>2. CASE StartFails
  BY <1>2, EngineAssumption
     DEF StartFails, MayStart, Reports, Training, TypeOK, Statuses, Phases, Cycle, Offline, Booting
<1>3. ASSUME NEW r \in Runs, StartEngine(r)
      PROVE  Reports'
  BY <1>3, EngineAssumption
     DEF StartEngine, MayStart, Reports, Training, TypeOK, Statuses, Phases, Cycle, Offline, Booting
<1>4. CASE StopEngine
  BY <1>4, EngineAssumption
     DEF StopEngine, Missed, Reports, Training, TypeOK, Statuses, Phases, Cycle, Offline, Booting
<1>5. ASSUME NEW r \in Runs, StartReturns(r)
      PROVE  Reports'
  BY <1>5, EngineAssumption
     DEF StartReturns, Reports, Training, TypeOK, Statuses, Phases, Cycle, Offline, Booting
<1>6. ASSUME NEW r \in Runs, NEW status \in Statuses, UpdateEngineStatus(r, status)
      PROVE  Reports'
  BY <1>6, EngineAssumption
     DEF UpdateEngineStatus, Reports, Training, TypeOK, Statuses, Phases, Cycle, Offline, Booting
<1>7. ASSUME NEW r \in Runs, Advance(r)
      PROVE  Reports'
  BY <1>7, EngineAssumption
     DEF Advance, Reports, Training, TypeOK, Statuses, Phases, Cycle, Offline, Booting
<1>8. ASSUME NEW r \in Runs, Finish(r)
      PROVE  Reports'
  BY <1>8, EngineAssumption
     DEF Finish, Reports, Training, TypeOK, Statuses, Phases, Cycle, Offline, Booting
<1>9. ASSUME NEW r \in Runs, TrainerFails(r)
      PROVE  Reports'
  BY <1>9, EngineAssumption
     DEF TrainerFails, Reports, Training, TypeOK, Statuses, Phases, Cycle, Offline, Booting
<1>10. ASSUME NEW r \in Runs, WrapperReports(r)
      PROVE  Reports'
  BY <1>10, EngineAssumption
     DEF WrapperReports, Reports, Training, TypeOK, Statuses, Phases, Cycle, Offline, Booting
<1>11. ASSUME NEW r \in Runs, LaunchFails(r)
      PROVE  Reports'
  BY <1>11, EngineAssumption
     DEF LaunchFails, Reports, Training, TypeOK, Statuses, Phases, Cycle, Offline, Booting
<1>12. ASSUME NEW r \in Runs, RunExits(r)
      PROVE  Reports'
  BY <1>12, EngineAssumption
     DEF RunExits, Reports, Training, TypeOK, Statuses, Phases, Cycle, Offline, Booting
<1>13. CASE UNCHANGED vars
  BY <1>13 DEF vars, Reports, Training, TypeOK, Statuses, Phases, Cycle, Offline, Booting
<1>14. ASSUME NEW r \in Runs, StartBreaksOff(r)
       PROVE  Reports'
  BY <1>14 DEF StartBreaksOff, Reports, Training
<1> QED
  BY <1>1, <1>2, <1>3, <1>4, <1>5, <1>6, <1>7, <1>8, <1>9, <1>10,
     <1>11, <1>12, <1>13, <1>14 DEF Next, Request, RunStep

\* What came too late stays too late.
LEMMA WasOrderly ==
  ASSUME Orderly, [Next]_vars, ~ stray', TypeOK
  PROVE  ~ stray /\ Follows /\ Owned /\ Begun /\ Truthful
BY
   DEF Orderly, Next, Request, RunStep, vars, SyncTrainConfig, StartFails, StartEngine, StopEngine,
       StartReturns, StartBreaksOff, UpdateEngineStatus, Advance, Finish, TrainerFails, WrapperReports,
       LaunchFails, RunExits, TypeOK

LEMMA FollowsKept ==
  ASSUME TypeOK, Reports, Orderly, [Next]_vars, ~ stray'
  PROVE  Follows'
<1>1. ASSUME NEW c \in Clients, SyncTrainConfig(c)
      PROVE  Follows'
  BY <1>1, EngineAssumption, WasOrderly
     DEF SyncTrainConfig, MayStart, Follows, Training, TypeOK, Cycle, Offline, Booting
<1>2. CASE StartFails
  BY <1>2, EngineAssumption, WasOrderly
     DEF StartFails, MayStart, Follows, Training, TypeOK, Cycle, Offline, Booting
<1>3. ASSUME NEW r \in Runs, StartEngine(r)
      PROVE  Follows'
  BY <1>3, EngineAssumption, WasOrderly
     DEF StartEngine, MayStart, Follows, Training, TypeOK, Cycle, Offline, Booting
<1>4. CASE StopEngine
  BY <1>4, EngineAssumption, WasOrderly
     DEF StopEngine, Missed, Follows, Training, TypeOK, Cycle, Offline, Booting
<1>5. ASSUME NEW r \in Runs, StartReturns(r)
      PROVE  Follows'
  BY <1>5, EngineAssumption, WasOrderly
     DEF StartReturns, Follows, Training, TypeOK, Cycle, Offline, Booting
<1>6. ASSUME NEW r \in Runs, NEW status \in Statuses, UpdateEngineStatus(r, status)
      PROVE  Follows'
  BY <1>6, EngineAssumption, WasOrderly
     DEF UpdateEngineStatus, Follows, Training, TypeOK, Cycle, Offline, Booting
<1>7. ASSUME NEW r \in Runs, Advance(r)
      PROVE  Follows'
  BY <1>7, EngineAssumption, WasOrderly
     DEF Advance, Follows, Training, TypeOK, Cycle, Offline, Booting
<1>8. ASSUME NEW r \in Runs, Finish(r)
      PROVE  Follows'
  BY <1>8, EngineAssumption, WasOrderly
     DEF Finish, Follows, Training, TypeOK, Cycle, Offline, Booting
<1>9. ASSUME NEW r \in Runs, TrainerFails(r)
      PROVE  Follows'
  BY <1>9, EngineAssumption, WasOrderly
     DEF TrainerFails, Follows, Training, TypeOK, Cycle, Offline, Booting
<1>10. ASSUME NEW r \in Runs, WrapperReports(r)
      PROVE  Follows'
  BY <1>10, EngineAssumption, WasOrderly
     DEF WrapperReports, Follows, Training, TypeOK, Cycle, Offline, Booting
<1>11. ASSUME NEW r \in Runs, LaunchFails(r)
      PROVE  Follows'
  BY <1>11, EngineAssumption, WasOrderly
     DEF LaunchFails, Follows, Training, TypeOK, Cycle, Offline, Booting
<1>12. ASSUME NEW r \in Runs, RunExits(r)
      PROVE  Follows'
  BY <1>12, EngineAssumption, WasOrderly
     DEF RunExits, Follows, Training, TypeOK, Cycle, Offline, Booting
<1>13. CASE UNCHANGED vars
  BY <1>13, WasOrderly DEF vars, Follows, Training, TypeOK, Cycle, Offline, Booting
<1>14. ASSUME NEW r \in Runs, StartBreaksOff(r)
       PROVE  Follows'
  BY <1>14, WasOrderly DEF StartBreaksOff, Follows, Training
<1> QED
  BY <1>1, <1>2, <1>3, <1>4, <1>5, <1>6, <1>7, <1>8, <1>9, <1>10,
     <1>11, <1>12, <1>13, <1>14 DEF Next, Request, RunStep

LEMMA OwnedKept ==
  ASSUME TypeOK, Reports, Orderly, [Next]_vars, ~ stray'
  PROVE  Owned'
<1>1. ASSUME NEW c \in Clients, SyncTrainConfig(c)
      PROVE  Owned'
  BY <1>1, EngineAssumption, WasOrderly
     DEF SyncTrainConfig, MayStart, Owned, Training, TypeOK, Cycle, Offline, Booting
<1>2. CASE StartFails
  BY <1>2, EngineAssumption, WasOrderly
     DEF StartFails, MayStart, Owned, Training, TypeOK, Cycle, Offline, Booting
<1>3. ASSUME NEW r \in Runs, StartEngine(r)
      PROVE  Owned'
  BY <1>3, EngineAssumption, WasOrderly
     DEF StartEngine, MayStart, Owned, Training, TypeOK, Cycle, Offline, Booting
<1>4. CASE StopEngine
  BY <1>4, EngineAssumption, WasOrderly
     DEF StopEngine, Missed, Owned, Training, TypeOK, Cycle, Offline, Booting
<1>5. ASSUME NEW r \in Runs, StartReturns(r)
      PROVE  Owned'
  BY <1>5, EngineAssumption, WasOrderly
     DEF StartReturns, Owned, Training, TypeOK, Cycle, Offline, Booting
<1>6. ASSUME NEW r \in Runs, NEW status \in Statuses, UpdateEngineStatus(r, status)
      PROVE  Owned'
  <2>1. latest = r /\ r \notin starting /\ (status = Offline => posts[r] = {Offline})
    BY <1>6 DEF UpdateEngineStatus
  <2>2. status = Offline => ~Training(r)
    BY <2>1 DEF Reports
  <2> QED
    BY <1>6, <2>1, <2>2, EngineAssumption, WasOrderly
       DEF UpdateEngineStatus, Owned, Training, TypeOK, Cycle, Offline, Booting
<1>7. ASSUME NEW r \in Runs, Advance(r)
      PROVE  Owned'
  BY <1>7, EngineAssumption, WasOrderly
     DEF Advance, Owned, Training, TypeOK, Cycle, Offline, Booting
<1>8. ASSUME NEW r \in Runs, Finish(r)
      PROVE  Owned'
  BY <1>8, EngineAssumption, WasOrderly
     DEF Finish, Owned, Training, TypeOK, Cycle, Offline, Booting
<1>9. ASSUME NEW r \in Runs, TrainerFails(r)
      PROVE  Owned'
  BY <1>9, EngineAssumption, WasOrderly
     DEF TrainerFails, Owned, Training, TypeOK, Cycle, Offline, Booting
<1>10. ASSUME NEW r \in Runs, WrapperReports(r)
      PROVE  Owned'
  BY <1>10, EngineAssumption, WasOrderly
     DEF WrapperReports, Owned, Training, TypeOK, Cycle, Offline, Booting
<1>11. ASSUME NEW r \in Runs, LaunchFails(r)
      PROVE  Owned'
  BY <1>11, EngineAssumption, WasOrderly
     DEF LaunchFails, Owned, Training, TypeOK, Cycle, Offline, Booting
<1>12. ASSUME NEW r \in Runs, RunExits(r)
      PROVE  Owned'
  BY <1>12, EngineAssumption, WasOrderly
     DEF RunExits, Owned, Training, TypeOK, Cycle, Offline, Booting
<1>13. CASE UNCHANGED vars
  BY <1>13, WasOrderly DEF vars, Owned, Training, TypeOK, Cycle, Offline, Booting
<1>14. ASSUME NEW r \in Runs, StartBreaksOff(r)
       PROVE  Owned'
  BY <1>14, WasOrderly DEF StartBreaksOff, Owned, Training
<1> QED
  BY <1>1, <1>2, <1>3, <1>4, <1>5, <1>6, <1>7, <1>8, <1>9, <1>10,
     <1>11, <1>12, <1>13, <1>14 DEF Next, Request, RunStep

LEMMA BegunKept ==
  ASSUME TypeOK, Reports, Orderly, [Next]_vars, ~ stray'
  PROVE  Begun'
<1>1. ASSUME NEW c \in Clients, SyncTrainConfig(c)
      PROVE  Begun'
  BY <1>1, EngineAssumption, WasOrderly
     DEF SyncTrainConfig, MayStart, Begun, Training, TypeOK, Cycle, Offline, Booting
<1>2. CASE StartFails
  BY <1>2, EngineAssumption, WasOrderly
     DEF StartFails, MayStart, Begun, Training, TypeOK, Cycle, Offline, Booting
<1>3. ASSUME NEW r \in Runs, StartEngine(r)
      PROVE  Begun'
  BY <1>3, EngineAssumption, WasOrderly
     DEF StartEngine, MayStart, Begun, Training, TypeOK, Cycle, Offline, Booting
<1>4. CASE StopEngine
  BY <1>4, EngineAssumption, WasOrderly
     DEF StopEngine, Missed, Begun, Training, TypeOK, Cycle, Offline, Booting
<1>5. ASSUME NEW r \in Runs, StartReturns(r)
      PROVE  Begun'
  BY <1>5, EngineAssumption, WasOrderly
     DEF StartReturns, Begun, Training, TypeOK, Cycle, Offline, Booting
<1>6. ASSUME NEW r \in Runs, NEW status \in Statuses, UpdateEngineStatus(r, status)
      PROVE  Begun'
  BY <1>6, EngineAssumption, WasOrderly
     DEF UpdateEngineStatus, Begun, Training, TypeOK, Cycle, Offline, Booting
<1>7. ASSUME NEW r \in Runs, Advance(r)
      PROVE  Begun'
  BY <1>7, EngineAssumption, WasOrderly
     DEF Advance, Begun, Training, TypeOK, Cycle, Offline, Booting
<1>8. ASSUME NEW r \in Runs, Finish(r)
      PROVE  Begun'
  BY <1>8, EngineAssumption, WasOrderly
     DEF Finish, Begun, Training, TypeOK, Cycle, Offline, Booting
<1>9. ASSUME NEW r \in Runs, TrainerFails(r)
      PROVE  Begun'
  BY <1>9, EngineAssumption, WasOrderly
     DEF TrainerFails, Begun, Training, TypeOK, Cycle, Offline, Booting
<1>10. ASSUME NEW r \in Runs, WrapperReports(r)
      PROVE  Begun'
  BY <1>10, EngineAssumption, WasOrderly
     DEF WrapperReports, Begun, Training, TypeOK, Cycle, Offline, Booting
<1>11. ASSUME NEW r \in Runs, LaunchFails(r)
      PROVE  Begun'
  BY <1>11, EngineAssumption, WasOrderly
     DEF LaunchFails, Begun, Training, TypeOK, Cycle, Offline, Booting
<1>12. ASSUME NEW r \in Runs, RunExits(r)
      PROVE  Begun'
  BY <1>12, EngineAssumption, WasOrderly
     DEF RunExits, Begun, Training, TypeOK, Cycle, Offline, Booting
<1>13. CASE UNCHANGED vars
  BY <1>13, WasOrderly DEF vars, Begun, Training, TypeOK, Cycle, Offline, Booting
<1>14. ASSUME NEW r \in Runs, StartBreaksOff(r)
       PROVE  Begun'
  BY <1>14, WasOrderly DEF StartBreaksOff, Begun, Training
<1> QED
  BY <1>1, <1>2, <1>3, <1>4, <1>5, <1>6, <1>7, <1>8, <1>9, <1>10,
     <1>11, <1>12, <1>13, <1>14 DEF Next, Request, RunStep

LEMMA TruthfulKept ==
  ASSUME TypeOK, Reports, Orderly, [Next]_vars, ~ stray'
  PROVE  Truthful'
<1>1. ASSUME NEW c \in Clients, SyncTrainConfig(c)
      PROVE  Truthful'
  BY <1>1, EngineAssumption, WasOrderly
     DEF SyncTrainConfig, MayStart, Truthful, Training, TypeOK, Cycle, Offline, Booting
<1>2. CASE StartFails
  BY <1>2, EngineAssumption, WasOrderly
     DEF StartFails, MayStart, Truthful, Training, TypeOK, Cycle, Offline, Booting
<1>3. ASSUME NEW r \in Runs, StartEngine(r)
      PROVE  Truthful'
  BY <1>3, EngineAssumption, WasOrderly
     DEF StartEngine, MayStart, Truthful, Training, TypeOK, Cycle, Offline, Booting
<1>4. CASE StopEngine
  BY <1>4, EngineAssumption, WasOrderly
     DEF StopEngine, Missed, Truthful, Training, TypeOK, Cycle, Offline, Booting
<1>5. ASSUME NEW r \in Runs, StartReturns(r)
      PROVE  Truthful'
  <2>1. r \in starting /\ latest = r
    BY <1>5 DEF StartReturns
  <2>2. Training(r) \/ Offline \in posts[r]
    BY <2>1, WasOrderly DEF Begun
  <2> QED
    BY <1>5, <2>2 DEF StartReturns, Truthful, Training
<1>6. ASSUME NEW r \in Runs, NEW status \in Statuses, UpdateEngineStatus(r, status)
      PROVE  Truthful'
  <2>1. latest = r /\ status \in posts[r] /\ engine_status' = status
    BY <1>6 DEF UpdateEngineStatus
  <2>2. CASE status = Offline
    BY <2>1, <2>2 DEF Truthful, Offline
  <2>3. CASE status # Offline
    <3>1. status \in Cycle
      BY <2>1, <2>3 DEF TypeOK, Statuses, Offline
    <3>2. Training(r) \/ Offline \in posts[r]
      BY <2>1, <3>1, WasOrderly DEF Follows
    <3>3. phase' = phase /\ Offline \in posts[r] => Offline \in posts'[r]
      BY <1>6, <2>3 DEF UpdateEngineStatus, TypeOK
    <3>4. phase' = phase
      BY <1>6 DEF UpdateEngineStatus
    <3> QED
      BY <3>2, <3>3, <3>4 DEF Truthful, Training, Cycle, Booting, Offline
  <2> QED
    BY <2>2, <2>3
<1>7. ASSUME NEW r \in Runs, Advance(r)
      PROVE  Truthful'
  <2>1. NextPhase(phase[r]) \in Cycle
    BY <1>7 DEF Advance, Training, NextPhase, Cycle, Booting
  <2>2. phase'[r] \in Cycle
    BY <1>7, <2>1 DEF Advance, TypeOK
  <2> QED
    BY <2>2 DEF Truthful, Training, Cycle, Booting
<1>8. ASSUME NEW r \in Runs, Finish(r)
      PROVE  Truthful'
  BY <1>8, EngineAssumption, WasOrderly
     DEF Finish, Truthful, Training, TypeOK, Cycle, Offline, Booting
<1>9. ASSUME NEW r \in Runs, TrainerFails(r)
      PROVE  Truthful'
  BY <1>9, EngineAssumption, WasOrderly
     DEF TrainerFails, Truthful, Training, TypeOK, Cycle, Offline, Booting
<1>10. ASSUME NEW r \in Runs, WrapperReports(r)
      PROVE  Truthful'
  BY <1>10, EngineAssumption, WasOrderly
     DEF WrapperReports, Truthful, Training, TypeOK, Cycle, Offline, Booting
<1>11. ASSUME NEW r \in Runs, LaunchFails(r)
      PROVE  Truthful'
  <2>1. latest = r
    BY <1>11, WasOrderly DEF LaunchFails, Owned, Training
  <2> QED
    BY <1>11, <2>1 DEF LaunchFails, Truthful
<1>12. ASSUME NEW r \in Runs, RunExits(r)
      PROVE  Truthful'
  BY <1>12, EngineAssumption, WasOrderly
     DEF RunExits, Truthful, Training, TypeOK, Cycle, Offline, Booting
<1>13. CASE UNCHANGED vars
  BY <1>13, WasOrderly DEF vars, Truthful, Training, TypeOK, Cycle, Offline, Booting
<1>14. ASSUME NEW r \in Runs, StartBreaksOff(r)
       PROVE  Truthful'
  BY <1>14, WasOrderly DEF StartBreaksOff, Truthful, Training
<1> QED
  BY <1>1, <1>2, <1>3, <1>4, <1>5, <1>6, <1>7, <1>8, <1>9, <1>10,
     <1>11, <1>12, <1>13, <1>14 DEF Next, Request, RunStep

-----------------------------------------------------------------------------
(* The theorems *)

LEMMA InitIInv == Init => IInv
BY EngineAssumption
   DEF Init, IInv, TypeOK, Statuses, Phases, Cycle, Offline, Booting, Reports, Training, Orderly,
       Follows, Owned, Begun, Truthful

LEMMA NextIInv == IInv /\ [Next]_vars => IInv'
<1> SUFFICES ASSUME IInv, [Next]_vars
             PROVE  IInv'
  OBVIOUS
<1>1. TypeOK /\ Reports /\ Orderly
  BY DEF IInv
<1>2. TypeOK' /\ Reports'
  BY <1>1, TypeKept, ReportsKept
<1>3. ASSUME ~ stray' PROVE Follows' /\ Owned' /\ Begun' /\ Truthful'
  BY <1>1, <1>3, FollowsKept, OwnedKept, BegunKept, TruthfulKept
<1> QED
  BY <1>2, <1>3 DEF IInv, Orderly

\* The invariant holds in every state the code can reach.
THEOREM Invariance == Spec => []IInv
BY InitIInv, NextIInv, PTL DEF Spec

\* The variables keep their types: a trainer is in one of its phases, and no report says
\* that the engine is booting.
THEOREM TypeCorrect == Spec => []TypeOK
<1>1. IInv => TypeOK
  BY DEF IInv
<1> QED
  BY <1>1, Invariance, PTL

\* There is never more than one trainer, for any number of clients that start and stop
\* the engine, unless a report or a start came too late or a stop missed a trainer.
THEOREM AtMostOneTrainer == Spec => []OneTrainer
<1>1. ASSUME IInv, ~stray PROVE Cardinality({r \in Runs : Training(r)}) <= 1
  <2> DEFINE T == {r \in Runs : Training(r)}
  <2>1. T \subseteq {latest}
    BY <1>1 DEF IInv, Orderly, Owned
  <2>2. IsFiniteSet({latest}) /\ Cardinality({latest}) = 1
    BY FS_Singleton
  <2>3. IsFiniteSet(T) /\ Cardinality(T) <= Cardinality({latest})
    BY <2>1, <2>2, FS_Subset
  <2> QED
    BY <2>2, <2>3
<1> QED
  BY <1>1, Invariance, PTL DEF OneTrainer

\* The trainer that runs has the configuration it was started with, and nobody can
\* replace it behind its back.
THEOREM ConfigIsFrozen == Spec => []ConfigFrozen
<1>1. IInv => ConfigFrozen
  BY DEF IInv, Orderly, Owned, ConfigFrozen
<1> QED
  BY <1>1, Invariance, PTL

\* What the server says of the engine is true, or the truth is on its way.
THEOREM StatusIsTruthful == Spec => []StatusTruthful
<1>1. IInv => StatusTruthful
  BY DEF IInv, Orderly, Owned, Truthful, StatusTruthful
<1> QED
  BY <1>1, Invariance, PTL

==============================================================================
