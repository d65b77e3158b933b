-------------------------- MODULE SyncAgreementProofs --------------------------
(***************************************************************************)
(* Theorems about SyncAgreement, for any number of clients.                *)
(***************************************************************************)
EXTENDS SyncAgreement, TLAPS

-----------------------------------------------------------------------------
(* The inductive invariant *)

\* Agreements in the server's list, and in the copy of it that the trainer acts upon,
\* were given since the clean-up.
Known ==
  /\ \A c \in Clients : HasAgreed(active, c) => c \in agreed
  /\ fetched # NoList /\ Rolling => \A c \in DOMAIN fetched : fetched[c] => c \in agreed

\* When the trainer drains the rollout, the condition was met by what it still holds.
StopWasMet == engine = "draining" => StopCondition

\* What a step may do to an agreement: AgreementKept of one step.
AllKept ==
  \A c \in Clients : HasAgreed(active, c) /\ ~HasAgreed(active', c)
    => engine' = "cleaned" \/ active[c].old

IInv == TypeOK /\ (~stale => Known) /\ StopWasMet

-----------------------------------------------------------------------------
(* Every step keeps every part of the invariant *)

LEMMA RegisteredType ==
  ASSUME TypeOK, NEW c \in Clients
  PROVE  Registered(c) \in [Clients -> Entries \cup {NoEntry}]
BY DEF Registered, HasAgreed, TypeOK, Entries

LEMMA WithoutOldType ==
  ASSUME TypeOK
  PROVE  WithoutOld \in [Clients -> Entries \cup {NoEntry}]
BY DEF WithoutOld, TypeOK

LEMMA TypeKept ==
  ASSUME TypeOK, [Next]_vars
  PROVE  TypeOK'
<1>1. ASSUME NEW c \in Clients, EndEpisode(c)
      PROVE  TypeOK'
  BY <1>1, AgreementAssumption DEF EndEpisode, TypeOK
<1>2. ASSUME NEW c \in Clients, StartAgree(c)
      PROVE  TypeOK'
  BY <1>2, AgreementAssumption DEF StartAgree, TypeOK
<1>3. ASSUME NEW c \in Clients, Abandon(c)
      PROVE  TypeOK'
  BY <1>3, AgreementAssumption DEF Abandon, TypeOK
<1>4. ASSUME NEW c \in Clients, GiveUp(c)
      PROVE  TypeOK'
  BY <1>4, AgreementAssumption DEF GiveUp, TypeOK
<1>5. ASSUME NEW c \in Clients, SeesStop(c)
      PROVE  TypeOK'
  BY <1>5, AgreementAssumption DEF SeesStop, TypeOK
<1>6. ASSUME NEW c \in Clients, Leave(c)
      PROVE  TypeOK'
  BY <1>6, AgreementAssumption DEF Leave, TypeOK
<1>7. ASSUME NEW c \in Clients, GrowOld(c)
      PROVE  TypeOK'
  <2>1. active' \in [Clients -> Entries \cup {NoEntry}]
    BY <1>7 DEF GrowOld, IsIn, TypeOK, Entries
  <2> QED
    BY <1>7, <2>1 DEF GrowOld, TypeOK
<1>8. ASSUME NEW c \in Clients, RegisterActiveClient(c)
      PROVE  TypeOK'
  BY <1>8, RegisteredType DEF RegisterActiveClient, TypeOK
<1>9. ASSUME NEW c \in Clients, RefreshClientActivity(c)
      PROVE  TypeOK'
  BY <1>9, RegisteredType DEF RefreshClientActivity, TypeOK
<1>10. ASSUME NEW c \in Clients, AgreeSyncWeight(c)
      PROVE  TypeOK'
  <2>1. active' \in [Clients -> Entries \cup {NoEntry}]
    BY <1>10 DEF AgreeSyncWeight, IsIn, TypeOK, Entries
  <2> QED
    BY <1>10, <2>1 DEF AgreeSyncWeight, TypeOK
<1>11. CASE ExpireInactiveClients
  BY <1>11, WithoutOldType DEF ExpireInactiveClients, TypeOK
<1>12. CASE CleanUp
  BY <1>12 DEF CleanUp, Empty, TypeOK
<1>13. CASE CleanUpInBetween
  <2>1. active' \in [Clients -> Entries \cup {NoEntry}] /\ ending' \in SUBSET Clients
    BY <1>13, RegisteredType, WithoutOldType DEF CleanUpInBetween, TypeOK
  <2> QED
    BY <1>13, <2>1 DEF CleanUpInBetween, TypeOK
<1>14. CASE Fetch
  <2>1. \A c \in Clients : IsIn(c) => active[c].allowed \in BOOLEAN
    BY DEF IsIn, TypeOK, Entries
  <2>2. fetched' \in [{d \in Clients : IsIn(d)} -> BOOLEAN]
    BY <1>14, <2>1 DEF Fetch
  <2>3. {d \in Clients : IsIn(d)} \in SUBSET Clients
    OBVIOUS
  <2>4. \E C \in SUBSET Clients : fetched' \in [C -> BOOLEAN]
    BY <2>2, <2>3
  <2> QED
    BY <1>14, <2>4 DEF Fetch, TypeOK
<1>15. CASE StopCallback
  BY <1>15, AgreementAssumption DEF StopCallback, TypeOK
<1>16. CASE StopAllThreadsSoft
  BY <1>16, AgreementAssumption DEF StopAllThreadsSoft, TypeOK
<1>17. CASE StopAllThreadsHard
  BY <1>17, AgreementAssumption DEF StopAllThreadsHard, TypeOK
<1>18. CASE NextRollout
  BY <1>18, AgreementAssumption DEF NextRollout, TypeOK
<1>19. CASE UNCHANGED vars
  BY <1>19 DEF vars, TypeOK
<1> QED
  BY <1>1, <1>2, <1>3, <1>4, <1>5, <1>6, <1>7, <1>8, <1>9, <1>10,
     <1>11, <1>12, <1>13, <1>14, <1>15, <1>16, <1>17, <1>18, <1>19
     DEF Next, ClientStep, ServerStep, TrainerStep


LEMMA KnownKept ==
  ASSUME TypeOK, Known, [Next]_vars, ~ stale'
  PROVE  Known'
<1>1. ASSUME NEW c \in Clients, EndEpisode(c)
      PROVE  Known'
  BY <1>1 DEF EndEpisode, Known, HasAgreed, IsIn, TypeOK, Entries, Rolling
<1>2. ASSUME NEW c \in Clients, StartAgree(c)
      PROVE  Known'
  BY <1>2 DEF StartAgree, Known, HasAgreed, IsIn, TypeOK, Entries, Rolling
<1>3. ASSUME NEW c \in Clients, Abandon(c)
      PROVE  Known'
  BY <1>3 DEF Abandon, Known, HasAgreed, IsIn, TypeOK, Entries, Rolling
<1>4. ASSUME NEW c \in Clients, GiveUp(c)
      PROVE  Known'
  BY <1>4 DEF GiveUp, Known, HasAgreed, IsIn, TypeOK, Entries, Rolling
<1>5. ASSUME NEW c \in Clients, SeesStop(c)
      PROVE  Known'
  BY <1>5 DEF SeesStop, Known, HasAgreed, IsIn, TypeOK, Entries, Rolling
<1>6. ASSUME NEW c \in Clients, Leave(c)
      PROVE  Known'
  BY <1>6 DEF Leave, Known, HasAgreed, IsIn, TypeOK, Entries, Rolling
<1>7. ASSUME NEW c \in Clients, GrowOld(c)
      PROVE  Known'
  BY <1>7 DEF GrowOld, Known, HasAgreed, IsIn, TypeOK, Entries, Rolling
<1>8. ASSUME NEW c \in Clients, RegisterActiveClient(c)
      PROVE  Known'
  BY <1>8
     DEF RegisterActiveClient, Registered, Known, HasAgreed, IsIn, TypeOK, Entries, Rolling
<1>9. ASSUME NEW c \in Clients, RefreshClientActivity(c)
      PROVE  Known'
  BY <1>9
     DEF RefreshClientActivity, Registered, Known, HasAgreed, IsIn, TypeOK, Entries, Rolling
<1>10. ASSUME NEW c \in Clients, AgreeSyncWeight(c)
      PROVE  Known'
  BY <1>10 DEF AgreeSyncWeight, Known, HasAgreed, IsIn, TypeOK, Entries, Rolling
<1>11. CASE ExpireInactiveClients
  BY <1>11
     DEF ExpireInactiveClients, WithoutOld, Known, HasAgreed, IsIn, TypeOK, Entries, Rolling
<1>12. CASE CleanUp
  BY <1>12, AgreementAssumption
     DEF CleanUp, Empty, Known, HasAgreed, IsIn, TypeOK, Entries, Rolling
<1>13. CASE CleanUpInBetween
  BY <1>13 DEF CleanUpInBetween
<1>14. CASE Fetch
  BY <1>14 DEF Fetch, Known, HasAgreed, IsIn, TypeOK, Entries, Rolling
<1>15. CASE StopCallback
  BY <1>15 DEF StopCallback, Known, HasAgreed, IsIn, TypeOK, Entries, Rolling
<1>16. CASE StopAllThreadsSoft
  BY <1>16 DEF StopAllThreadsSoft, Known, HasAgreed, IsIn, TypeOK, Entries, Rolling
<1>17. CASE StopAllThreadsHard
  BY <1>17 DEF StopAllThreadsHard, Known, HasAgreed, IsIn, TypeOK, Entries, Rolling
<1>18. CASE NextRollout
  BY <1>18 DEF NextRollout, Known, HasAgreed, IsIn, TypeOK, Entries, Rolling
<1>19. CASE UNCHANGED vars
  BY <1>19 DEF vars, Known, HasAgreed, IsIn, TypeOK, Entries, Rolling
<1> QED
  BY <1>1, <1>2, <1>3, <1>4, <1>5, <1>6, <1>7, <1>8, <1>9, <1>10,
     <1>11, <1>12, <1>13, <1>14, <1>15, <1>16, <1>17, <1>18, <1>19
     DEF Next, ClientStep, ServerStep, TrainerStep

LEMMA MetKept ==
  ASSUME TypeOK, StopWasMet, [Next]_vars
  PROVE  StopWasMet'
<1>1. ASSUME NEW c \in Clients, EndEpisode(c)
      PROVE  StopWasMet'
  BY <1>1 DEF EndEpisode, StopWasMet, Met, StopCondition
<1>2. ASSUME NEW c \in Clients, StartAgree(c)
      PROVE  StopWasMet'
  BY <1>2 DEF StartAgree, StopWasMet, Met, StopCondition
<1>3. ASSUME NEW c \in Clients, Abandon(c)
      PROVE  StopWasMet'
  BY <1>3 DEF Abandon, StopWasMet, Met, StopCondition
<1>4. ASSUME NEW c \in Clients, GiveUp(c)
      PROVE  StopWasMet'
  BY <1>4 DEF GiveUp, StopWasMet, Met, StopCondition
<1>5. ASSUME NEW c \in Clients, SeesStop(c)
      PROVE  StopWasMet'
  BY <1>5 DEF SeesStop, StopWasMet, Met, StopCondition
<1>6. ASSUME NEW c \in Clients, Leave(c)
      PROVE  StopWasMet'
  BY <1>6 DEF Leave, StopWasMet, Met, StopCondition
<1>7. ASSUME NEW c \in Clients, GrowOld(c)
      PROVE  StopWasMet'
  BY <1>7 DEF GrowOld, StopWasMet, Met, StopCondition
<1>8. ASSUME NEW c \in Clients, RegisterActiveClient(c)
      PROVE  StopWasMet'
  BY <1>8 DEF RegisterActiveClient, StopWasMet, Met, StopCondition
<1>9. ASSUME NEW c \in Clients, RefreshClientActivity(c)
      PROVE  StopWasMet'
  BY <1>9 DEF RefreshClientActivity, StopWasMet, Met, StopCondition
<1>10. ASSUME NEW c \in Clients, AgreeSyncWeight(c)
      PROVE  StopWasMet'
  BY <1>10 DEF AgreeSyncWeight, StopWasMet, Met, StopCondition
<1>11. CASE ExpireInactiveClients
  BY <1>11 DEF ExpireInactiveClients, StopWasMet, Met, StopCondition
<1>12. CASE CleanUp
  BY <1>12 DEF CleanUp, StopWasMet, Met, StopCondition
<1>13. CASE CleanUpInBetween
  BY <1>13 DEF CleanUpInBetween, StopWasMet, Met, StopCondition
<1>14. CASE Fetch
  BY <1>14 DEF Fetch, StopWasMet, Met, StopCondition
<1>15. CASE StopCallback
  BY <1>15 DEF StopCallback, StopWasMet, Met, StopCondition
<1>16. CASE StopAllThreadsSoft
  BY <1>16 DEF StopAllThreadsSoft, StopWasMet, Met, StopCondition
<1>17. CASE StopAllThreadsHard
  BY <1>17 DEF StopAllThreadsHard, StopWasMet, Met, StopCondition
<1>18. CASE NextRollout
  BY <1>18 DEF NextRollout, StopWasMet, Met, StopCondition
<1>19. CASE UNCHANGED vars
  BY <1>19 DEF vars, StopWasMet, Met, StopCondition
<1> QED
  BY <1>1, <1>2, <1>3, <1>4, <1>5, <1>6, <1>7, <1>8, <1>9, <1>10,
     <1>11, <1>12, <1>13, <1>14, <1>15, <1>16, <1>17, <1>18, <1>19
     DEF Next, ClientStep, ServerStep, TrainerStep

\* What one step may do to an agreement.
LEMMA AgreementStep ==
  ASSUME TypeOK, [Next]_vars
  PROVE  AllKept
<1>1. ASSUME NEW c \in Clients, EndEpisode(c)
      PROVE  AllKept
  BY <1>1, AgreementAssumption
     DEF EndEpisode, AllKept, HasAgreed, IsIn, Registered, TypeOK, Entries
<1>2. ASSUME NEW c \in Clients, StartAgree(c)
      PROVE  AllKept
  BY <1>2, AgreementAssumption
     DEF StartAgree, AllKept, HasAgreed, IsIn, Registered, TypeOK, Entries
<1>3. ASSUME NEW c \in Clients, Abandon(c)
      PROVE  AllKept
  BY <1>3, AgreementAssumption
     DEF Abandon, AllKept, HasAgreed, IsIn, Registered, TypeOK, Entries
<1>4. ASSUME NEW c \in Clients, GiveUp(c)
      PROVE  AllKept
  BY <1>4, AgreementAssumption
     DEF GiveUp, AllKept, HasAgreed, IsIn, Registered, TypeOK, Entries
<1>5. ASSUME NEW c \in Clients, SeesStop(c)
      PROVE  AllKept
  BY <1>5, AgreementAssumption
     DEF SeesStop, AllKept, HasAgreed, IsIn, Registered, TypeOK, Entries
<1>6. ASSUME NEW c \in Clients, Leave(c)
      PROVE  AllKept
  BY <1>6, AgreementAssumption
     DEF Leave, AllKept, HasAgreed, IsIn, Registered, TypeOK, Entries
<1>7. ASSUME NEW c \in Clients, GrowOld(c)
      PROVE  AllKept
  BY <1>7, AgreementAssumption
     DEF GrowOld, AllKept, HasAgreed, IsIn, Registered, TypeOK, Entries
<1>8. ASSUME NEW c \in Clients, RegisterActiveClient(c)
      PROVE  AllKept
  BY <1>8, AgreementAssumption
     DEF RegisterActiveClient, AllKept, HasAgreed, IsIn, Registered, TypeOK, Entries
<1>9. ASSUME NEW c \in Clients, RefreshClientActivity(c)
      PROVE  AllKept
  BY <1>9, AgreementAssumption
     DEF RefreshClientActivity, AllKept, HasAgreed, IsIn, Registered, TypeOK, Entries
<1>10. ASSUME NEW c \in Clients, AgreeSyncWeight(c)
      PROVE  AllKept
  BY <1>10, AgreementAssumption
     DEF AgreeSyncWeight, AllKept, HasAgreed, IsIn, Registered, TypeOK, Entries
<1>11. CASE ExpireInactiveClients
  BY <1>11, AgreementAssumption
     DEF ExpireInactiveClients, WithoutOld, AllKept, HasAgreed, IsIn, Registered, TypeOK, Entries
<1>12. CASE CleanUp
  BY <1>12, AgreementAssumption
     DEF CleanUp, AllKept, HasAgreed, IsIn, Registered, TypeOK, Entries
<1>13. CASE CleanUpInBetween
  BY <1>13, AgreementAssumption
     DEF CleanUpInBetween, AllKept, HasAgreed, IsIn, Registered, TypeOK, Entries
<1>14. CASE Fetch
  BY <1>14, AgreementAssumption
     DEF Fetch, AllKept, HasAgreed, IsIn, Registered, TypeOK, Entries
<1>15. CASE StopCallback
  BY <1>15, AgreementAssumption
     DEF StopCallback, AllKept, HasAgreed, IsIn, Registered, TypeOK, Entries
<1>16. CASE StopAllThreadsSoft
  BY <1>16, AgreementAssumption
     DEF StopAllThreadsSoft, AllKept, HasAgreed, IsIn, Registered, TypeOK, Entries
<1>17. CASE StopAllThreadsHard
  BY <1>17, AgreementAssumption
     DEF StopAllThreadsHard, AllKept, HasAgreed, IsIn, Registered, TypeOK, Entries
<1>18. CASE NextRollout
  BY <1>18, AgreementAssumption
     DEF NextRollout, AllKept, HasAgreed, IsIn, Registered, TypeOK, Entries
<1>19. CASE UNCHANGED vars
  BY <1>19 DEF vars, AllKept, HasAgreed, IsIn, Registered, TypeOK, Entries
<1> QED
  BY <1>1, <1>2, <1>3, <1>4, <1>5, <1>6, <1>7, <1>8, <1>9, <1>10,
     <1>11, <1>12, <1>13, <1>14, <1>15, <1>16, <1>17, <1>18, <1>19
     DEF Next, ClientStep, ServerStep, TrainerStep

-----------------------------------------------------------------------------
(* The theorems *)

LEMMA InitIInv == Init => IInv
BY AgreementAssumption
   DEF Init, IInv, TypeOK, Empty, Entries, Known, HasAgreed, Rolling, StopWasMet

\* A behaviour goes on only while no stale list was written.
LEMMA WasFresh ==
  ASSUME [Next]_vars, ~ stale'
  PROVE  ~ stale
BY DEF Next, vars

LEMMA NextIInv == IInv /\ [Next]_vars => IInv'
<1> SUFFICES ASSUME IInv, [Next]_vars
             PROVE  IInv'
  OBVIOUS
<1>1. TypeOK' /\ StopWasMet'
  BY TypeKept, MetKept DEF IInv
<1>2. ASSUME ~ stale' PROVE Known'
  BY <1>2, WasFresh, KnownKept DEF IInv
<1> QED
  BY <1>1, <1>2 DEF IInv

\* The invariant holds in every state the code can reach.
THEOREM Invariance == Spec => []IInv
BY InitIInv, NextIInv, PTL DEF Spec

\* The variables keep their types.
THEOREM TypeCorrect == Spec => []TypeOK
<1>1. IInv => TypeOK
  BY DEF IInv
<1> QED
  BY <1>1, Invariance, PTL

\* What stops a rollout was agreed upon in it, by one client or by all the trainer knows
\* of, for any number of clients.
THEOREM StopsAreAgreed == Spec => []StopIsAgreed
<1>1. ASSUME IInv, engine = "draining", ~stale
      PROVE  agreed # {} /\ (method = "all" => DOMAIN fetched \subseteq agreed)
  <2>1. fetched # NoList /\ Met(fetched)
    BY <1>1 DEF IInv, StopWasMet, StopCondition
  <2>2. \A c \in DOMAIN fetched : fetched[c] => c \in agreed
    BY <1>1, <2>1 DEF IInv, Known, Rolling
  <2> QED
    BY <2>1, <2>2 DEF Met
<1> QED
  BY <1>1, Invariance, PTL DEF StopIsAgreed

\* No handler but the clean-up, and no time but an hour without activity, takes back
\* what a client has agreed to.
THEOREM AgreementsAreKept == Spec => AgreementKept
<1>1. IInv /\ [Next]_vars =>
        [\A c \in Clients : HasAgreed(active, c) /\ ~HasAgreed(active', c)
           => engine' = "cleaned" \/ active[c].old]_vars
  BY AgreementStep DEF IInv, AllKept
<1> QED
  BY <1>1, Invariance, PTL DEF Spec, AgreementKept

==============================================================================
