----------------------------- MODULE SyncAgreement -----------------------------
(***************************************************************************)
(* How the clients decide together when a rollout ends: the sample         *)
(* collection methods rollout_until_any_client_agree_sync_weight and       *)
(* rollout_until_all_clients_agree_sync_weight.                            *)
(*                                                                         *)
(* The server keeps one list of active clients.  Ending an episode enters  *)
(* a client, a call of its agents refreshes its entry, an hour without one *)
(* drops it, its agreement marks it, and the clean-up between rollouts     *)
(* empties it.  The trainer decides on a copy it fetches now and then.     *)
(*                                                                         *)
(* The server is one process (num_fastapi_process, by default): its        *)
(* handlers run on one event loop, and only the clean-up runs in a thread  *)
(* beside them.  It holds a lock that most of them do not take.            *)
(*                                                                         *)
(* A definition whose name begins with Bug is not part of the model: it is *)
(* the definition after it with a plausible mistake, kept to show which    *)
(* property notices.                                                       *)
(***************************************************************************)
EXTENDS Naturals, FiniteSets

CONSTANTS
  Clients,
  Methods,    \* the collection methods to look at, among "any" and "all"
  NoEntry,    \* the list has no entry of a client
  NoList      \* nothing fetched

ASSUME AgreementAssumption ==
  /\ Methods \subseteq {"any", "all"}
  /\ NoEntry \notin [allowed : BOOLEAN, old : BOOLEAN]

VARIABLES
  method,    \* swarm_mode_sample_collection_method
  engine,    \* the status: ROLLING_POST is "post", and "draining" once the main thread
             \* has seen the stop; WEIGHT_SYNCING is "syncing", "cleaned" after the clean-up
  active,    \* active_swarm_clients, by client
  ending,    \* clients whose end_episode waits for its thread
  fetched,   \* latest_swarm_client_instructions of the trainer: who is in, has it agreed?
  client,    \* what each client does
  agreed,    \* history: clients whose agreement was accepted since the clean-up
  stale      \* history: a list read before a clean-up was written after it

vars == <<method, engine, active, ending, fetched, client, agreed, stale>>

Entries == [allowed : BOOLEAN, old : BOOLEAN]
Rolling == engine \in {"rolling", "post", "draining"}

IsIn(c) == active[c] # NoEntry
HasAgreed(list, c) == list[c] # NoEntry /\ list[c].allowed

TypeOK ==
  /\ method \in Methods
  /\ engine \in {"rolling", "post", "draining", "syncing", "cleaned"}
  /\ active \in [Clients -> Entries \cup {NoEntry}]
  /\ ending \in SUBSET Clients
  /\ fetched = NoList \/ \E C \in SUBSET Clients : fetched \in [C -> BOOLEAN]
  /\ client \in [Clients -> {"working", "agreeing", "waiting", "left"}]
  /\ agreed \in SUBSET Clients
  /\ stale \in BOOLEAN

Empty == [c \in Clients |-> NoEntry]

Init ==
  /\ method \in Methods
  /\ engine = "rolling"
  /\ active = Empty
  /\ ending = {}
  /\ fetched = NoList
  /\ client = [c \in Clients |-> "working"]
  /\ agreed = {}
  /\ stale = FALSE

-----------------------------------------------------------------------------
(* The clients *)

EndEpisode(c) ==
  /\ Rolling
  /\ client[c] = "working" /\ c \notin ending
  /\ ending' = ending \cup {c}
  /\ UNCHANGED <<method, engine, active, fetched, client, agreed, stale>>

\* agree_sync_weight looks at the status before each attempt.
StartAgree(c) ==
  /\ Rolling
  /\ client[c] = "working"
  /\ client' = [client EXCEPT ![c] = "agreeing"]
  /\ UNCHANGED <<method, engine, active, ending, fetched, agreed, stale>>

Abandon(c) ==
  /\ ~Rolling
  /\ client[c] = "agreeing"
  /\ client' = [client EXCEPT ![c] = "working"]
  /\ UNCHANGED <<method, engine, active, ending, fetched, agreed, stale>>

\* Not in the list time after time, the client gives up with an error.
GiveUp(c) ==
  /\ client[c] = "agreeing"
  /\ ~IsIn(c)
  /\ client' = [client EXCEPT ![c] = "left"]
  /\ UNCHANGED <<method, engine, active, ending, fetched, agreed, stale>>

\* An accepted agreement waits for the engine to leave ROLLING.
SeesStop(c) ==
  /\ client[c] = "waiting"
  /\ engine # "rolling"
  /\ client' = [client EXCEPT ![c] = "working"]
  /\ UNCHANGED <<method, engine, active, ending, fetched, agreed, stale>>

\* A client crashes, or is done.
Leave(c) ==
  /\ client[c] # "left"
  /\ client' = [client EXCEPT ![c] = "left"]
  /\ UNCHANGED <<method, engine, active, ending, fetched, agreed, stale>>

\* An hour passes without a call of the client that counts as activity.
GrowOld(c) ==
  /\ IsIn(c) /\ ~active[c].old
  /\ active' = [active EXCEPT ![c].old = TRUE]
  /\ UNCHANGED <<method, engine, ending, fetched, client, agreed, stale>>

-----------------------------------------------------------------------------
(* The server *)

\* _register_active_client and _refresh_client_activity keep an agreement.
BugRegistered(c) == [active EXCEPT ![c] = [allowed |-> FALSE, old |-> FALSE]]
Registered(c) == [active EXCEPT ![c] = [allowed |-> HasAgreed(active, c), old |-> FALSE]]

\* The thread of end_episode is done, whenever that is.
RegisterActiveClient(c) ==
  /\ c \in ending
  /\ ending' = ending \ {c}
  /\ active' = Registered(c)
  /\ UNCHANGED <<method, engine, fetched, client, agreed, stale>>

\* A chat completion or a claim.
RefreshClientActivity(c) ==
  /\ Rolling
  /\ client[c] = "working"
  /\ IsIn(c)
  /\ active' = Registered(c)
  /\ UNCHANGED <<method, engine, ending, fetched, client, agreed, stale>>

BugWithoutOld == active
WithoutOld == [c \in Clients |-> IF IsIn(c) /\ active[c].old THEN NoEntry ELSE active[c]]

ExpireInactiveClients ==
  /\ \E c \in Clients : IsIn(c) /\ active[c].old
  /\ active' = WithoutOld
  /\ UNCHANGED <<method, engine, ending, fetched, client, agreed, stale>>

\* The handler looks at the list only, not at the status.
AgreeSyncWeight(c) ==
  /\ client[c] = "agreeing"
  /\ IsIn(c)
  /\ active' = [active EXCEPT ![c].allowed = TRUE]
  /\ client' = [client EXCEPT ![c] = "waiting"]
  /\ agreed' = agreed \cup {c}
  /\ UNCHANGED <<method, engine, ending, fetched, stale>>

\* update_engine_status with WEIGHT_SYNCING: ten seconds later, in a thread.
CleanUp ==
  /\ engine = "syncing"
  /\ active' = Empty
  /\ engine' = "cleaned"
  /\ agreed' = {}
  /\ UNCHANGED <<method, ending, fetched, client, stale>>

\* The thread empties the list between a handler's reading and its writing: a handler
\* that does not take the lock writes the old list back.
CleanUpInBetween ==
  /\ engine = "syncing"
  /\ \/ \E c \in ending : active' = Registered(c) /\ ending' = ending \ {c}
     \/ \E c \in Clients : IsIn(c) /\ active[c].old /\ active' = WithoutOld /\ UNCHANGED ending
  /\ engine' = "cleaned"
  /\ agreed' = {}
  /\ stale' = TRUE
  /\ UNCHANGED <<method, fetched, client>>

-----------------------------------------------------------------------------
(* The trainer *)

\* The list comes back with each push of the pool's statistics.
Fetch ==
  /\ engine \in {"rolling", "post"}
  /\ fetched' = [c \in {d \in Clients : IsIn(d)} |-> active[c].allowed]
  /\ UNCHANGED <<method, engine, active, ending, client, agreed, stale>>

Met(instr) ==
  /\ \E c \in DOMAIN instr : instr[c]
  /\ method = "all" => \A c \in DOMAIN instr : instr[c]

StopCondition == fetched # NoList /\ Met(fetched)

\* A worker finds the condition met; the main thread evaluates it anew, on what has
\* been fetched by then.
StopCallback ==
  /\ engine = "rolling"
  /\ StopCondition
  /\ engine' = "post"
  /\ UNCHANGED <<method, active, ending, fetched, client, agreed, stale>>

StopAllThreadsSoft ==
  /\ engine \in {"rolling", "post"}
  /\ StopCondition
  /\ engine' = "draining"
  /\ UNCHANGED <<method, active, ending, fetched, client, agreed, stale>>

BugStopAllThreadsHard ==
  /\ engine = "draining"
  /\ engine' = "offline"
  /\ UNCHANGED <<method, active, ending, fetched, client, agreed, stale>>
StopAllThreadsHard ==
  /\ engine = "draining"
  /\ engine' = "syncing"
  /\ UNCHANGED <<method, active, ending, fetched, client, agreed, stale>>

\* The policy update takes minutes, a look at the status seconds: every client has
\* seen the stop before the next rollout.
BugNextRollout ==
  /\ engine = "cleaned"
  /\ \A c \in Clients : client[c] # "waiting"
  /\ engine' = "rolling"
  /\ UNCHANGED <<method, active, ending, fetched, client, agreed, stale>>
NextRollout ==
  /\ engine = "cleaned"
  /\ \A c \in Clients : client[c] # "waiting"
  /\ engine' = "rolling"
  /\ fetched' = NoList
  /\ UNCHANGED <<method, active, ending, client, agreed, stale>>

-----------------------------------------------------------------------------

ClientStep(c) ==
  EndEpisode(c) \/ StartAgree(c) \/ Abandon(c) \/ GiveUp(c) \/ SeesStop(c) \/ Leave(c) \/ GrowOld(c)

ServerStep ==
  \/ \E c \in Clients : RegisterActiveClient(c) \/ RefreshClientActivity(c) \/ AgreeSyncWeight(c)
  \/ ExpireInactiveClients \/ CleanUp \/ CleanUpInBetween

TrainerStep ==
  Fetch \/ StopCallback \/ StopAllThreadsSoft \/ StopAllThreadsHard \/ NextRollout

\* A behaviour is followed up to the first stale list.
Next == ~stale /\ ((\E c \in Clients : ClientStep(c)) \/ ServerStep \/ TrainerStep)

Spec == Init /\ [][Next]_vars

\* The server handles what is asked of it, the janitor comes round, time passes for
\* those who have left, the trainer goes on.  A client that stays and is in the list
\* agrees at last, and looks at the status; it need not end episodes or stay.  The
\* trainer fetches every few seconds, an entry lives for an hour: a list that lets it
\* stop, and comes again and again, is fetched once.
Fairness ==
  /\ \A c \in Clients :
       /\ WF_vars(RegisterActiveClient(c)) /\ WF_vars(AgreeSyncWeight(c))
       /\ SF_vars(IsIn(c) /\ StartAgree(c))
       /\ WF_vars(Abandon(c)) /\ WF_vars(SeesStop(c))
       /\ WF_vars(client[c] = "left" /\ GrowOld(c))
  /\ WF_vars(ExpireInactiveClients) /\ WF_vars(CleanUp)
  /\ SF_vars(Fetch /\ Met(fetched')) /\ SF_vars(StopAllThreadsSoft) /\ WF_vars(StopAllThreadsHard)
  /\ WF_vars(NextRollout)

FairSpec == Spec /\ Fairness

-----------------------------------------------------------------------------
(* Properties *)

\* An agreement the server has accepted is not lost to the other handlers that write
\* the list: only the clean-up, or an hour without activity, takes it back.
AgreementKept ==
  [][\A c \in Clients : HasAgreed(active, c) /\ ~HasAgreed(active', c)
       => engine' = "cleaned" \/ active[c].old]_vars

\* A rollout is stopped by agreements given since the clean-up before it and by nothing
\* left over, neither in the server's list nor in the trainer's copy of it.
StopIsAgreed ==
  engine = "draining" /\ ~stale =>
    /\ agreed # {}
    /\ method = "all" => DOMAIN fetched \subseteq agreed

\* What a client has agreed to happens: whoever crashes, joins late or ends another
\* episode, weights are synced, unless an agreement is dropped for its age.
AgreementEnds ==
  \A c \in Clients :
    client[c] = "waiting" ~>
      \/ engine = "syncing"
      \/ \E d \in Clients : (d = c \/ client[d] = "waiting") /\ ~HasAgreed(active, d)
      \/ stale

==============================================================================
