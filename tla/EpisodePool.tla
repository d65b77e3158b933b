----------------------------- MODULE EpisodePool -----------------------------
(***************************************************************************)
(* What the swarm server promises its clients about episodes, with nothing *)
(* about how: a published episode waits in a first-in first-out pool until *)
(* one client claims it, it then belongs to that client alone until it is  *)
(* withdrawn, and nothing is handed out while the pool is closed.          *)
(* SwarmServer is shown to implement this module.                          *)
(***************************************************************************)
EXTENDS Sequences, Naturals

CONSTANTS
  Episodes,  \* everything that may ever be published
  Clients,   \* those who may claim
  Nobody     \* owner of an episode no client has claimed; not a client

VARIABLES
  open,   \* TRUE while episodes are handed out
  free,   \* the published episodes, longest waiting first
  owner   \* who has claimed each episode

poolVars == <<open, free, owner>>

IsFree(e) == \E i \in 1..Len(free) : free[i] = e

PoolInit ==
  /\ open = FALSE
  /\ free = <<>>
  /\ owner = [e \in Episodes |-> Nobody]

SetOpen ==
  /\ open' \in BOOLEAN
  /\ UNCHANGED <<free, owner>>

\* An episode that is neither waiting nor claimed joins the end of the pool.
Publish(e) ==
  /\ ~IsFree(e)
  /\ owner[e] = Nobody
  /\ free' = Append(free, e)
  /\ UNCHANGED <<open, owner>>

\* A client is given the episode that has waited longest.
Claim(c) ==
  /\ open
  /\ free # <<>>
  /\ owner[Head(free)] = Nobody
  /\ owner' = [owner EXCEPT ![Head(free)] = c]
  /\ free' = Tail(free)
  /\ UNCHANGED open

\* An episode is taken from its owner, or out of the pool without being claimed.
Withdraw(e) ==
  \/ /\ owner[e] # Nobody
     /\ owner' = [owner EXCEPT ![e] = Nobody]
     /\ UNCHANGED <<open, free>>
  \/ \E i \in 1..Len(free) :
       /\ free[i] = e
       /\ free' = SubSeq(free, 1, i - 1) \o SubSeq(free, i + 1, Len(free))
       /\ UNCHANGED <<open, owner>>

\* Between two rollouts everything is withdrawn at once.
Clear ==
  /\ ~open
  /\ free' = <<>>
  /\ owner' = [e \in Episodes |-> Nobody]
  /\ UNCHANGED open

PoolNext ==
  \/ SetOpen
  \/ \E e \in Episodes : Publish(e) \/ Withdraw(e)
  \/ \E c \in Clients : Claim(c)
  \/ Clear

PoolSpec == PoolInit /\ [][PoolNext]_poolVars

==============================================================================
