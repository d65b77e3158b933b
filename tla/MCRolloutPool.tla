---------------------------- MODULE MCRolloutPool ----------------------------
(* RolloutPool on small sets of model values. *)
EXTENDS RolloutPool, TLC

\* Workers, tasks, rewards and clients are interchangeable.
Symmetry ==
  Permutations(Workers) \cup Permutations(Tasks) \cup Permutations(Rewards) \cup Permutations(Clients)

\* A counting method needs one tracker more than MaxCached, and one being stored.
Enough == [m \in Methods |-> IF m \in CountingMethods THEN 4 ELSE 2]

==============================================================================
