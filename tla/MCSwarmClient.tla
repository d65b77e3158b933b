---------------------------- MODULE MCSwarmClient ----------------------------
(* Instance of SwarmClient for TLC. *)
EXTENDS SwarmClient

\* The jobs of a task, and the places in the pool, are interchangeable.
Symmetry == Permutations(Repeats) \cup Permutations(Episodes)

==============================================================================
