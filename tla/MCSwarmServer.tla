---------------------------- MODULE MCSwarmServer ----------------------------
(* SwarmServer on small sets of model values. *)
EXTENDS SwarmServer

\* Clients and episodes are interchangeable.
Symmetry == Permutations(Clients) \cup Permutations(Episodes)

==============================================================================
