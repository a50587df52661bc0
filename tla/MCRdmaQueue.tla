---------------------------- MODULE MCRdmaQueue ----------------------------
(* RdmaQueue with small sets of queues and contexts. *)
EXTENDS RdmaQueue, TLC

Symmetry == Permutations(Contexts) \cup Permutations(Queues)
=============================================================================
