---------------------------- MODULE MCOperations ----------------------------
(* Instances of Operations: two operations of one project, two requests.   *)
EXTENDS Operations, TLC

Symmetry == Permutations(Ops) \cup Permutations(Clients)
=============================================================================
