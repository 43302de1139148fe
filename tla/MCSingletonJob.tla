--------------------------- MODULE MCSingletonJob ---------------------------
(* SingletonJob with two interchangeable nodes. *)
EXTENDS SingletonJob, TLC

Symmetry == Permutations(Node)
=============================================================================
