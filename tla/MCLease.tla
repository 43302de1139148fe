------------------------------- MODULE MCLease -------------------------------
(* Lease with two interchangeable nodes. *)
EXTENDS Lease, TLC

Symmetry == Permutations(Node)
=============================================================================
