--------------------------- MODULE MCCommandFence ---------------------------
(* CommandFence for TLC: the commands are interchangeable. *)
EXTENDS CommandFence, TLC

Symmetry == Permutations(Cmd)
=============================================================================
