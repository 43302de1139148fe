--------------------------- MODULE MCCommandTerm ---------------------------
(* CommandTerm for TLC: nodes and commands are interchangeable. *)
EXTENDS CommandTerm, TLC

Symmetry == Permutations(Node) \cup Permutations(Cmd)
=============================================================================
