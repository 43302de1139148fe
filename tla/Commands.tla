------------------------------- MODULE Commands -------------------------------
(* The commands controllers publish to one steward. *)
CONSTANT Cmd
=============================================================================
