------------------------------ MODULE MCCommand ------------------------------
(***************************************************************************)
(* The term cache of the controllers, and the path of a command through    *)
(* the steward's fence, side by side for TLC.  A behaviour is one of one   *)
(* part; the state of the other stays initial.                             *)
(***************************************************************************)
EXTENDS CommandPath, CommandTerm, TLC

VARIABLE part   \* which part the behaviour is of

(* Both parts are over the one abstract lease. *)
controllerVars == <<now, cache, reading, caller, node, given, ended>>
stewardEnd == <<fenceVars, stamp, sent>>

Symmetry == Permutations(Node) \cup Permutations(Cmd)

CommandInit ==
    /\ part \in {"term", "path"}
    /\ TermInit /\ PathInit
    /\ part = "term" => mark = 0

CommandNext ==
    \/ part = "term" /\ TermNext /\ UNCHANGED <<part, stewardEnd>>
    \/ part = "path" /\ PathNext /\ UNCHANGED <<part, controllerVars>>

commandVars == <<part, controllerVars, pathVars>>

CommandSpec == CommandInit /\ [][CommandNext]_commandVars
=============================================================================
