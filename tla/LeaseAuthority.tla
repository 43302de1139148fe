--------------------------- MODULE LeaseAuthority ---------------------------
(***************************************************************************)
(* What the lease promises to the code that gates work on it: a current    *)
(* owner with a fencing epoch, and a set of leaders (the nodes that pass   *)
(* HasLeadership) which is empty or holds the owner alone.  Ownership      *)
(* moves only while there is no leader, and always to a higher epoch.      *)
(***************************************************************************)
EXTENDS Naturals

CONSTANTS Node, NoNode

VARIABLES owner, epoch, leaders

authorityVars == <<owner, epoch, leaders>>

AuthorityInit == owner = NoNode /\ epoch = 0 /\ leaders = {}

(* A node claims an expired lease, its own included. *)
TakeOver(n) ==
    /\ leaders = {}
    /\ owner' = n
    /\ epoch' = epoch + 1
    /\ UNCHANGED leaders

(* The owner learns that it owns the lease. *)
Lead ==
    /\ owner \in Node
    /\ leaders' = {owner}
    /\ UNCHANGED <<owner, epoch>>

(* The leader's window lapses, or it learns it has lost the lease. *)
StepDown ==
    /\ leaders' = {}
    /\ UNCHANGED <<owner, epoch>>

AuthorityNext == Lead \/ StepDown \/ \E n \in Node : TakeOver(n)

AuthoritySpec == AuthorityInit /\ [][AuthorityNext]_authorityVars
=============================================================================
