----------------------------- MODULE CommandPath -----------------------------
(***************************************************************************)
(* The path of a command from the controllers to a steward: stamped by a   *)
(* TermSource (which CommandTerm over Lease implements), carried by a      *)
(* network that delays, reorders and loses, and received by the steward's  *)
(* CommandFence.                                                           *)
(***************************************************************************)
EXTENDS TermSource, CommandFence

(* A ratchet from before leases holds a Raft term, at most LeaseTermFloor. *)
ASSUME PathConstants ==
    /\ NoNode \notin Node
    /\ LeaseTermFloor \in Nat
    /\ \A legacy \in Legacy : legacy <= LeaseTermFloor

pathVars == <<sourceVars, fenceVars>>

PathInit == SourceInit /\ FenceInit

(* A controller stamps a command and hands it to the transport. *)
Publish(c) == Give(c) /\ UNCHANGED fenceVars

LeaseMoves ==
    /\ AuthorityNext
    /\ LeaseTermFloor + epoch' <= MaxTerm
    /\ UNCHANGED <<stamp, sent, fenceVars>>

(* The command arrives, in any order with the others. *)
Deliver(c) ==
    /\ c \in sent
    /\ Admit(c, stamp[c]) \/ Refuse(c, stamp[c])
    /\ UNCHANGED sourceVars

(* The steward works on what it admitted, crashes, boots or re-enrolls. *)
StewardStep ==
    /\ \/ \E c \in Cmd : \/ Dispatch(c) \/ DispatchFails(c)
                         \/ Commit(c) \/ ReleaseUnverified(c)
                         \/ Save(c) \/ SaveFails(c)
       \/ Crash \/ Enroll \/ Damage \/ Boot \/ BootUnreadable
    /\ UNCHANGED sourceVars

PathNext ==
    \/ LeaseMoves \/ StewardStep
    \/ \E c \in Cmd : Publish(c) \/ Deliver(c)

PathSpec == PathInit /\ [][PathNext]_pathVars

-----------------------------------------------------------------------------
(* The types of both ends of the path. *)
PathTypeOK ==
    /\ owner \in Node \cup {NoNode} /\ epoch \in Nat /\ leaders \subseteq Node
    /\ stamp \in [Cmd -> Term] /\ sent \subseteq Cmd
    /\ FenceTypeOK

(* What the lease has issued so far bounds every term the steward knows of. *)
Ceiling == LeaseTermFloor + epoch

(* The fence never locks the fleet out: whatever the steward has seen,     *)
(* saved, lost or reloaded, a command stamped with the lease's current     *)
(* term passes it (checkTermFence), the upgrade from Raft terms included.  *)
CurrentTermAdmitted ==
    epoch > 0 /\ up => Admits(TermOf(epoch))

(* A controller that slept through a takeover cannot get in behind it: no  *)
(* steward step admits a command stamped below the term of a command the   *)
(* steward accepted earlier and still remembers.                           *)
StaleStampsFenced ==
    \A c, d \in Cmd :
        /\ Accepted(c) /\ kept[c] \in {"memory", "file"}
        /\ order[c] > 0 /\ order[d] > order[c]
        => stamp[d] >= stamp[c]
=============================================================================
