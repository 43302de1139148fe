-------------------------------- MODULE Terms --------------------------------
(* The terms that commands carry.  Lease tokens are lifted above every Raft *)
(* term an earlier version of the controller may have stamped.              *)
EXTENDS Naturals

CONSTANT LeaseTermFloor   \* offset of lease tokens above every Raft term

(* The term of a lease token; a row that was never written has none. *)
TermOf(token) == IF token = 0 THEN 0 ELSE LeaseTermFloor + token
=============================================================================
