------------------------------- MODULE MCLeases -------------------------------
(***************************************************************************)
(* Two instances of Lease with interchangeable nodes, over one row: nodes  *)
(* that keep the lease until it expires, and nodes that may release it.    *)
(* A behaviour is one of one of them.  The releasers' local authority is   *)
(* kept in a variable of its own: what is said of local authority is said  *)
(* of nodes that keep the lease, what is said of tokens of both.           *)
(***************************************************************************)
EXTENDS Lease, TLC

VARIABLES
    part,      \* which instance the behaviour is of
    rCached    \* cached, on the nodes that may release

Releasers == INSTANCE Lease WITH
    cached <- rCached,
    LeaseTTL <- 2, MaxRenewalLatency <- 0, MaxStall <- 1, Releasing <- TRUE, MaxTime <- 3

Symmetry == Permutations(Node)

LeasesInit ==
    /\ part \in {"keep", "release"}
    /\ LeaseInit /\ Releasers!LeaseInit

LeasesNext ==
    \/ part = "keep" /\ LeaseNext /\ UNCHANGED <<part, rCached>>
    \/ part = "release" /\ Releasers!LeaseNext /\ UNCHANGED <<part, cached>>

LeasesSpec == LeasesInit /\ [][LeasesNext]_<<part, rCached, leaseVars>>
=============================================================================
