------------------------------ MODULE TermSource ------------------------------
(***************************************************************************)
(* What a steward may assume of the terms on its commands: each one is     *)
(* stamped once, with 0 or with the term of some lease token that had      *)
(* already been issued, from any controller node.  Stale terms are         *)
(* allowed; terms from the future are not.                                 *)
(***************************************************************************)
EXTENDS LeaseAuthority, Commands, Terms

VARIABLES
    stamp,   \* stamp[c]: the term of command c
    sent     \* the commands stamped so far

sourceVars == <<authorityVars, stamp, sent>>

SourceInit ==
    /\ AuthorityInit
    /\ stamp = [c \in Cmd |-> 0]
    /\ sent = {}

Give(c) ==
    /\ c \notin sent
    /\ \E token \in 0 .. epoch : stamp' = [stamp EXCEPT ![c] = TermOf(token)]
    /\ sent' = sent \cup {c}
    /\ UNCHANGED authorityVars

SourceNext ==
    \/ AuthorityNext /\ UNCHANGED <<stamp, sent>>
    \/ \E c \in Cmd : Give(c)

SourceSpec == SourceInit /\ [][SourceNext]_sourceVars
=============================================================================
