------------------------------ MODULE MCBatchJob ------------------------------
(* A batch job of two stewards for TLC, in one batch, and nothing fails to *)
(* be sent or stored.                                                      *)
EXTENDS BatchJob, TLC

CONSTANTS s1, s2

MCCall == Steward \X Direction
MCJobs == {[targets |-> <<s1, s2>>, role |-> [s \in Steward |-> NoRole], size |-> 2,
            baseline |-> TRUE, storeFails |-> FALSE]}
=============================================================================
