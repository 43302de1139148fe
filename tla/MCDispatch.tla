------------------------------ MODULE MCDispatch ------------------------------
(***************************************************************************)
(* The three callers of the publisher's callbacks side by side: a batch    *)
(* job, upgrade requests (two upgrades, or an upgrade and a rollback), the *)
(* signing migration.  A behaviour is one of one part; the state of the    *)
(* others stays initial.  To bound the instance, the publisher is stopped  *)
(* in "rollback" only, and the controller restarts only when a migration   *)
(* does not need legacy keys.                                              *)
(***************************************************************************)
EXTENDS BatchJob, UpgradeDispatch, SigningMigration, TLC

CONSTANTS s1, s2, s3, r1, r2, r3, m1, shared, old

VARIABLE part   \* which part the behaviour is of

MCCall == ({s1, s2, s3} \X Direction) \cup {<<r1, s1>>, <<r1, s2>>, <<r2, s2>>, <<r3, s2>>}
            \cup ({m1} \X (1 .. 4))

MCRole == s1 :> "db" @@ s2 :> NoRole @@ s3 :> "db"
BatchOf(t, n, b, f) ==
    [targets |-> t, role |-> MCRole, size |-> n, baseline |-> b, storeFails |-> f]
MCJobs == {BatchOf(<<s1, s2, s1, s3>>, 2, FALSE, FALSE), BatchOf(<<s1, s3>>, 0, TRUE, TRUE),
           BatchOf(<<s3, s2, s1>>, 1, TRUE, FALSE)}
MCSendsFail == {<<s1, "sync">>, <<s3, "undo">>}

MCMatched == r1 :> <<s1, s2>> @@ r2 :> <<s2>> @@ r3 :> <<s2>>

From(signers, retire, trusted, n) ==
    [plan |-> [signers |-> signers, retire |-> retire], trust |-> trusted, attempts |-> n]
MCStarts == {From(<<old>>, {old}, {old}, 1), From(<<>>, {old}, {old, shared}, 2),
             From(<<>>, {}, {shared}, 1)}

MCReceipts == {<<s2, "sync">>, <<r3, s2>>}
MCDuplicates == {<<r3, s2>>}
MCUnsafe == {<<r2, s2>>, <<r3, s2>>}

dispatchVars == <<callVars, jobVars, record, asking, target, migrationVars, part>>

DispatchInit ==
    /\ part \in {"batch", "upgrade", "rollback", "migration"}
    /\ BatchInit /\ UpgradeInit /\ MigrationInit
    /\ part # "batch" => job = CHOOSE j \in Jobs : TRUE
    /\ part # "migration" => plan = (CHOOSE st \in Starts : TRUE).plan

DispatchNext ==
    \/ part = "batch" /\ BatchNext /\ UNCHANGED <<record, asking, target, migrationVars, part>>
    \/ /\ part \in {"upgrade", "rollback"} /\ UpgradeNext
       /\ asking'[IF part = "upgrade" THEN r3 ELSE r1] = "idle"
       /\ stopped' => part = "rollback"
       /\ UNCHANGED <<jobVars, migrationVars, part>>
    \/ /\ part = "migration" /\ MigrationNext
       /\ restarts' > 0 => plan.signers = <<>>
       /\ UNCHANGED <<jobVars, record, asking, target, part>>

DispatchSpec == DispatchInit /\ [][DispatchNext]_dispatchVars
=============================================================================
