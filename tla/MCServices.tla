------------------------------ MODULE MCServices ------------------------------
(***************************************************************************)
(* What must eventually happen, component by component, under the fairness *)
(* that the code's goroutines, timers and mutexes justify.  A behaviour is *)
(* one of one part; the state of the others stays initial, and fairness is *)
(* asked of the active part only.  To bound the instance, the second of    *)
(* the stewards to migrate stays silent.                                   *)
(***************************************************************************)
EXTENDS CommandTerm, PendingQueue, ReplayCache, CommandDelivery, HALifecycle, BatchJob,
        SigningMigration, TLC

CONSTANTS s1, s2, m1, m2, old, shared

VARIABLE part   \* which part the behaviour is of

MCCall == ({s1, s2} \X Direction) \cup ({m1, m2} \X {1})
MCRole == s1 :> "db" @@ s2 :> NoRole
BatchOf(n) == [targets |-> <<s1, s2>>, role |-> MCRole, size |-> n, baseline |-> TRUE,
               storeFails |-> FALSE]
MCJobs == {BatchOf(1), BatchOf(2)}
MCSendsFail == {<<s2, "sync">>, <<s1, "undo">>}
MCReceipts == {<<m1, 1>>, <<s2, "undo">>}
MCStarts == {[plan |-> [signers |-> <<>>, retire |-> {}], trust |-> {old, shared}, attempts |-> 1]}

Parts == {"term", "queue", "cache", "delivery", "manager", "batch", "migration"}

(* Only the active part moves. *)
Keep(p) ==
    /\ UNCHANGED part
    /\ p # "term" => UNCHANGED termVars
    /\ p # "queue" => UNCHANGED queueVars
    /\ p # "cache" => UNCHANGED cacheVars
    /\ p # "delivery" => UNCHANGED deliveryVars
    /\ p # "manager" => UNCHANGED haVars
    /\ p \notin {"batch", "migration"} => UNCHANGED callVars
    /\ p # "batch" => UNCHANGED jobVars
    /\ p # "migration" => UNCHANGED migrationVars

ProgressInit ==
    /\ part \in Parts
    /\ TermInit /\ QueueInit /\ CacheInit /\ DeliveryInit /\ HAInit /\ BatchInit /\ MigrationInit
    /\ part # "batch" => job = BatchOf(1)

ProgressNext ==
    \/ part = "term" /\ TermNext /\ Keep("term")
    \/ part = "queue" /\ QueueNext /\ Keep("queue")
    \/ part = "cache" /\ CacheNext /\ Keep("cache")
    \/ part = "delivery" /\ DeliveryNext /\ Keep("delivery")
    \/ part = "manager" /\ HANext /\ Keep("manager")
    \/ part = "batch" /\ BatchNext /\ Keep("batch")
    \/ part = "migration" /\ MigrationNext /\ steward'[<<m2, 1>>] # "took" /\ Keep("migration")

progressVars == <<part, termVars, queueVars, cacheVars, deliveryVars, haVars, callVars, jobVars,
                  migrationVars>>

-----------------------------------------------------------------------------
(* The store answers or the read's context ends, and publishers run. *)
TermFairness == \A c \in Cmd : WF_termVars(part = "term" /\ PublisherRuns(c))

(* Goroutines run; the steward subscribes once it has built its handler. *)
QueueFairness ==
    /\ WF_queueVars(part = "queue" /\ Subscribe) /\ WF_queueVars(part = "queue" /\ DrainStep)
    /\ \A c \in Numbers : WF_queueVars(part = "queue" /\ LiveCalls(c))

(* Goroutines, timers and the transport keep going; nobody has to restart, *)
(* reconnect or forget.                                                    *)
DeliveryFairness ==
    /\ WF_deliveryVars(part = "delivery" /\ ControllerStep)
    /\ WF_deliveryVars(part = "delivery" /\ StewardReceives)

(* A goroutine that can go on does.  Go's mutexes starve nobody, so a call *)
(* that finds its mutex free time and again gets it; and a select whose    *)
(* context is cancelled does not choose its ticker every time.  Nobody has *)
(* to call Start or Stop.                                                  *)
HAFairness ==
    /\ \A c \in Caller : SF_haVars(part = "manager" /\ CallerStep(c))
    /\ \A r \in Run :
         /\ WF_haVars(part = "manager" /\ LoopsEnd(r)) /\ WF_haVars(part = "manager" /\ HealthStep(r))
         /\ WF_haVars(part = "manager" /\ MonitorStep(r)) /\ SF_haVars(part = "manager" /\ MonitorEnds(r))
    /\ WF_haVars(part = "manager" /\ FailoverBegins) /\ WF_haVars(part = "manager" /\ FailoverEnds)

(* The executor's goroutine and the handlers of events and timers keep     *)
(* running; nothing makes a steward answer.                                *)
BatchFairness ==
    /\ WF_batchVars(part = "batch" /\ ExecutorStep)
    /\ \A c \in Call :
         /\ WF_batchVars(part = "batch" /\ TimerFires(c) /\ UNCHANGED jobVars)
         /\ WF_batchVars(part = "batch" /\ HandleTimeout(c) /\ UNCHANGED jobVars)
         /\ \A e \in Callback : WF_batchVars(part = "batch" /\ BatchCallback(c, e))

(* The workers run, the hold timers fire; no steward has to answer. *)
MigrationFairness ==
    /\ \A s \in Migrant : WF_migrateVars(part = "migration" /\ WorkerStep(s))
    /\ \A c \in Call : WF_migrateVars(part = "migration" /\ HoldCeiling(c))

ProgressSpec ==
    /\ ProgressInit /\ [][ProgressNext]_progressVars
    /\ TermFairness /\ QueueFairness /\ DeliveryFairness /\ HAFairness
    /\ BatchFairness /\ MigrationFairness

-----------------------------------------------------------------------------
(* The state of every part has the types its module gives it. *)
ServicesTypeOK ==
    /\ TermTypeOK /\ QueueTypeOK /\ CacheTypeOK /\ DeliveryTypeOK /\ HATypeOK
    /\ CallbackTypeOK /\ BatchTypeOK /\ MigrationTypeOK
=============================================================================
