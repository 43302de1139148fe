------------------------------ MODULE BatchJob ------------------------------
(***************************************************************************)
(* A rolling batch job (RollingBatchExecutor): the batches run one after   *)
(* another; a batch is dispatched through the publisher's callbacks, whose *)
(* results come back over a channel as long as the batch; a failed batch   *)
(* makes the executor undo the completed ones, or pause the job.           *)
(*                                                                         *)
(* The call <<s, "sync">> is the job's command to steward s, and           *)
(* <<s, "undo">> the compensating one.                                     *)
(***************************************************************************)
EXTENDS Callbacks, BatchPartition

CONSTANTS
    Steward,
    Jobs,        \* the jobs to consider: [targets, role, size, baseline, storeFails], the
                 \* last one whether a write to the job store may fail while it runs
    SendsFail    \* calls that may fail to be sent, or be refused by the lockdown gate

Direction == {"sync", "undo"}

ASSUME BatchConstants ==
    /\ Steward \X Direction \subseteq Call
    /\ SendsFail \subseteq Call

VARIABLES
    job,      \* the job, as it was created
    batches,  \* what partitionTargets returned
    status,   \* the job's status in the store
    steps,    \* steps[i]: the status of step i in the store
    at,       \* where Execute is
    step,     \* the step in hand
    dir,      \* whether it is being run or undone
    next,     \* index in the batch of the steward to publish to next
    inbox,    \* the dispatch's channel of results
    got,      \* how many results the dispatch has collected
    bad,      \* stewards that a collected result names as failed
    todo,     \* steps that remain to be undone
    undone,   \* allSucceeded so far
    gated     \* history: calls that the lockdown gate refused

jobVars == <<job, batches, status, steps, at, step, dir, next, inbox, got, bad, todo, undone,
             gated>>
batchVars == <<callVars, jobVars>>

StepStatus == {"none", "running", "completed", "failed", "rolled_back"}
JobStatus == {"pending", "running", "completed", "paused", "failed", "rolled_back"}

BatchTypeOK ==
    /\ job \in Jobs
    /\ status \in JobStatus
    /\ \A i \in DOMAIN steps : steps[i] \in StepStatus
    /\ at \in {"start", "advance", "publish", "report", "rollback", "over"}
    /\ step \in 0 .. Len(batches) /\ dir \in Direction
    /\ gated \subseteq Call

BatchInit ==
    /\ CallbackInit
    /\ job \in Jobs
    /\ batches = <<>> /\ status = "pending" /\ steps = <<>>
    /\ at = "start" /\ step = 0 /\ dir = "sync" /\ next = 1
    /\ inbox = <<>> /\ got = 0 /\ bad = {}
    /\ todo = <<>> /\ undone = TRUE /\ gated = {}

-----------------------------------------------------------------------------
(* Fault: the quorum checker is not asked. *)
PartitionWithoutRoles(j) == NaivePartition(DedupeIDs(j.targets), j.size)

PartitionTargets(j) == Partition(DedupeIDs(j.targets), j.role, j.size)

(* Execute, up to the loop: partition, then mark the job running.  A       *)
(* failed lookup or a failed write ends it.                                *)
Execute ==
    /\ at = "start"
    /\ batches' = PartitionTargets(job)
    /\ steps' = [i \in DOMAIN batches' |-> "none"]
    /\ \/ status' = "running" /\ at' = "advance"
       \/ job.storeFails /\ status' = status /\ at' = "over"
    /\ UNCHANGED <<callVars, job, step, dir, next, inbox, got, bad, todo, undone, gated>>

(* dispatchBatch and dispatchRollbackBatch open a channel. *)
StartDispatch(d, i) ==
    /\ at' = "publish" /\ dir' = d /\ step' = i
    /\ next' = 1 /\ inbox' = <<>> /\ got' = 0 /\ bad' = {}

KeepDispatch == UNCHANGED <<step, dir, next, inbox, got, bad>>

(* The loop over the batches: runBatchStep marks the step running. *)
HasNext == step < Len(batches)

RunBatchStep ==
    /\ at = "advance" /\ HasNext
    /\ \/ steps' = [steps EXCEPT ![step + 1] = "running"] /\ StartDispatch("sync", step + 1)
       \/ job.storeFails /\ at' = "over" /\ steps' = steps /\ KeepDispatch
    /\ UNCHANGED <<callVars, job, batches, status, todo, undone, gated>>

AllBatchesDone ==
    /\ at = "advance" /\ step = Len(batches)
    /\ at' = "over"
    /\ status' = "completed" \/ (job.storeFails /\ status' = status)
    /\ UNCHANGED <<callVars, job, batches, steps, todo, undone, gated>> /\ KeepDispatch

-----------------------------------------------------------------------------
(* Publishing to the batch, one steward after another. *)

Publishing == at = "publish" /\ next <= Len(batches[step])
Callee == <<batches[step][next], dir>>

KeepJob == UNCHANGED <<job, batches, status, steps, step, dir, got, bad, todo, undone>>

BatchSend ==
    /\ Publishing
    /\ Send(Callee) \/ Arm(Callee)
    /\ UNCHANGED <<at, next, inbox, gated>> /\ KeepJob

BatchRegister ==
    /\ Publishing
    /\ Register(Callee)
    /\ next' = next + 1
    /\ UNCHANGED <<at, inbox, gated>> /\ KeepJob

BatchSendFails ==
    /\ Publishing /\ Callee \in SendsFail
    /\ SendFails(Callee)
    /\ gated' = gated \/ (steward'[Callee] = "none" /\ gated' = gated \cup {Callee})
    /\ at' = "report"
    /\ UNCHANGED <<next, inbox>> /\ KeepJob

(* The channel has room for one result per member of the batch. *)
HasRoom == Len(inbox) < Len(batches[step])

(* Fault: the failure is logged and no result sent. *)
LogSendFailure ==
    /\ at = "report"
    /\ next' = next + 1 /\ at' = "publish"
    /\ UNCHANGED <<callVars, inbox, gated>> /\ KeepJob

(* The executor sends its own result for a call that it could not publish: *)
(* a refused steward counts as done, any other one as failed.  It waits    *)
(* while the channel is full.                                              *)
ReportSendFailure ==
    /\ at = "report" /\ HasRoom
    /\ inbox' = Append(inbox, [from |-> Callee[1], success |-> Callee \in gated])
    /\ next' = next + 1 /\ at' = "publish"
    /\ UNCHANGED <<callVars, gated>> /\ KeepJob

(* Fault: whatever is not a failure counts as a success. *)
NotAFailure(e) == e # "failed"

(* OnComplete and OnTimeout of a call: the result goes into the channel of *)
(* the dispatch it belongs to.  Only a completion counts as a success.     *)
IsSuccess(e) == e = "completed"

Dispatching == at \in {"publish", "report"}

BatchCallback(c, e) ==
    /\ RunCallback(c, e)
    /\ IF Dispatching /\ c[2] = dir /\ c[1] \in ToSet(batches[step])
       THEN /\ HasRoom
            /\ inbox' = Append(inbox, [from |-> c[1], success |-> IsSuccess(e)])
       ELSE inbox' = inbox
    /\ UNCHANGED <<at, next, gated>> /\ KeepJob

Collect ==
    /\ at = "publish" /\ next > Len(batches[step])
    /\ got < Len(batches[step]) /\ inbox # <<>>
    /\ inbox' = Tail(inbox)
    /\ got' = got + 1
    /\ bad' = IF Head(inbox).success THEN bad ELSE bad \cup {Head(inbox).from}
    /\ UNCHANGED <<callVars, job, batches, status, steps, at, step, dir, next, todo, undone, gated>>

(* Fault: the batch is over when the last command is sent. *)
AllSent(d) == at = "publish" /\ dir = d /\ next > Len(batches[step])

Collected(d) == at = "publish" /\ dir = d /\ got = Len(batches[step])

-----------------------------------------------------------------------------
StepCompleted ==
    /\ Collected("sync") /\ bad = {}
    /\ \/ steps' = [steps EXCEPT ![step] = "completed"] /\ at' = "advance"
       \/ job.storeFails /\ steps' = steps /\ at' = "over"
    /\ UNCHANGED <<callVars, job, batches, status, todo, undone, gated>> /\ KeepDispatch

(* handleFailedStep: a job without a baseline is paused. *)
StepFailed ==
    /\ Collected("sync") /\ bad # {}
    /\ steps' = [steps EXCEPT ![step] = "failed"] \/ (job.storeFails /\ steps' = steps)
    /\ IF job.baseline
       THEN at' = "rollback" /\ status' = status
       ELSE at' = "over" /\ (status' = "paused" \/ (job.storeFails /\ status' = status))
    /\ UNCHANGED <<callVars, job, batches, todo, undone, gated>> /\ KeepDispatch

(* setRollbackJobStatus: a failed write is only logged. *)
SetRollbackJobStatus(st) ==
    /\ at' = "over"
    /\ status' = st \/ (job.storeFails /\ status' = status)

CompletedStepsOf(ss) == SelectSeq([i \in DOMAIN ss |-> i], LAMBDA i : ss[i] = "completed")

RollbackAppliedSteps ==
    /\ at = "rollback"
    /\ LET applied == CompletedStepsOf(steps)
       IN \/ /\ applied = <<>>
             /\ SetRollbackJobStatus("paused")
             /\ todo' = todo /\ KeepDispatch
          \/ /\ job.storeFails
             /\ SetRollbackJobStatus("failed")
             /\ todo' = todo /\ KeepDispatch
          \/ /\ applied # <<>>
             /\ StartDispatch("undo", Head(applied))
             /\ todo' = Tail(applied) /\ status' = status
    /\ UNCHANGED <<callVars, job, batches, steps, undone, gated>>

(* Fault: the last step decides. *)
LastUndone == bad = {}

(* allSucceeded of rollbackSteps. *)
AllUndone == undone /\ bad = {}

(* One compensating dispatch is over; a partial failure does not stop the  *)
(* others.                                                                 *)
StepUndone ==
    /\ Collected("undo")
    /\ \/ bad = {} /\ steps' = [steps EXCEPT ![step] = "rolled_back"]
       \/ (bad # {} \/ job.storeFails) /\ steps' = steps
    /\ undone' = AllUndone
    /\ IF todo # <<>>
       THEN StartDispatch("undo", Head(todo)) /\ todo' = Tail(todo) /\ status' = status
       ELSE /\ SetRollbackJobStatus(IF undone' THEN "rolled_back" ELSE "failed")
            /\ todo' = todo /\ KeepDispatch
    /\ UNCHANGED <<callVars, job, batches, gated>>

-----------------------------------------------------------------------------
ExecutorStep ==
    \/ Execute \/ RunBatchStep \/ AllBatchesDone
    \/ BatchSend \/ BatchRegister \/ BatchSendFails \/ ReportSendFailure
    \/ Collect \/ StepCompleted \/ StepFailed \/ RollbackAppliedSteps \/ StepUndone

CallMoves(c) ==
    \/ CallProceeds(c) /\ UNCHANGED jobVars
    \/ \E e \in Callback : BatchCallback(c, e)

BatchNext == ExecutorStep \/ \E c \in Call : CallMoves(c)

BatchSpec == BatchInit /\ [][BatchNext]_batchVars

-----------------------------------------------------------------------------
(* The steward ended the command with success, or was skipped. *)
Did(c) == "completed" \in made[c] \/ c \in gated

(* The partition of the targets: every target in one batch, no batch       *)
(* larger than asked for, no two stewards of one cluster_role together.    *)
PartitionIsSound ==
    at # "start" => /\ CoversOnce(batches, job.targets)
                    /\ WithinSize(batches, job.size)
                    /\ RolesApart(batches, job.role)

(* The executor advances to the next batch "only when all members of the   *)
(* current batch succeed": a step is completed only if every steward of it *)
(* reported completion or was refused by the lockdown gate.                *)
AdvanceOnlyOnSuccess ==
    \A i \in DOMAIN steps : steps[i] \in {"completed", "rolled_back"} =>
        \A s \in ToSet(batches[i]) : Did(<<s, "sync">>)

(* A job that says rolled_back has undone every step that it completed, on *)
(* every steward of the step that the lockdown gate did not refuse.        *)
RolledBackMeansUndone ==
    status = "rolled_back" =>
        \A i \in DOMAIN steps : steps[i] \in {"completed", "rolled_back"} =>
            \A s \in ToSet(batches[i]) : Did(<<s, "undo">>)

(* While the job moves forward, two stewards of one cluster_role never     *)
(* have its command at the same time: the partition keeps them in          *)
(* different batches and a batch is over before the next one is sent.      *)
AtWork(c) == steward[c] \in {"has", "took"}

WaveKeepsQuorum ==
    \A s, t \in Steward :
        /\ s # t /\ job.role[s] = job.role[t] /\ job.role[s] # NoRole
        => ~(AtWork(<<s, "sync">>) /\ AtWork(<<t, "sync">>))

(* A step fails only because of one of its stewards: one that failed, did  *)
(* not answer in time, or could not be reached.                            *)
FailedStepHasFailure ==
    \A i \in DOMAIN steps : steps[i] = "failed" =>
        \E s \in ToSet(batches[i]) :
            \/ made[<<s, "sync">>] \cap {"failed", "timeout"} # {}
            \/ pub[<<s, "sync">>] = "failed"

(* The dispatch waits for all callbacks "(success, failure, or timeout)"   *)
(* and no longer: the execution of a job ends, though stewards stay silent.*)
ExecuteEnds == (at # "start") ~> (at = "over")
=============================================================================
