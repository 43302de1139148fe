----------------------------- MODULE SingletonJob -----------------------------
(***************************************************************************)
(* SingletonJob.RunIfLeader on every node, composed with the lease it      *)
(* contends on.  Each cycle claims the lease, runs fn under a cancellable  *)
(* context, and starts two goroutines beside it: the renewer               *)
(* (renewWhileRunning / renewWithRetry) and the watchdog                   *)
(* (cancelAtAuthorityDeadline).  Every goroutine is its own process here;  *)
(* the lease's store calls are the ones of module Lease.                   *)
(*                                                                         *)
(* A nil Manager (single-server mode) runs fn unconditionally and has no   *)
(* peer to exclude; it is not modelled.                                    *)
(***************************************************************************)
EXTENDS Lease

CONSTANTS
    MaxWake,    \* longest a due watchdog waits to be scheduled
    MaxAcquire  \* longest a granted TryAcquire answer takes to be handled

ASSUME JobConstants == MaxWake \in Nat /\ MaxAcquire \in Nat

VARIABLES
    job,       \* job[n]: where RunIfLeader is on node n
    ctxDone,   \* ctxDone[n]: is runCtx cancelled?
    renewer,   \* renewer[n]: state of the renewal goroutine
    tickAt,    \* tickAt[n]: instant of the renewer's next ticker tick
    watching,  \* watching[n]: is the watchdog goroutine alive?
    wakeAt     \* wakeAt[n]: instant at which its timer fires

jobVars == <<job, ctxDone, renewer, tickAt, watching, wakeAt>>
vars == <<leaseVars, jobVars>>

JobInit ==
    /\ LeaseInit
    /\ job = [n \in Node |-> "idle"]
    /\ ctxDone = [n \in Node |-> TRUE]
    /\ renewer = [n \in Node |-> "off"]
    /\ tickAt = [n \in Node |-> 0]
    /\ watching = [n \in Node |-> FALSE]
    /\ wakeAt = [n \in Node |-> 0]

-----------------------------------------------------------------------------
(* RunIfLeader. *)

RunIfLeader(n) ==
    /\ job[n] = "idle"
    /\ TryAcquire(n)
    /\ job' = [job EXCEPT ![n] = "acquiring"]
    /\ UNCHANGED <<ctxDone, renewer, tickAt, watching, wakeAt>>

(* The claim succeeded: fn starts, beside a renewer and a watchdog.  The   *)
(* authority the answer carries is not re-checked first.                   *)
StartWork(n) ==
    /\ job[n] = "acquiring" /\ call[n].phase = "granted"
    /\ Return(n)
    /\ job' = [job EXCEPT ![n] = "running"]
    /\ ctxDone' = [ctxDone EXCEPT ![n] = FALSE]
    /\ renewer' = [renewer EXCEPT ![n] = "waiting"]
    /\ tickAt' = [tickAt EXCEPT ![n] = now + RenewalInterval]
    /\ watching' = [watching EXCEPT ![n] = TRUE]
    /\ wakeAt' = [wakeAt EXCEPT ![n] = now]

(* The claim was contended or failed: skip this cycle. *)
SkipCycle(n) ==
    /\ job[n] = "acquiring"
    /\ (call[n].phase = "contended" /\ Return(n)) \/ Abandon(n)
    /\ job' = [job EXCEPT ![n] = "idle"]
    /\ UNCHANGED <<ctxDone, renewer, tickAt, watching, wakeAt>>

(* fn returns; RunIfLeader cancels runCtx and waits for the renewer. *)
FnReturns(n) ==
    /\ job[n] = "running"
    /\ job' = [job EXCEPT ![n] = "draining"]
    /\ ctxDone' = [ctxDone EXCEPT ![n] = TRUE]
    /\ UNCHANGED <<leaseVars, renewer, tickAt, watching, wakeAt>>

(* Fault: RunIfLeader returns without waiting for its renewer. *)
CycleEndsEarly(n) ==
    /\ job[n] = "draining"
    /\ job' = [job EXCEPT ![n] = "idle"]
    /\ tickAt' = [tickAt EXCEPT ![n] = 0]
    /\ wakeAt' = [wakeAt EXCEPT ![n] = 0]
    /\ UNCHANGED <<leaseVars, ctxDone, renewer, watching>>

CycleEnds(n) ==
    /\ job[n] = "draining" /\ renewer[n] = "off"
    /\ job' = [job EXCEPT ![n] = "idle"]
    /\ tickAt' = [tickAt EXCEPT ![n] = 0]
    /\ wakeAt' = [wakeAt EXCEPT ![n] = 0]
    /\ UNCHANGED <<leaseVars, ctxDone, renewer, watching>>

(* The caller's own context ends (the controller is stopping). *)
ParentCancels(n) ==
    /\ job[n] = "running" /\ ~ctxDone[n]
    /\ ctxDone' = [ctxDone EXCEPT ![n] = TRUE]
    /\ UNCHANGED <<leaseVars, job, renewer, tickAt, watching, wakeAt>>

-----------------------------------------------------------------------------
(* The watchdog. *)

(* Fault: the watchdog acts on a dropped entry only, not on a lapsed one. *)
WatchEntryOnly(n) ==
    /\ watching[n] /\ ~ctxDone[n] /\ now >= wakeAt[n]
    /\ IF ~HasEntry(n)
       THEN /\ ctxDone' = [ctxDone EXCEPT ![n] = TRUE]
            /\ watching' = [watching EXCEPT ![n] = FALSE]
            /\ UNCHANGED wakeAt
       ELSE /\ wakeAt' = [wakeAt EXCEPT ![n] = now + 1]
            /\ UNCHANGED <<ctxDone, watching>>
    /\ UNCHANGED <<leaseVars, job, renewer, tickAt>>

(* It wakes: authority gone or lapsed cancels fn, otherwise it re-arms. *)
Watch(n) ==
    /\ watching[n] /\ ~ctxDone[n] /\ now >= wakeAt[n]
    /\ IF ~HasEntry(n) \/ LocalAuthorityDeadline(n) <= now
       THEN /\ ctxDone' = [ctxDone EXCEPT ![n] = TRUE]
            /\ watching' = [watching EXCEPT ![n] = FALSE]
            /\ UNCHANGED wakeAt
       ELSE /\ wakeAt' = [wakeAt EXCEPT ![n] = LocalAuthorityDeadline(n)]
            /\ UNCHANGED <<ctxDone, watching>>
    /\ UNCHANGED <<leaseVars, job, renewer, tickAt>>

WatchdogExits(n) ==
    /\ watching[n] /\ ctxDone[n]
    /\ watching' = [watching EXCEPT ![n] = FALSE]
    /\ UNCHANGED <<leaseVars, job, ctxDone, renewer, tickAt, wakeAt>>

-----------------------------------------------------------------------------
(* The renewer. *)

(* select may take a ready tick even though the context is done. *)
RenewOnTick(n) ==
    /\ renewer[n] = "waiting" /\ now >= tickAt[n]
    /\ Renew(n)
    /\ renewer' = [renewer EXCEPT ![n] = "renewing"]
    /\ tickAt' = [tickAt EXCEPT ![n] = @ + RenewalInterval]
    /\ UNCHANGED <<job, ctxDone, watching, wakeAt>>

(* The answer arrived: the renewal held, or the Manager dropped the entry. *)
RenewAnswered(n) ==
    /\ renewer[n] = "renewing"
    /\ Return(n)
    /\ renewer' = [renewer EXCEPT ![n] =
                     IF cached'[n] = NoAuthority THEN "lost" ELSE "waiting"]
    /\ UNCHANGED <<job, ctxDone, tickAt, watching, wakeAt>>

(* The call failed or timed out: retry while authority remains. *)
RenewFailed(n) ==
    /\ renewer[n] = "renewing"
    /\ Abandon(n)
    /\ renewer' = [renewer EXCEPT ![n] =
                     IF HasEntry(n) /\ now < LocalAuthorityDeadline(n)
                     THEN "backoff" ELSE "lost"]
    /\ UNCHANGED <<job, ctxDone, tickAt, watching, wakeAt>>

RenewRetry(n) ==
    /\ renewer[n] = "backoff" /\ ~ctxDone[n]
    /\ Renew(n)
    /\ renewer' = [renewer EXCEPT ![n] = "renewing"]
    /\ UNCHANGED <<job, ctxDone, tickAt, watching, wakeAt>>

(* The renewer gives up and cancels fn. *)
OnLost(n) ==
    /\ \/ renewer[n] = "lost"
       \/ renewer[n] = "backoff" /\ ctxDone[n]
    /\ renewer' = [renewer EXCEPT ![n] = "off"]
    /\ ctxDone' = [ctxDone EXCEPT ![n] = TRUE]
    /\ UNCHANGED <<leaseVars, job, tickAt, watching, wakeAt>>

(* Fault: the renewer listens to the caller's context, not to runCtx. *)
ExitsWithParent(n) ==
    /\ renewer[n] = "waiting" /\ ctxDone[n] /\ job[n] = "running"
    /\ renewer' = [renewer EXCEPT ![n] = "off"]
    /\ UNCHANGED <<leaseVars, job, ctxDone, tickAt, watching, wakeAt>>

RenewerExits(n) ==
    /\ renewer[n] = "waiting" /\ ctxDone[n]
    /\ renewer' = [renewer EXCEPT ![n] = "off"]
    /\ UNCHANGED <<leaseVars, job, ctxDone, tickAt, watching, wakeAt>>

-----------------------------------------------------------------------------
(* The environment. *)

(* Time waits for a due watchdog and for a granted claim only so long. *)
JobTick ==
    /\ Tick
    /\ \A n \in Node : watching[n] /\ ~ctxDone[n] => now < wakeAt[n] + MaxWake
    /\ \A n \in Node : job[n] = "acquiring" /\ call[n].phase = "granted" =>
          now < call[n].start + MaxAcquire
    /\ UNCHANGED jobVars

StoreStep ==
    /\ \/ \E n \in Node : Begin(n) \/ Apply(n)
       \/ \E s \in late : LateBegin(s) \/ LateApply(s) \/ LateDrop(s)
    /\ UNCHANGED jobVars

JobCrash(n) ==
    /\ CrashRestart(n)
    /\ job' = [job EXCEPT ![n] = "idle"]
    /\ ctxDone' = [ctxDone EXCEPT ![n] = TRUE]
    /\ renewer' = [renewer EXCEPT ![n] = "off"]
    /\ tickAt' = [tickAt EXCEPT ![n] = 0]
    /\ watching' = [watching EXCEPT ![n] = FALSE]
    /\ wakeAt' = [wakeAt EXCEPT ![n] = 0]

RenewerStep(n) == RenewOnTick(n) \/ RenewAnswered(n) \/ RenewFailed(n) \/ RenewRetry(n)
                  \/ OnLost(n) \/ RenewerExits(n)
WatchdogStep(n) == Watch(n) \/ WatchdogExits(n)
CycleStep(n) == RunIfLeader(n) \/ StartWork(n) \/ SkipCycle(n) \/ FnReturns(n)
                \/ CycleEnds(n) \/ ParentCancels(n)

JobNext == JobTick \/ StoreStep
           \/ \E n \in Node : CycleStep(n) \/ WatchdogStep(n) \/ RenewerStep(n) \/ JobCrash(n)

JobSpec == JobInit /\ [][JobNext]_vars

(* The goroutines of a node get scheduled, and a renewal call ends: its    *)
(* context has a deadline (renewBounded) and is cancelled with the cycle.  *)
Fairness == \A n \in Node :
    /\ WF_vars(WatchdogStep(n))
    /\ WF_vars(OnLost(n) \/ RenewerExits(n))
    /\ WF_vars(RenewAnswered(n) \/ RenewFailed(n))
    /\ WF_vars(CycleEnds(n))

FairJobSpec == JobSpec /\ Fairness

-----------------------------------------------------------------------------
(* Properties. *)

(* The types of the lease and of the goroutines RunIfLeader starts. *)
JobTypeOK ==
    /\ LeaseTypeOK
    /\ job \in [Node -> {"idle", "acquiring", "running", "draining"}]
    /\ ctxDone \in [Node -> BOOLEAN]
    /\ renewer \in [Node -> {"off", "waiting", "renewing", "backoff", "lost"}]
    /\ tickAt \in [Node -> Nat]
    /\ watching \in [Node -> BOOLEAN]
    /\ wakeAt \in [Node -> Nat]

(* Nothing of a cycle outlives it: once RunIfLeader has returned, no       *)
(* renewer of that cycle runs and none of its renewals is outstanding, so  *)
(* the next cycle's claim never overlaps an old renewal; and a context is  *)
(* live only while fn is running.                                          *)
CycleOwnsItsCalls ==
    \A n \in Node :
        /\ job[n] \in {"idle", "acquiring"} => renewer[n] = "off" /\ ctxDone[n]
        /\ job[n] = "idle" => call[n] = Idle
        /\ job[n] = "draining" => ctxDone[n]

(* fn is running under a context nobody has cancelled. *)
Working(n) == job[n] = "running" /\ ~ctxDone[n]

(* SingletonJob's promise: fn runs, uncancelled, on at most one node at a  *)
(* time, even while renewals are slow, fail, or are answered late.         *)
NoDuplicateRun == \A m, n \in Node : Working(m) /\ Working(n) => m = n

(* renewWhileRunning never lets a cycle slide to another fencing token:    *)
(* while fn runs, the cached token is the one the cycle was started with.  *)
CycleKeepsToken ==
    [][\A n \in Node :
         job[n] = "running" /\ job'[n] = "running" /\ HasEntry(n) /\ HasEntry(n)'
           => cached'[n].token = cached[n].token]_vars

(* cancelAtAuthorityDeadline: a node that runs fn without local authority  *)
(* cancels it (or regains authority), even if a renewal never returns.     *)
LostAuthorityCancels ==
    \A n \in Node : (Working(n) /\ ~HasLocalAuthority(n))
                      ~> (~Working(n) \/ HasLocalAuthority(n))

(* RunIfLeader waits for its renewer, and that wait ends: no cycle hangs   *)
(* after fn returned.                                                      *)
CycleCompletes == \A n \in Node : job[n] = "draining" ~> job[n] = "idle"
=============================================================================
