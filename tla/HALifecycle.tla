----------------------------- MODULE HALifecycle -----------------------------
(***************************************************************************)
(* Start and Stop of the HA manager in cluster mode, against the           *)
(* goroutines that Start leaves behind: the lease and registration loops,  *)
(* the health checker's loop, the failover monitor and the failovers it    *)
(* starts.  Three mutexes order them: the manager's, the health checker's  *)
(* and the failover manager's.  A section that takes one mutex and nothing *)
(* else is one step; a mutex held over a wait or over another mutex has an *)
(* owner between steps.                                                    *)
(*                                                                         *)
(* A run is one successful Start, and stands for the context it creates.   *)
(***************************************************************************)
EXTENDS Naturals

CONSTANTS
    Starter,      \* callers of Manager.Start
    Stopper,      \* callers of Manager.Stop
    MaxRuns,      \* bound on the contexts that Start creates
    MaxFailovers  \* bound on the automatic failovers

ASSUME HAConstants == MaxRuns \in Nat /\ MaxFailovers \in Nat

Caller == Starter \cup Stopper
Run == 1..MaxRuns
Part == {"manager", "health", "failover"}

VARIABLES
    lock,       \* lock[p]: whether p's mutex is held between steps
    call,       \* call[c]: where c is in Start or Stop
    started,    \* isStarted, HealthChecker.started, failoverManager.started
    ctx,        \* ctx[p]: the run whose context p's ctx field holds, 0 before the first
    runs,       \* how many runs there were
    cancelled,  \* cancelled contexts, as <<part, run>>
    loops,      \* runs whose lease and registration loops are running
    monitor,    \* monitor[r]: the failover monitor that run r started
    health,     \* health[r]: the health loop that run r started
    seen,       \* seen[p][r]: the context that the loop of run r waits on
    wanting,    \* failovers that wait for the failover manager's mutex
    executing,  \* a failover runs, and holds that mutex
    failovers   \* how many failovers were started

haVars == <<lock, call, started, ctx, runs, cancelled, loops, monitor, health, seen,
            wanting, executing, failovers>>

StartAt == {"startHealth", "startFailover"}
StopAt == {"waitLoops", "stopHealth", "stopFailover", "waitFailover", "finish"}
LoopAt == {"none", "top", "select", "ended"}

HATypeOK ==
    /\ lock \in [Part -> BOOLEAN]
    /\ call \in [Caller -> {"idle"} \cup StartAt \cup StopAt]
    /\ started \in [Part -> BOOLEAN]
    /\ ctx \in [Part -> 0..MaxRuns] /\ runs \in 0..MaxRuns
    /\ cancelled \subseteq Part \X Run
    /\ loops \subseteq Run
    /\ monitor \in [Run -> LoopAt \cup {"check", "lookup", "trigger"}]
    /\ health \in [Run -> LoopAt \cup {"snapshot", "checks", "checking", "publish"}]
    /\ seen \in [{"health", "failover"} -> [Run -> 0..MaxRuns]]
    /\ wanting \in Nat /\ executing \in BOOLEAN /\ failovers \in 0..MaxFailovers

HAInit ==
    /\ lock = [p \in Part |-> FALSE]
    /\ call = [c \in Caller |-> "idle"]
    /\ started = [p \in Part |-> FALSE]
    /\ ctx = [p \in Part |-> 0] /\ runs = 0
    /\ cancelled = {} /\ loops = {}
    /\ monitor = [r \in Run |-> "none"] /\ health = [r \in Run |-> "none"]
    /\ seen = [p \in {"health", "failover"} |-> [r \in Run |-> 0]]
    /\ wanting = 0 /\ executing = FALSE /\ failovers = 0

Cancel(p) == cancelled' = cancelled \cup {<<p, ctx[p]>>}
Goes(c, at) == call' = [call EXCEPT ![c] = at]

-----------------------------------------------------------------------------
(* Manager.Start.  A started manager returns an error and nothing changes. *)
Start(c) ==
    /\ call[c] = "idle" /\ c \in Starter
    /\ ~lock["manager"] /\ ~started["manager"]
    /\ runs < MaxRuns
    /\ runs' = runs + 1
    /\ ctx' = [ctx EXCEPT !["manager"] = runs + 1]
    /\ lock' = [lock EXCEPT !["manager"] = TRUE]
    /\ Goes(c, "startHealth")
    /\ UNCHANGED <<started, cancelled, loops, monitor, health, seen, wanting, executing, failovers>>

(* HealthChecker.Start; its error ends Start. *)
StartHealth(c) ==
    /\ call[c] = "startHealth" /\ ~lock["health"]
    /\ IF started["health"]
       THEN /\ lock' = [lock EXCEPT !["manager"] = FALSE]
            /\ Goes(c, "idle")
            /\ UNCHANGED <<started, ctx, health>>
       ELSE /\ started' = [started EXCEPT !["health"] = TRUE]
            /\ ctx' = [ctx EXCEPT !["health"] = ctx["manager"]]
            /\ health' = [health EXCEPT ![ctx["manager"]] = "top"]
            /\ Goes(c, "startFailover")
            /\ UNCHANGED lock
    /\ UNCHANGED <<runs, cancelled, loops, monitor, seen, wanting, executing, failovers>>

(* failoverManager.Start, whose error ends Start, and the rest of Start. *)
StartFailover(c) ==
    /\ call[c] = "startFailover" /\ ~lock["failover"]
    /\ lock' = [lock EXCEPT !["manager"] = FALSE]
    /\ Goes(c, "idle")
    /\ IF started["failover"]
       THEN UNCHANGED <<started, ctx, monitor, loops>>
       ELSE /\ started' = [started EXCEPT !["failover"] = TRUE, !["manager"] = TRUE]
            /\ ctx' = [ctx EXCEPT !["failover"] = ctx["manager"]]
            /\ monitor' = [monitor EXCEPT ![ctx["manager"]] = "top"]
            /\ loops' = loops \cup {ctx["manager"]}
    /\ UNCHANGED <<runs, cancelled, health, seen, wanting, executing, failovers>>

-----------------------------------------------------------------------------
(* Fault: a manager that was never started is stopped all the same. *)
StopsAnyway == ~lock["manager"]

(* Manager.Stop.  A stopped manager returns at once. *)
MayStop == ~lock["manager"] /\ started["manager"]

Stop(c) ==
    /\ call[c] = "idle" /\ c \in Stopper
    /\ MayStop
    /\ lock' = [lock EXCEPT !["manager"] = TRUE]
    /\ cancelled' = cancelled \cup (Part \X {ctx["manager"]})
    /\ Goes(c, "waitLoops")
    /\ UNCHANGED <<started, ctx, runs, loops, monitor, health, seen, wanting, executing, failovers>>

StopWaitsForLoops(c) ==
    /\ call[c] = "waitLoops" /\ loops = {}
    /\ Goes(c, "stopHealth")
    /\ UNCHANGED <<lock, started, ctx, runs, cancelled, loops, monitor, health, seen, wanting, executing, failovers>>

(* Fault: m.mu is kept until Stop returns. *)
KeepManager == UNCHANGED lock

ReleaseManager == lock' = [lock EXCEPT !["manager"] = FALSE]

StopChecker == started' = [started EXCEPT !["health"] = FALSE]

(* HealthChecker.Stop, which does not wait for the loop; then m.mu is      *)
(* released for the failover manager.                                      *)
StopHealth(c) ==
    /\ call[c] = "stopHealth" /\ ~lock["health"]
    /\ IF started["health"]
       THEN StopChecker /\ Cancel("health")
       ELSE UNCHANGED <<started, cancelled>>
    /\ ReleaseManager
    /\ Goes(c, "stopFailover")
    /\ UNCHANGED <<ctx, runs, loops, monitor, health, seen, wanting, executing, failovers>>

StopFailover(c) ==
    /\ call[c] = "stopFailover" /\ ~lock["failover"]
    /\ IF started["failover"]
       THEN /\ started' = [started EXCEPT !["failover"] = FALSE]
            /\ Cancel("failover")
            /\ Goes(c, "waitFailover")
       ELSE /\ Goes(c, "finish")
            /\ UNCHANGED <<started, cancelled>>
    /\ UNCHANGED <<lock, ctx, runs, loops, monitor, health, seen, wanting, executing, failovers>>

(* The goroutines counted by failoverManager.wg. *)
FailoverIdle ==
    /\ \A r \in Run : monitor[r] \in {"none", "ended"}
    /\ wanting = 0 /\ ~executing

(* Fault: Stop does not wait. *)
StopGoesOn(c) ==
    /\ call[c] = "waitFailover"
    /\ Goes(c, "finish")
    /\ UNCHANGED <<lock, started, ctx, runs, cancelled, loops, monitor, health, seen, wanting, executing, failovers>>

StopWaitsForFailover(c) ==
    /\ call[c] = "waitFailover" /\ FailoverIdle
    /\ Goes(c, "finish")
    /\ UNCHANGED <<lock, started, ctx, runs, cancelled, loops, monitor, health, seen, wanting, executing, failovers>>

StopFinishes(c) ==
    /\ call[c] = "finish" /\ ~lock["manager"]
    /\ started' = [started EXCEPT !["manager"] = FALSE]
    /\ Goes(c, "idle")
    /\ UNCHANGED <<lock, ctx, runs, cancelled, loops, monitor, health, seen, wanting, executing, failovers>>

-----------------------------------------------------------------------------
(* runLeaseAcquisition and runNodeRegistration watch their own context. *)
LoopsEnd(r) ==
    /\ r \in loops /\ <<"manager", r>> \in cancelled
    /\ loops' = loops \ {r}
    /\ UNCHANGED <<lock, call, started, ctx, runs, cancelled, monitor, health, seen, wanting, executing, failovers>>

(* Both periodic loops read the ctx field anew each time they wait. *)
Waits(p, r) == seen' = [seen EXCEPT ![p][r] = ctx[p]]
Done(p, r) == <<p, seen[p][r]>> \in cancelled

MonitorStep(r) ==
    /\ \/ monitor[r] = "top" /\ Waits("failover", r)
          /\ monitor' = [monitor EXCEPT ![r] = "select"] /\ UNCHANGED <<wanting, failovers>>
       \/ monitor[r] = "select" /\ monitor' = [monitor EXCEPT ![r] = "check"]
          /\ UNCHANGED <<seen, wanting, failovers>>
       \/ monitor[r] = "check" /\ ~lock["failover"]
          /\ monitor' = [monitor EXCEPT ![r] = "lookup"] /\ UNCHANGED <<seen, wanting, failovers>>
       \/ monitor[r] = "lookup" /\ ~lock["manager"]
          /\ \E at \in {"top", "trigger"} : monitor' = [monitor EXCEPT ![r] = at]
          /\ UNCHANGED <<seen, wanting, failovers>>
       \/ monitor[r] = "trigger" /\ ~lock["failover"]  \* triggerAutomaticFailover
          /\ monitor' = [monitor EXCEPT ![r] = "top"]
          /\ \/ UNCHANGED <<wanting, failovers>>       \* grace period, or cancelled
             \/ /\ <<"failover", ctx["failover"]>> \notin cancelled
                /\ failovers < MaxFailovers
                /\ failovers' = failovers + 1
                /\ wanting' = wanting + 1
          /\ UNCHANGED seen
    /\ UNCHANGED <<lock, call, started, ctx, runs, cancelled, loops, health, executing>>

MonitorEnds(r) ==
    /\ monitor[r] = "select" /\ Done("failover", r)
    /\ monitor' = [monitor EXCEPT ![r] = "ended"]
    /\ UNCHANGED <<lock, call, started, ctx, runs, cancelled, loops, health, seen, wanting, executing, failovers>>

(* The goroutine of triggerAutomaticFailover: take the mutex, look again,  *)
(* and either return or execute the failover.                              *)
FailoverBegins ==
    /\ wanting > 0 /\ ~lock["failover"]
    /\ wanting' = wanting - 1
    /\ \/ UNCHANGED <<lock, executing>>                \* grace period, or cancelled
       \/ /\ <<"failover", ctx["failover"]>> \notin cancelled
          /\ lock' = [lock EXCEPT !["failover"] = TRUE]
          /\ executing' = TRUE
    /\ UNCHANGED <<call, started, ctx, runs, cancelled, loops, monitor, health, seen, failovers>>

(* executeFailover asks the manager for the leader, under both mutexes. *)
FailoverEnds ==
    /\ executing /\ ~lock["manager"]
    /\ executing' = FALSE
    /\ lock' = [lock EXCEPT !["failover"] = FALSE]
    /\ UNCHANGED <<call, started, ctx, runs, cancelled, loops, monitor, health, seen, wanting, failovers>>

(* periodicHealthCheck and performHealthChecks: snapshot under m.mu, run   *)
(* the checks under h.mu, publish under m.mu.                              *)
HealthStep(r) ==
    /\ \/ health[r] = "top" /\ Waits("health", r)
          /\ health' = [health EXCEPT ![r] = "select"] /\ UNCHANGED lock
       \/ health[r] = "select" /\ health' = [health EXCEPT ![r] = "snapshot"] /\ UNCHANGED <<seen, lock>>
       \/ health[r] = "snapshot" /\ ~lock["manager"]
          /\ health' = [health EXCEPT ![r] = "checks"] /\ UNCHANGED <<seen, lock>>
       \/ health[r] = "checks" /\ ~lock["health"]
          /\ health' = [health EXCEPT ![r] = "checking"]
          /\ lock' = [lock EXCEPT !["health"] = TRUE] /\ UNCHANGED seen
       \/ health[r] = "checking" /\ health' = [health EXCEPT ![r] = "publish"]
          /\ lock' = [lock EXCEPT !["health"] = FALSE] /\ UNCHANGED seen
       \/ health[r] = "publish" /\ ~lock["manager"]
          /\ health' = [health EXCEPT ![r] = "top"] /\ UNCHANGED <<seen, lock>>
    /\ UNCHANGED <<call, started, ctx, runs, cancelled, loops, monitor, wanting, executing, failovers>>

HealthEnds(r) ==
    /\ health[r] = "select" /\ Done("health", r)
    /\ health' = [health EXCEPT ![r] = "ended"]
    /\ UNCHANGED <<lock, call, started, ctx, runs, cancelled, loops, monitor, seen, wanting, executing, failovers>>

-----------------------------------------------------------------------------
CallerStep(c) ==
    \/ StartHealth(c) \/ StartFailover(c)
    \/ StopWaitsForLoops(c) \/ StopHealth(c) \/ StopFailover(c) \/ StopWaitsForFailover(c) \/ StopFinishes(c)

HANext ==
    \/ \E c \in Caller : Start(c) \/ Stop(c) \/ CallerStep(c)
    \/ \E r \in Run : LoopsEnd(r) \/ MonitorStep(r) \/ MonitorEnds(r) \/ HealthStep(r) \/ HealthEnds(r)
    \/ FailoverBegins
    \/ FailoverEnds

HASpec == HAInit /\ [][HANext]_haVars

-----------------------------------------------------------------------------
(* StopIsComplete: a manager that is stopped, with no call under way, has  *)
(* no lease loop, monitor or failover of an earlier run left: nothing      *)
(* writes to a store that the caller of Stop is about to tear down.        *)
StopIsComplete ==
    (~started["manager"] /\ \A c \in Caller : call[c] = "idle")
        => (loops = {} /\ FailoverIdle)

(* CallsReturn: no Start or Stop waits forever on the locks and goroutines *)
(* that wait for it.                                                       *)
CallsReturn == \A c \in Caller : []<>(call[c] = "idle")

=============================================================================
