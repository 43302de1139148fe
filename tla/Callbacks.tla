------------------------------ MODULE Callbacks ------------------------------
(***************************************************************************)
(* The command publisher's table of commands that await a callback         *)
(* (Publisher.pending): the two ways of publishing with callbacks, the     *)
(* events that stewards report, the timeout timers and Stop.  Every event  *)
(* has a goroutine of its own, so events are handled in any order; a       *)
(* callback runs after the lock is released, so it may run late.           *)
(*                                                                         *)
(* A call is one publish with callbacks, and stands for its command ID.    *)
(***************************************************************************)
EXTENDS Naturals, FiniteSets

CONSTANTS
    Call,         \* publishes with callbacks
    Receipts,     \* calls whose command_received event arrives
    Duplicates,   \* calls whose events may arrive twice
    SlowRegister  \* calls whose timeout may pass before the entry is registered

ASSUME CallbackConstants ==
    Receipts \subseteq Call /\ Duplicates \subseteq Call /\ SlowRegister \subseteq Call

Verdict == {"completed", "failed", "timeout"}
Callback == Verdict \cup {"received"}

VARIABLES
    pub,      \* pub[c]: where the publishing function is
    pending,  \* calls that have an entry in Publisher.pending
    timer,    \* timer[c]: the entry's timeout timer
    steward,  \* steward[c]: what the steward did with the command
    wire,     \* wire[c]: reported events the publisher has not handled
    due,      \* due[c]: callbacks decided under the lock and not yet run
    made,     \* made[c]: callbacks that ran
    verdicts, \* history: how many final callbacks were decided for c
    stopped   \* Publisher.stopped

callVars == <<pub, pending, timer, steward, wire, due, made, verdicts, stopped>>

PubState == {"idle", "sent", "armed", "registered", "returned", "failed"}

CallbackTypeOK ==
    /\ pub \in [Call -> PubState]
    /\ pending \subseteq Call
    /\ timer \in [Call -> {"none", "set", "fired", "off"}]
    /\ steward \in [Call -> {"none", "has", "took", "ended"}]
    /\ wire \in [Call -> SUBSET {"received", "completed", "failed"}]
    /\ due \in [Call -> SUBSET Callback]
    /\ made \in [Call -> SUBSET Callback]
    /\ verdicts \in [Call -> Nat]
    /\ stopped \in BOOLEAN

CallbackInit ==
    /\ pub = [c \in Call |-> "idle"]
    /\ pending = {}
    /\ timer = [c \in Call |-> "none"]
    /\ steward = [c \in Call |-> "none"]
    /\ wire = [c \in Call |-> {}]
    /\ due = [c \in Call |-> {}]
    /\ made = [c \in Call |-> {}]
    /\ verdicts = [c \in Call |-> 0]
    /\ stopped = FALSE

-----------------------------------------------------------------------------
(* PublishCommandWithCallback: send, arm the timer, register the entry. *)

Send(c) ==
    /\ pub[c] = "idle"
    /\ pub' = [pub EXCEPT ![c] = "sent"]
    /\ steward' = [steward EXCEPT ![c] = "has"]
    /\ UNCHANGED <<pending, timer, wire, due, made, verdicts, stopped>>

(* An error ends the call.  The command may have left all the same: a peer *)
(* node may deliver it and its answer be lost.                             *)
SendFails(c) ==
    /\ pub[c] = "idle"
    /\ pub' = [pub EXCEPT ![c] = "failed"]
    /\ \E left \in {"none", "has"} : steward' = [steward EXCEPT ![c] = left]
    /\ UNCHANGED <<pending, timer, wire, due, made, verdicts, stopped>>

Arm(c) ==
    /\ pub[c] = "sent"
    /\ pub' = [pub EXCEPT ![c] = "armed"]
    /\ timer' = [timer EXCEPT ![c] = "set"]
    /\ UNCHANGED <<pending, steward, wire, due, made, verdicts, stopped>>

Register(c) ==
    /\ pub[c] = "armed"
    /\ pub' = [pub EXCEPT ![c] = "returned"]
    /\ pending' = pending \cup {c}
    /\ UNCHANGED <<timer, steward, wire, due, made, verdicts, stopped>>

(* PublishCommandWithSignerAndCallback: entry and timer under one lock,    *)
(* then the send; a failed send removes the entry if it is still there.    *)

RegisterFirst(c) ==
    /\ pub[c] = "idle"
    /\ pub' = [pub EXCEPT ![c] = "registered"]
    /\ pending' = pending \cup {c}
    /\ timer' = [timer EXCEPT ![c] = "set"]
    /\ UNCHANGED <<steward, wire, due, made, verdicts, stopped>>

(* Timer.Stop has no effect on a timer whose function has started. *)
StopTimer(t) == IF t = "set" THEN "off" ELSE t

SendRegistered(c) ==
    /\ pub[c] = "registered"
    /\ pub' = [pub EXCEPT ![c] = "returned"]
    /\ steward' = [steward EXCEPT ![c] = "has"]
    /\ UNCHANGED <<pending, timer, wire, due, made, verdicts, stopped>>

(* The failed send's cleanup, if nobody else has removed the entry. *)
RemoveEntry(c) ==
    /\ pending' = pending \ {c}
    /\ timer' = IF c \in pending
                THEN [timer EXCEPT ![c] = StopTimer(@)]
                ELSE timer

SendRegisteredFails(c) ==
    /\ pub[c] = "registered"
    /\ pub' = [pub EXCEPT ![c] = "failed"]
    /\ \E left \in {"none", "has"} : steward' = [steward EXCEPT ![c] = left]
    /\ RemoveEntry(c)
    /\ UNCHANGED <<wire, due, made, verdicts, stopped>>

-----------------------------------------------------------------------------
(* The steward (its Handler): receipt, then a result; or nothing at all,   *)
(* when it refuses the command or stops.  Reports may be lost on the way.  *)

Accept(c) ==
    /\ steward[c] = "has"
    /\ steward' = [steward EXCEPT ![c] = "took"]
    /\ wire' = IF c \in Receipts THEN [wire EXCEPT ![c] = @ \cup {"received"}] ELSE wire
    /\ UNCHANGED <<pub, pending, timer, due, made, verdicts, stopped>>

Finish(c) ==
    /\ steward[c] = "took"
    /\ steward' = [steward EXCEPT ![c] = "ended"]
    /\ \E r \in {"completed", "failed"} : wire' = [wire EXCEPT ![c] = @ \cup {r}]
    /\ UNCHANGED <<pub, pending, timer, due, made, verdicts, stopped>>

-----------------------------------------------------------------------------
(* Fault: a completion leaves the entry. *)
EndsOnFailure(e) == e = "failed"

(* HandleEventUpdate, up to the unlock.  Any event stops the timer; a      *)
(* result also removes the entry; OnComplete is called for every event.    *)
EndsEntry(e) == e # "received"

HandleEventUpdate(c, e) ==
    /\ e \in wire[c] \ due[c]
    /\ \/ wire' = [wire EXCEPT ![c] = @ \ {e}]
       \/ c \in Duplicates /\ wire' = wire
    /\ IF c \in pending
       THEN /\ timer' = [timer EXCEPT ![c] = StopTimer(@)]
            /\ pending' = IF EndsEntry(e) THEN pending \ {c} ELSE pending
            /\ due' = [due EXCEPT ![c] = @ \cup {e}]
            /\ verdicts' = [verdicts EXCEPT ![c] = IF e \in Verdict THEN @ + 1 ELSE @]
       ELSE UNCHANGED <<timer, pending, due, verdicts>>
    /\ UNCHANGED <<pub, steward, made, stopped>>

(* The time between AfterFunc and the registration is short beside any     *)
(* timeout in use; SlowRegister drops that assumption.                     *)
TimerFires(c) ==
    /\ timer[c] = "set"
    /\ c \in SlowRegister \/ pub[c] # "armed"
    /\ timer' = [timer EXCEPT ![c] = "fired"]
    /\ UNCHANGED <<pub, pending, steward, wire, due, made, verdicts, stopped>>

(* handleCommandTimeout, up to the unlock. *)
HandleTimeout(c) ==
    /\ timer[c] = "fired"
    /\ timer' = [timer EXCEPT ![c] = "off"]
    /\ pending' = pending \ {c}
    /\ IF c \in pending
       THEN /\ due' = [due EXCEPT ![c] = @ \cup {"timeout"}]
            /\ verdicts' = [verdicts EXCEPT ![c] = @ + 1]
       ELSE UNCHANGED <<due, verdicts>>
    /\ UNCHANGED <<pub, steward, wire, made, stopped>>

(* OnComplete or OnTimeout runs, outside the lock. *)
RunCallback(c, e) ==
    /\ e \in due[c]
    /\ due' = [due EXCEPT ![c] = @ \ {e}]
    /\ made' = [made EXCEPT ![c] = @ \cup {e}]
    /\ UNCHANGED <<pub, pending, timer, steward, wire, verdicts, stopped>>

(* Stop: the timers of the registered entries are stopped, the table is    *)
(* emptied.  A publish may still be running, or start later.               *)
StopPublisher ==
    /\ ~stopped
    /\ stopped' = TRUE
    /\ timer' = [c \in Call |-> IF c \in pending THEN StopTimer(timer[c]) ELSE timer[c]]
    /\ pending' = {}
    /\ UNCHANGED <<pub, steward, wire, due, made, verdicts>>

-----------------------------------------------------------------------------
(* What happens to a call once it is published, its callbacks apart. *)
CallProceeds(c) ==
    \/ Accept(c) \/ Finish(c)
    \/ \E e \in Callback : HandleEventUpdate(c, e)
    \/ TimerFires(c) \/ HandleTimeout(c)

CallbackNext ==
    \/ \E c \in Call :
          \/ Send(c) \/ SendFails(c) \/ Arm(c) \/ Register(c)
          \/ RegisterFirst(c) \/ SendRegistered(c) \/ SendRegisteredFails(c)
          \/ CallProceeds(c)
          \/ \E e \in Callback : RunCallback(c, e)
    \/ StopPublisher

CallbackSpec == CallbackInit /\ [][CallbackNext]_callVars

-----------------------------------------------------------------------------
(* Of a completion, a failure and a timeout at most one is ever reported   *)
(* to the caller, however the events and the timer interleave: each of the *)
(* three takes the entry out of the table under the lock.                  *)
OneVerdict == \A c \in Call : verdicts[c] <= 1

(* An entry whose timer no longer runs is one whose receipt was handled:   *)
(* nothing else leaves an entry in the table that no timeout will remove.  *)
(* (A slow registration does, so those calls are left out.)                *)
EntryHasTimer ==
    \A c \in pending \ SlowRegister :
        timer[c] = "off" => "received" \in due[c] \cup made[c]

(* Once a publish has returned an error no verdict is decided for it: the  *)
(* caller that reports the failure itself never hears of it a second time. *)
NoVerdictAfterError ==
    [][\A c \in Call : pub[c] = "failed" => verdicts'[c] = verdicts[c]]_callVars
=============================================================================
