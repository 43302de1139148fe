--------------------------- MODULE CallbackProofs ---------------------------
(***************************************************************************)
(* The publisher's callback table, for any set of calls, receipts,         *)
(* duplicated events and slow registrations.                               *)
(***************************************************************************)
EXTENDS Callbacks, TLAPS

(* What the table, the timer and the verdicts of one call have to do with  *)
(* how far its publish has come.                                           *)
EntryInv(c) ==
    /\ verdicts[c] <= 1
    /\ c \in pending => verdicts[c] = 0
    /\ pub[c] \in {"idle", "sent", "armed"} => c \notin pending /\ verdicts[c] = 0
    /\ pub[c] = "failed" => c \notin pending

TimerInv(c) ==
    /\ pub[c] \in {"idle", "sent"} => timer[c] = "none"
    /\ pub[c] = "armed" /\ c \notin SlowRegister => timer[c] = "set"
    /\ c \in pending \ SlowRegister /\ timer[c] = "off" => "received" \in due[c] \cup made[c]

CallbackInv == CallbackTypeOK /\ \A c \in Call : EntryInv(c) /\ TimerInv(c)

LEMMA CallbackStarts == CallbackInit => CallbackInv
<1> SUFFICES ASSUME CallbackInit PROVE CallbackInv
  OBVIOUS
<1>1. /\ pub \in [Call -> PubState] /\ timer \in [Call -> {"none", "set", "fired", "off"}]
      /\ steward \in [Call -> {"none", "has", "took", "ended"}]
  BY DEF CallbackInit, PubState
<1>2. /\ wire \in [Call -> SUBSET {"received", "completed", "failed"}]
      /\ due \in [Call -> SUBSET Callback] /\ made \in [Call -> SUBSET Callback]
  BY DEF CallbackInit
<1>3. pending \subseteq Call /\ verdicts \in [Call -> Nat] /\ stopped \in BOOLEAN
  BY DEF CallbackInit
<1>4. \A c \in Call : EntryInv(c) /\ TimerInv(c)
  BY DEF CallbackInit, EntryInv, TimerInv
<1>5. QED
  BY <1>1, <1>2, <1>3, <1>4 DEF CallbackInv, CallbackTypeOK

(* The publishing functions. *)
LEMMA PublishTypes ==
    ASSUME CallbackTypeOK, NEW d \in Call,
           \/ Send(d) \/ SendFails(d) \/ Arm(d) \/ Register(d)
           \/ RegisterFirst(d) \/ SendRegistered(d) \/ SendRegisteredFails(d)
    PROVE  CallbackTypeOK'
<1> USE DEF CallbackTypeOK, PubState
<1>1. CASE Send(d)
  BY <1>1 DEF Send
<1>2. CASE SendFails(d)
  BY <1>2 DEF SendFails
<1>3. CASE Arm(d)
  BY <1>3 DEF Arm
<1>4. CASE Register(d)
  BY <1>4 DEF Register
<1>5. CASE RegisterFirst(d)
  BY <1>5 DEF RegisterFirst
<1>6. CASE SendRegistered(d)
  BY <1>6 DEF SendRegistered
<1>7. CASE SendRegisteredFails(d)
  BY <1>7 DEF SendRegisteredFails, RemoveEntry, StopTimer
<1>8. QED
  BY <1>1, <1>2, <1>3, <1>4, <1>5, <1>6, <1>7

(* The steward, the events, the timer, the callbacks and Stop. *)
LEMMA ProceedTypes ==
    ASSUME CallbackTypeOK,
           \/ \E d \in Call : CallProceeds(d) \/ \E e \in Callback : RunCallback(d, e)
           \/ StopPublisher
           \/ UNCHANGED callVars
    PROVE  CallbackTypeOK'
<1> USE DEF CallbackTypeOK, Callback, Verdict
<1>1. ASSUME NEW d \in Call, Accept(d) PROVE CallbackTypeOK'
  BY <1>1 DEF Accept
<1>2. ASSUME NEW d \in Call, Finish(d) PROVE CallbackTypeOK'
  BY <1>2 DEF Finish
<1>3. ASSUME NEW d \in Call, NEW e \in Callback, HandleEventUpdate(d, e) PROVE CallbackTypeOK'
  <2>1. wire' \in [Call -> SUBSET {"received", "completed", "failed"}]
    BY <1>3 DEF HandleEventUpdate
  <2>2. timer' \in [Call -> {"none", "set", "fired", "off"}]
    BY <1>3 DEF HandleEventUpdate, StopTimer
  <2>3. pending' \subseteq Call
    BY <1>3 DEF HandleEventUpdate
  <2>4. due' \in [Call -> SUBSET Callback]
    BY <1>3 DEF HandleEventUpdate
  <2>5. verdicts' \in [Call -> Nat]
    BY <1>3 DEF HandleEventUpdate
  <2>6. UNCHANGED <<pub, steward, made, stopped>>
    BY <1>3 DEF HandleEventUpdate
  <2>7. QED
    BY <2>1, <2>2, <2>3, <2>4, <2>5, <2>6
<1>4. ASSUME NEW d \in Call, TimerFires(d) PROVE CallbackTypeOK'
  BY <1>4 DEF TimerFires
<1>5. ASSUME NEW d \in Call, HandleTimeout(d) PROVE CallbackTypeOK'
  BY <1>5 DEF HandleTimeout
<1>6. ASSUME NEW d \in Call, NEW e \in Callback, RunCallback(d, e) PROVE CallbackTypeOK'
  BY <1>6 DEF RunCallback
<1>7. CASE StopPublisher
  BY <1>7 DEF StopPublisher, StopTimer
<1>8. CASE UNCHANGED callVars
  BY <1>8 DEF callVars
<1>9. QED
  BY <1>1, <1>2, <1>3, <1>4, <1>5, <1>6, <1>7, <1>8 DEF CallProceeds

LEMMA CallbackTypesStep ==
    ASSUME CallbackTypeOK, [CallbackNext]_callVars
    PROVE  CallbackTypeOK'
BY PublishTypes, ProceedTypes DEF CallbackNext

LEMMA CallbackStep ==
    ASSUME CallbackInv, [CallbackNext]_callVars
    PROVE  CallbackInv'
<1>1. CallbackTypeOK /\ CallbackTypeOK'
  BY CallbackTypesStep DEF CallbackInv
<1> SUFFICES ASSUME NEW c \in Call PROVE (EntryInv(c) /\ TimerInv(c))'
  BY <1>1 DEF CallbackInv
<1>2. EntryInv(c) /\ TimerInv(c)
  BY DEF CallbackInv
<1> USE DEF CallbackTypeOK, EntryInv, TimerInv
<1>3. ASSUME NEW d \in Call, Send(d) \/ SendFails(d) PROVE (EntryInv(c) /\ TimerInv(c))'
  BY <1>1, <1>2, <1>3 DEF Send, SendFails
<1>4. ASSUME NEW d \in Call, Arm(d) \/ Register(d) PROVE (EntryInv(c) /\ TimerInv(c))'
  BY <1>1, <1>2, <1>4 DEF Arm, Register
<1>5. ASSUME NEW d \in Call, RegisterFirst(d) \/ SendRegistered(d) PROVE (EntryInv(c) /\ TimerInv(c))'
  BY <1>1, <1>2, <1>5 DEF RegisterFirst, SendRegistered
<1>6. ASSUME NEW d \in Call, SendRegisteredFails(d) PROVE (EntryInv(c) /\ TimerInv(c))'
  BY <1>1, <1>2, <1>6 DEF SendRegisteredFails, RemoveEntry, StopTimer
<1>7. ASSUME NEW d \in Call, Accept(d) \/ Finish(d) PROVE (EntryInv(c) /\ TimerInv(c))'
  BY <1>1, <1>2, <1>7 DEF Accept, Finish
<1>8. ASSUME NEW d \in Call, NEW e \in Callback, HandleEventUpdate(d, e)
      PROVE  (EntryInv(c) /\ TimerInv(c))'
  <2>1. pub' = pub /\ made' = made
    BY <1>8 DEF HandleEventUpdate
  <2>2. CASE d \notin pending
    BY <1>2, <1>8, <2>1, <2>2 DEF HandleEventUpdate
  <2>3. CASE d \in pending /\ c # d
    BY <1>1, <1>2, <1>8, <2>1, <2>3 DEF HandleEventUpdate
  <2>4. CASE d \in pending /\ c = d
    <3>1. EntryInv(c)'
      BY <1>1, <1>2, <1>8, <2>1, <2>4 DEF HandleEventUpdate, EndsEntry, Verdict, Callback
    <3>2. TimerInv(c)'
      BY <1>1, <1>2, <1>8, <2>1, <2>4 DEF HandleEventUpdate, EndsEntry, StopTimer
    <3>3. QED
      BY <3>1, <3>2
  <2>5. QED
    BY <2>2, <2>3, <2>4
<1>9. ASSUME NEW d \in Call, TimerFires(d) PROVE (EntryInv(c) /\ TimerInv(c))'
  BY <1>1, <1>2, <1>9 DEF TimerFires
<1>10. ASSUME NEW d \in Call, HandleTimeout(d) PROVE (EntryInv(c) /\ TimerInv(c))'
  BY <1>1, <1>2, <1>10 DEF HandleTimeout
<1>11. ASSUME NEW d \in Call, NEW e \in Callback, RunCallback(d, e) PROVE (EntryInv(c) /\ TimerInv(c))'
  BY <1>1, <1>2, <1>11 DEF RunCallback
<1>12. CASE StopPublisher
  BY <1>1, <1>2, <1>12 DEF StopPublisher, StopTimer
<1>13. CASE UNCHANGED callVars
  BY <1>2, <1>13 DEF callVars
<1>14. QED
  BY <1>3, <1>4, <1>5, <1>6, <1>7, <1>8, <1>9, <1>10, <1>11, <1>12, <1>13 DEF CallbackNext, CallProceeds

LEMMA CallbackInvariant == CallbackSpec => []CallbackInv
BY CallbackStarts, CallbackStep, PTL DEF CallbackSpec

(* Of a completion, a failure and a timeout at most one is reported to the *)
(* caller, for any calls, duplicated events and slow registrations.        *)
THEOREM AtMostOneVerdict == CallbackSpec => []OneVerdict
<1>1. CallbackInv => OneVerdict
  BY DEF CallbackInv, EntryInv, OneVerdict
<1>2. QED
  BY <1>1, CallbackInvariant, PTL

(* An entry that no timer will remove is one whose receipt was handled. *)
THEOREM EntriesHaveTimers == CallbackSpec => []EntryHasTimer
<1>1. CallbackInv => EntryHasTimer
  BY DEF CallbackInv, CallbackTypeOK, TimerInv, EntryHasTimer
<1>2. QED
  BY <1>1, CallbackInvariant, PTL

LEMMA ErrorIsFinal ==
    ASSUME CallbackInv, [CallbackNext]_callVars, NEW c \in Call, pub[c] = "failed"
    PROVE  verdicts'[c] = verdicts[c]
<1>1. c \notin pending /\ verdicts \in [Call -> Nat]
  BY DEF CallbackInv, CallbackTypeOK, EntryInv
<1>2. ASSUME NEW d \in Call, NEW e \in Callback, HandleEventUpdate(d, e) PROVE verdicts'[c] = verdicts[c]
  BY <1>1, <1>2 DEF HandleEventUpdate
<1>3. ASSUME NEW d \in Call, HandleTimeout(d) PROVE verdicts'[c] = verdicts[c]
  BY <1>1, <1>3 DEF HandleTimeout
<1>4. QED
  BY <1>2, <1>3 DEF CallbackNext, CallProceeds, Send, SendFails, Arm, Register, RegisterFirst,
                    SendRegistered, SendRegisteredFails, Accept, Finish, TimerFires, RunCallback,
                    StopPublisher, callVars

(* A publish that returned an error is never reported on again. *)
THEOREM ErrorsAreFinal == CallbackSpec => NoVerdictAfterError
<1>1. CallbackInv /\ [CallbackNext]_callVars =>
        [\A c \in Call : pub[c] = "failed" => verdicts'[c] = verdicts[c]]_callVars
  BY ErrorIsFinal
<1>2. QED
  BY <1>1, CallbackInvariant, PTL DEF CallbackSpec, NoVerdictAfterError

-----------------------------------------------------------------------------
(* The callbacks decided or run for a call hold at most one verdict. *)
VerdictInv(c) ==
    /\ verdicts[c] = 0 => (due[c] \cup made[c]) \cap Verdict = {}
    /\ \A e \in due[c] \cap Verdict : made[c] \cap Verdict = {} /\ due[c] \cap Verdict = {e}

LEMMA VerdictStep ==
    ASSUME CallbackInv, \A c \in Call : VerdictInv(c), [CallbackNext]_callVars
    PROVE  \A c \in Call : VerdictInv(c)'
<1> SUFFICES ASSUME NEW c \in Call PROVE VerdictInv(c)'
  OBVIOUS
<1>1. /\ CallbackTypeOK /\ VerdictInv(c) /\ (c \in pending => verdicts[c] = 0)
  BY DEF CallbackInv, EntryInv
<1> USE DEF CallbackTypeOK, VerdictInv
<1>2. CASE UNCHANGED <<due, made, verdicts>>
  BY <1>1, <1>2
<1>3. ASSUME NEW d \in Call, NEW e \in Callback, HandleEventUpdate(d, e) PROVE VerdictInv(c)'
  <2>1. CASE d \notin pending \/ c # d
    <3>1. made' = made /\ due'[c] = due[c] /\ verdicts'[c] = verdicts[c]
      BY <1>1, <1>3, <2>1 DEF HandleEventUpdate
    <3>2. QED
      BY <1>1, <3>1
  <2>2. CASE d \in pending /\ c = d /\ e \in Verdict
    <3>1. made' = made /\ due'[c] = due[c] \cup {e} /\ verdicts'[c] = 1
      BY <1>1, <1>3, <2>2 DEF HandleEventUpdate
    <3>2. (due[c] \cup made[c]) \cap Verdict = {}
      BY <1>1, <2>2
    <3>3. QED
      BY <2>2, <3>1, <3>2
  <2>3. CASE d \in pending /\ c = d /\ e \notin Verdict
    <3>1. made' = made /\ due'[c] = due[c] \cup {e} /\ verdicts'[c] = verdicts[c]
      BY <1>1, <1>3, <2>3 DEF HandleEventUpdate
    <3>2. QED
      BY <1>1, <2>3, <3>1
  <2>4. QED
    BY <2>1, <2>2, <2>3
<1>4. ASSUME NEW d \in Call, HandleTimeout(d) PROVE VerdictInv(c)'
  <2>1. CASE d \notin pending \/ c # d
    <3>1. made' = made /\ due'[c] = due[c] /\ verdicts'[c] = verdicts[c]
      BY <1>1, <1>4, <2>1 DEF HandleTimeout
    <3>2. QED
      BY <1>1, <3>1
  <2>2. CASE d \in pending /\ c = d
    <3>1. made' = made /\ due'[c] = due[c] \cup {"timeout"} /\ verdicts'[c] = 1
      BY <1>1, <1>4, <2>2 DEF HandleTimeout
    <3>2. (due[c] \cup made[c]) \cap Verdict = {}
      BY <1>1, <2>2
    <3>3. "timeout" \in Verdict
      BY DEF Verdict
    <3>4. QED
      BY <3>1, <3>2, <3>3
  <2>3. QED
    BY <2>1, <2>2
<1>5. ASSUME NEW d \in Call, NEW e \in Callback, RunCallback(d, e) PROVE VerdictInv(c)'
  <2>1. CASE c # d
    BY <1>1, <1>5, <2>1 DEF RunCallback
  <2>2. CASE c = d
    <3>1. /\ e \in due[c] /\ due'[c] = due[c] \ {e} /\ made'[c] = made[c] \cup {e}
          /\ verdicts' = verdicts
      BY <1>1, <1>5, <2>2 DEF RunCallback
    <3>2. QED
      BY <1>1, <3>1
  <2>3. QED
    BY <2>1, <2>2
<1>6. QED
  BY <1>2, <1>3, <1>4, <1>5
     DEF CallbackNext, CallProceeds, Send, SendFails, Arm, Register, RegisterFirst, SendRegistered,
         SendRegisteredFails, Accept, Finish, TimerFires, StopPublisher, callVars
=============================================================================
