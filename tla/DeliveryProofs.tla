---------------------------- MODULE DeliveryProofs ----------------------------
(***************************************************************************)
(* The delivery record under any number of copies, drains, retries, lost   *)
(* rejections, restarts and forgotten IDs.                                 *)
(***************************************************************************)
EXTENDS CommandDelivery, TLAPS

(* Nothing is under way before the record exists. *)
Unstarted == api = "idle" <=> record = "none"

NothingYet ==
    api = "idle" => /\ flight = 0 /\ fenced = 0 /\ armed = 0 /\ ~listed
                    /\ \A r \in Reason : responses[r] = 0
                    /\ \A s \in Status : writes[s] = 0

DeliveryInv == DeliveryTypeOK /\ Unstarted /\ NothingYet

LEMMA DeliveryStep ==
    ASSUME DeliveryInv, [DeliveryNext]_deliveryVars
    PROVE  DeliveryInv'
<1> USE DeliveryConstants DEF DeliveryInv, DeliveryTypeOK, Unstarted, NothingYet, Status, Reason
<1>1. CASE CreateCommandRecord
  BY <1>1 DEF CreateCommandRecord, handlerVars, retryVars, stewardVars
<1>2. CASE SyncStewardConfig
  BY <1>2 DEF SyncStewardConfig, SendOutcome, WillWrite, handlerVars, retryVars, stewardVars
<1>3. CASE ListPendingDeliveries
  BY <1>3 DEF ListPendingDeliveries, recordVars, handlerVars, retryVars, stewardVars
<1>4. CASE DrainSend
  <2>1. listed /\ listed' = FALSE /\ api # "idle" /\ api' = api /\ record' = record
    BY <1>4 DEF DrainSend
  <2>2. flight' \in Nat /\ sends' \in 0..MaxSends
    BY <1>4 DEF DrainSend, SendOutcome
  <2>3. writes' \in [Status -> Nat]
    BY <1>4 DEF DrainSend, WillWrite
  <2>4. UNCHANGED <<drains, handlerVars, retryVars, stewardVars, stops>>
    BY <1>4 DEF DrainSend
  <2>5. QED
    BY <2>1, <2>2, <2>3, <2>4 DEF handlerVars, retryVars, stewardVars
<1>5. ASSUME NEW s \in Status, UpdateDeliveryStatus(s) PROVE DeliveryInv'
  BY <1>5 DEF UpdateDeliveryStatus, Merged, senderVars, handlerVars, retryVars, stewardVars
<1>6. ASSUME NEW r \in Reason, ReadRecord(r) PROVE DeliveryInv'
  BY <1>6 DEF ReadRecord, StatusFor, WillWrite, senderVars, retryVars, stewardVars
<1>7. CASE RetryFenced
  BY <1>7 DEF RetryFenced, BudgetLeft, WillWrite, senderVars, stewardVars
<1>8. CASE RetryTimerFires
  BY <1>8 DEF RetryTimerFires, SendOutcome, WillWrite, senderVars, handlerVars, stewardVars
<1>9. CASE ReceiveFenced \/ ReceiveRefused \/ ReceiveDuplicate
  <2>1. flight > 0 /\ flight' \in Nat /\ api # "idle"
    BY <1>9 DEF ReceiveFenced, ReceiveRefused, ReceiveDuplicate
  <2>2. \E a \in Reason : Answer(a)
    BY <1>9 DEF ReceiveFenced, ReceiveRefused, ReceiveDuplicate
  <2>3. responses' \in [Reason -> Nat] /\ lost' \in 0..MaxLost
    BY <2>2 DEF Answer
  <2>4. known' \in BOOLEAN /\ executed' = executed /\ forgets' = forgets
    BY <1>9 DEF ReceiveFenced, ReceiveRefused, ReceiveDuplicate, stewardVars
  <2>5. UNCHANGED <<recordVars, senderVars, fenced, refused, retryVars, sends, stops>>
    BY <1>9 DEF ReceiveFenced, ReceiveRefused, ReceiveDuplicate
  <2>6. QED
    BY <2>1, <2>3, <2>4, <2>5 DEF recordVars, senderVars, retryVars
<1>10. CASE ReceiveExecute
  BY <1>10 DEF ReceiveExecute, recordVars, senderVars, handlerVars, retryVars
<1>11. CASE Forget
  <2>1. known' \in BOOLEAN
    BY <1>11, Zenon DEF Forget
  <2>2. forgets < MaxForgets /\ forgets' = forgets + 1
    BY <1>11, Zenon DEF Forget
  <2>3. forgets' \in 0..MaxForgets
    BY <2>2
  <2>4. UNCHANGED <<recordVars, senderVars, handlerVars, retryVars, executed, flight, sends, stops>>
    BY <1>11 DEF Forget
  <2>5. QED
    BY <2>1, <2>3, <2>4 DEF recordVars, senderVars, handlerVars, retryVars
<1>12. CASE PublisherStops
  BY <1>12 DEF PublisherStops, recordVars, senderVars, handlerVars, stewardVars
<1>13. CASE ControllerRestarts
  <2>1. responses' \in [Reason -> Nat] /\ writes' \in [Status -> Nat]
    BY <1>13 DEF ControllerRestarts, Nothing
  <2>2. listed' \in BOOLEAN /\ stopping' \in BOOLEAN
    BY <1>13 DEF ControllerRestarts
  <2>3. /\ stops' \in 0..MaxControllerStops /\ used' \in 0..MaxFenceRetries
        /\ fenced' \in Nat /\ armed' \in Nat
    BY <1>13 DEF ControllerRestarts
  <2>4. api' = "done" /\ record' = record /\ record # "none"
    BY <1>13 DEF ControllerRestarts
  <2>5. UNCHANGED <<drains, refused, lost, resent, stewardVars, flight, sends>>
    BY <1>13 DEF ControllerRestarts
  <2>6. QED
    BY <2>1, <2>2, <2>3, <2>4, <2>5 DEF stewardVars
<1>14. CASE UNCHANGED deliveryVars
  BY <1>14 DEF deliveryVars
<1>15. QED
  BY <1>1, <1>2, <1>3, <1>4, <1>5, <1>6, <1>7, <1>8, <1>9, <1>10, <1>11, <1>12, <1>13, <1>14
     DEF DeliveryNext, ControllerStep, StewardReceives

LEMMA DeliveryStarts == DeliveryInit => DeliveryInv
<1> SUFFICES ASSUME DeliveryInit PROVE DeliveryInv
  OBVIOUS
<1>1. /\ responses \in [Reason -> Nat] /\ writes \in [Status -> Nat]
      /\ \A r \in Reason : responses[r] = 0
      /\ \A s \in Status : writes[s] = 0
  BY DEF DeliveryInit, Nothing
<1>2. listed \in BOOLEAN /\ stopping \in BOOLEAN /\ known \in BOOLEAN /\ refused \in BOOLEAN /\ ~listed
  BY DEF DeliveryInit
<1>3. QED
  BY <1>1, <1>2, DeliveryConstants
     DEF DeliveryInit, DeliveryInv, DeliveryTypeOK, Unstarted, NothingYet, Status

(* The types hold, and nothing is under way before the record exists,      *)
(* whatever the bounds.                                                    *)
THEOREM DeliveryTypeCorrect == DeliverySpec => []DeliveryTypeOK
<1>1. DeliveryInit => DeliveryInv
  BY DeliveryStarts
<1>2. DeliveryInv /\ [DeliveryNext]_deliveryVars => DeliveryInv'
  BY DeliveryStep
<1>3. DeliveryInv => DeliveryTypeOK
  BY DEF DeliveryInv
<1>4. QED
  BY <1>1, <1>2, <1>3, PTL DEF DeliverySpec

-----------------------------------------------------------------------------
(* A known ID accounts for one dispatch, each forgotten one for another. *)
OnceInv == executed <= forgets + (IF known THEN 1 ELSE 0)

LEMMA OnceStep ==
    ASSUME DeliveryInv, OnceInv, [DeliveryNext]_deliveryVars
    PROVE  OnceInv'
<1>1. executed \in Nat /\ forgets \in Nat /\ known \in BOOLEAN
  BY DEF DeliveryInv, DeliveryTypeOK
<1>2. CASE UNCHANGED <<executed, forgets, known>>
  BY <1>1, <1>2 DEF OnceInv
<1>3. CASE ReceiveRefused
  <2>1. executed' = executed /\ forgets' = forgets
    BY <1>3 DEF ReceiveRefused
  <2>2. known => known'
    BY <1>3 DEF ReceiveRefused
  <2>3. QED
    BY <1>1, <2>1, <2>2 DEF OnceInv
<1>4. CASE ReceiveExecute
  <2>1. executed' = executed + 1 /\ forgets' = forgets /\ ~known /\ known'
    BY <1>4 DEF ReceiveExecute, IsNew
  <2>2. QED
    BY <1>1, <2>1 DEF OnceInv
<1>5. CASE Forget
  <2>1. executed' = executed /\ forgets' = forgets + 1 /\ known /\ ~known'
    BY <1>5 DEF Forget
  <2>2. QED
    BY <1>1, <2>1 DEF OnceInv
<1>6. QED
  <2>1. ControllerStep => UNCHANGED stewardVars
    BY DEF ControllerStep, CreateCommandRecord, SyncStewardConfig, DrainSend, UpdateDeliveryStatus,
           ReadRecord, RetryFenced, RetryTimerFires
  <2>2. ReceiveFenced \/ ReceiveDuplicate \/ ListPendingDeliveries \/ PublisherStops \/ ControllerRestarts
            => UNCHANGED stewardVars
    BY DEF ReceiveFenced, ReceiveDuplicate, ListPendingDeliveries, PublisherStops, ControllerRestarts
  <2>3. UNCHANGED stewardVars => UNCHANGED <<executed, forgets, known>>
    BY DEF stewardVars
  <2>4. UNCHANGED deliveryVars => UNCHANGED <<executed, forgets, known>>
    BY DEF deliveryVars
  <2>5. QED
    BY <1>2, <1>3, <1>4, <1>5, <2>1, <2>2, <2>3, <2>4 DEF DeliveryNext, StewardReceives

(* A command is dispatched at most once for each time that the steward     *)
(* forgets its ID, however many senders repeat it.                         *)
THEOREM CommandRunsAtMostOnce == DeliverySpec => []AtMostOnce
<1>1. DeliveryInit => DeliveryInv /\ OnceInv
  <2>1. DeliveryInit => DeliveryInv
    BY DeliveryStarts
  <2>2. DeliveryInit => OnceInv
    BY DEF DeliveryInit, OnceInv
  <2>3. QED
    BY <2>1, <2>2
<1>2. DeliveryInv /\ OnceInv /\ [DeliveryNext]_deliveryVars => (DeliveryInv /\ OnceInv)'
  BY DeliveryStep, OnceStep
<1>3. DeliveryInv /\ OnceInv => AtMostOnce
  BY DEF DeliveryInv, DeliveryTypeOK, OnceInv, AtMostOnce
<1>4. QED
  BY <1>1, <1>2, <1>3, PTL DEF DeliverySpec

-----------------------------------------------------------------------------
(* A rejection is recorded, or about to be. *)
Rejecting == record = "rejected" \/ writes["rejected"] > 0

(* Only a restart takes a rejection back. *)
LEMMA RejectionStays ==
    ASSUME DeliveryInv, [DeliveryNext]_deliveryVars, Rejecting, stops' = 0
    PROVE  Rejecting'
<1> USE DEF Rejecting
<1>1. /\ writes \in [Status -> Nat] /\ stops \in Nat /\ api \in {"idle", "created", "done"}
      /\ "rejected" \in Status /\ "delivered" \in Status /\ "pending" \in Status
      /\ (api = "idle" => record = "none" /\ writes["rejected"] = 0)
  BY DEF DeliveryInv, DeliveryTypeOK, Unstarted, NothingYet, Status
<1>2. ASSUME NEW s \in Status, WillWrite(s) PROVE writes["rejected"] > 0 => writes'["rejected"] > 0
  BY <1>1, <1>2 DEF WillWrite
<1>3. CASE CreateCommandRecord
  BY <1>1, <1>3 DEF CreateCommandRecord
<1>4. CASE SyncStewardConfig \/ RetryTimerFires
  <2>1. record' = record /\ \E s \in Status : WillWrite(s)
    BY <1>1, <1>4 DEF SyncStewardConfig, RetryTimerFires
  <2>2. QED
    BY <1>1, <1>2, <2>1
<1>5. CASE DrainSend
  <2>1. record' = record /\ (WillWrite("delivered") \/ writes' = writes)
    BY <1>5 DEF DrainSend
  <2>2. QED
    BY <1>1, <1>2, <2>1
<1>6. ASSUME NEW s \in Status, UpdateDeliveryStatus(s) PROVE Rejecting'
  BY <1>1, <1>6 DEF UpdateDeliveryStatus, Merged
<1>7. ASSUME NEW r \in Reason, ReadRecord(r) PROVE Rejecting'
  <2>1. record' = record /\ (writes' = writes \/ WillWrite(StatusFor(r)))
    BY <1>7 DEF ReadRecord
  <2>2. StatusFor(r) \in Status
    BY <1>1 DEF StatusFor
  <2>3. QED
    BY <1>1, <1>2, <2>1, <2>2
<1>8. CASE RetryFenced
  <2>1. record' = record /\ (writes' = writes \/ WillWrite("rejected"))
    BY <1>8 DEF RetryFenced
  <2>2. QED
    BY <1>1, <1>2, <2>1
<1>9. CASE ControllerRestarts
  BY <1>1, <1>9 DEF ControllerRestarts
<1>10. CASE StewardReceives \/ ListPendingDeliveries \/ Forget \/ PublisherStops \/ UNCHANGED deliveryVars
  <2>1. record' = record /\ writes' = writes
    BY <1>10 DEF StewardReceives, ReceiveFenced, ReceiveRefused, ReceiveDuplicate, ReceiveExecute,
                 ListPendingDeliveries, Forget, PublisherStops, deliveryVars, recordVars
  <2>2. QED
    BY <2>1
<1>11. QED
  BY <1>3, <1>4, <1>5, <1>6, <1>7, <1>8, <1>9, <1>10 DEF DeliveryNext, ControllerStep

LEMMA RefusalIsNoted ==
    ASSUME DeliveryInv, ReadRecord("refused")
    PROVE  Rejecting'
<1>1. /\ writes \in [Status -> Nat] /\ record \in {"none", "pending", "delivered", "rejected"}
      /\ (record = "none" => responses["refused"] = 0)
  BY DEF DeliveryInv, DeliveryTypeOK, Unstarted, NothingYet, Status, Reason
<1>2. record # "none"
  BY <1>1 DEF ReadRecord
<1>3. CASE record = "rejected"
  BY <1>3 DEF ReadRecord, Rejecting
<1>4. CASE record \in {"pending", "delivered"}
  BY <1>1, <1>4 DEF ReadRecord, StatusFor, WillWrite, Rejecting, Status
<1>5. QED
  BY <1>1, <1>2, <1>3, <1>4

RefusedInv == refused /\ stops = 0 => Rejecting

LEMMA RefusedStep ==
    ASSUME DeliveryInv, RefusedInv, [DeliveryNext]_deliveryVars
    PROVE  RefusedInv'
<1> SUFFICES ASSUME refused', stops' = 0 PROVE Rejecting'
  BY DEF RefusedInv
<1>1. stops = 0
  <2>1. stops' = stops \/ stops' = stops + 1
    BY DEF DeliveryNext, ControllerStep, CreateCommandRecord, SyncStewardConfig, DrainSend,
           UpdateDeliveryStatus, ReadRecord, RetryFenced, RetryTimerFires, StewardReceives, ReceiveFenced,
           ReceiveRefused, ReceiveDuplicate, ReceiveExecute, ListPendingDeliveries, Forget, PublisherStops,
           ControllerRestarts, deliveryVars
  <2>2. stops \in Nat
    BY DEF DeliveryInv, DeliveryTypeOK
  <2>3. QED
    BY <2>1, <2>2
<1>2. CASE refused
  BY <1>1, <1>2, RejectionStays DEF RefusedInv
<1>3. CASE ~refused
  <2>1. ReadRecord("refused")
    BY <1>3 DEF DeliveryNext, ControllerStep, CreateCommandRecord, SyncStewardConfig, DrainSend,
           UpdateDeliveryStatus, ReadRecord, RetryFenced, RetryTimerFires, StewardReceives, ReceiveFenced,
           ReceiveRefused, ReceiveDuplicate, ReceiveExecute, ListPendingDeliveries, Forget, PublisherStops,
           ControllerRestarts, deliveryVars, handlerVars
  <2>2. QED
    BY <2>1, RefusalIsNoted
<1>4. QED
  BY <1>2, <1>3

(* On a controller that did not restart, a refusal that was reported ends  *)
(* as "rejected" in the record, whichever writes raced with it.            *)
THEOREM RefusalIsRecorded == DeliverySpec => []RefusalWins
<1>1. DeliveryInit => DeliveryInv /\ RefusedInv
  <2>1. DeliveryInit => RefusedInv
    BY DEF DeliveryInit, RefusedInv
  <2>2. QED
    BY <2>1, DeliveryStarts
<1>2. DeliveryInv /\ RefusedInv /\ [DeliveryNext]_deliveryVars => (DeliveryInv /\ RefusedInv)'
  BY DeliveryStep, RefusedStep
<1>3. DeliveryInv /\ RefusedInv => RefusalWins
  <2>1. writes = Nothing(Status) => writes["rejected"] = 0
    BY DEF Nothing, Status
  <2>2. QED
    BY <2>1 DEF RefusedInv, Rejecting, RefusalWins, Quiet
<1>4. QED
  BY <1>1, <1>2, <1>3, PTL DEF DeliverySpec

-----------------------------------------------------------------------------
(* No rejection was lost, no retry ran and the controller did not stop. *)
Clean == lost = 0 /\ resent = 0 /\ ~stopping /\ stops = 0

(* The steward dispatched the command, or refused it and the record will   *)
(* say so.                                                                 *)
Accounted == executed > 0 \/ responses["refused"] > 0 \/ Rejecting

(* A copy, or what became of it, is under way. *)
OnTheWay == flight > 0 \/ responses["term_fenced"] > 0 \/ fenced > 0 \/ armed > 0

DispatchInv ==
    Clean => /\ known => Accounted
             /\ responses["duplicate_id"] > 0 => Accounted
             /\ record = "delivered" \/ writes["delivered"] > 0 => Accounted \/ OnTheWay

LEMMA CleanBefore ==
    ASSUME DeliveryInv, [DeliveryNext]_deliveryVars, Clean'
    PROVE  Clean
<1>1. lost \in Nat /\ resent \in Nat /\ stops \in Nat
  BY DEF DeliveryInv, DeliveryTypeOK
<1>2. CASE ControllerRestarts
  BY <1>1, <1>2 DEF ControllerRestarts, Clean
<1>3. CASE RetryTimerFires
  BY <1>1, <1>3 DEF RetryTimerFires, Clean
<1>4. CASE PublisherStops
  BY <1>1, <1>4 DEF PublisherStops, Clean
<1>5. CASE ReceiveFenced \/ ReceiveRefused \/ ReceiveDuplicate
  BY <1>1, <1>5 DEF ReceiveFenced, ReceiveRefused, ReceiveDuplicate, Answer, retryVars, Clean
<1>6. CASE UNCHANGED <<lost, resent, stopping, stops>>
  BY <1>6 DEF Clean
<1>7. QED
  BY <1>2, <1>3, <1>4, <1>5, <1>6
     DEF DeliveryNext, ControllerStep, CreateCommandRecord, SyncStewardConfig, DrainSend,
         UpdateDeliveryStatus, ReadRecord, RetryFenced, StewardReceives, ReceiveExecute,
         ListPendingDeliveries, Forget, deliveryVars, handlerVars, retryVars

LEMMA AccountedStays ==
    ASSUME DeliveryInv, [DeliveryNext]_deliveryVars, Accounted, Clean'
    PROVE  Accounted'
<1>1. executed \in Nat /\ responses \in [Reason -> Nat] /\ "refused" \in Reason
  BY DEF DeliveryInv, DeliveryTypeOK, Reason
<1>2. CASE Rejecting
  BY <1>2, RejectionStays DEF Accounted, Clean
<1>3. CASE executed > 0
  <2>1. executed' = executed \/ executed' = executed + 1
    BY DEF DeliveryNext, ControllerStep, CreateCommandRecord, SyncStewardConfig, DrainSend,
           UpdateDeliveryStatus, ReadRecord, RetryFenced, RetryTimerFires, StewardReceives, ReceiveFenced,
           ReceiveRefused, ReceiveDuplicate, ReceiveExecute, ListPendingDeliveries, Forget, PublisherStops,
           ControllerRestarts, deliveryVars, stewardVars
  <2>2. QED
    BY <1>1, <1>3, <2>1 DEF Accounted
<1>4. CASE responses["refused"] > 0
  <2>1. CASE ReadRecord("refused")
    BY <2>1, RefusalIsNoted DEF Accounted
  <2>2. ASSUME NEW r \in Reason, r # "refused", ReadRecord(r) PROVE Accounted'
    BY <1>1, <1>4, <2>2 DEF ReadRecord, Accounted
  <2>3. CASE ReceiveFenced \/ ReceiveRefused \/ ReceiveDuplicate
    <3>1. PICK r \in Reason : Answer(r)
      BY <2>3 DEF ReceiveFenced, ReceiveRefused, ReceiveDuplicate, Reason
    <3>2. QED
      BY <1>1, <1>4, <3>1 DEF Answer, Accounted
  <2>4. CASE ControllerRestarts
    <3>1. stops \in Nat
      BY DEF DeliveryInv, DeliveryTypeOK
    <3>2. QED
      BY <2>4, <3>1 DEF ControllerRestarts, Clean
  <2>5. CASE responses' = responses
    BY <1>4, <2>5 DEF Accounted
  <2>6. QED
    BY <2>1, <2>2, <2>3, <2>4, <2>5
       DEF DeliveryNext, ControllerStep, CreateCommandRecord, SyncStewardConfig, DrainSend,
           UpdateDeliveryStatus, RetryFenced, RetryTimerFires, StewardReceives, ReceiveExecute,
           ListPendingDeliveries, Forget, PublisherStops, deliveryVars, handlerVars
<1>5. QED
  BY <1>2, <1>3, <1>4 DEF Accounted

LEMMA DispatchStep ==
    ASSUME DeliveryInv, DispatchInv, [DeliveryNext]_deliveryVars
    PROVE  DispatchInv'
<1> SUFFICES ASSUME Clean', ~Accounted'
             PROVE  /\ ~known'
                    /\ ~(responses'["duplicate_id"] > 0)
                    /\ record' = "delivered" \/ writes'["delivered"] > 0 => OnTheWay'
  BY DEF DispatchInv
<1>1. Clean /\ ~Accounted
  BY CleanBefore, AccountedStays
<1>2. /\ ~known
      /\ ~(responses["duplicate_id"] > 0)
      /\ record = "delivered" \/ writes["delivered"] > 0 => OnTheWay
  BY <1>1 DEF DispatchInv
<1>3. /\ flight \in Nat /\ fenced \in Nat /\ armed \in Nat /\ lost \in Nat /\ resent \in Nat /\ stops \in Nat
      /\ responses \in [Reason -> Nat] /\ writes \in [Status -> Nat]
      /\ executed \in Nat
      /\ (record = "none" => \A r \in Reason : responses[r] = 0)
      /\ record \in Status \cup {"none"}
  BY DEF DeliveryInv, DeliveryTypeOK, Unstarted, NothingYet
<1> USE DEF OnTheWay
<1>4. CASE CreateCommandRecord
  <2>1. UNCHANGED <<known, responses, writes, flight, fenced, armed>> /\ record' = "pending"
    BY <1>4 DEF CreateCommandRecord, handlerVars, retryVars, stewardVars
  <2>2. QED
    BY <1>2, <2>1
<1>5. CASE SyncStewardConfig
  <2>1. UNCHANGED <<known, responses, record, fenced, armed>>
    BY <1>5 DEF SyncStewardConfig, handlerVars, retryVars, stewardVars
  <2>2. \/ flight' = flight + 1
        \/ flight' = flight /\ WillWrite("pending")
    BY <1>3, <1>5 DEF SyncStewardConfig, SendOutcome
  <2>3. WillWrite("pending") => writes'["delivered"] = writes["delivered"]
    BY <1>3 DEF WillWrite, Status
  <2>4. QED
    BY <1>2, <1>3, <2>1, <2>2, <2>3
<1>6. CASE DrainSend
  <2>1. UNCHANGED <<known, responses, record, fenced, armed>>
    BY <1>6 DEF DrainSend, handlerVars, retryVars, stewardVars
  <2>2. \/ flight' = flight + 1
        \/ flight' = flight /\ writes' = writes
    BY <1>3, <1>6 DEF DrainSend, SendOutcome
  <2>3. QED
    BY <1>2, <1>3, <2>1, <2>2
<1>7. ASSUME NEW s \in Status, UpdateDeliveryStatus(s)
      PROVE  /\ ~known'
             /\ ~(responses'["duplicate_id"] > 0)
             /\ record' = "delivered" \/ writes'["delivered"] > 0 => OnTheWay'
  <2>1. UNCHANGED <<known, responses, flight, fenced, armed>>
    BY <1>7 DEF UpdateDeliveryStatus, handlerVars, retryVars, stewardVars
  <2>2. record' = "delivered" \/ writes'["delivered"] > 0 => record = "delivered" \/ writes["delivered"] > 0
    BY <1>3, <1>7 DEF UpdateDeliveryStatus, Merged, Status
  <2>3. QED
    BY <1>2, <2>1, <2>2
<1>8. ASSUME NEW r \in Reason, ReadRecord(r)
      PROVE  /\ ~known'
             /\ ~(responses'["duplicate_id"] > 0)
             /\ record' = "delivered" \/ writes'["delivered"] > 0 => OnTheWay'
  <2>1. r = "term_fenced"
    <3>1. responses[r] > 0
      BY <1>8 DEF ReadRecord
    <3>2. r # "duplicate_id" /\ r # "refused"
      BY <1>1, <1>2, <3>1 DEF Accounted
    <3>3. QED
      BY <3>2 DEF Reason
  <2>2. record \in {"pending", "delivered"}
    <3>1. record # "none"
      BY <1>3, <1>8 DEF ReadRecord
    <3>2. record # "rejected"
      BY <1>1 DEF Accounted, Rejecting
    <3>3. QED
      BY <1>3, <3>1, <3>2 DEF Status
  <2>3. UNCHANGED known /\ responses'["duplicate_id"] = responses["duplicate_id"] /\ fenced' = fenced + 1
    BY <1>3, <1>8, <2>1, <2>2 DEF ReadRecord, stewardVars, Reason
  <2>4. QED
    BY <1>2, <1>3, <2>3
<1>9. CASE RetryFenced
  <2>1. UNCHANGED <<known, responses, record, flight>>
    BY <1>9 DEF RetryFenced, stewardVars
  <2>2. WillWrite("rejected") => Accounted'
    BY <1>3 DEF WillWrite, Accounted, Rejecting, Status
  <2>3. armed' = armed + 1
    BY <1>1, <1>9, <2>2 DEF RetryFenced, Clean
  <2>4. QED
    BY <1>2, <1>3, <2>1, <2>3
<1>10. CASE RetryTimerFires \/ ControllerRestarts \/ PublisherStops
  BY <1>3, <1>10 DEF RetryTimerFires, ControllerRestarts, PublisherStops, Clean
<1>11. CASE ReceiveFenced
  <2>1. UNCHANGED <<known, record, writes>>
    BY <1>11 DEF ReceiveFenced, recordVars, stewardVars
  <2>2. responses' = [responses EXCEPT !["term_fenced"] = @ + 1]
    BY <1>3, <1>11 DEF ReceiveFenced, Answer, Clean
  <2>3. responses'["term_fenced"] > 0 /\ responses'["duplicate_id"] = responses["duplicate_id"]
    BY <1>3, <2>2 DEF Reason
  <2>4. QED
    BY <1>2, <2>1, <2>3
<1>12. CASE ReceiveRefused
  <2>1. responses' = [responses EXCEPT !["refused"] = @ + 1]
    BY <1>3, <1>12 DEF ReceiveRefused, Answer, Clean
  <2>2. QED
    BY <1>3, <2>1 DEF Accounted, Reason
<1>13. CASE ReceiveDuplicate
  BY <1>2, <1>13 DEF ReceiveDuplicate
<1>14. CASE ReceiveExecute
  BY <1>3, <1>14 DEF ReceiveExecute, Accounted
<1>15. CASE ListPendingDeliveries
  BY <1>2, <1>15 DEF ListPendingDeliveries, recordVars, handlerVars, retryVars, stewardVars
<1>16. CASE Forget
  BY <1>2, <1>16 DEF Forget
<1>17. CASE UNCHANGED deliveryVars
  BY <1>2, <1>17 DEF deliveryVars
<1>18. QED
  BY <1>4, <1>5, <1>6, <1>7, <1>8, <1>9, <1>10, <1>11, <1>12, <1>13, <1>14, <1>15, <1>16, <1>17
     DEF DeliveryNext, ControllerStep, StewardReceives

(* With no rejection lost, no retry run and no stop, a record that rests   *)
(* at "delivered" belongs to a command that the steward dispatched.        *)
THEOREM DeliveredIsTrue == DeliverySpec => []DeliveredMeansDispatched
<1>1. DeliveryInit => DeliveryInv /\ DispatchInv
  <2>1. DeliveryInit => DispatchInv
    BY DEF DeliveryInit, DispatchInv, Nothing, Status, Reason
  <2>2. QED
    BY <2>1, DeliveryStarts
<1>2. DeliveryInv /\ DispatchInv /\ [DeliveryNext]_deliveryVars => (DeliveryInv /\ DispatchInv)'
  BY DeliveryStep, DispatchStep
<1>3. DeliveryInv /\ DispatchInv => DeliveredMeansDispatched
  <2>1. writes = Nothing(Status) => writes["rejected"] = 0
    BY DEF Nothing, Status
  <2>2. responses = Nothing(Reason) => responses["refused"] = 0 /\ responses["term_fenced"] = 0
    BY DEF Nothing, Reason
  <2>3. QED
    BY <2>1, <2>2
       DEF DispatchInv, Clean, Accounted, Rejecting, OnTheWay, DeliveredMeansDispatched, Quiet
<1>4. QED
  BY <1>1, <1>2, <1>3, PTL DEF DeliverySpec
=============================================================================
