--------------------------- MODULE CommandDelivery ---------------------------
(***************************************************************************)
(* The delivery record of one command and everyone who writes it: the API  *)
(* handler that creates it, sends the command and records the outcome; the *)
(* on-connect drain that sends a pending command again; the recorder that  *)
(* handles a steward's rejections, each in a goroutine of its own; and the *)
(* publisher's timers that send a fence-rejected command again.  Every     *)
(* copy has the same command ID, and the steward's replay cache knows it.  *)
(*                                                                         *)
(* Copies, responses, timers and store writes in flight are counted: two   *)
(* of a kind differ in nothing but when they take effect.                  *)
(* Store calls succeed: the code logs one that fails and goes on.          *)
(***************************************************************************)
EXTENDS Naturals

CONSTANTS
    MaxFenceRetries,    \* re-sends of a fence-rejected command
    MaxSends,           \* bound on the copies sent
    MaxDrains,          \* bound on the steward's reconnects
    MaxControllerStops, \* bound on the controller's restarts
    MaxLost,            \* bound on the rejections that are lost
    MaxForgets          \* bound on how often the steward forgets command IDs

ASSUME DeliveryConstants ==
    /\ MaxFenceRetries \in Nat /\ MaxSends \in Nat /\ MaxDrains \in Nat
    /\ MaxControllerStops \in Nat /\ MaxLost \in Nat /\ MaxForgets \in Nat

Status == {"pending", "delivered", "rejected"}
Reason == {"term_fenced", "refused", "duplicate_id"}

VARIABLES
    record,     \* DeliveryStatus of the record; "none" before it is created
    api,        \* the API handler: "idle", "created" or "done"
    listed,     \* a drain read the record as pending and has not sent it
    flight,     \* copies on their way to the steward
    responses,  \* responses[r]: rejections not yet looked at by the recorder
    fenced,     \* handlers that read the record and are about to call RetryFenced
    writes,     \* writes[s]: UpdateDeliveryStatus calls that have not committed
    used,       \* Publisher.fenceAttempts of the command
    armed,      \* retry timers in Publisher.fenceTimers
    stopping,   \* Publisher.stopped
    known,      \* the command ID is in the steward's replay cache
    executed,   \* history: how often the steward dispatched the command
    refused,    \* history: the recorder was told that the steward refused a copy for good
    resent,     \* history: fence retries that ran
    sends, drains, stops, lost, forgets  \* how much of each bound is used

recordVars  == <<record, writes>>
senderVars  == <<api, listed, drains>>
handlerVars == <<responses, fenced, refused, lost>>
retryVars   == <<used, armed, stopping, resent>>
stewardVars == <<known, executed, forgets>>
deliveryVars == <<record, writes, api, listed, drains, responses, fenced, refused, lost,
                  used, armed, stopping, resent, known, executed, forgets, flight, sends, stops>>

Nothing(S) == [x \in S |-> 0]

DeliveryTypeOK ==
    /\ record \in Status \cup {"none"}
    /\ api \in {"idle", "created", "done"}
    /\ listed \in BOOLEAN /\ stopping \in BOOLEAN /\ known \in BOOLEAN /\ refused \in BOOLEAN
    /\ responses \in [Reason -> Nat] /\ writes \in [Status -> Nat]
    /\ used \in 0..MaxFenceRetries
    /\ flight \in Nat /\ fenced \in Nat /\ armed \in Nat /\ executed \in Nat /\ resent \in Nat
    /\ sends \in 0..MaxSends /\ drains \in 0..MaxDrains
    /\ stops \in 0..MaxControllerStops /\ lost \in 0..MaxLost /\ forgets \in 0..MaxForgets

DeliveryInit ==
    /\ record = "none" /\ api = "idle" /\ listed = FALSE
    /\ flight = 0 /\ responses = Nothing(Reason) /\ fenced = 0 /\ writes = Nothing(Status)
    /\ used = 0 /\ armed = 0 /\ stopping = FALSE
    /\ known = FALSE /\ executed = 0 /\ refused = FALSE /\ resent = 0
    /\ sends = 0 /\ drains = 0 /\ stops = 0 /\ lost = 0 /\ forgets = 0

-----------------------------------------------------------------------------
(* One send.  A copy may be under way although the sender got an error: a  *)
(* peer node delivered it and its answer was lost.                         *)
SendOutcome(ok) ==
    /\ sends < MaxSends
    /\ sends' = sends + 1
    /\ \E copies \in (IF ok THEN {1} ELSE {0, 1}) : flight' = flight + copies

(* A caller that is about to call UpdateDeliveryStatus(s). *)
WillWrite(s) == writes' = [writes EXCEPT ![s] = @ + 1]

(* The API handler (syncStewardConfig, recordConfigUpdateDelivery and      *)
(* deliverConfigUpdate, the config push): create the record, send, record. *)
CreateCommandRecord ==
    /\ api = "idle"
    /\ api' = "created"
    /\ record' = "pending"
    /\ UNCHANGED <<writes, listed, drains, handlerVars, retryVars, stewardVars, flight, sends, stops>>

SyncStewardConfig ==
    /\ api = "created"
    /\ api' = "done"
    /\ \E ok \in BOOLEAN : SendOutcome(ok) /\ WillWrite(IF ok THEN "delivered" ELSE "pending")
    /\ UNCHANGED <<record, listed, drains, handlerVars, retryVars, stewardVars, stops>>

(* PendingDeliveryDrainHook.OnConnect: list the pending records, send each *)
(* again, record "delivered"; a failed send leaves the record alone.       *)
ListPendingDeliveries ==
    /\ drains < MaxDrains
    /\ ~listed
    /\ record = "pending"
    /\ listed' = TRUE
    /\ drains' = drains + 1
    /\ UNCHANGED <<recordVars, api, handlerVars, retryVars, stewardVars, flight, sends, stops>>

DrainSend ==
    /\ listed
    /\ listed' = FALSE
    /\ \E ok \in BOOLEAN : SendOutcome(ok) /\ (IF ok THEN WillWrite("delivered") ELSE UNCHANGED writes)
    /\ UNCHANGED <<record, api, drains, handlerVars, retryVars, stewardVars, stops>>

(* Fault: the last write wins. *)
LastWrite(s) == s

(* The guard of the UPDATE: a rejected record is left alone. *)
Merged(s) == IF record = "rejected" THEN record ELSE s

UpdateDeliveryStatus(s) ==
    /\ writes[s] > 0
    /\ writes' = [writes EXCEPT ![s] = @ - 1]
    /\ record' = Merged(s)
    /\ UNCHANGED <<senderVars, handlerVars, retryVars, stewardVars, flight, sends, stops>>

-----------------------------------------------------------------------------
(* Fault: every answer of the steward counts as a delivery. *)
AnyAnswerDelivers(r) == "delivered"

(* What a rejection that is not retried makes of the record: a duplicate   *)
(* means that the steward has the command already.                         *)
StatusFor(r) == IF r = "duplicate_id" THEN "delivered" ELSE "rejected"

(* CommandRejectionRecorder.HandleResponse: the record is read, then       *)
(* RetryFenced called or the verdict written, with no lock over the three. *)
ReadRecord(r) ==
    /\ responses[r] > 0
    /\ responses' = [responses EXCEPT ![r] = @ - 1]
    /\ refused' = (refused \/ r = "refused")
    /\ IF record \notin {"pending", "delivered"}
       THEN UNCHANGED <<fenced, writes>>
       ELSE IF r = "term_fenced"
       THEN fenced' = fenced + 1 /\ UNCHANGED writes
       ELSE WillWrite(StatusFor(r)) /\ UNCHANGED fenced
    /\ UNCHANGED <<record, senderVars, retryVars, stewardVars, lost, flight, sends, stops>>

(* Fault: no budget. *)
Unlimited == TRUE

BudgetLeft == used < MaxFenceRetries

(* Publisher.RetryFenced: one more timer, or, once the budget is spent or  *)
(* the publisher stopped, a rejection.                                     *)
RetryFenced ==
    /\ fenced > 0
    /\ fenced' = fenced - 1
    /\ \/ /\ stopping
          /\ WillWrite("rejected")
          /\ UNCHANGED <<used, armed>>
       \/ /\ ~stopping /\ ~BudgetLeft
          /\ used' = 0
          /\ WillWrite("rejected")
          /\ UNCHANGED armed
       \/ /\ ~stopping /\ BudgetLeft
          /\ used' = used + 1
          /\ armed' = armed + 1
          /\ UNCHANGED writes
    /\ UNCHANGED <<record, senderVars, responses, refused, lost, stopping, resent, stewardVars, flight, sends, stops>>

(* A timer fires: PublishCommandWithID, then fenceRetrySent. *)
RetryTimerFires ==
    /\ armed > 0
    /\ armed' = armed - 1
    /\ resent' = resent + 1
    /\ \E ok \in BOOLEAN : SendOutcome(ok) /\ WillWrite(IF ok THEN "delivered" ELSE "pending")
    /\ UNCHANGED <<record, senderVars, handlerVars, used, stopping, stewardVars, stops>>

-----------------------------------------------------------------------------
(* The steward takes a copy: the term fence first, then the handler's      *)
(* checks, the replay cache among them.  A copy can be refused before the  *)
(* cache records its ID (signature, steward ID, timestamp) or after it     *)
(* (size and script checks).  A report that cannot be sent is dropped      *)
(* (reportRejection).                                                      *)
Answer(r) ==
    \/ responses' = [responses EXCEPT ![r] = @ + 1] /\ UNCHANGED lost
    \/ lost < MaxLost /\ lost' = lost + 1 /\ UNCHANGED responses

ReceiveFenced ==
    /\ flight > 0 /\ flight' = flight - 1
    /\ Answer("term_fenced")
    /\ UNCHANGED <<recordVars, senderVars, fenced, refused, retryVars, stewardVars, sends, stops>>

ReceiveRefused ==
    /\ flight > 0 /\ flight' = flight - 1
    /\ \/ UNCHANGED known
       \/ ~known /\ known' = TRUE
    /\ Answer("refused")
    /\ UNCHANGED <<recordVars, senderVars, fenced, refused, retryVars, executed, forgets, sends, stops>>

ReceiveDuplicate ==
    /\ flight > 0 /\ flight' = flight - 1
    /\ known
    /\ Answer("duplicate_id")
    /\ UNCHANGED <<recordVars, senderVars, fenced, refused, retryVars, stewardVars, sends, stops>>

IsNew == ~known

ReceiveExecute ==
    /\ flight > 0 /\ flight' = flight - 1
    /\ IsNew
    /\ known' = TRUE
    /\ executed' = executed + 1
    /\ UNCHANGED <<recordVars, senderVars, handlerVars, retryVars, forgets, sends, stops>>

(* The steward restarts, or the command ID outlives its time in the cache. *)
Forget ==
    /\ forgets < MaxForgets
    /\ known
    /\ known' = FALSE
    /\ forgets' = forgets + 1
    /\ UNCHANGED <<recordVars, senderVars, handlerVars, retryVars, executed, flight, sends, stops>>

-----------------------------------------------------------------------------
(* Publisher.Stop: every retry timer is dropped. *)
PublisherStops ==
    /\ stops < MaxControllerStops
    /\ ~stopping
    /\ stopping' = TRUE
    /\ armed' = 0
    /\ UNCHANGED <<recordVars, senderVars, handlerVars, used, resent, stewardVars, flight, sends, stops>>

(* The controller restarts, after Stop or a crash: only the record is left. *)
ControllerRestarts ==
    /\ stops < MaxControllerStops
    /\ api # "idle"
    /\ stops' = stops + 1
    /\ api' = "done" /\ listed' = FALSE
    /\ responses' = Nothing(Reason) /\ fenced' = 0 /\ writes' = Nothing(Status)
    /\ used' = 0 /\ armed' = 0 /\ stopping' = FALSE
    /\ UNCHANGED <<record, drains, refused, lost, resent, stewardVars, flight, sends>>

ControllerStep ==
    \/ CreateCommandRecord
    \/ SyncStewardConfig
    \/ DrainSend
    \/ \E s \in Status : UpdateDeliveryStatus(s)
    \/ \E r \in Reason : ReadRecord(r)
    \/ RetryFenced
    \/ RetryTimerFires

StewardReceives == ReceiveFenced \/ ReceiveRefused \/ ReceiveDuplicate \/ ReceiveExecute

DeliveryNext ==
    \/ ControllerStep
    \/ StewardReceives
    \/ ListPendingDeliveries
    \/ Forget
    \/ PublisherStops
    \/ ControllerRestarts

DeliverySpec == DeliveryInit /\ [][DeliveryNext]_deliveryVars

-----------------------------------------------------------------------------
(* Nothing that could still change the record is under way. *)
Quiet ==
    /\ api = "done" /\ ~listed /\ flight = 0 /\ fenced = 0 /\ armed = 0
    /\ responses = Nothing(Reason) /\ writes = Nothing(Status)

(* AtMostOnce: the API handler, drains and fence retries may each send the *)
(* command, yet it is dispatched at most once for each time the steward    *)
(* forgets its ID (HandleCommand step 4).                                  *)
AtMostOnce == executed <= 1 + forgets

(* RefusalWins: once everything has settled on a controller that did not   *)
(* restart, a command that the steward reported as refused is recorded as  *)
(* rejected, whatever "delivered" and "pending" writes raced with it       *)
(* (the terminal guard of UpdateDeliveryStatus).                           *)
RefusalWins == (Quiet /\ refused /\ stops = 0) => record = "rejected"

(* RetriesEnd: the exchange of fence rejections and re-sends comes to rest *)
(* (the budget of RetryFenced).                                            *)
RetriesEnd == <>[](api = "idle" \/ Quiet)

(* DeliveredMeansDispatched: a command that is left recorded as delivered, *)
(* where no drain would pick it up, was dispatched by the steward, unless  *)
(* a rejection was lost, the controller stopped, or a fence retry ran      *)
(* (whose failed send may write "pending" before the first send's          *)
(* "delivered").                                                           *)
DeliveredMeansDispatched ==
    (Quiet /\ record = "delivered" /\ lost = 0 /\ resent = 0 /\ ~stopping /\ stops = 0)
        => executed > 0

=============================================================================
