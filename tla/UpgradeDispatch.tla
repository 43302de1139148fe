--------------------------- MODULE UpgradeDispatch ---------------------------
(***************************************************************************)
(* Dispatching steward upgrades through the REST API: a request checks and *)
(* records one upgrade per matched steward, then publishes the commands in *)
(* the background; the publisher's callbacks settle the records.           *)
(*                                                                         *)
(* The call <<r, s>> is the command of request r to steward s, and stands  *)
(* for the upgrade record too.                                             *)
(***************************************************************************)
EXTENDS Callbacks, Sequences

CONSTANTS
    Request,          \* requests to the upgrade endpoints
    Matched,          \* Matched[r]: the stewards that r's selector matches, in order
    Rollbacks,        \* the requests that are rollbacks of an earlier upgrade
    UnsafeRecords     \* the records for which a read or a write of the store may fail

ASSUME UpgradeConstants ==
    /\ Rollbacks \subseteq Request /\ UnsafeRecords \subseteq Call
    /\ \A r \in Request :
          /\ Len(Matched[r]) \in Nat \ {0} /\ DOMAIN Matched[r] = 1 .. Len(Matched[r])
          /\ \A i \in DOMAIN Matched[r] : <<r, Matched[r][i]>> \in Call
          /\ \A i, j \in DOMAIN Matched[r] : Matched[r][i] = Matched[r][j] => i = j

VARIABLES
    record,   \* record[c]: the status of the upgrade record
    asking,   \* asking[r]: where the handler, then the background fan-out, is
    target    \* target[r]: index in Matched[r] of the steward in hand

upgradeVars == <<callVars, record, asking, target>>

Terminal == {"committed", "rolled_back", "failed"}

UpgradeTypeOK ==
    /\ record \in [Call -> Terminal \cup {"none", "dispatched"}]
    /\ asking \in [Request -> {"idle", "check", "create", "fanout", "refused", "done"}]
    /\ target \in [Request -> Nat]

UpgradeInit ==
    /\ CallbackInit
    /\ record = [c \in Call |-> "none"]
    /\ asking = [r \in Request |-> "idle"]
    /\ target = [r \in Request |-> 1]

Upgrade(r) == <<r, Matched[r][target[r]]>>
OpenUpgrades(s) == {c \in Call : c[2] = s /\ record[c] = "dispatched"}

Goto(r, where) == asking' = [asking EXCEPT ![r] = where]

-----------------------------------------------------------------------------
(* handleDispatchUpgrade and handleUpgradeRollback, up to the records.  A  *)
(* rollback starts from a record that exists, and is not checked.          *)
StartRequest(r) ==
    /\ asking[r] = "idle"
    /\ IF r \in Rollbacks
       THEN \E c \in Call : c[2] = Matched[r][1] /\ record[c] # "none" /\ Goto(r, "create")
       ELSE Goto(r, "check")
    /\ UNCHANGED <<callVars, record, target>>

(* rejectConcurrentUpgrade.  The records made for earlier stewards of the  *)
(* request stay as they are when it is refused.                            *)
RejectConcurrentUpgrade(r) ==
    /\ asking[r] = "check"
    /\ \/ OpenUpgrades(Matched[r][target[r]]) = {} /\ Goto(r, "create")
       \/ OpenUpgrades(Matched[r][target[r]]) # {} /\ Goto(r, "refused")
       \/ Upgrade(r) \in UnsafeRecords /\ Goto(r, "refused")
    /\ UNCHANGED <<callVars, record, target>>

CreateRecord(r) ==
    /\ asking[r] = "create"
    /\ \/ /\ record' = [record EXCEPT ![Upgrade(r)] = "dispatched"]
          /\ IF target[r] < Len(Matched[r])
             THEN Goto(r, "check") /\ target' = [target EXCEPT ![r] = @ + 1]
             ELSE Goto(r, "fanout") /\ target' = [target EXCEPT ![r] = 1]
       \/ Upgrade(r) \in UnsafeRecords /\ Goto(r, "refused") /\ UNCHANGED <<record, target>>
    /\ UNCHANGED callVars

-----------------------------------------------------------------------------
(* fanOutUpgradeCommands and publishRollbackCommand. *)

NextTarget(r) ==
    IF target[r] < Len(Matched[r])
    THEN target' = [target EXCEPT ![r] = @ + 1] /\ asking' = asking
    ELSE Goto(r, "done") /\ target' = target

UpgradeSend(r) ==
    /\ asking[r] = "fanout"
    /\ Send(Upgrade(r)) \/ Arm(Upgrade(r))
    /\ UNCHANGED <<record, asking, target>>

UpgradeRegister(r) ==
    /\ asking[r] = "fanout"
    /\ Register(Upgrade(r))
    /\ NextTarget(r)
    /\ UNCHANGED record

(* UpdateUpgradeStatus overwrites whatever status is there. *)
UpdateUpgradeStatus(c, st) ==
    record' = [record EXCEPT ![c] = st] \/ (c \in UnsafeRecords /\ record' = record)

UpgradeSendFails(r) ==
    /\ asking[r] = "fanout"
    /\ SendFails(Upgrade(r))
    /\ UpdateUpgradeStatus(Upgrade(r), "failed")
    /\ NextTarget(r)

(* Fault: whatever is not a failure commits.  Fault: a receipt marks the   *)
(* record as dispatched again.                                             *)
CommitByDefault(c, e) == IF e \in {"failed", "timeout"} THEN "failed" ELSE "committed"
ReceiptReopens(c, e) ==
    CASE e = "completed" -> "committed"
      [] e \in {"failed", "timeout"} -> "failed"
      [] OTHER -> "dispatched"

(* upgradeCallbacks: a receipt leaves the record as it is. *)
Outcome(c, e) ==
    CASE e = "completed" -> IF c[1] \in Rollbacks THEN "rolled_back" ELSE "committed"
      [] e \in {"failed", "timeout"} -> "failed"
      [] OTHER -> record[c]

UpgradeCallback(c, e) ==
    /\ RunCallback(c, e)
    /\ UpdateUpgradeStatus(c, Outcome(c, e))
    /\ UNCHANGED <<asking, target>>

-----------------------------------------------------------------------------
RequestStep(r) ==
    \/ StartRequest(r) \/ RejectConcurrentUpgrade(r) \/ CreateRecord(r)
    \/ UpgradeSend(r) \/ UpgradeRegister(r) \/ UpgradeSendFails(r)

UpgradeNext ==
    \/ \E r \in Request : RequestStep(r)
    \/ \E c \in Call : \/ CallProceeds(c) /\ UNCHANGED <<record, asking, target>>
                       \/ \E e \in Callback : UpgradeCallback(c, e)
    \/ StopPublisher /\ UNCHANGED <<record, asking, target>>

UpgradeSpec == UpgradeInit /\ [][UpgradeNext]_upgradeVars

-----------------------------------------------------------------------------
(* A settled record says what happened: committed or rolled_back only      *)
(* after the steward reported completion, failed only after a failure, a   *)
(* timeout or a failed send.                                               *)
OutcomeIsTrue ==
    \A c \in Call :
        /\ record[c] \in {"committed", "rolled_back"} => "completed" \in made[c]
        /\ record[c] = "failed" => \/ made[c] \cap {"failed", "timeout"} # {}
                                   \/ pub[c] = "failed"

(* A terminal status is final, although the store does not guard it: late  *)
(* events, the timer and a failed send never settle one record twice.      *)
SettledOnce ==
    [][\A c \in Call : record[c] \in Terminal => record'[c] = record[c]]_upgradeVars

(* A fan-out that is over has published every command it has a record of,  *)
(* the sends that failed in between included.                              *)
FanOutIsComplete ==
    \A r \in Request : asking[r] = "done" =>
        \A c \in Call : c[1] = r /\ record[c] # "none" => pub[c] \in {"returned", "failed"}
=============================================================================
