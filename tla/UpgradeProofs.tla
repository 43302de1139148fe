---------------------------- MODULE UpgradeProofs ----------------------------
(***************************************************************************)
(* The upgrade records, for any requests, selectors and failing stores.    *)
(***************************************************************************)
EXTENDS UpgradeDispatch, CallbackProofs

(* c is the command of some request to one of its stewards. *)
IsTarget(c) == \E r \in Request : \E i \in DOMAIN Matched[r] : c = <<r, Matched[r][i]>>

(* How far a request has come, for each of its stewards. *)
RequestInv(r) ==
    /\ target[r] \in DOMAIN Matched[r]
    /\ \A i \in DOMAIN Matched[r] : LET c == <<r, Matched[r][i]>> IN
          /\ asking[r] \in {"idle", "check", "create"} /\ i >= target[r] => record[c] = "none"
          /\ asking[r] \in {"idle", "check", "create"} => pub[c] = "idle"
          /\ asking[r] = "fanout" /\ i < target[r] => pub[c] \in {"returned", "failed"}
          /\ asking[r] = "done" => pub[c] \in {"returned", "failed"}

(* What is published or recorded has a request, and a failed publish has   *)
(* no verdict.                                                             *)
RecordInv(c) ==
    /\ record[c] # "none" \/ pub[c] # "idle" => IsTarget(c)
    /\ pub[c] # "registered"
    /\ pub[c] = "failed" => verdicts[c] = 0

UpgradeInv ==
    /\ CallbackInv /\ UpgradeTypeOK
    /\ \A r \in Request : RequestInv(r)
    /\ \A c \in Call : VerdictInv(c) /\ RecordInv(c)
    /\ OutcomeIsTrue

(* The assumptions on the constants, for one request. *)
LEMMA MatchedFacts ==
    ASSUME NEW r \in Request
    PROVE  /\ Len(Matched[r]) \in Nat /\ Len(Matched[r]) > 0
           /\ DOMAIN Matched[r] = 1 .. Len(Matched[r])
           /\ \A i \in DOMAIN Matched[r] : <<r, Matched[r][i]>> \in Call
           /\ \A i, j \in DOMAIN Matched[r] : Matched[r][i] = Matched[r][j] => i = j
BY UpgradeConstants

LEMMA UpgradeStarts == UpgradeInit => UpgradeInv
<1> SUFFICES ASSUME UpgradeInit PROVE UpgradeInv
  OBVIOUS
<1>1. CallbackInv
  BY CallbackStarts DEF UpgradeInit
<1>2. UpgradeTypeOK
  BY DEF UpgradeInit, UpgradeTypeOK
<1>3. \A r \in Request : RequestInv(r)
  <2> SUFFICES ASSUME NEW r \in Request PROVE RequestInv(r)
    OBVIOUS
  <2>1. asking[r] = "idle" /\ target[r] = 1
    BY DEF UpgradeInit
  <2>2. ASSUME NEW c \in Call PROVE record[c] = "none" /\ pub[c] = "idle"
    BY DEF UpgradeInit, CallbackInit
  <2>3. QED
    BY <2>1, <2>2, MatchedFacts DEF RequestInv
<1>4. \A c \in Call : VerdictInv(c)
  BY DEF UpgradeInit, CallbackInit, VerdictInv
<1>5. \A c \in Call : RecordInv(c)
  BY DEF UpgradeInit, CallbackInit, RecordInv
<1>6. OutcomeIsTrue
  BY DEF UpgradeInit, CallbackInit, OutcomeIsTrue
<1>7. QED
  BY <1>1, <1>2, <1>3, <1>4, <1>5, <1>6 DEF UpgradeInv

(* The command in hand is a call. *)
LEMMA UpgradeIsCall ==
    ASSUME UpgradeInv, NEW r \in Request
    PROVE  /\ Upgrade(r) \in Call
           /\ IsTarget(Upgrade(r))
           /\ Upgrade(r) = <<r, Matched[r][target[r]]>>
           /\ target[r] \in 1 .. Len(Matched[r])
<1>1. target[r] \in DOMAIN Matched[r]
  BY DEF UpgradeInv, RequestInv
<1>2. <<r, Matched[r][target[r]]>> \in Call /\ DOMAIN Matched[r] = 1 .. Len(Matched[r])
  BY <1>1, MatchedFacts
<1>3. QED
  BY <1>1, <1>2 DEF Upgrade, IsTarget

(* The publisher's part of a step is a step of the publisher. *)
LEMMA UpgradeIsCallbackStep ==
    ASSUME UpgradeInv, [UpgradeNext]_upgradeVars
    PROVE  [CallbackNext]_callVars
<1>1. CASE UNCHANGED upgradeVars
  BY <1>1 DEF upgradeVars
<1>2. ASSUME NEW r \in Request, RequestStep(r) PROVE [CallbackNext]_callVars
  BY <1>2, UpgradeIsCall
     DEF RequestStep, StartRequest, RejectConcurrentUpgrade, CreateRecord, UpgradeSend, UpgradeRegister,
         UpgradeSendFails, CallbackNext
<1>3. ASSUME NEW c \in Call, CallProceeds(c) \/ \E e \in Callback : UpgradeCallback(c, e)
      PROVE  CallbackNext
  BY <1>3 DEF UpgradeCallback, CallbackNext
<1>4. CASE StopPublisher
  BY <1>4 DEF CallbackNext
<1>5. QED
  BY <1>1, <1>2, <1>3, <1>4 DEF UpgradeNext

(* What a step that is not a request's does to publishes and records. *)
LEMMA CallbackEffect ==
    ASSUME UpgradeInv,
           \/ \E c \in Call : \/ CallProceeds(c) /\ UNCHANGED <<record, asking, target>>
                              \/ \E e \in Callback : UpgradeCallback(c, e)
           \/ StopPublisher /\ UNCHANGED <<record, asking, target>>
           \/ UNCHANGED upgradeVars
    PROVE  /\ pub' = pub /\ asking' = asking /\ target' = target
           /\ \/ record' = record
              \/ \E c \in Call : \E e \in due[c] \cap Verdict :
                    /\ record' = [record EXCEPT ![c] = Outcome(c, e)]
                    /\ Outcome(c, e) \in Terminal
                    /\ made'[c] = made[c] \cup {e}
<1>1. ASSUME NEW c \in Call, CallProceeds(c) PROVE pub' = pub
  BY <1>1 DEF CallProceeds, Accept, Finish, HandleEventUpdate, TimerFires, HandleTimeout
<1>2. StopPublisher => pub' = pub
  BY DEF StopPublisher
<1>3. UNCHANGED upgradeVars => UNCHANGED <<pub, asking, target, record>>
  BY DEF upgradeVars, callVars
<1>4. ASSUME NEW c \in Call, NEW e \in Callback, UpgradeCallback(c, e)
      PROVE  /\ pub' = pub /\ asking' = asking /\ target' = target
             /\ \/ record' = record
                \/ /\ e \in due[c] \cap Verdict
                   /\ record' = [record EXCEPT ![c] = Outcome(c, e)]
                   /\ Outcome(c, e) \in Terminal
                   /\ made'[c] = made[c] \cup {e}
  <2>1. pub' = pub /\ asking' = asking /\ target' = target /\ e \in due[c]
    BY <1>4 DEF UpgradeCallback, RunCallback
  <2>2. made'[c] = made[c] \cup {e}
    BY <1>4 DEF UpgradeCallback, RunCallback, UpgradeInv, CallbackInv, CallbackTypeOK
  <2>3. record' = [record EXCEPT ![c] = Outcome(c, e)] \/ record' = record
    BY <1>4 DEF UpgradeCallback, UpdateUpgradeStatus
  <2>4. e = "received" => record' = record
    BY <2>3 DEF Outcome, UpgradeInv, UpgradeTypeOK
  <2>5. e # "received" => e \in Verdict /\ Outcome(c, e) \in Terminal
    BY DEF Callback, Verdict, Outcome, Terminal
  <2>6. QED
    BY <2>1, <2>2, <2>3, <2>4, <2>5
<1>5. QED
  BY <1>1, <1>2, <1>3, <1>4

LEMMA UpgradeTypesStep ==
    ASSUME UpgradeInv, [UpgradeNext]_upgradeVars
    PROVE  UpgradeTypeOK'
<1> USE DEF UpgradeTypeOK
<1>1. UpgradeTypeOK
  BY DEF UpgradeInv
<1>2. ASSUME NEW r \in Request, RequestStep(r) PROVE UpgradeTypeOK'
  <2>1. record' \in [Call -> Terminal \cup {"none", "dispatched"}]
    BY <1>1, <1>2, UpgradeIsCall
       DEF RequestStep, StartRequest, RejectConcurrentUpgrade, CreateRecord, UpgradeSend, UpgradeRegister,
           UpgradeSendFails, UpdateUpgradeStatus, Terminal
  <2>2. asking' \in [Request -> {"idle", "check", "create", "fanout", "refused", "done"}]
    BY <1>1, <1>2
       DEF RequestStep, StartRequest, RejectConcurrentUpgrade, CreateRecord, UpgradeSend, UpgradeRegister,
           UpgradeSendFails, NextTarget, Goto
  <2>3. target' \in [Request -> Nat]
    BY <1>1, <1>2
       DEF RequestStep, StartRequest, RejectConcurrentUpgrade, CreateRecord, UpgradeSend, UpgradeRegister,
           UpgradeSendFails, NextTarget
  <2>4. QED
    BY <2>1, <2>2, <2>3
<1>3. CASE ~ \E r \in Request : RequestStep(r)
  BY <1>1, <1>3, CallbackEffect DEF UpgradeNext
<1>4. QED
  BY <1>2, <1>3

LEMMA RecordInvStep ==
    ASSUME UpgradeInv, [UpgradeNext]_upgradeVars, NEW c \in Call
    PROVE  RecordInv(c)'
<1>1. /\ CallbackTypeOK /\ UpgradeTypeOK /\ RecordInv(c)
      /\ (pub[c] = "idle" => verdicts[c] = 0)
      /\ (verdicts[c] = 0 => due[c] \cap Verdict = {})
  BY DEF UpgradeInv, CallbackInv, EntryInv, VerdictInv
<1>2. pub[c] = "failed" => verdicts'[c] = verdicts[c]
  BY UpgradeIsCallbackStep, ErrorIsFinal DEF UpgradeInv
<1> USE DEF RecordInv, CallbackTypeOK, UpgradeTypeOK
<1>3. IsTarget(c)' = IsTarget(c)
  BY DEF IsTarget
<1>4. ASSUME NEW r \in Request, RequestStep(r) PROVE RecordInv(c)'
  <2>1. Upgrade(r) \in Call /\ IsTarget(Upgrade(r))
    BY UpgradeIsCall
  <2>2. CASE StartRequest(r) \/ RejectConcurrentUpgrade(r) \/ CreateRecord(r)
    BY <1>1, <1>3, <2>1, <2>2 DEF StartRequest, RejectConcurrentUpgrade, CreateRecord, callVars
  <2>3. CASE UpgradeSend(r)
    BY <1>1, <1>3, <2>1, <2>3 DEF UpgradeSend, Send, Arm
  <2>4. CASE UpgradeRegister(r)
    BY <1>1, <1>3, <2>1, <2>4 DEF UpgradeRegister, Register
  <2>5. CASE UpgradeSendFails(r)
    BY <1>1, <1>3, <2>1, <2>5 DEF UpgradeSendFails, SendFails, UpdateUpgradeStatus
  <2>6. QED
    BY <1>4, <2>2, <2>3, <2>4, <2>5 DEF RequestStep
<1>5. CASE ~ \E r \in Request : RequestStep(r)
  <2>1. /\ pub' = pub
        /\ \/ record' = record
           \/ \E d \in Call : \E e \in due[d] \cap Verdict : record' = [record EXCEPT ![d] = Outcome(d, e)]
    BY <1>5, CallbackEffect DEF UpgradeNext
  <2>2. pub[c] = "idle" => record'[c] = record[c]
    BY <1>1, <2>1
  <2>3. QED
    BY <1>1, <1>2, <1>3, <2>1, <2>2
<1>6. QED
  BY <1>4, <1>5

LEMMA RequestInvStep ==
    ASSUME UpgradeInv, [UpgradeNext]_upgradeVars, NEW q \in Request
    PROVE  RequestInv(q)'
<1> DEFINE Command(i) == <<q, Matched[q][i]>>
<1>1. CallbackTypeOK /\ UpgradeTypeOK /\ RequestInv(q)
  BY DEF UpgradeInv, CallbackInv
<1>2. /\ Len(Matched[q]) \in Nat /\ Len(Matched[q]) > 0
      /\ DOMAIN Matched[q] = 1 .. Len(Matched[q])
      /\ \A i \in DOMAIN Matched[q] : Command(i) \in Call
      /\ \A i, j \in DOMAIN Matched[q] : Command(i) = Command(j) => i = j
  BY MatchedFacts
<1>3. /\ target[q] \in 1 .. Len(Matched[q])
      /\ \A i \in DOMAIN Matched[q] :
            /\ asking[q] \in {"idle", "check", "create"} /\ i >= target[q] => record[Command(i)] = "none"
            /\ asking[q] \in {"idle", "check", "create"} => pub[Command(i)] = "idle"
            /\ asking[q] = "fanout" /\ i < target[q] => pub[Command(i)] \in {"returned", "failed"}
            /\ asking[q] = "done" => pub[Command(i)] \in {"returned", "failed"}
  BY <1>1, <1>2 DEF RequestInv
<1>4. SUFFICES
        /\ target'[q] \in 1 .. Len(Matched[q])
        /\ \A i \in DOMAIN Matched[q] :
              /\ asking'[q] \in {"idle", "check", "create"} /\ i >= target'[q] => record'[Command(i)] = "none"
              /\ asking'[q] \in {"idle", "check", "create"} => pub'[Command(i)] = "idle"
              /\ asking'[q] = "fanout" /\ i < target'[q] => pub'[Command(i)] \in {"returned", "failed"}
              /\ asking'[q] = "done" => pub'[Command(i)] \in {"returned", "failed"}
  BY <1>2 DEF RequestInv
<1> HIDE DEF Command
<1>5. ASSUME NEW r \in Request, r # q, RequestStep(r)
      PROVE  /\ asking'[q] = asking[q] /\ target'[q] = target[q]
             /\ \A i \in DOMAIN Matched[q] :
                   pub'[Command(i)] = pub[Command(i)] /\ record'[Command(i)] = record[Command(i)]
  <2>1. Upgrade(r) \in Call /\ \A i \in DOMAIN Matched[q] : Command(i) # Upgrade(r)
    BY <1>5, UpgradeIsCall DEF Command
  <2>2. CASE StartRequest(r) \/ RejectConcurrentUpgrade(r) \/ CreateRecord(r)
    BY <1>1, <1>2, <1>5, <2>1, <2>2
       DEF StartRequest, RejectConcurrentUpgrade, CreateRecord, Goto, callVars, CallbackTypeOK, UpgradeTypeOK
  <2>3. CASE UpgradeSend(r)
    BY <1>1, <1>2, <1>5, <2>1, <2>3 DEF UpgradeSend, Send, Arm, CallbackTypeOK
  <2>4. CASE UpgradeRegister(r)
    BY <1>1, <1>2, <1>5, <2>1, <2>4
       DEF UpgradeRegister, Register, NextTarget, Goto, CallbackTypeOK, UpgradeTypeOK
  <2>5. CASE UpgradeSendFails(r)
    BY <1>1, <1>2, <1>5, <2>1, <2>5
       DEF UpgradeSendFails, SendFails, UpdateUpgradeStatus, NextTarget, Goto, CallbackTypeOK, UpgradeTypeOK
  <2>6. QED
    BY <1>5, <2>2, <2>3, <2>4, <2>5 DEF RequestStep
<1>6. CASE RequestStep(q)
  <2> USE DEF CallbackTypeOK, UpgradeTypeOK
  <2>1. Upgrade(q) = Command(target[q]) /\ Upgrade(q) \in Call
    BY UpgradeIsCall DEF Command
  <2>0. \A i \in DOMAIN Matched[q] : i # target[q] => Command(i) # Upgrade(q)
    BY <1>2, <1>3, <2>1
  <2>2. CASE StartRequest(q) \/ RejectConcurrentUpgrade(q)
    BY <1>1, <1>3, <2>2 DEF StartRequest, RejectConcurrentUpgrade, Goto, callVars
  <2>3. CASE CreateRecord(q)
    <3>1. asking[q] = "create" /\ pub' = pub
      BY <2>3 DEF CreateRecord, callVars
    <3>2. CASE record' = record /\ asking'[q] = "refused" /\ target' = target
      BY <1>3, <3>1, <3>2
    <3>3. CASE /\ record' = [record EXCEPT ![Upgrade(q)] = "dispatched"]
               /\ target[q] < Len(Matched[q]) /\ asking'[q] = "check" /\ target'[q] = target[q] + 1
      <4>1. target'[q] \in 1 .. Len(Matched[q])
        BY <1>2, <1>3, <3>3
      <4>2. ASSUME NEW i \in DOMAIN Matched[q], i >= target'[q] PROVE record'[Command(i)] = "none"
        BY <1>1, <1>2, <1>3, <2>1, <3>1, <3>3, <4>2
      <4>3. QED
        BY <1>3, <3>1, <3>3, <4>1, <4>2
    <3>4. CASE asking'[q] = "fanout" /\ target'[q] = 1
      <4>1. target'[q] \in 1 .. Len(Matched[q]) /\ \A i \in DOMAIN Matched[q] : ~(i < target'[q])
        BY <1>2, <3>4
      <4>2. QED
        BY <3>4, <4>1
    <3>5. \/ record' = record /\ asking'[q] = "refused" /\ target' = target
          \/ /\ record' = [record EXCEPT ![Upgrade(q)] = "dispatched"]
             /\ target[q] < Len(Matched[q]) /\ asking'[q] = "check" /\ target'[q] = target[q] + 1
          \/ asking'[q] = "fanout" /\ target'[q] = 1
      BY <1>1, <2>3 DEF CreateRecord, Goto
    <3>6. QED
      BY <3>2, <3>3, <3>4, <3>5
  <2>4. CASE UpgradeSend(q)
    <3>1. /\ asking' = asking /\ target' = target /\ record' = record /\ asking[q] = "fanout"
          /\ pub[Upgrade(q)] \in {"idle", "sent"}
          /\ \A c \in Call : c # Upgrade(q) => pub'[c] = pub[c]
      BY <1>1, <2>4 DEF UpgradeSend, Send, Arm
    <3>2. ASSUME NEW i \in DOMAIN Matched[q], i < target[q] PROVE pub'[Command(i)] = pub[Command(i)]
      BY <1>2, <1>3, <2>1, <3>1, <3>2
    <3>3. QED
      BY <1>3, <3>1, <3>2
  <2>5. CASE UpgradeRegister(q) \/ UpgradeSendFails(q)
    <3>1. /\ asking[q] = "fanout" /\ NextTarget(q)
          /\ pub'[Upgrade(q)] \in {"returned", "failed"}
          /\ \A c \in Call : c # Upgrade(q) => pub'[c] = pub[c]
      BY <1>1, <2>1, <2>5 DEF UpgradeRegister, Register, UpgradeSendFails, SendFails
    <3>2. CASE target[q] < Len(Matched[q])
      <4>1. asking'[q] = "fanout" /\ target'[q] = target[q] + 1
        BY <1>1, <3>1, <3>2 DEF NextTarget
      <4>2. target'[q] \in 1 .. Len(Matched[q])
        BY <1>2, <1>3, <3>2, <4>1
      <4>3. ASSUME NEW i \in DOMAIN Matched[q], i < target'[q]
            PROVE  pub'[Command(i)] \in {"returned", "failed"}
        <5>0. i \in Nat /\ i <= Len(Matched[q]) /\ target[q] \in Nat
          BY <1>2, <1>3
        <5>1. i = target[q] \/ (i < target[q] /\ Command(i) # Upgrade(q))
          BY <1>2, <2>0, <5>0, <4>1, <4>3
        <5>2. CASE i = target[q]
          BY <2>1, <3>1, <5>2
        <5>3. CASE i < target[q] /\ Command(i) # Upgrade(q)
          <6>1. Command(i) \in Call /\ pub[Command(i)] \in {"returned", "failed"}
            BY <1>2, <1>3, <3>1, <5>3
          <6>2. QED
            BY <3>1, <5>3, <6>1
        <5>4. QED
          BY <5>1, <5>2, <5>3
      <4>4. QED
        BY <4>1, <4>2, <4>3
    <3>3. CASE ~(target[q] < Len(Matched[q]))
      <4>1. asking'[q] = "done" /\ target'[q] = target[q]
        BY <1>1, <3>1, <3>3 DEF NextTarget, Goto
      <4>2. ASSUME NEW i \in DOMAIN Matched[q] PROVE pub'[Command(i)] \in {"returned", "failed"}
        <5>0. i \in Nat /\ i <= Len(Matched[q]) /\ target[q] \in Nat
          BY <1>2, <1>3
        <5>1. i = target[q] \/ (i < target[q] /\ Command(i) # Upgrade(q))
          BY <1>2, <2>0, <5>0, <3>3
        <5>2. CASE i = target[q]
          BY <2>1, <3>1, <5>2
        <5>3. CASE i < target[q] /\ Command(i) # Upgrade(q)
          <6>1. Command(i) \in Call /\ pub[Command(i)] \in {"returned", "failed"}
            BY <1>2, <1>3, <3>1, <5>3
          <6>2. QED
            BY <3>1, <5>3, <6>1
        <5>4. QED
          BY <5>1, <5>2, <5>3
      <4>3. QED
        BY <1>3, <4>1, <4>2
    <3>4. QED
      BY <3>2, <3>3
  <2>6. QED
    BY <1>6, <2>2, <2>3, <2>4, <2>5 DEF RequestStep
<1>7. CASE ~ \E r \in Request : RequestStep(r)
  <2>1. /\ pub' = pub /\ asking' = asking /\ target' = target
        /\ \/ record' = record
           \/ \E d \in Call : \E e \in due[d] \cap Verdict : record' = [record EXCEPT ![d] = Outcome(d, e)]
    BY <1>7, CallbackEffect DEF UpgradeNext
  <2>2. ASSUME NEW c \in Call, pub[c] = "idle" PROVE due[c] \cap Verdict = {}
    BY <2>2 DEF UpgradeInv, CallbackInv, EntryInv, VerdictInv
  <2>3. ASSUME NEW c \in Call, pub[c] = "idle" PROVE record'[c] = record[c]
    BY <1>1, <2>1, <2>2, <2>3 DEF UpgradeTypeOK
  <2>4. QED
    BY <1>2, <1>3, <2>1, <2>3
<1>8. QED
  BY <1>3, <1>5, <1>6, <1>7

LEMMA OutcomeStep ==
    ASSUME UpgradeInv, [UpgradeNext]_upgradeVars, NEW c \in Call
    PROVE  /\ record'[c] \in {"committed", "rolled_back"} => "completed" \in made'[c]
           /\ record'[c] = "failed" => \/ made'[c] \cap {"failed", "timeout"} # {}
                                       \/ pub'[c] = "failed"
<1>1. /\ record \in [Call -> Terminal \cup {"none", "dispatched"}]
      /\ made \in [Call -> SUBSET Callback] /\ pub \in [Call -> PubState]
      /\ record[c] \in {"committed", "rolled_back"} => "completed" \in made[c]
      /\ record[c] = "failed" => made[c] \cap {"failed", "timeout"} # {} \/ pub[c] = "failed"
  BY DEF UpgradeInv, UpgradeTypeOK, OutcomeIsTrue, CallbackInv, CallbackTypeOK
<1>2. made[c] \subseteq made'[c]
  <2>1. [CallbackNext]_callVars
    BY UpgradeIsCallbackStep
  <2>2. CASE made' = made
    BY <2>2
  <2>3. ASSUME NEW d \in Call, NEW e \in Callback, RunCallback(d, e) PROVE made[c] \subseteq made'[c]
    BY <1>1, <2>3 DEF RunCallback
  <2>4. QED
    BY <2>1, <2>2, <2>3
       DEF CallbackNext, CallProceeds, Send, SendFails, Arm, Register, RegisterFirst, SendRegistered,
           SendRegisteredFails, Accept, Finish, HandleEventUpdate, TimerFires, HandleTimeout,
           StopPublisher, callVars
<1>3. ASSUME NEW r \in Request, RequestStep(r)
      PROVE  /\ pub[c] = "failed" => pub'[c] = "failed"
             /\ record'[c] \in {record[c], "dispatched"} \/ (record'[c] = "failed" /\ pub'[c] = "failed")
  <2>1. Upgrade(r) \in Call
    BY UpgradeIsCall
  <2>2. CASE StartRequest(r) \/ RejectConcurrentUpgrade(r) \/ CreateRecord(r)
    BY <1>1, <2>1, <2>2 DEF StartRequest, RejectConcurrentUpgrade, CreateRecord, callVars
  <2>3. CASE UpgradeSend(r)
    BY <1>1, <2>1, <2>3 DEF UpgradeSend, Send, Arm
  <2>4. CASE UpgradeRegister(r)
    BY <1>1, <2>1, <2>4 DEF UpgradeRegister, Register
  <2>5. CASE UpgradeSendFails(r)
    BY <1>1, <2>1, <2>5 DEF UpgradeSendFails, SendFails, UpdateUpgradeStatus
  <2>6. QED
    BY <1>3, <2>2, <2>3, <2>4, <2>5 DEF RequestStep
<1>4. CASE ~ \E r \in Request : RequestStep(r)
  <2>1. pub' = pub
    BY <1>4, CallbackEffect DEF UpgradeNext
  <2>2. \/ record' = record
        \/ \E d \in Call : \E e \in due[d] \cap Verdict :
              /\ record' = [record EXCEPT ![d] = Outcome(d, e)]
              /\ made'[d] = made[d] \cup {e}
    BY <1>4, CallbackEffect DEF UpgradeNext
  <2>3. CASE record'[c] = record[c]
    BY <1>1, <1>2, <2>1, <2>3
  <2>4. ASSUME NEW e \in Verdict, record'[c] = Outcome(c, e), made'[c] = made[c] \cup {e}
        PROVE  /\ record'[c] \in {"committed", "rolled_back"} => "completed" \in made'[c]
               /\ record'[c] = "failed" => made'[c] \cap {"failed", "timeout"} # {}
    BY <2>4 DEF Outcome, Verdict
  <2>5. QED
    BY <1>1, <2>2, <2>3, <2>4
<1>5. QED
  BY <1>1, <1>2, <1>3, <1>4

LEMMA UpgradeStep ==
    ASSUME UpgradeInv, [UpgradeNext]_upgradeVars
    PROVE  UpgradeInv'
<1>1. CallbackInv' /\ \A c \in Call : VerdictInv(c)'
  BY UpgradeIsCallbackStep, CallbackStep, VerdictStep DEF UpgradeInv
<1>2. UpgradeTypeOK' /\ \A r \in Request : RequestInv(r)'
  BY UpgradeTypesStep, RequestInvStep
<1>3. \A c \in Call : RecordInv(c)'
  BY RecordInvStep
<1>4. OutcomeIsTrue'
  BY OutcomeStep DEF OutcomeIsTrue
<1>5. QED
  BY <1>1, <1>2, <1>3, <1>4 DEF UpgradeInv

LEMMA UpgradeInvariant == UpgradeSpec => []UpgradeInv
BY UpgradeStarts, UpgradeStep, PTL DEF UpgradeSpec

(* A settled upgrade record says what happened, for any requests,          *)
(* selectors and failing stores.                                           *)
THEOREM OutcomesAreTrue == UpgradeSpec => []OutcomeIsTrue
<1>1. UpgradeInv => OutcomeIsTrue
  BY DEF UpgradeInv
<1>2. QED
  BY <1>1, UpgradeInvariant, PTL

(* A fan-out that is over has published every command it has a record of. *)
THEOREM FanOutsAreComplete == UpgradeSpec => []FanOutIsComplete
<1>1. UpgradeInv => FanOutIsComplete
  <2> SUFFICES ASSUME UpgradeInv, NEW r \in Request, asking[r] = "done",
                      NEW c \in Call, c[1] = r, record[c] # "none"
               PROVE  pub[c] \in {"returned", "failed"}
    BY DEF FanOutIsComplete
  <2>1. PICK q \in Request : \E i \in DOMAIN Matched[q] : c = <<q, Matched[q][i]>>
    BY DEF UpgradeInv, RecordInv, IsTarget
  <2>2. q = r
    BY <2>1
  <2>3. QED
    BY <2>1, <2>2 DEF UpgradeInv, RequestInv
<1>2. QED
  BY <1>1, UpgradeInvariant, PTL

(* A terminal status is final, although the store overwrites whatever is   *)
(* there.                                                                  *)
THEOREM RecordsSettleOnce == UpgradeSpec => SettledOnce
<1>1. ASSUME UpgradeInv, [UpgradeNext]_upgradeVars, NEW c \in Call, record[c] \in Terminal
      PROVE  record'[c] = record[c]
  <2>1. /\ record \in [Call -> Terminal \cup {"none", "dispatched"}]
        /\ made[c] \cap Verdict # {} \/ pub[c] = "failed"
    BY <1>1 DEF UpgradeInv, UpgradeTypeOK, OutcomeIsTrue, Terminal, Verdict
  <2>2. /\ pub[c] = "failed" => verdicts[c] = 0
        /\ pub[c] = "idle" => verdicts[c] = 0
        /\ verdicts[c] = 0 => (due[c] \cup made[c]) \cap Verdict = {}
        /\ \A e \in due[c] \cap Verdict : made[c] \cap Verdict = {}
    BY <1>1 DEF UpgradeInv, RecordInv, CallbackInv, EntryInv, VerdictInv
  <2>3. due[c] \cap Verdict = {} /\ pub[c] # "idle"
    BY <2>1, <2>2
  <2>4. ASSUME NEW r \in Request, RequestStep(r) PROVE record'[c] = record[c]
    <3>1. /\ Upgrade(r) \in Call /\ target[r] \in DOMAIN Matched[r]
          /\ Upgrade(r) = <<r, Matched[r][target[r]]>>
      BY <1>1, UpgradeIsCall DEF UpgradeInv, RequestInv
    <3>2. CASE CreateRecord(r)
      <4>1. target[r] \in Nat
        BY <1>1 DEF UpgradeInv, UpgradeTypeOK
      <4>2. record[Upgrade(r)] = "none"
        <5>1. RequestInv(r) /\ asking[r] = "create"
          BY <1>1, <3>2 DEF CreateRecord, UpgradeInv
        <5>2. \A i \in DOMAIN Matched[r] : i >= target[r] => record[<<r, Matched[r][i]>>] = "none"
          BY <5>1 DEF RequestInv
        <5>3. QED
          BY <3>1, <4>1, <5>2
      <4>3. c # Upgrade(r)
        BY <1>1, <4>2 DEF Terminal
      <4>4. QED
        BY <2>1, <3>2, <4>3 DEF CreateRecord
    <3>3. CASE UpgradeSendFails(r)
      <4>1. c # Upgrade(r)
        BY <2>3, <3>3 DEF UpgradeSendFails, SendFails
      <4>2. QED
        BY <2>1, <3>3, <4>1 DEF UpgradeSendFails, UpdateUpgradeStatus
    <3>4. QED
      BY <2>4, <3>2, <3>3
         DEF RequestStep, StartRequest, RejectConcurrentUpgrade, UpgradeSend, UpgradeRegister
  <2>5. CASE ~ \E r \in Request : RequestStep(r)
    <3>1. \/ record' = record
          \/ \E d \in Call : \E e \in due[d] \cap Verdict : record' = [record EXCEPT ![d] = Outcome(d, e)]
      BY <1>1, <2>5, CallbackEffect DEF UpgradeNext
    <3>2. QED
      BY <2>1, <2>3, <3>1
  <2>6. QED
    BY <2>4, <2>5
<1>2. UpgradeInv /\ [UpgradeNext]_upgradeVars =>
        [\A c \in Call : record[c] \in Terminal => record'[c] = record[c]]_upgradeVars
  BY <1>1
<1>3. QED
  BY <1>2, UpgradeInvariant, PTL DEF UpgradeSpec, SettledOnce
=============================================================================
