--------------------------- MODULE MigrationProofs ---------------------------
(***************************************************************************)
(* The signing migration, for any stewards, keys, plans, pool sizes,       *)
(* attempts and restarts.                                                  *)
(***************************************************************************)
EXTENDS SigningMigration, CallbackProofs, FiniteSetTheorems

(* The push in hand is one of the pushes made. *)
PushInHand(s) == pushes[s] \in 1 .. MaxPushes

ServiceTypes ==
    /\ CallbackTypeOK
    /\ DOMAIN push = Call /\ DOMAIN trust = Migrant
    /\ worker \in [Migrant -> Point] /\ stage \in [Migrant -> Stage]
    /\ pushes \in [Migrant -> 0 .. MaxPushes]
    /\ answer \in [Migrant -> {"none", "yes", "no"}]
    /\ \A s \in Migrant : worker[s] \in {"register", "send", "wait", "record"} => PushInHand(s)

LEMMA ServiceStarts == MigrationInit => ServiceTypes
<1> SUFFICES ASSUME MigrationInit PROVE ServiceTypes
  OBVIOUS
<1>1. CallbackTypeOK
  BY CallbackStarts DEF MigrationInit, CallbackInv
<1>2. DOMAIN trust = Migrant
  BY DEF MigrationInit
<1>3. DOMAIN push = Call /\ pushes \in [Migrant -> 0 .. MaxPushes]
  BY MigrationConstants DEF MigrationInit
<1>4. /\ worker \in [Migrant -> Point] /\ stage \in [Migrant -> Stage]
      /\ answer \in [Migrant -> {"none", "yes", "no"}]
      /\ \A s \in Migrant : worker[s] = "idle"
  BY DEF MigrationInit, Point, Stage
<1>5. QED
  BY <1>1, <1>2, <1>3, <1>4 DEF ServiceTypes

LEMMA PushIsCall ==
    ASSUME NEW s \in Migrant, NEW n \in 1 .. MaxPushes
    PROVE  <<s, n>> \in Call
BY MigrationConstants

(* The publisher's variables. *)
LEMMA PublisherTypes ==
    ASSUME ServiceTypes, [MigrationNext]_migrateVars
    PROVE  CallbackTypeOK'
<1>1. CallbackTypeOK
  BY DEF ServiceTypes
<1>2. CASE UNCHANGED callVars
  BY <1>1, <1>2, ProceedTypes
<1>3. ASSUME NEW s \in Migrant, RegisterPush(s) \/ SendPush(s) \/ SendPushFails(s) PROVE CallbackTypeOK'
  <2>1. Current(s) \in Call
    BY <1>3, PushIsCall DEF RegisterPush, SendPush, SendPushFails, ServiceTypes, PushInHand, Current
  <2>2. RegisterFirst(Current(s)) \/ SendRegistered(Current(s)) \/ SendRegisteredFails(Current(s))
    BY <1>3 DEF RegisterPush, SendPush, SendPushFails
  <2>3. QED
    BY <1>1, <2>1, <2>2, PublishTypes
<1>4. ASSUME NEW c \in Call,
             \/ PublisherStep(c) \/ TakePush(c) \/ HandlePushSigningCert(c)
             \/ \E e \in Callback : PushCallback(c, e)
      PROVE  CallbackTypeOK'
  <2>1. CallProceeds(c) \/ \E e \in Callback : RunCallback(c, e)
    BY <1>4 DEF PublisherStep, TakePush, HandlePushSigningCert, PushCallback, CallProceeds
  <2>2. QED
    BY <1>1, <2>1, ProceedTypes
<1>5. CASE Restart
  BY <1>1, <1>5 DEF Restart, CallbackTypeOK
<1>6. ASSUME NEW s \in Migrant, Enqueue(s) \/ WorkerStep(s) PROVE CallbackTypeOK'
  BY <1>2, <1>3, <1>6
     DEF Enqueue, WorkerStep, Process, AcquireSlot, TakeAnswer, StepTimeout, RecordAck
<1>7. ASSUME NEW c \in Call, HoldCeiling(c) \/ ReadTrust(c) PROVE CallbackTypeOK'
  BY <1>2, <1>7 DEF HoldCeiling, ReadTrust
<1>8. UNCHANGED migrateVars => UNCHANGED callVars
  BY DEF migrateVars
<1>9. QED
  BY <1>2, <1>4, <1>5, <1>6, <1>7, <1>8 DEF MigrationNext

(* What deliver's return may do. *)
LEMMA ReturnEffect ==
    ASSUME ServiceTypes, NEW s \in Migrant, Delivered(s) \/ NotDelivered(s)
    PROVE  /\ worker' \in [Migrant -> Point] /\ stage' \in [Migrant -> Stage]
           /\ \A t \in Migrant : t # s => worker'[t] = worker[t] /\ stage'[t] = stage[t]
           /\ worker'[s] \in {"slot", "idle", "record"}
           /\ worker'[s] = "record" => Delivered(s) /\ stage[s] # "legacy"
<1> USE DEF ServiceTypes, Point, Stage
<1>1. CASE Delivered(s)
  BY <1>1 DEF Delivered, StartPush, At
<1>2. CASE NotDelivered(s)
  <2>1. \/ At(s, "idle") /\ stage' = stage
        \/ StartPush(s, "legacy")
    BY <1>2 DEF NotDelivered
  <2>2. QED
    BY <2>1 DEF StartPush, At
<1>3. QED
  BY <1>1, <1>2

(* The worker's variables. *)
LEMMA WorkerTypes ==
    ASSUME ServiceTypes, [MigrationNext]_migrateVars
    PROVE  /\ DOMAIN push' = Call
           /\ worker' \in [Migrant -> Point] /\ stage' \in [Migrant -> Stage]
           /\ pushes' \in [Migrant -> 0 .. MaxPushes]
           /\ answer' \in [Migrant -> {"none", "yes", "no"}]
           /\ \A s \in Migrant : worker'[s] \in {"register", "send", "wait", "record"} => PushInHand(s)'
<1> DEFINE Goal == /\ DOMAIN push' = Call
                   /\ worker' \in [Migrant -> Point] /\ stage' \in [Migrant -> Stage]
                   /\ pushes' \in [Migrant -> 0 .. MaxPushes]
                   /\ answer' \in [Migrant -> {"none", "yes", "no"}]
                   /\ \A s \in Migrant :
                         worker'[s] \in {"register", "send", "wait", "record"} => PushInHand(s)'
<1> USE DEF ServiceTypes, PushInHand
<1>1. CASE UNCHANGED <<push, worker, stage, pushes, answer>>
  BY <1>1
<1>2. ASSUME NEW s \in Migrant, Enqueue(s) PROVE Goal
  BY <1>2 DEF Enqueue, At, Point
<1>3. ASSUME NEW s \in Migrant, Process(s) PROVE Goal
  BY <1>3 DEF Process, StartPush, At, Point, Stage
<1>4. ASSUME NEW s \in Migrant, AcquireSlot(s) PROVE Goal
  <2>1. DOMAIN push' = Call /\ stage' = stage
    BY <1>4 DEF AcquireSlot
  <2>2. worker' \in [Migrant -> Point] /\ \A t \in Migrant : t # s => worker'[t] = worker[t]
    BY <1>4 DEF AcquireSlot, At, Point
  <2>3. /\ pushes' \in [Migrant -> 0 .. MaxPushes]
        /\ \A t \in Migrant : t # s => pushes'[t] = pushes[t]
        /\ pushes'[s] \in 1 .. MaxPushes
    BY <1>4, MigrationConstants DEF AcquireSlot
  <2>4. answer' \in [Migrant -> {"none", "yes", "no"}]
    BY <1>4 DEF AcquireSlot
  <2>5. QED
    BY <2>1, <2>2, <2>3, <2>4
<1>5. ASSUME NEW s \in Migrant, RegisterPush(s) \/ SendPush(s) PROVE Goal
  BY <1>5 DEF RegisterPush, SendPush, At, Point
<1>6. ASSUME NEW s \in Migrant, SendPushFails(s) \/ TakeAnswer(s) \/ StepTimeout(s) PROVE Goal
  <2>1. /\ Delivered(s) \/ NotDelivered(s)
        /\ UNCHANGED <<push, pushes, answer>>
        /\ worker[s] \in {"send", "wait"}
    BY <1>6 DEF SendPushFails, TakeAnswer, StepTimeout
  <2>2. QED
    BY <2>1, ReturnEffect
<1>7. ASSUME NEW s \in Migrant, RecordAck(s) PROVE Goal
  BY <1>7 DEF RecordAck, StartPush, At, Point, Stage
<1>8. ASSUME NEW c \in Call, NEW e \in Callback, PushCallback(c, e) PROVE Goal
  BY <1>8 DEF PushCallback, Report
<1>9. CASE Restart
  BY <1>9 DEF Restart, Point
<1>10. ASSUME NEW c \in Call,
              \/ PublisherStep(c) /\ UNCHANGED migrationVars
              \/ HoldCeiling(c) \/ TakePush(c) \/ ReadTrust(c) \/ HandlePushSigningCert(c)
       PROVE  UNCHANGED <<push, worker, stage, pushes, answer>>
  BY <1>10 DEF migrationVars, HoldCeiling, TakePush, ReadTrust, HandlePushSigningCert, KeepService
<1>11. UNCHANGED migrateVars => UNCHANGED <<push, worker, stage, pushes, answer>>
  BY DEF migrateVars, migrationVars
<1>12. QED
  BY <1>1, <1>2, <1>3, <1>4, <1>5, <1>6, <1>7, <1>8, <1>9, <1>10, <1>11 DEF MigrationNext, WorkerStep

(* The stewards' trust: a push that is applied leaves the shared key in. *)
LEMMA TrustStep ==
    ASSUME ServiceTypes, [MigrationNext]_migrateVars
    PROVE  /\ DOMAIN trust' = Migrant
           /\ \A s \in Migrant : Shared \in trust[s] => Shared \in trust'[s]
<1>1. DOMAIN trust = Migrant
  BY DEF ServiceTypes
<1>2. CASE UNCHANGED trust
  BY <1>1, <1>2
<1>3. ASSUME NEW c \in Call, HandlePushSigningCert(c)
      PROVE  /\ DOMAIN trust' = Migrant
             /\ \A s \in Migrant : Shared \in trust[s] => Shared \in trust'[s]
  <2>1. trust' = trust \/ trust' = [trust EXCEPT ![c[1]] = NewTrust(c)]
    BY <1>3 DEF HandlePushSigningCert
  <2>2. Shared \in NewTrust(c)
    BY DEF NewTrust
  <2>3. QED
    BY <1>1, <2>1, <2>2
<1>4. ASSUME NEW s \in Migrant, Enqueue(s) \/ WorkerStep(s) PROVE UNCHANGED trust
  BY <1>4 DEF Enqueue, WorkerStep, Process, AcquireSlot, RegisterPush, SendPush, SendPushFails, TakeAnswer,
              StepTimeout, RecordAck
<1>5. ASSUME NEW c \in Call,
             \/ PublisherStep(c) /\ UNCHANGED migrationVars
             \/ \E e \in Callback : PushCallback(c, e)
             \/ HoldCeiling(c) \/ TakePush(c) \/ ReadTrust(c)
      PROVE  UNCHANGED trust
  BY <1>5 DEF migrationVars, PushCallback, HoldCeiling, TakePush, ReadTrust
<1>6. Restart \/ UNCHANGED migrateVars => UNCHANGED trust
  BY DEF Restart, migrateVars, migrationVars
<1>7. QED
  BY <1>2, <1>3, <1>4, <1>5, <1>6 DEF MigrationNext

LEMMA ServiceStep ==
    ASSUME ServiceTypes, [MigrationNext]_migrateVars
    PROVE  ServiceTypes'
BY PublisherTypes, WorkerTypes, TrustStep DEF ServiceTypes

LEMMA ServiceInvariant == MigrationSpec => []ServiceTypes
BY ServiceStarts, ServiceStep, PTL DEF MigrationSpec

(* A steward that trusts the shared key never stops to, whatever the plan  *)
(* retires and however the pushes overtake each other.                     *)
THEOREM SharedTrustIsKept == MigrationSpec => SharedTrustKept
<1>1. ServiceTypes /\ [MigrationNext]_migrateVars =>
        [\A s \in Migrant : Shared \in trust[s] => Shared \in trust'[s]]_migrateVars
  BY TrustStep
<1>2. QED
  BY <1>1, ServiceInvariant, PTL DEF MigrationSpec, SharedTrustKept

-----------------------------------------------------------------------------
(* The pushes that hold a slot were made; a new push is not among them. *)
SlotInv ==
    /\ IsFiniteSet(holding) /\ slots = Cardinality(holding)
    /\ \A c \in holding : \E s \in Migrant : \E n \in 1 .. pushes[s] : c = <<s, n>>

(* release takes one token out for the first caller, none for the others. *)
LEMMA ReleaseIsExact ==
    ASSUME NEW c, IsFiniteSet(holding), slots = Cardinality(holding), Release(c)
    PROVE  IsFiniteSet(holding') /\ slots' = Cardinality(holding') /\ holding' \subseteq holding
BY FS_RemoveElement DEF Release

LEMMA SlotStep ==
    ASSUME ServiceTypes, SlotInv, [MigrationNext]_migrateVars
    PROVE  SlotInv'
<1> USE DEF SlotInv
<1>1. CASE UNCHANGED <<slots, holding, pushes>>
  BY <1>1
<1>2. ASSUME NEW c, Release(c), pushes' = pushes PROVE SlotInv'
  BY <1>2, ReleaseIsExact
<1>3. ASSUME NEW s \in Migrant, AcquireSlot(s) PROVE SlotInv'
  <2>1. /\ pushes \in [Migrant -> 0 .. MaxPushes] /\ MaxPushes \in Nat
        /\ pushes' = [pushes EXCEPT ![s] = @ + 1]
        /\ holding' = holding \cup {<<s, pushes[s] + 1>>}
        /\ slots' = slots + 1
    BY <1>3, MigrationConstants DEF AcquireSlot, ServiceTypes
  <2>2. <<s, pushes[s] + 1>> \notin holding
    BY <2>1
  <2>3. IsFiniteSet(holding') /\ slots' = Cardinality(holding')
    BY <2>1, <2>2, FS_AddElement
  <2>4. ASSUME NEW c \in holding' PROVE \E t \in Migrant : \E n \in 1 .. pushes'[t] : c = <<t, n>>
    <3>1. CASE c \in holding
      <4>1. PICK t \in Migrant : \E n \in 1 .. pushes[t] : c = <<t, n>>
        BY <3>1
      <4>2. 1 .. pushes[t] \subseteq 1 .. pushes'[t]
        BY <2>1
      <4>3. QED
        BY <4>1, <4>2
    <3>2. CASE c = <<s, pushes[s] + 1>>
      <4>1. pushes[s] + 1 \in 1 .. pushes'[s]
        BY <2>1
      <4>2. QED
        BY <3>2, <4>1
    <3>3. QED
      BY <2>1, <3>1, <3>2
  <2>5. QED
    BY <2>3, <2>4
<1>4. ASSUME NEW s \in Migrant, SendPushFails(s) PROVE SlotInv'
  BY <1>2, <1>4 DEF SendPushFails
<1>5. ASSUME NEW c \in Call, NEW e \in Callback, PushCallback(c, e) PROVE SlotInv'
  BY <1>1, <1>2, <1>5 DEF PushCallback
<1>6. ASSUME NEW c \in Call, HoldCeiling(c) PROVE SlotInv'
  BY <1>2, <1>6 DEF HoldCeiling
<1>7. CASE Restart
  BY <1>7, FS_EmptySet DEF Restart
<1>8. ASSUME NEW s \in Migrant,
             \/ Enqueue(s) \/ Process(s) \/ RegisterPush(s) \/ SendPush(s)
             \/ TakeAnswer(s) \/ StepTimeout(s) \/ RecordAck(s)
      PROVE  UNCHANGED <<slots, holding, pushes>>
  BY <1>8 DEF Enqueue, Process, RegisterPush, SendPush, TakeAnswer, StepTimeout, RecordAck
<1>9. ASSUME NEW c \in Call,
             \/ PublisherStep(c) /\ UNCHANGED migrationVars
             \/ TakePush(c) \/ ReadTrust(c) \/ HandlePushSigningCert(c)
      PROVE  UNCHANGED <<slots, holding, pushes>>
  BY <1>9 DEF migrationVars, TakePush, ReadTrust, HandlePushSigningCert, KeepService
<1>10. UNCHANGED migrateVars => UNCHANGED <<slots, holding, pushes>>
  BY DEF migrateVars, migrationVars
<1>11. QED
  BY <1>1, <1>3, <1>4, <1>5, <1>6, <1>7, <1>8, <1>9, <1>10 DEF MigrationNext, WorkerStep

(* The tokens in the slots channel are those of the pushes that still hold *)
(* one, whoever releases them and however often.                           *)
THEOREM SlotsStayExact == MigrationSpec => []SlotsAreExact
<1>1. MigrationInit => SlotInv
  BY FS_EmptySet DEF MigrationInit, SlotInv
<1>2. ServiceTypes /\ SlotInv /\ [MigrationNext]_migrateVars => SlotInv'
  BY SlotStep
<1>3. SlotInv => SlotsAreExact
  BY DEF SlotInv, SlotsAreExact
<1>4. QED
  BY <1>1, <1>2, <1>3, ServiceInvariant, PTL DEF MigrationSpec

-----------------------------------------------------------------------------
(* A completion that is reported, due or run was preceded by the change of *)
(* the steward's trust.                                                    *)
CompletionInv ==
    \A c \in Call : c[1] \in Migrant /\ "completed" \in wire[c] \cup due[c] \cup made[c]
                        => Shared \in trust[c[1]]

LEMMA CompletionStep ==
    ASSUME ServiceTypes, CompletionInv, [MigrationNext]_migrateVars
    PROVE  CompletionInv'
<1> SUFFICES ASSUME NEW c \in Call, c[1] \in Migrant, "completed" \in wire'[c] \cup due'[c] \cup made'[c]
             PROVE  Shared \in trust'[c[1]]
  BY DEF CompletionInv
<1>1. CASE "completed" \in wire[c] \cup due[c] \cup made[c]
  BY <1>1, TrustStep DEF CompletionInv
<1>2. CASE "completed" \notin wire[c] \cup due[c] \cup made[c]
  <2>0. DOMAIN wire = Call /\ DOMAIN due = Call /\ DOMAIN made = Call /\ DOMAIN trust = Migrant
    BY DEF ServiceTypes, CallbackTypeOK
  <2>1. CASE UNCHANGED <<wire, due, made>>
    BY <1>2, <2>1
  <2>2. ASSUME NEW d \in Call, NEW e \in Callback, HandleEventUpdate(d, e) PROVE FALSE
    <3>1. /\ wire' = [wire EXCEPT ![d] = @ \ {e}] \/ wire' = wire
          /\ due' = [due EXCEPT ![d] = @ \cup {e}] \/ due' = due
          /\ made' = made /\ e \in wire[d]
      BY <2>2 DEF HandleEventUpdate
    <3>2. "completed" \notin wire'[c]
      BY <1>2, <2>0, <3>1
    <3>3. "completed" \notin due'[c]
      BY <1>2, <2>0, <3>1
    <3>4. QED
      BY <1>2, <3>1, <3>2, <3>3
  <2>3. ASSUME NEW d \in Call, HandleTimeout(d) PROVE FALSE
    <3>1. wire' = wire /\ made' = made /\ (due' = [due EXCEPT ![d] = @ \cup {"timeout"}] \/ due' = due)
      BY <2>3 DEF HandleTimeout
    <3>2. QED
      BY <1>2, <2>0, <3>1
  <2>4. ASSUME NEW d \in Call, NEW e \in Callback, RunCallback(d, e) PROVE FALSE
    BY <1>2, <2>0, <2>4 DEF RunCallback
  <2>5. ASSUME NEW d \in Call, Accept(d) PROVE FALSE
    BY <1>2, <2>0, <2>5 DEF Accept
  <2>6. ASSUME NEW d \in Call, HandlePushSigningCert(d) PROVE Shared \in trust'[c[1]]
    <3>1. d = c /\ "completed" \in wire'[c]
      BY <1>2, <2>0, <2>6 DEF HandlePushSigningCert, Finish
    <3>2. Shared \in NewTrust(c)
      BY DEF NewTrust
    <3>3. QED
      BY <2>0, <2>6, <3>1, <3>2 DEF HandlePushSigningCert
  <2>7. CASE Restart
    BY <1>2, <2>7 DEF Restart
  <2>8. ASSUME NEW s \in Migrant, Enqueue(s) \/ WorkerStep(s) PROVE UNCHANGED <<wire, due, made>>
    BY <2>8 DEF Enqueue, WorkerStep, Process, AcquireSlot, RegisterPush, SendPush, SendPushFails,
                TakeAnswer, StepTimeout, RecordAck, RegisterFirst, SendRegistered, SendRegisteredFails,
                callVars
  <2>9. ASSUME NEW d \in Call, TimerFires(d) \/ HoldCeiling(d) \/ ReadTrust(d)
        PROVE  UNCHANGED <<wire, due, made>>
    BY <2>9 DEF TimerFires, HoldCeiling, ReadTrust, callVars
  <2>10. UNCHANGED migrateVars => UNCHANGED <<wire, due, made>>
    BY DEF migrateVars, callVars
  <2>11. QED
    BY <2>1, <2>2, <2>3, <2>4, <2>5, <2>6, <2>7, <2>8, <2>9, <2>10
       DEF MigrationNext, PublisherStep, PushCallback, TakePush
<1>3. QED
  BY <1>1, <1>2

LEMMA MadeGrows ==
    ASSUME ServiceTypes, [MigrationNext]_migrateVars, NEW c \in Call
    PROVE  made[c] \subseteq made'[c]
<1>1. ASSUME NEW d \in Call, NEW e \in Callback, PushCallback(d, e) PROVE made[c] \subseteq made'[c]
  BY <1>1 DEF PushCallback, RunCallback, ServiceTypes, CallbackTypeOK
<1>2. ASSUME NEW s \in Migrant, Enqueue(s) \/ WorkerStep(s) PROVE UNCHANGED made
  BY <1>2 DEF Enqueue, WorkerStep, Process, AcquireSlot, RegisterPush, SendPush, SendPushFails, TakeAnswer,
              StepTimeout, RecordAck, RegisterFirst, SendRegistered, SendRegisteredFails, callVars
<1>3. ASSUME NEW d \in Call,
             \/ PublisherStep(d) \/ HoldCeiling(d) \/ TakePush(d) \/ ReadTrust(d) \/ HandlePushSigningCert(d)
      PROVE  UNCHANGED made
  BY <1>3 DEF PublisherStep, HandleEventUpdate, TimerFires, HandleTimeout, HoldCeiling, TakePush, Accept,
              ReadTrust, HandlePushSigningCert, Finish, callVars
<1>4. Restart \/ UNCHANGED migrateVars => UNCHANGED made
  BY DEF Restart, migrateVars, callVars
<1>5. QED
  BY <1>1, <1>2, <1>3, <1>4 DEF MigrationNext

(* A push of steward s that it completed and that the shared key signed. *)
Confirms(s, n) ==
    /\ push[<<s, n>>].signer = Shared
    /\ "completed" \in made[<<s, n>>]

(* How the worker's place, the answer and the confirmation bear on the     *)
(* push in hand.                                                           *)
AckInv(s) ==
    /\ answer[s] = "yes" /\ PushInHand(s) => "completed" \in made[<<s, pushes[s]>>]
    /\ worker[s] \in {"register", "send", "wait"} /\ stage[s] # "legacy"
            => push[<<s, pushes[s]>>].signer = Shared
    /\ worker[s] = "record" => Confirms(s, pushes[s])
    /\ s \in acked => \E n \in 1 .. pushes[s] : Confirms(s, n)

LEMMA AckStep ==
    ASSUME ServiceTypes, [MigrationNext]_migrateVars, NEW s \in Migrant, AckInv(s)
    PROVE  AckInv(s)'
<1>1. /\ pushes \in [Migrant -> 0 .. MaxPushes] /\ MaxPushes \in Nat
      /\ worker \in [Migrant -> Point] /\ stage \in [Migrant -> Stage]
      /\ answer \in [Migrant -> {"none", "yes", "no"}]
      /\ DOMAIN push = Call
      /\ (worker[s] \in {"register", "send", "wait", "record"} => pushes[s] \in 1 .. MaxPushes)
  BY MigrationConstants DEF ServiceTypes, PushInHand
<1>2. \A n \in 1 .. MaxPushes : <<s, n>> \in Call /\ made[<<s, n>>] \subseteq made'[<<s, n>>]
  BY PushIsCall, MadeGrows
<1>3. /\ 1 .. pushes[s] \subseteq 1 .. MaxPushes
      /\ worker[s] \in {"register", "send", "wait", "record"} => pushes[s] \in 1 .. pushes[s]
  <2>1. pushes[s] \in 0 .. MaxPushes
    BY <1>1
  <2>2. QED
    BY <1>1, <2>1
<1> DEFINE Kept == /\ pushes'[s] = pushes[s]
                   /\ \A n \in 1 .. pushes[s] : push'[<<s, n>>] = push[<<s, n>>]
<1> DEFINE Confirmed(n) == push'[<<s, n>>].signer = Shared /\ "completed" \in made'[<<s, n>>]
<1>4. ASSUME Kept, NEW n \in 1 .. pushes[s], Confirms(s, n) PROVE Confirmed(n)
  BY <1>2, <1>3, <1>4 DEF Confirms
<1> DEFINE Goal == /\ answer'[s] = "yes" /\ pushes'[s] \in 1 .. MaxPushes
                           => "completed" \in made'[<<s, pushes'[s]>>]
                   /\ worker'[s] \in {"register", "send", "wait"} /\ stage'[s] # "legacy"
                           => push'[<<s, pushes'[s]>>].signer = Shared
                   /\ worker'[s] = "record" => Confirmed(pushes'[s])
                   /\ s \in acked' => \E n \in 1 .. pushes'[s] : Confirmed(n)
<1>5. SUFFICES Goal
  BY DEF AckInv, Confirms, PushInHand
(* Most steps leave the push in hand and its answer alone. *)
<1>6. ASSUME Kept, answer'[s] = answer[s], s \in acked' => s \in acked,
             worker'[s] \in {"register", "send", "wait"} /\ stage'[s] # "legacy"
                => worker[s] \in {"register", "send", "wait"} /\ stage[s] # "legacy",
             worker'[s] = "record" => worker[s] = "record"
      PROVE  Goal
  <2>1. answer'[s] = "yes" /\ pushes'[s] \in 1 .. MaxPushes => "completed" \in made'[<<s, pushes'[s]>>]
    BY <1>2, <1>6 DEF AckInv, PushInHand
  <2>2. worker'[s] \in {"register", "send", "wait"} /\ stage'[s] # "legacy"
            => push'[<<s, pushes'[s]>>].signer = Shared
    BY <1>3, <1>6 DEF AckInv
  <2>3. worker'[s] = "record" => Confirmed(pushes'[s])
    BY <1>3, <1>4, <1>6 DEF AckInv
  <2>4. s \in acked' => \E n \in 1 .. pushes'[s] : Confirmed(n)
    BY <1>4, <1>6 DEF AckInv
  <2>5. QED
    BY <2>1, <2>2, <2>3, <2>4
<1>7. CASE UNCHANGED <<push, pushes, answer, worker, stage, acked>>
  BY <1>6, <1>7
<1> HIDE DEF Goal, Confirmed
<1>8. ASSUME NEW t \in Migrant,
             Enqueue(t) \/ Process(t) \/ RegisterPush(t) \/ SendPush(t)
      PROVE  Goal
  <2>1. UNCHANGED <<push, pushes, answer, acked>>
    BY <1>8 DEF Enqueue, Process, RegisterPush, SendPush
  <2>2. t # s => worker'[s] = worker[s] /\ stage'[s] = stage[s]
    BY <1>1, <1>8 DEF Enqueue, Process, RegisterPush, SendPush, StartPush, At
  <2>3. t = s => \/ worker'[s] \in {"queued", "slot", "idle"}
                 \/ worker[s] \in {"register", "send"} /\ worker'[s] \in {"send", "wait"} /\ stage'[s] = stage[s]
    BY <1>1, <1>8 DEF Enqueue, Process, RegisterPush, SendPush, StartPush, At
  <2>4. QED
    BY <1>6, <2>1, <2>2, <2>3
<1>9. ASSUME NEW t \in Migrant, SendPushFails(t) \/ TakeAnswer(t) \/ StepTimeout(t) PROVE Goal
  <2>1. /\ UNCHANGED <<push, pushes, answer, acked>>
        /\ Delivered(t) \/ NotDelivered(t)
    BY <1>9 DEF SendPushFails, TakeAnswer, StepTimeout
  <2>2. t # s => worker'[s] = worker[s] /\ stage'[s] = stage[s]
    BY <2>1, ReturnEffect
  <2>3. CASE t # s
    BY <1>6, <2>1, <2>2, <2>3
  <2>4. CASE t = s /\ worker'[s] # "record"
    BY <1>6, <2>1, <2>4, ReturnEffect
  <2>5. CASE t = s /\ worker'[s] = "record"
    <3>1. Delivered(s) /\ stage[s] # "legacy"
      BY <2>1, <2>5, ReturnEffect
    <3>2. worker[s] = "wait" /\ answer[s] = "yes"
      <4>1. NotDelivered(s) => worker'[s] # "record"
        BY <1>1 DEF NotDelivered, StartPush, At
      <4>2. QED
        BY <1>1, <1>9, <2>5, <4>1 DEF SendPushFails, TakeAnswer, StepTimeout
    <3>3. pushes[s] \in 1 .. MaxPushes /\ Confirms(s, pushes[s])
      BY <1>1, <3>1, <3>2 DEF AckInv, Confirms, PushInHand
    <3>4. pushes[s] \in 1 .. pushes[s]
      BY <1>1, <3>3
    <3>5. Confirmed(pushes[s])
      BY <1>4, <2>1, <3>3, <3>4
    <3>6. s \in acked' => \E n \in 1 .. pushes'[s] : Confirmed(n)
      BY <2>1, <3>4, <3>5
    <3>7. "completed" \in made'[<<s, pushes'[s]>>]
      BY <2>1, <3>5 DEF Confirmed
    <3>8. QED
      BY <2>1, <2>5, <3>3, <3>5, <3>6, <3>7 DEF Goal
  <2>6. QED
    BY <2>3, <2>4, <2>5
<1>10. ASSUME NEW t \in Migrant, RecordAck(t) PROVE Goal
  <2>1. UNCHANGED <<push, pushes, answer>>
    BY <1>10 DEF RecordAck
  <2>2. CASE t # s
    <3>1. worker'[s] = worker[s] /\ stage'[s] = stage[s] /\ (s \in acked' => s \in acked)
      BY <1>1, <1>10, <2>2 DEF RecordAck, StartPush, At
    <3>2. QED
      BY <1>6, <2>1, <3>1
  <2>3. CASE t = s
    <3>1. worker[s] = "record" /\ worker'[s] \in {"slot", "idle"}
      BY <1>1, <1>10, <2>3 DEF RecordAck, StartPush, At
    <3>2. pushes[s] \in 1 .. pushes[s] /\ Confirms(s, pushes[s])
      BY <1>3, <3>1 DEF AckInv
    <3>3. Confirmed(pushes[s])
      BY <1>4, <2>1, <3>2
    <3>4. "completed" \in made'[<<s, pushes[s]>>]
      BY <3>3 DEF Confirmed
    <3>5. QED
      BY <1>1, <2>1, <3>1, <3>2, <3>3, <3>4 DEF Goal
  <2>4. QED
    BY <2>2, <2>3
<1>11. ASSUME NEW t \in Migrant, AcquireSlot(t) PROVE Goal
  <2>1. /\ pushes' = [pushes EXCEPT ![t] = @ + 1]
        /\ push' = [push EXCEPT ![<<t, pushes[t] + 1>>] =
                        [signer |-> SignerOf(t), retire |-> stage[t] = "retire"]]
        /\ answer' = [answer EXCEPT ![t] = "none"] /\ worker' = [worker EXCEPT ![t] = "register"]
        /\ stage' = stage /\ acked' = acked /\ pushes[t] < MaxPushes
    BY <1>11 DEF AcquireSlot, At
  <2>2. CASE t # s
    <3>1. pushes'[s] = pushes[s] /\ answer'[s] = answer[s] /\ worker'[s] = worker[s]
      BY <1>1, <2>1, <2>2
    <3>2. ASSUME NEW n \in 1 .. pushes[s] PROVE push'[<<s, n>>] = push[<<s, n>>]
      BY <1>1, <1>2, <1>3, <2>1, <2>2
    <3>3. QED
      BY <1>6, <2>1, <3>1, <3>2
  <2>3. CASE t = s
    <3>1. answer'[s] = "none" /\ worker'[s] = "register" /\ pushes'[s] = pushes[s] + 1
      BY <1>1, <2>1, <2>3
    <3>2. <<s, pushes[s] + 1>> \in Call
      <4>1. pushes[s] \in 0 .. MaxPushes /\ pushes[s] < MaxPushes
        BY <1>1, <2>1, <2>3
      <4>2. pushes[s] + 1 \in 1 .. MaxPushes
        BY <1>1, <4>1
      <4>3. QED
        BY <1>2, <4>2
    <3>3. stage'[s] # "legacy" => push'[<<s, pushes'[s]>>].signer = Shared
      BY <1>1, <2>1, <2>3, <3>1, <3>2 DEF SignerOf
    <3>4. ASSUME NEW n \in 1 .. pushes[s], Confirms(s, n) PROVE Confirmed(n)
      <4>1. n # pushes[s] + 1 /\ <<s, n>> \in Call
        BY <1>1, <1>2, <1>3
      <4>2. push'[<<s, n>>] = push[<<s, n>>]
        BY <1>1, <2>1, <2>3, <4>1
      <4>3. QED
        BY <1>2, <1>3, <3>4, <4>2 DEF Confirms, Confirmed
    <3>5. 1 .. pushes[s] \subseteq 1 .. pushes'[s]
      BY <1>1, <3>1
    <3>6. s \in acked' => \E n \in 1 .. pushes'[s] : Confirmed(n)
      BY <2>1, <3>4, <3>5 DEF AckInv
    <3>7. QED
      BY <3>1, <3>3, <3>6 DEF Goal
  <2>4. QED
    BY <2>2, <2>3
<1>12. ASSUME NEW c \in Call, NEW e \in Callback, PushCallback(c, e) PROVE Goal
  <2>1. UNCHANGED <<push, pushes, worker, stage, acked>>
    BY <1>12 DEF PushCallback
  <2>2. CASE answer'[s] = answer[s]
    BY <1>6, <2>1, <2>2
  <2>3. CASE answer'[s] # answer[s]
    <3>1. c[1] = s /\ c = Current(s) /\ (answer'[s] = "yes" => e = "completed")
      BY <1>1, <1>12, <2>3 DEF PushCallback, Report
    <3>2. e \in made'[c]
      BY <1>12 DEF PushCallback, RunCallback, ServiceTypes, CallbackTypeOK
    <3>3. answer'[s] = "yes" => "completed" \in made'[<<s, pushes'[s]>>]
      BY <2>1, <3>1, <3>2 DEF Current
    <3>4. worker'[s] = "record" => Confirmed(pushes'[s])
      BY <1>3, <1>4, <2>1 DEF AckInv
    <3>5. s \in acked' => \E n \in 1 .. pushes'[s] : Confirmed(n)
      BY <1>4, <2>1 DEF AckInv
    <3>6. QED
      BY <1>1, <2>1, <3>3, <3>4, <3>5 DEF Goal, AckInv
  <2>4. QED
    BY <2>2, <2>3
<1>13. CASE Restart
  <2>1. UNCHANGED <<push, pushes, stage, acked>> /\ answer'[s] = "none" /\ worker'[s] = "idle"
    BY <1>13 DEF Restart
  <2>2. s \in acked' => \E n \in 1 .. pushes'[s] : Confirmed(n)
    BY <1>4, <2>1 DEF AckInv
  <2>3. QED
    BY <2>1, <2>2 DEF Goal
<1>14. ASSUME NEW c \in Call,
              \/ PublisherStep(c) /\ UNCHANGED migrationVars
              \/ HoldCeiling(c) \/ TakePush(c) \/ ReadTrust(c) \/ HandlePushSigningCert(c)
       PROVE  UNCHANGED <<push, pushes, answer, worker, stage, acked>>
  BY <1>14 DEF migrationVars, HoldCeiling, TakePush, ReadTrust, HandlePushSigningCert, KeepService
<1>15. UNCHANGED migrateVars => UNCHANGED <<push, pushes, answer, worker, stage, acked>>
  BY DEF migrateVars, migrationVars
<1>16. QED
  BY <1>7, <1>8, <1>9, <1>10, <1>11, <1>12, <1>13, <1>14, <1>15 DEF MigrationNext, WorkerStep

(* A recorded confirmation is proof: the steward completed a push that the *)
(* shared key signed, and it trusts that key, for any plan, timeouts, late *)
(* callbacks and restarts.                                                 *)
THEOREM AcksAreProof == MigrationSpec => []AckIsProof
<1> DEFINE AllAcks == acked \subseteq Migrant /\ \A s \in Migrant : AckInv(s)
<1>1. MigrationInit => CompletionInv /\ AllAcks
  <2>1. MigrationInit => CompletionInv
    BY DEF MigrationInit, CallbackInit, CompletionInv
  <2>2. MigrationInit => AllAcks
    BY DEF MigrationInit, AckInv
  <2>3. QED
    BY <2>1, <2>2
<1>2. ServiceTypes /\ CompletionInv /\ AllAcks /\ [MigrationNext]_migrateVars => (CompletionInv /\ AllAcks)'
  <2> SUFFICES ASSUME ServiceTypes, CompletionInv, AllAcks, [MigrationNext]_migrateVars
               PROVE  (CompletionInv /\ AllAcks)'
    OBVIOUS
  <2>1. acked' \subseteq Migrant
    BY DEF MigrationNext, Enqueue, WorkerStep, Process, AcquireSlot, RegisterPush, SendPush, SendPushFails,
           TakeAnswer, StepTimeout, RecordAck, migrationVars, PushCallback, HoldCeiling, TakePush, ReadTrust,
           HandlePushSigningCert, KeepService, Restart, migrateVars
  <2>2. QED
    BY <2>1, CompletionStep, AckStep
<1>3. ServiceTypes /\ CompletionInv /\ AllAcks => AckIsProof
  <2> SUFFICES ASSUME ServiceTypes, CompletionInv, AllAcks, NEW s \in acked
               PROVE  /\ Shared \in trust[s]
                      /\ \E c \in Call : c[1] = s /\ push[c].signer = Shared /\ "completed" \in made[c]
    BY DEF AckIsProof
  <2>1. PICK n \in 1 .. pushes[s] : Confirms(s, n)
    BY DEF AckInv
  <2>2. s \in Migrant /\ n \in 1 .. MaxPushes
    <3>1. s \in Migrant /\ pushes[s] \in 0 .. MaxPushes /\ MaxPushes \in Nat
      BY MigrationConstants DEF ServiceTypes
    <3>2. QED
      BY <3>1
  <2>3. <<s, n>> \in Call /\ <<s, n>>[1] = s
    BY <2>2, PushIsCall
  <2>4. Shared \in trust[s]
    BY <2>1, <2>2, <2>3 DEF Confirms, CompletionInv
  <2>5. QED
    BY <2>1, <2>3, <2>4 DEF Confirms
<1>4. QED
  <2> HIDE DEF AllAcks
  <2>1. QED
    BY <1>1, <1>2, <1>3, ServiceInvariant, PTL DEF MigrationSpec
=============================================================================
