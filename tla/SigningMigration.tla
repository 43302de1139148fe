-------------------------- MODULE SigningMigration --------------------------
(***************************************************************************)
(* Moving stewards onto the shared signing certificate: the worker that    *)
(* processes one steward, the slots that bound the commands outstanding,   *)
(* the confirmation record, and the steward's handler of push_signing_cert.*)
(*                                                                         *)
(* The call <<s, n>> is the n-th push to steward s.  The plan (the keys    *)
(* that can sign and the keys to retire) is resolved once.                 *)
(***************************************************************************)
EXTENDS Callbacks, Sequences

CONSTANTS
    Migrant,        \* stewards to migrate
    Shared,         \* the shared signing key
    Legacy,         \* the legacy signing keys
    Starts,         \* the plans and the stewards' trust to start from:
                    \* [plan: [signers, retire], trust: keys that every steward trusts,
                    \*  attempts: bound on how often a steward is queued]
    MaxWorkers,     \* size of the worker pool and of the slots channel
    MaxPushes,      \* pushes to one steward that the attempts leave room for
    MaxRestarts     \* bound: how often the controller restarts

PushesPerAttempt(p) ==
    (IF p.signers = <<>> THEN 1 ELSE Len(p.signers) + 2) + (IF p.retire = {} THEN 0 ELSE 1)

ASSUME MigrationConstants ==
    /\ MaxWorkers \in Nat \ {0} /\ MaxPushes \in Nat /\ MaxRestarts \in Nat
    /\ Shared \notin Legacy
    /\ \A st \in Starts : /\ st.plan.signers \in Seq(Legacy) /\ st.plan.retire \subseteq Legacy
                           /\ st.trust # {} /\ st.trust \subseteq Legacy \cup {Shared}
                           /\ st.attempts * PushesPerAttempt(st.plan) <= MaxPushes
    /\ Migrant \X (1 .. MaxPushes) \subseteq Call

VARIABLES
    plan,      \* the migration plan: legacy signers in the order tried, keys to retire
    trust,     \* trust[s]: the keys that steward s trusts
    basis,     \* basis[c]: the trust set that the handler of push c read
    push,      \* push[c]: [signer, retire] of the push
    worker,    \* worker[s]: where the worker that has s is
    stage,     \* stage[s]: which of its pushes it makes
    tried,     \* tried[s]: how many legacy keys it has tried
    pushes,    \* pushes[s]: pushes made so far
    answer,    \* answer[s]: the result channel of the push in hand
    slots,     \* tokens in the slots channel
    holding,   \* pushes that have not released their slot
    acked,     \* stewards with a recorded confirmation (in the store)
    owed,      \* retirePending
    left,      \* left[s]: attempts that the bound leaves
    restarts   \* counts towards MaxRestarts

migrationVars == <<plan, trust, basis, push, worker, stage, tried, pushes, answer, slots, holding,
                   acked, owed, left, restarts>>
migrateVars == <<callVars, migrationVars>>

NotRead == {"not read"}
Point == {"idle", "queued", "slot", "register", "send", "wait", "record"}
Stage == {"shared", "legacy", "confirm", "retire"}

MigrationTypeOK ==
    /\ plan \in {st.plan : st \in Starts}
    /\ trust \in [Migrant -> SUBSET (Legacy \cup {Shared})]
    /\ worker \in [Migrant -> Point] /\ stage \in [Migrant -> Stage]
    /\ tried \in [Migrant -> 0 .. Len(plan.signers)]
    /\ answer \in [Migrant -> {"none", "yes", "no"}]
    /\ slots \in 0 .. MaxWorkers /\ holding \subseteq Call
    /\ acked \subseteq Migrant /\ owed \subseteq Migrant

MigrationInit ==
    /\ CallbackInit
    /\ \E st \in Starts : /\ plan = st.plan /\ trust = [s \in Migrant |-> st.trust]
                         /\ left = [s \in Migrant |-> st.attempts]
    /\ basis = [c \in Call |-> NotRead]
    /\ push = [c \in Call |-> [signer |-> Shared, retire |-> FALSE]]
    /\ worker = [s \in Migrant |-> "idle"] /\ stage = [s \in Migrant |-> "shared"]
    /\ tried = [s \in Migrant |-> 0] /\ pushes = [s \in Migrant |-> 0]
    /\ answer = [s \in Migrant |-> "none"]
    /\ slots = 0 /\ holding = {} /\ acked = {} /\ owed = {} /\ restarts = 0

Current(s) == <<s, pushes[s]>>
At(s, p) == worker' = [worker EXCEPT ![s] = p]
Working == {s \in Migrant : worker[s] \notin {"idle", "queued"}}

-----------------------------------------------------------------------------
(* enqueue, from OnConnect or the reconciler: at most once in the queue.   *)
(* The backoff and a full queue only make the steward wait for a later     *)
(* pass.                                                                   *)
Enqueue(s) ==
    /\ worker[s] = "idle" /\ left[s] > 0
    /\ At(s, "queued")
    /\ left' = [left EXCEPT ![s] = @ - 1]
    /\ UNCHANGED <<callVars, plan, trust, basis, push, stage, tried, pushes, answer, slots, holding,
                   acked, owed, restarts>>

(* deliver is entered: it first needs a slot. *)
StartPush(s, g) ==
    At(s, "slot") /\ stage' = [stage EXCEPT ![s] = g]

(* process: a steward that has confirmed is only owed the retirement.  An  *)
(* unreadable plan or confirmation ends the attempt.                       *)
Process(s) ==
    /\ worker[s] = "queued" /\ Cardinality(Working) < MaxWorkers
    /\ tried' = [tried EXCEPT ![s] = 0]
    /\ \/ s \notin acked /\ StartPush(s, "shared")
       \/ s \in acked /\ s \in owed /\ plan.retire # {} /\ StartPush(s, "retire")
       \/ s \in acked /\ s \notin owed /\ At(s, "idle") /\ stage' = stage
       \/ At(s, "idle") /\ stage' = stage
    /\ UNCHANGED <<callVars, plan, trust, basis, push, pushes, answer, slots, holding, acked, owed,
                   left, restarts>>

SignerOf(s) == IF stage[s] = "legacy" THEN plan.signers[tried[s] + 1] ELSE Shared

SlotFree == slots < MaxWorkers

AcquireSlot(s) ==
    /\ worker[s] = "slot" /\ SlotFree
    /\ pushes[s] < MaxPushes
    /\ slots' = slots + 1
    /\ pushes' = [pushes EXCEPT ![s] = @ + 1]
    /\ holding' = holding \cup {<<s, pushes[s] + 1>>}
    /\ push' = [push EXCEPT ![<<s, pushes[s] + 1>>] =
                    [signer |-> SignerOf(s), retire |-> stage[s] = "retire"]]
    /\ answer' = [answer EXCEPT ![s] = "none"]
    /\ At(s, "register")
    /\ UNCHANGED <<callVars, plan, trust, basis, stage, tried, acked, owed, left, restarts>>

(* Fault: every caller takes a token out. *)
ReleaseAgain(c) ==
    /\ slots' = IF slots > 0 THEN slots - 1 ELSE 0
    /\ holding' = holding \ {c}

(* release: once per push, whoever calls it first. *)
Release(c) ==
    /\ slots' = IF c \in holding THEN slots - 1 ELSE slots
    /\ holding' = holding \ {c}

RegisterPush(s) ==
    /\ worker[s] = "register"
    /\ RegisterFirst(Current(s))
    /\ At(s, "send")
    /\ UNCHANGED <<plan, trust, basis, push, stage, tried, pushes, answer, slots, holding, acked, owed,
                   left, restarts>>

SendPush(s) ==
    /\ worker[s] = "send"
    /\ SendRegistered(Current(s))
    /\ At(s, "wait")
    /\ UNCHANGED <<plan, trust, basis, push, stage, tried, pushes, answer, slots, holding, acked, owed,
                   left, restarts>>

(* Fault: a push with a legacy key counts as the confirmation. *)
DeliveredByAnyKey(s) ==
    IF stage[s] = "retire"
    THEN At(s, "idle") /\ owed' = owed \ {s} /\ UNCHANGED <<stage, tried>>
    ELSE At(s, "record") /\ UNCHANGED <<stage, tried, owed>>

(* deliver returns: the next push of process, or its end. *)
Delivered(s) ==
    CASE stage[s] \in {"shared", "confirm"} ->
            At(s, "record") /\ UNCHANGED <<stage, tried, owed>>
      [] stage[s] = "legacy" -> StartPush(s, "confirm") /\ UNCHANGED <<tried, owed>>
      [] OTHER -> At(s, "idle") /\ owed' = owed \ {s} /\ UNCHANGED <<stage, tried>>

NotDelivered(s) ==
    LET k == IF stage[s] = "legacy" THEN tried[s] + 1 ELSE 0
    IN CASE stage[s] \in {"shared", "legacy"} /\ k < Len(plan.signers) ->
              StartPush(s, "legacy") /\ tried' = [tried EXCEPT ![s] = k] /\ owed' = owed
         [] stage[s] = "retire" ->
              At(s, "idle") /\ owed' = owed \cup {s} /\ UNCHANGED <<stage, tried>>
         [] OTHER -> At(s, "idle") /\ UNCHANGED <<stage, tried, owed>>

SendPushFails(s) ==
    /\ worker[s] = "send"
    /\ SendRegisteredFails(Current(s))
    /\ Release(Current(s))
    /\ NotDelivered(s)
    /\ UNCHANGED <<plan, trust, basis, push, pushes, answer, acked, left, restarts>>

TakeAnswer(s) ==
    /\ worker[s] = "wait" /\ answer[s] # "none"
    /\ IF answer[s] = "yes" THEN Delivered(s) ELSE NotDelivered(s)
    /\ UNCHANGED <<callVars, plan, trust, basis, push, pushes, answer, slots, holding, acked, left, restarts>>

(* The step timeout: the worker goes on, the push keeps its slot. *)
StepTimeout(s) ==
    /\ worker[s] = "wait"
    /\ NotDelivered(s)
    /\ UNCHANGED <<callVars, plan, trust, basis, push, pushes, answer, slots, holding, acked, left, restarts>>

RecordAck(s) ==
    /\ worker[s] = "record"
    /\ \/ acked' = acked \cup {s} /\ (IF plan.retire # {} THEN StartPush(s, "retire")
                                      ELSE At(s, "idle") /\ stage' = stage)
       \/ acked' = acked /\ At(s, "idle") /\ stage' = stage
    /\ UNCHANGED <<callVars, plan, trust, basis, push, tried, pushes, answer, slots, holding, owed,
                   left, restarts>>

-----------------------------------------------------------------------------
(* The callbacks of a push: report, of which the first counts, and release.*)
Report(c, v) ==
    answer' = [answer EXCEPT ![c[1]] = IF c = Current(c[1]) /\ @ = "none" THEN v ELSE @]

PushCallback(c, e) ==
    /\ RunCallback(c, e)
    /\ IF e = "received"
       THEN UNCHANGED <<answer, slots, holding>>
       ELSE Report(c, IF e = "completed" THEN "yes" ELSE "no") /\ Release(c)
    /\ UNCHANGED <<plan, trust, basis, push, worker, stage, tried, pushes, acked, owed, left, restarts>>

(* Fault: the ceiling leaves a push alone that the steward acknowledged. *)
HoldUnanswered(c) ==
    /\ c \in holding /\ "received" \notin made[c]
    /\ Release(c)
    /\ UNCHANGED <<callVars, plan, trust, basis, push, worker, stage, tried, pushes, answer, acked, owed,
                   left, restarts>>

(* The hold ceiling frees a slot that no callback has freed. *)
HoldCeiling(c) ==
    /\ c \in holding
    /\ Release(c)
    /\ UNCHANGED <<callVars, plan, trust, basis, push, worker, stage, tried, pushes, answer, acked, owed,
                   left, restarts>>

(* The controller restarts: only the confirmations survive. *)
Restart ==
    /\ restarts < MaxRestarts
    /\ restarts' = restarts + 1
    /\ pending' = {} /\ due' = [c \in Call |-> {}]
    /\ timer' = [c \in Call |-> IF timer[c] = "none" THEN "none" ELSE "off"]
    /\ worker' = [s \in Migrant |-> "idle"] /\ answer' = [s \in Migrant |-> "none"]
    /\ slots' = 0 /\ holding' = {} /\ owed' = {}
    /\ UNCHANGED <<pub, steward, wire, made, verdicts, stopped>>
    /\ UNCHANGED <<plan, trust, basis, push, stage, tried, pushes, acked, left>>

-----------------------------------------------------------------------------
(* The steward: it takes a push whose signer it trusts; the handler reads  *)
(* the trust set, and later stores what it made of it.  Commands run in    *)
(* goroutines of their own.                                                *)
KeepService == UNCHANGED <<plan, push, worker, stage, tried, pushes, answer, slots, holding, acked, owed,
                           left, restarts>>

TakePush(c) ==
    /\ Accept(c)
    /\ push[c].signer \in trust[c[1]]
    /\ UNCHANGED <<trust, basis>> /\ KeepService

ReadTrust(c) ==
    /\ steward[c] = "took" /\ basis[c] = NotRead
    /\ basis' = [basis EXCEPT ![c] = trust[c[1]]]
    /\ UNCHANGED <<callVars, trust>> /\ KeepService

NewTrust(c) ==
    {k \in basis[c] \cup {Shared} : k = Shared \/ ~(push[c].retire /\ k \in plan.retire)}

HandlePushSigningCert(c) ==
    /\ basis[c] # NotRead
    /\ Finish(c)
    /\ trust' = IF "completed" \in wire'[c] THEN [trust EXCEPT ![c[1]] = NewTrust(c)] ELSE trust
    /\ UNCHANGED basis /\ KeepService

-----------------------------------------------------------------------------
WorkerStep(s) ==
    \/ Process(s) \/ AcquireSlot(s) \/ RegisterPush(s) \/ SendPush(s) \/ SendPushFails(s)
    \/ TakeAnswer(s) \/ StepTimeout(s) \/ RecordAck(s)

PublisherStep(c) ==
    \/ \E e \in Callback : HandleEventUpdate(c, e)
    \/ TimerFires(c) \/ HandleTimeout(c)

MigrationNext ==
    \/ \E s \in Migrant : Enqueue(s) \/ WorkerStep(s)
    \/ \E c \in Call : \/ PublisherStep(c) /\ UNCHANGED migrationVars
                       \/ \E e \in Callback : PushCallback(c, e)
                       \/ HoldCeiling(c)
                       \/ TakePush(c) \/ ReadTrust(c) \/ HandlePushSigningCert(c)
    \/ Restart

MigrationSpec == MigrationInit /\ [][MigrationNext]_migrateVars

-----------------------------------------------------------------------------
(* A recorded confirmation is proof: the steward completed a push that was *)
(* signed with the shared key, and it trusts that key.                     *)
AckIsProof ==
    \A s \in acked :
        /\ Shared \in trust[s]
        /\ \E c \in Call : c[1] = s /\ push[c].signer = Shared /\ "completed" \in made[c]

(* The tokens in the channel are those of the pushes that still hold one:  *)
(* a completion, a late failure, the timeout, a failed send and the hold   *)
(* ceiling between them give back exactly one.                             *)
SlotsAreExact == slots = Cardinality(holding)

(* A steward that trusts the shared key never stops to: whatever pushes    *)
(* are applied over each other, each of them keeps that key.               *)
SharedTrustKept ==
    [][\A s \in Migrant : Shared \in trust[s] => Shared \in trust'[s]]_migrateVars

(* The workers get through the stewards that are queued: one that          *)
(* acknowledges receipt and stalls cannot hold a slot for ever.            *)
WorkersReturn == []<>(\A s \in Migrant : worker[s] = "idle")
=============================================================================
