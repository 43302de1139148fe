----------------------------- MODULE LeaseProofs -----------------------------
(***************************************************************************)
(* Proofs about Lease for every number of nodes and every timing constant. *)
(*                                                                         *)
(* AtMostOneAuthority is not inductive: that a node may take the row says  *)
(* nothing yet about a grant whose answer another node has not received.   *)
(* The strengthening LeaseInv attaches the same promise to a cache entry   *)
(* and to an answer on its way: until Window units after the call was      *)
(* issued, the row belongs to that node, with that token.  Window is       *)
(* LeaseTTL - MaxStall, because a statement of the same node that started  *)
(* earlier and is applied later may pull the expiry back by MaxStall.      *)
(***************************************************************************)
EXTENDS Lease, TLAPS

Window == LeaseTTL - MaxStall

(* The hypotheses of the safety theorems: a statement stalls for less than *)
(* the slack the margin leaves, and no client calls Release (no production *)
(* code does).                                                             *)
Timely == MaxStall <= RenewalInterval + MaxRenewalLatency /\ ~Releasing

(* The grant of `token' to n by a call issued at `at' is still good. *)
Covered(n, token, at) ==
    \/ row.holder = n /\ row.token = token /\ row.expiresAt >= at + Window
    \/ now > at + Window

EntriesCovered ==
    \A n \in Node : HasEntry(n) =>
        cached[n].at <= now /\ Covered(n, cached[n].token, cached[n].at)

AnswersCovered ==
    \A n \in Node : call[n].phase = "granted" => Covered(n, call[n].got, call[n].start)

CallsAreRecent ==
    \A n \in Node :
        /\ call[n].start <= now
        /\ call[n].phase = "begun" =>
             call[n].start <= call[n].stamp /\ call[n].stamp <= now
                /\ now <= call[n].stamp + MaxStall

LateAreRecent ==
    \A s \in late :
        s.call.phase = "begun" => s.call.stamp <= now /\ now <= s.call.stamp + MaxStall

NoRelease == /\ \A n \in Node : call[n].op # "release"
             /\ \A s \in late : s.call.op # "release"

LeaseInv ==
    /\ LeaseTypeOK
    /\ EntriesCovered
    /\ AnswersCovered
    /\ CallsAreRecent
    /\ LateAreRecent
    /\ NoRelease

GrantInv ==
    /\ LeaseTypeOK
    /\ \A g \in granted : g[1] <= row.token /\ (g[1] = row.token => g[2] = row.holder)
    /\ \A g, h \in granted : g[1] = h[1] => g[2] = h[2]

-----------------------------------------------------------------------------
(* The store's operators, stated once. *)

(* An unapplied upsert leaves a well-typed row with a token at least as    *)
(* high, and the history grows by at most the row's new holder and token.  *)
LEMMA UpsertType ==
    ASSUME LeaseTypeOK, NEW n \in Node, NEW stamp \in Nat, Upsert(n, stamp)
    PROVE  /\ row' \in [holder : Node \cup {NoNode}, token : Nat, expiresAt : Int]
           /\ granted' \subseteq Nat \X Node
           /\ row'.token >= row.token
           /\ TokenFor(n, stamp) \in Nat
<1>1. TokenFor(n, stamp) \in Nat /\ TokenFor(n, stamp) >= row.token
  BY DEF LeaseTypeOK, TokenFor
<1>2. CASE MayTake(n, stamp)
  BY <1>1, <1>2, LeaseConstants DEF Upsert, LeaseTypeOK
<1>3. CASE ~MayTake(n, stamp)
  BY <1>1, <1>3 DEF Upsert, LeaseTypeOK
<1>4. QED
  BY <1>2, <1>3

(* Release's UPDATE touches nothing but the expiry. *)
LEMMA ForceExpireType ==
    ASSUME LeaseTypeOK, NEW n \in Node, NEW token \in Nat, ForceExpire(n, token)
    PROVE  /\ row' \in [holder : Node \cup {NoNode}, token : Nat, expiresAt : Int]
           /\ granted' = granted
           /\ row'.token = row.token /\ row'.holder = row.holder
BY DEF ForceExpire, LeaseTypeOK, Epoch

(* The bookkeeping on call records stays inside their type. *)
LEMMA CallTypes ==
    ASSUME LeaseTypeOK, NEW c \in Call
    PROVE  Started(c) \in Call /\ Statement(c) \in Call /\ Idle \in Call
<1>1. Started(c) \in Call
  BY DEF Started, Call, Phase, LeaseTypeOK
<1>2. Statement(c) \in Call
  BY DEF Statement, Call, Phase
<1>3. Idle \in Call
  BY DEF Idle, Call, Phase
<1>4. QED
  BY <1>1, <1>2, <1>3

(* Type correctness is preserved by every step of the lease. *)
LEMMA TypeStep ==
    ASSUME LeaseTypeOK, [LeaseNext]_leaseVars
    PROVE  LeaseTypeOK'
<1> USE DEF LeaseTypeOK
<1>0. CASE UNCHANGED leaseVars
  BY <1>0 DEF leaseVars
<1>1. CASE Tick
  BY <1>1 DEF Tick
<1>2. ASSUME NEW n \in Node, TryAcquire(n) \/ Renew(n) \/ Release(n)
      PROVE  LeaseTypeOK'
  <2>1. ASSUME NEW op \in {"acquire", "renew", "release"}, NEW token \in Nat, Issue(n, op, token)
        PROVE  call' \in [Node -> Call]
    <3>1. [op |-> op, phase |-> "issued", start |-> now,
           stamp |-> 0, token |-> token, got |-> 0] \in Call
      BY DEF Call, Phase
    <3>2. QED
      BY <2>1, <3>1 DEF Issue
  <2>2. call' \in [Node -> Call]
    BY <1>2, <2>1 DEF TryAcquire, Renew, Release
  <2>3. NoAuthority \in [token : Nat, at : Nat]
    BY DEF NoAuthority
  <2>4. cached' \in [Node -> [token : Nat, at : Nat]]
    BY <1>2, <2>3 DEF TryAcquire, Renew, Release, InvalidateLocalAuthority
  <2>5. UNCHANGED <<now, row, late, granted>>
    BY <1>2 DEF TryAcquire, Renew, Release
  <2>6. QED
    BY <2>2, <2>4, <2>5
<1>3. ASSUME NEW n \in Node, Begin(n)
      PROVE  LeaseTypeOK'
  BY <1>3, CallTypes DEF Begin
<1>4. ASSUME NEW n \in Node, Apply(n)
      PROVE  LeaseTypeOK'
  <2> DEFINE c == call[n]
  <2>1. c \in Call /\ c.stamp \in Nat /\ c.token \in Nat
    BY DEF Call
  <2>2. /\ row' \in [holder : Node \cup {NoNode}, token : Nat, expiresAt : Int]
        /\ granted' \subseteq Nat \X Node
    BY <1>4, <2>1, UpsertType, ForceExpireType DEF Apply, Effect
  <2>3. Answer(n, c) \in Call
    <3>1. TokenFor(n, c.stamp) \in Nat
      BY <2>1 DEF TokenFor
    <3>2. QED
      BY <2>1, <3>1 DEF Answer, Call, Phase
  <2>4. QED
    BY <1>4, <2>2, <2>3 DEF Apply
<1>5. ASSUME NEW n \in Node, Return(n)
      PROVE  LeaseTypeOK'
  <2>1. cached' \in [Node -> [token : Nat, at : Nat]]
    BY <1>5 DEF Return, HandleAnswer, RecordLocalAuthority,
                InvalidateLocalAuthority, NoAuthority, Call
  <2>2. call' \in [Node -> Call]
    BY <1>5 DEF Return, Idle, Call, Phase
  <2>3. QED
    BY <1>5, <2>1, <2>2 DEF Return
<1>6. ASSUME NEW n \in Node, LeaveBehind(n)
      PROVE  late' \subseteq [node : Node, call : Call]
  BY <1>6, CallTypes DEF LeaveBehind
<1>7. ASSUME NEW n \in Node, Abandon(n) \/ CrashRestart(n)
      PROVE  LeaseTypeOK'
  <2>1. late' \subseteq [node : Node, call : Call]
    BY <1>6, <1>7 DEF Abandon, CrashRestart
  <2>2. call' \in [Node -> Call]
    BY <1>7, CallTypes DEF Abandon, CrashRestart
  <2>3. cached' \in [Node -> [token : Nat, at : Nat]]
    BY <1>7 DEF Abandon, CrashRestart, InvalidateLocalAuthority, NoAuthority
  <2>4. QED
    BY <1>7, <2>1, <2>2, <2>3 DEF Abandon, CrashRestart
<1>8. ASSUME NEW s \in late, LateBegin(s)
      PROVE  LeaseTypeOK'
  BY <1>8, CallTypes DEF LateBegin
<1>9. ASSUME NEW s \in late, LateApply(s)
      PROVE  LeaseTypeOK'
  <2>1. s.node \in Node /\ s.call.stamp \in Nat /\ s.call.token \in Nat
    BY DEF Call
  <2>2. QED
    BY <1>9, <2>1, UpsertType, ForceExpireType DEF LateApply, Effect
<1>10. ASSUME NEW s \in late, LateDrop(s)
       PROVE  LeaseTypeOK'
  BY <1>10 DEF LateDrop
<1>11. QED
  BY <1>0, <1>1, <1>2, <1>3, <1>4, <1>5, <1>7, <1>8, <1>9, <1>10 DEF LeaseNext

(* Every reachable state of the lease is well typed. *)
THEOREM LeaseTypeCorrect == LeaseSpec => []LeaseTypeOK
<1>1. LeaseInit => LeaseTypeOK
  BY LeaseConstants DEF LeaseInit, LeaseTypeOK, NoRow, NoAuthority, Idle, Epoch, Call, Phase
<1>2. LeaseTypeOK /\ [LeaseNext]_leaseVars => LeaseTypeOK'
  BY TypeStep
<1>3. QED
  BY <1>1, <1>2, PTL DEF LeaseSpec

-----------------------------------------------------------------------------
(* Mutual exclusion. *)

(* A grant stays covered as long as time only moves on and the row is left *)
(* alone or rewritten by an upsert stamped at most MaxStall ago.  A node   *)
(* that takes the row finds it expired, so the old grant's window is over; *)
(* the same node writing an older stamp still leaves Window.               *)
LEMMA CoveredByUpsert ==
    ASSUME LeaseTypeOK, Timely, NEW m \in Node, NEW n \in Node,
           NEW token \in Nat, NEW at \in Nat, NEW stamp \in Nat,
           at <= now, stamp <= now, now <= stamp + MaxStall,
           Covered(n, token, at), Upsert(m, stamp), now' = now
    PROVE  Covered(n, token, at)'
<1>1. CASE now > at + Window
  BY <1>1 DEF Covered, Window
<1>2. CASE ~MayTake(m, stamp)
  BY <1>2 DEF Covered, Upsert, Window
<1>3. CASE ~(now > at + Window) /\ MayTake(m, stamp)
  <2>1. row.holder = n /\ row.token = token /\ row.expiresAt >= at + Window
    BY <1>3 DEF Covered
  <2>2. row.expiresAt >= stamp
    BY <1>3, <2>1, LeaseConstants DEF Window, LeaseTypeOK
  <2>3. m = n /\ row' = [holder |-> n, token |-> token, expiresAt |-> stamp + LeaseTTL]
    BY <1>3, <2>1, <2>2 DEF MayTake, Upsert, TokenFor, LeaseTypeOK
  <2>4. stamp + LeaseTTL >= at + Window
    BY LeaseConstants DEF Window, LeaseTypeOK
  <2>5. QED
    BY <2>3, <2>4 DEF Covered, Window
<1>4. QED
  BY <1>1, <1>2, <1>3

(* The promise attached to cache entries and answers survives every step. *)
LEMMA InvStep ==
    ASSUME Timely, LeaseInv, [LeaseNext]_leaseVars
    PROVE  LeaseInv'
<1>0. LeaseTypeOK /\ LeaseTypeOK'
  BY TypeStep DEF LeaseInv
<1> USE <1>0 DEF LeaseInv
<1>1. CASE UNCHANGED leaseVars
  BY <1>1 DEF leaseVars, EntriesCovered, HasEntry, Covered, Window, AnswersCovered,
              CallsAreRecent, LateAreRecent, NoRelease
<1>2. CASE Tick
  <2>1. \A n \in Node, t, at \in Nat : Covered(n, t, at) => Covered(n, t, at)'
    BY <1>2, LeaseConstants DEF Tick, Covered, Window, LeaseTypeOK
  <2>2. EntriesCovered' /\ AnswersCovered'
    BY <1>2, <2>1 DEF Tick, EntriesCovered, HasEntry, AnswersCovered, LeaseTypeOK, Call
  <2>3. CallsAreRecent' /\ LateAreRecent'
    BY <1>2, LeaseConstants DEF Tick, Stalled, CallsAreRecent, LateAreRecent, LeaseTypeOK, Call
  <2>4. QED
    BY <1>2, <2>2, <2>3 DEF Tick, NoRelease
<1>3. ASSUME NEW n \in Node, TryAcquire(n) \/ Renew(n) \/ Release(n)
      PROVE  LeaseInv'
  <2>1. ~Release(n)
    BY DEF Release, Timely
  <2>2. \A m \in Node, t, at \in Nat : Covered(m, t, at)' <=> Covered(m, t, at)
    BY <1>3, <2>1 DEF TryAcquire, Renew, Covered, Window
  <2>3. EntriesCovered'
    BY <1>3, <2>1, <2>2 DEF TryAcquire, Renew, EntriesCovered, HasEntry, LeaseTypeOK
  <2>7. AnswersCovered'
    <3>1. \A m \in Node : call'[m] = call[m] \/ call'[m].phase = "issued"
      BY <1>3, <2>1 DEF TryAcquire, Renew, Issue, LeaseTypeOK
    <3>2. QED
      BY <1>3, <2>1, <2>2, <3>1 DEF TryAcquire, Renew, AnswersCovered, LeaseTypeOK, Call
  <2>4. CallsAreRecent' /\ LateAreRecent'
    BY <1>3, <2>1 DEF TryAcquire, Renew, Issue, CallsAreRecent, LateAreRecent, LeaseTypeOK
  <2>5. NoRelease'
    BY <1>3, <2>1 DEF TryAcquire, Renew, Issue, NoRelease, LeaseTypeOK
  <2>6. QED
    BY <2>3, <2>4, <2>5, <2>7
<1>4. ASSUME NEW n \in Node, Begin(n)
      PROVE  LeaseInv'
  <2>1. \A m \in Node : call'[m] = IF m = n THEN Started(call[n]) ELSE call[m]
    BY <1>4 DEF Begin, LeaseTypeOK
  <2>2. /\ Started(call[n]).phase = "begun" /\ Started(call[n]).stamp = now
        /\ Started(call[n]).start = call[n].start /\ Started(call[n]).op = call[n].op
    BY DEF Started, LeaseTypeOK, Call
  <2>3. EntriesCovered' /\ AnswersCovered'
    BY <1>4, <2>1, <2>2 DEF Begin, EntriesCovered, HasEntry, AnswersCovered, Covered, Window
  <2>4. CallsAreRecent' /\ LateAreRecent' /\ NoRelease'
    BY <1>4, <2>1, <2>2, LeaseConstants
       DEF Begin, CallsAreRecent, LateAreRecent, NoRelease, LeaseTypeOK, Call
  <2>5. QED
    BY <2>3, <2>4
<1>5. ASSUME NEW n \in Node, Apply(n)
      PROVE  LeaseInv'
  <2> DEFINE c == call[n]
  <2>1. /\ c \in Call /\ c.stamp \in Nat /\ c.start \in Nat
        /\ c.start <= c.stamp /\ c.stamp <= now /\ now <= c.stamp + MaxStall
    BY <1>5 DEF Apply, CallsAreRecent, LeaseTypeOK, Call
  <2>2. c.op # "release" /\ Upsert(n, c.stamp) /\ now' = now
    BY <1>5 DEF Apply, Effect, NoRelease
  <2>3. \A m \in Node, t, at \in Nat : at <= now /\ Covered(m, t, at) => Covered(m, t, at)'
    BY <2>1, <2>2, CoveredByUpsert
  <2>4. \A m \in Node : call'[m] = IF m = n THEN Answer(n, c) ELSE call[m]
    BY <1>5 DEF Apply, LeaseTypeOK
  <2>5. /\ Answer(n, c).op = c.op /\ Answer(n, c).start = c.start
        /\ Answer(n, c).phase \in {"granted", "contended"}
        /\ Answer(n, c).phase = "granted" =>
             MayTake(n, c.stamp) /\ Answer(n, c).got = TokenFor(n, c.stamp)
    BY <2>1, <2>2 DEF Answer, Call
  <2>6. \A t, at \in Nat :
          Answer(n, c).phase = "granted" /\ t = Answer(n, c).got /\ at = c.start
            => Covered(n, t, at)'
    <3>1. c.stamp + LeaseTTL >= c.start + Window
      BY <2>1, LeaseConstants DEF Window
    <3>2. QED
      BY <2>2, <2>5, <3>1 DEF Upsert, Covered, Window
  <2>7. EntriesCovered'
    BY <1>5, <2>2, <2>3 DEF Apply, EntriesCovered, HasEntry, LeaseTypeOK
  <2>8. AnswersCovered'
    <3>1. SUFFICES ASSUME NEW m \in Node, call'[m].phase = "granted"
                   PROVE  Covered(m, call[m].got, call[m].start)'
      BY DEF AnswersCovered
    <3>2. call'[m].got \in Nat /\ call'[m].start \in Nat
      BY DEF LeaseTypeOK, Call
    <3>3. CASE m = n
      BY <2>4, <2>5, <2>6, <3>1, <3>2, <3>3
    <3>4. CASE m # n
      <4>1. call'[m] = call[m]
        BY <2>4, <3>4
      <4>2. Covered(m, call[m].got, call[m].start) /\ call[m].start <= now
        BY <3>1, <4>1 DEF AnswersCovered, CallsAreRecent
      <4>3. QED
        BY <2>3, <3>2, <4>1, <4>2
    <3>5. QED
      BY <3>3, <3>4
  <2>9. CallsAreRecent' /\ LateAreRecent' /\ NoRelease'
    BY <1>5, <2>1, <2>2, <2>4, <2>5
       DEF Apply, CallsAreRecent, LateAreRecent, NoRelease
  <2>10. QED
    BY <2>7, <2>8, <2>9
<1>6. ASSUME NEW n \in Node, Return(n)
      PROVE  LeaseInv'
  <2>1. \A m \in Node : call'[m] = IF m = n THEN Idle ELSE call[m]
    BY <1>6 DEF Return, LeaseTypeOK
  <2>2. \A m \in Node : \/ cached'[m] = cached[m]
                        \/ cached'[m] = NoAuthority
                        \/ /\ m = n /\ call[n].phase = "granted"
                           /\ cached'[m] = [token |-> call[n].got, at |-> call[n].start]
    BY <1>6 DEF Return, HandleAnswer, RecordLocalAuthority, InvalidateLocalAuthority, LeaseTypeOK
  <2>3. EntriesCovered'
    BY <1>6, <2>2 DEF Return, EntriesCovered, HasEntry, AnswersCovered, CallsAreRecent,
                      Covered, Window
  <2>4. AnswersCovered' /\ CallsAreRecent' /\ LateAreRecent' /\ NoRelease'
    BY <1>6, <2>1 DEF Return, AnswersCovered, CallsAreRecent, LateAreRecent, NoRelease,
                      Covered, Window, Idle, LeaseTypeOK
  <2>5. QED
    BY <2>3, <2>4
<1>7. ASSUME NEW n \in Node, Abandon(n) \/ CrashRestart(n)
      PROVE  LeaseInv'
  <2>1. \A m \in Node : call'[m] = IF m = n THEN Idle ELSE call[m]
    BY <1>7 DEF Abandon, CrashRestart, LeaseTypeOK
  <2>2. \A m \in Node : cached'[m] = cached[m] \/ cached'[m] = NoAuthority
    BY <1>7 DEF Abandon, CrashRestart, InvalidateLocalAuthority, LeaseTypeOK
  <2>3. row' = row /\ now' = now
    BY <1>7 DEF Abandon, CrashRestart
  <2>4. EntriesCovered' /\ AnswersCovered' /\ CallsAreRecent'
    <3>1. \A m, token, at : Covered(m, token, at)' <=> Covered(m, token, at)
      BY <2>3 DEF Covered, Window
    <3>2. EntriesCovered'
      BY <2>2, <2>3, <3>1 DEF EntriesCovered, HasEntry
    <3>3. AnswersCovered'
      BY <2>1, <3>1 DEF AnswersCovered, Idle
    <3>4. CallsAreRecent'
      BY <2>1, <2>3 DEF CallsAreRecent, Idle, LeaseTypeOK
    <3>5. QED
      BY <3>2, <3>3, <3>4
  <2>5. \A s \in late' : s \in late \/ s = [node |-> n, call |-> Statement(call[n])]
    BY <1>7 DEF Abandon, CrashRestart, LeaveBehind
  <2>6. /\ Statement(call[n]).op # "release"
        /\ Statement(call[n]).phase = call[n].phase
        /\ Statement(call[n]).stamp = call[n].stamp
    BY DEF Statement, NoRelease, LeaseTypeOK, Call
  <2>7. LateAreRecent' /\ NoRelease'
    BY <2>1, <2>3, <2>5, <2>6 DEF LateAreRecent, NoRelease, CallsAreRecent, Idle
  <2>8. QED
    BY <2>4, <2>7
<1>8. ASSUME NEW s \in late, LateBegin(s)
      PROVE  LeaseInv'
  <2>1. UNCHANGED <<now, row, cached, call>>
    BY <1>8 DEF LateBegin
  <2>2. EntriesCovered' /\ AnswersCovered' /\ CallsAreRecent'
    BY <2>1 DEF EntriesCovered, HasEntry, AnswersCovered, CallsAreRecent, Covered, Window
  <2>3. \A t \in late' : t \in late \/ t.call = Started(s.call)
    BY <1>8 DEF LateBegin, LeaseTypeOK
  <2>4. /\ Started(s.call).stamp = now /\ Started(s.call).op = s.call.op
    BY DEF Started, LeaseTypeOK, Call
  <2>5. LateAreRecent' /\ NoRelease'
    BY <2>1, <2>3, <2>4, LeaseConstants DEF LateAreRecent, NoRelease, LeaseTypeOK
  <2>6. QED
    BY <2>2, <2>5
<1>9. ASSUME NEW s \in late, LateApply(s)
      PROVE  LeaseInv'
  <2>1. /\ s.node \in Node /\ s.call.stamp \in Nat
        /\ s.call.stamp <= now /\ now <= s.call.stamp + MaxStall
    BY <1>9 DEF LateApply, LateAreRecent, LeaseTypeOK, Call
  <2>2. Upsert(s.node, s.call.stamp) /\ now' = now
    BY <1>9 DEF LateApply, Effect, NoRelease
  <2>3. \A m \in Node, t, at \in Nat : at <= now /\ Covered(m, t, at) => Covered(m, t, at)'
    BY <2>1, <2>2, CoveredByUpsert
  <2>4. EntriesCovered' /\ AnswersCovered'
    BY <1>9, <2>3 DEF LateApply, EntriesCovered, HasEntry, AnswersCovered, CallsAreRecent,
                      LeaseTypeOK, Call
  <2>5. CallsAreRecent' /\ LateAreRecent' /\ NoRelease'
    BY <1>9 DEF LateApply, CallsAreRecent, LateAreRecent, NoRelease
  <2>6. QED
    BY <2>4, <2>5
<1>10. ASSUME NEW s \in late, LateDrop(s)
       PROVE  LeaseInv'
  BY <1>10 DEF LateDrop, EntriesCovered, HasEntry, AnswersCovered, CallsAreRecent,
               LateAreRecent, NoRelease, Covered, Window
<1>11. QED
  BY <1>1, <1>2, <1>3, <1>4, <1>5, <1>6, <1>7, <1>8, <1>9, <1>10 DEF LeaseNext

(* The strengthened invariant holds in every reachable state. *)
LEMMA LeaseInvariant == ASSUME Timely PROVE LeaseSpec => []LeaseInv
<1>1. LeaseInit => LeaseInv
  <2>1. LeaseInit => LeaseTypeOK
    BY LeaseConstants DEF LeaseInit, LeaseTypeOK, NoRow, NoAuthority, Idle, Epoch, Call, Phase
  <2>2. QED
    BY <2>1 DEF LeaseInit, LeaseInv, EntriesCovered, HasEntry, AnswersCovered,
                CallsAreRecent, LateAreRecent, NoRelease, Idle
<1>2. LeaseInv /\ [LeaseNext]_leaseVars => LeaseInv'
  BY InvStep
<1>3. QED
  BY <1>1, <1>2, PTL DEF LeaseSpec

(* A node inside its safety margin is inside its window, so the row is its *)
(* own and has not expired.                                                *)
LEMMA InvImpliesBacked == ASSUME Timely, LeaseInv PROVE AuthorityIsBacked
<1>1. SUFFICES ASSUME NEW n \in Node, HasLocalAuthority(n)
               PROVE  row.holder = n /\ row.token = cached[n].token /\ now <= row.expiresAt
  BY DEF AuthorityIsBacked
<1>2. HasEntry(n) /\ now - cached[n].at < SafetyMargin
  BY <1>1 DEF HasLocalAuthority
<1>3. now < cached[n].at + Window
  BY <1>2, LeaseConstants DEF LeaseInv, LeaseTypeOK, Timely, Window, SafetyMargin
<1>4. Covered(n, cached[n].token, cached[n].at)
  BY <1>2 DEF LeaseInv, EntriesCovered
<1>5. QED
  BY <1>3, <1>4, LeaseConstants DEF Covered, Window, LeaseInv, LeaseTypeOK

(* Whatever the delays, losses and reorderings of store calls, a node that *)
(* passes HasLocalAuthority is the unexpired holder of the row with the    *)
(* token it cached, provided no statement stalls past the slack            *)
(* renewalInterval + maxAllowedRenewalLatency and Release is not called.   *)
THEOREM BackedAuthority == ASSUME Timely PROVE LeaseSpec => []AuthorityIsBacked
<1>1. LeaseInv => AuthorityIsBacked
  BY InvImpliesBacked
<1>2. LeaseSpec => []LeaseInv
  BY LeaseInvariant
<1>3. QED
  BY <1>1, <1>2, PTL

(* The split-brain bound of pkg/lease: two nodes never pass                *)
(* HasLocalAuthority at the same instant, under the same hypotheses.       *)
THEOREM SingleAuthority == ASSUME Timely PROVE LeaseSpec => []AtMostOneAuthority
<1>1. AuthorityIsBacked => AtMostOneAuthority
  BY DEF AuthorityIsBacked, AtMostOneAuthority
<1>2. LeaseSpec => []AuthorityIsBacked
  BY BackedAuthority
<1>3. QED
  BY <1>1, <1>2, PTL

-----------------------------------------------------------------------------
(* Fencing tokens. These need no timing hypothesis. *)

(* What one step does to the row, whichever call it belongs to. *)
LEMMA RowStep ==
    ASSUME LeaseTypeOK, [LeaseNext]_leaseVars
    PROVE  \/ UNCHANGED <<row, granted>>
           \/ \E n \in Node, token \in Nat : ForceExpire(n, token)
           \/ \E n \in Node, stamp \in Nat : Upsert(n, stamp)
<1>1. CASE \E n \in Node : Apply(n)
  BY <1>1 DEF Apply, Effect, LeaseTypeOK, Call
<1>2. CASE \E s \in late : LateApply(s)
  BY <1>2 DEF LateApply, Effect, LeaseTypeOK, Call
<1>3. CASE ~(\E n \in Node : Apply(n)) /\ ~(\E s \in late : LateApply(s))
  BY <1>3 DEF LeaseNext, leaseVars, Tick, TryAcquire, Renew, Release, Begin, Return,
              Abandon, CrashRestart, LateBegin, LateDrop
<1>4. QED
  BY <1>1, <1>2, <1>3

(* A step never lowers the row's token and never moves the row to another  *)
(* holder without raising it.                                              *)
LEMMA TokenStep ==
    ASSUME LeaseTypeOK, [LeaseNext]_leaseVars
    PROVE  row'.token >= row.token /\ (row'.holder # row.holder => row'.token > row.token)
<1>1. ASSUME NEW n \in Node, NEW stamp \in Nat, Upsert(n, stamp)
      PROVE  row'.token >= row.token /\ (row'.holder # row.holder => row'.token > row.token)
  BY <1>1 DEF Upsert, TokenFor, LeaseTypeOK
<1>2. ASSUME NEW n \in Node, NEW token \in Nat, ForceExpire(n, token)
      PROVE  row'.token >= row.token /\ (row'.holder # row.holder => row'.token > row.token)
  BY <1>2, ForceExpireType DEF LeaseTypeOK
<1>3. CASE UNCHANGED <<row, granted>>
  BY <1>3 DEF LeaseTypeOK
<1>4. QED
  BY <1>1, <1>2, <1>3, RowStep

(* The upsert keeps the row's token a high-water mark and never lowers or  *)
(* re-homes it: in every behaviour, Release included.                      *)
THEOREM TokenMonotone == LeaseSpec => TakeoverRaisesToken
<1>1. LeaseTypeOK /\ [LeaseNext]_leaseVars =>
        [/\ row'.token >= row.token
         /\ row'.holder # row.holder => row'.token > row.token]_leaseVars
  BY TokenStep
<1>2. LeaseSpec => []LeaseTypeOK
  BY LeaseTypeCorrect
<1>3. QED
  BY <1>1, <1>2, PTL DEF LeaseSpec, TakeoverRaisesToken

(* The history of grants stays consistent with the row. *)
LEMMA GrantStep ==
    ASSUME GrantInv, [LeaseNext]_leaseVars
    PROVE  GrantInv'
<1>0. LeaseTypeOK /\ LeaseTypeOK'
  BY TypeStep DEF GrantInv
<1>1. ASSUME NEW n \in Node, NEW stamp \in Nat, Upsert(n, stamp)
      PROVE  GrantInv'
  <2>1. CASE ~MayTake(n, stamp)
    BY <1>0, <1>1, <2>1 DEF Upsert, GrantInv
  <2>2. CASE MayTake(n, stamp)
    <3>1. /\ row'.holder = n /\ row'.token = TokenFor(n, stamp)
          /\ granted' = granted \cup {<<TokenFor(n, stamp), n>>}
      BY <1>1, <2>2 DEF Upsert
    <3>2. \/ row'.token = row.token /\ row.holder = n
          \/ row'.token = row.token + 1
      BY <3>1 DEF TokenFor
    <3>3. \A g \in granted : g[1] \in Nat /\ g[1] <= row.token
      BY <1>0 DEF GrantInv, LeaseTypeOK
    <3>4. \A g \in granted' : g[1] <= row'.token /\ (g[1] = row'.token => g[2] = row'.holder)
      BY <1>0, <3>1, <3>2, <3>3 DEF GrantInv, LeaseTypeOK
    <3>5. \A g, h \in granted' : g[1] = h[1] => g[2] = h[2]
      BY <3>1, <3>4 DEF GrantInv
    <3>6. QED
      BY <1>0, <3>4, <3>5 DEF GrantInv
  <2>3. QED
    BY <2>1, <2>2
<1>2. ASSUME NEW n \in Node, NEW token \in Nat, ForceExpire(n, token)
      PROVE  GrantInv'
  BY <1>0, <1>2, ForceExpireType DEF GrantInv
<1>3. CASE UNCHANGED <<row, granted>>
  BY <1>0, <1>3 DEF GrantInv
<1>4. QED
  BY <1>0, <1>1, <1>2, <1>3, RowStep

(* No token is ever granted to two holders and none exceeds the row's      *)
(* token, in every behaviour, Release and late statements included.        *)
THEOREM TokensUnique == LeaseSpec => []TokensAreNeverShared
<1>1. LeaseInit => GrantInv
  BY LeaseConstants DEF LeaseInit, GrantInv, LeaseTypeOK, NoRow, NoAuthority, Idle, Epoch,
                        Call, Phase
<1>2. GrantInv /\ [LeaseNext]_leaseVars => GrantInv'
  BY GrantStep
<1>3. GrantInv => TokensAreNeverShared
  BY DEF GrantInv, TokensAreNeverShared
<1>4. QED
  BY <1>1, <1>2, <1>3, PTL DEF LeaseSpec

-----------------------------------------------------------------------------
(* Refinement. *)

(* A step of the lease is a step of LeaseAuthority or changes none of its  *)
(* variables.                                                              *)
LEMMA AuthorityStep ==
    ASSUME Timely, LeaseInv, [LeaseNext]_leaseVars
    PROVE  [Authority!AuthorityNext]_(Authority!authorityVars)
<1> DEFINE L == {n \in Node : HasLocalAuthority(n)}
<1>0. LeaseInv' /\ LeaseTypeOK /\ LeaseTypeOK'
  BY InvStep DEF LeaseInv
<1>1. AuthorityIsBacked /\ AuthorityIsBacked'
  <2>1. AuthorityIsBacked
    BY InvImpliesBacked
  <2>2. (LeaseInv => AuthorityIsBacked)'
    BY InvImpliesBacked, PTL
  <2>3. QED
    BY <1>0, <2>1, <2>2
<1>2. L \subseteq {row.holder} /\ L' \subseteq {row'.holder}
  BY <1>1 DEF AuthorityIsBacked
<1>3. CASE row'.holder = row.holder /\ row'.token = row.token
  <2>1. L' = {} \/ L' = {row.holder}
    BY <1>2, <1>3
  <2>2. QED
    BY <1>3, <2>1 DEF Authority!AuthorityNext, Authority!Lead, Authority!StepDown,
                      Authority!authorityVars
<1>4. CASE ~(row'.holder = row.holder /\ row'.token = row.token)
  <2>1. PICK m \in Node, stamp \in Nat :
          Upsert(m, stamp) /\ now' = now /\ cached' = cached /\ stamp <= now
    <3>1. CASE \E n \in Node : Apply(n)
      BY <1>0, <3>1 DEF Apply, Effect, LeaseInv, NoRelease, CallsAreRecent, LeaseTypeOK, Call
    <3>2. CASE \E s \in late : LateApply(s)
      BY <1>0, <3>2 DEF LateApply, Effect, LeaseInv, NoRelease, LateAreRecent, LeaseTypeOK, Call
    <3>3. CASE ~(\E n \in Node : Apply(n)) /\ ~(\E s \in late : LateApply(s))
      BY <1>4, <3>3 DEF LeaseNext, leaseVars, Tick, TryAcquire, Renew, Release, Begin,
                        Return, Abandon, CrashRestart, LateBegin, LateDrop
    <3>4. QED
      BY <3>1, <3>2, <3>3
  <2>2. /\ MayTake(m, stamp) /\ row'.holder = m /\ row'.token = row.token + 1
        /\ row.expiresAt < stamp
    BY <1>0, <1>4, <2>1 DEF Upsert, MayTake, TokenFor, LeaseTypeOK
  <2>3. L = {}
    BY <1>0, <1>1, <2>1, <2>2 DEF AuthorityIsBacked, LeaseTypeOK
  <2>4. L' = {}
    BY <2>1, <2>3 DEF HasLocalAuthority, HasEntry
  <2>5. Authority!TakeOver(m)
    BY <2>2, <2>3, <2>4 DEF Authority!TakeOver
  <2>6. QED
    BY <2>5 DEF Authority!AuthorityNext
<1>5. QED
  BY <1>3, <1>4

(* The lease implements LeaseAuthority: a node leads only as the row's     *)
(* holder, and ownership moves only while nobody leads and to a higher     *)
(* token.                                                                  *)
THEOREM LeaseRefinesAuthority == ASSUME Timely PROVE LeaseSpec => ImplementsAuthority
<1>1. LeaseInit => Authority!AuthorityInit
  BY DEF LeaseInit, Authority!AuthorityInit, NoRow, HasLocalAuthority, HasEntry
<1>2. LeaseInv /\ [LeaseNext]_leaseVars => [Authority!AuthorityNext]_(Authority!authorityVars)
  BY AuthorityStep
<1>3. LeaseSpec => []LeaseInv
  BY LeaseInvariant
<1>4. QED
  BY <1>1, <1>2, <1>3, PTL DEF LeaseSpec, ImplementsAuthority, Authority!AuthoritySpec
=============================================================================
