-------------------------- MODULE CommandPathProofs --------------------------
(***************************************************************************)
(* Proofs about the whole command path.  The steward's side of it is a     *)
(* CommandFence, so its theorems carry over; what the composition adds is  *)
(* that no term outruns the lease (Bounded).                               *)
(***************************************************************************)
EXTENDS CommandPath, CommandFenceProofs

(* Every step of the path is a step of the lease and the stamping, or of   *)
(* the steward's fence.                                                    *)
LEMMA StewardSide ==
    ASSUME PathTypeOK, [PathNext]_pathVars
    PROVE  [FenceNext]_fenceVars
<1>1. ASSUME NEW c \in Cmd, Deliver(c) PROVE FenceNext
  BY <1>1 DEF Deliver, PathTypeOK, FenceNext, CommandStep
<1>2. CASE StewardStep
  BY <1>2 DEF StewardStep, FenceNext, CommandStep
<1>3. CASE LeaseMoves \/ (\E c \in Cmd : Publish(c)) \/ UNCHANGED pathVars
  BY <1>3 DEF LeaseMoves, Publish, pathVars
<1>4. QED
  BY <1>1, <1>2, <1>3 DEF PathNext

-----------------------------------------------------------------------------
(* What the lease has issued bounds what is stamped, held, saved and in    *)
(* flight.                                                                 *)
Bounded ==
    /\ \A c \in Cmd : stamp[c] <= Ceiling /\ term[c] <= Ceiling
    /\ mark <= Ceiling /\ saved <= Ceiling /\ file.term <= Ceiling
    /\ \A t \in Term : inflight[t] > 0 => t <= Ceiling
    /\ Ceiling <= MaxTerm

(* Raising a token raises its term. *)
LEMMA SumMonotone ==
    ASSUME NEW a \in Nat, NEW b \in Nat, NEW c \in Nat, b <= c
    PROVE  a + b \in Nat /\ a + c \in Nat /\ a + b <= a + c
OBVIOUS

(* The lease side of a step: the token never falls and stamps follow it. *)
LEMMA SourceStep ==
    ASSUME PathTypeOK, Bounded, [PathNext]_pathVars
    PROVE  /\ owner' \in Node \cup {NoNode} /\ epoch' \in Nat /\ leaders' \subseteq Node
           /\ stamp' \in [Cmd -> Term] /\ sent' \subseteq Cmd
           /\ Ceiling' >= Ceiling /\ Ceiling' <= MaxTerm
           /\ \A c \in Cmd : stamp'[c] <= Ceiling'
           /\ epoch' # epoch => UNCHANGED fenceVars
<1> DEFINE Goal == /\ owner' \in Node \cup {NoNode} /\ epoch' \in Nat /\ leaders' \subseteq Node
                   /\ stamp' \in [Cmd -> Term] /\ sent' \subseteq Cmd
                   /\ Ceiling' >= Ceiling /\ Ceiling' <= MaxTerm
                   /\ \A c \in Cmd : stamp'[c] <= Ceiling'
                   /\ epoch' # epoch => UNCHANGED fenceVars
<1> USE FenceConstants, PathConstants
<1>0. /\ epoch \in Nat /\ LeaseTermFloor \in Nat /\ MaxTerm \in Nat
      /\ \A c \in Cmd : stamp[c] \in Nat
  BY DEF PathTypeOK, Term
<1>1. CASE UNCHANGED sourceVars
  BY <1>0, <1>1 DEF sourceVars, authorityVars, PathTypeOK, Bounded, Ceiling
<1>2. ASSUME NEW c \in Cmd, Publish(c) PROVE Goal
  <2>1. PICK token \in 0 .. epoch : stamp' = [stamp EXCEPT ![c] = TermOf(token)]
    BY <1>2 DEF Publish, Give
  <2>2. /\ TermOf(token) \in Nat /\ TermOf(token) <= Ceiling
        /\ UNCHANGED authorityVars /\ sent' = sent \cup {c}
    BY <1>0, <1>2 DEF TermOf, Ceiling, Publish, Give
  <2>3. TermOf(token) \in Term /\ Ceiling \in Nat
    BY <1>0, <2>2 DEF Term, Bounded, Ceiling
  <2>4. QED
    BY <1>0, <2>1, <2>2, <2>3 DEF authorityVars, PathTypeOK, Bounded, Ceiling
<1>3. CASE LeaseMoves
  <2>1. /\ UNCHANGED <<stamp, sent, fenceVars>> /\ LeaseTermFloor + epoch' <= MaxTerm
        /\ owner' \in Node \cup {NoNode} /\ epoch' \in {epoch, epoch + 1}
        /\ leaders' \subseteq Node
    BY <1>3 DEF LeaseMoves, AuthorityNext, Lead, StepDown, TakeOver, PathTypeOK
  <2>2. stamp' = stamp /\ sent' = sent /\ UNCHANGED fenceVars
    BY <2>1
  <2>3. /\ epoch' \in Nat /\ Ceiling \in Nat /\ Ceiling' \in Nat
        /\ Ceiling' >= Ceiling /\ Ceiling' <= MaxTerm
    <3>1. (epoch' = epoch \/ epoch' = epoch + 1) /\ LeaseTermFloor + epoch' <= MaxTerm
      BY <2>1
    <3>2. epoch' \in Nat
      BY <1>0, <3>1
    <3>3. epoch <= epoch'
      BY <1>0, <3>1
    <3>4. /\ LeaseTermFloor + epoch \in Nat /\ LeaseTermFloor + epoch' \in Nat
          /\ LeaseTermFloor + epoch <= LeaseTermFloor + epoch'
      BY <1>0, <3>2, <3>3, SumMonotone
    <3>5. QED
      BY <3>1, <3>2, <3>4 DEF Ceiling
  <2>4. ASSUME NEW c \in Cmd PROVE stamp'[c] <= Ceiling'
    <3>1. stamp[c] \in Nat /\ stamp[c] <= Ceiling /\ stamp'[c] = stamp[c]
      BY <1>0, <2>2 DEF Bounded
    <3>2. QED
      BY <2>3, <3>1
  <2>5. QED
    BY <2>1, <2>2, <2>3, <2>4 DEF PathTypeOK
<1>4. QED
  BY <1>1, <1>2, <1>3 DEF PathNext, Deliver, StewardStep, pathVars

(* The steward's side of a step takes its terms from what it already held  *)
(* or from the stamp of the delivered command.                             *)
LEMMA TermsStep ==
    ASSUME PathTypeOK, Bounded, [PathNext]_pathVars, epoch' = epoch
    PROVE  /\ \A c \in Cmd : term'[c] <= Ceiling
           /\ mark' <= Ceiling /\ saved' <= Ceiling /\ file'.term <= Ceiling
           /\ \A t \in Term : inflight'[t] > 0 => t <= Ceiling
<1> DEFINE Goal == /\ \A c \in Cmd : term'[c] <= Ceiling
                   /\ mark' <= Ceiling /\ saved' <= Ceiling /\ file'.term <= Ceiling
                   /\ \A t \in Term : inflight'[t] > 0 => t <= Ceiling
<1> USE FenceConstants, PathConstants DEF client, ratchet, history
<1>0. /\ Ceiling \in Nat
      /\ phase \in [Cmd -> Phases] /\ term \in [Cmd -> Term] /\ inflight \in [Term -> Nat]
      /\ stamp \in [Cmd -> Term] /\ \A t \in Term : t \in Nat
  BY DEF PathTypeOK, FenceTypeOK, Ceiling, Term
<1>1. ASSUME NEW c \in Cmd, Admit(c, stamp[c]) PROVE Goal
  <2>1. /\ mark' = mark /\ saved' = saved /\ file' = file
        /\ term' = [term EXCEPT ![c] = stamp[c]]
    BY <1>1 DEF Admit
  <2>2. ASSUME NEW t \in Term, inflight'[t] > 0 PROVE t <= Ceiling
    <3>1. t = stamp[c] \/ inflight'[t] = inflight[t]
      BY <1>0, <1>1 DEF Admit, Reserve
    <3>2. QED
      BY <2>2, <3>1 DEF Bounded
  <2>3. QED
    BY <1>0, <2>1, <2>2 DEF Bounded
<1>2. ASSUME NEW c \in Cmd, Refuse(c, stamp[c]) PROVE Goal
  BY <1>0, <1>2 DEF Refuse, Bounded
<1>3. ASSUME NEW c \in Cmd, inflight' = Unreserve(term[c])
      PROVE  \A t \in Term : inflight'[t] > 0 => t <= Ceiling
  <2>1. SUFFICES ASSUME NEW t \in Term, inflight'[t] > 0 PROVE inflight[t] > 0
    BY DEF Bounded
  <2>2. inflight[t] \in Nat /\ inflight'[t] <= inflight[t] /\ inflight'[t] \in Nat
    BY <1>0, <1>3 DEF Unreserve
  <2>3. QED
    BY <2>1, <2>2
<1>4. ASSUME NEW c \in Cmd, Dispatch(c) PROVE Goal
  BY <1>4 DEF Dispatch, Bounded
<1>5. ASSUME NEW c \in Cmd, DispatchFails(c) \/ ReleaseUnverified(c) PROVE Goal
  BY <1>3, <1>5 DEF DispatchFails, ReleaseUnverified, Bounded
<1>6. ASSUME NEW c \in Cmd, Commit(c) PROVE Goal
  BY <1>3, <1>6 DEF Commit, Bounded
<1>7. \A readable \in Readable : Reference(readable) <= Ceiling
  BY <1>0 DEF Reference, Bounded
<1>8. ASSUME NEW c \in Cmd, Save(c) PROVE Goal
  BY <1>7, <1>8 DEF Save, Written, Bounded
<1>9. ASSUME NEW c \in Cmd, SaveFails(c) PROVE Goal
  BY <1>7, <1>9 DEF SaveFails, Bounded
<1>10. CASE Crash
  <2>1. mark' = 0 /\ saved' = 0 /\ term' = term /\ file' = file
        /\ inflight' = [t \in Term |-> 0]
    BY <1>10 DEF Crash
  <2>2. QED
    BY <1>0, <2>1 DEF Bounded
<1>11. CASE Enroll \/ Damage \/ Boot \/ BootUnreadable
  BY <1>0, <1>11 DEF Enroll, Damage, Boot, BootUnreadable, Absent, Corrupt, Bounded
<1>12. CASE UNCHANGED fenceVars
  BY <1>12 DEF fenceVars, Bounded
<1>13. QED
  BY <1>1, <1>2, <1>4, <1>5, <1>6, <1>8, <1>9, <1>10, <1>11, <1>12
     DEF PathNext, Deliver, StewardStep, LeaseMoves, Publish, pathVars

(* PathTypeOK and Bounded are inductive together. *)
LEMMA BoundedStep ==
    ASSUME PathTypeOK, Bounded, [PathNext]_pathVars
    PROVE  PathTypeOK' /\ Bounded'
<1>1. PathTypeOK'
  <2>1. FenceTypeOK'
    BY StewardSide, FenceTypeStep DEF PathTypeOK
  <2>2. QED
    BY <2>1, SourceStep DEF PathTypeOK
<1>2. Bounded'
  <2>1. Ceiling' >= Ceiling /\ Ceiling' <= MaxTerm /\ \A c \in Cmd : stamp'[c] <= Ceiling'
    BY SourceStep
  <2>2. CASE epoch' = epoch
    BY <2>1, <2>2, TermsStep DEF Bounded, Ceiling
  <2>3. CASE epoch' # epoch
    <3>1. UNCHANGED fenceVars
      BY <2>3, SourceStep
    <3>2. /\ term' = term /\ mark' = mark /\ saved' = saved /\ file' = file
          /\ inflight' = inflight
      BY <3>1 DEF fenceVars, client, ratchet
    <3>3. /\ Ceiling \in Int /\ Ceiling' \in Int /\ mark \in Int /\ saved \in Int
          /\ \A c \in Cmd : term[c] \in Int
          /\ \A t \in Term : t \in Int
      BY <1>1, FenceConstants, PathConstants DEF PathTypeOK, FenceTypeOK, Ceiling, Term
    <3>4. file.term \in Int
      BY FenceConstants DEF PathTypeOK, FenceTypeOK, File, Absent, Corrupt, Written, Term
    <3>5. QED
      BY <2>1, <3>2, <3>3, <3>4 DEF Bounded
  <2>4. QED
    BY <2>2, <2>3
<1>3. QED
  BY <1>1, <1>2

-----------------------------------------------------------------------------
(* Together they hold in every reachable state. *)
LEMMA PathInvariant ==
    ASSUME LeaseTermFloor <= MaxTerm
    PROVE  PathSpec => [](PathTypeOK /\ Bounded)
<1>1. PathInit => PathTypeOK /\ Bounded
  <2>1. SUFFICES ASSUME PathInit PROVE PathTypeOK /\ Bounded
    OBVIOUS
  <2>2. FenceTypeOK
    BY <2>1, FenceConstants DEF PathInit, FenceInit, FenceTypeOK, Term, Phases, File
  <2>3. PathTypeOK
    BY <2>1, <2>2, FenceConstants DEF PathInit, SourceInit, AuthorityInit, PathTypeOK, Term
  <2>4. Ceiling = LeaseTermFloor
    BY <2>1, PathConstants DEF PathInit, SourceInit, AuthorityInit, Ceiling
  <2>5. mark <= Ceiling /\ saved <= Ceiling /\ file.term <= Ceiling
    BY <2>1, <2>4, PathConstants DEF PathInit, FenceInit, Absent, Written
  <2>6. QED
    BY <2>1, <2>3, <2>4, <2>5, PathConstants, FenceConstants
       DEF PathInit, SourceInit, FenceInit, Bounded
<1>2. PathTypeOK /\ Bounded /\ [PathNext]_pathVars => (PathTypeOK /\ Bounded)'
  BY BoundedStep
<1>3. QED
  BY <1>1, <1>2, PTL DEF PathSpec

(* A command stamped with the lease's current term passes the steward's    *)
(* fence in every reachable state, for any history of takeovers, crashes,  *)
(* failed saves, reordered commands and Raft-era ratchets.                 *)
THEOREM NeverLockedOut ==
    ASSUME LeaseTermFloor <= MaxTerm
    PROVE  PathSpec => []CurrentTermAdmitted
<1>1. PathTypeOK /\ Bounded => CurrentTermAdmitted
  <2>1. SUFFICES ASSUME PathTypeOK, Bounded, epoch > 0
                 PROVE  Admits(TermOf(epoch))
    BY DEF CurrentTermAdmitted
  <2>2. epoch \in Nat /\ TermOf(epoch) = Ceiling /\ Ceiling > 0
    BY <2>1, PathConstants DEF PathTypeOK, TermOf, Ceiling
  <2>3. QED
    BY <2>1, <2>2 DEF Admits, Bounded
<1>2. QED
  BY <1>1, PathInvariant, PTL

(* The steward's side of the path is a CommandFence behaviour. *)
THEOREM PathIsFenced ==
    ASSUME LeaseTermFloor <= MaxTerm
    PROVE  PathSpec => FenceSpec
<1>1. PathInit => FenceInit
  BY DEF PathInit
<1>2. PathTypeOK /\ [PathNext]_pathVars => [FenceNext]_fenceVars
  BY StewardSide
<1>3. QED
  BY <1>1, <1>2, PathInvariant, PTL DEF PathSpec, FenceSpec

(* An admitted command carries the term it was stamped with. *)
Carried == \A c \in Cmd : /\ phase[c] # "new" => term[c] = stamp[c] /\ c \in sent
                          /\ order[c] > 0 => phase[c] # "new"

(* Every step keeps that. *)
LEMMA CarriedStep ==
    ASSUME PathTypeOK, Carried, [PathNext]_pathVars
    PROVE  Carried'
<1> USE DEF Carried, client, ratchet, history
<1>0. phase \in [Cmd -> Phases] /\ term \in [Cmd -> Term] /\ order \in [Cmd -> Nat]
      /\ stamp \in [Cmd -> Term]
  BY DEF PathTypeOK, FenceTypeOK
<1>1. ASSUME NEW c \in Cmd, Publish(c) PROVE Carried'
  <2>1. PICK token \in 0 .. epoch : stamp' = [stamp EXCEPT ![c] = TermOf(token)]
    BY <1>1 DEF Publish, Give
  <2>2. c \notin sent /\ sent' = sent \cup {c} /\ phase' = phase /\ term' = term /\ order' = order
    BY <1>1 DEF Publish, Give, fenceVars
  <2>3. QED
    BY <1>0, <2>1, <2>2
<1>2. CASE LeaseMoves
  BY <1>2 DEF LeaseMoves, fenceVars
<1>3. ASSUME NEW c \in Cmd, Deliver(c) PROVE Carried'
  <2>1. /\ c \in sent /\ stamp' = stamp /\ sent' = sent
        /\ term' = [term EXCEPT ![c] = stamp[c]]
        /\ \E p \in {"admitted", "refused"} : phase' = [phase EXCEPT ![c] = p]
        /\ order' = order \/ \E k : order' = [order EXCEPT ![c] = k]
    BY <1>3 DEF Deliver, Admit, Refuse, sourceVars
  <2>2. QED
    BY <1>0, <2>1
<1>4. ASSUME NEW c \in Cmd, phase[c] # "new", NEW p, p # "new",
             phase' = [phase EXCEPT ![c] = p],
             term' = term, order' = order, stamp' = stamp, sent' = sent
      PROVE  Carried'
  BY <1>0, <1>4
<1>5. CASE StewardStep
  <2>1. stamp' = stamp /\ sent' = sent
    BY <1>5 DEF StewardStep, sourceVars
  <2>2. ASSUME NEW c \in Cmd, \/ Dispatch(c) \/ DispatchFails(c)
                              \/ Commit(c) \/ ReleaseUnverified(c)
        PROVE  Carried'
    BY <1>4, <2>1, <2>2 DEF Dispatch, DispatchFails, Commit, ReleaseUnverified
  <2>3. ASSUME NEW c \in Cmd, Save(c) \/ SaveFails(c) PROVE Carried'
    BY <1>4, <2>1, <2>3 DEF Save, SaveFails
  <2>4. CASE Crash
    <3>1. /\ \A c \in Cmd : phase'[c] # "new" <=> phase[c] # "new"
          /\ term' = term /\ order' = order
      BY <2>4 DEF Crash, Orphaned
    <3>2. QED
      BY <2>1, <3>1
  <2>5. CASE Enroll \/ Damage \/ Boot \/ BootUnreadable
    BY <2>1, <2>5 DEF Enroll, Damage, Boot, BootUnreadable
  <2>6. QED
    BY <1>5, <2>2, <2>3, <2>4, <2>5 DEF StewardStep
<1>6. CASE UNCHANGED pathVars
  BY <1>6 DEF pathVars, sourceVars, fenceVars
<1>7. QED
  BY <1>1, <1>2, <1>3, <1>5, <1>6 DEF PathNext

(* Behind an accepted command of a newer leader, no command of a stale     *)
(* controller gets in: the lease's tokens, the stamping and the fence      *)
(* compose.                                                                *)
THEOREM StaleControllersFenced ==
    ASSUME LeaseTermFloor <= MaxTerm, ~RereadFails
    PROVE  PathSpec => []StaleStampsFenced
<1>1. PathInit => Carried
  BY DEF PathInit, FenceInit, Carried
<1>2. PathTypeOK /\ Carried /\ [PathNext]_pathVars => Carried'
  BY CarriedStep
<1>3. PathTypeOK /\ Carried /\ AdmissionsFollowTerms => StaleStampsFenced
  <2>1. SUFFICES ASSUME PathTypeOK, Carried, AdmissionsFollowTerms,
                        NEW c \in Cmd, NEW d \in Cmd,
                        Accepted(c), kept[c] \in {"memory", "file"},
                        order[c] > 0, order[d] > order[c]
                 PROVE  stamp[d] >= stamp[c]
    BY DEF StaleStampsFenced
  <2>2. ~Overtaken(c, d)
    BY <2>1 DEF AdmissionsFollowTerms
  <2>3. order[c] \in Nat /\ order[d] \in Nat /\ stamp[c] \in Int /\ stamp[d] \in Int
    BY <2>1, FenceConstants DEF PathTypeOK, FenceTypeOK, Term
  <2>4. term[c] = stamp[c] /\ term[d] = stamp[d]
    BY <2>1, <2>3 DEF Carried, Accepted
  <2>5. QED
    BY <2>1, <2>2, <2>3, <2>4 DEF Overtaken
<1>4. QED
  BY <1>1, <1>2, <1>3, PathInvariant, PathIsFenced, FenceOrdersAdmissions, PTL DEF PathSpec
=============================================================================
