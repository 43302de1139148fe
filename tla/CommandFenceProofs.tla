------------------------- MODULE CommandFenceProofs -------------------------
(***************************************************************************)
(* Proofs about the steward's term fence, for any set of commands and any  *)
(* terms.  The argument has two halves.  While a command is being          *)
(* dispatched its reservation keeps lower terms out (ReservationsMatch);   *)
(* once it is accepted the mark does, in memory and, after a Save, in the  *)
(* file (FenceInv).                                                        *)
(***************************************************************************)
EXTENDS CommandFence, FiniteSetTheorems, TLAPS

(* Every step keeps the types. *)
LEMMA FenceTypeStep ==
    ASSUME FenceTypeOK, [FenceNext]_fenceVars
    PROVE  FenceTypeOK'
<1> USE FenceConstants DEF FenceTypeOK, Term, Phases, client, ratchet, history
<1>0. CASE UNCHANGED fenceVars
  BY <1>0 DEF fenceVars
<1>1. ASSUME NEW c \in Cmd, NEW t \in Term, Admit(c, t) PROVE FenceTypeOK'
  <2>1. IsFiniteSet(Admitted)
    BY FS_Subset DEF Admitted
  <2>2. Cardinality(Admitted) + 1 \in Nat
    BY <2>1, FS_CardinalityType
  <2>3. inflight' \in [Term -> Nat]
    BY <1>1 DEF Admit, Reserve
  <2>4. QED
    BY <1>1, <2>2, <2>3 DEF Admit
<1>2. ASSUME NEW c \in Cmd, NEW t \in Term, Refuse(c, t) PROVE FenceTypeOK'
  BY <1>2 DEF Refuse
<1>3. ASSUME NEW c \in Cmd, Dispatch(c) PROVE FenceTypeOK'
  BY <1>3 DEF Dispatch
<1>4. ASSUME NEW c \in Cmd PROVE Unreserve(term[c]) \in [Term -> Nat]
  BY DEF Unreserve
<1>5. ASSUME NEW c \in Cmd, DispatchFails(c) PROVE FenceTypeOK'
  BY <1>4, <1>5 DEF DispatchFails
<1>6. ASSUME NEW c \in Cmd, Commit(c) PROVE FenceTypeOK'
  BY <1>4, <1>6 DEF Commit
<1>7. ASSUME NEW c \in Cmd, ReleaseUnverified(c) PROVE FenceTypeOK'
  BY <1>4, <1>7 DEF ReleaseUnverified
<1>8. \A readable \in Readable : Reference(readable) \in Term
  BY DEF Reference, File, Absent, Corrupt, Written
<1>9. ASSUME NEW c \in Cmd, Save(c) PROVE FenceTypeOK'
  BY <1>8, <1>9 DEF Save, File
<1>10. ASSUME NEW c \in Cmd, SaveFails(c) PROVE FenceTypeOK'
  BY <1>8, <1>10 DEF SaveFails
<1>11. CASE Crash
  <2>1. phase' \in [Cmd -> Phases]
    BY <1>11 DEF Crash, Orphaned
  <2>2. kept' \in [Cmd -> {"no", "memory", "lost", "file", "reset"}]
    BY <1>11 DEF Crash
  <2>3. inflight' \in [Term -> Nat]
    BY <1>11 DEF Crash
  <2>4. /\ mark' = 0 /\ saved' = 0 /\ seeded' = FALSE /\ up' = FALSE
        /\ term' = term /\ file' = file /\ order' = order
    BY <1>11, Zenon DEF Crash
  <2>5. 0 \in Term
    OBVIOUS
  <2>6. QED
    BY <2>1, <2>2, <2>3, <2>4, <2>5
<1>12. CASE Enroll
  BY <1>12 DEF Enroll, Reset, File
<1>13. CASE Damage
  BY <1>13 DEF Damage, File
<1>14. CASE Boot
  BY <1>14 DEF Boot, File, Absent, Corrupt, Written
<1>15. CASE BootUnreadable
  BY <1>15 DEF BootUnreadable, Reset
<1>16. QED
  BY <1>0, <1>1, <1>2, <1>3, <1>5, <1>6, <1>7, <1>9, <1>10, <1>11, <1>12, <1>13,
     <1>14, <1>15 DEF FenceNext, CommandStep

(* The types of the fence state hold in every reachable state. *)
THEOREM FenceTypeCorrect == FenceSpec => []FenceTypeOK
<1>1. FenceInit => FenceTypeOK
  BY FenceConstants DEF FenceInit, FenceTypeOK, Term, Phases, File
<1>2. FenceTypeOK /\ [FenceNext]_fenceVars => FenceTypeOK'
  BY FenceTypeStep
<1>3. QED
  BY <1>1, <1>2, PTL DEF FenceSpec

-----------------------------------------------------------------------------
(* Reservations. *)

(* The open commands of a term are finitely many. *)
LEMMA OpenFinite ==
    ASSUME NEW t
    PROVE  IsFiniteSet(Open(t)) /\ Cardinality(Open(t)) \in Nat
BY FenceConstants, FS_Subset, FS_CardinalityType DEF Open

(* Finishing the dispatch of c takes its reservation away, whatever the    *)
(* outcome, and no other.                                                  *)
LEMMA UnreserveMatches ==
    ASSUME FenceTypeOK, ReservationsMatch, NEW c \in Cmd,
           phase[c] \in {"admitted", "dispatched"},
           NEW p \in Phases \ {"admitted", "dispatched"},
           phase' = [phase EXCEPT ![c] = p], term' = term,
           inflight' = Unreserve(term[c])
    PROVE  ReservationsMatch'
<1>1. SUFFICES ASSUME NEW t \in Term \ {0}
               PROVE  inflight'[t] = Cardinality(Open(t)')
  BY DEF ReservationsMatch
<1>2. inflight[t] = Cardinality(Open(t)) /\ inflight[t] \in Nat
  BY DEF ReservationsMatch, FenceTypeOK
<1>3. CASE t = term[c]
  <2>1. Open(t)' = Open(t) \ {c} /\ c \in Open(t)
    BY <1>3 DEF Open, FenceTypeOK
  <2>2. Cardinality(Open(t)') = Cardinality(Open(t)) - 1
    <3>1. IsFiniteSet(Open(t))
      BY OpenFinite
    <3>2. Cardinality(Open(t) \ {c}) = Cardinality(Open(t)) - 1
      BY <2>1, <3>1, FS_RemoveElement
    <3>3. QED
      BY <2>1, <3>2
  <2>3. Cardinality(Open(t)) # 0
    BY <2>1, OpenFinite, FS_EmptySet
  <2>4. inflight'[t] = inflight[t] - 1
    BY <1>2, <1>3, <2>3 DEF Unreserve, FenceTypeOK
  <2>5. QED
    BY <1>2, <2>2, <2>4
<1>4. CASE t # term[c]
  <2>1. Open(t)' = Open(t)
    BY <1>4 DEF Open, FenceTypeOK
  <2>2. inflight'[t] = inflight[t]
    BY <1>4 DEF Unreserve, FenceTypeOK
  <2>3. QED
    BY <1>2, <2>1, <2>2
<1>5. QED
  BY <1>3, <1>4

(* A step that opens and closes no command keeps the count. *)
LEMMA SameOpen ==
    ASSUME ReservationsMatch, inflight' = inflight,
           \A t \in Term \ {0} : Open(t)' = Open(t)
    PROVE  ReservationsMatch'
BY DEF ReservationsMatch

(* Every step keeps the reservations equal to the open commands. *)
LEMMA ReservationsStep ==
    ASSUME FenceTypeOK, ReservationsMatch, [FenceNext]_fenceVars
    PROVE  ReservationsMatch'
<1> USE DEF client, ratchet, history
<1>0. CASE UNCHANGED fenceVars
  BY <1>0, SameOpen DEF fenceVars, Open
<1>1. ASSUME NEW c \in Cmd, NEW t \in Term, Admit(c, t) PROVE ReservationsMatch'
  <2>1. SUFFICES ASSUME NEW u \in Term \ {0}
                 PROVE  inflight'[u] = Cardinality(Open(u)')
    BY DEF ReservationsMatch
  <2>2. inflight[u] = Cardinality(Open(u)) /\ inflight[u] \in Nat
    BY DEF ReservationsMatch, FenceTypeOK
  <2>3. CASE u = t
    <3>1. Open(u)' = Open(u) \cup {c} /\ c \notin Open(u)
      BY <1>1, <2>3 DEF Admit, Open, FenceTypeOK
    <3>2. Cardinality(Open(u)') = Cardinality(Open(u)) + 1
      BY <3>1, OpenFinite, FS_AddElement
    <3>3. inflight'[u] = inflight[u] + 1
      BY <1>1, <2>3 DEF Admit, Reserve, FenceTypeOK
    <3>4. QED
      BY <2>2, <3>2, <3>3
  <2>4. CASE u # t
    <3>1. Open(u)' = Open(u)
      BY <1>1, <2>4 DEF Admit, Open, FenceTypeOK
    <3>2. inflight'[u] = inflight[u]
      BY <1>1, <2>4 DEF Admit, Reserve, FenceTypeOK
    <3>3. QED
      BY <2>2, <3>1, <3>2
  <2>5. QED
    BY <2>3, <2>4
<1>2. ASSUME NEW c \in Cmd, NEW t \in Term, Refuse(c, t) PROVE ReservationsMatch'
  <2>1. \A u \in Term \ {0} : Open(u)' = Open(u)
    BY <1>2 DEF Refuse, Open, FenceTypeOK
  <2>2. QED
    BY <1>2, <2>1, SameOpen DEF Refuse
<1>3. ASSUME NEW c \in Cmd, Dispatch(c) PROVE ReservationsMatch'
  <2>1. \A u \in Term \ {0} : Open(u)' = Open(u)
    BY <1>3 DEF Dispatch, Open, FenceTypeOK
  <2>2. QED
    BY <1>3, <2>1, SameOpen DEF Dispatch
<1>4. ASSUME NEW c \in Cmd, DispatchFails(c) PROVE ReservationsMatch'
  BY <1>4, UnreserveMatches DEF DispatchFails, Phases
<1>5. ASSUME NEW c \in Cmd, Commit(c) PROVE ReservationsMatch'
  BY <1>5, UnreserveMatches DEF Commit, Phases
<1>6. ASSUME NEW c \in Cmd, ReleaseUnverified(c) PROVE ReservationsMatch'
  BY <1>6, UnreserveMatches DEF ReleaseUnverified, Phases
<1>7. ASSUME NEW c \in Cmd, Save(c) \/ SaveFails(c) PROVE ReservationsMatch'
  <2>1. phase[c] = "saving" /\ phase' = [phase EXCEPT ![c] = "done"]
        /\ term' = term /\ inflight' = inflight
    BY <1>7 DEF Save, SaveFails
  <2>2. \A u \in Term \ {0} : Open(u)' = Open(u)
    BY <2>1 DEF Open, FenceTypeOK
  <2>3. QED
    BY <2>1, <2>2, SameOpen
<1>8. CASE Crash
  <2>1. SUFFICES ASSUME NEW u \in Term \ {0}
                 PROVE  inflight'[u] = Cardinality(Open(u)')
    BY DEF ReservationsMatch
  <2>2. Open(u)' = {}
    BY <1>8 DEF Crash, Open, Orphaned
  <2>3. inflight'[u] = 0
    BY <1>8 DEF Crash
  <2>4. QED
    BY <2>2, <2>3, FS_EmptySet
<1>9. CASE Enroll \/ Damage \/ Boot \/ BootUnreadable
  <2>1. phase' = phase /\ term' = term /\ inflight' = inflight
    BY <1>9 DEF Enroll, Damage, Boot, BootUnreadable
  <2>2. QED
    BY <2>1, SameOpen DEF Open
<1>10. QED
  BY <1>0, <1>1, <1>2, <1>3, <1>4, <1>5, <1>6, <1>7, <1>8, <1>9 DEF FenceNext, CommandStep

(* inflightTerms holds exactly the commands being dispatched, in every     *)
(* interleaving of receive goroutines.                                     *)
THEOREM ReservationsExact == FenceSpec => []ReservationsMatch
<1>1. FenceInit => ReservationsMatch
  <2>1. SUFFICES ASSUME FenceInit, NEW t \in Term \ {0}
                 PROVE  inflight[t] = Cardinality(Open(t))
    BY DEF ReservationsMatch
  <2>2. Open(t) = {} /\ inflight[t] = 0
    BY <2>1 DEF FenceInit, Open
  <2>3. QED
    BY <2>2, FS_EmptySet
<1>2. FenceTypeOK /\ ReservationsMatch /\ [FenceNext]_fenceVars => ReservationsMatch'
  BY ReservationsStep
<1>3. QED
  BY <1>1, <1>2, FenceTypeCorrect, PTL DEF FenceSpec

-----------------------------------------------------------------------------
(* Authentication. *)

(* An accepted command stays accepted with its term, so a step that takes  *)
(* its marks from the old ones or from accepted commands is safe.          *)
LEMMA AcceptedStays ==
    ASSUME FenceTypeOK, [FenceNext]_fenceVars, NEW c \in Cmd, Accepted(c)
    PROVE  Accepted(c)' /\ term'[c] = term[c]
<1> USE DEF Accepted, FenceTypeOK, client, ratchet, history
<1>1. ASSUME NEW d \in Cmd, CommandStep(d) PROVE Accepted(c)' /\ term'[c] = term[c]
  BY <1>1 DEF CommandStep, Admit, Refuse, Dispatch, DispatchFails, Commit,
              ReleaseUnverified, Save, SaveFails
<1>2. CASE Crash
  BY <1>2 DEF Crash, Orphaned
<1>3. CASE Enroll \/ Damage \/ Boot \/ BootUnreadable
  BY <1>3 DEF Enroll, Damage, Boot, BootUnreadable
<1>4. CASE UNCHANGED fenceVars
  BY <1>4 DEF fenceVars
<1>5. QED
  BY <1>1, <1>2, <1>3, <1>4 DEF FenceNext

(* Where a step takes the mark, the mirror and the file from. *)
LEMMA MarksStep ==
    ASSUME FenceTypeOK, [FenceNext]_fenceVars, NEW t \in {mark', saved', file'.term}
    PROVE  t \in {0, mark, saved, file.term} \/ \E c \in Cmd : Accepted(c)' /\ term'[c] = t
<1> USE DEF client, ratchet, history
<1>1. ASSUME NEW c \in Cmd, Commit(c)
      PROVE  t \in {mark, saved, file.term} \/ (Accepted(c)' /\ term'[c] = t)
  BY <1>1 DEF Commit, Accepted, FenceTypeOK
<1>2. ASSUME NEW c \in Cmd, Save(c)
      PROVE  t \in {0, mark, saved, file.term} \/ (Accepted(c)' /\ term'[c] = t)
  BY <1>2 DEF Save, Accepted, FenceTypeOK, Reference, Written
<1>3. ASSUME NEW c \in Cmd, SaveFails(c)
      PROVE  t \in {0, mark, saved, file.term}
  BY <1>3 DEF SaveFails, Reference
<1>4. ASSUME NEW c \in Cmd, NEW u \in Term, Admit(c, u) \/ Refuse(c, u)
      PROVE  t \in {mark, saved, file.term}
  BY <1>4 DEF Admit, Refuse
<1>5. ASSUME NEW c \in Cmd, Dispatch(c) \/ DispatchFails(c) \/ ReleaseUnverified(c)
      PROVE  t \in {mark, saved, file.term}
  BY <1>5 DEF Dispatch, DispatchFails, ReleaseUnverified
<1>6. CASE Crash
  BY <1>6 DEF Crash
<1>7. CASE Enroll \/ Damage \/ Boot \/ BootUnreadable
  BY <1>7 DEF Enroll, Damage, Boot, BootUnreadable, Absent, Corrupt
<1>8. CASE UNCHANGED fenceVars
  BY <1>8 DEF fenceVars
<1>9. QED
  BY <1>1, <1>2, <1>3, <1>4, <1>5, <1>6, <1>7, <1>8 DEF FenceNext, CommandStep

(* Only the term of an authenticated command ever reaches the ratchet or   *)
(* its file, across crashes, failed saves and enrollments.                 *)
THEOREM OnlyAuthenticatedTermsCount == FenceSpec => []MarkIsAuthenticated
<1>1. FenceInit => MarkIsAuthenticated
  BY DEF FenceInit, MarkIsAuthenticated, Absent, Written
<1>2. FenceTypeOK /\ MarkIsAuthenticated /\ [FenceNext]_fenceVars => MarkIsAuthenticated'
  <2>1. SUFFICES ASSUME FenceTypeOK, MarkIsAuthenticated, [FenceNext]_fenceVars,
                        NEW t \in {mark', saved', file'.term} \ (Legacy \cup {0})
                 PROVE  \E c \in Cmd : Accepted(c)' /\ term'[c] = t
    BY DEF MarkIsAuthenticated
  <2>2. CASE t \in {mark, saved, file.term}
    <3>1. PICK c \in Cmd : Accepted(c) /\ term[c] = t
      BY <2>1, <2>2 DEF MarkIsAuthenticated
    <3>2. QED
      BY <2>1, <3>1, AcceptedStays
  <2>3. QED
    BY <2>1, <2>2, MarksStep
<1>3. QED
  BY <1>1, <1>2, FenceTypeCorrect, PTL DEF FenceSpec

-----------------------------------------------------------------------------
(* The file. *)

(* A seeded guard mirrors the file; a stopped steward has none. *)
Mirror == seeded => up /\ saved = file.term

(* Save's guard compares with what the file holds. *)
LEMMA ReferenceIsFile ==
    ASSUME ~RereadFails, Mirror, NEW readable \in Readable
    PROVE  Reference(readable) = file.term
BY DEF Readable, Reference, Mirror

(* So Save writes only what is at least as high. *)
LEMMA SaveRaises ==
    ASSUME FenceTypeOK, ~RereadFails, Mirror, NEW c \in Cmd, Save(c)
    PROVE  /\ file'.term >= file.term /\ file'.term >= term[c]
           /\ saved' = file'.term
<1>1. \A readable \in Readable : Reference(readable) = file.term
  BY ReferenceIsFile
<1>2. file.term \in Int /\ term[c] \in Int
  BY FenceConstants DEF FenceTypeOK, File, Absent, Corrupt, Written, Term
<1>3. CASE term[c] < file.term
  BY <1>1, <1>2, <1>3 DEF Save
<1>4. CASE ~(term[c] < file.term)
  BY <1>1, <1>2, <1>4 DEF Save, Written
<1>5. QED
  BY <1>3, <1>4

(* The mirror tracks the file, and a running steward never lowers it. *)
LEMMA FileStep ==
    ASSUME FenceTypeOK, ~RereadFails, Mirror, [FenceNext]_fenceVars
    PROVE  Mirror' /\ (up => file'.term >= file.term)
<1> USE DEF client, ratchet, history
<1>0. file.term \in Int
  BY FenceConstants DEF FenceTypeOK, File, Absent, Corrupt, Written, Term
<1>1. ASSUME NEW c \in Cmd, Save(c)
      PROVE  Mirror' /\ (up => file'.term >= file.term)
  BY <1>1, SaveRaises DEF Mirror, Save
<1>2. ASSUME NEW c \in Cmd, SaveFails(c)
      PROVE  Mirror' /\ (up => file'.term >= file.term)
  <2>1. saved' = file.term
    BY <1>2, ReferenceIsFile DEF SaveFails
  <2>2. QED
    BY <1>0, <1>2, <2>1 DEF SaveFails, Mirror
<1>3. ASSUME NEW c \in Cmd, NEW u \in Term, Admit(c, u) \/ Refuse(c, u)
      PROVE  Mirror' /\ (up => file'.term >= file.term)
  BY <1>0, <1>3 DEF Admit, Refuse, Mirror
<1>4. ASSUME NEW c \in Cmd,
             Dispatch(c) \/ DispatchFails(c) \/ ReleaseUnverified(c) \/ Commit(c)
      PROVE  Mirror' /\ (up => file'.term >= file.term)
  BY <1>0, <1>4 DEF Dispatch, DispatchFails, ReleaseUnverified, Commit, Mirror
<1>5. CASE Crash
  <2>1. seeded' = FALSE /\ file' = file
    BY <1>5, Zenon DEF Crash
  <2>2. QED
    BY <1>0, <2>1 DEF Mirror
<1>6. CASE Enroll \/ Damage
  BY <1>6 DEF Enroll, Damage, Mirror
<1>7. CASE Boot
  BY <1>7 DEF Boot, Mirror
<1>8. CASE BootUnreadable
  BY <1>8 DEF BootUnreadable, Mirror
<1>9. CASE UNCHANGED fenceVars
  BY <1>0, <1>9 DEF fenceVars, Mirror
<1>10. QED
  BY <1>1, <1>2, <1>3, <1>4, <1>5, <1>6, <1>7, <1>8, <1>9 DEF FenceNext, CommandStep

(* Mirror holds throughout. *)
LEMMA MirrorHolds == ASSUME ~RereadFails PROVE FenceSpec => []Mirror
<1>1. FenceInit => Mirror
  BY DEF FenceInit, Mirror, Absent, Written
<1>2. FenceTypeOK /\ Mirror /\ [FenceNext]_fenceVars => Mirror'
  BY FileStep
<1>3. QED
  BY <1>1, <1>2, FenceTypeCorrect, PTL DEF FenceSpec

(* The persisted term of a running steward never decreases, in whatever    *)
(* order the per-command goroutines reach Save and whichever writes fail,  *)
(* when the file can be read back.                                         *)
THEOREM FileMonotone == ASSUME ~RereadFails PROVE FenceSpec => FileNeverRegresses
<1>1. FenceTypeOK /\ Mirror /\ [FenceNext]_fenceVars
        => [up => file'.term >= file.term]_fenceVars
  BY FileStep
<1>2. QED
  BY <1>1, FenceTypeCorrect, MirrorHolds, PTL DEF FenceSpec, FileNeverRegresses

-----------------------------------------------------------------------------
(* Admission order. *)

(* order numbers the admitted commands: a new one gets the highest. *)
OrderInv ==
    /\ \A c \in Cmd : phase[c] = "new" => order[c] = 0
    /\ \A c \in Cmd : order[c] <= Cardinality(Admitted)

(* The command still counts against lower terms. *)
Counts(c) ==
    /\ phase[c] \in {"admitted", "dispatched", "saving", "done"}
    /\ kept[c] \in {"memory", "file"}

(* What keeps terms below c's out: the mark while the steward runs, and    *)
(* the file when it will start again.                                      *)
Held(c) ==
    /\ up /\ Counts(c) /\ Accepted(c) => term[c] <= mark
    /\ kept[c] = "file" =>
          phase[c] = "done" /\ (term[c] <= file.term \/ (~up /\ file.state = "corrupt"))
    /\ ~up => kept[c] # "memory"
    /\ kept[c] \in {"memory", "file"} => order[c] > 0
    /\ phase[c] \in {"admitted", "dispatched", "saving"} => kept[c] = "memory"

HeldByMark == \A c \in Cmd : Held(c)

NoneOvertaken == \A c, d \in Cmd : Counts(c) => ~Overtaken(c, d)

FenceInv == /\ FenceTypeOK /\ ReservationsMatch /\ Mirror
            /\ OrderInv /\ HeldByMark /\ NoneOvertaken

(* Steps other than Admit leave the numbering alone. *)
LEMMA OrderStep ==
    ASSUME FenceTypeOK, OrderInv, [FenceNext]_fenceVars
    PROVE  OrderInv'
<1> USE DEF client, ratchet, history
<1>1. ASSUME NEW c \in Cmd, NEW t \in Term, Admit(c, t) PROVE OrderInv'
  <2>1. IsFiniteSet(Admitted)
    BY FenceConstants, FS_Subset DEF Admitted
  <2>2. Cardinality(Admitted) \in Nat
    BY <2>1, FS_CardinalityType
  <2>3. order[c] = 0 /\ c \notin Admitted
    BY <1>1 DEF OrderInv, Admit, Admitted
  <2>4. Admitted' = Admitted \cup {c}
    <3>1. PICK n \in Nat \ {0} : n = Cardinality(Admitted) + 1
      BY <2>2
    <3>2. order' = [order EXCEPT ![c] = n]
      BY <1>1, <3>1 DEF Admit
    <3>3. QED
      BY <3>2 DEF Admitted, FenceTypeOK
  <2>5. Cardinality(Admitted') = Cardinality(Admitted) + 1
    BY <2>1, <2>3, <2>4, FS_AddElement
  <2>6. ASSUME NEW d \in Cmd PROVE order'[d] <= Cardinality(Admitted')
    <3>1. order'[d] = IF d = c THEN Cardinality(Admitted) + 1 ELSE order[d]
      BY <1>1 DEF Admit, FenceTypeOK
    <3>2. order[d] <= Cardinality(Admitted) /\ order[d] \in Nat
      BY DEF OrderInv, FenceTypeOK
    <3>3. QED
      BY <2>2, <2>5, <3>1, <3>2
  <2>7. ASSUME NEW d \in Cmd, phase'[d] = "new" PROVE order'[d] = 0
    BY <1>1, <2>7 DEF Admit, OrderInv, FenceTypeOK
  <2>8. QED
    BY <2>6, <2>7 DEF OrderInv
<1>2. ASSUME order' = order, \A d \in Cmd : phase'[d] = "new" => phase[d] = "new"
      PROVE  OrderInv'
  <2>1. Admitted' = Admitted
    BY <1>2 DEF Admitted
  <2>2. QED
    BY <1>2, <2>1 DEF OrderInv
<1>3. ASSUME NEW c \in Cmd, NEW t \in Term, Refuse(c, t) PROVE OrderInv'
  BY <1>2, <1>3 DEF Refuse, FenceTypeOK
<1>4. ASSUME NEW c \in Cmd,
             Dispatch(c) \/ DispatchFails(c) \/ ReleaseUnverified(c) \/ Commit(c)
      PROVE  OrderInv'
  BY <1>2, <1>4 DEF Dispatch, DispatchFails, ReleaseUnverified, Commit, FenceTypeOK
<1>5. ASSUME NEW c \in Cmd, Save(c) \/ SaveFails(c) PROVE OrderInv'
  <2>1. order' = order /\ phase' = [phase EXCEPT ![c] = "done"]
    BY <1>5 DEF Save, SaveFails
  <2>2. QED
    BY <1>2, <2>1 DEF FenceTypeOK
<1>6. CASE Crash
  BY <1>2, <1>6 DEF Crash, Orphaned
<1>7. CASE Enroll \/ Damage \/ Boot \/ BootUnreadable
  BY <1>2, <1>7 DEF Enroll, Damage, Boot, BootUnreadable
<1>8. CASE UNCHANGED fenceVars
  BY <1>2, <1>8 DEF fenceVars
<1>9. QED
  BY <1>1, <1>3, <1>4, <1>5, <1>6, <1>7, <1>8 DEF FenceNext, CommandStep

(* Every step keeps the mark, or the file behind it, at or above the       *)
(* accepted commands.                                                      *)
LEMMA HeldStep ==
    ASSUME ~RereadFails, FenceTypeOK, Mirror, OrderInv, HeldByMark, [FenceNext]_fenceVars
    PROVE  HeldByMark'
<1>0. file.term \in Int /\ file'.term \in Int /\ mark \in Nat
  <2>1. FenceTypeOK'
    BY FenceTypeStep
  <2>2. file \in File /\ file' \in File /\ mark \in Nat
    BY <2>1, FenceConstants DEF FenceTypeOK, Term
  <2>3. \A f \in File : f.term \in Int
    BY FenceConstants DEF File, Absent, Corrupt, Written, Term
  <2>4. QED
    BY <2>2, <2>3
<1> USE FenceConstants DEF HeldByMark, Held, Counts, Accepted, FenceTypeOK, Term, client, ratchet, history
<1>1. ASSUME NEW c \in Cmd, NEW t \in Term, Admit(c, t) PROVE HeldByMark'
  <2>1. Cardinality(Admitted) + 1 > 0
    BY FS_Subset, FS_CardinalityType DEF Admitted
  <2>2. order'[c] > 0 /\ kept'[c] = "memory" /\ phase'[c] = "admitted"
    BY <1>1, <2>1 DEF Admit
  <2>3. /\ \A d \in Cmd \ {c} : /\ order'[d] = order[d] /\ kept'[d] = kept[d]
                                /\ phase'[d] = phase[d] /\ term'[d] = term[d]
        /\ mark' = mark /\ file' = file /\ up' = up /\ up
    BY <1>1 DEF Admit
  <2>4. QED
    BY <2>2, <2>3
<1>2. ASSUME NEW c \in Cmd, NEW t \in Term, Refuse(c, t) PROVE HeldByMark'
  BY <1>2 DEF Refuse
<1>3. ASSUME NEW c \in Cmd, Dispatch(c) \/ DispatchFails(c) \/ ReleaseUnverified(c)
      PROVE  HeldByMark'
  BY <1>3 DEF Dispatch, DispatchFails, ReleaseUnverified
<1>4. ASSUME NEW c \in Cmd, Commit(c) PROVE HeldByMark'
  <2>1. /\ \A d \in Cmd \ {c} : phase'[d] = phase[d]
        /\ phase[c] = "dispatched" /\ phase'[c] \in {"saving", "done"}
        /\ term' = term /\ order' = order /\ kept' = kept /\ file' = file /\ up' = up /\ up
    BY <1>4 DEF Commit
  <2>2. mark' >= mark /\ mark' >= term[c] /\ mark' \in Nat
    BY <1>0, <1>4 DEF Commit
  <2>3. Held(c)'
    BY <1>0, <2>1, <2>2
  <2>4. ASSUME NEW d \in Cmd \ {c} PROVE Held(d)'
    BY <1>0, <2>1, <2>2
  <2>5. QED
    BY <2>3, <2>4
<1>5. ASSUME NEW c \in Cmd, Save(c) PROVE HeldByMark'
  <2>1. file'.term >= file.term /\ file'.term >= term[c]
    BY <1>5, SaveRaises
  <2>2. /\ \A d \in Cmd \ {c} : phase'[d] = phase[d] /\ kept'[d] = kept[d]
        /\ phase[c] = "saving" /\ phase'[c] = "done" /\ kept'[c] = "file"
        /\ mark' = mark /\ term' = term /\ order' = order /\ up' = up /\ up
    BY <1>5 DEF Save
  <2>3. term[c] <= mark /\ order[c] > 0
    BY <2>2
  <2>4. ASSUME NEW d \in Cmd \ {c} PROVE Held(d)'
    <3>1. Held(d) /\ term[d] \in Int
      OBVIOUS
    <3>2. term[d] <= file.term => term[d] <= file'.term
      BY <1>0, <2>1, <3>1
    <3>3. /\ phase'[d] = phase[d] /\ kept'[d] = kept[d] /\ term'[d] = term[d]
          /\ order'[d] = order[d]
      BY <2>2
    <3>4. QED
      BY <2>2, <3>1, <3>2, <3>3
  <2>5. Held(c)'
    BY <1>0, <2>1, <2>2, <2>3
  <2>6. QED
    BY <2>4, <2>5
<1>6. ASSUME NEW c \in Cmd, SaveFails(c) PROVE HeldByMark'
  BY <1>6 DEF SaveFails
<1>7. CASE Crash
  <2>1. /\ up' = FALSE /\ file' = file /\ term' = term /\ order' = order /\ up
    BY <1>7, Zenon DEF Crash
  <2>2. \A c \in Cmd : /\ kept'[c] = IF kept[c] = "memory" THEN "lost" ELSE kept[c]
                       /\ phase'[c] \notin {"admitted", "dispatched", "saving"}
                       /\ phase[c] = "done" => phase'[c] = "done"
    BY <1>7 DEF Crash, Orphaned
  <2>3. QED
    BY <2>1, <2>2
<1>8. CASE Enroll
  BY <1>8 DEF Enroll, Reset
<1>9. CASE Damage
  BY <1>9 DEF Damage, Corrupt
<1>10. CASE Boot
  BY <1>10 DEF Boot
<1>11. CASE BootUnreadable
  BY <1>11 DEF BootUnreadable, Reset
<1>12. CASE UNCHANGED fenceVars
  BY <1>12 DEF fenceVars
<1>13. QED
  BY <1>1, <1>2, <1>3, <1>4, <1>5, <1>6, <1>7, <1>8, <1>9, <1>10, <1>11, <1>12
     DEF FenceNext, CommandStep

(* A command that counts bars lower terms from the compare step. *)
LEMMA CountsBars ==
    ASSUME FenceTypeOK, ReservationsMatch, HeldByMark, up,
           NEW c \in Cmd, Counts(c), NEW t \in Term, Admits(t)
    PROVE  term[c] <= t
<1>0. term[c] \in Nat /\ t \in Nat /\ mark \in Nat /\ term[c] \in Term
  BY FenceConstants DEF FenceTypeOK, Term
<1>1. CASE term[c] = 0
  BY <1>0, <1>1
<1>2. CASE term[c] # 0 /\ phase[c] \in {"admitted", "dispatched"}
  <2>1. c \in Open(term[c])
    BY <1>2 DEF Open
  <2>2. Cardinality(Open(term[c])) # 0
    BY <2>1, OpenFinite, FS_EmptySet
  <2>3. inflight[term[c]] > 0
    <3>1. inflight[term[c]] = Cardinality(Open(term[c]))
      BY <1>0, <1>2 DEF ReservationsMatch
    <3>2. Cardinality(Open(term[c])) \in Nat
      BY OpenFinite
    <3>3. QED
      BY <2>2, <3>1, <3>2
  <2>4. QED
    BY <1>0, <1>2, <2>3 DEF Admits
<1>3. CASE Accepted(c)
  <2>1. term[c] <= mark
    BY <1>3 DEF HeldByMark, Held
  <2>2. mark <= t
    BY <1>0 DEF Admits
  <2>3. QED
    BY <1>0, <2>1, <2>2
<1>4. QED
  BY <1>1, <1>2, <1>3 DEF Counts, Accepted

(* A step that admits nothing makes no command count again and changes the *)
(* term of no admitted command.                                            *)
LEMMA OthersAdmitNone ==
    ASSUME FenceTypeOK, OrderInv, HeldByMark, [FenceNext]_fenceVars,
           \A c \in Cmd, t \in Term : ~Admit(c, t), NEW c \in Cmd
    PROVE  /\ order' = order
           /\ Counts(c)' => Counts(c)
           /\ order[c] > 0 => term'[c] = term[c]
<1> USE DEF Counts, FenceTypeOK, OrderInv, client, ratchet, history
<1> DEFINE Goal == /\ order' = order
                   /\ Counts(c)' => Counts(c)
                   /\ order[c] > 0 => term'[c] = term[c]
<1>1. ASSUME NEW d \in Cmd, NEW t \in Term, Refuse(d, t) PROVE Goal
  BY <1>1 DEF Refuse
<1>2. ASSUME NEW d \in Cmd,
             Dispatch(d) \/ DispatchFails(d) \/ ReleaseUnverified(d) \/ Commit(d)
      PROVE  Goal
  BY <1>2 DEF Dispatch, DispatchFails, ReleaseUnverified, Commit
<1>3. ASSUME NEW d \in Cmd, Save(d) \/ SaveFails(d) PROVE Goal
  <2>1. /\ order' = order /\ term' = term
        /\ phase[d] = "saving" /\ phase' = [phase EXCEPT ![d] = "done"]
        /\ kept' = kept \/ kept' = [kept EXCEPT ![d] = "file"]
    BY <1>3 DEF Save, SaveFails
  <2>2. kept[d] = "memory"
    BY <2>1 DEF HeldByMark, Held
  <2>3. QED
    BY <2>1, <2>2
<1>4. CASE Crash
  BY <1>4 DEF Crash, Orphaned, HeldByMark, Held
<1>5. CASE Enroll \/ Damage \/ Boot \/ BootUnreadable
  BY <1>5 DEF Enroll, Damage, Boot, BootUnreadable, Reset, HeldByMark, Held
<1>6. CASE UNCHANGED fenceVars
  BY <1>6 DEF fenceVars
<1>7. QED
  BY <1>1, <1>2, <1>3, <1>4, <1>5, <1>6 DEF FenceNext, CommandStep

(* No step lets a command in below one that counts. *)
LEMMA OvertakeStep ==
    ASSUME FenceInv, [FenceNext]_fenceVars
    PROVE  NoneOvertaken'
<1> USE DEF FenceInv
<1>1. SUFFICES ASSUME NEW c \in Cmd, NEW d \in Cmd, Counts(c)'
               PROVE  ~Overtaken(c, d)'
  BY DEF NoneOvertaken
<1>2. ASSUME NEW e \in Cmd, NEW t \in Term, Admit(e, t) PROVE ~Overtaken(c, d)'
  <2>1. Cardinality(Admitted) \in Nat
    BY FenceConstants, FS_Subset, FS_CardinalityType DEF Admitted
  <2>2. /\ order' = [order EXCEPT ![e] = Cardinality(Admitted) + 1]
        /\ term' = [term EXCEPT ![e] = t]
        /\ up /\ Admits(t)
    BY <1>2 DEF Admit
  <2>3. \A f \in Cmd : order[f] <= Cardinality(Admitted) /\ order[f] \in Nat
    BY DEF OrderInv, FenceTypeOK
  <2>4. CASE c = e
    <3>1. order'[c] = Cardinality(Admitted) + 1 /\ order'[d] <= Cardinality(Admitted) + 1
      BY <2>1, <2>2, <2>3, <2>4 DEF FenceTypeOK
    <3>2. order'[d] \in Nat
      BY <2>1, <2>2 DEF FenceTypeOK
    <3>3. QED
      BY <2>1, <3>1, <3>2 DEF Overtaken
  <2>5. CASE c # e /\ d = e
    <3>1. Counts(c)
      BY <1>1, <1>2, <2>5 DEF Admit, Counts, FenceTypeOK
    <3>2. term[c] <= t
      BY <2>2, <3>1, CountsBars
    <3>3. term'[c] = term[c] /\ term'[d] = t /\ term[c] \in Nat /\ t \in Nat
      BY <2>2, <2>5, FenceConstants DEF FenceTypeOK, Term
    <3>4. QED
      BY <3>2, <3>3 DEF Overtaken
  <2>6. CASE c # e /\ d # e
    <3>1. Counts(c)
      BY <1>1, <1>2, <2>6 DEF Admit, Counts, FenceTypeOK
    <3>2. order'[c] = order[c] /\ order'[d] = order[d] /\ term'[c] = term[c] /\ term'[d] = term[d]
      BY <2>2, <2>6 DEF FenceTypeOK
    <3>3. QED
      BY <3>1, <3>2 DEF NoneOvertaken, Overtaken
  <2>7. QED
    BY <2>4, <2>5, <2>6
<1>3. CASE \A e \in Cmd, t \in Term : ~Admit(e, t)
  <2>1. order' = order /\ Counts(c) /\ (order[c] > 0 => term'[c] = term[c])
    BY <1>1, <1>3, OthersAdmitNone
  <2>2. order[d] > 0 => term'[d] = term[d]
    BY <1>3, OthersAdmitNone
  <2>3. order[c] \in Nat /\ order[d] \in Nat
    BY DEF FenceTypeOK
  <2>4. QED
    BY <2>1, <2>2, <2>3 DEF NoneOvertaken, Overtaken
<1>4. QED
  BY <1>2, <1>3

(* FenceInv is inductive when the file can be read back. *)
LEMMA FenceInvariant == ASSUME ~RereadFails PROVE FenceSpec => []FenceInv
<1>1. FenceInit => HeldByMark /\ NoneOvertaken
  BY DEF FenceInit, HeldByMark, Held, Counts, Accepted, NoneOvertaken
<1>2. FenceInit => OrderInv
  <2>1. SUFFICES ASSUME FenceInit PROVE OrderInv
    OBVIOUS
  <2>2. Admitted = {}
    BY <2>1 DEF FenceInit, Admitted
  <2>3. Cardinality(Admitted) = 0
    BY <2>2, FS_EmptySet
  <2>4. QED
    BY <2>1, <2>3 DEF FenceInit, OrderInv
<1>3. FenceInv /\ [FenceNext]_fenceVars => OrderInv' /\ HeldByMark' /\ NoneOvertaken'
  BY OrderStep, HeldStep, OvertakeStep DEF FenceInv
<1>4. QED
  BY <1>1, <1>2, <1>3, FenceTypeCorrect, ReservationsExact, MirrorHolds, PTL
     DEF FenceSpec, FenceInv

(* Accepted commands bar every lower term admitted after them, for any     *)
(* number of concurrent receive goroutines, and through restarts once      *)
(* their Save completed.                                                   *)
THEOREM FenceOrdersAdmissions ==
    ASSUME ~RereadFails PROVE FenceSpec => []AdmissionsFollowTerms
<1>1. FenceInv => AdmissionsFollowTerms
  BY DEF FenceInv, NoneOvertaken, Counts, Accepted, AdmissionsFollowTerms
<1>2. QED
  BY <1>1, FenceInvariant, PTL
=============================================================================
