---------------------------- MODULE CommandFence ----------------------------
(***************************************************************************)
(* The steward's term fence: TransportClient.receiveCommand with the       *)
(* in-memory ratchet, and the FenceRatchet file behind it.  Inbound        *)
(* commands run one goroutine each, so every command is a process: it      *)
(* passes the compare step, is dispatched (HandleCommand authenticates it  *)
(* and starts it), moves the ratchet, and saves the file.                  *)
(*                                                                         *)
(* Term 0 is an unstamped command.  A mark of 0 is an unset ratchet: the   *)
(* code keeps a flag for that, and commitTermFence sets it only with a     *)
(* positive term.                                                          *)
(***************************************************************************)
EXTENDS Commands, Integers, FiniteSets

CONSTANTS
    MaxTerm,      \* bound: highest term a controller stamps
    Legacy,       \* ratchets an earlier version may have left on disk
    RereadFails   \* may Save fail to read back the ratchet file?

ASSUME FenceConstants ==
    /\ IsFiniteSet(Cmd)
    /\ MaxTerm \in Nat
    /\ Legacy \subseteq 0 .. MaxTerm
    /\ RereadFails \in BOOLEAN

Term == 0 .. MaxTerm

VARIABLES
    phase,     \* phase[c]: where the goroutine of command c is
    term,      \* term[c]: the term c was stamped with
    mark,      \* termRatchetSet and highestTermSeen
    inflight,  \* inflightTerms: admitted, unfinished commands per term
    file,      \* fence_ratchet.json: its state and its term
    saved,     \* FenceRatchet.savedSet and savedTerm
    seeded,    \* FenceRatchet.seeded
    up,        \* is the steward process running?
    order,     \* history: order[c] = n when c was the n-th command admitted
    kept       \* history: where the fence remembers the command, if anywhere

client == <<phase, term, mark, inflight>>
ratchet == <<file, saved, seeded>>
history == <<order, kept>>
fenceVars == <<client, ratchet, up, history>>

Absent == [state |-> "absent", term |-> 0]
Corrupt == [state |-> "corrupt", term |-> 0]
Written(t) == [state |-> "ok", term |-> t]

Admitted == {c \in Cmd : order[c] > 0}

(* The client is built over the ratchet file it finds. *)
FenceInit ==
    /\ phase = [c \in Cmd |-> "new"]
    /\ term = [c \in Cmd |-> 0]
    /\ mark \in Legacy
    /\ inflight = [t \in Term |-> 0]
    /\ file = IF mark = 0 THEN Absent ELSE Written(mark)
    /\ saved = mark
    /\ seeded = TRUE
    /\ up = TRUE
    /\ order = [c \in Cmd |-> 0]
    /\ kept = [c \in Cmd |-> "no"]

-----------------------------------------------------------------------------
(* receiveCommand, one step per critical section of c.mu. *)

(* Fault: the compare step looks at the committed ratchet alone. *)
AdmitsByMark(t) == IF t = 0 THEN mark = 0 ELSE mark <= t

(* Fault: a second command of the current term is taken for a stale one. *)
AdmitsHigher(t) ==
    \A m \in {mark} \cup {u \in Term : inflight[u] > 0} : m < t \/ (m = 0 /\ t = 0)

(* checkTermFence's verdict: the mark is the ratchet raised by every term  *)
(* in flight, and an unstamped command passes only while nothing is set.   *)
Admits(t) ==
    LET marks == {mark} \cup {u \in Term : inflight[u] > 0}
    IN  IF t = 0 THEN marks = {0} ELSE \A m \in marks : m <= t

(* checkTermFence counts an admitted stamped command under the same lock. *)
Reserve(t) == IF t = 0 THEN inflight ELSE [inflight EXCEPT ![t] = @ + 1]

(* releaseInflightLocked: the last command of a term removes its entry. *)
Unreserve(t) ==
    IF t = 0 THEN inflight
             ELSE [inflight EXCEPT ![t] = IF @ > 1 THEN @ - 1 ELSE 0]

(* Fault: the ratchet moves before the command is authenticated. *)
AdmitRaising(c, t) ==
    /\ up /\ phase[c] = "new"
    /\ Admits(t)
    /\ inflight' = Reserve(t)
    /\ phase' = [phase EXCEPT ![c] = "admitted"]
    /\ term' = [term EXCEPT ![c] = t]
    /\ order' = [order EXCEPT ![c] = Cardinality(Admitted) + 1]
    /\ kept' = [kept EXCEPT ![c] = "memory"]
    /\ mark' = t
    /\ UNCHANGED <<ratchet, up>>

Admit(c, t) ==
    /\ up /\ phase[c] = "new"
    /\ Admits(t)
    /\ inflight' = Reserve(t)
    /\ phase' = [phase EXCEPT ![c] = "admitted"]
    /\ term' = [term EXCEPT ![c] = t]
    /\ order' = [order EXCEPT ![c] = Cardinality(Admitted) + 1]
    /\ kept' = [kept EXCEPT ![c] = "memory"]
    /\ UNCHANGED <<mark, ratchet, up>>

(* A fenced command is reported to the controller and never dispatched. *)
Refuse(c, t) ==
    /\ up /\ phase[c] = "new"
    /\ ~Admits(t)
    /\ phase' = [phase EXCEPT ![c] = "refused"]
    /\ term' = [term EXCEPT ![c] = t]
    /\ UNCHANGED <<mark, inflight, ratchet, up, history>>

(* HandleCommand returned nil: the command is authenticated and started. *)
Dispatch(c) ==
    /\ up /\ phase[c] = "admitted"
    /\ phase' = [phase EXCEPT ![c] = "dispatched"]
    /\ UNCHANGED <<term, mark, inflight, ratchet, up, history>>

(* Fault: the error path leaks the reservation. *)
DispatchLeaks(c) ==
    /\ up /\ phase[c] = "admitted"
    /\ phase' = [phase EXCEPT ![c] = "refused"]
    /\ UNCHANGED <<inflight, term, mark, ratchet, up, history>>

(* HandleCommand returned an error: releaseTermFence. *)
DispatchFails(c) ==
    /\ up /\ phase[c] = "admitted"
    /\ phase' = [phase EXCEPT ![c] = "refused"]
    /\ inflight' = Unreserve(term[c])
    /\ UNCHANGED <<term, mark, ratchet, up, history>>

(* commitTermFence: drop the reservation and raise the ratchet, unless the *)
(* command is unstamped or a concurrent one already moved it further.      *)
Commit(c) ==
    /\ up /\ phase[c] = "dispatched"
    /\ inflight' = Unreserve(term[c])
    /\ IF term[c] = 0 \/ term[c] < mark
       THEN /\ phase' = [phase EXCEPT ![c] = "done"]
            /\ UNCHANGED mark
       ELSE /\ phase' = [phase EXCEPT ![c] = "saving"]
            /\ mark' = term[c]
    /\ UNCHANGED <<term, ratchet, up, history>>

(* commandsSignatureVerified is false (report-only link, or a handler      *)
(* without a verifier): the command runs but may not move the ratchet.     *)
ReleaseUnverified(c) ==
    /\ up /\ phase[c] = "dispatched"
    /\ phase' = [phase EXCEPT ![c] = "ran"]
    /\ inflight' = Unreserve(term[c])
    /\ UNCHANGED <<term, mark, ratchet, up, history>>

-----------------------------------------------------------------------------
(* FenceRatchet.Save, serialised by its own mutex. *)

(* Fault: a guard that is not seeded is never read back from the file. *)
ReferenceInMemory(readable) == IF seeded THEN saved ELSE 0

(* The reference of the monotonic guard, read from the file when the guard *)
(* is not seeded; a file that cannot be read counts as no mark at all.     *)
Reference(readable) ==
    IF seeded THEN saved ELSE IF readable THEN file.term ELSE 0

Readable == {TRUE} \cup {~RereadFails}

(* Save's file is written, or a higher term is stored already.  A failed   *)
(* sync of the directory after the rename leaves the same state behind.    *)
Save(c) ==
    /\ up /\ phase[c] = "saving"
    /\ \E readable \in Readable :
         IF term[c] < Reference(readable)
         THEN saved' = Reference(readable) /\ UNCHANGED file
         ELSE saved' = term[c] /\ file' = Written(term[c])
    /\ seeded' = TRUE
    /\ phase' = [phase EXCEPT ![c] = "done"]
    /\ kept' = [kept EXCEPT ![c] = "file"]
    /\ UNCHANGED <<term, mark, inflight, up, order>>

(* writeLocked fails before the rename: the error is logged, the file is   *)
(* as it was, and the in-memory ratchet stays in force.                    *)
SaveFails(c) ==
    /\ up /\ phase[c] = "saving"
    /\ \E readable \in Readable :
         /\ term[c] >= Reference(readable)
         /\ saved' = Reference(readable)
    /\ seeded' = TRUE
    /\ phase' = [phase EXCEPT ![c] = "done"]
    /\ UNCHANGED <<term, mark, inflight, file, up, history>>

-----------------------------------------------------------------------------
(* Lifecycle of the process and of the file. *)

(* What a command whose goroutine died with the process has come to. *)
Orphaned(p) ==
    IF p = "admitted" THEN "refused"
    ELSE IF p = "dispatched" THEN "ran"
    ELSE IF p = "saving" THEN "done" ELSE p

(* The process stops at any point; what was only in memory is gone. *)
Crash ==
    /\ up
    /\ up' = FALSE
    /\ phase' = [c \in Cmd |-> Orphaned(phase[c])]
    /\ mark' = 0
    /\ inflight' = [t \in Term |-> 0]
    /\ saved' = 0
    /\ seeded' = FALSE
    /\ kept' = [c \in Cmd |-> IF kept[c] = "memory" THEN "lost" ELSE kept[c]]
    /\ UNCHANGED <<term, file, order>>

(* The fence was opened on purpose or because its file was unreadable. *)
Reset == [c \in Cmd |-> IF order[c] > 0 THEN "reset" ELSE kept[c]]

(* A verified enrollment clears the ratchet (ClearRatchet); the transport  *)
(* client that will use it is built afterwards.                            *)
Enroll ==
    /\ ~up
    /\ file' = Absent
    /\ kept' = Reset
    /\ UNCHANGED <<client, saved, seeded, up, order>>

(* The file is damaged by something outside the steward. *)
Damage ==
    /\ ~up /\ file.state = "ok"
    /\ file' = Corrupt
    /\ UNCHANGED <<client, saved, seeded, up, history>>

(* Fault: the client seeds the guard and forgets the in-memory mark. *)
BootUnset ==
    /\ ~up /\ file.state # "corrupt"
    /\ up' = TRUE
    /\ mark' = 0
    /\ saved' = file.term
    /\ seeded' = TRUE
    /\ UNCHANGED <<phase, term, inflight, file, history>>

(* NewTransportClient loads the ratchet. *)
Boot ==
    /\ ~up /\ file.state # "corrupt"
    /\ up' = TRUE
    /\ mark' = file.term
    /\ saved' = file.term
    /\ seeded' = TRUE
    /\ UNCHANGED <<phase, term, inflight, file, history>>

(* Load returned an error: the client starts with the ratchet unset and    *)
(* leaves Save's guard to be seeded later.                                 *)
BootUnreadable ==
    /\ ~up /\ file.state # "absent"
    /\ up' = TRUE
    /\ kept' = Reset
    /\ UNCHANGED <<client, ratchet, order>>

CommandStep(c) ==
    \/ \E t \in Term : Admit(c, t) \/ Refuse(c, t)
    \/ Dispatch(c) \/ DispatchFails(c)
    \/ Commit(c) \/ ReleaseUnverified(c)
    \/ Save(c) \/ SaveFails(c)

FenceNext ==
    \/ \E c \in Cmd : CommandStep(c)
    \/ Crash \/ Enroll \/ Damage \/ Boot \/ BootUnreadable

FenceSpec == FenceInit /\ [][FenceNext]_fenceVars

-----------------------------------------------------------------------------
Phases == {"new", "admitted", "dispatched", "saving", "done", "ran", "refused"}

File == {Absent, Corrupt} \cup {Written(t) : t \in Term}

(* The type of the steward's fence state (TransportClient and              *)
(* FenceRatchet fields) and of the histories.                              *)
FenceTypeOK ==
    /\ phase \in [Cmd -> Phases]
    /\ term \in [Cmd -> Term]
    /\ mark \in Term
    /\ inflight \in [Term -> Nat]
    /\ file \in File
    /\ saved \in Term
    /\ seeded \in BOOLEAN
    /\ up \in BOOLEAN
    /\ order \in [Cmd -> Nat]
    /\ kept \in [Cmd -> {"no", "memory", "lost", "file", "reset"}]

(* The command passed authentication and its term counts: it moved the     *)
(* ratchet, or found it already higher.                                    *)
Accepted(c) == phase[c] \in {"saving", "done"}

(* d was let in although c, admitted before it, carries a higher term. *)
Overtaken(c, d) == 0 < order[c] /\ order[c] < order[d] /\ term[d] < term[c]

(* Once a command is accepted, no command admitted after it carries a      *)
(* lower term, as long as the fence remembers it in memory or in the file: *)
(* the compare and the commit of receiveCommand are not raced apart, and a *)
(* completed Save carries the mark over a restart.                         *)
AdmissionsFollowTerms ==
    \A c, d \in Cmd :
        Accepted(c) /\ kept[c] \in {"memory", "file"} => ~Overtaken(c, d)

(* The ratchet and its file only ever hold the term of a command that      *)
(* authenticated: a command rejected by HandleCommand, or run without a    *)
(* verifier, never moves them.                                             *)
MarkIsAuthenticated ==
    \A t \in {mark, saved, file.term} \ (Legacy \cup {0}) :
        \E c \in Cmd : Accepted(c) /\ term[c] = t

Open(t) == {c \in Cmd : phase[c] \in {"admitted", "dispatched"} /\ term[c] = t}

(* inflightTerms counts exactly the admitted commands whose dispatch has   *)
(* not finished: a leaked reservation would fence out lower terms for the  *)
(* life of the process, a lost one would let them in.                      *)
ReservationsMatch ==
    \A t \in Term \ {0} : inflight[t] = Cardinality(Open(t))

(* Concurrent Saves in any order, retries after a failed write and a       *)
(* late-seeded guard never lower the persisted term of a running steward.  *)
FileNeverRegresses == [][up => file'.term >= file.term]_fenceVars

(* A steward restart does not let in a term below one the steward had      *)
(* accepted, saved or not, unless the fence was reset.                     *)
AcceptedTermsSurvive ==
    \A c, d \in Cmd :
        Accepted(c) /\ kept[c] \in {"memory", "file", "lost"} => ~Overtaken(c, d)
=============================================================================
