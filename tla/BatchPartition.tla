--------------------------- MODULE BatchPartition ---------------------------
(***************************************************************************)
(* How a rolling batch job splits its targets into batches: dedupeIDs,     *)
(* naivePartition and DnaRoleQuorumChecker.Partition.                      *)
(***************************************************************************)
EXTENDS Naturals, Sequences, SequencesExt

CONSTANTS
    NoID,    \* the empty steward ID
    NoRole   \* the cluster_role of a steward that has none, or no metadata

(* dedupeIDs: the first occurrence of every ID, in order. *)
DedupeIDs(ids) ==
    FoldLeft(LAMBDA out, id : IF id = NoID \/ Contains(out, id) THEN out ELSE Append(out, id),
             <<>>, ids)

(* A batch size that is not positive means one batch. *)
BatchSize(ids, size) == IF size <= 0 THEN Len(ids) ELSE size

NaivePartition(ids, size) ==
    LET n == BatchSize(ids, size)
    IN IF ids = <<>>
       THEN <<>>
       ELSE [i \in 1 .. ((Len(ids) + n - 1) \div n) |->
                SubSeq(ids, (i - 1) * n + 1, IF i * n < Len(ids) THEN i * n ELSE Len(ids))]

(* The state of the loop of Partition: the batches made, the one that is   *)
(* being filled, and the plain stewards that are left.                     *)
FillWithPlain(w, n) ==
    LET k == IF Len(w.current) >= n THEN 0
             ELSE IF n - Len(w.current) < Len(w.plain)
                  THEN n - Len(w.current) ELSE Len(w.plain)
    IN [w EXCEPT !.current = @ \o SubSeq(w.plain, 1, k),
                 !.plain = SubSeq(@, k + 1, Len(@))]

Flush(w, n) ==
    LET f == FillWithPlain(w, n)
    IN [f EXCEPT !.batches = Append(@, f.current), !.current = <<>>]

Place(w, id, n) ==
    LET v == IF Len(w.current) >= n THEN Flush(w, n) ELSE w
    IN [v EXCEPT !.current = Append(@, id)]

Partition(ids, role, size) ==
    LET n == BatchSize(ids, size)
        Group(r) == SelectSeq(ids, LAMBDA id : role[id] = r)
        groupOrder == SelectSeq(DedupeIDs([i \in DOMAIN ids |-> role[ids[i]]]),
                                LAMBDA r : r # NoRole)
        \* the k-th round takes the k-th member of every group that has one
        Round(k) == LET rs == SelectSeq(groupOrder, LAMBDA r : k <= Len(Group(r)))
                    IN [i \in DOMAIN rs |-> Group(rs[i])[k]]
        rounds == SelectSeq([k \in 1 .. Len(ids) |-> Round(k)], LAMBDA m : m # <<>>)
        RunRound(w, members) == Flush(FoldLeft(LAMBDA v, id : Place(v, id, n), w, members), n)
        done == FoldLeft(RunRound, [batches |-> <<>>, current |-> <<>>, plain |-> Group(NoRole)],
                         rounds)
    IN done.batches \o NaivePartition(done.plain, n)

-----------------------------------------------------------------------------
(* The reference: what a partition of targets into batches has to be.      *)

(* Every target is in exactly one batch, once, and nobody else is. *)
CoversOnce(batches, ids) ==
    LET all == FlattenSeq(batches)
    IN /\ ToSet(all) = ToSet(ids) \ {NoID}
       /\ Len(all) = Len(DedupeIDs(ids))

WithinSize(batches, size) ==
    \A i \in DOMAIN batches : batches[i] # <<>> /\ (size > 0 => Len(batches[i]) <= size)

RolesApart(batches, role) ==
    \A i \in DOMAIN batches : \A j, k \in DOMAIN batches[i] :
        j # k => \/ role[batches[i][j]] = NoRole
                 \/ role[batches[i][j]] # role[batches[i][k]]
=============================================================================
