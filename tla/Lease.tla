-------------------------------- MODULE Lease --------------------------------
(***************************************************************************)
(* The fenced database lease: one row of cfgms_leases and, on every        *)
(* controller node, the pkg/lease Manager that caches the authority the    *)
(* row granted.  A single lease name is modelled; a node's ID is its       *)
(* holder ID.                                                              *)
(*                                                                         *)
(* A client call is split where the code can be interrupted: it is issued  *)
(* (callStart is read), its SQL transaction starts (the value of now() is  *)
(* fixed), its upsert takes effect under the row lock, and its answer is   *)
(* handled.  A call whose context ends is abandoned: the client sees an    *)
(* error and the statement may still take effect later.                    *)
(*                                                                         *)
(* Time: `now' advances the store's clock and every node's monotonic clock *)
(* at one rate.  Clock offsets do not matter (the code never compares two  *)
(* clocks); a host whose monotonic clock stops (suspend) is outside the    *)
(* model.                                                                  *)
(***************************************************************************)
EXTENDS Integers, FiniteSets

CONSTANTS
    Node,               \* controller nodes contending for the lease
    NoNode,             \* holder of the row before the first acquisition
    LeaseTTL,           \* Manager.leaseTTL
    RenewalInterval,    \* Manager.renewalInterval
    MaxRenewalLatency,  \* Manager.maxAllowedRenewalLatency
    MaxStall,           \* longest gap from a transaction's now() to its upsert
    Releasing,          \* does any client call Manager.Release?
    MaxTime,            \* bound: last instant of the clock
    MaxToken,           \* bound: last token the store may issue
    MaxLate             \* bound: abandoned statements still at the store

(* NewManagerWithClock refuses a margin that is not strictly positive. *)
SafetyMargin == LeaseTTL - RenewalInterval - MaxRenewalLatency

ASSUME LeaseConstants ==
    /\ NoNode \notin Node
    /\ LeaseTTL \in Nat /\ RenewalInterval \in Nat /\ MaxRenewalLatency \in Nat
    /\ SafetyMargin > 0
    /\ MaxStall \in Nat
    /\ Releasing \in BOOLEAN
    /\ MaxTime \in Nat /\ MaxToken \in Nat /\ MaxLate \in Nat

VARIABLES
    now,      \* the clock
    row,      \* the lease row: holder_id, token, expires_at
    cached,   \* cached[n]: Manager.cached for the lease on node n
    call,     \* call[n]: the store call node n is waiting for
    late,     \* abandoned statements that have not taken effect yet
    granted   \* history: every <<token, holder>> the store ever granted

leaseVars == <<now, row, cached, call, late, granted>>

(* An absent cache entry, an idle client, and the epoch Release writes. *)
NoAuthority == [token |-> 0, at |-> 0]
Idle == [op |-> "none", phase |-> "idle", start |-> 0, stamp |-> 0,
         token |-> 0, got |-> 0]
Epoch == -1

(* A row that was never written: any caller finds it expired, and the      *)
(* first acquisition gets token 0 + 1, the literal 1 of the INSERT.        *)
NoRow == [holder |-> NoNode, token |-> 0, expiresAt |-> Epoch]

-----------------------------------------------------------------------------
(* The store: one upsert, evaluated with the transaction's now().          *)

(* Fault: the upsert lost its WHERE clause. *)
TakeAlways(n, stamp) == TRUE

(* The WHERE clause of the upsert. *)
MayTake(n, stamp) == row.expiresAt < stamp \/ row.holder = n

(* The CASE expression: only an unexpired holder keeps its token. *)
TokenFor(n, stamp) ==
    IF row.holder = n /\ row.expiresAt >= stamp THEN row.token ELSE row.token + 1

(* AcquireOrRenew's effect on the row; a contended call changes nothing. *)
Upsert(n, stamp) ==
    IF MayTake(n, stamp)
    THEN /\ TokenFor(n, stamp) <= MaxToken
         /\ row' = [holder |-> n, token |-> TokenFor(n, stamp),
                    expiresAt |-> stamp + LeaseTTL]
         /\ granted' = granted \cup {<<TokenFor(n, stamp), n>>}
    ELSE UNCHANGED <<row, granted>>

(* Fault: Release deletes the row, and the token's high-water mark with it. *)
DeleteRow(n, token) ==
    /\ row' = IF row.holder = n /\ row.token = token THEN NoRow ELSE row
    /\ UNCHANGED granted

(* Release's UPDATE: force-expire, keep the token, ignore a mismatch. *)
ForceExpire(n, token) ==
    /\ row' = IF row.holder = n /\ row.token = token
              THEN [row EXCEPT !.expiresAt = Epoch] ELSE row
    /\ UNCHANGED granted

-----------------------------------------------------------------------------
(* The Manager's local-authority cache. *)

HasEntry(n) == cached[n] # NoAuthority

(* HasLocalAuthority: the admission check, no store read. *)
HasLocalAuthority(n) == HasEntry(n) /\ now - cached[n].at < SafetyMargin

(* LocalAuthorityDeadline, for a node that has an entry. *)
LocalAuthorityDeadline(n) == cached[n].at + SafetyMargin

(* Fault: the window is anchored at the instant the call returned. *)
RecordAtReturn(n, token, callStart) ==
    cached' = [cached EXCEPT ![n] = [token |-> token, at |-> now]]

(* recordLocalAuthority anchors the window at the instant before the call. *)
RecordLocalAuthority(n, token, callStart) ==
    cached' = [cached EXCEPT ![n] = [token |-> token, at |-> callStart]]

(* Fault: invalidation backdates the entry and keeps its token. *)
BackdateLocalAuthority(n) == cached' = [cached EXCEPT ![n].at = Epoch]

InvalidateLocalAuthority(n) == cached' = [cached EXCEPT ![n] = NoAuthority]

-----------------------------------------------------------------------------
LeaseInit ==
    /\ now = 0
    /\ row = NoRow
    /\ cached = [n \in Node |-> NoAuthority]
    /\ call = [n \in Node |-> Idle]
    /\ late = {}
    /\ granted = {}

(* A transaction never outlives MaxStall before its upsert is applied. *)
Stalled(c) == c.phase = "begun" /\ now - c.stamp >= MaxStall

Tick ==
    /\ now < MaxTime
    /\ \A n \in Node : ~Stalled(call[n])
    /\ \A s \in late : ~Stalled(s.call)
    /\ now' = now + 1
    /\ UNCHANGED <<row, cached, call, late, granted>>

(* A client issues a store call; callStart is read first. *)
Issue(n, op, token) ==
    /\ call[n] = Idle
    /\ call' = [call EXCEPT ![n] = [op |-> op, phase |-> "issued", start |-> now,
                                    stamp |-> 0, token |-> token, got |-> 0]]

TryAcquire(n) ==
    /\ Issue(n, "acquire", 0)
    /\ UNCHANGED <<now, row, cached, late, granted>>

(* Renew is only called by a client that was handed the cached token. *)
Renew(n) ==
    /\ HasEntry(n)
    /\ Issue(n, "renew", cached[n].token)
    /\ UNCHANGED <<now, row, cached, late, granted>>

(* Release drops the cache entry first and only then calls the store. *)
Release(n) ==
    /\ Releasing
    /\ HasEntry(n)
    /\ Issue(n, "release", cached[n].token)
    /\ InvalidateLocalAuthority(n)
    /\ UNCHANGED <<now, row, late, granted>>

(* The server starts a statement's transaction: now() is fixed here. *)
Started(c) == [c EXCEPT !.phase = "begun", !.stamp = now]

Begin(n) ==
    /\ call[n].phase = "issued"
    /\ call' = [call EXCEPT ![n] = Started(@)]
    /\ UNCHANGED <<now, row, cached, late, granted>>

(* A statement of node n takes effect on the row. *)
Effect(n, c) ==
    IF c.op = "release" THEN ForceExpire(n, c.token) ELSE Upsert(n, c.stamp)

(* The result the store hands back for it. *)
Answer(n, c) ==
    IF c.op = "release" THEN [c EXCEPT !.phase = "done"]
    ELSE IF MayTake(n, c.stamp)
         THEN [c EXCEPT !.phase = "granted", !.got = TokenFor(n, c.stamp)]
         ELSE [c EXCEPT !.phase = "contended"]

(* The statement of a waiting client takes effect; its result is ready. *)
Apply(n) ==
    /\ call[n].phase = "begun"
    /\ Effect(n, call[n])
    /\ call' = [call EXCEPT ![n] = Answer(n, call[n])]
    /\ UNCHANGED <<now, cached, late>>

(* Fault: a renewal is recorded whatever token it came back with. *)
HandleAnyToken(n) ==
    \/ /\ call[n].phase = "granted"
       /\ RecordLocalAuthority(n, call[n].got, call[n].start)
    \/ /\ call[n].phase = "contended"
       /\ InvalidateLocalAuthority(n)

(* What the Manager does with the answer.  A contended call drops the      *)
(* cache entry; so does a renewal that came back with another token.       *)
HandleAnswer(n) ==
    LET c == call[n] IN
    \/ /\ c.phase = "granted" /\ (c.op = "acquire" \/ c.got = c.token)
       /\ RecordLocalAuthority(n, c.got, c.start)
    \/ /\ c.phase = "granted" /\ c.op = "renew" /\ c.got # c.token
       /\ InvalidateLocalAuthority(n)
    \/ /\ c.phase = "contended"
       /\ InvalidateLocalAuthority(n)
    \/ /\ c.phase = "done"
       /\ UNCHANGED cached

Return(n) ==
    /\ HandleAnswer(n)
    /\ call' = [call EXCEPT ![n] = Idle]
    /\ UNCHANGED <<now, row, late, granted>>

(* The statement of a call nobody waits for any more: it may still be at   *)
(* the store, or it is gone.  The store cannot tell a renewal from an      *)
(* acquisition.                                                            *)
Statement(c) ==
    IF c.op = "release" THEN [c EXCEPT !.start = 0]
    ELSE [c EXCEPT !.op = "acquire", !.start = 0, !.token = 0]

LeaveBehind(n) ==
    \/ /\ call[n].phase \in {"issued", "begun"}
       /\ Cardinality(late) < MaxLate
       /\ late' = late \cup {[node |-> n, call |-> Statement(call[n])]}
    \/ UNCHANGED late

(* The store call fails or its context ends: the Manager returns the error *)
(* and leaves the cache as it is.                                          *)
Abandon(n) ==
    /\ call[n] # Idle
    /\ LeaveBehind(n)
    /\ call' = [call EXCEPT ![n] = Idle]
    /\ UNCHANGED <<now, row, cached, granted>>

LateBegin(s) ==
    /\ s.call.phase = "issued"
    /\ late' = (late \ {s}) \cup {[s EXCEPT !.call = Started(@)]}
    /\ UNCHANGED <<now, row, cached, call, granted>>

LateApply(s) ==
    /\ s.call.phase = "begun"
    /\ Effect(s.node, s.call)
    /\ late' = late \ {s}
    /\ UNCHANGED <<now, cached, call>>

LateDrop(s) ==
    /\ late' = late \ {s}
    /\ UNCHANGED <<now, row, cached, call, granted>>

(* The process dies and comes back with an empty cache, at once or, if the *)
(* node then takes no step for a while, later.                             *)
CrashRestart(n) ==
    /\ LeaveBehind(n)
    /\ InvalidateLocalAuthority(n)
    /\ call' = [call EXCEPT ![n] = Idle]
    /\ UNCHANGED <<now, row, granted>>

LeaseNext ==
    \/ Tick
    \/ \E n \in Node : TryAcquire(n) \/ Renew(n) \/ Release(n) \/ Begin(n)
                       \/ Apply(n) \/ Return(n) \/ Abandon(n) \/ CrashRestart(n)
    \/ \E s \in late : LateBegin(s) \/ LateApply(s) \/ LateDrop(s)

LeaseSpec == LeaseInit /\ [][LeaseNext]_leaseVars

-----------------------------------------------------------------------------
(* Properties.                                                             *)

Phase == {"idle", "issued", "begun", "granted", "contended", "done"}
Call == [op : {"none", "acquire", "renew", "release"}, phase : Phase,
         start : Nat, stamp : Nat, token : Nat, got : Nat]

(* Every variable has its type: the row's token is a counter, a cache      *)
(* entry pairs a token with an instant, late statements are unapplied.     *)
LeaseTypeOK ==
    /\ now \in Nat
    /\ row \in [holder : Node \cup {NoNode}, token : Nat, expiresAt : Int]
    /\ cached \in [Node -> [token : Nat, at : Nat]]
    /\ call \in [Node -> Call]
    /\ late \subseteq [node : Node, call : Call]
    /\ granted \subseteq Nat \X Node

(* pkg/lease's split-brain bound: at no instant do two nodes both pass     *)
(* HasLocalAuthority, however slow, lost or reordered their store calls    *)
(* were.                                                                   *)
AtMostOneAuthority ==
    \A m, n \in Node : HasLocalAuthority(m) /\ HasLocalAuthority(n) => m = n

(* A node that passes HasLocalAuthority is the holder the row names, with  *)
(* the token it cached, and the row has not expired: the cache lapses      *)
(* before another holder can take the row (LocalAuthorityDeadline).        *)
AuthorityIsBacked ==
    \A n \in Node : HasLocalAuthority(n) =>
        /\ row.holder = n
        /\ row.token = cached[n].token
        /\ now <= row.expiresAt

(* A fencing token is never reused: the store never grants one token to    *)
(* two holders, and no grant is above the row's token, which Release and   *)
(* takeover keep as the high-water mark.                                   *)
TokensAreNeverShared ==
    /\ \A g, h \in granted : g[1] = h[1] => g[2] = h[2]
    /\ \A g \in granted : g[1] <= row.token

(* The row's token never falls, and the row changes hands only under a     *)
(* strictly higher one, even when Release force-expired it or a statement  *)
(* of a forgotten call takes effect late.                                  *)
TakeoverRaisesToken ==
    [][ /\ row'.token >= row.token
        /\ row'.holder # row.holder => row'.token > row.token ]_leaseVars

(* Seen through the row and the set of nodes that pass HasLocalAuthority,  *)
(* every behaviour of the lease is one of LeaseAuthority: a node leads     *)
(* only as the row's holder and ownership never moves under a leader.      *)
Authority == INSTANCE LeaseAuthority WITH
    owner <- row.holder, epoch <- row.token,
    leaders <- {n \in Node : HasLocalAuthority(n)}

ImplementsAuthority == Authority!AuthoritySpec
=============================================================================
