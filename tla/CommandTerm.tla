----------------------------- MODULE CommandTerm -----------------------------
(***************************************************************************)
(* How a controller node chooses the term it stamps on a command:          *)
(* ha.Manager.GetTerm on the lease holder, and on every other node         *)
(* ha.Manager.CommandTerm's read of the lease row behind a cache that      *)
(* concurrent publishers share.                                            *)
(*                                                                         *)
(* The lease is the abstract LeaseAuthority that module Lease implements:  *)
(* epoch is the row's token, leaders the nodes with local authority.       *)
(* Every command is one publisher goroutine calling CommandTerm.           *)
(***************************************************************************)
EXTENDS LeaseAuthority, Commands, Terms, Integers

CONSTANTS
    CacheTTL,        \* commandTermCacheTTL
    FailureTTL,      \* commandTermFailureTTL
    ReadTimeout,     \* deadline of the lease read's context
    ReadsFail,       \* may a lease read fail?
    MaxTime,         \* bound: last instant of the clock
    MaxEpoch         \* bound: last token the lease issues

ASSUME TermConstants ==
    /\ NoNode \notin Node
    /\ LeaseTermFloor \in Nat /\ CacheTTL \in Nat /\ FailureTTL \in Nat /\ ReadTimeout \in Nat
    /\ ReadsFail \in BOOLEAN
    /\ MaxTime \in Nat /\ MaxEpoch \in Nat

VARIABLES
    now,      \* the clock
    cache,    \* cache[n]: commandTerm, commandTermAt, commandTermTTL of node n
    reading,  \* reading[n]: the refresh marked in flight (commandTermDone)
    caller,   \* caller[c]: where the publisher of command c is
    node,     \* node[c]: the controller node it is being stamped on
    given,    \* given[c]: the term the command was given
    ended     \* history: ended[g] is the last instant token g was current

termVars == <<authorityVars, now, cache, reading, caller, node, given, ended>>

(* A node that has not read the lease yet, and no refresh in flight. *)
Cold == [term |-> 0, at |-> -1, ttl |-> 0]
NoRead == [busy |-> FALSE, began |-> 0, got |-> "pending", term |-> 0, ttl |-> 0]
InFlight(began, got, term, ttl) ==
    [busy |-> TRUE, began |-> began, got |-> got, term |-> term, ttl |-> ttl]

TermInit ==
    /\ AuthorityInit
    /\ now = 0
    /\ cache = [n \in Node |-> Cold]
    /\ reading = [n \in Node |-> NoRead]
    /\ caller = [c \in Cmd |-> "idle"]
    /\ node = [c \in Cmd |-> NoNode]
    /\ given = [c \in Cmd |-> 0]
    /\ ended = [g \in 0 .. MaxEpoch |-> 0]

-----------------------------------------------------------------------------
(* CommandTerm, one step per critical section. *)

Stamp(c, t) ==
    /\ given' = [given EXCEPT ![c] = t]
    /\ caller' = [caller EXCEPT ![c] = "stamped"]
    /\ node' = [node EXCEPT ![c] = NoNode]

(* GetTerm on a node with local authority: its token is the lease's        *)
(* current one (AuthorityIsBacked).                                        *)
GetTerm(c, n) ==
    /\ caller[c] = "idle" /\ n \in leaders
    /\ Stamp(c, TermOf(epoch))
    /\ UNCHANGED <<authorityVars, now, cache, reading, ended>>

(* GetTerm returned 0: go on to the shared cache. *)
NotHolder(c, n) ==
    /\ caller[c] = "idle" /\ n \notin leaders
    /\ node' = [node EXCEPT ![c] = n]
    /\ caller' = [caller EXCEPT ![c] = "asking"]
    /\ UNCHANGED <<authorityVars, now, cache, reading, given, ended>>

(* Fault: a value once read is never re-read. *)
FreshForEver(n) == cache[n].at >= 0

Fresh(n) == cache[n].at >= 0 /\ now - cache[n].at < cache[n].ttl

UseCache(c) ==
    /\ caller[c] = "asking" /\ Fresh(node[c])
    /\ Stamp(c, cache[node[c]].term)
    /\ UNCHANGED <<authorityVars, now, cache, reading, ended>>

(* A refresh is in flight and an older value is there: use that. *)
FallBack(c) ==
    /\ caller[c] = "asking" /\ ~Fresh(node[c]) /\ reading[node[c]] # NoRead
    /\ cache[node[c]] # Cold
    /\ Stamp(c, cache[node[c]].term)
    /\ UNCHANGED <<authorityVars, now, cache, reading, ended>>

(* A refresh is in flight on a cold cache: wait for it. *)
AwaitRefresh(c) ==
    /\ caller[c] = "asking" /\ ~Fresh(node[c]) /\ reading[node[c]] # NoRead
    /\ cache[node[c]] = Cold
    /\ caller' = [caller EXCEPT ![c] = "waiting"]
    /\ UNCHANGED <<authorityVars, now, cache, reading, node, given, ended>>

StartRefresh(c) ==
    /\ caller[c] = "asking" /\ ~Fresh(node[c]) /\ reading[node[c]] = NoRead
    /\ caller' = [caller EXCEPT ![c] = "reading"]
    /\ reading' = [reading EXCEPT ![node[c]] = InFlight(now, "pending", 0, 0)]
    /\ UNCHANGED <<authorityVars, now, cache, node, given, ended>>

(* CurrentHolder's row read.  A row some node holds authority over is      *)
(* unexpired; otherwise the store may call it expired, and its token is    *)
(* kept for the shorter time.                                              *)
ReadLease(c) ==
    /\ caller[c] = "reading" /\ reading[node[c]].got = "pending"
    /\ \E ttl \in {CacheTTL, FailureTTL} :
         /\ epoch = 0 => ttl = FailureTTL
         /\ leaders # {} => ttl = CacheTTL
         /\ reading' = [reading EXCEPT ![node[c]] =
                          InFlight(@.began, "row", TermOf(epoch), ttl)]
    /\ UNCHANGED <<authorityVars, now, cache, caller, node, given, ended>>

(* Fault: a failed read is cached as the offset of token 0. *)
ReadErrorOffset(c) ==
    /\ ReadsFail
    /\ caller[c] = "reading" /\ reading[node[c]].got = "pending"
    /\ reading' = [reading EXCEPT ![node[c]] =
                     InFlight(@.began, "error", LeaseTermFloor, FailureTTL)]
    /\ UNCHANGED <<authorityVars, now, cache, caller, node, given, ended>>

(* The read fails or its context expires: 0, cached for FailureTTL. *)
ReadError(c) ==
    /\ ReadsFail
    /\ caller[c] = "reading" /\ reading[node[c]].got = "pending"
    /\ reading' = [reading EXCEPT ![node[c]] = InFlight(@.began, "error", 0, FailureTTL)]
    /\ UNCHANGED <<authorityVars, now, cache, caller, node, given, ended>>

(* Fault: the channel the waiters block on is never closed. *)
FinishSilently(c) ==
    LET n == node[c] IN
    /\ caller[c] = "reading" /\ reading[n].got # "pending"
    /\ cache' = [cache EXCEPT ![n] = [term |-> reading[n].term, at |-> now,
                                      ttl |-> reading[n].ttl]]
    /\ reading' = [reading EXCEPT ![n] = NoRead]
    /\ given' = [given EXCEPT ![c] = reading[n].term]
    /\ caller' = [caller EXCEPT ![c] = "stamped"]
    /\ node' = [node EXCEPT ![c] = NoNode]
    /\ UNCHANGED <<authorityVars, now, ended>>

(* The deferred function stores the value, clears the mark and closes the  *)
(* channel; the caller returns what it read.                               *)
FinishRefresh(c) ==
    LET n == node[c] IN
    /\ caller[c] = "reading" /\ reading[n].got # "pending"
    /\ cache' = [cache EXCEPT ![n] = [term |-> reading[n].term, at |-> now,
                                      ttl |-> reading[n].ttl]]
    /\ reading' = [reading EXCEPT ![n] = NoRead]
    /\ given' = [given EXCEPT ![c] = reading[n].term]
    /\ caller' = [d \in Cmd |-> IF d = c THEN "stamped"
                                ELSE IF caller[d] = "waiting" /\ node[d] = n THEN "woken"
                                ELSE caller[d]]
    /\ node' = [node EXCEPT ![c] = NoNode]
    /\ UNCHANGED <<authorityVars, now, ended>>

(* A waiter takes whatever the cache holds when it gets the lock again. *)
Woken(c) ==
    /\ caller[c] = "woken"
    /\ Stamp(c, cache[node[c]].term)
    /\ UNCHANGED <<authorityVars, now, cache, reading, ended>>

-----------------------------------------------------------------------------
(* A read ends by its deadline, and a publisher that can run does. *)
TermTick ==
    /\ now < MaxTime
    /\ \A n \in Node : reading[n] # NoRead => now < reading[n].began + ReadTimeout
    /\ \A c \in Cmd : caller[c] \notin {"asking", "woken"}
    /\ now' = now + 1
    /\ UNCHANGED <<authorityVars, cache, reading, caller, node, given, ended>>

(* Leadership moves as LeaseAuthority allows. *)
LeadershipMoves ==
    /\ AuthorityNext
    /\ epoch' <= MaxEpoch
    /\ ended' = IF epoch' = epoch THEN ended ELSE [ended EXCEPT ![epoch] = now]
    /\ UNCHANGED <<now, cache, reading, caller, node, given>>

(* A controller process restarts with a cold cache; the commands it was    *)
(* stamping are not sent.                                                  *)
RestartNode(n) ==
    /\ cache' = [cache EXCEPT ![n] = Cold]
    /\ reading' = [reading EXCEPT ![n] = NoRead]
    /\ caller' = [c \in Cmd |-> IF node[c] = n /\ caller[c] # "stamped"
                                THEN "dropped" ELSE caller[c]]
    /\ IF n \in leaders THEN StepDown ELSE UNCHANGED authorityVars
    /\ UNCHANGED <<now, node, given, ended>>

CommandTermStep(c) ==
    \/ \E n \in Node : GetTerm(c, n) \/ NotHolder(c, n)
    \/ UseCache(c) \/ FallBack(c) \/ AwaitRefresh(c)
    \/ StartRefresh(c) \/ ReadLease(c) \/ ReadError(c) \/ FinishRefresh(c)
    \/ Woken(c)

TermNext ==
    \/ TermTick \/ LeadershipMoves
    \/ \E c \in Cmd : CommandTermStep(c)
    \/ \E n \in Node : RestartNode(n)

TermSpec == TermInit /\ [][TermNext]_termVars

(* The store answers or the read's context ends, and goroutines that can   *)
(* run get scheduled.                                                      *)
PublisherRuns(c) ==
    \/ UseCache(c) \/ FallBack(c) \/ AwaitRefresh(c) \/ StartRefresh(c)
    \/ ReadLease(c) \/ ReadError(c) \/ FinishRefresh(c) \/ Woken(c)

-----------------------------------------------------------------------------
Entry == [term : Nat, at : Nat \cup {-1}, ttl : Nat]
Read == [busy : BOOLEAN, began : Nat, got : {"pending", "row", "error"}, term : Nat, ttl : Nat]

(* The type of the cache fields of ha.Manager and of its callers. *)
TermTypeOK ==
    /\ owner \in Node \cup {NoNode} /\ epoch \in Nat /\ leaders \subseteq Node
    /\ now \in Nat
    /\ cache \in [Node -> Entry]
    /\ reading \in [Node -> Read]
    /\ caller \in [Cmd -> {"idle", "asking", "waiting", "reading", "woken", "stamped", "dropped"}]
    /\ node \in [Cmd -> Node \cup {NoNode}]
    /\ given \in [Cmd -> Nat]
    /\ ended \in [0 .. MaxEpoch -> Nat]

(* Stale reads fail closed: no node ever stamps, or holds ready to stamp,  *)
(* a term above the lease's current token, so a stale node can never fence *)
(* out the commands of an up-to-date one; and a term that is not 0 is      *)
(* above every Raft term.                                                  *)
StampsNeverAhead ==
    \A t \in {given[c] : c \in Cmd} \cup {cache[n].term : n \in Node}
             \cup {reading[n].term : n \in Node} :
        t = 0 \/ (LeaseTermFloor < t /\ t <= TermOf(epoch))

(* A hung or failing store costs one read at a time: on a node at most one *)
(* publisher reads the lease, and exactly when a refresh is marked.        *)
OneRefresh ==
    \A n \in Node :
        LET readers == {c \in Cmd : caller[c] = "reading" /\ node[c] = n}
        IN  /\ \A c, d \in readers : c = d
            /\ reading[n] # NoRead <=> readers # {}

(* Seen from a steward, the stamping of a cluster is a TermSource: with    *)
(* shared caches, reads that take effect late, failed reads and restarts,  *)
(* a command still gets one term, of a token already issued or 0.          *)
Source == INSTANCE TermSource WITH stamp <- given, sent <- {c \in Cmd : caller[c] = "stamped"}

ImplementsSource == Source!SourceSpec

(* The term was the lease's current one (0: no row) no longer ago than a   *)
(* cache entry lives and its read may take; a failed read is entitled to   *)
(* 0.                                                                      *)
Recent(t) ==
    \/ t = 0 /\ ReadsFail
    \/ t = TermOf(epoch)
    \/ \E g \in 0 .. MaxEpoch : /\ t = TermOf(g)
                                /\ now <= ended[g] + ReadTimeout + CacheTTL

GivesStamp(c) == caller[c] # "stamped" /\ caller'[c] = "stamped"

(* Every stamp that does not come from a value left over beside a running  *)
(* refresh is recent: the cache expires as CommandTerm's comments say.     *)
CachedStampsAreRecent ==
    [][\A c \in Cmd : GivesStamp(c) /\ ~FallBack(c) => Recent(given'[c])]_termVars

(* commandTermCacheTTL bounds how long a non-holder reuses the token it    *)
(* read.                                                                   *)
StampsAreRecent == [][\A c \in Cmd : GivesStamp(c) => Recent(given'[c])]_termVars

(* CommandTerm always returns: no publisher waits for ever for a refresh   *)
(* that nobody runs.                                                       *)
PublishersReturn ==
    \A c \in Cmd : caller[c] \in {"asking", "waiting", "reading", "woken"}
                     ~> caller[c] \in {"stamped", "dropped"}
=============================================================================
