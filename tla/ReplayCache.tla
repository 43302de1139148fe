----------------------------- MODULE ReplayCache -----------------------------
(***************************************************************************)
(* Steps 3 and 4 of the steward's HandleCommand: a copy whose timestamp is *)
(* older than the replay window is stale, and a command ID that the replay *)
(* cache holds is a duplicate.  The cache forgets an ID after the window,  *)
(* and the oldest one when it is full.                                     *)
(*                                                                         *)
(* A copy is one signed message: a command ID and the time it was stamped. *)
(* The same copy can arrive twice (a node that got no answer from a peer   *)
(* tries another way), and a command can be stamped and sent again.        *)
(***************************************************************************)
EXTENDS Naturals, Sequences, SequencesExt, FiniteSets

CONSTANTS
    ID,       \* command IDs
    Latency,  \* the least time a copy is under way
    MaxPause, \* the longest time between the two checks on a copy
    Window,   \* replayWindow, which is also the cache's ttl
    Cap,      \* maxReplayCacheEntries
    MaxClock, \* bound on the steward's clock
    MaxCopies \* bound on the copies sent

ASSUME CacheConstants ==
    /\ Latency \in Nat /\ MaxPause \in Nat
    /\ Window \in Nat \ {0} /\ Cap \in Nat \ {0}
    /\ MaxClock \in Nat /\ MaxCopies \in Nat

VARIABLES
    clock,     \* the time, one for both ends
    entries,   \* ttlReplayCache.entries: command ID -> insertion time
    places,    \* ttlReplayCache.order
    copies,    \* copies that were sent
    checked,   \* HandleCommand calls past the timestamp check, with its time
    accepted,  \* history: copies that passed both steps
    repeated,  \* history: a copy passed them again
    capped     \* history: an entry was evicted to make room

cacheVars == <<clock, entries, places, copies, checked, accepted, repeated, capped>>

Copy == [id: ID, stamp: 0..MaxClock]

Partial(S, T) == UNION {[D -> T] : D \in SUBSET S}

CacheTypeOK ==
    /\ clock \in 0..MaxClock
    /\ entries \in Partial(ID, 0..MaxClock)
    /\ places \in Seq(ID)
    /\ copies \subseteq Copy
    /\ checked \subseteq [copy: Copy, at: 0..MaxClock]
    /\ accepted \subseteq Copy
    /\ repeated \in BOOLEAN /\ capped \in BOOLEAN

CacheInit ==
    /\ clock = 0 /\ entries = [i \in {} |-> 0] /\ places = <<>>
    /\ copies = {} /\ checked = {} /\ accepted = {} /\ repeated = FALSE /\ capped = FALSE

-----------------------------------------------------------------------------
Without(f, S) == [i \in DOMAIN f \ S |-> f[i]]

(* Fault: entries are dropped before copies get stale. *)
ShortLived(e) == Without(e, {i \in DOMAIN e : clock - e[i] > Window - Latency})

(* evictExpiredLocked: drops what is older than the window, and the order  *)
(* slots that have no entry.                                               *)
Unexpired(e) == Without(e, {i \in DOMAIN e : clock - e[i] > Window})

EvictExpired(c) ==
    LET e == Unexpired(c.entries)
    IN  [entries |-> e, places |-> SelectSeq(c.places, LAMBDA i : i \in DOMAIN e)]

(* evictOldestLocked, repeated while the cache is full: the order slots up *)
(* to the first that has an entry go, and that entry with them.            *)
EvictOldest(c) ==
    LET n == CHOOSE k \in DOMAIN c.places :
               /\ c.places[k] \in DOMAIN c.entries
               /\ \A l \in 1..(k - 1) : c.places[l] \notin DOMAIN c.entries
    IN  [entries |-> Without(c.entries, {c.places[n]}), places |-> SubSeq(c.places, n + 1, Len(c.places))]

IsFull(c) == Cardinality(DOMAIN c.entries) >= Cap

(* An insertion adds one entry, so one eviction makes room for it. *)
MakeRoom(c) == IF IsFull(c) THEN EvictOldest(c) ELSE c

(* Fault: the entry gets no order slot. *)
InsertOnly(c, i) ==
    [entries |-> [k \in DOMAIN c.entries \cup {i} |-> IF k = i THEN clock ELSE c.entries[k]],
     places |-> c.places]

Insert(c, i) ==
    [entries |-> [k \in DOMAIN c.entries \cup {i} |-> IF k = i THEN clock ELSE c.entries[k]],
     places |-> Append(c.places, i)]

-----------------------------------------------------------------------------
(* A call is never held up for longer than MaxPause between the checks. *)
Tick ==
    /\ clock < MaxClock
    /\ \A h \in checked : clock - h.at < MaxPause
    /\ clock' = clock + 1
    /\ UNCHANGED <<entries, places, copies, checked, accepted, repeated, capped>>

(* The publisher stamps a copy when it sends it. *)
SendCopy(i) ==
    /\ Cardinality(copies) < MaxCopies
    /\ copies' = copies \cup {[id |-> i, stamp |-> clock]}
    /\ copies' # copies
    /\ UNCHANGED <<clock, entries, places, checked, accepted, repeated, capped>>

(* HandleCommand: the timestamp check, on a copy that has arrived. *)
CheckTimestamp(m) ==
    /\ m \in copies /\ clock - m.stamp >= Latency
    /\ clock - m.stamp <= Window
    /\ checked' = checked \cup {[copy |-> m, at |-> clock]}
    /\ UNCHANGED <<clock, entries, places, copies, accepted, repeated, capped>>

(* HandleCommand: replayCache.Add, under the cache's lock. *)
Add(h) ==
    /\ h \in checked
    /\ checked' = checked \ {h}
    /\ LET c == EvictExpired([entries |-> entries, places |-> places])
           id == h.copy.id
           held == id \in DOMAIN c.entries /\ clock - c.entries[id] < Window
           d == IF held THEN c ELSE Insert(MakeRoom(c), id)
       IN  /\ entries' = d.entries
           /\ places' = d.places
           /\ accepted' = IF held THEN accepted ELSE accepted \cup {h.copy}
           /\ repeated' = (repeated \/ (~held /\ h.copy \in accepted))
           /\ capped' = (capped \/ (~held /\ IsFull(c)))
    /\ UNCHANGED <<clock, copies>>

CacheNext ==
    \/ Tick
    \/ \E i \in ID : SendCopy(i)
    \/ \E m \in copies : CheckTimestamp(m)
    \/ \E h \in checked : Add(h)

CacheSpec == CacheInit /\ [][CacheNext]_cacheVars

-----------------------------------------------------------------------------
(* CopyAcceptedOnce: as long as the cache never had to make room, one      *)
(* signed copy is accepted at most once, however late it comes back: the   *)
(* timestamp check takes over when the cache forgets.  (It takes a pause   *)
(* between the two checks shorter than the copy was under way.)            *)
CopyAcceptedOnce == repeated => capped

(* EvictionEnds: every entry has an order slot, so the loop in Add that    *)
(* makes room always finds an entry to evict and never spins under the     *)
(* cache's lock; and the cache stays within its cap.                       *)
EvictionEnds ==
    /\ DOMAIN entries \subseteq ToSet(places)
    /\ Cardinality(DOMAIN entries) <= Cap

=============================================================================
