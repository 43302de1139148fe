-------------------------- MODULE CommandTermProofs --------------------------
(***************************************************************************)
(* The stamping of a cluster is a TermSource, for any number of nodes,     *)
(* commands and cache lifetimes: whatever a cache, a pending read or a     *)
(* stamp holds is the term of a token issued already, and tokens only      *)
(* grow.                                                                   *)
(***************************************************************************)
EXTENDS CommandTerm, TLAPS

(* A publisher on its way to a term is on a node. *)
Placed ==
    \A c \in Cmd : caller[c] \in {"asking", "waiting", "reading", "woken"} => node[c] \in Node

TermInv == TermTypeOK /\ Placed

(* Every step keeps the types, and publishers in place. *)
LEMMA TermTypeStep ==
    ASSUME TermInv, [TermNext]_termVars
    PROVE  TermInv'
<1> USE TermConstants DEF TermInv, TermTypeOK, Placed, Entry, Read, authorityVars
<1>0. \A g \in Nat : TermOf(g) \in Nat
  BY DEF TermOf
<1>1. ASSUME NEW c \in Cmd, NEW n \in Node, GetTerm(c, n) PROVE TermInv'
  BY <1>0, <1>1 DEF GetTerm, Stamp
<1>2. ASSUME NEW c \in Cmd, NEW n \in Node, NotHolder(c, n) PROVE TermInv'
  BY <1>2 DEF NotHolder
<1>3. ASSUME NEW c \in Cmd, UseCache(c) \/ FallBack(c) \/ Woken(c) PROVE TermInv'
  <2>1. node[c] \in Node /\ cache[node[c]].term \in Nat
    BY <1>3 DEF UseCache, FallBack, Woken
  <2>2. Stamp(c, cache[node[c]].term) /\ UNCHANGED <<authorityVars, now, cache, reading, ended>>
    BY <1>3 DEF UseCache, FallBack, Woken
  <2>3. QED
    BY <2>1, <2>2 DEF Stamp
<1>4. ASSUME NEW c \in Cmd, AwaitRefresh(c) PROVE TermInv'
  BY <1>4 DEF AwaitRefresh
<1>5. ASSUME NEW c \in Cmd, StartRefresh(c) PROVE TermInv'
  BY <1>5 DEF StartRefresh, InFlight
<1>6. ASSUME NEW c \in Cmd, ReadLease(c) PROVE TermInv'
  <2>1. PICK ttl \in {CacheTTL, FailureTTL} :
          reading' = [reading EXCEPT ![node[c]] =
                        InFlight(@.began, "row", TermOf(epoch), ttl)]
    BY <1>6 DEF ReadLease
  <2>2. node[c] \in Node /\ ttl \in Nat /\ TermOf(epoch) \in Nat
    BY <1>0, <1>6, <2>1 DEF ReadLease
  <2>3. InFlight(reading[node[c]].began, "row", TermOf(epoch), ttl) \in Read
    BY <2>2 DEF InFlight
  <2>4. reading' \in [Node -> Read]
    BY <2>1, <2>2, <2>3
  <2>5. QED
    BY <1>6, <2>4 DEF ReadLease
<1>7. ASSUME NEW c \in Cmd, ReadError(c) PROVE TermInv'
  <2>1. node[c] \in Node
    BY <1>7 DEF ReadError
  <2>2. InFlight(reading[node[c]].began, "error", 0, FailureTTL) \in Read
    BY <2>1 DEF InFlight
  <2>3. reading' \in [Node -> Read]
    BY <1>7, <2>1, <2>2 DEF ReadError
  <2>4. QED
    BY <1>7, <2>3 DEF ReadError
<1>8. ASSUME NEW c \in Cmd, FinishRefresh(c) PROVE TermInv'
  <2>1. node[c] \in Node
    BY <1>8 DEF FinishRefresh
  <2>2. cache' \in [Node -> Entry] /\ given' \in [Cmd -> Nat] /\ node' \in [Cmd -> Node \cup {NoNode}]
    BY <1>8, <2>1 DEF FinishRefresh
  <2>3. reading' \in [Node -> Read]
    BY <1>8, <2>1 DEF FinishRefresh, NoRead
  <2>4. caller' \in [Cmd -> {"idle", "asking", "waiting", "reading", "woken", "stamped", "dropped"}]
    BY <1>8 DEF FinishRefresh
  <2>5. Placed'
    BY <1>8 DEF FinishRefresh
  <2>6. QED
    BY <1>8, <2>2, <2>3, <2>4, <2>5 DEF FinishRefresh
<1>9. CASE TermTick
  BY <1>9 DEF TermTick
<1>10. CASE LeadershipMoves
  <2>1. owner' \in Node \cup {NoNode} /\ epoch' \in Nat /\ leaders' \subseteq Node
    BY <1>10 DEF LeadershipMoves, AuthorityNext, TakeOver, Lead, StepDown
  <2>2. QED
    BY <1>10, <2>1 DEF LeadershipMoves
<1>11. ASSUME NEW n \in Node, RestartNode(n) PROVE TermInv'
  <2>1. owner' \in Node \cup {NoNode} /\ epoch' \in Nat /\ leaders' \subseteq Node
    BY <1>11 DEF RestartNode, StepDown
  <2>2. QED
    BY <1>11, <2>1 DEF RestartNode, Cold, NoRead
<1>12. CASE UNCHANGED termVars
  BY <1>12 DEF termVars
<1>13. QED
  BY <1>1, <1>2, <1>3, <1>4, <1>5, <1>6, <1>7, <1>8, <1>9, <1>10, <1>11, <1>12
     DEF TermNext, CommandTermStep

(* The types of the cached lease reads and of their callers hold in every  *)
(* reachable state of any cluster.                                         *)
THEOREM TermTypeCorrect == TermSpec => []TermTypeOK
<1>1. TermInit => TermInv
  BY TermConstants DEF TermInit, AuthorityInit, TermInv, TermTypeOK, Placed, Entry, Read, Cold, NoRead
<1>2. TermInv /\ [TermNext]_termVars => TermInv'
  BY TermTypeStep
<1>3. TermInv => TermTypeOK
  BY DEF TermInv
<1>4. QED
  BY <1>1, <1>2, <1>3, PTL DEF TermSpec

-----------------------------------------------------------------------------
(* The term of a token the lease has issued, or of none. *)
Issued(t) == \E g \in 0 .. epoch : t = TermOf(g)

IssuedInv ==
    /\ TermInv
    /\ \A n \in Node : Issued(cache[n].term) /\ Issued(reading[n].term)
    /\ \A c \in Cmd : Issued(given[c])

(* Tokens only grow, so an issued term stays issued; 0 always is. *)
LEMMA IssuedStays ==
    ASSUME TermInv, [TermNext]_termVars
    PROVE  /\ epoch' \in Nat /\ epoch <= epoch'
           /\ \A t : Issued(t) => Issued(t)'
           /\ Issued(0) /\ Issued(TermOf(epoch))
<1>1. epoch \in Nat /\ epoch' \in Nat
  BY TermTypeStep DEF TermInv, TermTypeOK
<1>2. epoch' = epoch \/ epoch' = epoch + 1
  BY DEF TermNext, termVars, authorityVars, CommandTermStep, GetTerm, NotHolder, UseCache, FallBack,
         AwaitRefresh, StartRefresh, ReadLease, ReadError, FinishRefresh, Woken, TermTick,
         LeadershipMoves, RestartNode, AuthorityNext, Lead, StepDown, TakeOver
<1>3. QED
  BY <1>1, <1>2 DEF Issued, TermOf

(* What a step can stamp is what a cache or a read held, or the current    *)
(* term: it was issued.                                                    *)
LEMMA IssuedStep ==
    ASSUME IssuedInv, [TermNext]_termVars
    PROVE  IssuedInv'
<1>1. TermInv /\ TermInv'
  BY TermTypeStep DEF IssuedInv
<1>2. /\ \A t : Issued(t) => Issued(t)'
      /\ Issued(0) /\ Issued(TermOf(epoch))
  BY <1>1, IssuedStays
<1> DEFINE Same == UNCHANGED <<cache, reading, given>>
<1>3. ASSUME Same PROVE IssuedInv'
  BY <1>1, <1>2, <1>3 DEF IssuedInv
<1>4. ASSUME NEW c \in Cmd, NEW t, Issued(t), given' = [given EXCEPT ![c] = t],
             UNCHANGED <<cache, reading>>
      PROVE  IssuedInv'
  BY <1>1, <1>2, <1>4 DEF IssuedInv, TermInv, TermTypeOK
<1>5. ASSUME NEW n \in Node, NEW r, Issued(r.term), reading' = [reading EXCEPT ![n] = r],
             UNCHANGED <<cache, given>>
      PROVE  IssuedInv'
  BY <1>1, <1>2, <1>5 DEF IssuedInv, TermInv, TermTypeOK
<1>6. ASSUME NEW c \in Cmd, NEW n \in Node, GetTerm(c, n) PROVE IssuedInv'
  BY <1>2, <1>4, <1>6 DEF GetTerm, Stamp
<1>7. ASSUME NEW c \in Cmd, UseCache(c) \/ FallBack(c) \/ Woken(c) PROVE IssuedInv'
  <2>1. node[c] \in Node
    BY <1>1, <1>7 DEF UseCache, FallBack, Woken, TermInv, Placed
  <2>2. Issued(cache[node[c]].term)
    BY <2>1 DEF IssuedInv
  <2>3. QED
    BY <1>4, <1>7, <2>2 DEF UseCache, FallBack, Woken, Stamp
<1>8. ASSUME NEW c \in Cmd, StartRefresh(c) \/ ReadLease(c) \/ ReadError(c) PROVE IssuedInv'
  <2>1. node[c] \in Node /\ UNCHANGED <<cache, given>>
    BY <1>1, <1>8 DEF StartRefresh, ReadLease, ReadError, TermInv, Placed
  <2>2. \E r : Issued(r.term) /\ reading' = [reading EXCEPT ![node[c]] = r]
    BY <1>2, <1>8 DEF StartRefresh, ReadLease, ReadError, InFlight
  <2>3. QED
    BY <1>5, <2>1, <2>2
<1>9. ASSUME NEW c \in Cmd, FinishRefresh(c) PROVE IssuedInv'
  <2>1. node[c] \in Node /\ Issued(reading[node[c]].term)
    BY <1>1, <1>9 DEF FinishRefresh, TermInv, Placed, IssuedInv
  <2>2. \A n \in Node : Issued(cache'[n].term) /\ Issued(reading'[n].term)
    BY <1>1, <1>2, <1>9, <2>1 DEF FinishRefresh, IssuedInv, TermInv, TermTypeOK, NoRead
  <2>3. \A d \in Cmd : Issued(given'[d])
    BY <1>1, <1>9, <2>1 DEF FinishRefresh, IssuedInv, TermInv, TermTypeOK
  <2>4. epoch' = epoch
    BY <1>9 DEF FinishRefresh, authorityVars
  <2>5. QED
    BY <1>1, <2>2, <2>3, <2>4 DEF IssuedInv, Issued
<1>10. ASSUME NEW n \in Node, RestartNode(n) PROVE IssuedInv'
  <2>1. \A m \in Node : Issued(cache'[m].term) /\ Issued(reading'[m].term)
    BY <1>1, <1>2, <1>10 DEF RestartNode, IssuedInv, TermInv, TermTypeOK, NoRead, Cold
  <2>2. epoch' = epoch /\ given' = given
    BY <1>10 DEF RestartNode, StepDown, authorityVars
  <2>3. QED
    BY <1>1, <2>1, <2>2 DEF IssuedInv, Issued
<1>11. QED
  BY <1>3, <1>6, <1>7, <1>8, <1>9, <1>10
     DEF TermNext, termVars, CommandTermStep, NotHolder, AwaitRefresh, TermTick, LeadershipMoves

LEMMA IssuedInvariant == TermSpec => []IssuedInv
<1>1. TermInit => IssuedInv
  BY TermConstants DEF TermInit, AuthorityInit, IssuedInv, TermInv, TermTypeOK, Placed, Entry, Read,
                       Cold, NoRead, Issued, TermOf
<1>2. IssuedInv /\ [TermNext]_termVars => IssuedInv'
  BY IssuedStep
<1>3. QED
  BY <1>1, <1>2, PTL DEF TermSpec

(* Fail closed, for any number of nodes and publishers: CommandTerm never  *)
(* stamps, caches or is about to cache a term above the lease's current    *)
(* one.                                                                    *)
THEOREM NeverStampsAhead == TermSpec => []StampsNeverAhead
<1>1. IssuedInv => StampsNeverAhead
  <2> SUFFICES ASSUME IssuedInv, NEW t, Issued(t)
               PROVE  t = 0 \/ (LeaseTermFloor < t /\ t <= TermOf(epoch))
    BY DEF IssuedInv, StampsNeverAhead
  <2>1. QED
    BY TermConstants DEF IssuedInv, TermInv, TermTypeOK, Issued, TermOf
<1>2. QED
  BY <1>1, IssuedInvariant, PTL

-----------------------------------------------------------------------------
(* One refresh at a time. *)

RefreshInv == TermInv /\ OneRefresh

(* A step of a publisher that neither starts nor ends a read, and leaves   *)
(* every refresh alone, leaves the readers alone.                          *)
LEMMA SameReaders ==
    ASSUME RefreshInv, TermInv',
           \A n \in Node : reading'[n] # NoRead <=> reading[n] # NoRead,
           \A d \in Cmd : caller'[d] = "reading" <=> caller[d] = "reading",
           \A d \in Cmd : caller[d] = "reading" => node'[d] = node[d]
    PROVE  RefreshInv'
BY DEF RefreshInv, OneRefresh

LEMMA RefreshStep ==
    ASSUME RefreshInv, [TermNext]_termVars
    PROVE  RefreshInv'
<1>1. TermInv /\ TermInv'
  BY TermTypeStep DEF RefreshInv
<1> USE DEF TermInv, TermTypeOK
<1>2. ASSUME NEW c \in Cmd, NEW t, Stamp(c, t), caller[c] # "reading", reading' = reading
      PROVE  RefreshInv'
  BY <1>1, <1>2, SameReaders DEF Stamp
<1>3. ASSUME NEW c \in Cmd, NEW n \in Node, GetTerm(c, n) \/ NotHolder(c, n) PROVE RefreshInv'
  <2>1. CASE GetTerm(c, n)
    BY <1>2, <2>1 DEF GetTerm
  <2>2. CASE NotHolder(c, n)
    BY <1>1, <2>2, SameReaders DEF NotHolder
  <2>3. QED
    BY <1>3, <2>1, <2>2
<1>4. ASSUME NEW c \in Cmd, UseCache(c) \/ FallBack(c) \/ Woken(c) PROVE RefreshInv'
  BY <1>2, <1>4 DEF UseCache, FallBack, Woken
<1>5. ASSUME NEW c \in Cmd, AwaitRefresh(c) PROVE RefreshInv'
  BY <1>1, <1>5, SameReaders DEF AwaitRefresh
<1>6. ASSUME NEW c \in Cmd, StartRefresh(c) PROVE RefreshInv'
  <2>1. node[c] \in Node /\ node' = node
    BY <1>1, <1>6 DEF StartRefresh, Placed
  <2>2. /\ \A d \in Cmd : caller'[d] = "reading" <=> d = c \/ caller[d] = "reading"
        /\ \A d \in Cmd : caller[d] = "reading" => node[d] # node[c]
    BY <1>1, <1>6, <2>1 DEF StartRefresh, RefreshInv, OneRefresh
  <2>3. \A n \in Node : reading'[n] # NoRead <=> n = node[c] \/ reading[n] # NoRead
    BY <1>1, <1>6, <2>1 DEF StartRefresh, InFlight, NoRead
  <2>4. \A d, e \in Cmd : /\ caller'[d] = "reading" /\ caller'[e] = "reading"
                           /\ node'[d] \in Node /\ node'[d] = node'[e]
                           => d = e
    <3>1. \A d, e \in Cmd : /\ caller[d] = "reading" /\ caller[e] = "reading"
                             /\ node[d] \in Node /\ node[d] = node[e]
                             => d = e
      BY DEF RefreshInv, OneRefresh
    <3>2. QED
      BY <2>1, <2>2, <3>1
  <2>5. \A n \in Node : reading'[n] # NoRead
                           <=> \E d \in Cmd : caller'[d] = "reading" /\ node'[d] = n
    BY <1>1, <1>6, <2>1, <2>2, <2>3 DEF RefreshInv, OneRefresh
  <2>6. QED
    BY <1>1, <2>4, <2>5 DEF RefreshInv, OneRefresh
<1>7. ASSUME NEW c \in Cmd, ReadLease(c) \/ ReadError(c) PROVE RefreshInv'
  <2>1. node[c] \in Node /\ reading[node[c]] # NoRead
    BY <1>1, <1>7 DEF ReadLease, ReadError, Placed, RefreshInv, OneRefresh
  <2>2. \E b, g, t, l : reading' = [reading EXCEPT ![node[c]] = InFlight(b, g, t, l)]
    <3>1. CASE ReadLease(c)
      <4>1. PICK ttl : reading' = [reading EXCEPT ![node[c]] =
                           InFlight(reading[node[c]].began, "row", TermOf(epoch), ttl)]
        BY <1>1, <2>1, <3>1 DEF ReadLease
      <4>2. QED
        BY <4>1
    <3>2. CASE ReadError(c)
      <4>1. reading' = [reading EXCEPT ![node[c]] =
                           InFlight(reading[node[c]].began, "error", 0, FailureTTL)]
        BY <1>1, <2>1, <3>2 DEF ReadError
      <4>2. QED
        BY <4>1
    <3>3. QED
      BY <1>7, <3>1, <3>2
  <2>3. \A n \in Node : reading'[n] # NoRead <=> reading[n] # NoRead
    <3>1. \A b, g, t, l : InFlight(b, g, t, l) # NoRead
      BY DEF InFlight, NoRead
    <3>2. QED
      BY <1>1, <2>1, <2>2, <3>1
  <2>4. UNCHANGED <<caller, node>>
    BY <1>7 DEF ReadLease, ReadError
  <2>5. QED
    BY <1>1, <2>3, <2>4, SameReaders
<1>8. ASSUME NEW c \in Cmd, FinishRefresh(c) PROVE RefreshInv'
  <2>1. node[c] \in Node /\ caller[c] = "reading"
    BY <1>1, <1>8 DEF FinishRefresh, Placed
  <2>2. \A d \in Cmd : caller'[d] = "reading" <=> d # c /\ caller[d] = "reading"
    BY <1>1, <1>8 DEF FinishRefresh
  <2>3. \A d \in Cmd : d # c => node'[d] = node[d]
    BY <1>1, <1>8 DEF FinishRefresh
  <2>4. \A n \in Node : reading'[n] # NoRead <=> n # node[c] /\ reading[n] # NoRead
    BY <1>1, <1>8, <2>1 DEF FinishRefresh
  <2>5. \A d \in Cmd : d # c /\ caller[d] = "reading" => node[d] # node[c]
    BY <2>1 DEF RefreshInv, OneRefresh
  <2>6. \A d, e \in Cmd : /\ caller'[d] = "reading" /\ caller'[e] = "reading"
                           /\ node'[d] \in Node /\ node'[d] = node'[e]
                           => d = e
    BY <1>1, <2>2, <2>3 DEF RefreshInv, OneRefresh
  <2>7. \A n \in Node : reading'[n] # NoRead
                           <=> \E d \in Cmd : caller'[d] = "reading" /\ node'[d] = n
    BY <1>1, <2>1, <2>2, <2>3, <2>4, <2>5 DEF RefreshInv, OneRefresh
  <2>8. QED
    BY <1>1, <2>6, <2>7 DEF RefreshInv, OneRefresh
<1>9. ASSUME NEW n \in Node, RestartNode(n) PROVE RefreshInv'
  <2>1. \A d \in Cmd : caller'[d] = "reading" <=> node[d] # n /\ caller[d] = "reading"
    BY <1>1, <1>9 DEF RestartNode
  <2>2. \A m \in Node : reading'[m] # NoRead <=> m # n /\ reading[m] # NoRead
    BY <1>1, <1>9 DEF RestartNode
  <2>3. node' = node
    BY <1>9 DEF RestartNode
  <2>4. QED
    BY <1>1, <2>1, <2>2, <2>3 DEF RefreshInv, OneRefresh
<1>10. CASE UNCHANGED <<reading, caller, node>>
  BY <1>1, <1>10, SameReaders
<1>11. QED
  BY <1>3, <1>4, <1>5, <1>6, <1>7, <1>8, <1>9, <1>10
     DEF TermNext, termVars, CommandTermStep, TermTick, LeadershipMoves

(* Whatever the store does, a node has at most one lease read running, and *)
(* a refresh is marked in flight exactly while its reader is: the mark is  *)
(* never left behind, so waiters always have a reader to wait for.         *)
THEOREM SingleRefresh == TermSpec => []OneRefresh
<1>1. TermInit => RefreshInv
  BY TermConstants DEF TermInit, AuthorityInit, RefreshInv, OneRefresh, TermInv, TermTypeOK, Placed,
                       Entry, Read, Cold, NoRead
<1>2. RefreshInv /\ [TermNext]_termVars => RefreshInv'
  BY RefreshStep
<1>3. RefreshInv => OneRefresh
  BY DEF RefreshInv
<1>4. QED
  BY <1>1, <1>2, <1>3, PTL DEF TermSpec

-----------------------------------------------------------------------------
(* Refinement. *)

(* A step that stamps command c with an issued term is a Give(c). *)
LEMMA StampGives ==
    ASSUME IssuedInv, NEW c \in Cmd, NEW t, Issued(t), caller[c] # "stamped",
           given' = [given EXCEPT ![c] = t],
           \A d \in Cmd : caller'[d] = "stamped" <=> d = c \/ caller[d] = "stamped",
           UNCHANGED authorityVars
    PROVE  Source!SourceNext
<1>1. PICK g \in 0 .. epoch : t = TermOf(g)
  BY DEF Issued
<1>2. TermOf(g) = Source!TermOf(g)
  BY DEF TermOf, Source!TermOf
<1>3. Source!Give(c)
  BY <1>1, <1>2 DEF Source!Give, Source!authorityVars, authorityVars
<1>4. QED
  BY <1>3 DEF Source!SourceNext

LEMMA SourceRefined ==
    ASSUME IssuedInv, [TermNext]_termVars
    PROVE  [Source!SourceNext]_(Source!sourceVars)
<1> DEFINE Goal == [Source!SourceNext]_(Source!sourceVars)
<1>1. TermInv
  BY DEF IssuedInv
<1> USE DEF TermInv, TermTypeOK
<1>2. ASSUME \A d \in Cmd : caller'[d] = "stamped" <=> caller[d] = "stamped",
             given' = given, UNCHANGED authorityVars
      PROVE  Goal
  BY <1>2 DEF Source!sourceVars, Source!authorityVars, authorityVars
<1>3. ASSUME NEW c \in Cmd, NEW t, Issued(t), Stamp(c, t), caller[c] # "stamped",
             UNCHANGED authorityVars
      PROVE  Goal
  BY <1>1, <1>3, StampGives DEF Stamp
<1>4. ASSUME NEW c \in Cmd, NEW n \in Node, GetTerm(c, n) PROVE Goal
  <2>1. Issued(TermOf(epoch))
    BY <1>1, IssuedStays
  <2>2. QED
    BY <1>3, <1>4, <2>1 DEF GetTerm
<1>5. ASSUME NEW c \in Cmd, UseCache(c) \/ FallBack(c) \/ Woken(c) PROVE Goal
  <2>1. Issued(cache[node[c]].term)
    BY <1>1, <1>5 DEF UseCache, FallBack, Woken, Placed, IssuedInv
  <2>2. QED
    BY <1>3, <1>5, <2>1 DEF UseCache, FallBack, Woken
<1>6. ASSUME NEW c \in Cmd, FinishRefresh(c) PROVE Goal
  <2>1. Issued(reading[node[c]].term)
    BY <1>1, <1>6 DEF FinishRefresh, Placed, IssuedInv
  <2>2. \A d \in Cmd : caller'[d] = "stamped" <=> d = c \/ caller[d] = "stamped"
    BY <1>1, <1>6 DEF FinishRefresh
  <2>3. QED
    BY <1>6, <2>1, <2>2, StampGives DEF FinishRefresh
<1>7. ASSUME NEW c \in Cmd, NEW n \in Node, NotHolder(c, n) PROVE Goal
  BY <1>1, <1>2, <1>7 DEF NotHolder
<1>8. ASSUME NEW c \in Cmd,
             AwaitRefresh(c) \/ StartRefresh(c) \/ ReadLease(c) \/ ReadError(c)
      PROVE  Goal
  BY <1>1, <1>2, <1>8 DEF AwaitRefresh, StartRefresh, ReadLease, ReadError
<1>9. CASE TermTick \/ UNCHANGED termVars
  BY <1>2, <1>9 DEF TermTick, termVars
<1>10. CASE LeadershipMoves
  BY <1>10 DEF LeadershipMoves, AuthorityNext, Lead, StepDown, TakeOver, Source!SourceNext,
               Source!AuthorityNext, Source!Lead, Source!StepDown, Source!TakeOver
<1>11. ASSUME NEW n \in Node, RestartNode(n) PROVE Goal
  <2>1. \A d \in Cmd : caller'[d] = "stamped" <=> caller[d] = "stamped"
    BY <1>1, <1>11 DEF RestartNode
  <2>2. CASE n \in leaders
    BY <1>11, <2>1, <2>2 DEF RestartNode, StepDown, Source!SourceNext, Source!AuthorityNext,
                             Source!StepDown
  <2>3. CASE n \notin leaders
    BY <1>2, <1>11, <2>1, <2>3 DEF RestartNode
  <2>4. QED
    BY <2>2, <2>3
<1>12. QED
  BY <1>4, <1>5, <1>6, <1>7, <1>8, <1>9, <1>10, <1>11 DEF TermNext, CommandTermStep

(* CommandTerm implements the abstract source of terms that the steward's  *)
(* side is proved against: caches, late reads, failures and restarts only  *)
(* ever produce terms of tokens already issued, once per command.          *)
THEOREM TermRefinesSource == TermSpec => ImplementsSource
<1>1. TermInit => Source!SourceInit
  BY DEF TermInit, AuthorityInit, Source!SourceInit, Source!AuthorityInit
<1>2. IssuedInv /\ [TermNext]_termVars => [Source!SourceNext]_(Source!sourceVars)
  BY SourceRefined
<1>3. QED
  BY <1>1, <1>2, IssuedInvariant, PTL DEF TermSpec, ImplementsSource, Source!SourceSpec
=============================================================================
