---------------------------- MODULE PendingQueue ----------------------------
(***************************************************************************)
(* pendingcmd.Queue in the steward's control-plane provider: commands that *)
(* arrive before the steward subscribes its handler are held, and handed   *)
(* over by Drain, on a goroutine of its own, when it does.  A command that *)
(* finds a handler and no backlog ahead of it gets a goroutine at once.    *)
(* The provider subscribes a handler and never takes it back.              *)
(*                                                                         *)
(* Commands are numbered in the order in which the stream delivers them.   *)
(***************************************************************************)
EXTENDS Naturals, Sequences, SequencesExt

CONSTANTS
    Arrivals,     \* how many commands arrive
    Limit,        \* Queue.limit
    MaxSubscribes \* bound on the subscriptions

ASSUME QueueConstants == Arrivals \in Nat /\ Limit \in Nat \ {0} /\ MaxSubscribes \in Nat

Numbers == 1..Arrivals

VARIABLES
    arrived,    \* how many commands the receive loop has taken
    handler,    \* a handler is subscribed
    backlog,    \* Queue.backlog
    draining,   \* Queue.draining
    drain,      \* the Drain goroutine: "none", "take", "dispatch" or "handling"
    taken,      \* the command that Drain took, 0 if none
    live,       \* commands whose own goroutine has not called the handler yet
    called,     \* history: commands in the order in which the handler was called
    dropped,    \* history: commands discarded because the backlog was full
    subscribes  \* how many subscriptions there were

queueVars == <<arrived, handler, backlog, draining, drain, taken, live, called, dropped, subscribes>>

QueueTypeOK ==
    /\ arrived \in 0..Arrivals
    /\ handler \in BOOLEAN /\ draining \in BOOLEAN
    /\ backlog \in Seq(Numbers) /\ Len(backlog) <= Limit
    /\ drain \in {"none", "take", "dispatch", "handling"}
    /\ taken \in 0..Arrivals
    /\ live \subseteq Numbers /\ dropped \subseteq Numbers
    /\ called \in Seq(Numbers)
    /\ subscribes \in 0..MaxSubscribes

QueueInit ==
    /\ arrived = 0 /\ handler = FALSE /\ backlog = <<>> /\ draining = FALSE
    /\ drain = "none" /\ taken = 0 /\ live = {} /\ called = <<>> /\ dropped = {} /\ subscribes = 0

(* Fault: the drain in progress is overlooked. *)
HasHandler == handler

AtOnce == handler /\ ~draining

IsFullBacklog == Len(backlog) >= Limit

(* receiveCommandMessage with Queue.Admit. *)
ReceiveCommandMessage ==
    /\ arrived < Arrivals
    /\ arrived' = arrived + 1
    /\ \/ /\ AtOnce
          /\ live' = live \cup {arrived + 1}
          /\ UNCHANGED <<backlog, dropped>>
       \/ /\ ~AtOnce /\ IsFullBacklog
          /\ dropped' = dropped \cup {arrived + 1}
          /\ UNCHANGED <<live, backlog>>
       \/ /\ ~AtOnce /\ ~IsFullBacklog
          /\ backlog' = Append(backlog, arrived + 1)
          /\ UNCHANGED <<live, dropped>>
    /\ UNCHANGED <<handler, draining, drain, taken, called, subscribes>>

(* SubscribeCommands with Queue.Subscribe; it starts Drain if need be. *)
Subscribe ==
    /\ subscribes < MaxSubscribes
    /\ subscribes' = subscribes + 1
    /\ handler' = TRUE
    /\ IF backlog = <<>> \/ draining
       THEN UNCHANGED <<draining, drain>>
       ELSE draining' = TRUE /\ drain' = "take"
    /\ UNCHANGED <<arrived, backlog, taken, live, called, dropped>>

(* Fault: the queue goes on as if a drain were running. *)
DrainLeaves == drain' = "none" /\ UNCHANGED draining

DrainEnds == drain' = "none" /\ draining' = FALSE

Rest == Tail(backlog)

(* Drain, under the lock: take the oldest, or finish. *)
DrainTake ==
    /\ drain = "take"
    /\ IF backlog = <<>>
       THEN DrainEnds /\ UNCHANGED <<backlog, taken>>
       ELSE /\ taken' = Head(backlog)
            /\ backlog' = Rest
            /\ drain' = "dispatch"
            /\ UNCHANGED draining
    /\ UNCHANGED <<arrived, handler, live, called, dropped, subscribes>>

(* handleCommand on Drain's goroutine: the call, and its return. *)
DrainCalls ==
    /\ drain = "dispatch"
    /\ called' = Append(called, taken)
    /\ taken' = 0
    /\ drain' = "handling"
    /\ UNCHANGED <<arrived, handler, backlog, draining, live, dropped, subscribes>>

DrainReturns ==
    /\ drain = "handling"
    /\ drain' = "take"
    /\ UNCHANGED <<arrived, handler, backlog, draining, taken, live, called, dropped, subscribes>>

(* handleCommand on a live command's goroutine. *)
LiveCalls(c) ==
    /\ c \in live
    /\ live' = live \ {c}
    /\ called' = Append(called, c)
    /\ UNCHANGED <<arrived, handler, backlog, draining, drain, taken, dropped, subscribes>>

DrainStep == DrainTake \/ DrainCalls \/ DrainReturns

QueueNext == ReceiveCommandMessage \/ Subscribe \/ DrainStep \/ \E c \in Numbers : LiveCalls(c)

QueueSpec == QueueInit /\ [][QueueNext]_queueVars

-----------------------------------------------------------------------------
(* HandedOverInOrder: every command that arrived is held, under way or was *)
(* handed over, once, unless the backlog was full; and the handler gets    *)
(* the held commands in arrival order and ahead of anything received       *)
(* later: whatever was handed to it is older than all that is held         *)
(* (SubscribeCommands, Queue.Subscribe).                                   *)
HandedOverInOrder ==
    /\ \A i, j \in DOMAIN backlog : i < j => backlog[i] < backlog[j]
    /\ \A c \in ToSet(called) \cup live, k \in (ToSet(backlog) \cup {taken}) \ {0} : c < k
    /\ 1..arrived = ToSet(called) \cup live \cup ToSet(backlog) \cup ({taken} \ {0}) \cup dropped
    /\ Len(called) + Len(backlog) <= arrived
    /\ IsInjective(called)

(* HeldAreHandled: a subscribed steward gets every command that was held:  *)
(* Drain never stops with commands left behind.                            *)
HeldAreHandled == []<>(backlog = <<>> /\ taken = 0)

=============================================================================
