--------------------------- MODULE BufferedEmitter ---------------------------
(***************************************************************************)
(* BufferedEmitter (buffered_emitter.py): a ring of events and the         *)
(* callbacks that are called for each of them, outside the lock, on a copy *)
(* of the subscribers: a callback is a pair of its name and the number of  *)
(* its subscription, while failures are counted, and subscribers removed,  *)
(* by name.  Each region under the lock is one action, and so is each      *)
(* return of a callback.                                                   *)
(***************************************************************************)
EXTENDS Integers, FiniteSets

CONSTANTS
    Threads,        \* calls of emit() under way: of threads, or from callbacks
    Names,          \* names under which callbacks are subscribed
    MaxLen,         \* maxlen of the ring
    MaxFailures,    \* _MAX_CONSECUTIVE_FAILURES
    MaxSubscriptions, \* bound: subscriptions made
    MaxDrained      \* bound: events drained

ASSUME EmitterAssumption ==
    /\ MaxLen \in Nat \ {0} /\ MaxFailures \in Nat \ {0}
    /\ MaxSubscriptions \in Nat \ {0} /\ MaxDrained \in Nat

VARIABLES
    buffered,       \* events in _buffer, which nothing here tells apart
    dropped,        \* _dropped
    subscribers,    \* _subscribers: 0, or the number of the subscription, for each name
    failCounts,     \* _fail_counts: -1 for a name it does not have
    emitting,       \* what each call of emit() has yet to do
    emitted,        \* history: events emitted
    drained,        \* history: events taken out
    failed,         \* history: failures in a row of a subscription's own callback,
                    \* up to MaxFailures; it is forgiven when an emit ends in which
                    \* it returned
    overlapped,     \* history: names subscribed while an emit was under way that was
                    \* to call, or to remove, an earlier subscription of the name
    subscriptions   \* history: subscriptions made

evars == <<buffered, dropped, subscribers, failCounts, emitting, emitted, drained,
           failed, overlapped, subscriptions>>

NotEmitting == [event |-> <<>>, targets |-> {}, resets |-> {}, removals |-> {}]

EmitterInit(names) ==
    /\ buffered = 0 /\ dropped = 0
    /\ subscribers = [n \in Names |-> IF n \in names THEN 1 ELSE 0]
    /\ failCounts = [n \in Names |-> IF n \in names THEN 0 ELSE -1]
    /\ emitting = [t \in Threads |-> NotEmitting]
    /\ emitted = {} /\ drained = 0
    /\ failed = [n \in Names |-> 0] /\ overlapped = {}
    /\ subscriptions = 1

Full == buffered = MaxLen
Subscribed == {n \in Names : subscribers[n] # 0}

DroppedNever == dropped
DroppedNow == IF Full THEN dropped + 1 ELSE dropped

(* A full deque makes room for an event at its other end.  The event of an   *)
(* emit is a tuple of one element, so that <<>> is none.                     *)
BeginEmit(t, e) ==
    /\ emitting[t] = NotEmitting
    /\ dropped' = DroppedNow
    /\ buffered' = IF Full THEN MaxLen ELSE buffered + 1
    /\ emitting' = [emitting EXCEPT ![t] =
            [NotEmitting EXCEPT !.event = <<e>>,
                                !.targets = {<<n, subscribers[n]>> : n \in Subscribed}]]
    /\ emitted' = emitted \cup {e}
    /\ UNCHANGED <<subscribers, failCounts, drained, failed, overlapped, subscriptions>>

(* A callback has returned. *)
CallbackReturns(t, c) ==
    /\ c \in emitting[t].targets
    /\ emitting' = [emitting EXCEPT ![t].targets = @ \ {c}, ![t].resets = @ \cup {c}]
    /\ UNCHANGED <<buffered, dropped, subscribers, failCounts, emitted, drained,
                   failed, overlapped, subscriptions>>

(* A callback has raised: its failure is counted at once, under its name, a *)
(* name that may no longer be subscribed, or may be of another callback by  *)
(* now; a removal waits for the end.                                        *)
CallbackRaises(t, c) ==
    /\ c \in emitting[t].targets
    /\ LET n == c[1]
           count == IF failCounts[n] = -1 THEN 1 ELSE failCounts[n] + 1
       IN  /\ failCounts' = [failCounts EXCEPT ![n] = count]
           /\ emitting' = [emitting EXCEPT
                    ![t].targets = @ \ {c},
                    ![t].removals = IF count >= MaxFailures THEN @ \cup {n} ELSE @]
           /\ failed' = IF c[2] = subscribers[n] /\ failed[n] < MaxFailures
                        THEN [failed EXCEPT ![n] = @ + 1] ELSE failed
    /\ UNCHANGED <<buffered, dropped, subscribers, emitted, drained, overlapped, subscriptions>>

(* SystemExit and KeyboardInterrupt leave emit() at once: nothing is counted, *)
(* no further callback is called, and no reset or removal is applied.       *)
CallbackExits(t, c) ==
    /\ c \in emitting[t].targets
    /\ emitting' = [emitting EXCEPT ![t] = NotEmitting]
    /\ UNCHANGED <<buffered, dropped, subscribers, failCounts, emitted, drained,
                   failed, overlapped, subscriptions>>

(* Names are reset if they still have a count, then removed, all by name.   *)
EndEmit(t) ==
    /\ emitting[t].event # <<>> /\ emitting[t].targets = {}
    /\ LET removed == emitting[t].removals
           reset   == {c[1] : c \in emitting[t].resets}
       IN  /\ failCounts' = [n \in Names |->
                   IF n \in removed THEN -1
                   ELSE IF n \in reset /\ failCounts[n] # -1 THEN 0 ELSE failCounts[n]]
           /\ subscribers' = [n \in Names |-> IF n \in removed THEN 0 ELSE subscribers[n]]
    /\ failed' = [n \in Names |->
            IF <<n, subscribers[n]>> \in emitting[t].resets /\ failed[n] < MaxFailures
            THEN 0 ELSE failed[n]]
    /\ emitting' = [emitting EXCEPT ![t] = NotEmitting]
    /\ UNCHANGED <<buffered, dropped, emitted, drained, overlapped, subscriptions>>

(* Emits under way still have a callback of this name to call, or to remove. *)
Outlived(n) ==
    \E t \in Threads : n \in emitting[t].removals \cup {c[1] : c \in emitting[t].targets}

Renew(n) ==
    /\ subscriptions < MaxSubscriptions
    /\ subscribers' = [subscribers EXCEPT ![n] = subscriptions + 1]
    /\ failed' = [failed EXCEPT ![n] = 0]
    /\ overlapped' = IF Outlived(n) THEN overlapped \cup {n} ELSE overlapped \ {n}
    /\ subscriptions' = subscriptions + 1
    /\ UNCHANGED <<buffered, dropped, emitting, emitted, drained>>

SubscribeKeepingCount(n) == Renew(n) /\ UNCHANGED failCounts

(* A name that is subscribed already gets another callback. *)
Subscribe(n) == Renew(n) /\ failCounts' = [failCounts EXCEPT ![n] = 0]

Unsubscribe(n) ==
    /\ subscribers[n] # 0 \/ failCounts[n] # -1
    /\ subscribers' = [subscribers EXCEPT ![n] = 0]
    /\ failCounts' = [failCounts EXCEPT ![n] = -1]
    /\ UNCHANGED <<buffered, dropped, emitting, emitted, drained, failed, overlapped,
                   subscriptions>>

(* Takes the n oldest events, or all there are. *)
Drain(n) ==
    /\ buffered > 0 /\ drained < MaxDrained
    /\ LET taken == IF n < buffered THEN n ELSE buffered
       IN  buffered' = buffered - taken /\ drained' = drained + taken
    /\ UNCHANGED <<dropped, subscribers, failCounts, emitting, emitted, failed, overlapped,
                   subscriptions>>

----------------------------------------------------------------------------
(***************************************************************************)
(* A subscription that is about to be removed automatically has itself     *)
(* failed MaxFailures times in a row, whichever threads called it and      *)
(* however their calls overlapped, unless it was made while an emit was    *)
(* under way that was to call, or to remove, an earlier callback of its    *)
(* name: that one's failures are then counted against it, and it may be    *)
(* removed without having failed at all (emit).                            *)
(***************************************************************************)
RemovedAfterFailures ==
    \A t \in Threads : \A n \in emitting[t].removals :
        subscribers[n] # 0 /\ n \notin overlapped => failed[n] = MaxFailures
=============================================================================
