------------------------------ MODULE Limiters ------------------------------
(***************************************************************************)
(* What may delay or refuse a call of a provider's client before it is     *)
(* sent, as operators on records: every method of the two classes runs to  *)
(* completion inside one turn of the event loop.                           *)
(***************************************************************************)
EXTENDS Integers, Sequences, FiniteSets

(***************************************************************************)
(* Process-wide request pacing, packages/upstream/src/rate-limiter.ts:     *)
(*   queue     the waiters, first in first out                             *)
(*   draining  a #drain loop is running; between two turns of the event    *)
(*             loop that means it is asleep                                *)
(*   since     time since #lastDispatchAt, saturated at MinInterval (the   *)
(*             code starts at minus infinity and compares with the         *)
(*             interval only)                                              *)
(* The statistics (dispatched, rejected, dispatchTimes) decide nothing.    *)
(***************************************************************************)
CONSTANTS
    MinInterval,        \* least time between two dispatches
    MaxQueueDepth       \* waiters beyond which acquire() rejects

\* An interval of 0 turns the limiter off; the code constructs one only to
\* pace (MusicBrainz, 1 request per second).
ASSUME LimiterPolicy ==
    /\ MinInterval \in Nat \ {0}
    /\ MaxQueueDepth \in Nat \ {0}

NewLimiter == [queue |-> <<>>, draining |-> FALSE, since |-> MinInterval]

Full(l) == Len(l.queue) >= MaxQueueDepth

Due(l) == l.since >= MinInterval

(* #drain, up to its next sleep: at most one dispatch per turn, since the  *)
(* interval is positive; the loop ends when the queue is empty.            *)
DrainTurn(l) ==
    IF l.queue # <<>> /\ Due(l)
    THEN [queue |-> Tail(l.queue), draining |-> Len(l.queue) > 1, since |-> 0]
    ELSE [l EXCEPT !.draining = l.queue # <<>>]

(* acquire, when the queue is not full: enqueue, then start a drain loop   *)
(* unless one is already running.                                          *)
Enqueue(l, w) ==
    LET k == [l EXCEPT !.queue = Append(@, w)]
    IN  IF l.draining THEN k ELSE DrainTurn(k)

LimiterTick(l) ==
    [l EXCEPT !.since = IF @ < MinInterval THEN @ + 1 ELSE @]

-----------------------------------------------------------------------------
(***************************************************************************)
(* The local sliding-window budget of one provider, packages/upstream/src/ *)
(* quota.ts.  A spend is kept as its AGE, not as its timestamp, and an age *)
(* saturates at MaxWindow, the longest window any policy can have: an      *)
(* older spend is outside every window.  Pruning is lazy, as in the code:  *)
(* a spend that has aged out stays in the list until the next method call  *)
(* looks at it.                                                            *)
(***************************************************************************)
CONSTANT MaxWindow      \* the longest sliding window of any policy

ASSUME QuotaHorizon == MaxWindow \in Nat \ {0}

Ages == 0 .. MaxWindow

NewQuota(limit, window) ==
    [limit |-> limit, window |-> window, spends |-> <<>>]

(* How many of the oldest spends have left the window; the list is ordered *)
(* oldest first, so they are a prefix of it.                               *)
Expired(q) == Cardinality({i \in DOMAIN q.spends : q.spends[i] >= q.window})

Prune(q) ==
    [q EXCEPT !.spends = SubSeq(@, Expired(q) + 1, Len(@))]

(* tryConsume(cost) is HasRoom and then Spend; a refusal still prunes.     *)
HasRoom(q, cost) == Len(Prune(q).spends) + cost <= q.limit

Spend(q, cost) ==
    [Prune(q) EXCEPT !.spends = @ \o [i \in 1 .. cost |-> 0]]

(* One unit of time passes.                                                *)
QuotaTick(q) ==
    [q EXCEPT !.spends =
        [i \in DOMAIN @ |-> IF @[i] < MaxWindow THEN @[i] + 1 ELSE MaxWindow]]
=============================================================================
