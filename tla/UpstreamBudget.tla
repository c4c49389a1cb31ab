--------------------------- MODULE UpstreamBudget ---------------------------
(***************************************************************************)
(* The per-subject upstream-call budget: apps/bff/src/lib/                 *)
(* upstream-budget.ts and its hooks in plugins/upstream-budget.ts.         *)
(*                                                                         *)
(* One subject is modelled; keys of different subjects share nothing.  An  *)
(* HTTP request reserves one unit of the current window's counter before   *)
(* its handler runs, counts the provider calls it causes, and settles the  *)
(* difference after its response.  The two Lua scripts RESERVE and SETTLE  *)
(* are atomic in Redis, so each is one action.  The key a request reserves *)
(* under is computed from the process's clock before the script is sent,   *)
(* so the script may run when that window has ended, and even when Redis   *)
(* has removed its counter, whose TTL is one window from its first unit.   *)
(***************************************************************************)
EXTENDS Integers, FiniteSets, FiniteSetsExt

CONSTANTS
    Requests,       \* the subject's HTTP requests
    Limit,          \* units per window
    MaxCalls,       \* bound: provider calls of one request, retries included
    L,              \* windowSeconds, in ticks
    Timeout,        \* the Redis client's commandTimeout, in ticks
    MaxTime         \* bound on the clock

ASSUME RequestsAssumption == IsFiniteSet(Requests)
ASSUME LimitAssumption == Limit \in Nat \ {0}
ASSUME LengthAssumption == L \in Nat \ {0}
ASSUME TimeoutAssumption == Timeout \in 1 .. L
ASSUME CallsAssumption == MaxCalls \in Nat
ASSUME TimeAssumption == MaxTime \in Nat

VARIABLES
    now,        \* the clock
    key,        \* per window: is the counter there, its value, its expiry
    stage,      \* where each request is
    win,        \* the window in whose key each request reserves
    calls       \* account.calls of each request

vars == <<now, key, stage, win, calls>>

Windows == 0 .. MaxTime \div L
Window == now \div L
End(w) == (w + 1) * L

(* A counter without expiry, which SETTLE takes care never to create.      *)
Never == -1

NoKey == [there |-> FALSE, count |-> 0, expires |-> Never]

TypeOK ==
    /\ now \in 0 .. MaxTime
    /\ key \in [Windows -> [there : BOOLEAN, count : Nat,
                            expires : Nat \cup {Never}]]
    /\ stage \in [Requests -> {"new", "asking", "refused", "open", "sent",
                               "settled", "lost"}]
    /\ win \in [Requests -> Windows]
    /\ calls \in [Requests -> 0 .. MaxCalls]
    /\ \A w \in Windows : ~key[w].there => key[w].count = 0

Init ==
    /\ now = 0
    /\ key = [w \in Windows |-> NoKey]
    /\ stage = [r \in Requests |-> "new"]
    /\ win = [r \in Requests |-> 0]
    /\ calls = [r \in Requests |-> 0]

-----------------------------------------------------------------------------

(* RESERVE on an admitted request: INCRBY, and EXPIRE on the first unit    *)
(* (also the first after refunds brought the counter back to nothing).     *)
Taken(k) ==
    [there   |-> TRUE,
     count   |-> k.count + 1,
     expires |-> IF k.count = 0 THEN now + L ELSE k.expires]

(* reserve: the key is computed, and the script is on its way.             *)
Begin(r) ==
    /\ stage[r] = "new"
    /\ stage' = [stage EXCEPT ![r] = "asking"]
    /\ win' = [win EXCEPT ![r] = Window]
    /\ UNCHANGED <<now, key, calls>>

(* Mutant: one unit too many.                                              *)
ReserveOneMore(r) ==
    /\ stage[r] = "asking"
    /\ now < End(win[r]) + Timeout
    /\ key[win[r]].count <= Limit
    /\ key' = [key EXCEPT ![win[r]] = Taken(@)]
    /\ stage' = [stage EXCEPT ![r] = "open"]
    /\ UNCHANGED <<now, win, calls>>

(* preHandler: the reservation is granted.  The request asked within its   *)
(* window and waits for less than Timeout, so the script runs less than    *)
(* Timeout after the window's end.                                         *)
Reserve(r) ==
    /\ stage[r] = "asking"
    /\ now < End(win[r]) + Timeout
    /\ key[win[r]].count < Limit
    /\ key' = [key EXCEPT ![win[r]] = Taken(@)]
    /\ stage' = [stage EXCEPT ![r] = "open"]
    /\ UNCHANGED <<now, win, calls>>

(* preHandler: 429.  A refused request leaves the counter alone.           *)
Refuse(r) ==
    /\ stage[r] = "asking"
    /\ key[win[r]].count >= Limit
    /\ stage' = [stage EXCEPT ![r] = "refused"]
    /\ UNCHANGED <<now, key, win, calls>>

(* preHandler: Redis cannot be reached, the request fails closed with 503. *)
FailClosed(r) ==
    /\ stage[r] = "asking"
    /\ stage' = [stage EXCEPT ![r] = "refused"]
    /\ UNCHANGED <<now, key, win, calls>>

(* The answer is lost, or the script runs when the request has given up on *)
(* it, whenever that is: 503 too, but the unit stays taken, since there is *)
(* no reservation to settle.                                               *)
ReserveUnanswered(r) ==
    /\ stage[r] = "asking"
    /\ key[win[r]].count < Limit
    /\ key' = [key EXCEPT ![win[r]] = Taken(@)]
    /\ stage' = [stage EXCEPT ![r] = "refused"]
    /\ UNCHANGED <<now, win, calls>>

(* chargeUpstreamCall: an attempt of the provider client on behalf of r.   *)
CallProvider(r) ==
    /\ stage[r] = "open"
    /\ calls[r] < MaxCalls
    /\ calls' = [calls EXCEPT ![r] = @ + 1]
    /\ UNCHANGED <<now, key, stage, win>>

(* The handler is done and the response is sent.                           *)
Respond(r) ==
    /\ stage[r] = "open"
    /\ stage' = [stage EXCEPT ![r] = "sent"]
    /\ UNCHANGED <<now, key, win, calls>>

(* Mutant: a plain INCRBY.                                                 *)
SettledBare(k, delta) ==
    [k EXCEPT !.there = TRUE, !.count = Max({0, @ + delta})]

(* SETTLE: the difference is applied unless the counter has no TTL, which  *)
(* is how Redis reports a counter that is gone; never below zero.          *)
Settled(k, delta) ==
    IF ~k.there \/ k.expires = Never
    THEN k
    ELSE [k EXCEPT !.count = Max({0, @ + delta})]

(* onResponse: a delta of zero is not sent at all.                         *)
Settle(r) ==
    /\ stage[r] = "sent"
    /\ key' = IF calls[r] = 1
              THEN key
              ELSE [key EXCEPT ![win[r]] = Settled(@, calls[r] - 1)]
    /\ stage' = [stage EXCEPT ![r] = "settled"]
    /\ UNCHANGED <<now, win, calls>>

(* The settle could not be written; onSettleFailure only logs it.          *)
SettleLost(r) ==
    /\ stage[r] = "sent"
    /\ calls[r] # 1
    /\ stage' = [stage EXCEPT ![r] = "lost"]
    /\ UNCHANGED <<now, key, win, calls>>

(* The node dies between the reservation and the settle.                   *)
Crash(r) ==
    /\ stage[r] \in {"open", "sent"}
    /\ stage' = [stage EXCEPT ![r] = "lost"]
    /\ UNCHANGED <<now, key, win, calls>>

(* Time passes, and Redis drops the counters whose TTL has ended.          *)
Tick ==
    /\ now < MaxTime
    /\ now' = now + 1
    /\ key' = [w \in Windows |->
                 IF key[w].there /\ key[w].expires # Never
                                 /\ key[w].expires <= now + 1
                 THEN NoKey ELSE key[w]]
    /\ UNCHANGED <<stage, win, calls>>

Next ==
    \/ \E r \in Requests :
          \/ Begin(r) \/ Reserve(r) \/ Refuse(r) \/ FailClosed(r)
          \/ ReserveUnanswered(r) \/ CallProvider(r) \/ Respond(r)
          \/ Settle(r) \/ SettleLost(r) \/ Crash(r)
    \/ Tick

Spec == Init /\ [][Next]_vars

-----------------------------------------------------------------------------

(* Requests that were granted a unit of window w and hold it, or have made *)
(* a call, or died without giving their unit back.                         *)
Spenders(w) ==
    {r \in Requests :
        /\ win[r] = w
        /\ \/ stage[r] \in {"open", "sent", "lost"}
           \/ stage[r] = "settled" /\ calls[r] > 0}

(* What RESERVE's check-and-increment and the guarded SETTLE are for:      *)
(* while a window lasts no more than Limit of its requests ever reach a    *)
(* provider, however many run at once, cache hits give their unit back,    *)
(* settles come late or are lost, and nodes die.  A request that asked     *)
(* before the window's end and is answered after it may find the counter   *)
(* gone and start it again, so with those the window grants twice Limit at *)
(* the most.                                                               *)
SpendersBounded ==
    \A w \in Windows :
       Cardinality(Spenders(w)) <= IF now < End(w) THEN Limit ELSE 2 * Limit

(* "A counter with no expiry is a subject permanently throttled by a       *)
(* refund": whatever settles land after the window's counter is gone,      *)
(* every counter in Redis has an expiry.                                   *)
CountersExpire == \A w \in Windows : key[w].there => key[w].expires # Never

-----------------------------------------------------------------------------

(* The unit of a request, as the promise knows it: a request whose node    *)
(* died holds its unit for good, and one that got no answer has none.      *)
UnitOf(r) ==
    CASE stage[r] = "new" -> "none"
      [] stage[r] = "asking" -> "asked"
      [] stage[r] = "refused" -> "refused"
      [] stage[r] \in {"open", "sent", "lost"} -> "held"
      [] stage[r] = "settled" -> IF calls[r] > 0 THEN "spent" ELSE "returned"

A == INSTANCE Allowance WITH
    window <- Window,
    unit   <- [r \in Requests |-> UnitOf(r)],
    at     <- win,
    called <- [r \in Requests |-> calls[r] > 0]

(* The counters in Redis, reserved before the handler, settled after the   *)
(* response, refunded, expired or never settled at all, implement the      *)
(* allowance: no interleaving of requests, windows and failures grants a   *)
(* unit of a window whose units are gone, lets a request without a unit    *)
(* call a provider, or gives back the unit of one that did.                *)
KeepsAllowance == A!Spec
=============================================================================
