--------------------------- MODULE ProviderClient ---------------------------
(***************************************************************************)
(* One upstream provider's client, packages/upstream/src/provider-         *)
(* client.ts: the kill switch, the circuit breaker, the local quota, the   *)
(* rate limiter and the retry loop, with any number of requests in flight  *)
(* at once.                                                                *)
(*                                                                         *)
(* JavaScript runs a turn of the event loop to completion, so an action is *)
(* everything #execute does between two awaits.  A request waits in one of *)
(* three places:                                                           *)
(*   queued    in the rate limiter, at `await this.#rateLimiter.acquire()` *)
(*   inflight  at `await this.#attempt(...)`: sent, headers or body still  *)
(*             to come                                                     *)
(*   sleeping  at `await this.#clock.sleep(waitMs)`, between two attempts  *)
(* and is idle when its caller has no call outstanding.                    *)
(*                                                                         *)
(* The kill switch and the breaker are consulted once per call, before the *)
(* first attempt; the quota and the limiter before every attempt.          *)
(***************************************************************************)
EXTENDS CircuitBreaker, Limiters

CONSTANTS
    Requests,           \* the callers that may have a call outstanding
    MaxAttempts,        \* retry.maxAttempts
    Metered,            \* the client has a quota
    QuotaLimit,         \* its limit, per MaxWindow
    Paced               \* the client has a rate limiter

ASSUME ClientConfig ==
    /\ IsFiniteSet(Requests)
    /\ MaxAttempts \in Nat \ {0}
    /\ QuotaLimit \in Nat \ {0}
    /\ Metered \in BOOLEAN
    /\ Paced \in BOOLEAN

VARIABLES
    enabled,    \* killSwitch.isEnabled(provider)
    up,         \* environment: the provider answers (TRUE) or may fail
    breaker,    \* the circuit breaker
    quota,      \* the quota counter
    limiter,    \* the rate limiter
    st,         \* where each request waits
    attempt,    \* the attempt each outstanding request is at
    pass        \* history: how the breaker admitted the outstanding call

vars == <<enabled, up, breaker, quota, limiter, st, attempt, pass>>

(***************************************************************************)
(* pass[r] is "normal" for a call admitted by a closed circuit, "slot" for *)
(* a trial call that holds one of the slots #halfOpenInFlight counts, and  *)
(* "stale" for a trial call whose half-open episode has ended: #open,      *)
(* #close and the getter set the counter to 0 and forget the trials still  *)
(* running.                                                                *)
(***************************************************************************)
Passes == {"none", "normal", "slot", "stale"}

SlotsOf(p) == {r \in Requests : p[r] = "slot"}

TypeOK ==
    /\ enabled \in BOOLEAN
    /\ up \in BOOLEAN
    /\ breaker \in Breakers
    /\ quota \in [limit : {QuotaLimit}, window : {MaxWindow}, spends : Seq(Ages)]
    /\ limiter \in [queue : Seq(Requests), draining : BOOLEAN,
                    since : 0 .. MinInterval]
    /\ st \in [Requests -> {"idle", "queued", "inflight", "sleeping"}]
    /\ attempt \in [Requests -> 0 .. MaxAttempts]
    /\ pass \in [Requests -> Passes]

Init ==
    /\ enabled = TRUE
    /\ up = TRUE
    /\ breaker = NewBreaker
    /\ quota = NewQuota(QuotaLimit, MaxWindow)
    /\ limiter = NewLimiter
    /\ st = [r \in Requests |-> "idle"]
    /\ attempt = [r \in Requests |-> 0]
    /\ pass = [r \in Requests |-> "none"]

-----------------------------------------------------------------------------

(* The trials a breaker in this state still accounts for.                  *)
Surviving(b, p) ==
    IF b.state = "half_open"
    THEN p
    ELSE [r \in Requests |-> IF p[r] = "slot" THEN "stale" ELSE p[r]]

(* r's call returns or throws, the breaker having recorded b.              *)
Settle(r, b, p) ==
    /\ breaker' = b
    /\ pass' = Surviving(b, [p EXCEPT ![r] = "none"])
    /\ st' = [st EXCEPT ![r] = "idle"]
    /\ attempt' = [attempt EXCEPT ![r] = 0]

\* Mutant: a local refusal throws without telling the breaker anything.
RefusedUnrecorded(r, b, p) ==
    /\ \/ Metered /\ ~HasRoom(quota, 1)
       \/ Paced /\ Full(limiter)
    /\ Settle(r, b, p)
    /\ UNCHANGED <<enabled, up, quota, limiter>>

(* The attempt is refused locally: the quota is spent, or the limiter's    *)
(* queue is full.  The quota is consumed before the queue is tried.  Both  *)
(* refusals tell the breaker recordSuccess.                                *)
Refused(r, b, p) ==
    /\ \/ /\ Metered /\ ~HasRoom(quota, 1)
          /\ quota' = Prune(quota)
       \/ /\ Paced /\ Full(limiter)
          /\ Metered => HasRoom(quota, 1)
          /\ quota' = IF Metered THEN Spend(quota, 1) ELSE quota
    /\ Settle(r, RecordSuccess(b), p)
    /\ UNCHANGED <<enabled, up, limiter>>

\* Mutant: a retry starts again from the first attempt.
StartedUncounted(r, n, b, p) ==
    /\ Metered => HasRoom(quota, 1)
    /\ quota' = IF Metered THEN Spend(quota, 1) ELSE quota
    /\ Paced => ~Full(limiter)
    /\ limiter' = IF Paced THEN Enqueue(limiter, r) ELSE limiter
    /\ st' = [st EXCEPT ![r] =
                 IF Paced /\ (limiter.draining \/ ~Due(limiter))
                 THEN "queued" ELSE "inflight"]
    /\ breaker' = b
    /\ pass' = p
    /\ attempt' = [attempt EXCEPT ![r] = 1]
    /\ UNCHANGED <<enabled, up>>

(* The attempt proceeds: straight to the provider, or through the limiter, *)
(* which may dispatch it in the same turn.                                 *)
Started(r, n, b, p) ==
    /\ Metered => HasRoom(quota, 1)
    /\ quota' = IF Metered THEN Spend(quota, 1) ELSE quota
    /\ Paced => ~Full(limiter)
    /\ limiter' = IF Paced THEN Enqueue(limiter, r) ELSE limiter
    /\ st' = [st EXCEPT ![r] =
                 IF Paced /\ (limiter.draining \/ ~Due(limiter))
                 THEN "queued" ELSE "inflight"]
    /\ breaker' = b
    /\ pass' = p
    /\ attempt' = [attempt EXCEPT ![r] = n]
    /\ UNCHANGED <<enabled, up>>

(* The head of #execute: a disabled provider and an open circuit throw     *)
(* before anything is spent.                                               *)
Admitted(r) ==
    /\ st[r] = "idle"
    /\ enabled
    /\ Admits(Refresh(breaker))

Ticket(r) ==
    [pass EXCEPT ![r] =
        IF Refresh(breaker).state = "half_open" THEN "slot" ELSE "normal"]

Call(r) ==
    /\ Admitted(r)
    /\ Started(r, 1, Reserve(Refresh(breaker)), Ticket(r))

CallRefused(r) ==
    /\ Admitted(r)
    /\ Refused(r, Reserve(Refresh(breaker)), Ticket(r))

(* Whoever reads `breaker.state` (a refused call, snapshot, the cache's    *)
(* probe test, GET /v1/config) performs the lazy transition.               *)
ReadState ==
    /\ Refresh(breaker) # breaker
    /\ breaker' = Refresh(breaker)
    /\ UNCHANGED <<enabled, up, quota, limiter, st, attempt, pass>>

(* The provider answered: a 2xx, an accepted status, or a 4xx, which is an *)
(* error to the caller, never retried, and a success to the breaker.       *)
Answered(r) ==
    /\ st[r] = "inflight"
    /\ Settle(r, RecordSuccess(breaker), pass)
    /\ UNCHANGED <<enabled, up, quota, limiter>>

(* Timeout, network error, 429, 408 or 5xx, with another attempt to come.  *)
FailedRetry(r) ==
    /\ st[r] = "inflight"
    /\ ~up
    /\ attempt[r] < MaxAttempts
    /\ breaker' = RecordFailure(breaker)
    /\ pass' = Surviving(RecordFailure(breaker), pass)
    /\ st' = [st EXCEPT ![r] = "sleeping"]
    /\ UNCHANGED <<enabled, up, quota, limiter, attempt>>

(* The same failure on the last attempt, or on any attempt when the        *)
(* provider's Retry-After is longer than the client will wait.             *)
FailedForGood(r) ==
    /\ st[r] = "inflight"
    /\ ~up
    /\ Settle(r, RecordFailure(breaker), pass)
    /\ UNCHANGED <<enabled, up, quota, limiter>>

(* The jittered backoff is over.  Neither the kill switch nor the breaker  *)
(* is asked again.                                                         *)
Retry(r) ==
    /\ st[r] = "sleeping"
    /\ Started(r, attempt[r] + 1, breaker, pass)

RetryRefused(r) ==
    /\ st[r] = "sleeping"
    /\ Refused(r, breaker, pass)

(* The limiter's drain loop wakes up and the interval has passed.          *)
Dispatch ==
    /\ limiter.draining
    /\ Due(limiter)
    /\ limiter' = DrainTurn(limiter)
    /\ st' = [st EXCEPT ![Head(limiter.queue)] = "inflight"]
    /\ UNCHANGED <<enabled, up, breaker, quota, attempt, pass>>

(* An operator edits the kill switch.                                      *)
Toggle ==
    /\ enabled' = ~enabled
    /\ UNCHANGED <<up, breaker, quota, limiter, st, attempt, pass>>

(* Environment: the provider falls over or recovers.                       *)
Flap ==
    /\ up' = ~up
    /\ UNCHANGED <<enabled, breaker, quota, limiter, st, attempt, pass>>

Tick ==
    /\ breaker' = BreakerTick(breaker)
    /\ quota' = QuotaTick(quota)
    /\ limiter' = LimiterTick(limiter)
    /\ UNCHANGED <<enabled, up, st, attempt, pass>>

Next ==
    \/ \E r \in Requests :
          \/ Call(r) \/ CallRefused(r)
          \/ Answered(r) \/ FailedRetry(r) \/ FailedForGood(r)
          \/ Retry(r) \/ RetryRefused(r)
    \/ ReadState \/ Dispatch \/ Toggle \/ Flap \/ Tick

Spec == Init /\ [][Next]_vars

(***************************************************************************)
(* Fairness.  Time passes; a sleep ends; the drain loop's timer fires; an  *)
(* attempt ends, because the abort timer bounds the wait for the headers   *)
(* and the HTTP client's own body timeout the rest.  Callers keep coming:  *)
(* this one is the traffic, not the code, and only Recovery needs it.      *)
(***************************************************************************)
Fairness ==
    /\ WF_vars(Tick)
    /\ WF_vars(Dispatch)
    /\ \A r \in Requests :
          /\ WF_vars(Answered(r) \/ FailedForGood(r))
          /\ WF_vars(Retry(r) \/ RetryRefused(r))

Traffic == \A r \in Requests : WF_vars(Call(r) \/ CallRefused(r))

FairSpec == Spec /\ Fairness /\ Traffic

-----------------------------------------------------------------------------

(* A half-open slot is never leaked: whatever order late answers, refusals *)
(* and re-openings come in, the breaker counts no more trials in flight    *)
(* than there are live calls holding a slot.  A slot nobody holds is one   *)
(* that nobody returns, and SuccessThreshold of them wedge the circuit     *)
(* half-open: tryAcquire would refuse every trial from then on.            *)
Accounted(b, p) ==
    /\ b.inFlight <= Cardinality(SlotsOf(p))
    /\ SlotsOf(p) # {} => b.state = "half_open"
    /\ b.state # "half_open" => b.inFlight = 0

SleepersMayRetry ==
    \A r \in Requests : st[r] = "sleeping" => attempt[r] < MaxAttempts

NoSlotLeak ==
    /\ Accounted(breaker, pass)
    /\ \A r \in SlotsOf(pass) : st[r] # "idle"

(* The limiter loses nobody: every request awaiting acquire() stands in    *)
(* the queue exactly once, nobody else does, and while anybody waits a     *)
(* drain loop is alive to serve them.                                      *)
QueueIntegrity ==
    LET q == limiter.queue
    IN  /\ {q[i] : i \in DOMAIN q} = {r \in Requests : st[r] = "queued"}
        /\ \A i, j \in DOMAIN q : q[i] = q[j] => i = j
        /\ limiter.draining <=> q # <<>>

(* Every call settles: no order of queueing, sleeping, refusing and        *)
(* failing leaves a caller waiting on its promise for ever.                *)
CallsSettle == \A r \in Requests : (st[r] # "idle") ~> (st[r] = "idle")

=============================================================================
