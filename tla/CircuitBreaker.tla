--------------------------- MODULE CircuitBreaker ---------------------------
(***************************************************************************)
(* The per-provider circuit breaker, packages/upstream/src/                *)
(* circuit-breaker.ts.  The class keeps its state in private fields and    *)
(* every method runs to completion inside one turn of the event loop, so a *)
(* breaker is a record here and every method is an operator on it; the     *)
(* module ProviderClient interleaves the calls.                            *)
(*                                                                         *)
(* Deadlines are kept as distances, so the state is finite without a bound:*)
(*   wait     how long until #nextAttemptAt (0: reached)                   *)
(*   backoff  the reset window the NEXT open will use.  The code keeps the *)
(*            number of consecutive opens and computes the window          *)
(*            min(max, reset * 2^(streak-1)); doubling the window itself   *)
(*            and clamping it gives the same value at every open.          *)
(*   failures #consecutiveFailures, saturated at FailureThreshold: the code*)
(*            only ever compares it with that threshold.                   *)
(* #opens and #openedAt are reported in messages and decide nothing.       *)
(***************************************************************************)
EXTENDS Integers

CONSTANTS
    FailureThreshold,   \* consecutive provider failures before opening
    ResetTimeout,       \* time units spent open before trial traffic
    SuccessThreshold,   \* half-open successes required to close
    MaxResetTimeout     \* ceiling of the re-open backoff

ASSUME BreakerPolicy ==
    /\ FailureThreshold \in Nat \ {0}
    /\ ResetTimeout \in Nat
    /\ SuccessThreshold \in Nat \ {0}
    /\ MaxResetTimeout \in Nat /\ MaxResetTimeout >= ResetTimeout

Breakers ==
    [state     : {"closed", "open", "half_open"},
     failures  : 0 .. FailureThreshold,
     successes : 0 .. SuccessThreshold - 1,
     inFlight  : 0 .. SuccessThreshold,
     wait      : 0 .. MaxResetTimeout,
     backoff   : 0 .. MaxResetTimeout]

Lesser(a, b) == IF a <= b THEN a ELSE b

NewBreaker ==
    [state |-> "closed", failures |-> 0, successes |-> 0, inFlight |-> 0,
     wait |-> 0, backoff |-> ResetTimeout]

(* The lazy transition of the state getter: no timer fires, so an open     *)
(* circuit whose window has passed turns half-open when somebody looks.    *)
Refresh(b) ==
    IF b.state = "open" /\ b.wait = 0
    THEN [b EXCEPT !.state = "half_open", !.successes = 0, !.inFlight = 0]
    ELSE b

(* #open: the window starts now, at the current rung of the ladder.        *)
Open(b) ==
    [b EXCEPT !.state     = "open",
              !.wait      = b.backoff,
              !.backoff   = Lesser(MaxResetTimeout, 2 * b.backoff),
              !.successes = 0,
              !.inFlight  = 0]

(* #close: back to the state the breaker was constructed in.               *)
Close(b) == NewBreaker

(* The two halves of tryAcquire, both on a refreshed breaker.              *)
Admits(b) ==
    \/ b.state = "closed"
    \/ b.state = "half_open" /\ b.inFlight < SuccessThreshold

Reserve(b) ==
    IF b.state = "half_open" THEN [b EXCEPT !.inFlight = @ + 1] ELSE b

Release(b) == [b EXCEPT !.inFlight = IF @ > 0 THEN @ - 1 ELSE 0]

(* recordSuccess and recordFailure look at the stored state, not at the    *)
(* getter: an answer that arrives after the window but before anybody      *)
(* looked is still recorded against an open circuit.                       *)
RecordSuccess(b) ==
    IF b.state = "half_open"
    THEN LET c == [Release(b) EXCEPT !.successes = @ + 1,
                                     !.backoff   = ResetTimeout]
         IN  IF c.successes >= SuccessThreshold THEN Close(c) ELSE c
    ELSE [b EXCEPT !.failures = 0]

RecordFailure(b) ==
    IF b.state = "half_open"
    THEN Open(Release(b))
    ELSE LET c == [b EXCEPT !.failures = Lesser(FailureThreshold, @ + 1)]
         IN  IF c.failures >= FailureThreshold THEN Open(c) ELSE c

(* One unit of time passes.                                                *)
BreakerTick(b) == [b EXCEPT !.wait = IF @ > 0 THEN @ - 1 ELSE 0]
=============================================================================
