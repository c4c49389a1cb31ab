----------------------------- MODULE CacheFirst -----------------------------
(***************************************************************************)
(* The read-through cache of one provider, packages/upstream/src/cache/    *)
(* cache-first.ts with single-flight.ts, in front of that provider's       *)
(* circuit breaker.  Many lookups run at once; an action is what one of    *)
(* them does between two awaits, together with the database statement the  *)
(* await was for.                                                          *)
(*                                                                         *)
(* A provider call is one step here: admitted by the breaker, then         *)
(* answered or failed.  The retry loop, the quota and the limiter inside   *)
(* it are ProviderClient's subject; to the cache they are one load that    *)
(* succeeds or throws.  The `refresh` option has no caller and is left     *)
(* out; `peek` reads and never changes anything.                           *)
(***************************************************************************)
EXTENDS CircuitBreaker, FiniteSets

CONSTANTS
    Callers,            \* concurrent lookups
    Keys                \* cache keys of the provider

VARIABLES
    row,        \* upstream_cache: the row of each key
    flight,     \* SingleFlight's map: the fill in flight for each key
    calls,      \* history: provider calls outstanding per key
    stage,      \* where each lookup waits
    key,        \* the key each lookup is for
    had,        \* the usable row a waiting lookup gave up
    result,     \* how each caller's last lookup ended
    circuit,    \* the provider's circuit breaker
    answering   \* environment: the provider answers, fails, or is switched off

cacheVars == <<row, flight, calls, stage, key, had, result, circuit, answering>>

(* How a fill may have settled: with the payload, because the load failed, *)
(* or because of the write gate or the database.                           *)
Settled == {"filled", "loadFailed", "failed"}

(* "poison" does not parse; "spoilt" is both expired and unparseable.      *)
Rows == {"none", "fresh", "expired", "poison", "spoilt"}

CacheTypeOK ==
    /\ row \in [Keys -> Rows]
    /\ flight \in [Keys -> {"none", "loading", "storing"} \cup Settled]
    /\ calls \in [Keys -> 0 .. Cardinality(Callers)]
    /\ stage \in [Callers -> {"idle", "reading", "deleting", "waiting"} \cup Settled]
    /\ key \in [Callers -> Keys]
    /\ had \in [Callers -> {"none", "fresh", "expired"}]
    /\ result \in [Callers -> {"none", "hit", "stale", "filled", "error"}]
    /\ circuit \in Breakers
    /\ answering \in {"yes", "no", "off"}

(* A deployment starts on whatever rows the previous one left.             *)
CacheInit ==
    /\ row \in [Keys -> Rows]
    /\ flight = [k \in Keys |-> "none"]
    /\ calls = [k \in Keys |-> 0]
    /\ stage = [c \in Callers |-> "idle"]
    /\ key \in [Callers -> Keys]
    /\ had = [c \in Callers |-> "none"]
    /\ result = [c \in Callers |-> "none"]
    /\ circuit = NewBreaker
    /\ answering = "yes"

-----------------------------------------------------------------------------

Return(c, how) ==
    /\ stage' = [stage EXCEPT ![c] = "idle"]
    /\ result' = [result EXCEPT ![c] = how]

\* Mutant: a load failure is rethrown unless the waiter was a probe.
FallbackNoStale(c, loadFailed) ==
    IF loadFailed /\ had[c] = "fresh" THEN "hit" ELSE "error"

(* The rejection of a shared fill, as each waiter handles it: only a load  *)
(* failure falls back to the row the waiter had.                           *)
Fallback(c, loadFailed) ==
    IF ~loadFailed THEN "error"
    ELSE CASE had[c] = "fresh"   -> "hit"
           [] had[c] = "expired" -> "stale"
           [] had[c] = "none"    -> "error"

Fly(k, how) == flight' = [flight EXCEPT ![k] = how]

Wait(c, row0) ==
    /\ stage' = [stage EXCEPT ![c] = "waiting"]
    /\ had' = [had EXCEPT ![c] = row0]
    /\ UNCHANGED result

(* The first turn of the provider call: the kill switch is asked, then the *)
(* breaker, and a refusal by either is a load that has failed.             *)
Start(k, b) ==
    \/ /\ answering = "off"
       /\ Fly(k, "loadFailed")
       /\ circuit' = b
       /\ UNCHANGED calls
    \/ /\ answering # "off" /\ ~Admits(Refresh(b))
       /\ Fly(k, "loadFailed")
       /\ circuit' = Refresh(b)
       /\ UNCHANGED calls
    \/ /\ answering # "off" /\ Admits(Refresh(b))
       /\ Fly(k, "loading")
       /\ circuit' = Reserve(Refresh(b))
       /\ calls' = [calls EXCEPT ![k] = @ + 1]

\* Mutant: every miss calls the provider, whoever else is already waiting.
JoinUnshared(c, k, row0, b) == Wait(c, row0) /\ Start(k, b)

(* Join the fill of k, settled or not, while it is in the map, or start    *)
(* it.  b is the breaker as last read.                                     *)
Join(c, k, row0, b) ==
    /\ Wait(c, row0)
    /\ \/ flight[k] # "none" /\ circuit' = b /\ UNCHANGED <<flight, calls>>
       \/ flight[k] = "none" /\ Start(k, b)

Lookup(c, k) ==
    /\ stage[c] = "idle"
    /\ stage' = [stage EXCEPT ![c] = "reading"]
    /\ key' = [key EXCEPT ![c] = k]
    /\ result' = [result EXCEPT ![c] = "none"]
    /\ UNCHANGED <<row, flight, calls, had, circuit, answering>>

Reads(c, rows) == stage[c] = "reading" /\ row[key[c]] \in rows

\* Mutant: the half-open probe is not wired in.
ProbeNeverWanted == FALSE

(* probeWanted: reading the breaker's state, which may turn it half-open.  *)
ProbeWanted == Refresh(circuit).state = "half_open"

(* A fresh row, and no trial wanted.                                       *)
Hit(c) ==
    /\ Reads(c, {"fresh"})
    /\ ~ProbeWanted
    /\ Return(c, "hit")
    /\ UNCHANGED <<row, flight, calls, key, had, circuit, answering>>

(* A fresh row spent on a half-open trial.                                 *)
Probe(c) ==
    /\ Reads(c, {"fresh"})
    /\ ProbeWanted
    /\ Join(c, key[c], "fresh", Refresh(circuit))
    /\ UNCHANGED <<row, key, answering>>

(* No row, or one past its TTL; an expired row that does not parse is no   *)
(* fallback.                                                               *)
Miss(c) ==
    /\ Reads(c, {"none", "expired", "spoilt"})
    /\ Join(c, key[c], IF row[key[c]] = "expired" THEN "expired" ELSE "none",
            circuit)
    /\ UNCHANGED <<row, key, answering>>

(* An unexpired row that does not parse is deleted, whatever it has become *)
(* by the time the statement runs, and then counts as a miss.              *)
Poisoned(c) ==
    /\ Reads(c, {"poison"})
    /\ stage' = [stage EXCEPT ![c] = "deleting"]
    /\ UNCHANGED <<row, flight, calls, key, had, result, circuit, answering>>

Evicted(c) ==
    /\ stage[c] = "deleting"
    /\ row' = [row EXCEPT ![key[c]] = "none"]
    /\ Join(c, key[c], "none", circuit)
    /\ UNCHANGED <<key, answering>>

(* The provider call returns a payload that parses: it is written next.    *)
Loaded(k) ==
    /\ flight[k] = "loading"
    /\ flight' = [flight EXCEPT ![k] = "storing"]
    /\ calls' = [calls EXCEPT ![k] = @ - 1]
    /\ circuit' = RecordSuccess(circuit)
    /\ UNCHANGED <<row, stage, key, had, result, answering>>

(* The call answers, but what it returns does not parse: the write gate    *)
(* throws, and that is not a load failure.                                 *)
Malformed(k) ==
    /\ flight[k] = "loading"
    /\ Fly(k, "failed")
    /\ calls' = [calls EXCEPT ![k] = @ - 1]
    /\ circuit' = RecordSuccess(circuit)
    /\ UNCHANGED <<row, stage, key, had, result, answering>>

(* The call throws: a provider failure when the provider is down, or an    *)
(* answer such as a 404, or a refusal by the quota or the limiter, that    *)
(* the breaker takes for a success.                                        *)
LoadFails(k) ==
    /\ flight[k] = "loading"
    /\ Fly(k, "loadFailed")
    /\ calls' = [calls EXCEPT ![k] = @ - 1]
    /\ \/ circuit' = RecordSuccess(circuit)
       \/ answering # "yes" /\ circuit' = RecordFailure(circuit)
    /\ UNCHANGED <<row, stage, key, had, result, answering>>

Stored(k) ==
    /\ flight[k] = "storing"
    /\ row' = [row EXCEPT ![k] = "fresh"]
    /\ Fly(k, "filled")
    /\ UNCHANGED <<calls, stage, key, had, result, circuit, answering>>

(* The database fails the write, or the governor's queries after it, when  *)
(* the row is there and may be read.                                       *)
StoreFails(k) ==
    /\ flight[k] = "storing"
    /\ Fly(k, "failed")
    /\ row' = row \/ row' = [row EXCEPT ![k] = "fresh"]
    /\ UNCHANGED <<calls, stage, key, had, result, circuit, answering>>

Waiters(k) == {c \in Callers : stage[c] = "waiting" /\ key[c] = k}

(* finally: a settled fill leaves the map, and the promise its waiters     *)
(* await settles; each of them goes on in a turn of his own.               *)
Remove(k) ==
    /\ flight[k] \in Settled
    /\ Fly(k, "none")
    /\ stage' = [c \in Callers |-> IF c \in Waiters(k) THEN flight[k] ELSE stage[c]]
    /\ UNCHANGED <<row, calls, key, had, result, circuit, answering>>

Resume(c) ==
    /\ stage[c] \in Settled
    /\ Return(c, IF stage[c] = "filled" THEN "filled"
                 ELSE Fallback(c, stage[c] = "loadFailed"))
    /\ had' = [had EXCEPT ![c] = "none"]
    /\ UNCHANGED <<row, flight, calls, key, circuit, answering>>

(* The TTL of k's row passes.                                              *)
Expire(k) ==
    /\ row[k] \in {"fresh", "poison"}
    /\ row' = [row EXCEPT ![k] = IF @ = "fresh" THEN "expired" ELSE "spoilt"]
    /\ UNCHANGED <<flight, calls, stage, key, had, result, circuit, answering>>

(* The governor's LRU eviction, here or on another node, takes k's row.    *)
Govern(k) ==
    /\ row[k] # "none"
    /\ row' = [row EXCEPT ![k] = "none"]
    /\ UNCHANGED <<flight, calls, stage, key, had, result, circuit, answering>>

CacheFlap ==
    /\ answering' \in {"yes", "no", "off"} \ {answering}
    /\ UNCHANGED <<row, flight, calls, stage, key, had, result, circuit>>

CacheTick ==
    /\ circuit' = BreakerTick(circuit)
    /\ UNCHANGED <<row, flight, calls, stage, key, had, result, answering>>

Step(c) == Hit(c) \/ Probe(c) \/ Miss(c) \/ Poisoned(c) \/ Evicted(c) \/ Resume(c)

Fill(k) ==
    \/ Loaded(k) \/ Malformed(k) \/ LoadFails(k)
    \/ Stored(k) \/ StoreFails(k) \/ Remove(k)

CacheNext ==
    \/ \E c \in Callers : Step(c) \/ \E k \in Keys : Lookup(c, k)
    \/ \E k \in Keys : Fill(k) \/ Expire(k) \/ Govern(k)
    \/ CacheFlap \/ CacheTick

CacheSpec == CacheInit /\ [][CacheNext]_cacheVars

(* Queries and provider calls end, time passes, and every key is asked for *)
(* again and again: the traffic of the feed.                               *)
CacheFairness ==
    /\ WF_cacheVars(CacheTick)
    /\ \A c \in Callers : WF_cacheVars(Step(c))
    /\ \A k \in Keys : WF_cacheVars(Fill(k))
    /\ \A c \in Callers, k \in Keys : SF_cacheVars(Lookup(c, k))

FairCacheSpec == CacheSpec /\ CacheFairness

-----------------------------------------------------------------------------

(* single-flight.ts: however many lookups miss at once, one provider call  *)
(* per key is outstanding, and every lookup that waits waits on a flight   *)
(* that is in the map, so that its removal wakes them all: none is left    *)
(* behind by joining a flight that has settled and not been removed yet.   *)
SingleFlight ==
    \A k \in Keys :
       /\ calls[k] <= 1
       /\ Waiters(k) # {} <=> flight[k] # "none"

(* What setProbeWanted is for: with every row fresh nobody misses, yet     *)
(* once the provider stays up the circuit closes, because fresh hits are   *)
(* spent on trials.  No expiry of a row is needed.                         *)
ProbesRecover == <>[](answering = "yes") => <>[](circuit.state = "closed")

(* Stale-on-error: while the write gate and the database do their part, a  *)
(* lookup that found a usable row never ends in an error, whatever the     *)
(* provider, the breaker and the other lookups sharing its fill do.        *)
OutageNeverCostsARow ==
    [][/\ \A c \in Callers :
            had[c] # "none" /\ result'[c] = "error" /\ result[c] # "error"
            => stage[c] = "failed"
       /\ \A c \in Callers :
            Reads(c, {"fresh", "expired"}) /\ stage'[c] # "reading"
            => (stage'[c] = "idle" /\ result'[c] = "hit") \/ had'[c] # "none"
       /\ \A k \in Keys :
            flight[k] # "failed" /\ flight'[k] = "failed"
            => flight[k] = "storing" \/ Malformed(k)]_cacheVars

=============================================================================
