----------------------------- MODULE CacheWarmer -----------------------------
(***************************************************************************)
(* The job that warms the MusicBrainz cache and the iTunes previews,       *)
(* services/cache-warmer.ts and scripts/warm-cache.ts.  A run has two      *)
(* phases; each reads its candidates once and then paces one call per      *)
(* candidate, until a ceiling, a deadline, contention or repeated failure  *)
(* ends it.  Counters that are only reported are left out.                 *)
(***************************************************************************)
EXTENDS SessionLocks, Sequences, FiniteSets

CONSTANTS
    ByPriority,     \* the MBIDs the product refers to, in the tiers' order
    Wishlist,       \* those a live user's wishlist names
    MbInterval, MbMaxCalls,
    ItInterval, ItMaxCalls,
    RunDeadline, MaxFailures,
    CallTime,       \* the longest a call takes, its queue and retries included
    DbTime,         \* the longest a connection or a statement is waited for
    MaxExpiries     \* bound: rows that expire while the jobs run

VARIABLES
    lock,
    phase,      \* of each run: idle, musicbrainz, itunes, or unlocking
    stage,      \* in a phase: reading the candidates, looping, pacing, calling
    todo,       \* the candidates left
    called, failures, yielded,
    elapsed,    \* time since the run set its deadline
    waited,     \* time in the present stage
    since,      \* time since the phase's last dispatch
    cache,      \* the MusicBrainz row of each MBID
    preview,    \* the track_previews row of each MBID
    expiries

vars == <<lock, phase, stage, todo, called, failures, yielded, elapsed, waited,
          since, cache, preview, expiries>>

progress == <<todo, called, failures, yielded, elapsed, since>>

(* A row of track_previews is absent, has no store link, is servable, or   *)
(* is past revalidate_after.                                               *)
PreviewRow == {"none", "bare", "servable", "overdue"}

(* An iTunes answer: a match with a store link on an Apple host, a match   *)
(* without one, no match (pickBestMatch), an UpstreamError, or a defect.   *)
ItunesAnswer == {"found", "nolink", "nomatch", "error", "bug"}

Mbids == {ByPriority[i] : i \in DOMAIN ByPriority}
Interval(p) == IF p = "musicbrainz" THEN MbInterval ELSE ItInterval
MaxCalls(p) == IF p = "musicbrainz" THEN MbMaxCalls ELSE ItMaxCalls
Longest == IF MbInterval > ItInterval THEN MbInterval ELSE ItInterval

(* What one candidate may take beyond the last look at the deadline.       *)
Slip == IF CallTime > Longest THEN CallTime ELSE Longest

(* The deadline leaves room for a connection and the first statement.      *)
Times ==
    /\ {MbInterval, ItInterval, RunDeadline, CallTime, DbTime} \subseteq Nat
    /\ 2 * DbTime < RunDeadline

TypeOK ==
    /\ lock \in Locks
    /\ phase \in [Runs -> {"idle", "musicbrainz", "itunes", "unlock"}]
    /\ stage \in [Runs -> {"query", "loop", "pace", "call"}]
    /\ \A r \in Runs : /\ \A i \in DOMAIN todo[r] : todo[r][i] \in Mbids
                       /\ Len(todo[r]) <= MaxCalls(phase[r]) + 1
                       /\ called[r] <= MaxCalls(phase[r])
    /\ failures \in [Runs -> 0 .. MaxFailures]
    /\ yielded \in [Runs -> BOOLEAN]
    /\ elapsed \in [Runs -> Nat] /\ waited \in [Runs -> Nat]
    /\ since \in [Runs -> 0 .. Longest]
    /\ cache \in [Mbids -> {"cold", "named", "null"}]
    /\ preview \in [Mbids -> PreviewRow]
    /\ expiries \in 0 .. MaxExpiries

Init ==
    /\ lock = NoLock(Servers)
    /\ phase = [r \in Runs |-> "idle"]
    /\ stage = [r \in Runs |-> "query"]
    /\ todo = [r \in Runs |-> <<>>]
    /\ called = [r \in Runs |-> 0]
    /\ failures = [r \in Runs |-> 0]
    /\ yielded = [r \in Runs |-> FALSE]
    /\ elapsed = [r \in Runs |-> 0]
    /\ waited = [r \in Runs |-> 0]
    /\ since = [r \in Runs |-> Longest]
    /\ cache = [i \in Mbids |-> "cold"]
    /\ preview = [i \in Mbids |-> "none"]
    /\ expiries = 0

-----------------------------------------------------------------------------
(* The preview resolver, packages/upstream/src/preview/resolver.ts.        *)

(* resolveCached: whether the row may be served.                           *)
ResolveCached(row) == row = "servable"

(* resolve, without Deezer: the row it leaves.  Only a match with a store  *)
(* link is kept; an UpstreamError, contention included, is caught.         *)
Resolve(row, itunes) ==
    IF ~ResolveCached(row) /\ itunes = "found" THEN "servable" ELSE row

-----------------------------------------------------------------------------
(* The candidate queries, LIMIT one more than the ceiling.  A row expires  *)
(* by going cold.                                                          *)

AtMost(seq, n) == SubSeq(seq, 1, IF Len(seq) < n THEN Len(seq) ELSE n)

MusicbrainzCandidates ==
    AtMost(SelectSeq(ByPriority, LAMBDA i : cache[i] = "cold"), MbMaxCalls + 1)

(* Recordings the wishlist or the MusicBrainz cache can name; the order    *)
(* inside the second tier, by fetched_at, is abstracted to ByPriority.     *)
ItunesCandidates ==
    LET Wanted(i) == /\ i \in Wishlist \/ cache[i] = "named"
                     /\ ~ResolveCached(preview[i])
        first  == SelectSeq(ByPriority, LAMBDA i : Wanted(i) /\ i \in Wishlist)
        second == SelectSeq(ByPriority, LAMBDA i : Wanted(i) /\ i \notin Wishlist)
    IN  AtMost(first \o second, ItMaxCalls + 1)

Candidates(p) == IF p = "musicbrainz" THEN MusicbrainzCandidates ELSE ItunesCandidates

MayContinue(r) ==
    /\ ~yielded[r]
    /\ failures[r] < MaxFailures
    /\ elapsed[r] < RunDeadline

Set(f, r, v) == f' = [f EXCEPT ![r] = v]

Enter(r, next) == Set(stage, r, next) /\ Set(waited, r, 0)

(* The variables of a run that has no phase going on.                      *)
Reset(r, newPhase) ==
    /\ Set(phase, r, newPhase)
    /\ Enter(r, "query")
    /\ Set(todo, r, <<>>) /\ Set(called, r, 0) /\ Set(failures, r, 0)
    /\ Set(yielded, r, FALSE) /\ Set(since, r, Longest)

EndPhase(r) == Reset(r, IF phase[r] = "musicbrainz" THEN "itunes" ELSE "unlock")

-----------------------------------------------------------------------------

(* run takes the lock; a run that is refused ends, a stutter.  The deadline *)
(* counts from before the wait for a connection.                           *)
Begin(r) ==
    /\ phase[r] = "idle"
    /\ \E s \in SessionsOf(r) : TryLock(lock, s, lock')
    /\ Set(phase, r, "musicbrainz")
    /\ Enter(r, "query")
    /\ \E w \in 0 .. DbTime : Set(elapsed, r, w)
    /\ UNCHANGED <<todo, called, failures, yielded, since, cache, preview, expiries>>

(* A phase reads its candidates.                                           *)
Query(r) ==
    /\ phase[r] \in {"musicbrainz", "itunes"}
    /\ stage[r] = "query"
    /\ Set(todo, r, Candidates(phase[r]))
    /\ Enter(r, "loop")
    /\ UNCHANGED <<lock, phase, called, failures, yielded, elapsed, since, cache,
                   preview, expiries>>

(* The candidates cannot be read: the error leaves run through finally.    *)
QueryFails(r) ==
    /\ phase[r] \in {"musicbrainz", "itunes"}
    /\ stage[r] = "query"
    /\ Set(phase, r, "unlock")
    /\ Enter(r, "query")
    /\ UNCHANGED <<lock, progress, cache, preview, expiries>>

(* The head of the loop.                                                   *)
Loop(r) ==
    /\ stage[r] = "loop"
    /\ IF todo[r] # <<>> /\ MayContinue(r) /\ called[r] < MaxCalls(phase[r])
       THEN Enter(r, "pace") /\ UNCHANGED <<phase, progress>>
       ELSE EndPhase(r) /\ UNCHANGED elapsed
    /\ UNCHANGED <<lock, cache, preview, expiries>>

Send(r) ==
    /\ Set(called, r, called[r] + 1)
    /\ Enter(r, "call")
    /\ Set(since, r, 0)
    /\ UNCHANGED <<phase, todo, failures, yielded>>

\* Mutant: the deadline is only looked at before the wait.
DispatchUnchecked(r) ==
    /\ stage[r] = "pace"
    /\ since[r] >= Interval(phase[r])
    /\ Send(r)
    /\ UNCHANGED <<lock, elapsed, cache, preview, expiries>>

(* The sleep of #pace is over; mayContinue is asked again, and the call    *)
(* leaves.                                                                 *)
Dispatch(r) ==
    /\ stage[r] = "pace"
    /\ since[r] >= Interval(phase[r])
    /\ IF MayContinue(r) THEN Send(r) ELSE EndPhase(r)
    /\ UNCHANGED <<lock, elapsed, cache, preview, expiries>>

Settle(r, failed) ==
    /\ Set(todo, r, Tail(todo[r]))
    /\ Enter(r, "loop")
    /\ Set(failures, r, IF failed THEN failures[r] + 1 ELSE 0)
    /\ UNCHANGED <<lock, phase, called, elapsed, since, expiries>>

(* MusicBrainz answers: the entity, or a 404, cached as a null payload.    *)
Answered(r) ==
    /\ stage[r] = "call" /\ phase[r] = "musicbrainz"
    /\ \E row \in {"named", "null"} : cache' = [cache EXCEPT ![Head(todo[r])] = row]
    /\ Settle(r, FALSE)
    /\ UNCHANGED <<preview, yielded>>

(* MusicBrainz fails for a reason of its own.                              *)
Failed(r) ==
    /\ stage[r] = "call" /\ phase[r] = "musicbrainz"
    /\ Settle(r, TRUE)
    /\ UNCHANGED <<cache, preview, yielded>>

(* One of YIELD_KINDS.                                                     *)
Contention(r) ==
    /\ stage[r] = "call" /\ phase[r] = "musicbrainz"
    /\ Set(todo, r, Tail(todo[r]))
    /\ Enter(r, "loop")
    /\ Set(yielded, r, TRUE)
    /\ UNCHANGED <<lock, phase, called, failures, elapsed, since, cache, preview,
                   expiries>>

(* iTunes answers through the resolver, whose null is an empty result.     *)
Resolved(r, answer) ==
    /\ stage[r] = "call" /\ phase[r] = "itunes"
    /\ answer # "bug"
    /\ preview' = [preview EXCEPT ![Head(todo[r])] = Resolve(@, answer)]
    /\ Settle(r, FALSE)
    /\ UNCHANGED <<cache, yielded>>

(* Not an UpstreamError: rethrown, and the run ends.                       *)
Defect(r) ==
    /\ stage[r] = "call"
    /\ Reset(r, "unlock")
    /\ UNCHANGED <<lock, elapsed, cache, preview, expiries>>

Finish(r) ==
    /\ phase[r] = "unlock"
    /\ \E s \in SessionsOf(r) : lock' = Unlock(lock, s)
    /\ Set(phase, r, "idle")
    /\ Enter(r, "query")
    /\ UNCHANGED <<progress, cache, preview, expiries>>

(* The process dies.                                                       *)
Die(r) ==
    /\ phase[r] # "idle"
    /\ Reset(r, "idle")
    /\ lock' = IF Pooled THEN lock ELSE EndSession(lock, r)
    /\ UNCHANGED <<elapsed, cache, preview, expiries>>

(* The pooler retires a server session.                                    *)
Recycle(s) ==
    /\ Pooled /\ lock[s] > 0
    /\ lock' = EndSession(lock, s)
    /\ UNCHANGED <<phase, stage, waited, progress, cache, preview, expiries>>

(* A cached row passes expires_at, a preview its revalidate_after.         *)
Expire(i) ==
    /\ expiries < MaxExpiries
    /\ \/ cache[i] # "cold" /\ cache' = [cache EXCEPT ![i] = "cold"] /\ UNCHANGED preview
       \/ /\ preview[i] = "servable"
          /\ preview' = [preview EXCEPT ![i] = "overdue"]
          /\ UNCHANGED cache
    /\ expiries' = expiries + 1
    /\ UNCHANGED <<lock, phase, stage, waited, progress>>

Up(n, top) == IF n < top THEN n + 1 ELSE n

(* A run may stay where it is: its sleep or its call is not over, or the   *)
(* database has not answered.  What takes no waiting takes no time.        *)
Patient(r) ==
    \/ phase[r] = "idle"
    \/ stage[r] = "query" /\ waited[r] < DbTime
    \/ stage[r] = "pace" /\ since[r] < Interval(phase[r])
    \/ stage[r] = "call" /\ waited[r] < CallTime

Tick ==
    /\ \E r \in Runs : phase[r] # "idle"
    /\ \A r \in Runs : Patient(r)
    /\ elapsed' = [r \in Runs |-> IF phase[r] = "idle" THEN elapsed[r] ELSE elapsed[r] + 1]
    /\ waited' = [r \in Runs |-> IF phase[r] = "idle" THEN waited[r] ELSE waited[r] + 1]
    /\ since' = [r \in Runs |-> Up(since[r], Longest)]
    /\ UNCHANGED <<lock, phase, stage, todo, called, failures, yielded, cache,
                   preview, expiries>>

(* A call ends.                                                            *)
Returns(r) ==
    \/ Answered(r) \/ Failed(r) \/ Contention(r) \/ Defect(r)
    \/ \E answer \in ItunesAnswer : Resolved(r, answer)

Step(r) ==
    \/ Begin(r) \/ Query(r) \/ QueryFails(r) \/ Loop(r) \/ Dispatch(r)
    \/ Returns(r) \/ Finish(r) \/ Die(r)

Next ==
    \/ \E r \in Runs : Step(r)
    \/ \E s \in Servers : Recycle(s)
    \/ \E i \in Mbids : Expire(i)
    \/ Tick

Spec == Init /\ [][Next]_vars

-----------------------------------------------------------------------------

(***************************************************************************)
(* A run is over soon after its deadline: what it may still do then is     *)
(* finish one wait or one call, read the other phase's candidates in vain  *)
(* and unlock.  The wait between two calls may cross the deadline and is   *)
(* not followed by a call, so the two do not add up; that is what keeps a  *)
(* run clear of the next one of the schedule.  #pace, #mayContinue, run.   *)
(***************************************************************************)
EndsInTime ==
    \A r \in Runs : phase[r] # "idle" => elapsed[r] < RunDeadline + Slip + 2 * DbTime

=============================================================================
