------------------------ MODULE ProviderClientProofs ------------------------
(***************************************************************************)
(* Proofs about ProviderClient, for every finite set of requests, every    *)
(* breaker policy, quota and limiter, and any number of attempts; and, at  *)
(* the end, about the cache in front of a client (CacheFirst), for any     *)
(* lookups and keys.                                                       *)
(***************************************************************************)
EXTENDS ProviderClient, CacheFirst, TLAPS, FiniteSetTheorems, SequenceTheorems

-----------------------------------------------------------------------------
(* The breaker's methods stay within its type.                             *)

(* The constants a breaker's fields are set to.                            *)
LEMMA FieldConstants ==
    /\ 0 \in 0 .. SuccessThreshold
    /\ 0 \in 0 .. SuccessThreshold - 1
    /\ 0 \in 0 .. FailureThreshold
    /\ 0 \in 0 .. MaxResetTimeout
    /\ ResetTimeout \in 0 .. MaxResetTimeout
  BY BreakerPolicy

(* The constructor and #close.                                             *)
LEMMA NewBreakerType == NewBreaker \in Breakers
  BY FieldConstants DEF Breakers, NewBreaker

(* The state getter.                                                       *)
LEMMA RefreshType ==
    ASSUME NEW b \in Breakers
    PROVE  Refresh(b) \in Breakers
  BY FieldConstants, Zenon DEF Breakers, Refresh

(* tryAcquire reserves a slot only below the cap, so the count stays typed.*)
LEMMA ReserveType ==
    ASSUME NEW b \in Breakers, Admits(b)
    PROVE  Reserve(b) \in Breakers
  BY BreakerPolicy DEF Breakers, Admits, Reserve

(* #open clamps the window to the ceiling.                                 *)
LEMMA OpenType ==
    ASSUME NEW b \in Breakers
    PROVE  Open(b) \in Breakers
<1> DEFINE w == Lesser(MaxResetTimeout, 2 * b.backoff)
<1>1. b.backoff \in 0 .. MaxResetTimeout
  BY DEF Breakers
<1>2. w \in 0 .. MaxResetTimeout
  BY <1>1, BreakerPolicy DEF Lesser
<1> HIDE DEF w
<1>3. [b EXCEPT !.state = "open", !.wait = b.backoff, !.backoff = w,
                !.successes = 0, !.inFlight = 0] \in Breakers
  BY <1>1, <1>2, FieldConstants, Zenon DEF Breakers
<1>4. QED
  BY <1>3 DEF Open, w

(* Returning a slot stops at zero.                                         *)
LEMMA ReleaseType ==
    ASSUME NEW b \in Breakers
    PROVE  Release(b) \in Breakers
  BY BreakerPolicy DEF Breakers, Release

(* recordSuccess closes at the threshold, so the count never exceeds it.   *)
LEMMA RecordSuccessType ==
    ASSUME NEW b \in Breakers
    PROVE  RecordSuccess(b) \in Breakers
<1> DEFINE c == [Release(b) EXCEPT !.successes = @ + 1, !.backoff = ResetTimeout]
<1>1. CASE b.state # "half_open"
  BY <1>1, BreakerPolicy DEF Breakers, RecordSuccess
<1>2. CASE b.state = "half_open" /\ c.successes >= SuccessThreshold
  BY <1>2, NewBreakerType DEF RecordSuccess, Close
<1>3. CASE b.state = "half_open" /\ ~(c.successes >= SuccessThreshold)
  <2>1. c.successes = Release(b).successes + 1
    BY ReleaseType DEF Breakers
  <2>2. Release(b).successes + 1 \in 0 .. SuccessThreshold - 1
    BY <1>3, <2>1, ReleaseType, BreakerPolicy DEF Breakers
  <2>3. c \in Breakers
    BY <2>2, ReleaseType, FieldConstants, Zenon DEF Breakers
  <2>4. QED
    BY <1>3, <2>3 DEF RecordSuccess
<1>4. QED
  BY <1>1, <1>2, <1>3

(* recordFailure, in any state.                                            *)
LEMMA RecordFailureType ==
    ASSUME NEW b \in Breakers
    PROVE  RecordFailure(b) \in Breakers
<1>1. [b EXCEPT !.failures = Lesser(FailureThreshold, b.failures + 1)] \in Breakers
  BY BreakerPolicy DEF Breakers, Lesser
<1>2. QED
  BY <1>1, ReleaseType, OpenType DEF RecordFailure

(* Time passing.                                                           *)
LEMMA BreakerTickType ==
    ASSUME NEW b \in Breakers
    PROVE  BreakerTick(b) \in Breakers
  BY BreakerPolicy DEF Breakers, BreakerTick

-----------------------------------------------------------------------------
(* What the methods do to the two fields the accounting is about.          *)

(* The getter leaves the breaker alone or turns it half-open, empty.       *)
LEMMA RefreshFields ==
    ASSUME NEW b \in Breakers
    PROVE  \/ Refresh(b) = b
           \/ /\ b.state = "open"
              /\ Refresh(b).state = "half_open"
              /\ Refresh(b).inFlight = 0
  BY Zenon DEF Breakers, Refresh

(* An open breaker counts no trial.                                        *)
LEMMA OpenFields ==
    ASSUME NEW b \in Breakers
    PROVE  Open(b).state = "open" /\ Open(b).inFlight = 0
  BY Zenon DEF Breakers, Open

(* A half-open breaker that records an answer closes, or returns a slot.   *)
LEMMA RecordSuccessFields ==
    ASSUME NEW b \in Breakers
    PROVE  IF b.state = "half_open"
           THEN \/ /\ RecordSuccess(b).state = "closed"
                   /\ RecordSuccess(b).inFlight = 0
                \/ /\ RecordSuccess(b).state = "half_open"
                   /\ RecordSuccess(b).inFlight
                         = IF b.inFlight > 0 THEN b.inFlight - 1 ELSE 0
           ELSE /\ RecordSuccess(b).state = b.state
                /\ RecordSuccess(b).inFlight = b.inFlight
<1> DEFINE c == [Release(b) EXCEPT !.successes = @ + 1, !.backoff = ResetTimeout]
<1>1. CASE b.state # "half_open"
  BY <1>1 DEF Breakers, RecordSuccess
<1>2. CASE b.state = "half_open"
  <2>1. Release(b).state = b.state
    BY DEF Breakers, Release
  <2>2. Release(b).inFlight = IF b.inFlight > 0 THEN b.inFlight - 1 ELSE 0
    BY DEF Breakers, Release
  <2>3. c.state = Release(b).state /\ c.inFlight = Release(b).inFlight
    BY ReleaseType, Zenon DEF Breakers
  <2>4. NewBreaker.state = "closed" /\ NewBreaker.inFlight = 0
    BY DEF NewBreaker
  <2>5. RecordSuccess(b) = NewBreaker \/ RecordSuccess(b) = c
    BY <1>2 DEF RecordSuccess, Close
  <2>6. QED
    BY <1>2, <2>1, <2>2, <2>3, <2>4, <2>5
<1>3. QED
  BY <1>1, <1>2

(* A failure opens the breaker or, outside half-open, only counts.         *)
LEMMA RecordFailureFields ==
    ASSUME NEW b \in Breakers
    PROVE  \/ /\ RecordFailure(b).state = "open"
              /\ RecordFailure(b).inFlight = 0
           \/ /\ b.state # "half_open"
              /\ RecordFailure(b).state = b.state
              /\ RecordFailure(b).inFlight = b.inFlight
<1> DEFINE c == [b EXCEPT !.failures = Lesser(FailureThreshold, b.failures + 1)]
<1>1. c \in Breakers /\ c.state = b.state /\ c.inFlight = b.inFlight
  BY BreakerPolicy DEF Breakers, Lesser
<1>2. \/ RecordFailure(b) = Open(Release(b)) \/ RecordFailure(b) = Open(c)
      \/ RecordFailure(b) = c /\ b.state # "half_open"
  BY DEF RecordFailure
<1>3. QED
  BY <1>1, <1>2, ReleaseType, OpenFields

-----------------------------------------------------------------------------
(* The accounting of half-open slots under each method.                    *)

(* Holders of slots are finitely many.                                     *)
LEMMA SlotsFinite ==
    ASSUME NEW p
    PROVE  IsFiniteSet(SlotsOf(p)) /\ Cardinality(SlotsOf(p)) \in Nat
<1>1. SlotsOf(p) \subseteq Requests
  BY DEF SlotsOf
<1>2. QED
  BY <1>1, ClientConfig, FS_Subset, FS_CardinalityType

(* Nobody holds a slot: the count is zero.                                 *)
LEMMA NoSlots ==
    ASSUME NEW p, SlotsOf(p) = {}
    PROVE  Cardinality(SlotsOf(p)) = 0
  BY FS_EmptySet

(* Reading the state creates no slot.                                      *)
LEMMA RefreshAccounted ==
    ASSUME NEW b \in Breakers, NEW p, Accounted(b, p)
    PROVE  Accounted(Refresh(b), p)
  BY RefreshFields, SlotsFinite DEF Accounted

(* tryAcquire hands a slot to a caller that holds none.                    *)
LEMMA ReserveAccounted ==
    ASSUME NEW b \in Breakers, Admits(b),
           NEW p \in [Requests -> Passes], Accounted(b, p),
           NEW r \in Requests, p[r] # "slot"
    PROVE  Accounted(Reserve(b),
                     [p EXCEPT ![r] = IF b.state = "half_open"
                                      THEN "slot" ELSE "normal"])
<1>1. CASE b.state = "half_open"
  <2> DEFINE q == [p EXCEPT ![r] = "slot"]
  <2>1. SlotsOf(q) = SlotsOf(p) \cup {r} /\ r \notin SlotsOf(p)
    BY DEF SlotsOf
  <2>2. Cardinality(SlotsOf(q)) = Cardinality(SlotsOf(p)) + 1
    BY <2>1, SlotsFinite, FS_AddElement
  <2>3. Reserve(b).state = "half_open" /\ Reserve(b).inFlight = b.inFlight + 1
    BY <1>1 DEF Reserve, Breakers
  <2>4. b.inFlight \in Nat
    BY BreakerPolicy DEF Breakers
  <2>5. Accounted(Reserve(b), q)
    BY <1>1, <2>2, <2>3, <2>4, SlotsFinite DEF Accounted
  <2>6. QED
    BY <1>1, <2>5
<1>2. CASE b.state # "half_open"
  <2> DEFINE q == [p EXCEPT ![r] = "normal"]
  <2>1. SlotsOf(q) = SlotsOf(p)
    BY DEF SlotsOf
  <2>2. Reserve(b) = b
    BY <1>2 DEF Reserve
  <2>3. QED
    BY <1>2, <2>1, <2>2 DEF Accounted
<1>3. QED
  BY <1>1, <1>2

(* After an episode ends nobody holds a slot; within one, a caller that    *)
(* settles gives up at most its own.                                       *)
LEMMA SurvivingSlots ==
    ASSUME NEW b, NEW p \in [Requests -> Passes], NEW r \in Requests,
           NEW q, q = p \/ q = [p EXCEPT ![r] = "none"]
    PROVE  /\ q \in [Requests -> Passes]
           /\ Surviving(b, q) \in [Requests -> Passes]
           /\ b.state # "half_open" => SlotsOf(Surviving(b, q)) = {}
           /\ b.state = "half_open" => Surviving(b, q) = q
           /\ SlotsOf(Surviving(b, q)) \subseteq SlotsOf(q)
           /\ SlotsOf(q) \subseteq SlotsOf(p)
           /\ Cardinality(SlotsOf(q)) >= Cardinality(SlotsOf(p)) - 1
<1>1. q \in [Requests -> Passes]
  BY DEF Passes
<1>2. /\ Surviving(b, q) \in [Requests -> Passes]
      /\ b.state # "half_open" => SlotsOf(Surviving(b, q)) = {}
      /\ b.state = "half_open" => Surviving(b, q) = q
      /\ SlotsOf(Surviving(b, q)) \subseteq SlotsOf(q)
  BY <1>1 DEF Surviving, SlotsOf, Passes
<1>3. SlotsOf(q) = SlotsOf(p) \/ SlotsOf(q) = SlotsOf(p) \ {r}
  BY DEF SlotsOf
<1>4. Cardinality(SlotsOf(q)) >= Cardinality(SlotsOf(p)) - 1
  <2>1. CASE SlotsOf(q) = SlotsOf(p)
    BY <2>1, SlotsFinite
  <2>2. CASE SlotsOf(q) = SlotsOf(p) \ {r}
    <3>1. Cardinality(SlotsOf(p) \ {r})
             = IF r \in SlotsOf(p) THEN Cardinality(SlotsOf(p)) - 1
                                   ELSE Cardinality(SlotsOf(p))
      BY SlotsFinite, FS_RemoveElement
    <3>2. QED
      BY <2>2, <3>1, SlotsFinite
  <2>3. QED
    BY <1>3, <2>1, <2>2
<1>5. QED
  BY <1>1, <1>2, <1>3, <1>4

(* recordSuccess, called for a caller that settles.                        *)
LEMMA RecordSuccessAccounted ==
    ASSUME NEW b \in Breakers, NEW p \in [Requests -> Passes], Accounted(b, p),
           NEW r \in Requests
    PROVE  Accounted(RecordSuccess(b),
                     Surviving(RecordSuccess(b), [p EXCEPT ![r] = "none"]))
<1> DEFINE c == RecordSuccess(b)
           q == [p EXCEPT ![r] = "none"]
<1> HIDE DEF c, q
<1>1. /\ c.state # "half_open" => SlotsOf(Surviving(c, q)) = {}
      /\ c.state = "half_open" => Surviving(c, q) = q
      /\ Cardinality(SlotsOf(q)) >= Cardinality(SlotsOf(p)) - 1
  BY SurvivingSlots DEF q
<1>2. b.inFlight \in Nat
  BY BreakerPolicy DEF Breakers
<1>3. CASE c.state = "half_open"
  <2>1. b.state = "half_open"
     /\ c.inFlight = IF b.inFlight > 0 THEN b.inFlight - 1 ELSE 0
    BY <1>3, RecordSuccessFields DEF c
  <2>2. c.inFlight <= Cardinality(SlotsOf(q))
    BY <1>1, <1>2, <2>1, SlotsFinite DEF Accounted
  <2>3. QED
    BY <1>1, <1>3, <2>2 DEF Accounted, c, q
<1>4. CASE c.state # "half_open"
  <2>1. c.inFlight = 0
    BY <1>4, RecordSuccessFields DEF c, Accounted
  <2>2. Cardinality(SlotsOf(Surviving(c, q))) = 0
    BY <1>1, <1>4, NoSlots
  <2>3. Accounted(c, Surviving(c, q))
    BY <1>1, <1>4, <2>1, <2>2 DEF Accounted
  <2>4. QED
    BY <2>3 DEF c, q
<1>5. QED
  BY <1>3, <1>4

(* recordFailure, for a caller that settles or goes to sleep.              *)
LEMMA RecordFailureAccounted ==
    ASSUME NEW b \in Breakers, NEW p \in [Requests -> Passes], Accounted(b, p),
           NEW r \in Requests,
           NEW q, q = p \/ q = [p EXCEPT ![r] = "none"]
    PROVE  Accounted(RecordFailure(b), Surviving(RecordFailure(b), q))
<1> DEFINE c == RecordFailure(b)
<1> HIDE DEF c
<1>1. c.state # "half_open" /\ c.inFlight = 0
  BY RecordFailureFields DEF c, Accounted
<1>2. SlotsOf(Surviving(c, q)) = {}
  BY <1>1, SurvivingSlots
<1>3. QED
  BY <1>1, <1>2, NoSlots DEF Accounted, c

-----------------------------------------------------------------------------
(* The quota and the limiter stay within their types.                      *)

Quotas == [limit : {QuotaLimit}, window : {MaxWindow}, spends : Seq(Ages)]

Limiters ==
    [queue : Seq(Requests), draining : BOOLEAN, since : 0 .. MinInterval]

(* Pruning drops a prefix of the spends.                                   *)
LEMMA PruneType ==
    ASSUME NEW q \in Quotas
    PROVE  Prune(q) \in Quotas
<1> DEFINE s == q.spends
           X == {i \in DOMAIN s : s[i] >= q.window}
<1>1. s \in Seq(Ages) /\ Len(s) \in Nat /\ DOMAIN s = 1 .. Len(s)
  BY DEF Quotas
<1>2. IsFiniteSet(1 .. Len(s)) /\ Cardinality(1 .. Len(s)) = Len(s)
  BY <1>1, FS_Interval
<1>3. X \subseteq 1 .. Len(s)
  BY <1>1
<1>4. Cardinality(X) \in Nat /\ Cardinality(X) <= Len(s)
  BY <1>2, <1>3, FS_Subset, FS_CardinalityType
<1>5. SubSeq(s, Cardinality(X) + 1, Len(s)) \in Seq(Ages)
  <2>1. \A i \in Cardinality(X) + 1 .. Len(s) : s[i] \in Ages
    BY <1>1, <1>4, ElementOfSeq
  <2>2. QED
    BY <1>1, <1>4, <2>1, SubSeqProperties
<1>6. Prune(q) = [q EXCEPT !.spends = SubSeq(s, Cardinality(X) + 1, Len(s))]
  BY DEF Prune, Expired
<1> HIDE DEF s, X
<1>7. QED
  BY <1>5, <1>6 DEF Quotas

(* Spending appends spends of age zero.                                    *)
LEMMA SpendType ==
    ASSUME NEW q \in Quotas
    PROVE  Spend(q, 1) \in Quotas
<1>1. [i \in 1 .. 1 |-> 0] \in Seq(Ages)
  BY QuotaHorizon, IsASeq DEF Ages
<1>2. Prune(q).spends \o [i \in 1 .. 1 |-> 0] \in Seq(Ages)
  BY <1>1, PruneType, ConcatProperties DEF Quotas
<1>3. QED
  BY <1>2, PruneType DEF Spend, Quotas

(* Ages saturate at the longest window.                                    *)
LEMMA QuotaTickType ==
    ASSUME NEW q \in Quotas
    PROVE  QuotaTick(q) \in Quotas
<1> DEFINE s == q.spends
           t == [i \in DOMAIN s |-> IF s[i] < MaxWindow THEN s[i] + 1 ELSE MaxWindow]
<1>1. s \in Seq(Ages) /\ Len(s) \in Nat /\ DOMAIN s = 1 .. Len(s)
  BY DEF Quotas
<1>2. \A i \in 1 .. Len(s) : s[i] \in Ages
  BY <1>1, ElementOfSeq
<1>3. \A i \in 1 .. Len(s) : t[i] \in Ages
  BY <1>1, <1>2, QuotaHorizon DEF Ages
<1>4. t \in [1 .. Len(s) -> Ages]
  BY <1>1, <1>3
<1> HIDE DEF t
<1>5. t \in Seq(Ages)
  BY <1>1, <1>4
<1>6. QuotaTick(q) = [q EXCEPT !.spends = t]
  BY DEF QuotaTick, t
<1>7. QED
  BY <1>5, <1>6 DEF Quotas

(* A turn of the drain loop.                                               *)
LEMMA DrainTurnType ==
    ASSUME NEW l \in Limiters
    PROVE  DrainTurn(l) \in Limiters
<1>1. CASE l.queue # <<>> /\ Due(l)
  <2>1. Tail(l.queue) \in Seq(Requests)
    BY <1>1, HeadTailProperties DEF Limiters
  <2>2. QED
    BY <1>1, <2>1, LimiterPolicy DEF DrainTurn, Limiters
<1>2. CASE ~(l.queue # <<>> /\ Due(l))
  BY <1>2 DEF DrainTurn, Limiters
<1>3. QED
  BY <1>1, <1>2

(* acquire().                                                              *)
LEMMA EnqueueType ==
    ASSUME NEW l \in Limiters, NEW r \in Requests
    PROVE  Enqueue(l, r) \in Limiters
<1>1. [l EXCEPT !.queue = Append(l.queue, r)] \in Limiters
  BY AppendProperties DEF Limiters
<1>2. QED
  BY <1>1, DrainTurnType DEF Enqueue

(* Time passing.                                                           *)
LEMMA LimiterTickType ==
    ASSUME NEW l \in Limiters
    PROVE  LimiterTick(l) \in Limiters
  BY LimiterPolicy DEF LimiterTick, Limiters


-----------------------------------------------------------------------------
(* The inductive invariant.  TypeOK alone is not inductive: a retry counts *)
(* one attempt more, which stays in range only because a request that      *)
(* sleeps has attempts left.                                               *)

IInv == TypeOK /\ SleepersMayRetry /\ NoSlotLeak

(* A call that settles, whatever the breaker recorded.                     *)
LEMMA SettleKeeps ==
    ASSUME TypeOK, SleepersMayRetry, NEW r \in Requests, NEW b \in Breakers,
           NEW p \in [Requests -> Passes],
           \A q \in SlotsOf(p) : q = r \/ st[q] # "idle",
           Accounted(b, Surviving(b, [p EXCEPT ![r] = "none"])),
           Settle(r, b, p),
           enabled' \in BOOLEAN, up' \in BOOLEAN,
           quota' \in Quotas, limiter' \in Limiters
    PROVE  IInv'
<1> DEFINE q == [p EXCEPT ![r] = "none"]
<1>1. /\ Surviving(b, q) \in [Requests -> Passes]
      /\ SlotsOf(Surviving(b, q)) \subseteq SlotsOf(q)
  BY SurvivingSlots
<1>2. TypeOK'
  <2>1. st' \in [Requests -> {"idle", "queued", "inflight", "sleeping"}]
    BY DEF TypeOK, Settle
  <2>2. attempt' \in [Requests -> 0 .. MaxAttempts]
    BY ClientConfig DEF TypeOK, Settle
  <2>3. QED
    BY <1>1, <2>1, <2>2 DEF TypeOK, Settle, Quotas, Limiters
<1>3. SleepersMayRetry'
  BY DEF SleepersMayRetry, Settle, TypeOK
<1>4. Accounted(breaker, pass)'
  BY DEF Settle, Accounted, SlotsOf
<1>5. ASSUME NEW x \in SlotsOf(pass') PROVE st'[x] # "idle"
  <2>1. x \in SlotsOf(q)
    BY <1>1, <1>5 DEF Settle
  <2>2. x \in Requests /\ x # r /\ x \in SlotsOf(p)
    BY <2>1 DEF SlotsOf
  <2>3. QED
    BY <2>2 DEF Settle, TypeOK
<1>6. NoSlotLeak'
  BY <1>4, <1>5 DEF NoSlotLeak, SlotsOf
<1>7. QED
  BY <1>2, <1>3, <1>6 DEF IInv

(* An attempt that is refused locally returns the slot it may hold.        *)
LEMMA RefusedKeeps ==
    ASSUME TypeOK, SleepersMayRetry, NEW r \in Requests, NEW b \in Breakers,
           NEW p \in [Requests -> Passes], Accounted(b, p),
           \A q \in SlotsOf(p) : q = r \/ st[q] # "idle",
           Refused(r, b, p)
    PROVE  IInv'
<1>1. quota \in Quotas /\ limiter \in Limiters
  BY DEF TypeOK, Quotas, Limiters
<1>2. quota' \in Quotas
  BY <1>1, PruneType, SpendType DEF Refused
<1>3. /\ limiter' \in Limiters /\ enabled' \in BOOLEAN /\ up' \in BOOLEAN
      /\ Settle(r, RecordSuccess(b), p)
  BY <1>1 DEF Refused, TypeOK
<1>4. QED
  BY <1>2, <1>3, RecordSuccessType, RecordSuccessAccounted, SettleKeeps

(* An attempt that is sent or queued keeps the pass it was admitted with.  *)
LEMMA StartedKeeps ==
    ASSUME TypeOK, SleepersMayRetry, NEW r \in Requests, NEW b \in Breakers,
           NEW p \in [Requests -> Passes], Accounted(b, p),
           \A q \in SlotsOf(p) : q = r \/ st[q] # "idle",
           NEW n \in 0 .. MaxAttempts,
           Started(r, n, b, p)
    PROVE  IInv'
<1>1. quota \in Quotas /\ limiter \in Limiters
  BY DEF TypeOK, Quotas, Limiters
<1>2. quota' \in Quotas
  BY <1>1, SpendType DEF Started
<1>3. limiter' \in Limiters
  BY <1>1, EnqueueType DEF Started
<1>4. st' \in [Requests -> {"idle", "queued", "inflight", "sleeping"}]
  BY DEF Started, TypeOK
<1>5. attempt' \in [Requests -> 0 .. MaxAttempts]
  BY DEF Started, TypeOK
<1>6. breaker' = b /\ pass' = p /\ enabled' = enabled /\ up' = up
  BY DEF Started
<1>7. TypeOK'
  BY <1>2, <1>3, <1>4, <1>5, <1>6 DEF TypeOK, Quotas, Limiters
<1>8. SleepersMayRetry'
  BY DEF SleepersMayRetry, Started, TypeOK
<1>9. NoSlotLeak'
  <2>1. Accounted(breaker, pass)'
    BY <1>6 DEF Accounted, SlotsOf
  <2>2. ASSUME NEW x \in SlotsOf(p) PROVE st'[x] # "idle"
    BY <2>2 DEF SlotsOf, Started, TypeOK
  <2>3. QED
    BY <1>6, <2>1, <2>2 DEF NoSlotLeak, SlotsOf
<1>10. QED
  BY <1>7, <1>8, <1>9 DEF IInv

(* tryAcquire, as Call and CallRefused perform it.                         *)
LEMMA AdmittedKeeps ==
    ASSUME IInv, NEW r \in Requests, Admitted(r)
    PROVE  /\ Reserve(Refresh(breaker)) \in Breakers
           /\ Ticket(r) \in [Requests -> Passes]
           /\ Accounted(Reserve(Refresh(breaker)), Ticket(r))
           /\ \A q \in SlotsOf(Ticket(r)) : q = r \/ st[q] # "idle"
<1>1. breaker \in Breakers /\ pass \in [Requests -> Passes]
  BY DEF IInv, TypeOK
<1>2. Refresh(breaker) \in Breakers /\ Accounted(Refresh(breaker), pass)
  BY <1>1, RefreshType, RefreshAccounted DEF IInv, NoSlotLeak
<1>3. Admits(Refresh(breaker))
  BY DEF Admitted
<1>4. pass[r] # "slot"
  BY DEF Admitted, IInv, NoSlotLeak, SlotsOf
<1>5. Ticket(r) \in [Requests -> Passes]
  BY <1>1 DEF Ticket, Passes
<1>6. Accounted(Reserve(Refresh(breaker)), Ticket(r))
  BY <1>1, <1>2, <1>3, <1>4, ReserveAccounted DEF Ticket
<1>7. \A q \in SlotsOf(Ticket(r)) : q = r \/ st[q] # "idle"
  BY <1>1 DEF Ticket, SlotsOf, IInv, NoSlotLeak
<1>8. QED
  BY <1>2, <1>3, <1>5, <1>6, <1>7, ReserveType

-----------------------------------------------------------------------------

(* A freshly constructed client satisfies the invariant.                   *)
LEMMA InitIInv == Init => IInv
<1> SUFFICES ASSUME Init PROVE IInv
  OBVIOUS
<1>1. quota \in Quotas
  BY DEF Init, NewQuota, Quotas
<1>2. limiter \in Limiters
  BY LimiterPolicy DEF Init, NewLimiter, Limiters
<1>3. TypeOK
  BY <1>1, <1>2, NewBreakerType, ClientConfig
     DEF Init, TypeOK, Quotas, Limiters, Passes
<1>4. SlotsOf(pass) = {}
  BY DEF Init, SlotsOf
<1>5. NewBreaker.inFlight = 0
  BY DEF NewBreaker
<1>6. Accounted(breaker, pass)
  BY <1>4, <1>5, NoSlots DEF Init, Accounted
<1>7. QED
  BY <1>3, <1>4, <1>6 DEF Init, IInv, NoSlotLeak, SleepersMayRetry

(* Every step of the client, of its callers and of the clock preserves it. *)
LEMMA NextIInv == IInv /\ [Next]_vars => IInv'
<1> SUFFICES ASSUME IInv, [Next]_vars PROVE IInv'
  OBVIOUS
<1>1. /\ TypeOK /\ SleepersMayRetry /\ NoSlotLeak
      /\ breaker \in Breakers /\ pass \in [Requests -> Passes]
      /\ quota \in Quotas /\ limiter \in Limiters
      /\ enabled \in BOOLEAN /\ up \in BOOLEAN
      /\ Accounted(breaker, pass)
      /\ \A q \in SlotsOf(pass) : st[q] # "idle"
  BY DEF IInv, TypeOK, Quotas, Limiters, NoSlotLeak
<1>2. ASSUME NEW r \in Requests, Call(r) PROVE IInv'
  <2>1. 1 \in 0 .. MaxAttempts
    BY ClientConfig
  <2>2. QED
    BY <1>1, <1>2, <2>1, AdmittedKeeps, StartedKeeps DEF Call
<1>3. ASSUME NEW r \in Requests, CallRefused(r) PROVE IInv'
  BY <1>1, <1>3, AdmittedKeeps, RefusedKeeps DEF CallRefused
<1>4. ASSUME NEW r \in Requests, Answered(r) PROVE IInv'
  <2>1. RecordSuccess(breaker) \in Breakers
    BY <1>1, RecordSuccessType
  <2>2. Accounted(RecordSuccess(breaker),
           Surviving(RecordSuccess(breaker), [pass EXCEPT ![r] = "none"]))
    BY <1>1, RecordSuccessAccounted
  <2>3. QED
    BY <1>1, <1>4, <2>1, <2>2, SettleKeeps DEF Answered
<1>5. ASSUME NEW r \in Requests, FailedForGood(r) PROVE IInv'
  <2>1. RecordFailure(breaker) \in Breakers
    BY <1>1, RecordFailureType
  <2>2. Accounted(RecordFailure(breaker),
           Surviving(RecordFailure(breaker), [pass EXCEPT ![r] = "none"]))
    BY <1>1, RecordFailureAccounted
  <2>3. QED
    BY <1>1, <1>5, <2>1, <2>2, SettleKeeps DEF FailedForGood
<1>6. ASSUME NEW r \in Requests, FailedRetry(r) PROVE IInv'
  <2> DEFINE b == RecordFailure(breaker)
  <2>1. b \in Breakers
    BY <1>1, RecordFailureType
  <2>2. Accounted(b, Surviving(b, pass))
    BY <1>1, RecordFailureAccounted
  <2>3. /\ Surviving(b, pass) \in [Requests -> Passes]
        /\ SlotsOf(Surviving(b, pass)) \subseteq SlotsOf(pass)
    BY <1>1, SurvivingSlots
  <2> HIDE DEF b
  <2>4. breaker' = b /\ pass' = Surviving(b, pass)
    BY <1>6 DEF FailedRetry, b
  <2>5. TypeOK'
    BY <1>1, <1>6, <2>1, <2>3, <2>4 DEF TypeOK, FailedRetry
  <2>6. SleepersMayRetry'
    BY <1>1, <1>6 DEF SleepersMayRetry, FailedRetry, TypeOK
  <2>7. Accounted(breaker, pass)'
    BY <2>2, <2>4 DEF Accounted, SlotsOf
  <2>8. ASSUME NEW x \in SlotsOf(pass') PROVE st'[x] # "idle"
    BY <1>1, <1>6, <2>3, <2>4, <2>8 DEF FailedRetry, TypeOK, SlotsOf
  <2>9. QED
    BY <2>5, <2>6, <2>7, <2>8 DEF IInv, NoSlotLeak, SlotsOf
<1>7. ASSUME NEW r \in Requests, Retry(r) PROVE IInv'
  <2>1. attempt[r] + 1 \in 0 .. MaxAttempts
    BY <1>1, <1>7, ClientConfig DEF Retry, SleepersMayRetry, TypeOK
  <2>2. QED
    BY <1>1, <1>7, <2>1, StartedKeeps DEF Retry
<1>8. ASSUME NEW r \in Requests, RetryRefused(r) PROVE IInv'
  BY <1>1, <1>8, RefusedKeeps DEF RetryRefused
<1>9. CASE ReadState
  <2>1. TypeOK'
    BY <1>1, <1>9, RefreshType DEF ReadState, TypeOK
  <2>2. Accounted(Refresh(breaker), pass)
    BY <1>1, RefreshAccounted
  <2>3. QED
    BY <1>1, <1>9, <2>1, <2>2
       DEF ReadState, IInv, NoSlotLeak, Accounted, SlotsOf, SleepersMayRetry
<1>10. CASE Dispatch
  <2>1. limiter' \in Limiters
    BY <1>1, <1>10, DrainTurnType DEF Dispatch
  <2>2. st' \in [Requests -> {"idle", "queued", "inflight", "sleeping"}]
    BY <1>1, <1>10 DEF Dispatch, TypeOK
  <2>3. TypeOK'
    BY <1>1, <1>10, <2>1, <2>2 DEF Dispatch, TypeOK, Limiters
  <2>4. SleepersMayRetry'
    BY <1>1, <1>10 DEF Dispatch, TypeOK, SleepersMayRetry
  <2>5. \A q \in SlotsOf(pass) : st'[q] # "idle"
    BY <1>1, <1>10 DEF Dispatch, TypeOK, SlotsOf
  <2>6. QED
    BY <1>1, <1>10, <2>3, <2>4, <2>5
       DEF Dispatch, IInv, NoSlotLeak, Accounted, SlotsOf
<1>11. CASE Toggle
  BY <1>1, <1>11
     DEF Toggle, IInv, TypeOK, NoSlotLeak, Accounted, SlotsOf, SleepersMayRetry
<1>12. CASE Flap
  BY <1>1, <1>12
     DEF Flap, IInv, TypeOK, NoSlotLeak, Accounted, SlotsOf, SleepersMayRetry
<1>13. CASE Tick
  <2>1. breaker' \in Breakers /\ quota' \in Quotas /\ limiter' \in Limiters
    BY <1>1, <1>13, BreakerTickType, QuotaTickType, LimiterTickType DEF Tick
  <2>2. TypeOK'
    BY <1>1, <1>13, <2>1 DEF Tick, TypeOK, Quotas, Limiters
  <2>3. breaker'.state = breaker.state /\ breaker'.inFlight = breaker.inFlight
    BY <1>1, <1>13 DEF Tick, BreakerTick, Breakers
  <2>4. Accounted(breaker, pass)'
    BY <1>1, <1>13, <2>3 DEF Tick, Accounted, SlotsOf
  <2>5. QED
    BY <1>1, <1>13, <2>2, <2>4
       DEF Tick, IInv, NoSlotLeak, SlotsOf, SleepersMayRetry
<1>14. CASE UNCHANGED vars
  BY <1>1, <1>14
     DEF vars, IInv, TypeOK, NoSlotLeak, Accounted, SlotsOf, SleepersMayRetry
<1>15. QED
  BY <1>2, <1>3, <1>4, <1>5, <1>6, <1>7, <1>8, <1>9, <1>10, <1>11, <1>12,
     <1>13, <1>14 DEF Next

(* The client's state stays within its type, whatever the policies: the    *)
(* breaker's counters within their thresholds, the attempts within         *)
(* MaxAttempts, the ages within the window.                                *)
THEOREM TypeCorrect == Spec => []TypeOK
<1>1. IInv => TypeOK
  BY DEF IInv
<1>2. QED
  BY InitIInv, NextIInv, <1>1, PTL DEF Spec

(* No interleaving of calls, refusals, answers, failures, retries and      *)
(* re-openings leaks a half-open slot: the breaker never counts a trial    *)
(* that no live call will return.                                          *)
THEOREM SlotsNeverLeak == Spec => []NoSlotLeak
<1>1. IInv => NoSlotLeak
  BY DEF IInv
<1>2. QED
  BY InitIInv, NextIInv, <1>1, PTL DEF Spec

-----------------------------------------------------------------------------
(* The queue.  What QueueIntegrity says of the limiter and the requests is *)
(* inductive; a step either leaves the queue and everybody in it alone, or *)
(* puts a request at its end, or takes the one at its head.                *)

(* w waits somewhere in q.                                                 *)
In(q, w) == \E i \in DOMAIN q : q[i] = w

Once(q) == \A i, j \in DOMAIN q : q[i] = q[j] => i = j

(* QueueIntegrity, of any limiter and any requests.                        *)
Attended(l, s) ==
    /\ \A r \in Requests : s[r] = "queued" <=> In(l.queue, r)
    /\ Once(l.queue)
    /\ l.draining <=> l.queue # <<>>

LEMMA AttendedMeans ==
    ASSUME limiter.queue \in Seq(Requests)
    PROVE  Attended(limiter, st) <=> QueueIntegrity
<1>1. \A i \in DOMAIN limiter.queue : limiter.queue[i] \in Requests
  BY ElementOfSeq
<1>2. (\A r \in Requests : st[r] = "queued" <=> In(limiter.queue, r))
      <=> {limiter.queue[i] : i \in DOMAIN limiter.queue}
            = {r \in Requests : st[r] = "queued"}
  BY <1>1 DEF In
<1>3. QED
  BY <1>2 DEF Attended, Once, QueueIntegrity

(* A newcomer stands at the end, once.                                     *)
LEMMA Appended ==
    ASSUME NEW q \in Seq(Requests), NEW r \in Requests, Once(q), ~In(q, r)
    PROVE  /\ Once(Append(q, r)) /\ Append(q, r) # <<>>
           /\ \A w : In(Append(q, r), w) <=> In(q, w) \/ w = r
<1>1. /\ Len(Append(q, r)) = Len(q) + 1 /\ Append(q, r)[Len(q) + 1] = r
      /\ \A i \in 1..Len(q) : Append(q, r)[i] = q[i]
      /\ DOMAIN q = 1..Len(q) /\ DOMAIN Append(q, r) = 1..(Len(q) + 1)
      /\ Len(q) \in Nat
  BY AppendProperties, LenProperties
<1>2. \A i \in 1..Len(q) : i \in 1..(Len(q) + 1) /\ i # Len(q) + 1
  BY <1>1
<1>3. \A i \in 1..(Len(q) + 1) : i \in 1..Len(q) \/ i = Len(q) + 1
  BY <1>1
<1>4. Len(q) + 1 \in 1..(Len(q) + 1)
  BY <1>1
<1>5. QED
  BY <1>1, <1>2, <1>3, <1>4 DEF Once, In

(* Who is served is gone, and the others stay.                             *)
LEMMA Served ==
    ASSUME NEW q \in Seq(Requests), q # <<>>, Once(q)
    PROVE  /\ Once(Tail(q)) /\ (Tail(q) # <<>> <=> Len(q) > 1)
           /\ Head(q) \in Requests /\ In(q, Head(q))
           /\ \A w : In(Tail(q), w) <=> In(q, w) /\ w # Head(q)
<1>1. /\ Len(q) \in Nat \ {0} /\ DOMAIN q = 1..Len(q) /\ Head(q) = q[1]
      /\ Tail(q) \in Seq(Requests) /\ Len(Tail(q)) = Len(q) - 1
      /\ DOMAIN Tail(q) = 1..(Len(q) - 1)
      /\ \A i \in 1..(Len(q) - 1) : Tail(q)[i] = q[i + 1]
  BY EmptySeq, HeadTailProperties, LenProperties
<1>2. /\ 1 \in 1..Len(q)
      /\ \A i \in 1..(Len(q) - 1) : i + 1 \in 1..Len(q) /\ i + 1 # 1
      /\ \A i \in 1..Len(q) : i # 1 => /\ i - 1 \in 1..(Len(q) - 1)
                                      /\ (i - 1) + 1 = i
  BY <1>1
<1>3. Once(Tail(q))
  <2> SUFFICES ASSUME NEW i \in 1..(Len(q) - 1), NEW j \in 1..(Len(q) - 1),
                      q[i + 1] = q[j + 1]
               PROVE  i = j
    BY <1>1 DEF Once
  <2>1. i + 1 = j + 1
    BY <1>1, <1>2 DEF Once
  <2>2. QED
    BY <1>1, <2>1
<1>4. Head(q) \in Requests /\ In(q, Head(q))
  BY <1>1, <1>2, HeadTailProperties DEF In
<1>5. \A w : In(Tail(q), w) <=> In(q, w) /\ w # Head(q)
  <2> TAKE w
  <2>1. ASSUME In(Tail(q), w) PROVE In(q, w) /\ w # Head(q)
    <3>1. PICK i \in 1..(Len(q) - 1) : q[i + 1] = w
      BY <1>1, <2>1 DEF In
    <3>2. QED
      BY <1>1, <1>2, <3>1 DEF In, Once
  <2>2. ASSUME In(q, w), w # Head(q) PROVE In(Tail(q), w)
    <3>1. PICK i \in 1..Len(q) : q[i] = w /\ i # 1
      BY <1>1, <2>2 DEF In
    <3>2. i - 1 \in 1..(Len(q) - 1) /\ Tail(q)[i - 1] = w
      BY <1>1, <1>2, <3>1
    <3>3. QED
      BY <1>1, <3>2 DEF In
  <2>3. QED
    BY <2>1, <2>2
<1>6. Tail(q) # <<>> <=> Len(q) > 1
  <2>1. Tail(q) # <<>> <=> Len(Tail(q)) # 0
    BY <1>1, EmptySeq
  <2>2. \A n \in Nat \ {0} : n - 1 # 0 <=> n > 1
    OBVIOUS
  <2>3. QED
    BY <1>1, <2>1, <2>2
<1>7. QED
  BY <1>3, <1>4, <1>5, <1>6

(* An acquire, or none: the requests in s wait in l, r goes to its end and *)
(* then is under way if the drain loop took it in the same turn.           *)
LEMMA EnqueueAttends ==
    ASSUME NEW l \in Limiters, NEW s, DOMAIN s = Requests, Attended(l, s),
           NEW r \in Requests, s[r] # "queued",
           NEW t, t = [s EXCEPT ![r] = IF l.draining \/ ~Due(l) THEN "queued"
                                       ELSE "inflight"]
    PROVE  Attended(Enqueue(l, r), t)
<1> DEFINE long == Append(l.queue, r)
<1>1. l.queue \in Seq(Requests) /\ l.draining \in BOOLEAN
  BY DEF Limiters
<1>2. /\ Once(long) /\ long # <<>>
      /\ \A w : In(long, w) <=> In(l.queue, w) \/ w = r
  BY <1>1, Appended DEF Attended
<1>3. /\ DOMAIN l = {"queue", "draining", "since"}
      /\ [l EXCEPT !.queue = long].queue = long
      /\ [l EXCEPT !.queue = long].draining = l.draining
      /\ [l EXCEPT !.queue = long].since = l.since
  BY DEF Limiters
<1>4. CASE l.draining
  <2>1. Enqueue(l, r) = [l EXCEPT !.queue = long]
    BY <1>4 DEF Enqueue
  <2>2. QED
    BY <1>2, <1>3, <1>4, <2>1 DEF Attended
<1>5. CASE ~l.draining /\ ~Due(l)
  <2>1. Enqueue(l, r) = [[l EXCEPT !.queue = long] EXCEPT !.draining = TRUE]
    BY <1>2, <1>3, <1>5 DEF Enqueue, DrainTurn, Due
  <2>2. Enqueue(l, r).queue = long /\ Enqueue(l, r).draining = TRUE
    BY <1>3, <2>1
  <2>3. QED
    BY <1>2, <1>5, <2>2 DEF Attended
<1>6. CASE ~l.draining /\ Due(l)
  <2>1. l.queue = <<>> /\ \A w \in Requests : ~In(l.queue, w)
    BY <1>6, EmptySeq DEF Attended, In
  <2>2. long = <<r>> /\ Tail(long) = <<>> /\ Len(long) = 1
    BY <1>1, <2>1
  <2>3. Enqueue(l, r).queue = <<>> /\ ~Enqueue(l, r).draining
    <3> DEFINE k == [l EXCEPT !.queue = long]
    <3>1. Enqueue(l, r) = DrainTurn(k)
      BY <1>6 DEF Enqueue
    <3>2. k.queue = long /\ Due(k)
      BY <1>3, <1>6 DEF Due
    <3> HIDE DEF k
    <3>3. DrainTurn(k) = [queue |-> Tail(long), draining |-> Len(long) > 1, since |-> 0]
      BY <1>2, <3>2 DEF DrainTurn
    <3>4. DrainTurn(k).queue = <<>> /\ DrainTurn(k).draining = (Len(long) > 1)
      BY <2>2, <3>3
    <3>5. DrainTurn(k).draining <=> Len(long) > 1
      BY <3>4, Zenon
    <3>6. QED
      BY <2>2, <3>1, <3>4, <3>5
  <2>4. \A w \in Requests : t[w] # "queued"
    BY <1>6, <2>1 DEF Attended
  <2>5. QED
    BY <2>3, <2>4, EmptySeq DEF Attended, In, Once
<1>7. QED
  BY <1>1, <1>4, <1>5, <1>6

(* The drain loop's timer.                                                 *)
LEMMA DispatchAttends ==
    ASSUME NEW l \in Limiters, NEW s, DOMAIN s = Requests, Attended(l, s),
           l.draining, Due(l),
           NEW t, t = [s EXCEPT ![Head(l.queue)] = "inflight"]
    PROVE  Attended(DrainTurn(l), t)
<1>1. l.queue \in Seq(Requests) /\ l.queue # <<>> /\ Once(l.queue)
  BY DEF Limiters, Attended
<1>2. DrainTurn(l) = [queue |-> Tail(l.queue), draining |-> Len(l.queue) > 1, since |-> 0]
  BY <1>1 DEF DrainTurn
<1>3. /\ Once(Tail(l.queue)) /\ (Tail(l.queue) # <<>> <=> Len(l.queue) > 1)
      /\ Head(l.queue) \in Requests
      /\ \A w : In(Tail(l.queue), w) <=> In(l.queue, w) /\ w # Head(l.queue)
  BY <1>1, Served
<1>4. \A w \in Requests : t[w] = "queued" <=> s[w] = "queued" /\ w # Head(l.queue)
  BY <1>3
<1>5. /\ DrainTurn(l).queue = Tail(l.queue)
      /\ DrainTurn(l).draining = (Len(l.queue) > 1)
  BY <1>2
<1>6. DrainTurn(l).draining <=> Len(l.queue) > 1
  BY <1>5, Zenon
<1>7. QED
  BY <1>3, <1>4, <1>5, <1>6 DEF Attended

(* The limiter alone: whoever is given, and settles, waits in no queue.    *)
LEMMA StandingBy ==
    ASSUME NEW l, NEW s, DOMAIN s = Requests, Attended(l, s),
           NEW r \in Requests, s[r] # "queued", NEW state, state # "queued",
           NEW t, t = [s EXCEPT ![r] = state]
    PROVE  Attended(l, t)
  BY DEF Attended

LEMMA QueueStep ==
    ASSUME TypeOK, QueueIntegrity, Next
    PROVE  Attended(limiter', st')
<1>1. limiter \in Limiters /\ DOMAIN st = Requests /\ Attended(limiter, st)
  BY AttendedMeans DEF TypeOK, Limiters
<1>2. ASSUME NEW r \in Requests, st[r] # "queued", NEW b, NEW p, Settle(r, b, p),
             UNCHANGED limiter
      PROVE  Attended(limiter', st')
  BY <1>1, <1>2, StandingBy DEF Settle
<1>3. ASSUME NEW r \in Requests, st[r] # "queued", NEW b, NEW p, Refused(r, b, p)
      PROVE  Attended(limiter', st')
  BY <1>2, <1>3 DEF Refused
<1>4. ASSUME NEW r \in Requests, st[r] # "queued", NEW n, NEW b, NEW p,
             Started(r, n, b, p)
      PROVE  Attended(limiter', st')
  <2>1. CASE Paced
    BY <1>1, <1>4, <2>1, EnqueueAttends DEF Started
  <2>2. CASE ~Paced
    BY <1>1, <1>4, <2>2, StandingBy DEF Started
  <2>3. QED
    BY <2>1, <2>2
<1>5. ASSUME NEW r \in Requests, FailedRetry(r)
      PROVE  Attended(limiter', st')
  BY <1>1, <1>5, StandingBy DEF FailedRetry
<1>6. ASSUME Dispatch
      PROVE  Attended(limiter', st')
  BY <1>1, <1>6, DispatchAttends DEF Dispatch
<1>7. ASSUME Tick
      PROVE  Attended(limiter', st')
  BY <1>1, <1>7 DEF Tick, LimiterTick, Attended, Limiters
<1>8. QED
  BY <1>1, <1>2, <1>3, <1>4, <1>5, <1>6, <1>7
  DEF Next, Call, CallRefused, Admitted, Answered, FailedForGood, Retry, RetryRefused,
      ReadState, Toggle, Flap

(* The limiter of rate-limiter.ts loses nobody: however calls, refusals,   *)
(* retries and turns of the drain loop interleave, whoever awaits          *)
(* acquire() stands in the queue exactly once, nobody else does, and while *)
(* anybody waits a drain loop is alive to serve them.                      *)
THEOREM NobodyIsLost == Spec => []QueueIntegrity
<1> DEFINE QInv == IInv /\ QueueIntegrity
<1>1. Init => QInv
  <2>1. Init => Attended(limiter, st)
    BY EmptySeq DEF Init, NewLimiter, Attended, In, Once
  <2>2. QED
    BY <2>1, InitIInv, AttendedMeans DEF IInv, TypeOK
<1>2. QInv /\ [Next]_vars => QInv'
  <2> SUFFICES ASSUME QInv, [Next]_vars PROVE QInv'
    OBVIOUS
  <2>1. IInv'
    BY NextIInv
  <2>2. limiter'.queue \in Seq(Requests)
    BY <2>1 DEF IInv, TypeOK
  <2>3. Attended(limiter', st') => QueueIntegrity'
    <3>1. \A i \in DOMAIN limiter'.queue : limiter'.queue[i] \in Requests
      BY <2>2, ElementOfSeq
    <3>2. QED
      BY <3>1 DEF Attended, In, Once, QueueIntegrity
  <2>4. QED
    BY <2>1, <2>3, QueueStep DEF IInv, QueueIntegrity, vars
<1>3. QED
  BY <1>1, <1>2, PTL DEF Spec

-----------------------------------------------------------------------------
(* The cache.  SingleFlight is not inductive: that a settling flight takes *)
(* the number of calls back to zero needs to know that the call counted    *)
(* was its own.  OneCall ties the count to the flight; Waited says who is  *)
(* there for it.  The breaker decides only which way a lookup goes, so     *)
(* nothing about its counters is needed.                                   *)
Shapes ==
    /\ row \in [Keys -> Rows]
    /\ flight \in [Keys -> {"none", "loading", "storing"} \cup Settled]
    /\ calls \in [Keys -> Nat]
    /\ stage \in [Callers -> {"idle", "reading", "deleting", "waiting"} \cup Settled]
    /\ key \in [Callers -> Keys]
    /\ had \in [Callers -> {"none", "fresh", "expired"}]
    /\ result \in [Callers -> {"none", "hit", "stale", "filled", "error"}]

OneCall == \A k \in Keys : calls[k] = IF flight[k] = "loading" THEN 1 ELSE 0

Waited == \A k \in Keys : (\E c \in Callers : stage[c] = "waiting" /\ key[c] = k)
                             <=> flight[k] # "none"

CacheInv == Shapes /\ OneCall /\ Waited

(* The variables of the bookkeeping, which only some of the actions touch. *)
kept == <<flight, calls, stage, key, had, result>>

-----------------------------------------------------------------------------
(* What a waiter is handed when a fill fails.                              *)
LEMMA FallbackType ==
    ASSUME Shapes, NEW c \in Callers, NEW loadFailed \in BOOLEAN
    PROVE  /\ Fallback(c, loadFailed) \in {"hit", "stale", "error"}
           /\ loadFailed /\ had[c] # "none" => Fallback(c, loadFailed) # "error"
<1>1. had[c] \in {"none", "fresh", "expired"}
  BY DEF Shapes
<1>2. QED
  BY <1>1 DEF Fallback

(* However it begins, a fill that a caller enters is waited for: a caller  *)
(* who was reading or deleting joins the flight of his key or starts the   *)
(* only one, and a call is counted only while it is under way.             *)
LEMMA JoinKeeps ==
    ASSUME CacheInv, NEW c \in Callers, stage[c] \in {"reading", "deleting"},
           NEW k \in Keys, key[c] = k, NEW row0 \in {"none", "fresh", "expired"},
           NEW b, Join(c, k, row0, b), key' = key, row' \in [Keys -> Rows]
    PROVE  CacheInv'
<1> USE DEF CacheInv, Shapes, OneCall, Waited, Settled
<1>1. /\ stage' = [stage EXCEPT ![c] = "waiting"]
      /\ had' = [had EXCEPT ![c] = row0]
      /\ result' = result
  BY DEF Join, Wait
<1>2. CASE flight[k] # "none" /\ UNCHANGED <<flight, calls>>
  <2>1. Shapes' /\ OneCall'
    BY <1>1, <1>2
  <2>2. Waited'
    BY <1>1, <1>2
  <2>3. QED
    BY <2>1, <2>2
<1>3. CASE flight[k] = "none" /\ Start(k, b)
  <2>1. \/ flight' = [flight EXCEPT ![k] = "loadFailed"] /\ calls' = calls
        \/ flight' = [flight EXCEPT ![k] = "loading"] /\ calls' = [calls EXCEPT ![k] = @ + 1]
    BY <1>3 DEF Start, Fly
  <2>2. Shapes'
    BY <1>1, <2>1
  <2>3. OneCall'
    BY <1>3, <2>1
  <2>4. Waited'
    BY <1>1, <1>3, <2>1
  <2>5. QED
    BY <2>2, <2>3, <2>4
<1>4. QED
  BY <1>2, <1>3 DEF Join

(* A flight may land, that is settle, without anybody being told yet.      *)
LEMMA FlightLands ==
    ASSUME CacheInv, NEW k \in Keys, NEW how \in Settled \cup {"storing"}, flight[k] # "none",
           Fly(k, how), calls' = [calls EXCEPT ![k] = 0], row' \in [Keys -> Rows],
           UNCHANGED <<stage, key, had, result>>
    PROVE  CacheInv'
<1> USE DEF CacheInv, Shapes, OneCall, Waited, Settled, Fly
<1>1. Shapes' /\ OneCall'
  OBVIOUS
<1>2. Waited'
  OBVIOUS
<1>3. QED
  BY <1>1, <1>2

(* Its removal wakes everybody who waits for it, and nobody else.          *)
LEMMA RemovalWakes ==
    ASSUME CacheInv, NEW k \in Keys, Remove(k)
    PROVE  CacheInv'
<1> USE DEF CacheInv, Shapes, OneCall, Waited, Settled, Remove, Fly, Waiters
<1>1. Shapes'
  OBVIOUS
<1>2. OneCall'
  OBVIOUS
<1>3. Waited'
  OBVIOUS
<1>4. QED
  BY <1>1, <1>2, <1>3

-----------------------------------------------------------------------------

LEMMA CacheInitHolds == CacheInit => CacheInv
  BY DEF CacheInit, CacheInv, Shapes, OneCall, Waited

LEMMA CacheStepKeeps == CacheInv /\ [CacheNext]_cacheVars => CacheInv'
<1> SUFFICES ASSUME CacheInv, [CacheNext]_cacheVars PROVE CacheInv'
  OBVIOUS
<1>1. CASE UNCHANGED kept /\ row' \in [Keys -> Rows]
  BY <1>1 DEF kept, CacheInv, Shapes, OneCall, Waited
<1>2. ASSUME NEW c \in Callers, NEW k \in Keys, Lookup(c, k) PROVE CacheInv'
  BY <1>2 DEF Lookup, CacheInv, Shapes, OneCall, Waited, Settled
<1>3. ASSUME NEW c \in Callers, Hit(c) PROVE CacheInv'
  BY <1>3 DEF Hit, Reads, Return, CacheInv, Shapes, OneCall, Waited, Settled
<1>4. ASSUME NEW c \in Callers, Probe(c) PROVE CacheInv'
  <2>1. key[c] \in Keys /\ row' \in [Keys -> Rows]
    BY <1>4 DEF Probe, CacheInv, Shapes
  <2>2. QED
    BY <1>4, <2>1, JoinKeeps DEF Probe, Reads
<1>5. ASSUME NEW c \in Callers, Miss(c) PROVE CacheInv'
  <2>1. key[c] \in Keys /\ row' \in [Keys -> Rows]
    BY <1>5 DEF Miss, CacheInv, Shapes
  <2>2. QED
    BY <1>5, <2>1, JoinKeeps DEF Miss, Reads
<1>6. ASSUME NEW c \in Callers, Poisoned(c) PROVE CacheInv'
  BY <1>6 DEF Poisoned, Reads, CacheInv, Shapes, OneCall, Waited, Settled
<1>7. ASSUME NEW c \in Callers, Evicted(c) PROVE CacheInv'
  <2>1. key[c] \in Keys /\ row' \in [Keys -> Rows]
    BY <1>7 DEF Evicted, CacheInv, Shapes, Rows
  <2>2. QED
    BY <1>7, <2>1, JoinKeeps DEF Evicted
<1>8. ASSUME NEW k \in Keys, Loaded(k) \/ Malformed(k) \/ LoadFails(k) PROVE CacheInv'
  <2>1. flight[k] = "loading" /\ calls' = [calls EXCEPT ![k] = @ - 1]
    BY <1>8 DEF Loaded, Malformed, LoadFails
  <2>2. calls[k] = 1
    BY <2>1 DEF CacheInv, OneCall
  <2>3. calls' = [calls EXCEPT ![k] = 0]
    <3>1. calls[k] - 1 = 0
      BY <2>2
    <3>2. QED
      BY <2>1, <3>1
  <2>4. UNCHANGED <<row, stage, key, had, result>> /\ row' \in [Keys -> Rows]
    BY <1>8 DEF Loaded, Malformed, LoadFails, CacheInv, Shapes
  <2>5. \E how \in Settled \cup {"storing"} : Fly(k, how)
    BY <1>8 DEF Loaded, Malformed, LoadFails, Fly, Settled
  <2>6. QED
    BY <2>1, <2>3, <2>4, <2>5, FlightLands
<1>9. ASSUME NEW k \in Keys, Stored(k) \/ StoreFails(k) PROVE CacheInv'
  <2>1. flight[k] = "storing" /\ UNCHANGED <<calls, stage, key, had, result>>
    BY <1>9 DEF Stored, StoreFails
  <2>2. calls' = [calls EXCEPT ![k] = 0]
    BY <2>1 DEF CacheInv, Shapes, OneCall
  <2>3. row' \in [Keys -> Rows]
    BY <1>9 DEF Stored, StoreFails, CacheInv, Shapes, Rows
  <2>4. \E how \in Settled \cup {"storing"} : Fly(k, how)
    BY <1>9 DEF Stored, StoreFails, Settled
  <2>5. QED
    BY <2>1, <2>2, <2>3, <2>4, FlightLands
<1>10. ASSUME NEW k \in Keys, Remove(k) PROVE CacheInv'
  BY <1>10, RemovalWakes
<1>11. ASSUME NEW c \in Callers, Resume(c) PROVE CacheInv'
  <2>1. result' \in [Callers -> {"none", "hit", "stale", "filled", "error"}]
    <3>1. (IF stage[c] = "filled" THEN "filled" ELSE Fallback(c, stage[c] = "loadFailed"))
             \in {"hit", "stale", "filled", "error"}
      BY FallbackType DEF CacheInv
    <3>2. QED
      BY <1>11, <3>1 DEF Resume, Return, CacheInv, Shapes
  <2>2. /\ stage' = [stage EXCEPT ![c] = "idle"] /\ stage[c] # "waiting"
        /\ had' = [had EXCEPT ![c] = "none"]
        /\ UNCHANGED <<row, flight, calls, key>>
    BY <1>11 DEF Resume, Return, Settled
  <2>3. QED
    BY <2>1, <2>2 DEF CacheInv, Shapes, OneCall, Waited
<1>12. ASSUME NEW k \in Keys, Expire(k) \/ Govern(k) PROVE CacheInv'
  <2>1. row' \in [Keys -> Rows]
    BY <1>12 DEF Expire, Govern, CacheInv, Shapes, Rows
  <2>2. QED
    BY <1>1, <1>12, <2>1 DEF Expire, Govern, kept
<1>13. CASE CacheFlap \/ CacheTick \/ UNCHANGED cacheVars
  <2>1. row' \in [Keys -> Rows]
    BY <1>13 DEF CacheFlap, CacheTick, cacheVars, CacheInv, Shapes
  <2>2. QED
    BY <1>1, <1>13, <2>1 DEF CacheFlap, CacheTick, cacheVars, kept
<1>14. QED
  BY <1>2, <1>3, <1>4, <1>5, <1>6, <1>7, <1>8, <1>9, <1>10, <1>11, <1>12, <1>13
  DEF CacheNext, Step, Fill

(* Whoever calls, and whichever fills fail: one provider call per key at a *)
(* time, and nobody waits on a flight that is not there (single-flight.ts).*)
THEOREM FillsAreShared == CacheSpec => []SingleFlight
<1>1. CacheInv => SingleFlight
  BY DEF CacheInv, Shapes, OneCall, Waited, SingleFlight, Waiters
<1>2. QED
  BY <1>1, CacheInitHolds, CacheStepKeeps, PTL DEF CacheSpec

-----------------------------------------------------------------------------
(* The three ways in which a row could be lost: on resuming, on entering a *)
(* fill, and by a fill that fails although the gate and the database do    *)
(* not.                                                                    *)
LetDown(c) == had[c] # "none" /\ result'[c] = "error" /\ result[c] # "error"

LEMMA OnlyResumingEnds ==
    ASSUME CacheInv, [CacheNext]_cacheVars, NEW c \in Callers, LetDown(c)
    PROVE  Resume(c)
<1> USE DEF LetDown, CacheInv, Shapes
<1>1. ASSUME result' = result PROVE FALSE
  BY <1>1
<1>2. ASSUME NEW d \in Callers, NEW k \in Keys, Lookup(d, k) PROVE FALSE
  BY <1>2 DEF Lookup
<1>3. ASSUME NEW d \in Callers, Hit(d) PROVE FALSE
  BY <1>3 DEF Hit, Return
<1>4. ASSUME NEW d \in Callers, Probe(d) \/ Miss(d) \/ Evicted(d) \/ Poisoned(d) PROVE FALSE
  BY <1>1, <1>4 DEF Probe, Miss, Evicted, Poisoned, Join, Wait
<1>5. ASSUME NEW d \in Callers, Resume(d) PROVE d = c
  BY <1>5 DEF Resume, Return
<1>6. ASSUME NEW k \in Keys, Fill(k) \/ Expire(k) \/ Govern(k) PROVE FALSE
  BY <1>1, <1>6 DEF Fill, Loaded, Malformed, LoadFails, Stored, StoreFails, Remove, Expire, Govern
<1>7. CASE CacheFlap \/ CacheTick \/ UNCHANGED cacheVars
  BY <1>1, <1>7 DEF CacheFlap, CacheTick, cacheVars
<1>8. QED
  BY <1>2, <1>3, <1>4, <1>5, <1>6, <1>7 DEF CacheNext, Step

LEMMA ReadersKeepTheirRow ==
    ASSUME CacheInv, [CacheNext]_cacheVars, NEW c \in Callers,
           Reads(c, {"fresh", "expired"}), stage'[c] # "reading"
    PROVE  (stage'[c] = "idle" /\ result'[c] = "hit") \/ had'[c] # "none"
<1> USE DEF CacheInv, Shapes, Reads
<1>1. ASSUME stage' = stage PROVE FALSE
  BY <1>1
<1>2. ASSUME NEW d \in Callers, NEW k \in Keys, Lookup(d, k) PROVE FALSE
  BY <1>2 DEF Lookup
<1>3. CASE \E d \in Callers : Hit(d)
  BY <1>3 DEF Hit, Return
<1>4. CASE \E d \in Callers : Probe(d)
  BY <1>4 DEF Probe, Join, Wait
<1>5. CASE \E d \in Callers : Miss(d)
  BY <1>5 DEF Miss, Join, Wait
<1>6. ASSUME NEW d \in Callers, Evicted(d) \/ Poisoned(d) \/ Resume(d) PROVE FALSE
  BY <1>6 DEF Evicted, Poisoned, Resume, Return, Join, Wait, Settled
<1>7. ASSUME NEW k \in Keys, Fill(k) \/ Expire(k) \/ Govern(k) PROVE FALSE
  BY <1>1, <1>7 DEF Fill, Loaded, Malformed, LoadFails, Stored, StoreFails, Remove, Waiters,
     Expire, Govern
<1>8. CASE CacheFlap \/ CacheTick \/ UNCHANGED cacheVars
  BY <1>1, <1>8 DEF CacheFlap, CacheTick, cacheVars
<1>9. QED
  BY <1>2, <1>3, <1>4, <1>5, <1>6, <1>7, <1>8 DEF CacheNext, Step

LEMMA WhyFillsFail ==
    ASSUME CacheInv, [CacheNext]_cacheVars, NEW k \in Keys,
           flight[k] # "failed", flight'[k] = "failed"
    PROVE  flight[k] = "storing" \/ Malformed(k)
<1> USE DEF CacheInv, Shapes, Settled
<1>1. ASSUME flight' = flight PROVE FALSE
  BY <1>1
<1>2. ASSUME NEW d \in Callers, NEW i \in Keys, Lookup(d, i) PROVE FALSE
  BY <1>1, <1>2 DEF Lookup
<1>3. ASSUME NEW d \in Callers, NEW i, NEW row0, NEW b, Join(d, i, row0, b) PROVE FALSE
  BY <1>1, <1>3 DEF Join, Start, Fly
<1>4. ASSUME NEW d \in Callers, Step(d) PROVE FALSE
  BY <1>1, <1>3, <1>4 DEF Step, Hit, Probe, Miss, Poisoned, Evicted, Resume
<1>5. ASSUME NEW i \in Keys, Fill(i) PROVE flight[k] = "storing" \/ Malformed(k)
  BY <1>5 DEF Fill, Loaded, Malformed, LoadFails, Stored, StoreFails, Remove, Fly
<1>6. ASSUME NEW i \in Keys, Expire(i) \/ Govern(i) PROVE FALSE
  BY <1>1, <1>6 DEF Expire, Govern
<1>7. CASE CacheFlap \/ CacheTick \/ UNCHANGED cacheVars
  BY <1>1, <1>7 DEF CacheFlap, CacheTick, cacheVars
<1>8. QED
  BY <1>2, <1>4, <1>5, <1>6, <1>7 DEF CacheNext

(* Stale-on-error for any number of lookups: whoever found a usable row    *)
(* gets an answer, unless the write gate or the database failed him.       *)
THEOREM RowsOutliveOutages == CacheSpec => OutageNeverCostsARow
<1>1. ASSUME CacheInv, [CacheNext]_cacheVars, NEW c \in Callers, LetDown(c)
      PROVE  stage[c] = "failed"
  <2>1. /\ stage[c] \in Settled
        /\ result'[c] = IF stage[c] = "filled" THEN "filled"
                        ELSE Fallback(c, stage[c] = "loadFailed")
    BY <1>1, OnlyResumingEnds DEF Resume, Return, CacheInv, Shapes
  <2>2. QED
    BY <1>1, <2>1, FallbackType DEF LetDown, CacheInv, Settled
<1>2. CacheInv /\ [CacheNext]_cacheVars =>
        [/\ \A c \in Callers :
              had[c] # "none" /\ result'[c] = "error" /\ result[c] # "error"
              => stage[c] = "failed"
         /\ \A c \in Callers :
              Reads(c, {"fresh", "expired"}) /\ stage'[c] # "reading"
              => (stage'[c] = "idle" /\ result'[c] = "hit") \/ had'[c] # "none"
         /\ \A k \in Keys :
              flight[k] # "failed" /\ flight'[k] = "failed"
              => flight[k] = "storing" \/ Malformed(k)]_cacheVars
  BY <1>1, ReadersKeepTheirRow, WhyFillsFail DEF LetDown
<1>3. QED
  BY <1>2, CacheInitHolds, CacheStepKeeps, PTL DEF CacheSpec, OutageNeverCostsARow
=============================================================================
