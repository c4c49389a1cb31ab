---------------------------- MODULE UpstreamProofs ----------------------------
(***************************************************************************)
(* Proofs about the calls to providers that are made and those that are    *)
(* saved.                                                                  *)
(*                                                                         *)
(* The upstream-call budget, for every limit, window length, time the      *)
(* Redis client waits, bound on the calls of a request and finite set of   *)
(* requests.  The bound on the spenders of a window is not inductive by    *)
(* itself.  It needs that the counter covers them while the window lasts,  *)
(* and that a counter which is started again, because a request was        *)
(* answered when the first was gone, covers the rest and outlives the last *)
(* answer (Covered): that takes the TTL of a window's length (Outlives)    *)
(* and that nobody reserves in a window to come (Begun).                   *)
(*                                                                         *)
(* The local copy of MusicBrainz, for any number of runs, dumps and        *)
(* restores: what is live is whole because a loader that is past its       *)
(* verification only ever has a whole staging table (Staged).              *)
(***************************************************************************)
EXTENDS MCUpstream, FiniteSetTheorems, SequenceTheorems, TLAPS

Covered ==
    \A w \in Windows :
       \/ now >= End(w) + Timeout
       \/ /\ Cardinality(Spenders(w)) <= key[w].count
          /\ Cardinality(Spenders(w)) <= Limit
       \/ /\ now >= End(w)
          /\ Cardinality(Spenders(w)) <= Limit + key[w].count
          /\ key[w].there => key[w].expires >= End(w) + Timeout

Outlives == \A w \in Windows : key[w].there => key[w].expires >= End(w)

Begun == \A r \in Requests : stage[r] = "asking" => win[r] * L <= now

IInv ==
    TypeOK /\ CountersExpire /\ Covered /\ Outlives /\ Begun /\ SpendersBounded

-----------------------------------------------------------------------------

(* What the window index of an instant means.                              *)
LEMMA Division ==
    ASSUME NEW n \in Nat, NEW d \in Nat \ {0}
    PROVE  /\ n \div d \in Nat
           /\ (n \div d) * d <= n
           /\ n < (n \div d + 1) * d
OBVIOUS

(* Multiples of a positive length are ordered like their factors.          *)
LEMMA Scaling ==
    ASSUME NEW a \in Nat, NEW b \in Nat, NEW d \in Nat \ {0}, a <= b
    PROVE  a * d <= b * d
OBVIOUS

(* The ends of windows are instants.                                       *)
LEMMA Ends ==
    ASSUME NEW w \in Windows
    PROVE  /\ w \in Nat /\ w * L \in Nat
           /\ End(w) \in Nat
           /\ End(w) = w * L + L
<1>1. MaxTime \div L \in Nat /\ L \in Nat \ {0}
  BY Division, LengthAssumption, TimeAssumption
<1>2. w \in Nat
  BY <1>1 DEF Windows
<1>3. w * L \in Nat /\ (w + 1) * L = w * L + L
  BY <1>1, <1>2
<1> QED
  BY <1>1, <1>2, <1>3 DEF End

(* The current window is a window of the model, it has begun and it has    *)
(* not ended.                                                              *)
LEMMA CurrentWindow ==
    ASSUME now \in 0 .. MaxTime
    PROVE  /\ Window \in Windows
           /\ Window * L <= now
           /\ now < End(Window)
<1>1. now \in Nat /\ L \in Nat \ {0} /\ MaxTime \in Nat
  BY LengthAssumption, TimeAssumption
<1>2. /\ now \div L \in Nat
      /\ (now \div L) * L <= now
      /\ now < (now \div L + 1) * L
  BY <1>1, Division
<1>3. /\ MaxTime \div L \in Nat
      /\ MaxTime < (MaxTime \div L + 1) * L
  BY <1>1, Division
<1>4. now \div L <= MaxTime \div L
  <2>1. SUFFICES ASSUME MaxTime \div L + 1 <= now \div L PROVE FALSE
    BY <1>2, <1>3
  <2>2. (MaxTime \div L + 1) * L <= (now \div L) * L
    BY <2>1, <1>1, <1>2, <1>3, Scaling
  <2> QED
    BY <2>2, <1>1, <1>2, <1>3
<1> QED
  BY <1>1, <1>2, <1>3, <1>4 DEF Window, Windows, End

(* Sets of requests are finite.                                            *)
LEMMA SpendersFinite ==
    ASSUME NEW w
    PROVE  /\ IsFiniteSet(Spenders(w))
           /\ Cardinality(Spenders(w)) \in Nat
  BY RequestsAssumption, FS_Subset, FS_CardinalityType DEF Spenders

-----------------------------------------------------------------------------

(* Taking a unit keeps a counter a counter, which outlives its window, and *)
(* once the window has ended also every answer in time, since the time a   *)
(* request waits is no longer than the TTL.                                *)
LEMMA TakenCounter ==
    ASSUME TypeOK, CountersExpire, Outlives, Begun,
           NEW r \in Requests, stage[r] = "asking", NEW k, k = key[win[r]]
    PROVE  /\ win[r] \in Windows
           /\ Taken(k).there
           /\ Taken(k).count = k.count + 1
           /\ Taken(k).expires \in Nat
           /\ Taken(k).expires # Never
           /\ Taken(k).expires >= End(win[r])
           /\ now >= End(win[r]) /\ (k.there => k.expires >= End(win[r]) + Timeout)
                 => Taken(k).expires >= End(win[r]) + Timeout
           /\ Taken(k) \in [there : BOOLEAN, count : Nat,
                            expires : Nat \cup {Never}]
<1>1. /\ win[r] \in Windows
      /\ win[r] * L <= now
      /\ now \in Nat /\ now + L \in Nat /\ L \in Nat /\ Timeout \in Nat
      /\ Timeout <= L
  BY LengthAssumption, TimeAssumption, TimeoutAssumption DEF TypeOK, Begun
<1>2. /\ End(win[r]) \in Nat /\ win[r] * L \in Nat
      /\ End(win[r]) = win[r] * L + L
  BY <1>1, Ends
<1>3. k \in [there : BOOLEAN, count : Nat, expires : Nat \cup {Never}]
  BY <1>1 DEF TypeOK
<1>4. k.count # 0 => k.there
  BY <1>1, <1>3 DEF TypeOK
<1>5. k.there => k.expires \in Nat /\ k.expires >= End(win[r])
  BY <1>1, <1>3 DEF CountersExpire, Outlives, Never
<1>6. /\ Taken(k).there
      /\ Taken(k).count = k.count + 1
      /\ Taken(k).expires = IF k.count = 0 THEN now + L ELSE k.expires
      /\ Taken(k) \in [there : BOOLEAN, count : Nat,
                       expires : Nat \cup {Never}]
  BY <1>1, <1>3 DEF Taken
<1>7. CASE k.count = 0
  <2>1. Taken(k).expires = now + L
    BY <1>6, <1>7
  <2>2. now + L >= End(win[r])
    BY <1>1, <1>2
  <2>3. now >= End(win[r]) => now + L >= End(win[r]) + Timeout
    BY <1>1, <1>2
  <2> QED
    BY <1>1, <1>6, <2>1, <2>2, <2>3 DEF Never
<1>8. CASE k.count # 0
  <2>1. Taken(k).expires = k.expires
    BY <1>6, <1>8
  <2> QED
    BY <1>1, <1>4, <1>5, <1>6, <1>8, <2>1 DEF Never
<1> QED
  BY <1>7, <1>8

(* A settle keeps a counter a counter and neither creates nor prolongs it. *)
LEMMA SettledCounter ==
    ASSUME NEW k \in [there : BOOLEAN, count : Nat, expires : Nat \cup {Never}],
           NEW d \in Int
    PROVE  /\ Settled(k, d) \in [there : BOOLEAN, count : Nat,
                                 expires : Nat \cup {Never}]
           /\ Settled(k, d).there = k.there
           /\ Settled(k, d).expires = k.expires
           /\ Settled(k, d).count \in Nat
           /\ ~k.there => Settled(k, d).count = k.count
           /\ k.there /\ k.expires # Never => Settled(k, d).count >= k.count + d
<1>1. k.count \in Nat /\ k.count + d \in Int
  OBVIOUS
<1>2. /\ Max({0, k.count + d}) \in Nat
      /\ Max({0, k.count + d}) >= k.count + d
  <2>1. \/ Max({0, k.count + d}) = 0 /\ 0 >= k.count + d
        \/ Max({0, k.count + d}) = k.count + d /\ k.count + d >= 0
    BY <1>1 DEF Max
  <2> QED
    BY <2>1, <1>1
<1>3. CASE ~k.there \/ k.expires = Never
  BY <1>3 DEF Settled
<1>4. CASE k.there /\ k.expires # Never
  <2>1. Settled(k, d) = [k EXCEPT !.count = Max({0, k.count + d})]
    BY <1>4 DEF Settled
  <2> HIDE DEF Max
  <2> QED
    BY <2>1, <1>2, <1>4
<1> QED
  BY <1>3, <1>4

(* The initial state: no counters, no spenders.                            *)
LEMMA InitHolds == Init => IInv
<1> SUFFICES ASSUME Init PROVE IInv
  OBVIOUS
<1>1. 0 \in Windows /\ Windows \subseteq Nat
  BY Division, LengthAssumption, TimeAssumption DEF Windows
<1>2. \A w \in Windows : Cardinality(Spenders(w)) = 0
  BY FS_EmptySet DEF Init, Spenders
<1>3. \A w \in Windows : key[w] = NoKey
  BY DEF Init
<1>4. TypeOK
  <2>1. NoKey \in [there : BOOLEAN, count : Nat, expires : Nat \cup {Never}]
    BY DEF NoKey
  <2> QED
    BY <1>1, <1>3, <2>1, TimeAssumption, CallsAssumption DEF TypeOK, Init, NoKey
<1>5. CountersExpire /\ Outlives /\ Begun
  BY <1>3 DEF Init, CountersExpire, Outlives, Begun, NoKey
<1>6. SpendersBounded /\ Covered
  BY <1>2, <1>3, LimitAssumption DEF SpendersBounded, Covered, NoKey
<1> QED
  BY <1>4, <1>5, <1>6 DEF IInv

(* A step that changes neither counters nor spenders nor the clock.        *)
LEMMA Quiet ==
    ASSUME IInv, TypeOK', Begun', UNCHANGED <<now, key>>,
           \A w \in Windows : Spenders(w)' = Spenders(w)
    PROVE  IInv'
<1>1. CountersExpire' /\ Outlives'
  BY DEF IInv, CountersExpire, Outlives, End
<1>2. SpendersBounded'
  BY DEF IInv, SpendersBounded, End
<1>3. Covered'
  BY DEF IInv, Covered, End
<1> QED
  BY <1>1, <1>2, <1>3 DEF IInv

(* RESERVE takes a unit: the request joins the spenders of its window, or  *)
(* never learns of it.  While the window lasts the counter, which covered  *)
(* them and was below the limit, grows with them; after it the counter may *)
(* have started again, and covers those that are granted from then on.     *)
LEMMA ReserveKeeps ==
    ASSUME IInv, NEW r \in Requests, Reserve(r) \/ ReserveUnanswered(r)
    PROVE  IInv'
<1> USE DEF IInv
<1>0. PICK W \in Windows : W = win[r]
  BY DEF TypeOK
<1> DEFINE k == Taken(key[W])
           granted == stage'[r] = "open"
<1>1. stage[r] = "asking" /\ key[W].count < Limit
  BY <1>0 DEF Reserve, ReserveUnanswered
<1>2. /\ k.there
      /\ k.count = key[W].count + 1
      /\ k.expires \in Nat
      /\ k.expires # Never
      /\ k.expires >= End(W)
      /\ now >= End(W) /\ (key[W].there => key[W].expires >= End(W) + Timeout)
            => k.expires >= End(W) + Timeout
      /\ k \in [there : BOOLEAN, count : Nat, expires : Nat \cup {Never}]
  BY <1>0, <1>1, TakenCounter
<1>3. PICK s \in {"open", "refused"} :
      /\ key' = [key EXCEPT ![W] = k]
      /\ stage' = [stage EXCEPT ![r] = s]
      /\ win' = win /\ now' = now /\ calls' = calls
      /\ s = "open" => now < End(W) + Timeout
  BY <1>0 DEF Reserve, ReserveUnanswered
<1> HIDE DEF k
<1>4. /\ key'[W] = k
      /\ \A w \in Windows \ {W} : key'[w] = key[w]
      /\ s = "open" <=> granted
  BY <1>3 DEF TypeOK
<1>5. TypeOK'
  BY <1>2, <1>3 DEF TypeOK
<1>6. CountersExpire' /\ Outlives' /\ Begun'
  <2>1. CountersExpire' /\ Outlives'
    BY <1>2, <1>3, <1>4 DEF CountersExpire, Outlives, End
  <2>2. Begun'
    BY <1>3 DEF Begun, TypeOK
  <2> QED
    BY <2>1, <2>2
<1>7. /\ granted => Spenders(W)' = Spenders(W) \cup {r}
      /\ ~granted => Spenders(W)' = Spenders(W)
      /\ \A w \in Windows \ {W} : Spenders(w)' = Spenders(w)
      /\ r \notin Spenders(W)
  <2>1. r \notin Spenders(W) /\ \A w \in Windows \ {W} : r \notin Spenders(w)
    BY <1>1 DEF Spenders
  <2>2. \A q \in Requests : q # r => stage'[q] = stage[q]
    BY <1>3 DEF TypeOK
  <2>3. stage'[r] = s
    BY <1>3 DEF TypeOK
  <2>4. granted => Spenders(W)' = Spenders(W) \cup {r}
    BY <1>0, <1>3, <2>1, <2>2 DEF Spenders
  <2>5. ~granted => Spenders(W)' = Spenders(W)
    BY <1>3, <1>4, <2>1, <2>2, <2>3 DEF Spenders
  <2>6. \A w \in Windows \ {W} : Spenders(w)' = Spenders(w)
    BY <1>0, <1>3, <2>1, <2>2 DEF Spenders
  <2> QED
    BY <2>1, <2>4, <2>5, <2>6
<1> DEFINE n == Cardinality(Spenders(W))
           m == Cardinality(Spenders(W)')
<1>8. /\ n \in Nat /\ m \in Nat
      /\ granted => m = n + 1
      /\ ~granted => m = n
  <2>1. n \in Nat
    BY SpendersFinite
  <2>2. Cardinality(Spenders(W) \cup {r}) = n + 1
    BY <1>7, SpendersFinite, FS_AddElement
  <2>3. /\ granted => m = n + 1
        /\ ~granted => m = n
    BY <1>7, <2>2
  <2> QED
    BY <2>1, <2>3
<1>9. /\ key[W].count \in Nat /\ now \in Nat /\ End(W) \in Nat
      /\ Timeout \in Nat /\ Limit \in Nat
  BY Ends, LengthAssumption, TimeAssumption, TimeoutAssumption, LimitAssumption
     DEF TypeOK
<1>10. \/ now >= End(W) + Timeout
       \/ n <= key[W].count /\ n <= Limit
       \/ /\ now >= End(W)
          /\ n <= Limit + key[W].count
          /\ key[W].there => key[W].expires >= End(W) + Timeout
  BY DEF Covered
<1>11. n <= IF now < End(W) THEN Limit ELSE 2 * Limit
  BY DEF SpendersBounded
<1> HIDE DEF n, m, granted
<1>12. /\ \/ now >= End(W) + Timeout
          \/ m <= k.count /\ m <= Limit
          \/ /\ now >= End(W)
             /\ m <= Limit + k.count
             /\ k.expires >= End(W) + Timeout
       /\ m <= IF now < End(W) THEN Limit ELSE 2 * Limit
  <2>1. CASE now >= End(W) + Timeout
    <3>1. ~granted /\ m = n
      BY <1>3, <1>4, <1>8, <1>9, <2>1
    <3> QED
      BY <1>11, <2>1, <3>1
  <2>2. CASE n <= key[W].count /\ n <= Limit
    <3>1. m <= k.count /\ m <= Limit
      BY <1>1, <1>2, <1>8, <1>9, <2>2
    <3> QED
      BY <1>8, <1>9, <3>1
  <2>3. CASE /\ now >= End(W)
             /\ n <= Limit + key[W].count
             /\ key[W].there => key[W].expires >= End(W) + Timeout
    <3>1. m <= Limit + k.count
      BY <1>2, <1>8, <1>9, <2>3
    <3>2. m <= 2 * Limit
      <4>1. CASE granted
        BY <1>1, <1>8, <1>9, <2>3, <4>1
      <4>2. CASE ~granted
        BY <1>8, <1>9, <1>11, <2>3, <4>2
      <4> QED
        BY <4>1, <4>2
    <3> QED
      BY <1>2, <1>9, <2>3, <3>1, <3>2
  <2> QED
    BY <1>10, <2>1, <2>2, <2>3
<1>13. Covered'
  BY <1>3, <1>4, <1>7, <1>12 DEF Covered, m, End
<1>14. SpendersBounded'
  BY <1>3, <1>7, <1>12 DEF SpendersBounded, m, End
<1> QED
  BY <1>5, <1>6, <1>13, <1>14

(* A settle: the request leaves the spenders only if it made no call, and  *)
(* only then does the counter shrink, by its one unit.                     *)
LEMMA SettleKeeps ==
    ASSUME IInv, NEW r \in Requests, Settle(r)
    PROVE  IInv'
<1> USE DEF IInv
<1>0. PICK W \in Windows : W = win[r]
  BY DEF TypeOK
<1> DEFINE k == IF calls[r] = 1 THEN key[W] ELSE Settled(key[W], calls[r] - 1)
<1>1. /\ key[W] \in [there : BOOLEAN, count : Nat, expires : Nat \cup {Never}]
      /\ calls[r] \in Nat /\ calls[r] - 1 \in Int
      /\ key[W].count \in Nat
  BY CallsAssumption DEF TypeOK
<1>2. /\ k \in [there : BOOLEAN, count : Nat, expires : Nat \cup {Never}]
      /\ k.there = key[W].there
      /\ k.expires = key[W].expires
      /\ ~key[W].there => k.count = key[W].count
      /\ key[W].there /\ key[W].expires # Never =>
            k.count >= key[W].count + (calls[r] - 1)
  <2>1. CASE calls[r] = 1
    BY <1>1, <2>1
  <2>2. CASE calls[r] # 1
    BY <1>1, <2>2, SettledCounter
  <2> QED
    BY <2>1, <2>2
<1>3. /\ key' = [key EXCEPT ![W] = k]
      /\ stage' = [stage EXCEPT ![r] = "settled"]
      /\ win' = win /\ now' = now /\ calls' = calls
      /\ stage[r] = "sent"
  <2>1. CASE calls[r] = 1
    BY <1>0, <2>1 DEF Settle, TypeOK
  <2>2. CASE calls[r] # 1
    BY <1>0, <2>2 DEF Settle
  <2> QED
    BY <2>1, <2>2
<1> HIDE DEF k
<1>4. /\ key'[W] = k
      /\ \A w \in Windows \ {W} : key'[w] = key[w]
  BY <1>3 DEF TypeOK
<1>5. TypeOK'
  BY <1>2, <1>3 DEF TypeOK
<1>6. CountersExpire'
  BY <1>2, <1>4 DEF CountersExpire
<1>7. /\ r \in Spenders(W)
      /\ calls[r] = 0 => Spenders(W)' = Spenders(W) \ {r}
      /\ calls[r] # 0 => Spenders(W)' = Spenders(W)
      /\ \A w \in Windows \ {W} : Spenders(w)' = Spenders(w)
  <2>1. r \in Spenders(W)
    BY <1>0, <1>3 DEF Spenders
  <2>2. ASSUME calls[r] = 0 PROVE Spenders(W)' = Spenders(W) \ {r}
    BY <1>0, <1>3, <2>2 DEF Spenders, TypeOK
  <2>3. ASSUME calls[r] # 0 PROVE Spenders(W)' = Spenders(W)
    BY <1>0, <1>1, <1>3, <2>3 DEF Spenders, TypeOK
  <2>4. \A w \in Windows \ {W} : Spenders(w)' = Spenders(w)
    BY <1>0, <1>3 DEF Spenders, TypeOK
  <2> QED
    BY <2>1, <2>2, <2>3, <2>4
<1> DEFINE n == Cardinality(Spenders(W))
           m == Cardinality(Spenders(W)')
<1>8. /\ n \in Nat \ {0} /\ m \in Nat
      /\ calls[r] = 0 => m = n - 1
      /\ calls[r] # 0 => m = n
  <2>1. n \in Nat
    BY SpendersFinite
  <2>2. Cardinality(Spenders(W) \ {r}) = n - 1 /\ n # 0
    BY <1>7, SpendersFinite, FS_RemoveElement, FS_EmptySet
  <2>3. /\ calls[r] = 0 => m = n - 1
        /\ calls[r] # 0 => m = n
    BY <1>7, <2>2
  <2> QED
    BY <1>1, <2>1, <2>2, <2>3
<1>9. /\ now \in Nat /\ End(W) \in Nat /\ Timeout \in Nat /\ Limit \in Nat
      /\ k.count \in Nat
      /\ key[W].there => k.count >= key[W].count + (calls[r] - 1)
      /\ ~key[W].there => key[W].count = 0 /\ k.count = 0
  BY <1>2, Ends, TimeAssumption, TimeoutAssumption, LimitAssumption
     DEF TypeOK, CountersExpire
<1>10. /\ \/ now >= End(W) + Timeout
          \/ n <= key[W].count /\ n <= Limit
          \/ /\ now >= End(W)
             /\ n <= Limit + key[W].count
             /\ key[W].there => key[W].expires >= End(W) + Timeout
       /\ n <= IF now < End(W) THEN Limit ELSE 2 * Limit
  BY DEF Covered, SpendersBounded
<1> HIDE DEF n, m
<1>12. /\ \/ now >= End(W) + Timeout
          \/ m <= k.count /\ m <= Limit
          \/ /\ now >= End(W)
             /\ m <= Limit + k.count
             /\ k.there => k.expires >= End(W) + Timeout
       /\ m <= IF now < End(W) THEN Limit ELSE 2 * Limit
  <2>1. m <= IF now < End(W) THEN Limit ELSE 2 * Limit
    BY <1>8, <1>9, <1>10
  <2>2. CASE now >= End(W) + Timeout
    BY <2>1, <2>2
  <2>3. CASE n <= key[W].count /\ n <= Limit
    <3>1. m <= k.count
      BY <1>1, <1>8, <1>9, <2>3
    <3>2. m <= Limit
      BY <1>8, <1>9, <2>3
    <3> QED
      BY <2>1, <3>1, <3>2
  <2>4. CASE /\ now >= End(W)
             /\ n <= Limit + key[W].count
             /\ key[W].there => key[W].expires >= End(W) + Timeout
    <3>1. m <= Limit + k.count
      <4>1. CASE calls[r] = 0
        BY <1>1, <1>8, <1>9, <2>4, <4>1
      <4>2. CASE calls[r] # 0
        <5>1. k.count >= key[W].count
          BY <1>1, <1>9, <4>2
        <5> QED
          BY <1>1, <1>8, <1>9, <2>4, <4>2, <5>1
      <4> QED
        BY <4>1, <4>2
    <3>2. k.there => k.expires >= End(W) + Timeout
      BY <1>2, <2>4
    <3> QED
      BY <2>1, <2>4, <3>1, <3>2
  <2> QED
    BY <1>10, <2>1, <2>2, <2>3, <2>4
<1>13. Covered'
  BY <1>3, <1>4, <1>7, <1>12 DEF Covered, m, End
<1>14. SpendersBounded'
  BY <1>3, <1>7, <1>12 DEF SpendersBounded, m, End
<1>15. Outlives' /\ Begun'
  <2>1. Outlives'
    BY <1>2, <1>3, <1>4 DEF Outlives, End
  <2>2. Begun'
    BY <1>3 DEF Begun, TypeOK
  <2> QED
    BY <2>1, <2>2
<1> QED
  BY <1>5, <1>6, <1>13, <1>14, <1>15

(* The clock: a counter that goes away had outlived its window, and one    *)
(* that had started again had outlived the answers in time.                *)
LEMMA TickKeeps ==
    ASSUME IInv, Tick
    PROVE  IInv'
<1> USE DEF IInv
<1>1. /\ now' = now + 1 /\ now \in Nat /\ now' \in 0 .. MaxTime
      /\ stage' = stage /\ win' = win /\ calls' = calls
      /\ Timeout \in Nat /\ Limit \in Nat
  BY TimeAssumption, TimeoutAssumption, LimitAssumption DEF Tick, TypeOK
<1>2. \A w \in Windows :
         /\ End(w) \in Nat
         /\ \/ key'[w] = key[w]
            \/ key'[w] = NoKey /\ key[w].there /\ key[w].expires <= now + 1
  BY Ends DEF Tick, TypeOK
<1>3. NoKey \in [there : BOOLEAN, count : Nat, expires : Nat \cup {Never}]
      /\ ~NoKey.there /\ NoKey.count = 0
  BY DEF NoKey
<1>4. TypeOK'
  <2>1. key' \in [Windows -> [there : BOOLEAN, count : Nat,
                            expires : Nat \cup {Never}]]
    BY <1>3 DEF Tick, TypeOK
  <2> QED
    BY <1>1, <1>2, <1>3, <2>1 DEF TypeOK
<1>5. \A w \in Windows : Spenders(w)' = Spenders(w)
  BY <1>1 DEF Spenders
<1>6. CountersExpire' /\ Outlives'
  BY <1>2, <1>3 DEF CountersExpire, Outlives, End
<1>7. Begun'
  <2>1. \A r \in Requests : win[r] * L \in Nat
    BY Ends DEF TypeOK
  <2> QED
    BY <1>1, <2>1 DEF Begun
<1>8. SpendersBounded'
  <2>1. SUFFICES ASSUME NEW w \in Windows
                 PROVE  Cardinality(Spenders(w)) <=
                           IF now' < End(w) THEN Limit ELSE 2 * Limit
    BY <1>5 DEF SpendersBounded, End
  <2>2. Cardinality(Spenders(w)) \in Nat /\ End(w) \in Nat
    BY <1>2, SpendersFinite
  <2>3. Cardinality(Spenders(w)) <= IF now < End(w) THEN Limit ELSE 2 * Limit
    BY DEF SpendersBounded
  <2> QED
    BY <1>1, <2>2, <2>3
<1>9. Covered'
  <2>1. SUFFICES ASSUME NEW w \in Windows
                 PROVE  \/ now' >= End(w) + Timeout
                        \/ /\ Cardinality(Spenders(w)) <= key'[w].count
                           /\ Cardinality(Spenders(w)) <= Limit
                        \/ /\ now' >= End(w)
                           /\ Cardinality(Spenders(w)) <= Limit + key'[w].count
                           /\ key'[w].there =>
                                 key'[w].expires >= End(w) + Timeout
    BY <1>5 DEF Covered, End
  <2>2. /\ Cardinality(Spenders(w)) \in Nat /\ End(w) \in Nat
        /\ key[w].count \in Nat
    BY <1>2, SpendersFinite DEF TypeOK
  <2>3. \/ now >= End(w) + Timeout
        \/ /\ Cardinality(Spenders(w)) <= key[w].count
           /\ Cardinality(Spenders(w)) <= Limit
        \/ /\ now >= End(w)
           /\ Cardinality(Spenders(w)) <= Limit + key[w].count
           /\ key[w].there => key[w].expires >= End(w) + Timeout
    BY DEF Covered
  <2>4. CASE key'[w] = key[w]
    BY <1>1, <2>2, <2>3, <2>4
  <2>5. CASE key'[w] = NoKey /\ key[w].there /\ key[w].expires <= now + 1
    <3>1. key[w].expires \in Nat /\ key[w].expires >= End(w)
      BY <2>5 DEF Outlives, CountersExpire, TypeOK
    <3>2. key'[w].count = 0 /\ ~key'[w].there /\ now' >= End(w)
      BY <1>1, <1>3, <2>2, <2>5, <3>1
    <3>3. now' >= End(w) + Timeout \/ Cardinality(Spenders(w)) <= Limit
      BY <1>1, <2>2, <2>3, <2>5, <3>1
    <3> QED
      BY <1>1, <2>2, <3>2, <3>3
  <2> QED
    BY <1>2, <2>4, <2>5
<1> QED
  BY <1>4, <1>6, <1>7, <1>8, <1>9

(* The steps that touch neither the counters nor the set of spenders.      *)
LEMMA OthersKeep ==
    ASSUME IInv, NEW r \in Requests,
           \/ Begin(r) \/ Refuse(r) \/ FailClosed(r) \/ CallProvider(r)
           \/ Respond(r) \/ SettleLost(r) \/ Crash(r)
    PROVE  IInv'
<1>1. TypeOK' /\ UNCHANGED <<now, key>>
  <2>1. UNCHANGED <<now, key>>
    BY DEF Begin, Refuse, FailClosed, CallProvider, Respond, SettleLost, Crash
  <2>2. stage' \in [Requests -> {"new", "asking", "refused", "open", "sent",
                                "settled", "lost"}]
    BY DEF IInv, TypeOK, Begin, Refuse, FailClosed, CallProvider, Respond,
           SettleLost, Crash
  <2>3. calls' \in [Requests -> 0 .. MaxCalls]
    <3>1. CASE CallProvider(r)
      BY <3>1, CallsAssumption DEF IInv, TypeOK, CallProvider
    <3>2. CASE ~CallProvider(r)
      BY <3>2 DEF IInv, TypeOK, Begin, Refuse, FailClosed, Respond, SettleLost,
                  Crash
    <3> QED
      BY <3>1, <3>2
  <2>4. win' \in [Requests -> Windows]
    BY CurrentWindow DEF IInv, TypeOK, Begin, Refuse, FailClosed, CallProvider,
       Respond, SettleLost, Crash
  <2> QED
    BY <2>1, <2>2, <2>3, <2>4 DEF IInv, TypeOK
<1>2. \A w \in Windows : Spenders(w)' = Spenders(w)
  BY DEF IInv, TypeOK, Spenders, Begin, Refuse, FailClosed, CallProvider, Respond,
         SettleLost, Crash
<1>3. Begun'
  <2>1. CASE Begin(r)
    BY <2>1, CurrentWindow DEF IInv, TypeOK, Begun, Begin
  <2>2. CASE ~Begin(r)
    BY <2>2 DEF IInv, TypeOK, Begun, Refuse, FailClosed, CallProvider, Respond,
       SettleLost, Crash
  <2> QED
    BY <2>1, <2>2
<1> QED
  BY <1>1, <1>2, <1>3, Quiet

LEMMA StepKeeps == IInv /\ [Next]_vars => IInv'
<1> SUFFICES ASSUME IInv, [Next]_vars PROVE IInv'
  OBVIOUS
<1>1. CASE UNCHANGED vars
  <2>1. TypeOK' /\ Begun' /\ \A w \in Windows : Spenders(w)' = Spenders(w)
    BY <1>1 DEF vars, IInv, TypeOK, Begun, Spenders
  <2> QED
    BY <1>1, <2>1, Quiet DEF vars
<1>2. CASE Tick
  BY <1>2, TickKeeps
<1>3. ASSUME NEW r \in Requests, Reserve(r) \/ ReserveUnanswered(r)
      PROVE  IInv'
  BY <1>3, ReserveKeeps
<1>5. ASSUME NEW r \in Requests, Settle(r) PROVE IInv'
  BY <1>5, SettleKeeps
<1>6. ASSUME NEW r \in Requests,
             \/ Begin(r) \/ Refuse(r) \/ FailClosed(r) \/ CallProvider(r)
             \/ Respond(r) \/ SettleLost(r) \/ Crash(r)
      PROVE  IInv'
  BY <1>6, OthersKeep
<1> QED
  BY <1>1, <1>2, <1>3, <1>5, <1>6 DEF Next

-----------------------------------------------------------------------------

(* reserve/settle bound what one window of a subject can spend: at most    *)
(* Limit of its requests ever reach a provider while it lasts, and twice   *)
(* Limit with those answered after its end, whatever is lost.              *)
THEOREM SpendIsBounded == Spec => []SpendersBounded
<1>1. IInv => SpendersBounded
  BY DEF IInv
<1> QED
  BY <1>1, InitHolds, StepKeeps, PTL DEF Spec

(* SETTLE's guard works: no counter is ever left without an expiry.        *)
THEOREM NoImmortalCounter == Spec => []CountersExpire
<1>1. IInv => CountersExpire
  BY DEF IInv
<1> QED
  BY <1>1, InitHolds, StepKeeps, PTL DEF Spec

-----------------------------------------------------------------------------
(* The budget implements the allowance.                                    *)

(* The units that are gone, seen from the allowance, are the spenders.     *)
LEMMA GoneAreSpenders ==
    ASSUME TypeOK, NEW w
    PROVE  A!Gone(w) = Spenders(w)
<1>1. \A r \in Requests :
         UnitOf(r) \in {"held", "spent"} <=>
            \/ stage[r] \in {"open", "sent", "lost"}
            \/ stage[r] = "settled" /\ calls[r] > 0
  BY DEF TypeOK, UnitOf
<1> QED
  BY <1>1 DEF A!Gone, Spenders

(* RESERVE finds a count below the limit only while units of the window    *)
(* are to be had, in that window or the next.                              *)
LEMMA ReserveGrants ==
    ASSUME IInv, NEW r \in Requests, Reserve(r)
    PROVE  A!Grant(r)
<1> USE DEF IInv
<1>1. /\ stage[r] = "asking" /\ stage' = [stage EXCEPT ![r] = "open"]
      /\ now < End(win[r]) + Timeout
      /\ key[win[r]].count < Limit
      /\ UNCHANGED <<now, win, calls>>
  BY DEF Reserve
<1>2. PICK W \in Windows : W = win[r]
  BY DEF TypeOK
<1>3. /\ now \in Nat /\ Timeout \in Nat /\ Timeout <= L /\ L \in Nat \ {0}
      /\ Limit \in Nat /\ key[W].count \in Nat
  BY LengthAssumption, TimeAssumption, TimeoutAssumption, LimitAssumption
     DEF TypeOK
<1>4. /\ Window \in Windows /\ Window \in Nat
      /\ Window * L <= now /\ now < End(Window) /\ Window * L \in Nat
      /\ W \in Nat /\ End(W) \in Nat /\ End(W) = W * L + L
  BY CurrentWindow, Ends DEF TypeOK
<1>5. Window <= W + 1
  <2>1. SUFFICES ASSUME W + 2 <= Window PROVE FALSE
    BY <1>4
  <2>2. (W + 2) * L <= Window * L
    BY <1>3, <1>4, <2>1, Scaling
  <2>3. (W + 2) * L = W * L + L + L /\ W * L \in Nat
    BY <1>3, <1>4
  <2> QED
    BY <1>1, <1>2, <1>3, <1>4, <2>2, <2>3
<1>6. Cardinality(Spenders(W)) < IF Window = W THEN Limit ELSE 2 * Limit
  <2>1. Cardinality(Spenders(W)) \in Nat
    BY SpendersFinite
  <2>2. \/ now >= End(W) + Timeout
        \/ Cardinality(Spenders(W)) <= key[W].count
        \/ now >= End(W) /\ Cardinality(Spenders(W)) <= Limit + key[W].count
    BY DEF Covered
  <2>3. CASE Window = W
    <3>1. now < End(W)
      BY <1>4, <2>3
    <3> QED
      BY <1>1, <1>2, <1>3, <1>4, <2>1, <2>2, <2>3, <3>1
  <2>4. CASE Window # W
    BY <1>1, <1>2, <1>3, <1>4, <2>1, <2>2, <2>4
  <2> QED
    BY <2>3, <2>4
<1>7. [q \in Requests |-> UnitOf(q)]' =
      [[q \in Requests |-> UnitOf(q)] EXCEPT ![r] = "held"]
  <2>1. UnitOf(r)' = "held" /\ \A q \in Requests : q # r => UnitOf(q)' = UnitOf(q)
    BY <1>1 DEF TypeOK, UnitOf
  <2> QED
    BY <2>1
<1>8. UnitOf(r) = "asked"
  BY <1>1 DEF UnitOf
<1>9. UNCHANGED <<Window, win, [q \in Requests |-> calls[q] > 0]>>
  BY <1>1 DEF Window
<1>10. A!Cardinality(A!Gone(win[r])) = Cardinality(Spenders(W))
  <2>1. A!Gone(win[r]) = Spenders(W)
    BY <1>2, GoneAreSpenders
  <2> QED
    BY <2>1 DEF A!Cardinality, Cardinality
<1>11. A!Cardinality(A!Gone(win[r])) <
          IF Window = win[r] THEN Limit ELSE 2 * Limit
  BY <1>2, <1>6, <1>10
<1>12. Window <= win[r] + 1
  BY <1>2, <1>5
<1> HIDE DEF A!Gone, A!Cardinality
<1> QED
  BY <1>7, <1>8, <1>9, <1>11, <1>12 DEF A!Grant

(* A request asks once, in the window it is in.  A call is made by one     *)
(* that holds a unit, and a settle spends the unit of a request that made  *)
(* one and returns any other.                                              *)
LEMMA RequestAllowed ==
    ASSUME TypeOK, NEW r \in Requests,
           \/ Begin(r) \/ Refuse(r) \/ FailClosed(r) \/ ReserveUnanswered(r)
           \/ CallProvider(r) \/ Respond(r) \/ Settle(r) \/ SettleLost(r)
           \/ Crash(r)
    PROVE  [A!Next]_A!vars
<1> DEFINE Units == [q \in Requests |-> UnitOf(q)]
           Called == [q \in Requests |-> calls[q] > 0]
<1>1. \A q \in Requests : q # r => stage'[q] = stage[q] /\ calls'[q] = calls[q]
  BY DEF TypeOK, Begin, Refuse, FailClosed, ReserveUnanswered, CallProvider,
         Respond, Settle, SettleLost, Crash
<1>2. Window' = Window /\ (Begin(r) \/ win' = win)
  BY DEF Window, Begin, Refuse, FailClosed, ReserveUnanswered, CallProvider,
         Respond, Settle, SettleLost, Crash
<1>0. CASE Begin(r)
  <2>1. /\ stage[r] = "new" /\ stage'[r] = "asking" /\ calls' = calls
        /\ win' = [win EXCEPT ![r] = Window]
    BY <1>0 DEF TypeOK, Begin
  <2>2. UnitOf(r) = "none" /\ UnitOf(r)' = "asked"
    BY <2>1 DEF UnitOf
  <2>3. \A q \in Requests : q # r => UnitOf(q)' = UnitOf(q)
    BY <1>1, <2>1 DEF UnitOf
  <2>4. Units' = [Units EXCEPT ![r] = "asked"]
    BY <2>2, <2>3
  <2>5. Called' = Called
    BY <2>1
  <2> QED
    BY <1>2, <2>1, <2>2, <2>4, <2>5 DEF A!Ask, A!Next
<1>3. CASE Refuse(r) \/ FailClosed(r) \/ ReserveUnanswered(r)
  <2>1. /\ stage[r] = "asking" /\ stage'[r] = "refused" /\ calls' = calls
        /\ win' = win
    BY <1>3 DEF TypeOK, Refuse, FailClosed, ReserveUnanswered
  <2>2. UnitOf(r) = "asked" /\ UnitOf(r)' = "refused"
    BY <2>1 DEF UnitOf
  <2>3. \A q \in Requests : q # r => UnitOf(q)' = UnitOf(q)
    BY <1>1, <2>1 DEF UnitOf
  <2>4. Units' = [Units EXCEPT ![r] = "refused"]
    BY <2>2, <2>3
  <2>5. Called' = Called
    BY <2>1
  <2> QED
    BY <1>2, <2>1, <2>2, <2>4, <2>5 DEF A!Refuse, A!Next
<1>4. CASE CallProvider(r)
  <2>1. stage[r] = "open" /\ stage' = stage /\ calls'[r] > 0 /\ win' = win
    BY <1>4 DEF TypeOK, CallProvider
  <2>2. UnitOf(r) = "held"
    BY <2>1 DEF UnitOf
  <2>3. Units' = Units
    <3>1. \A q \in Requests : UnitOf(q)' = UnitOf(q)
      BY <1>1, <2>1 DEF UnitOf
    <3> QED
      BY <3>1
  <2>4. Called' = [Called EXCEPT ![r] = TRUE]
    BY <1>1, <2>1
  <2> QED
    BY <1>2, <2>1, <2>2, <2>3, <2>4 DEF A!Call, A!Next
<1>5. CASE Respond(r) \/ SettleLost(r) \/ Crash(r)
  <2>1. /\ stage[r] \in {"open", "sent"} /\ stage'[r] \in {"sent", "lost"}
        /\ calls' = calls /\ win' = win
    BY <1>5 DEF TypeOK, Respond, SettleLost, Crash
  <2>2. \A q \in Requests : UnitOf(q)' = UnitOf(q)
    BY <1>1, <2>1 DEF UnitOf
  <2> QED
    BY <1>2, <2>1, <2>2 DEF A!vars
<1>6. CASE Settle(r)
  <2>1. stage[r] = "sent" /\ stage'[r] = "settled" /\ calls' = calls /\ win' = win
    BY <1>6 DEF TypeOK, Settle
  <2>2. UnitOf(r) = "held"
        /\ UnitOf(r)' = IF Called[r] THEN "spent" ELSE "returned"
    BY <2>1 DEF UnitOf
  <2>3. \A q \in Requests : q # r => UnitOf(q)' = UnitOf(q)
    BY <1>1, <2>1 DEF UnitOf
  <2>4. Units' = [Units EXCEPT ![r] = IF Called[r] THEN "spent" ELSE "returned"]
    BY <2>2, <2>3
  <2> QED
    BY <1>2, <2>1, <2>2, <2>4 DEF A!Settle, A!Next
<1> QED
  BY <1>0, <1>3, <1>4, <1>5, <1>6

(* The clock stays in its window or enters a later one.                    *)
LEMMA TickAllowed ==
    ASSUME TypeOK, Tick
    PROVE  [A!Next]_A!vars
<1>1. /\ now \in Nat /\ now' = now + 1 /\ L \in Nat \ {0}
      /\ stage' = stage /\ win' = win /\ calls' = calls
  BY LengthAssumption, TimeAssumption DEF TypeOK, Tick
<1>2. /\ now \div L \in Nat /\ (now \div L) * L <= now
      /\ now' \div L \in Nat /\ now' < (now' \div L + 1) * L
  BY <1>1, Division
<1>3. now \div L <= now' \div L
  <2>1. SUFFICES ASSUME now' \div L + 1 <= now \div L PROVE FALSE
    BY <1>2
  <2>2. (now' \div L + 1) * L <= (now \div L) * L
    BY <2>1, <1>1, <1>2, Scaling
  <2> QED
    BY <2>2, <1>1, <1>2
<1>4. Window' = Window \/ (Window' \in Nat /\ Window' > Window)
  BY <1>1, <1>2, <1>3 DEF Window
<1>5. UNCHANGED <<[q \in Requests |-> UnitOf(q)],
                  [q \in Requests |-> calls[q] > 0], win>>
  BY <1>1 DEF UnitOf
<1> QED
  BY <1>4, <1>5 DEF A!NextWindow, A!Next, A!vars

(* The counters, scripts, expiries and failures of the budget implement    *)
(* the allowance it promises, for every limit, window length and set of    *)
(* requests: every step is a step of the allowance or none at all.         *)
THEOREM Implements == Spec => KeepsAllowance
<1>1. Init => A!Init
  <2>1. 0 \div L = 0
    <3>1. /\ 0 \div L \in Nat /\ (0 \div L) * L <= 0 /\ L \in Nat \ {0}
      BY LengthAssumption, Division
    <3> QED
      BY <3>1, LengthAssumption
  <2>2. ASSUME Init PROVE \A r \in Requests : UnitOf(r) = "none" /\ ~(calls[r] > 0)
    BY <2>2 DEF Init, UnitOf
  <2>3. ASSUME Init
        PROVE  /\ [r \in Requests |-> UnitOf(r)] = [r \in Requests |-> "none"]
               /\ [r \in Requests |-> calls[r] > 0] = [r \in Requests |-> FALSE]
    <3>1. [r \in Requests |-> UnitOf(r)] = [r \in Requests |-> "none"]
      BY <2>2, <2>3
    <3>2. \A r \in Requests : (calls[r] > 0) = FALSE
      BY <2>2, <2>3
    <3>3. [r \in Requests |-> calls[r] > 0] = [r \in Requests |-> FALSE]
      BY <3>2, Zenon
    <3> QED
      BY <3>1, <3>3
  <2> QED
    BY <2>1, <2>3 DEF Init, A!Init, Window
<1>2. IInv /\ [Next]_vars => [A!Next]_A!vars
  <2> SUFFICES ASSUME IInv, [Next]_vars PROVE [A!Next]_A!vars
    OBVIOUS
  <2>1. CASE UNCHANGED vars
    BY <2>1 DEF vars, A!vars, Window, UnitOf
  <2>2. CASE Tick
    BY <2>2, TickAllowed DEF IInv
  <2>3. ASSUME NEW r \in Requests, Reserve(r)
        PROVE  A!Next
    BY <2>3, ReserveGrants DEF A!Next
  <2>4. ASSUME NEW r \in Requests,
               \/ Begin(r) \/ Refuse(r) \/ FailClosed(r)
               \/ ReserveUnanswered(r) \/ CallProvider(r) \/ Respond(r)
               \/ Settle(r) \/ SettleLost(r) \/ Crash(r)
        PROVE  [A!Next]_A!vars
    BY <2>4, RequestAllowed DEF IInv
  <2> QED
    BY <2>1, <2>2, <2>3, <2>4 DEF Next
<1> QED
  BY <1>1, <1>2, InitHolds, StepKeeps, PTL DEF Spec, KeepsAllowance, A!Spec

-----------------------------------------------------------------------------
(* The local copy.                                                         *)

(* A loader's steps before the indexes may have any staging table.         *)
Staged ==
    /\ published \in Nat
    /\ loader \in [Runs -> [at : C!Steps, dump : Nat, stage : C!Content]]
    /\ \A r \in Runs : loader[r].at \in {"index", "swap"} =>
                          loader[r].stage = "whole"

Whole == Staged /\ C!NeverPartial

(* A loader's step that leaves the live table alone.                       *)
LEMMA LoaderMoves ==
    ASSUME Whole, NEW r \in Runs,
           NEW l \in [at : C!Steps, dump : Nat, stage : C!Content],
           loader' = [loader EXCEPT ![r] = l], UNCHANGED <<published, live>>,
           l.at \in {"index", "swap"} => l.stage = "whole"
    PROVE  Whole'
  BY DEF Whole, Staged, C!NeverPartial, C!EmptyTable

(* A step that touches neither.                                            *)
LEMMA Untouched ==
    ASSUME Whole, UNCHANGED <<published, live, loader>>
    PROVE  Whole'
  BY DEF Whole, Staged, C!NeverPartial, C!EmptyTable

(* A loader that is started, goes on or ends.  Only one whose staging      *)
(* table was verified goes on to the indexes.                              *)
LEMMA LoaderKeeps ==
    ASSUME Whole, NEW r \in Runs,
           \/ C!Begin(r) \/ C!Choose(r) \/ C!NothingToDo(r) \/ C!Stage(r)
           \/ C!Copy(r) \/ C!Verify(r) \/ C!Index(r) \/ C!Record(r)
           \/ C!LoaderFails(r)
    PROVE  Whole'
<1> DEFINE Rec == [at : C!Steps, dump : Nat, stage : C!Content]
<1>1. loader[r] \in Rec /\ published \in Nat
  BY DEF Whole, Staged
<1>2. C!NoLoader \in Rec /\ C!NoLoader.at = "none"
  BY DEF C!NoLoader, C!Steps, C!Content
<1>3. UNCHANGED <<published, live>>
  BY DEF C!Begin, C!Choose, C!NothingToDo, C!Stage, C!Copy, C!Verify, C!Index,
         C!Record, C!LoaderFails, C!tables, C!store
<1>4. ASSUME NEW step \in {"choose", "copy"},
             loader' = [loader EXCEPT ![r].at = step]
      PROVE  Whole'
  <2>1. [loader[r] EXCEPT !.at = step] \in Rec
    BY <1>1 DEF C!Steps
  <2>2. QED
    BY <1>1, <1>3, <1>4, <2>1, LoaderMoves
<1>5. ASSUME NEW step \in {"index", "swap"}, loader[r].stage = "whole",
             loader' = [loader EXCEPT ![r].at = step]
      PROVE  Whole'
  <2>1. /\ [loader[r] EXCEPT !.at = step] \in Rec
        /\ [loader[r] EXCEPT !.at = step].stage = "whole"
    BY <1>1, <1>5 DEF C!Steps
  <2>2. QED
    BY <1>3, <1>5, <2>1, LoaderMoves
<1>6. ASSUME loader' = [loader EXCEPT ![r] = C!NoLoader] PROVE Whole'
  BY <1>2, <1>3, <1>6, LoaderMoves
<1>7. CASE C!Choose(r)
  <2>1. [loader[r] EXCEPT !.at = "gate", !.dump = published] \in Rec
    BY <1>1 DEF C!Steps
  <2>2. loader' = [loader EXCEPT ![r] =
                      [loader[r] EXCEPT !.at = "gate", !.dump = published]]
    BY <1>1, <1>7 DEF C!Choose
  <2>3. QED
    BY <1>1, <1>3, <2>1, <2>2, LoaderMoves
<1>8. CASE C!Copy(r)
  <2>1. PICK c \in C!Content :
          loader' = [loader EXCEPT ![r].at = "verify", ![r].stage = c]
    BY <1>8 DEF C!Copy
  <2>2. [loader[r] EXCEPT !.at = "verify", !.stage = c] \in Rec
    BY <1>1 DEF C!Steps
  <2>3. loader' = [loader EXCEPT ![r] =
                      [loader[r] EXCEPT !.at = "verify", !.stage = c]]
    BY <1>1, <2>1
  <2>4. QED
    BY <1>1, <1>3, <2>2, <2>3, LoaderMoves
<1>9. CASE C!Begin(r) \/ C!Stage(r)
  BY <1>4, <1>9 DEF C!Begin, C!Stage, C!Go
<1>10. CASE C!Verify(r)
  BY <1>5, <1>10 DEF C!Verify, C!Verified, C!Go
<1>11. CASE C!Index(r)
  BY <1>5, <1>11 DEF C!Index, C!At, C!Go, Whole, Staged
<1>12. CASE C!NothingToDo(r) \/ C!Record(r) \/ C!LoaderFails(r)
  BY <1>6, <1>12 DEF C!NothingToDo, C!Record, C!LoaderFails, C!Exit
<1>13. QED
  BY <1>7, <1>8, <1>9, <1>10, <1>11, <1>12

(* The swap: what goes live is what was verified.                          *)
LEMMA SwapKeeps ==
    ASSUME Whole, NEW r \in Runs, C!Swap(r) PROVE Whole'
<1>1. loader[r] \in [at : C!Steps, dump : Nat, stage : C!Content]
  BY DEF Whole, Staged
<1>2. loader[r].stage = "whole"
  BY DEF C!Swap, C!At, Whole, Staged
<1>3. live'.content = "whole" /\ UNCHANGED published
  BY <1>2 DEF C!Swap
<1>4. loader' = [loader EXCEPT ![r] =
                    [loader[r] EXCEPT !.at = "record", !.stage = "none"]]
  BY <1>1 DEF C!Swap
<1>5. [loader[r] EXCEPT !.at = "record", !.stage = "none"]
         \in [at : C!Steps, dump : Nat, stage : C!Content]
  BY <1>1 DEF C!Steps, C!Content
<1>6. Staged'
  BY <1>3, <1>4, <1>5 DEF Whole, Staged
<1>7. QED
  BY <1>3, <1>6 DEF Whole, C!NeverPartial

(* A restore empties the table and ends every load.                        *)
LEMMA RestoreKeeps ==
    ASSUME Whole, C!Restore PROVE Whole'
<1>1. live' = C!EmptyTable /\ published' = published
      /\ loader' = [r \in Runs |-> C!NoLoader]
  BY DEF C!Restore
<1>2. C!NoLoader \in [at : C!Steps, dump : Nat, stage : C!Content]
  BY DEF C!NoLoader, C!Steps, C!Content
<1>3. QED
  BY <1>1, <1>2 DEF Whole, Staged, C!NeverPartial, C!NoLoader, C!EmptyTable

(* Whatever one step of the refresh does, what is served stays whole.      *)
LEMMA WholeKept == Whole /\ [C!Next]_(C!vars) => Whole'
<1> SUFFICES ASSUME Whole, [C!Next]_(C!vars) PROVE Whole'
  OBVIOUS
<1>1. ASSUME NEW r \in Runs, C!LoaderClosed(r) \/ C!Finish(r) \/ C!JobDies(r)
      PROVE  Whole'
  BY <1>1, Untouched DEF C!LoaderClosed, C!Finish, C!JobDies, C!tables
<1>2. CASE C!Migrate \/ C!Lookup \/ C!Tick \/ UNCHANGED C!vars
  BY <1>2, Untouched DEF C!Migrate, C!Lookup, C!Tick, C!tables, C!vars
<1>3. CASE C!Publish
  <2>1. published' \in Nat /\ UNCHANGED <<live, loader>>
    BY <1>3 DEF C!Publish, C!tables, Whole, Staged
  <2>2. QED
    BY <2>1 DEF Whole, Staged, C!NeverPartial, C!EmptyTable
<1>4. QED
  BY <1>1, <1>2, <1>3, LoaderKeeps, SwapKeeps, RestoreKeeps
  DEF C!Next, C!LoaderStep

(* No lookup is ever answered from a dump that was cut, damaged or too     *)
(* short, whichever loaders, jobs and restores come in between; alone and  *)
(* beside the budget.                                                      *)
THEOREM DumpsAreWhole ==
    /\ C!Spec => []C!NeverPartial
    /\ MCSpec => []NeverPartial
<1>1. C!Init => Whole
  BY DEF C!Init, Whole, Staged, C!NeverPartial, C!NoLoader, C!Steps, C!Content
<1>2. C!Spec => []C!NeverPartial
  BY <1>1, WholeKept, PTL DEF C!Spec, Whole
<1>3. MCInit => Whole
  BY <1>1 DEF MCInit
<1>4. Whole /\ [MCNext]_<<part, vars, refresh>> => Whole'
  <2>1. CASE part = "budget" /\ Next /\ UNCHANGED <<part, refresh>>
    BY <2>1, WholeKept DEF refresh, C!vars
  <2>2. CASE UNCHANGED <<part, vars, refresh>>
    BY <2>2, WholeKept DEF refresh, C!vars
  <2>3. QED
    BY <2>1, <2>2, WholeKept DEF MCNext
<1>5. Whole => NeverPartial
  BY DEF Whole, NeverPartial
<1>6. MCSpec => []NeverPartial
  BY <1>3, <1>4, <1>5, PTL DEF MCSpec
<1>7. QED
  BY <1>2, <1>6
=============================================================================
