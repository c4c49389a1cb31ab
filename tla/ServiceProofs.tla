---------------------------- MODULE ServiceProofs ----------------------------
(***************************************************************************)
(* Proofs about the three things one API process is asked to do, each for  *)
(* any constants.                                                          *)
(*                                                                         *)
(* POST /v1/wishlist under an Idempotency-Key, for any number of requests  *)
(* and any bodies: OneOriginal speaks of what was created and answered.    *)
(* That it cannot be broken rests on who may create at all (Exclusive): as *)
(* long as nothing has failed and no key has expired, the claim is never   *)
(* given back, so whoever executes is the one request that inserted the    *)
(* row, and the row carries that request's body.                           *)
(*                                                                         *)
(* The process itself, for any settings and any number of connections:     *)
(* that its clients are open under every request rests on when a request   *)
(* can be there at all (Serving).  The cap of a wishlist, for any number   *)
(* of writers: Counted.                                                    *)
(***************************************************************************)
EXTENDS MCService, FiniteSetTheorems, TLAPS

Exclusive ==
    /\ row.state # "expired"
    /\ row.state = "absent" => \A r \in Requests : stage[r] = "idle"
    /\ row.state # "done" => created = 0 /\ \A r \in Requests : reply[r] = 0
    /\ row.state = "done" => created = 1 /\ row.item = 1
    /\ \A r \in Requests :
          /\ stage[r] = "executing" => row.state = "claimed" /\ row.hash = body[r]
          /\ stage[r] \in {"committed", "failed"} => row.state = "done"
          /\ reply[r] # 0 => reply[r] = 1 /\ row.hash = body[r]
    /\ \A r, s \in Requests :
          stage[r] = "executing" /\ stage[s] = "executing" => r = s

IInv == TypeOK /\ (calm => Exclusive)

-----------------------------------------------------------------------------

(* Nobody has asked yet.                                                   *)
LEMMA InitHolds == Init => IInv
<1> SUFFICES ASSUME Init PROVE IInv
  OBVIOUS
<1>1. TypeOK
  BY DEF Init, TypeOK, Absent, Items
<1>2. Exclusive
  BY DEF Init, Exclusive, Absent
<1>3. QED
  BY <1>1, <1>2 DEF IInv

(* The types of the parts, unfolded for the steps below.                   *)
LEMMA Typed ==
    ASSUME TypeOK
    PROVE  /\ stage \in [Requests -> {"idle", "conflict", "executing",
                                      "committed", "failed"}]
           /\ body \in [Requests -> Bodies \cup {NoBody}]
           /\ reply \in [Requests -> Items \cup {0}]
           /\ row.state \in {"absent", "claimed", "done", "expired"}
           /\ 0 \in Items \cup {0}
  BY DEF TypeOK

(* A request ends: with no answer, or with the stored one.                 *)
LEMMA EndKeeps ==
    ASSUME IInv, NEW r \in Requests, NEW item \in Items \cup {0},
           Answer(r, item), UNCHANGED <<row, body, created, calm>>,
           item # 0 => row.state = "done" /\ item = row.item /\ row.hash = body[r]
    PROVE  IInv'
<1>1. TypeOK'
  BY DEF IInv, TypeOK, Answer
<1>2. ASSUME calm' PROVE Exclusive'
  <2>1. Exclusive
    BY <1>2 DEF IInv
  <2>2. /\ \A s \in Requests : stage'[s] = IF s = r THEN "idle" ELSE stage[s]
        /\ \A s \in Requests : reply'[s] = IF s = r THEN item ELSE reply[s]
    BY Typed DEF IInv, Answer
  <2>3. QED
    BY <2>1, <2>2 DEF Exclusive
<1>3. QED
  BY <1>1, <1>2 DEF IInv

(* claim's INSERT: the first one owns the row.                             *)
LEMMA InsertKeeps ==
    ASSUME IInv, NEW r \in Requests, NEW b \in Bodies, Insert(r, b)
    PROVE  IInv'
<1> DEFINE c == [state |-> "claimed", hash |-> b, item |-> 0]
<1>1. TypeOK /\ stage[r] = "idle"
  BY DEF IInv, Insert
<1>2. /\ body' = [body EXCEPT ![r] = b] /\ reply' = [reply EXCEPT ![r] = 0]
      /\ UNCHANGED <<created, calm>>
  BY DEF Insert
<1>3. /\ \A s \in Requests : reply'[s] = IF s = r THEN 0 ELSE reply[s]
      /\ \A s \in Requests : body'[s] = IF s = r THEN b ELSE body[s]
  BY <1>1, <1>2, Typed
<1>4. CASE row.state = "absent"
  <2>1. row' = c /\ stage' = [stage EXCEPT ![r] = "executing"]
    BY <1>4 DEF Insert
  <2>2. row'.state = "claimed" /\ row'.hash = b /\ row'.item = 0
    BY <2>1
  <2>3. TypeOK'
    BY <1>1, <1>2, <2>1, BodiesAssumption DEF TypeOK
  <2>4. \A s \in Requests : stage'[s] = IF s = r THEN "executing" ELSE stage[s]
    BY <1>1, <2>1, Typed
  <2>5. ASSUME calm' PROVE Exclusive'
    <3>1. Exclusive
      BY <1>2, <2>5 DEF IInv
    <3>2. QED
      BY <1>2, <1>3, <1>4, <2>2, <2>4, <3>1 DEF Exclusive
  <2>6. QED
    BY <2>3, <2>5 DEF IInv
<1>5. CASE row.state # "absent"
  <2>1. row' = row /\ stage' = [stage EXCEPT ![r] = "conflict"]
    BY <1>5 DEF Insert
  <2>2. TypeOK'
    BY <1>1, <1>2, <2>1 DEF TypeOK
  <2>3. \A s \in Requests : stage'[s] = IF s = r THEN "conflict" ELSE stage[s]
    BY <1>1, <2>1, Typed
  <2>4. ASSUME calm' PROVE Exclusive'
    <3>1. Exclusive
      BY <1>2, <2>4 DEF IInv
    <3>2. QED
      BY <1>2, <1>3, <1>5, <2>1, <2>3, <3>1 DEF Exclusive
  <2>5. QED
    BY <2>2, <2>4 DEF IInv
<1>6. QED
  BY <1>4, <1>5

(* claim's SELECT without a live row: impossible while all is calm.        *)
LEMMA SelectNoneKeeps ==
    ASSUME IInv, NEW r \in Requests, SelectNone(r) PROVE IInv'
<1>1. TypeOK'
  BY DEF IInv, TypeOK, SelectNone
<1>2. ~calm
  BY DEF IInv, Exclusive, SelectNone
<1>3. QED
  BY <1>1, <1>2 DEF IInv, SelectNone

(* claim's SELECT with one: the stored response, or a conflict.            *)
LEMMA SelectKeeps ==
    ASSUME IInv, NEW r \in Requests, SelectReplay(r) \/ Select409(r) PROVE IInv'
<1>1. ASSUME SelectReplay(r) PROVE IInv'
  <2>1. row.item \in Items \cup {0}
    BY DEF IInv, TypeOK
  <2>2. QED
    BY <1>1, <2>1, EndKeeps DEF SelectReplay
<1>2. ASSUME Select409(r) PROVE IInv'
  BY <1>2, EndKeeps DEF Select409
<1>3. QED
  BY <1>1, <1>2

(* The second transaction: the only executor creates the first item.       *)
LEMMA CommitKeeps ==
    ASSUME IInv, NEW r \in Requests, Commit(r) PROVE IInv'
<1> DEFINE item == IF created = 0 THEN 1 ELSE 2
<1>1. TypeOK /\ stage[r] = "executing" /\ item \in Items
  BY DEF IInv, Commit, Items
<1>2. /\ created' = IF row.state = "expired" THEN created ELSE item
      /\ row' = IF row.state \in {"claimed", "done"}
                THEN [row EXCEPT !.state = "done", !.item = item] ELSE row
      /\ stage' = [stage EXCEPT ![r] = "committed"]
      /\ reply' = [reply EXCEPT ![r] = item]
      /\ UNCHANGED <<body, calm>>
  BY DEF Commit
<1>3. row.state \in {"claimed", "done"} =>
         row'.state = "done" /\ row'.item = item /\ row'.hash = row.hash
  BY <1>1, <1>2 DEF TypeOK
<1>4. TypeOK'
  <2>1. row' \in [state : {"absent", "claimed", "done", "expired"},
                  hash : Bodies \cup {NoBody}, item : Items \cup {0}]
    BY <1>1, <1>2 DEF TypeOK
  <2>2. created' \in Items \cup {0}
    BY <1>1, <1>2 DEF TypeOK
  <2>3. /\ row'.state = "absent" <=> row'.hash = NoBody
        /\ row'.state \in {"absent", "claimed"} => row'.item = 0
        /\ row'.state = "done" => row'.item # 0
    BY <1>1, <1>2, <1>3 DEF TypeOK
  <2>4. QED
    BY <1>1, <1>2, <2>1, <2>2, <2>3 DEF TypeOK
<1>5. ASSUME calm' PROVE Exclusive'
  <2>1. Exclusive
    BY <1>2, <1>5 DEF IInv
  <2>2. row.state = "claimed" /\ row.hash = body[r] /\ created = 0
    BY <1>1, <2>1 DEF Exclusive
  <2>3. created' = 1 /\ row'.state = "done" /\ row'.item = 1 /\ row'.hash = row.hash
    BY <1>2, <1>3, <2>2
  <2>4. /\ \A s \in Requests : stage'[s] = IF s = r THEN "committed" ELSE stage[s]
        /\ \A s \in Requests : reply'[s] = IF s = r THEN 1 ELSE reply[s]
    BY <1>1, <1>2, <2>2, Typed
  <2>5. \A s \in Requests : stage'[s] # "executing"
    BY <1>1, <2>1, <2>4 DEF Exclusive
  <2>6. QED
    BY <1>2, <2>1, <2>2, <2>3, <2>4, <2>5 DEF Exclusive
<1>6. QED
  BY <1>4, <1>5 DEF IInv

(* 201, or a commit whose acknowledgement is lost.                         *)
LEMMA ReplyKeeps ==
    ASSUME IInv, NEW r \in Requests, Reply(r) \/ ReplyLost(r) PROVE IInv'
<1>1. TypeOK /\ stage[r] = "committed" /\ UNCHANGED <<row, body, created, calm>>
  BY DEF IInv, Reply, ReplyLost
<1>2. TypeOK'
  BY <1>1 DEF TypeOK, Reply, ReplyLost
<1>3. /\ \A s \in Requests : s # r => stage'[s] = stage[s] /\ reply'[s] = reply[s]
      /\ stage'[r] \in {"idle", "failed"}
      /\ reply'[r] \in {0, reply[r]}
  BY <1>1, Typed DEF Reply, ReplyLost
<1>4. ASSUME calm' PROVE Exclusive'
  <2>1. Exclusive
    BY <1>1, <1>4 DEF IInv
  <2>2. QED
    BY <1>1, <1>3, <2>1 DEF Exclusive
<1>5. QED
  BY <1>2, <1>4 DEF IInv

(* The catch block gives back only a claim without a response, which while *)
(* all is calm no failed request meets.                                    *)
LEMMA ReleaseKeeps ==
    ASSUME IInv, NEW r \in Requests, Release(r) PROVE IInv'
<1>1. CASE row.state # "claimed"
  BY <1>1, EndKeeps DEF Release
<1>2. CASE row.state = "claimed"
  <2>1. ~calm
    BY <1>2 DEF IInv, Exclusive, Release
  <2>2. TypeOK'
    BY <1>2 DEF IInv, TypeOK, Release, Answer, Absent, Items
  <2>3. QED
    BY <2>1, <2>2 DEF IInv, Release
<1>3. QED
  BY <1>1, <1>2

(* Every step of the system keeps the invariant.                           *)
LEMMA StepKeeps == IInv /\ [Next]_vars => IInv'
<1> SUFFICES ASSUME IInv, [Next]_vars PROVE IInv'
  OBVIOUS
<1>1. ASSUME NEW r \in Requests, ReleaseFails(r) \/ Crash(r) PROVE IInv'
  BY <1>1, EndKeeps DEF ReleaseFails, Crash
<1>2. ASSUME NEW r \in Requests, Rollback(r) PROVE IInv'
  <2>1. TypeOK'
    BY <1>2 DEF IInv, TypeOK, Rollback
  <2>2. QED
    BY <1>2, <2>1 DEF IInv, Rollback
<1>3. CASE Expire
  <2>1. TypeOK'
    BY <1>3 DEF IInv, TypeOK, Expire
  <2>2. QED
    BY <1>3, <2>1 DEF IInv, Expire
<1>4. CASE Sweep
  <2>1. TypeOK'
    BY <1>4 DEF IInv, TypeOK, Sweep, Absent, Items
  <2>2. QED
    BY <1>4, <2>1 DEF IInv, Sweep, Exclusive
<1>5. CASE UNCHANGED vars
  BY <1>5 DEF vars, IInv, TypeOK, Exclusive
<1>6. QED
  BY <1>1, <1>2, <1>3, <1>4, <1>5, InsertKeeps, SelectNoneKeeps, SelectKeeps,
     CommitKeeps, ReplyKeeps, ReleaseKeeps
  DEF Next

(* The invariant holds throughout.                                         *)
LEMMA Invariance == Spec => []IInv
<1>1. QED
  BY InitHolds, StepKeeps, PTL DEF Spec

(* While no create fails and no key expires, a key creates one item, and   *)
(* everybody answered 201 was given it for the body that claimed the key.  *)
THEOREM CreatesOnce == Spec => []OneOriginal
<1>1. IInv => OneOriginal
  <2> SUFFICES ASSUME TypeOK, Exclusive PROVE OneOriginal
    BY DEF IInv, OneOriginal
  <2>1. row.state \in {"absent", "claimed", "done", "expired"}
    BY DEF TypeOK
  <2>2. created <= 1
    BY <2>1 DEF Exclusive
  <2>3. QED
    BY <2>2 DEF Exclusive, OneOriginal
<1>2. QED
  BY <1>1, Invariance, PTL

(* A stored response is never given back before it expires, whatever       *)
(* fails, crashes or is lost.                                              *)
THEOREM ResponsesAreKept == Spec => ResponseSurvives
<1>1. TypeOK /\ [Next]_vars =>
         [row.state = "done" => row'.state \in {"done", "expired"}]_vars
  <2> SUFFICES ASSUME TypeOK, Next, row.state = "done"
               PROVE  row'.state \in {"done", "expired"}
    OBVIOUS
  <2>1. ASSUME NEW r \in Requests, Commit(r) PROVE row'.state = "done"
    BY <2>1 DEF Commit, TypeOK
  <2>2. ASSUME NEW r \in Requests, NEW b \in Bodies, Insert(r, b)
        PROVE  row' = row
    BY <2>2 DEF Insert
  <2>3. CASE Expire
    BY <2>3 DEF Expire, TypeOK
  <2>4. CASE Sweep
    BY <2>4 DEF Sweep
  <2>5. ASSUME NEW r \in Requests,
               \/ SelectNone(r) \/ SelectReplay(r) \/ Select409(r) \/ Reply(r)
               \/ ReplyLost(r) \/ Rollback(r) \/ Release(r) \/ ReleaseFails(r)
               \/ Crash(r)
        PROVE  row' = row
    BY <2>5 DEF SelectNone, SelectReplay, Select409, Reply, ReplyLost, Rollback,
                Release, ReleaseFails, Crash
  <2>6. QED
    BY <2>1, <2>2, <2>3, <2>4, <2>5 DEF Next
<1>2. IInv => TypeOK
  BY DEF IInv
<1>3. QED
  BY <1>1, <1>2, Invariance, PTL DEF Spec, ResponseSurvives

-----------------------------------------------------------------------------
(* The process.                                                            *)

(* The clients are open from Build to Drained, and a request is only there *)
(* between Listen and Drained, which waits for the last one.               *)
Serving ==
    /\ proc \in {"down", "loaded", "built", "listening", "draining", "closing"}
    /\ at \in [Conns -> {"idle", "limiter", "handler", "checking"}]
    /\ proc \in {"built", "listening", "draining"} => pools = "open"
    /\ proc \notin {"listening", "draining"} => \A c \in Conns : at[c] = "idle"

(* A request that is answered is no longer there.                          *)
LEMMA AnsweredKeeps ==
    ASSUME Serving, NEW c \in Conns, at[c] # "idle", S!Answered(c),
           UNCHANGED <<proc, pools>>
    PROVE  Serving'
<1>1. at' = [at EXCEPT ![c] = "idle"]
  BY DEF S!Answered
<1>2. QED
  BY <1>1 DEF Serving

(* The process ends, in whatever way.                                      *)
LEMMA ExitKeeps ==
    ASSUME S!Exit PROVE Serving'
  BY DEF S!Exit, Serving

(* Starting and stopping.                                                  *)
LEMMA LifeKeeps ==
    ASSUME Serving,
           \/ S!Load \/ S!Build \/ S!Listen \/ S!Fatal \/ S!Sigterm \/ S!Drained
           \/ S!Closed \/ S!Forced
    PROVE  Serving'
<1>1. CASE S!Load \/ S!Build \/ S!Listen \/ S!Sigterm
  BY <1>1 DEF Serving, S!Load, S!Build, S!Listen, S!Sigterm, S!requests
<1>2. CASE S!Drained
  BY <1>2 DEF Serving, S!Drained, S!requests
<1>3. CASE S!Fatal \/ S!Closed \/ S!Forced
  BY <1>3, ExitKeeps DEF S!Fatal, S!Closed, S!Forced
<1>4. QED
  BY <1>1, <1>2, <1>3

(* One step of one request.  It arrives only while the process listens.    *)
LEMMA RequestKeeps ==
    ASSUME Serving, NEW c \in Conns,
           \/ \E k \in S!Routes : S!Arrive(c, k)
           \/ S!Limit(c) \/ S!Handle(c) \/ S!Healthz(c) \/ S!Readyz(c)
           \/ S!Checked(c) \/ S!CheckTimesOut(c)
    PROVE  Serving'
<1>1. ASSUME NEW k \in S!Routes, S!Arrive(c, k) PROVE Serving'
  <2>1. UNCHANGED <<proc, pools>>
    BY <1>1 DEF S!Arrive
  <2>2. \/ at' = at
        \/ proc = "listening" /\ at' = [at EXCEPT ![c] = "limiter"]
    BY <1>1 DEF S!Arrive
  <2>3. QED
    BY <2>1, <2>2 DEF Serving
<1>2. CASE S!Limit(c)
  <2>1. at[c] = "limiter" /\ UNCHANGED <<proc, pools>>
    BY <1>2 DEF S!Limit
  <2>2. S!Answered(c) \/ at' = [at EXCEPT ![c] = "handler"]
    BY <1>2 DEF S!Limit
  <2>3. QED
    BY <2>1, <2>2, AnsweredKeeps DEF Serving
<1>3. CASE S!Readyz(c)
  BY <1>3 DEF Serving, S!Readyz
<1>4. CASE S!Handle(c) \/ S!Healthz(c) \/ S!Checked(c) \/ S!CheckTimesOut(c)
  BY <1>4, AnsweredKeeps DEF S!Handle, S!Healthz, S!Checked, S!CheckTimesOut
<1>5. QED
  BY <1>1, <1>2, <1>3, <1>4

(* While a request is under way the clients it uses are open; for the      *)
(* process alone and beside the other two.                                 *)
THEOREM PoolsOutliveRequests ==
    /\ S!Spec => []S!NoDeadPool
    /\ MCSpec => []NoDeadPool
<1>1. S!Init => Serving
  BY DEF S!Init, Serving
<1>2. Serving /\ [S!Next]_(S!vars) => Serving'
  <2> SUFFICES ASSUME Serving, [S!Next]_(S!vars) PROVE Serving'
    OBVIOUS
  <2>1. ASSUME NEW e \in Settings, NEW texts \in LegalTexts,
               S!Configure(e, texts)
        PROVE  Serving'
    BY <2>1 DEF Serving, S!Configure, S!requests, S!flag
  <2>2. ASSUME NEW d \in S!Dependencies, S!Flap(d) PROVE Serving'
    BY <2>2 DEF Serving, S!Flap, S!requests, S!flag
  <2>3. CASE S!Flag \/ S!NextWindow \/ S!Tick
    BY <2>3 DEF Serving, S!Flag, S!NextWindow, S!Tick, S!requests
  <2>4. CASE UNCHANGED S!vars
    BY <2>4 DEF Serving, S!vars
  <2>5. QED
    BY <2>1, <2>2, <2>3, <2>4, LifeKeeps, RequestKeeps DEF S!Next
<1>3. Serving => S!NoDeadPool
  BY DEF Serving, S!NoDeadPool
<1>4. S!Spec => []S!NoDeadPool
  BY <1>1, <1>2, <1>3, PTL DEF S!Spec
<1>5. MCInit => Serving
  BY <1>1 DEF MCInit
<1>6. Serving /\ [MCNext]_<<part, vars, process, wishlist>> => Serving'
  <2>1. CASE UNCHANGED process
    BY <2>1, <1>2 DEF process, S!vars
  <2>2. CASE S!Next
    BY <2>2, <1>2
  <2>3. QED
    BY <2>1, <2>2 DEF MCNext
<1>7. Serving => NoDeadPool
  BY <1>3 DEF NoDeadPool
<1>8. MCSpec => []NoDeadPool
  BY <1>5, <1>6, <1>7, PTL DEF MCSpec
<1>9. QED
  BY <1>4, <1>8

-----------------------------------------------------------------------------
(* The wishlist.                                                           *)

Adders == {w \in Writers : adding[w] # L!Idle}

Counted ==
    /\ IsFiniteSet(items)
    /\ adding \in [Writers -> Nat]
    /\ now \in Nat
    /\ Cardinality(items) + Cardinality(Adders) <= Cap + Cardinality(Writers) - 1

(* The wishlist counts as the library's facts do.                          *)
LEMMA SameCount == \A X : L!Cardinality(X) = Cardinality(X)
  BY DEF L!Cardinality, Cardinality

(* The transactions under way are never more than the requests.            *)
LEMMA AddersBounded ==
    /\ IsFiniteSet(Adders) /\ Cardinality(Adders) \in Nat
    /\ Cardinality(Adders) <= Cardinality(Writers)
    /\ Cardinality(Writers) \in Nat
<1>1. Adders \in SUBSET Writers
  BY DEF Adders
<1>2. QED
  BY <1>1, WishlistAssumption, FS_Subset, FS_CardinalityType

(* A transaction that ends, with one more row or none, leaves the room it  *)
(* was counted for.                                                        *)
LEMMA EndsKeeps ==
    ASSUME Counted, NEW w \in Writers, adding[w] # L!Idle,
           adding' = [adding EXCEPT ![w] = L!Idle], now' = now,
           items' = items \/ \E i : items' = items \cup {i}
    PROVE  Counted'
<1>1. Adders' = Adders \ {w} /\ w \in Adders
  BY DEF Adders, Counted
<1>2. Cardinality(Adders') = Cardinality(Adders) - 1
  BY <1>1, AddersBounded, FS_RemoveElement
<1>3. /\ IsFiniteSet(items') /\ Cardinality(items) \in Nat
      /\ Cardinality(items') \in Nat
      /\ Cardinality(items') <= Cardinality(items) + 1
  BY FS_AddElement, FS_CardinalityType DEF Counted
<1>4. Cardinality(items) + Cardinality(Adders) <= Cap + Cardinality(Writers) - 1
  BY DEF Counted
<1>5. Cardinality(items') + Cardinality(Adders') <= Cap + Cardinality(Writers) - 1
  BY <1>2, <1>3, <1>4, AddersBounded, WishlistAssumption
<1>6. adding' \in [Writers -> Nat]
  BY WishlistAssumption DEF Counted, L!Idle
<1>7. QED
  BY <1>3, <1>5, <1>6 DEF Counted

(* A transaction counts: there is room for one, and then for every other.  *)
LEMMA CountKeeps ==
    ASSUME Counted, NEW w \in Writers, L!Count(w)
    PROVE  Counted'
<1>1. Cardinality(items) < Cap /\ UNCHANGED <<now, items>>
  BY SameCount DEF L!Count, L!BelowCap
<1>2. adding' \in [Writers -> Nat]
  BY DEF Counted, L!Count
<1>3. Adders' \in SUBSET Writers
  BY DEF Adders
<1>4. Cardinality(Adders') \in Nat /\ Cardinality(Adders') <= Cardinality(Writers)
  BY <1>3, WishlistAssumption, FS_Subset, FS_CardinalityType
<1>5. Cardinality(items) \in Nat
  BY FS_CardinalityType DEF Counted
<1>6. Cardinality(items') + Cardinality(Adders') <= Cap + Cardinality(Writers) - 1
  BY <1>1, <1>4, <1>5, AddersBounded, WishlistAssumption
<1>7. QED
  BY <1>1, <1>2, <1>6 DEF Counted

(* A row is taken off.                                                     *)
LEMMA RemoveKeeps ==
    ASSUME Counted, NEW i \in items, L!Remove(i)
    PROVE  Counted'
<1>1. /\ IsFiniteSet(items') /\ Cardinality(items') \in Nat
      /\ Cardinality(items) \in Nat
      /\ Cardinality(items') <= Cardinality(items)
  <2>1. IsFiniteSet(items) /\ items' = items \ {i}
    BY DEF Counted, L!Remove
  <2>2. IsFiniteSet(items \ {i}) /\ Cardinality(items \ {i}) = Cardinality(items) - 1
    BY <2>1, FS_RemoveElement
  <2>3. QED
    BY <2>1, <2>2, FS_CardinalityType
<1>2. Adders' = Adders /\ UNCHANGED <<now, adding>>
  BY DEF Adders, L!Remove
<1>3. Cardinality(items) + Cardinality(Adders) <= Cap + Cardinality(Writers) - 1
  BY DEF Counted
<1>4. Cardinality(items') + Cardinality(Adders') <= Cap + Cardinality(Writers) - 1
  BY <1>1, <1>2, <1>3, AddersBounded, WishlistAssumption
<1>5. QED
  BY <1>1, <1>2, <1>4 DEF Counted

(* The cap is passed by fewer items than there are requests at once.       *)
THEOREM CapIsNearlyKept ==
    /\ L!Spec => []L!CapNearlyHolds
    /\ MCSpec => []CapNearlyHolds
<1>1. L!Init => Counted
  <2> SUFFICES ASSUME L!Init PROVE Counted
    OBVIOUS
  <2>1. /\ now = 0 /\ items = {} /\ adding = [w \in Writers |-> L!Idle]
    BY DEF L!Init
  <2>2. Adders = {}
    BY <2>1 DEF Adders
  <2>3. Cardinality(items) = 0 /\ Cardinality(Adders) = 0 /\ IsFiniteSet(items)
    BY <2>1, <2>2, FS_EmptySet
  <2>4. Cardinality(Writers) > 0
    BY WishlistAssumption, FS_EmptySet, FS_CardinalityType
  <2>5. 0 + 0 <= Cap + Cardinality(Writers) - 1
    BY <2>4, AddersBounded, WishlistAssumption
  <2>6. adding \in [Writers -> Nat]
    BY <2>1, WishlistAssumption DEF L!Idle
  <2>7. QED
    BY <2>1, <2>3, <2>5, <2>6 DEF Counted
<1>2. Counted /\ [L!Next]_(L!vars) => Counted'
  <2> SUFFICES ASSUME Counted, [L!Next]_(L!vars) PROVE Counted'
    OBVIOUS
  <2>1. ASSUME NEW w \in Writers, L!Rollback(w) PROVE Counted'
    BY <2>1, EndsKeeps DEF L!Rollback
  <2>2. ASSUME NEW w \in Writers, NEW id \in Ids,
               NEW track \in Tracks \cup {L!NoTrack}, L!Insert(w, id, track)
        PROVE  Counted'
    <3>1. items' = items \/ \E i : items' = items \cup {i}
      BY <2>2 DEF L!Insert
    <3>2. QED
      BY <2>2, <3>1, EndsKeeps DEF L!Insert
  <2>3. CASE L!FirstPage \/ L!NextPage \/ L!Tick
    <3>1. UNCHANGED <<items, adding>> /\ now' \in Nat
      BY <2>3 DEF Counted, L!FirstPage, L!NextPage, L!Tick, L!reader
    <3>2. Adders' = Adders
      BY <3>1 DEF Adders
    <3>3. QED
      BY <3>1, <3>2 DEF Counted
  <2>4. CASE UNCHANGED L!vars
    BY <2>4 DEF Counted, Adders, L!vars, L!Idle
  <2>5. QED
    BY <2>1, <2>2, <2>3, <2>4, CountKeeps, RemoveKeeps DEF L!Next
<1>3. Counted => L!CapNearlyHolds
  BY SameCount DEF Counted, L!CapNearlyHolds, Adders
<1>4. L!Spec => []L!CapNearlyHolds
  BY <1>1, <1>2, <1>3, PTL DEF L!Spec
<1>5. MCInit => Counted
  BY <1>1 DEF MCInit
<1>6. Counted /\ [MCNext]_<<part, vars, process, wishlist>> => Counted'
  <2>1. CASE UNCHANGED wishlist
    BY <2>1, <1>2 DEF wishlist, L!vars
  <2>2. CASE L!Next
    BY <2>2, <1>2
  <2>3. QED
    BY <2>1, <2>2 DEF MCNext
<1>7. Counted => CapNearlyHolds
  BY <1>3 DEF CapNearlyHolds
<1>8. MCSpec => []CapNearlyHolds
  BY <1>5, <1>6, <1>7, PTL DEF MCSpec
<1>9. QED
  BY <1>4, <1>8

=============================================================================
