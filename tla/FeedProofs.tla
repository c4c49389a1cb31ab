---------------------------- MODULE FeedProofs ----------------------------
(***************************************************************************)
(* Proofs about whose account is whose and what a listener is shown.       *)
(*                                                                         *)
(* The directory reaper, for every number of identities and processes and  *)
(* every page size, page limit and cap, and with a lock that excludes      *)
(* nobody: what a run deletes it listed itself, as old and not verified    *)
(* (Chosen).                                                           *)
(*                                                                         *)
(* The provider accounts that people connect, for any number of people,    *)
(* accounts and flows: a flow's number is in one place at a time, waiting, *)
(* taken by a callback or stored (Waiting, Taken, BoundOnce).              *)
(*                                                                         *)
(* The catalogue pages, for any listeners: a response is made of what was  *)
(* just read or resolved, and the one kept for others still plays (Turns). *)
(* The crosswalk, for any dump and any queries: what a lookup is about to  *)
(* record was found under the folded name it asked for (NamesHold).        *)
(*                                                                         *)
(* The merge, for candidates of any sources: after each of them the entry  *)
(* of an identity stands for all that was offered of it (Stand), and an    *)
(* order without ties gives every entry a place (EveryPlaceTaken).  The    *)
(* blends, for any accounts and providers: what the cache holds was        *)
(* answered to a load under its key (Remembered), so that an outage can    *)
(* only lose shelves (NothingAdded), never silently (UnblamedIsWhole).     *)
(*                                                                         *)
(* The shelf of concerts, for any readers, names and places: a cached      *)
(* performer is the best of those found for the artist (PerformerRows),    *)
(* and a cached shelf suits every place that has its key (ShelfRows).      *)
(*                                                                         *)
(* A list that is built element by element is a recursive function; what   *)
(* holds of it at every length follows from a least length at which it     *)
(* would not (Least).                                                      *)
(***************************************************************************)
EXTENDS Directory, MCFeed, FiniteSetTheorems, FunctionTheorems, SequenceTheorems,
        WellFoundedInduction, TLAPS

(* The candidates of a page are past the cutoff and were not verified.     *)
Chosen ==
    \A s \in Runs : sweep[s].todo \subseteq sweep[s].old \ sweep[s].seen

(* What the guards of the earlier steps leave for the later ones.          *)
Staged ==
    \A s \in Runs :
       /\ sweep[s].stage = "list" => sweep[s].pages < MaxPages
       /\ sweep[s].stage = "delete" =>
             sweep[s].todo # {} /\ sweep[s].deleted < MaxDeletions

IInv ==
    /\ TypeOK
    /\ owner \in Seq(Addresses)
    /\ Len(owner) <= MaxIds
    /\ Chosen
    /\ Staged

-----------------------------------------------------------------------------

Below == {p \in Nat \X Nat : p[1] < p[2]}

(* A set of naturals that is not empty has a least element.                *)
LEMMA Least ==
    ASSUME NEW S \in SUBSET Nat, S # {}
    PROVE  \E x \in S : \A y \in S : x <= y
<1>1. OpToRel(<, Nat) = Below
  BY Zenon DEF OpToRel, Below
<1>2. IsWellFoundedOn(Below, Nat)
  BY <1>1, NatLessThanWellFounded, Zenon
<1>3. S \subseteq Nat
  OBVIOUS
<1>4. PICK x \in S : \A y \in S : ~(<<y, x>> \in Below)
  <2> HIDE DEF Below
  <2> QED
    BY <1>2, <1>3, WFMin, Zenon
<1>5. ASSUME NEW y \in S PROVE x <= y
  <2>1. x \in Nat /\ y \in Nat /\ ~(<<y, x>> \in Below)
    BY <1>3, <1>4
  <2>2. QED
    BY <2>1 DEF Below
<1>6. QED
  BY <1>5

(* The candidate a sweep handles next is one of its candidates.            *)
LEMMA MinIsIn ==
    ASSUME NEW S \in SUBSET Nat, S # {}
    PROVE  Min(S) \in S
  BY Least DEF Min

(* The cursor after a page is an entry of the page.                        *)
LEMMA MaxIsIn ==
    ASSUME NEW n \in Nat, NEW S \in SUBSET (1 .. n), S # {}
    PROVE  Max(S) \in S
<1> DEFINE T == {n - x : x \in S}
<1>1. T \in SUBSET Nat
  <2>1. ASSUME NEW x \in S PROVE n - x \in Nat
    <3>1. x \in 1 .. n
      OBVIOUS
    <3>2. QED
      BY <3>1
  <2>2. QED
    BY <2>1, Zenon
<1>2. T # {}
  OBVIOUS
<1>3. PICK t \in T : \A u \in T : t <= u
  <2> HIDE DEF T
  <2> QED
    BY <1>1, <1>2, Least
<1>4. PICK x \in S : t = n - x
  OBVIOUS
<1>5. ASSUME NEW y \in S PROVE x >= y
  <2>1. n - x <= n - y
    BY <1>3, <1>4
  <2>2. x \in Nat /\ y \in Nat
    OBVIOUS
  <2>3. QED
    BY <2>1, <2>2
<1>6. QED
  BY <1>5 DEF Max

(* An empty directory.                                                     *)
LEMMA InitHolds == Init => IInv
<1> SUFFICES ASSUME Init PROVE IInv
  OBVIOUS
<1>1. Idle \in Sweeps
  BY SweepPolicy DEF Idle, Sweeps, Ids
<1>2. owner \in Seq(Addresses) /\ Len(owner) = 0 /\ DOMAIN owner = {}
  BY DEF Init
<1>3. TypeOK
  BY <1>1, <1>2, SweepPolicy DEF Init, TypeOK, Ids, Locks, NoLock
<1>4. Chosen /\ Staged
  BY DEF Init, Chosen, Staged, Idle
<1>5. QED
  BY <1>2, <1>3, <1>4, SweepPolicy DEF IInv

(* The sign-in side touches no sweep.                                      *)
LEMMA QuietKeeps ==
    ASSUME IInv, TypeOK', owner' \in Seq(Addresses), Len(owner') <= MaxIds,
           UNCHANGED <<lock, sweep>>
    PROVE  IInv'
  BY DEF IInv, Chosen, Staged

(* A code for an address without an identity creates one.                  *)
LEMMA RequestCodeKeeps ==
    ASSUME IInv, NEW a \in Addresses, RequestCode(a) PROVE IInv'
<1>1. TypeOK /\ owner \in Seq(Addresses) /\ Len(owner) < MaxIds
  BY DEF IInv, RequestCode
<1>2. /\ owner' \in Seq(Addresses)
      /\ Len(owner') = Len(owner) + 1
      /\ DOMAIN owner' = DOMAIN owner \cup {Len(owner) + 1}
      /\ Len(owner) + 1 \in Ids
      /\ DOMAIN owner' \subseteq Ids
      /\ \A i \in DOMAIN owner' : owner'[i] \in Addresses
  BY <1>1, SweepPolicy DEF RequestCode, Ids
<1>3. TypeOK'
  BY <1>1, <1>2 DEF RequestCode, TypeOK
<1>4. QED
  BY <1>1, <1>2, <1>3, SweepPolicy, QuietKeeps DEF RequestCode

(* Verification, the local row, its loss, and the passing of time.         *)
LEMMA SignInKeeps ==
    ASSUME IInv,
           \/ \E i \in Ids : Verify(i) \/ Establish(i) \/ SignInLost(i)
           \/ Tick
    PROVE  IInv'
<1>1. TypeOK /\ owner \in Seq(Addresses) /\ Len(owner) <= MaxIds
  BY DEF IInv
<1>2. UNCHANGED <<owner, lock, sweep>>
  BY DEF Verify, Establish, SignInLost, Tick
<1>3. ASSUME NEW i \in Ids, Verify(i) \/ Establish(i) \/ SignInLost(i)
      PROVE  TypeOK'
  BY <1>1, <1>3 DEF TypeOK, Verify, Establish, SignInLost
<1>4. ASSUME Tick PROVE TypeOK'
  <2>1. age' \in [Ids -> 0 .. ReapAfter]
    BY <1>1, <1>4, SweepPolicy DEF TypeOK, Tick
  <2>2. QED
    BY <1>1, <1>4, <2>1 DEF TypeOK, Tick
<1>5. QED
  BY <1>1, <1>2, <1>3, <1>4, QuietKeeps

-----------------------------------------------------------------------------

(* The lock stays a lock.                                                  *)
LEMMA LockKept ==
    ASSUME NEW l \in Locks, NEW m, NEW t,
           TryLock(l, t, m) \/ m = Unlock(l, t) \/ m = EndSession(l, t)
    PROVE  m \in Locks
<1>1. MaxHolds \in Nat /\ l \in [Servers -> 0 .. MaxHolds]
  BY SweepPolicy DEF Locks
<1>2. ASSUME NEW n, t \in Servers => n \in 0 .. MaxHolds, m = [l EXCEPT ![t] = n]
      PROVE  m \in Locks
  BY <1>1, <1>2 DEF Locks
<1>3. 0 \in 0 .. MaxHolds
  BY <1>1
<1>4. CASE TryLock(l, t, m)
  <2>1. m = [l EXCEPT ![t] = l[t] + 1] /\ l[t] < MaxHolds
    BY <1>4 DEF TryLock
  <2>2. t \in Servers => l[t] + 1 \in 0 .. MaxHolds
    BY <1>1, <2>1
  <2>3. QED
    BY <1>2, <2>1, <2>2
<1>5. CASE m = Unlock(l, t)
  <2>1. \/ m = [l EXCEPT ![t] = l[t] - 1] /\ l[t] > 0
        \/ m = [l EXCEPT ![t] = 0]
    BY <1>5 DEF Unlock
  <2>2. t \in Servers /\ l[t] > 0 => l[t] - 1 \in 0 .. MaxHolds
    BY <1>1
  <2>3. QED
    BY <1>2, <1>3, <2>1, <2>2
<1>6. CASE m = EndSession(l, t)
  <2>1. m = [l EXCEPT ![t] = 0]
    BY <1>6 DEF EndSession
  <2>2. QED
    BY <1>2, <1>3, <2>1
<1>7. QED
  BY <1>4, <1>5, <1>6

(* A step of one sweep.                                                    *)
LEMMA SweepKeeps ==
    ASSUME IInv, NEW s \in Runs,
           lock' \in Locks,
           sweep' \in [Runs -> Sweeps],
           \A t \in Runs \ {s} : sweep'[t] = sweep[t],
           sweep'[s].todo \subseteq sweep'[s].old \ sweep'[s].seen,
           sweep'[s].stage = "list" => sweep'[s].pages < MaxPages,
           sweep'[s].stage = "delete" =>
              sweep'[s].todo # {} /\ sweep'[s].deleted < MaxDeletions,
           dir' \subseteq dir,
           faults' \in 0 .. MaxFaults,
           UNCHANGED <<owner, verified, age, signing, users>>
    PROVE  IInv'
<1>1. TypeOK'
  BY DEF IInv, TypeOK
<1>2. Chosen'
  BY DEF IInv, Chosen
<1>3. Staged'
  BY DEF IInv, Staged
<1>4. QED
  BY <1>1, <1>2, <1>3 DEF IInv

(* What is known of a sweep under way.                                     *)
LEMMA SweepFacts ==
    ASSUME IInv, NEW s \in Runs
    PROVE  /\ sweep \in [Runs -> Sweeps]
           /\ sweep[s] \in Sweeps
           /\ lock \in Locks
           /\ sweep[s].todo \subseteq sweep[s].old \ sweep[s].seen
           /\ sweep[s].stage = "list" => sweep[s].pages < MaxPages
           /\ sweep[s].stage = "delete" =>
                 sweep[s].todo # {} /\ sweep[s].deleted < MaxDeletions
           /\ dir \subseteq Ids
           /\ faults \in 0 .. MaxFaults
           /\ Idle \in Sweeps
<1>1. Idle \in Sweeps
  BY SweepPolicy DEF Idle, Sweeps, Ids
<1>2. /\ sweep \in [Runs -> Sweeps]
      /\ lock \in Locks
      /\ dir \subseteq Ids
      /\ faults \in 0 .. MaxFaults
  BY DEF IInv, TypeOK
<1>3. QED
  BY <1>1, <1>2 DEF IInv, Chosen, Staged

(* A sweep begins with no candidates.                                      *)
LEMMA BeginKeeps ==
    ASSUME IInv, NEW s \in Runs, Begin(s) PROVE IInv'
<1> DEFINE w == [Idle EXCEPT !.stage = "list",
                             !.old = {i \in dir : age[i] >= ReapAfter}]
<1>1. w \in Sweeps /\ w.todo = {} /\ w.pages = 0 /\ w.stage = "list"
  BY SweepFacts, SweepPolicy DEF Idle, Sweeps, Ids
<1>2. sweep' = [sweep EXCEPT ![s] = w]
  BY DEF Begin
<1>3. sweep'[s] = w /\ \A t \in Runs \ {s} : sweep'[t] = sweep[t]
  <2> HIDE DEF w
  <2> QED
    BY <1>2, SweepFacts
<1>4. sweep' \in [Runs -> Sweeps]
  <2> HIDE DEF w
  <2> QED
    BY <1>1, <1>2, SweepFacts
<1>5. /\ lock' \in Locks
      /\ UNCHANGED <<owner, dir, verified, age, signing, users, faults>>
  BY SweepFacts, LockKept DEF Begin
<1>6. QED
  <2> HIDE DEF w
  <2> QED
    BY <1>1, <1>3, <1>4, <1>5, SweepFacts, SweepKeeps, SweepPolicy

(* A page: its candidates are not verified, and what is kept as seen is.   *)
LEMMA ListKeeps ==
    ASSUME IInv, NEW s \in Runs, List(s) PROVE IInv'
<1> DEFINE page == Page(sweep[s].after)
           last == IF page = {} THEN sweep[s].after ELSE Max(page)
           todo == {i \in page : Eligible(i, sweep[s].old)}
           more == \E i \in dir : i > last
           w == [sweep[s] EXCEPT !.stage = "check", !.todo = todo,
                                 !.seen = page \cap verified, !.after = last,
                                 !.more = more, !.pages = @ + 1]
<1>1. page \subseteq Ids
  BY SweepFacts DEF Page
<1>2. last \in 0 .. MaxIds
  <2>1. sweep[s].after \in 0 .. MaxIds
    BY SweepFacts DEF Sweeps
  <2>2. ASSUME page # {} PROVE Max(page) \in Ids
    <3> HIDE DEF page
    <3> QED
      BY <1>1, <2>2, MaxIsIn, SweepPolicy DEF Ids
  <2>3. QED
    <3> HIDE DEF page
    <3> QED
      BY <2>1, <2>2 DEF Ids
<1>3. todo \subseteq Ids /\ todo \subseteq sweep[s].old \ (page \cap verified)
  BY <1>1 DEF Eligible
<1>4. sweep[s].stage = "list" /\ sweep[s].pages < MaxPages
  BY SweepFacts DEF List
<1>5. sweep' = [sweep EXCEPT ![s] = w]
  BY SweepFacts DEF List
<1>6. UNCHANGED <<owner, dir, verified, age, signing, users, lock, faults>>
  BY DEF List
<1>7. w \in Sweeps /\ w.stage = "check" /\ w.todo \subseteq w.old \ w.seen
  <2>1. more \in BOOLEAN
    OBVIOUS
  <2>2. sweep[s].pages + 1 \in 0 .. MaxPages
    BY <1>4, SweepFacts, SweepPolicy DEF Sweeps
  <2>3. page \cap verified \in SUBSET Ids
    BY <1>1
  <2> HIDE DEF page, last, todo, more
  <2>4. QED
    BY <1>2, <1>3, <2>1, <2>2, <2>3, SweepFacts DEF Sweeps
<1> HIDE DEF w
<1>8. QED
  BY <1>4, <1>5, <1>6, <1>7, SweepFacts, SweepKeeps

(* Whatever ends a sweep forgets its candidates.                           *)
LEMMA StopKeeps ==
    ASSUME IInv, NEW s \in Runs, ListFails(s) \/ Finish(s) \/ Crash(s)
    PROVE  IInv'
<1>1. sweep' = [sweep EXCEPT ![s] = Idle]
  BY DEF ListFails, Finish, Crash, Stop
<1>2. lock' \in Locks
  <2>1. CASE ListFails(s) \/ Finish(s)
    BY <2>1, SweepFacts, LockKept DEF ListFails, Finish, Stop
  <2>2. CASE Crash(s)
    BY <2>2, SweepFacts, LockKept DEF Crash
  <2>3. QED
    BY <2>1, <2>2
<1>3. faults' \in 0 .. MaxFaults
  BY SweepFacts, SweepPolicy DEF ListFails, Finish, Crash
<1>4. /\ sweep' \in [Runs -> Sweeps]
      /\ sweep'[s] = Idle
      /\ \A t \in Runs \ {s} : sweep'[t] = sweep[t]
  BY <1>1, SweepFacts
<1>5. Idle.todo = {} /\ Idle.stage = "idle"
  BY DEF Idle
<1>6. UNCHANGED <<owner, dir, verified, age, signing, users>>
  BY DEF ListFails, Finish, Crash, Stop
<1>7. QED
  BY <1>2, <1>3, <1>4, <1>5, <1>6, SweepKeeps

(* The pooler's steps touch no sweep.                                      *)
LEMMA RecycleKeeps ==
    ASSUME IInv, NEW t \in Servers, Recycle(t) PROVE IInv'
<1>1. lock' \in Locks
  BY LockKept DEF IInv, TypeOK, Recycle
<1>2. QED
  BY <1>1 DEF IInv, TypeOK, Chosen, Staged, Recycle

(* The steps of a page under way only take candidates away.                *)
LEMMA PageKeeps ==
    ASSUME IInv, NEW s \in Runs,
           Check(s) \/ Delete(s) \/ DeleteFails(s) \/ Continue(s)
    PROVE  IInv'
<1> DEFINE i == Min(sweep[s].todo)
<1>1. lock' \in Locks
  BY SweepFacts DEF Check, Delete, DeleteFails, Continue
<1>2. /\ dir' \subseteq dir
      /\ UNCHANGED <<owner, verified, age, signing, users, lock, faults>>
  BY DEF Check, Delete, DeleteFails, Continue
<1>3. PICK w \in Sweeps :
        /\ sweep' = [sweep EXCEPT ![s] = w]
        /\ w.seen = sweep[s].seen /\ w.old = sweep[s].old
        /\ w.todo \subseteq sweep[s].todo
        /\ w.stage = "list" => w.pages < MaxPages
        /\ w.stage = "delete" => w.todo # {} /\ w.deleted < MaxDeletions
  <2>1. CASE Check(s)
    <3>1. CASE i \in users \/ sweep[s].deleted >= MaxDeletions
      <4> DEFINE v == [sweep[s] EXCEPT !.todo = @ \ {i}]
      <4>1. v \in Sweeps
        BY SweepFacts DEF Sweeps
      <4>2. QED
        BY <2>1, <3>1, <4>1, SweepFacts DEF Check, Sweeps
    <3>2. CASE ~(i \in users \/ sweep[s].deleted >= MaxDeletions)
      <4> DEFINE v == [sweep[s] EXCEPT !.stage = "delete"]
      <4>1. v \in Sweeps
        BY SweepFacts DEF Sweeps
      <4>2. v.deleted < MaxDeletions
        BY <3>2, SweepFacts, SweepPolicy DEF Sweeps
      <4>3. QED
        BY <2>1, <3>2, <4>1, <4>2, SweepFacts DEF Check, Sweeps
    <3>3. QED
      BY <3>1, <3>2
  <2>2. CASE Delete(s)
    <3> DEFINE v == [sweep[s] EXCEPT !.stage = "check", !.todo = @ \ {i},
                                     !.deleted = @ + 1]
    <3>1. sweep[s].deleted + 1 \in 0 .. MaxDeletions
      BY <2>2, SweepFacts, SweepPolicy DEF Delete, Sweeps
    <3>2. v \in Sweeps
      BY <3>1, SweepFacts DEF Sweeps
    <3>3. sweep' = [sweep EXCEPT ![s] = v]
      BY <2>2, SweepFacts DEF Delete
    <3>4. /\ v.seen = sweep[s].seen /\ v.old = sweep[s].old
          /\ v.todo \subseteq sweep[s].todo /\ v.stage = "check"
      BY SweepFacts DEF Sweeps
    <3>5. QED
      BY <3>2, <3>3, <3>4
  <2>3. CASE DeleteFails(s)
    <3> DEFINE v == [sweep[s] EXCEPT !.stage = "check", !.todo = @ \ {i}]
    <3>1. v \in Sweeps
      BY SweepFacts DEF Sweeps
    <3>2. QED
      BY <2>3, <3>1, SweepFacts DEF DeleteFails, Sweeps
  <2>4. CASE Continue(s)
    <3> DEFINE v == [sweep[s] EXCEPT !.stage = "list"]
    <3>1. v \in Sweeps
      BY SweepFacts DEF Sweeps
    <3>2. QED
      BY <2>4, <3>1, SweepFacts DEF Continue, Sweeps
  <2>5. QED
    BY <2>1, <2>2, <2>3, <2>4
<1>4. w.todo \subseteq w.old \ w.seen
  BY <1>3, SweepFacts
<1>5. QED
  BY <1>1, <1>2, <1>3, <1>4, SweepFacts, SweepKeeps

(* The invariant is inductive.                                             *)
LEMMA StepKeeps == IInv /\ [Next]_vars => IInv'
<1> SUFFICES ASSUME IInv, [Next]_vars PROVE IInv'
  OBVIOUS
<1>1. CASE UNCHANGED vars
  BY <1>1 DEF vars, IInv, TypeOK, Chosen, Staged
<1>2. CASE Next
  BY <1>2, RequestCodeKeeps, SignInKeeps, BeginKeeps, ListKeeps, StopKeeps,
     PageKeeps, RecycleKeeps DEF Next
<1>3. QED
  BY <1>1, <1>2

-----------------------------------------------------------------------------

(* Only Delete removes from the directory, and it removes a candidate of   *)
(* its own page.                                                           *)
LEMMA DeletionIsSafe ==
    IInv /\ [Next]_vars
       => [\A i \in dir \ dir' : \E s \in Runs :
             /\ Delete(s)
             /\ i \in sweep[s].old
             /\ i \notin sweep[s].seen]_vars
<1> SUFFICES ASSUME IInv, Next, NEW i \in dir \ dir'
             PROVE  \E s \in Runs : /\ Delete(s)
                                    /\ i \in sweep[s].old
                                    /\ i \notin sweep[s].seen
  OBVIOUS
<1>1. PICK s \in Runs : Delete(s)
  BY DEF Next, RequestCode, Verify, Establish, SignInLost, Begin, List,
     ListFails, Stop, Check, DeleteFails, Continue, Finish, Crash, Recycle, Tick
<1>2. sweep[s].todo \in SUBSET Nat /\ sweep[s].todo # {}
  <2>1. sweep[s].todo \subseteq Ids
    BY SweepFacts DEF Sweeps
  <2>2. QED
    BY <1>1, <2>1, SweepFacts DEF Delete, Ids
<1>3. i \in sweep[s].todo
  BY <1>1, <1>2, MinIsIn DEF Delete
<1>4. QED
  BY <1>1, <1>3, SweepFacts

(* Every identity, counter and sweep stays within its bounds: no sweep     *)
(* walks more than MaxPages pages or makes more than MaxDeletions          *)
(* deletions.                                                              *)
THEOREM TypeCorrect == Spec => []TypeOK
<1>1. IInv => TypeOK
  BY DEF IInv
<1>2. QED
  BY InitHolds, StepKeeps, <1>1, PTL DEF Spec

(* directory-reaper.ts, rules 1 and 2: an identity is only deleted by a    *)
(* run that listed it itself as unverified and past the cutoff, however    *)
(* many processes run it and whatever becomes of the lock.                 *)
THEOREM VerifiedAreKept == Spec => ListedVerifiedSurvives
  BY InitHolds, StepKeeps, DeletionIsSafe, PTL DEF Spec, ListedVerifiedSurvives

-----------------------------------------------------------------------------
(* Redirect flows.                                                         *)

(* A flow is wherever its number is: waiting in connect_states, taken by a *)
(* callback, or stored.                                                    *)
Flown ==
    /\ flows \in Nat /\ DOMAIN starter = 1..flows
    /\ DOMAIN task = Users /\ \A u \in Users : "state" \in DOMAIN task[u]

Waiting == \A s \in states : s.state \in 1..flows /\ starter[s.state] = s.user

Taken ==
    \A u \in Users : task[u].state # 0 =>
        /\ task[u].state \in 1..flows /\ starter[task[u].state] = u
        /\ \A s \in states : s.state # task[u].state
        /\ \A c \in completed : c.state # task[u].state

BoundOnce ==
    \A c \in completed :
        /\ c.state \in 1..flows /\ starter[c.state] = c.user
        /\ \A s \in states : s.state # c.state
        /\ \A d \in completed : c.state = d.state => c = d

FlowInv == Flown /\ Waiting /\ Taken /\ BoundOnce

(* A new flow has a number no other has.                                   *)
LEMMA StartKeepsFlows ==
    ASSUME FlowInv, NEW u \in Users, StartConnect(u)
    PROVE  FlowInv'
<1>1. /\ flows' = flows + 1 /\ task' = task /\ completed' = completed
      /\ states' = {s \in states : s.user # u} \cup {[state |-> flows + 1, user |-> u]}
      /\ starter' = [i \in 1..(flows + 1) |-> IF i = flows + 1 THEN u ELSE starter[i]]
  BY DEF StartConnect
<1>2. flows \in Nat /\ \A i \in 1..flows : i \in 1..(flows + 1) /\ i # flows + 1
  BY DEF FlowInv, Flown
<1>3. \A i \in 1..flows : starter'[i] = starter[i]
  BY <1>1, <1>2
<1>4. Flown'
  BY <1>1, <1>2 DEF FlowInv, Flown
<1>5. Waiting'
  BY <1>1, <1>2, <1>3 DEF FlowInv, Waiting
<1>6. Taken'
  BY <1>1, <1>2, <1>3 DEF FlowInv, Taken
<1>7. BoundOnce'
  BY <1>1, <1>2, <1>3 DEF FlowInv, BoundOnce
<1>8. QED
  BY <1>4, <1>5, <1>6, <1>7 DEF FlowInv

(* A callback takes the state with it, and only its starter's.             *)
LEMMA CallbackKeepsFlows ==
    ASSUME FlowInv, NEW u \in Users, Callback(u)
    PROVE  FlowInv'
<1>1. PICK r \in returned :
        /\ Consumable(u, r.state) # {}
        /\ states' = states \ Consumable(u, r.state)
        /\ task' = [task EXCEPT ![u] = [at |-> "exchange", state |-> r.state,
                                        provider |-> "lastfm", account |-> r.account]]
        /\ UNCHANGED <<flows, starter, completed>>
  BY DEF Callback
<1>2. /\ r.state \in 1..flows /\ starter[r.state] = u
      /\ \E s \in states : s.state = r.state
      /\ \A s \in states' : s \in states /\ s.state # r.state
  BY <1>1 DEF Consumable, FlowInv, Waiting
<1>3. Flown'
  BY <1>1 DEF FlowInv, Flown
<1>4. Waiting' /\ BoundOnce'
  BY <1>1, <1>2 DEF FlowInv, Waiting, BoundOnce
<1>5. Taken'
  <2>1. \A c \in completed : c.state # r.state
    BY <1>2 DEF FlowInv, BoundOnce
  <2>2. QED
    BY <1>1, <1>2, <2>1 DEF FlowInv, Flown, Taken
<1>6. QED
  BY <1>3, <1>4, <1>5 DEF FlowInv

(* The upsert ends the request that holds the flow.                        *)
LEMMA StoreKeepsFlows ==
    ASSUME FlowInv, NEW u \in Users, Store(u)
    PROVE  FlowInv'
<1> DEFINE new == [state |-> task[u].state, user |-> u, account |-> task[u].account]
<1>1. /\ task' = [task EXCEPT ![u] = Free]
      /\ completed' = IF task[u].state = 0 THEN completed ELSE completed \cup {new}
      /\ UNCHANGED <<states, flows, starter>>
  BY DEF Store
<1>2. Flown'
  BY <1>1 DEF FlowInv, Flown, Free
<1>3. Waiting'
  BY <1>1 DEF FlowInv, Waiting
<1>4. \A v \in Users : task'[v].state # 0 => v # u /\ task'[v] = task[v]
  BY <1>1 DEF FlowInv, Flown, Free
<1>5. Taken'
  BY <1>1, <1>4 DEF FlowInv, Taken
<1>6. BoundOnce'
  BY <1>1 DEF FlowInv, Taken, BoundOnce
<1>7. QED
  BY <1>2, <1>3, <1>5, <1>6 DEF FlowInv

LEMMA StepKeepsFlows ==
    ASSUME FlowInv, ConnNext
    PROVE  FlowInv'
<1>1. ASSUME UNCHANGED <<flows, starter, task, completed>>, states' \subseteq states
      PROVE  FlowInv'
  BY <1>1 DEF FlowInv, Flown, Waiting, Taken, BoundOnce
<1>2. ASSUME ExpireState PROVE FlowInv'
  BY <1>1, <1>2 DEF ExpireState
<1>3. ASSUME NEW u \in Users, UNCHANGED <<states, flows, starter, completed>>,
             DOMAIN task' = Users, "state" \in DOMAIN task'[u],
             \A v \in Users \ {u} : task'[v] = task[v],
             task'[u].state \in {0, task[u].state}
      PROVE  FlowInv'
  BY <1>3 DEF FlowInv, Flown, Waiting, Taken, BoundOnce
<1>4. ASSUME NEW u \in Users, Exchange(u) PROVE FlowInv'
  BY <1>3, <1>4 DEF Exchange, Free, FlowInv, Flown
<1>5. ASSUME NEW u \in Users, NEW a \in Accounts, Paste(u, a) PROVE FlowInv'
  BY <1>3, <1>5 DEF Paste, FlowInv, Flown
<1>6. QED
  BY <1>1, <1>2, <1>4, <1>5, StartKeepsFlows, CallbackKeepsFlows, StoreKeepsFlows
  DEF ConnNext, LinkNext, Disconnect, Rotate, Authorize

(* However many flows a person starts, and whichever browser follows a     *)
(* callback how often, connections.ts stores an account only for the       *)
(* person who started the flow, and only once for one flow.                *)
THEOREM FlowsEndWithTheirStarter ==
    /\ \A had : ConnSpec(had) => []FlowsBindTheirStarter
    /\ MCSpec => []FlowsBindTheirStarter
<1>1. ASSUME NEW had
      PROVE  ConnStart(had) => FlowInv
  BY DEF ConnStart, Free, FlowInv, Flown, Waiting, Taken, BoundOnce
<1>2. FlowInv /\ [ConnNext]_(connVars) => FlowInv'
  BY StepKeepsFlows DEF connVars, FlowInv, Flown, Waiting, Taken, BoundOnce
<1>3. FlowInv => FlowsBindTheirStarter
  BY DEF FlowInv, BoundOnce, FlowsBindTheirStarter
<1>4. ASSUME NEW had
      PROVE  ConnSpec(had) => []FlowsBindTheirStarter
  BY <1>1, <1>2, <1>3, PTL DEF ConnSpec
<1>5. MCInit => FlowInv
  BY <1>1 DEF MCInit
<1>6. FlowInv /\ [MCNext]_<<feedAll, part, catVars, adapters, concerts, pages>> => FlowInv'
  <2>1. FeedNext => UNCHANGED connVars
    <3>1. ASSUME NEW u \in Users, NEW route, NEW offset, NEW seed, Ask(u, route, offset, seed)
          PROVE  UNCHANGED connVars
      BY <3>1, Zenon DEF Ask
    <3>2. ASSUME NEW u \in Users, NEW r, Answered(u, r)
          PROVE  UNCHANGED connVars
      BY <3>2, Zenon DEF Answered
    <3>3. ASSUME NEW u \in Users, Blended(u) \/ Stations(u) \/ StationTracks(u)
          PROVE  \E r : Answered(u, r)
      <4>1. CASE Blended(u)
        BY <4>1, Zenon DEF Blended
      <4>2. CASE Stations(u)
        BY <4>2, Zenon DEF Stations
      <4>3. CASE StationTracks(u)
        BY <4>3, Zenon DEF StationTracks
      <4>4. QED
        BY <3>3, <4>1, <4>2, <4>3
    <3>4. ASSUME NEW u \in Users,
                 \/ AskFeed(u) \/ AskNextPage(u) \/ AskRecommendations(u)
                 \/ AskStations(u) \/ AskStationTracks(u)
          PROVE  \E route, offset, seed : Ask(u, route, offset, seed)
      BY <3>4, Zenon DEF AskFeed, AskNextPage, AskRecommendations, AskStations, AskStationTracks
    <3>5. QED
      BY <3>1, <3>2, <3>3, <3>4, Zenon DEF FeedNext
  <2>2. \A u : LinkNext(u) /\ u \in Users => ConnNext
    BY DEF ConnNext
  <2>3. First \in Users
    BY SomebodyConnects DEF First, SomebodyConnects
  <2>4. MCNext => ConnNext \/ UNCHANGED connVars
    BY <2>1, <2>2, <2>3 DEF MCNext, feedAll
  <2>5. UNCHANGED feedAll => UNCHANGED connVars
    BY DEF feedAll
  <2>6. QED
    BY <1>2, <2>4, <2>5
<1>7. MCSpec => []FlowsBindTheirStarter
  BY <1>3, <1>5, <1>6, PTL DEF MCSpec
<1>8. QED
  BY <1>4, <1>7
-----------------------------------------------------------------------------
(* The catalogue pages, for any listeners and bounds.                       *)

(* Only a request for the preview comes to Deezer, and while a resolution   *)
(* is under way somebody waits for it.                                      *)
Turns ==
    /\ DOMAIN listener = Listeners
    /\ \A l \in Listeners :
          /\ {"at", "route"} \subseteq DOMAIN listener[l]
          /\ listener[l].at \in {"stored", "recording", "refresh", "deezer"}
                => listener[l].route = "preview"
    /\ flight => \E l \in Listeners : listener[l].at = "deezer"

(* A signed URL is in no response that an HTTP cache may keep.              *)
PagesPlay == Turns /\ Site!PreviewsPlay /\ shared.page.source # "deezer"

(* A request that is not at Deezer takes a turn, or ends.                   *)
LEMMA TurnTaken ==
    ASSUME Turns, NEW l \in Listeners, listener[l].at # "deezer", NEW r,
           {"at", "route"} \subseteq DOMAIN r,
           r.at \in {"stored", "recording", "refresh"} => r.route = "preview",
           r.at # "deezer",
           listener' = [listener EXCEPT ![l] = r], flight' = flight
    PROVE  Turns'
<1>1. /\ DOMAIN listener' = Listeners /\ listener'[l] = r
      /\ \A m \in Listeners \ {l} : listener'[m] = listener[m]
  BY DEF Turns
<1>2. ASSUME NEW m \in Listeners
      PROVE  /\ {"at", "route"} \subseteq DOMAIN listener'[m]
             /\ listener'[m].at \in {"stored", "recording", "refresh", "deezer"}
                   => listener'[m].route = "preview"
  BY <1>1 DEF Turns
<1>3. flight' => \E m \in Listeners : listener'[m].at = "deezer"
  BY <1>1 DEF Turns
<1>4. QED
  BY <1>1, <1>2, <1>3 DEF Turns

(* A response of any other source may be handed out and kept.               *)
LEMMA OthersPlay ==
    ASSUME PagesPlay, NEW l \in Listeners, listener[l].at # "deezer",
           NEW page, page.source # "deezer", Site!Respond(l, page)
    PROVE  PagesPlay'
<1>1. /\ got' = {page} /\ shared' = Site!Kept(page)
      /\ listener' = [listener EXCEPT ![l] = Site!Idle] /\ flight' = flight
  BY DEF Site!Respond
<1>2. Site!Kept(page).page \in {shared.page, page}
  BY DEF Site!Kept
<1>3. DOMAIN Site!Idle = {"at", "route", "near", "name"} /\ Site!Idle.at = "idle"
  BY DEF Site!Idle, Site!Waits
<1>4. Turns'
  BY <1>1, <1>3, TurnTaken DEF PagesPlay
<1>5. QED
  BY <1>1, <1>2, <1>4 DEF PagesPlay, Site!PreviewsPlay

(* A step without a response, of a request that does not come to Deezer.    *)
LEMMA SilencePlays ==
    ASSUME PagesPlay, got' = {}, UNCHANGED <<flight, shared>>,
           \/ UNCHANGED listener
           \/ \E l \in Listeners : \E r :
                 /\ listener[l].at # "deezer"
                 /\ {"at", "route"} \subseteq DOMAIN r /\ r.at # "deezer"
                 /\ r.at \in {"stored", "recording", "refresh"} => r.route = "preview"
                 /\ listener' = [listener EXCEPT ![l] = r]
    PROVE  PagesPlay'
<1>1. CASE UNCHANGED listener
  BY <1>1 DEF PagesPlay, Turns, Site!PreviewsPlay
<1>2. CASE ~UNCHANGED listener
  <2>1. Turns'
    BY <1>2, TurnTaken DEF PagesPlay
  <2>2. QED
    BY <2>1 DEF PagesPlay, Site!PreviewsPlay
<1>3. QED
  BY <1>1, <1>2

LEMMA GoingPlays ==
    ASSUME PagesPlay, NEW l \in Listeners, NEW at, Site!Goes(l, at),
           at \notin {"stored", "deezer"}, listener[l].at # "deezer",
           at \in {"recording", "refresh"} => listener[l].at \in {"stored", "recording"}
    PROVE  PagesPlay'
<1> DEFINE r == [listener[l] EXCEPT !.at = at]
<1>1. /\ {"at", "route"} \subseteq DOMAIN listener[l]
      /\ listener[l].at \in {"stored", "recording"} => listener[l].route = "preview"
  BY DEF PagesPlay, Turns
<1>2. /\ {"at", "route"} \subseteq DOMAIN r /\ r.at = at /\ r.route = listener[l].route
  BY <1>1
<1>3. /\ listener' = [listener EXCEPT ![l] = r] /\ got' = {} /\ UNCHANGED <<flight, shared>>
  BY DEF Site!Goes
<1> HIDE DEF r
<1>4. QED
  BY <1>1, <1>2, <1>3, SilencePlays

(* What a response is made of, whatever it shows.                           *)
LEMMA NotSigned ==
    ASSUME NEW l, Absent # "deezer"
    PROVE  /\ Site!Found(l).source # "deezer" /\ Site!NotFound(l).source # "deezer"
           /\ Site!Itunes(l).source # "deezer"
           /\ \A x : /\ [Site!Found(l) EXCEPT !.name = x].source # "deezer"
                     /\ [Site!Found(l) EXCEPT !.items = x].source # "deezer"
                     /\ \A y : [Site!Found(l) EXCEPT !.unavailable = x, !.items = y].source
                               # "deezer"
  BY DEF Site!Found, Site!NotFound, Site!Itunes, Site!Page0

(* Deezer answers everybody who waits with one URL, which plays, and which  *)
(* is not kept.                                                             *)
LEMMA DeezerPlays ==
    ASSUME PagesPlay, Absent # "deezer", Site!Deezer
    PROVE  PagesPlay'
<1> DEFINE ls == {l \in Listeners : Site!At(l, "deezer")}
<1>1. PICK expires \in {now, now + 1} :
         LET page(l) == IF "deezer" \notin trouble /\ Site!FromDeezer(expires)
                        THEN [Site!Found(l) EXCEPT !.source = "deezer", !.expires = expires]
                        ELSE Site!NotFound(l)
         IN  /\ got' = {page(l) : l \in ls}
             /\ shared' = Site!Kept(page(CHOOSE l \in ls : TRUE))
  BY DEF Site!Deezer
<1> DEFINE page(l) == IF "deezer" \notin trouble /\ Site!FromDeezer(expires)
                      THEN [Site!Found(l) EXCEPT !.source = "deezer", !.expires = expires]
                      ELSE Site!NotFound(l)
           first == CHOOSE l \in ls : TRUE
<1>2. /\ got' = {page(l) : l \in ls} /\ shared' = Site!Kept(page(first)) /\ now' = now
      /\ listener' = [l \in Listeners |-> IF l \in ls THEN Site!Idle ELSE listener[l]]
      /\ flight' = FALSE
  BY <1>1 DEF Site!Deezer, Site!Same
<1>3. first \in Listeners /\ listener[first].at = "deezer"
  <2>1. \E l \in Listeners : l \in ls
    BY DEF Site!Deezer, Site!At, PagesPlay, Turns
  <2>2. first \in ls
    BY <2>1
  <2>3. QED
    BY <2>2 DEF Site!At
<1>4. listener[first].route = "preview"
  BY <1>3 DEF PagesPlay, Turns
<1>5. \A l : page(l).source = "deezer" =>
                page(l).expires > now /\ page(l).route = listener[l].route
  <2> TAKE l
  <2>1. CASE "deezer" \notin trouble /\ Site!FromDeezer(expires)
    BY <2>1 DEF Site!FromDeezer, Site!Found, Site!Page0
  <2>2. CASE ~("deezer" \notin trouble /\ Site!FromDeezer(expires))
    BY <2>2, NotSigned
  <2>3. QED
    BY <2>1, <2>2
<1> HIDE DEF page, first
<1>6. Site!Kept(page(first)).page.source # "deezer"
  <2>1. CASE page(first).source = "deezer"
    <3>1. Site!Kept(page(first)) = shared
      BY <1>4, <1>5, <2>1 DEF Site!Kept, Site!CacheControl
    <3>2. QED
      BY <3>1 DEF PagesPlay
  <2>2. CASE page(first).source # "deezer"
    BY <2>2 DEF Site!Kept, PagesPlay
  <2>3. QED
    BY <2>1, <2>2
<1>7. Turns'
  <2>1. DOMAIN Site!Idle = {"at", "route", "near", "name"} /\ Site!Idle.at = "idle"
    BY DEF Site!Idle, Site!Waits
  <2> HIDE DEF ls
  <2>2. QED
    BY <1>2, <2>1 DEF PagesPlay, Turns
<1>8. Site!PreviewsPlay'
  BY <1>2, <1>5 DEF Site!PreviewsPlay
<1>9. QED
  BY <1>2, <1>6, <1>7, <1>8 DEF PagesPlay

(* A preview is played back from the row that is stored by now, or Deezer   *)
(* is asked.                                                                *)
LEMMA RefreshPlays ==
    ASSUME PagesPlay, Absent # "deezer", NEW l \in Listeners, Site!Refresh(l)
    PROVE  PagesPlay'
<1>1. listener[l].at = "refresh"
  BY DEF Site!Refresh, Site!At
<1>2. CASE Site!ResolveCached(stored)
  BY <1>1, <1>2, OthersPlay, NotSigned DEF Site!Refresh
<1>3. CASE ~Site!ResolveCached(stored)
  <2> DEFINE r == [listener[l] EXCEPT !.at = "deezer"]
  <2>1. /\ listener' = [listener EXCEPT ![l] = r] /\ flight' = TRUE
        /\ got' = {} /\ shared' = shared
    BY <1>3 DEF Site!Refresh
  <2>2. {"at", "route"} \subseteq DOMAIN listener[l] /\ listener[l].route = "preview"
    BY <1>1 DEF PagesPlay, Turns
  <2>3. {"at", "route"} \subseteq DOMAIN r /\ r.at = "deezer" /\ r.route = "preview"
    BY <2>2
  <2> HIDE DEF r
  <2>4. Turns'
    BY <2>1, <2>3 DEF PagesPlay, Turns
  <2>5. QED
    BY <2>1, <2>4 DEF PagesPlay, Site!PreviewsPlay
<1>4. QED
  BY <1>2, <1>3

(* The first step of a request.                                             *)
LEMMA AskPlays ==
    ASSUME PagesPlay, NEW l \in Listeners, NEW route \in Site!Routes, Site!Ask(l, route)
    PROVE  PagesPlay'
<1> DEFINE r == Site!Waits(Site!FirstStep[route], route)
<1>1. /\ listener[l].at # "deezer" /\ listener' = [listener EXCEPT ![l] = r]
      /\ got' = {} /\ UNCHANGED <<flight, shared>>
  BY DEF Site!Ask, Site!At
<1>2. /\ Site!FirstStep[route] # "deezer"
      /\ Site!FirstStep[route] \in {"stored", "recording", "refresh"} => route = "preview"
  BY DEF Site!FirstStep, Site!Routes
<1>3. /\ {"at", "route"} \subseteq DOMAIN r /\ r.at = Site!FirstStep[route] /\ r.route = route
  BY DEF Site!Waits
<1> HIDE DEF r
<1>4. QED
  BY <1>1, <1>2, <1>3, SilencePlays

(* The other routes.                                                        *)
LEMMA ListenerPlays ==
    ASSUME PagesPlay, Absent # "deezer", NEW l \in Listeners,
           \/ Site!Search(l) \/ Site!Artist(l) \/ Site!NameFromCrosswalk(l)
           \/ Site!Track(l) \/ Site!Album(l) \/ Site!LabsSimilarArtists(l)
           \/ Site!SeedName(l) \/ Site!LastfmSimilarArtists(l)
           \/ Site!Preview(l) \/ Site!PeekRecording(l)
    PROVE  PagesPlay'
<1>1. listener[l].at # "deezer"
  BY DEF Site!Search, Site!Artist, Site!NameFromCrosswalk, Site!Track, Site!Album,
         Site!LabsSimilarArtists, Site!SeedName, Site!LastfmSimilarArtists,
         Site!Preview, Site!PeekRecording, Site!At
<1>2. CASE Site!Search(l)
  <2>1. \E x : Site!Respond(l, [Site!Found(l) EXCEPT !.items = x])
    BY <1>2 DEF Site!Search
  <2>2. QED
    BY <1>1, <2>1, NotSigned, OthersPlay
<1>3. CASE Site!Artist(l) \/ Site!NameFromCrosswalk(l) \/ Site!Track(l) \/ Site!Album(l)
  <2>1. \/ \E x : Site!Respond(l, [Site!Found(l) EXCEPT !.name = x])
        \/ Site!Respond(l, Site!NotFound(l))
        \/ Site!Goes(l, "name")
    BY <1>3 DEF Site!Artist, Site!NameFromCrosswalk, Site!Track, Site!Album
  <2>2. ASSUME NEW x, Site!Respond(l, [Site!Found(l) EXCEPT !.name = x])
        PROVE  PagesPlay'
    BY <1>1, <2>2, NotSigned, OthersPlay
  <2>3. CASE Site!Respond(l, Site!NotFound(l))
    BY <1>1, <2>3, NotSigned, OthersPlay
  <2>4. CASE Site!Goes(l, "name")
    BY <1>1, <2>4, GoingPlays
  <2>5. QED
    BY <2>1, <2>2, <2>3, <2>4, Zenon
<1>4. CASE Site!LabsSimilarArtists(l)
  <2>1. PICK x : /\ listener' = [listener EXCEPT ![l].at = "name", ![l].near = x]
                 /\ got' = {} /\ UNCHANGED <<flight, shared>>
    BY <1>4 DEF Site!LabsSimilarArtists
  <2> DEFINE r == [[listener[l] EXCEPT !.at = "name"] EXCEPT !.near = x]
  <2>2. {"at", "route"} \subseteq DOMAIN listener[l] /\ DOMAIN listener = Listeners
    BY DEF PagesPlay, Turns
  <2>3. {"at", "route"} \subseteq DOMAIN r /\ r.at = "name"
    BY <2>2
  <2>4. listener' = [listener EXCEPT ![l] = r]
    BY <2>1, <2>2
  <2> HIDE DEF r
  <2>5. QED
    BY <1>1, <2>1, <2>3, <2>4, SilencePlays
<1>5. CASE Site!SeedName(l) \/ Site!LastfmSimilarArtists(l)
  <2>1. Site!Goes(l, "lastfm") \/ \E u, v : Site!ShowSimilar(l, u, v)
    BY <1>5 DEF Site!SeedName, Site!LastfmSimilarArtists
  <2>2. ASSUME NEW u, NEW v, Site!ShowSimilar(l, u, v)
        PROVE  \E x, y : Site!Respond(l, [Site!Found(l) EXCEPT !.unavailable = x, !.items = y])
    BY <2>2, Zenon DEF Site!ShowSimilar
  <2>3. ASSUME NEW x, NEW y,
               Site!Respond(l, [Site!Found(l) EXCEPT !.unavailable = x, !.items = y])
        PROVE  PagesPlay'
    BY <1>1, <2>3, NotSigned, OthersPlay
  <2>4. CASE Site!Goes(l, "lastfm")
    BY <1>1, <2>4, GoingPlays
  <2>5. QED
    BY <2>1, <2>2, <2>3, <2>4, Zenon
<1>6. CASE Site!Preview(l) \/ Site!PeekRecording(l)
  <2>1. \/ Site!Respond(l, Site!Itunes(l)) \/ Site!Respond(l, Site!NotFound(l))
        \/ Site!Goes(l, "recording") /\ listener[l].at = "stored"
        \/ Site!Goes(l, "refresh") /\ listener[l].at = "recording"
    BY <1>6 DEF Site!Preview, Site!PeekRecording, Site!At
  <2>2. QED
    BY <1>1, <2>1, NotSigned, OthersPlay, GoingPlays
<1>7. QED
  BY <1>2, <1>3, <1>4, <1>5, <1>6

LEMMA PagesPlayKept ==
    ASSUME PagesPlay, Absent # "deezer", [Site!Next]_(Site!vars)
    PROVE  PagesPlay'
<1>1. CASE UNCHANGED Site!vars
  BY <1>1 DEF Site!vars, Site!env, PagesPlay, Turns, Site!PreviewsPlay
<1>2. ASSUME NEW l \in Listeners, NEW route, Site!FromShared(l, route)
      PROVE  PagesPlay'
  BY <1>2 DEF Site!FromShared, Site!Same, PagesPlay, Turns, Site!PreviewsPlay
<1>3. ASSUME Site!Elapses
      PROVE  PagesPlay'
  BY <1>3, SilencePlays DEF Site!Elapses
<1>4. CASE \/ \E e \in Site!Entities : Site!Warm(e)
           \/ \E k \in Site!Keys : Site!Learn(k)
           \/ \E t \in {"labs", "half_open", "lastfm", "deezer"} : Site!Trouble(t)
           \/ Site!Lapse \/ Site!Put \/ Site!Tick
  <2>1. Site!Elapses
    BY <1>4 DEF Site!Warm, Site!Learn, Site!Trouble, Site!Lapse, Site!Put, Site!Tick,
                Site!Changes
  <2>2. QED
    BY <1>3, <2>1
<1>5. CASE Site!Next
  BY <1>2, <1>4, <1>5, DeezerPlays, RefreshPlays, AskPlays, ListenerPlays DEF Site!Next
<1>6. QED
  BY <1>1, <1>5

(* GET /v1/recordings/{mbid}/preview: whoever shares a resolution, and      *)
(* whatever an HTTP cache kept, nobody is handed a signed URL that has run  *)
(* out, for any number of listeners, requests and changes.                  *)
THEOREM PreviewsAlwaysPlay ==
    /\ Site!Spec => []Site!PreviewsPlay
    /\ MCSpec => []PreviewsPlay
<1>1. Site!Init => PagesPlay
  <2> SUFFICES ASSUME Site!Init PROVE PagesPlay
    OBVIOUS
  <2>1. /\ listener = [l \in Listeners |-> Site!Idle] /\ flight = FALSE /\ got = {}
        /\ shared.page = Site!Page0
    BY DEF Site!Init
  <2>2. DOMAIN Site!Idle = {"at", "route", "near", "name"} /\ Site!Idle.at = "idle"
    BY DEF Site!Idle, Site!Waits
  <2>3. Turns
    BY <2>1, <2>2 DEF Turns
  <2>4. QED
    BY AbsentAssumption, <2>1, <2>3 DEF PagesPlay, Site!PreviewsPlay, Site!Page0
<1>2. PagesPlay /\ [Site!Next]_(Site!vars) => PagesPlay'
  <2>1. Absent # "deezer"
    BY AbsentAssumption
  <2>2. QED
    BY <2>1, PagesPlayKept
<1>3. PagesPlay => Site!PreviewsPlay
  BY DEF PagesPlay
<1>4. Site!Spec => []Site!PreviewsPlay
  BY <1>1, <1>2, <1>3, PTL DEF Site!Spec
<1>5. MCInit => PagesPlay
  BY <1>1 DEF MCInit
<1>6. PagesPlay /\ [MCNext]_<<feedAll, part, catVars, adapters, concerts, pages>> => PagesPlay'
  <2> SUFFICES ASSUME PagesPlay, [MCNext]_<<feedAll, part, catVars, adapters, concerts, pages>>
               PROVE  PagesPlay'
    OBVIOUS
  <2>1. [Site!Next]_(pages)
    BY DEF MCNext
  <2>2. UNCHANGED pages => UNCHANGED Site!vars
    BY DEF pages, Site!vars, Site!env
  <2>3. QED
    BY <1>2, <2>1, <2>2
<1>7. PagesPlay => PreviewsPlay
  BY <1>3 DEF PreviewsPlay
<1>8. MCSpec => []PreviewsPlay
  BY <1>5, <1>6, <1>7, PTL DEF MCSpec
<1>9. QED
  BY <1>4, <1>8

-----------------------------------------------------------------------------
(* The crosswalk and the dump behind it, for any dump, any queries and any  *)
(* number of resolvers.                                                     *)

(* Only an answer of the dump counts as local.                              *)
Asked ==
    /\ DOMAIN task_ = Resolvers
    /\ \A p \in Resolvers :
          /\ DOMAIN task_[p] = DOMAIN Cat!Idle
          /\ task_[p].local \in BOOLEAN
          /\ task_[p].at # "record" => ~task_[p].local
          /\ task_[p].at = "search" => task_[p].q \in Queries

NamesHold == Asked /\ Cat!NoFalseMerge

(* A row the dump answers a query with.                                     *)
Answers(r, q, m) ==
    /\ Cat!Fold(r.artist) = Cat!Fold(q.artist)
    /\ IF q.title = <<>> THEN m = r.amb
       ELSE /\ m = r.rmb
            /\ Cat!Fold(r.title) \in {Cat!Fold(q.title), Cat!Fold(Cat!Bare(q.title))}

(* Once the artist is known, the key of a row can be cut in one way.        *)
LEMMA HitsAreTheirs ==
    ASSUME Folded, NEW q \in Queries, NEW m \in Cat!Hits(q)
    PROVE  \E r \in DumpRows : Answers(r, q, m)
<1>1. Cat!Rows \subseteq DumpRows
  BY DEF Cat!Rows
<1>2. CASE q.title = <<>>
  BY <1>1, <1>2 DEF Cat!Hits, Answers
<1>3. CASE q.title # <<>>
  <2>1. PICK t \in {q.title, Cat!Bare(q.title)}, r \in DumpRows :
           /\ Cat!Fold(r.artist) = Cat!Fold(q.artist) /\ m = r.rmb
           /\ Cat!Lookup(r.artist, r.title) = Cat!Lookup(q.artist, t)
    BY <1>1, <1>3 DEF Cat!Hits
  <2>2. /\ Cat!Fold(q.artist) \in Seq(Letters) /\ Cat!Fold(r.title) \in Seq(Letters)
        /\ Cat!Fold(t) \in Seq(Letters)
    BY DEF Folded
  <2>3. Cat!Fold(r.title) = Cat!Fold(t)
    BY <2>1, <2>2, ConcatSimplifications DEF Cat!Lookup
  <2>4. QED
    BY <1>3, <2>1, <2>3 DEF Answers
<1>4. QED
  BY <1>2, <1>3

(* One resolver takes a step that leaves the others alone.                  *)
LEMMA OneResolves ==
    ASSUME NamesHold, NEW p \in Resolvers, NEW t, task_' = [task_ EXCEPT ![p] = t],
           DOMAIN t = DOMAIN Cat!Idle, t.local \in BOOLEAN,
           t.at # "record" => ~t.local, t.at = "search" => t.q \in Queries,
           t.local => \E r \in DumpRows : Answers(r, t.q, t.mbid)
    PROVE  NamesHold'
<1>1. /\ DOMAIN task_' = Resolvers /\ task_'[p] = t
      /\ \A o \in Resolvers \ {p} : task_'[o] = task_[o]
  BY DEF NamesHold, Asked
<1>2. Asked'
  BY <1>1 DEF NamesHold, Asked
<1>3. Cat!NoFalseMerge'
  BY <1>1 DEF NamesHold, Cat!NoFalseMerge, Answers
<1>4. QED
  BY <1>2, <1>3 DEF NamesHold

LEMMA IdleNames ==
    /\ DOMAIN Cat!Idle = {"at", "q", "mbid", "score", "local"}
    /\ Cat!Idle.at = "idle" /\ Cat!Idle.local = FALSE
  BY DEF Cat!Idle

LEMMA ResolveNames ==
    ASSUME NamesHold, NEW p \in Resolvers, Cat!Resolve(p) \/ Cat!RecordRemote(p)
    PROVE  NamesHold'
<1>1. CASE Cat!RecordRemote(p)
  <2>1. task_' = [task_ EXCEPT ![p] = Cat!Idle]
    BY <1>1 DEF Cat!RecordRemote
  <2>2. QED
    BY <2>1, IdleNames, OneResolves
<1>2. CASE Cat!Resolve(p)
  <2>1. PICK q \in Queries : task_' = [task_ EXCEPT ![p] = [Cat!Idle EXCEPT !.at = "search", !.q = q]]
    BY <1>2 DEF Cat!Resolve
  <2> DEFINE t == [[Cat!Idle EXCEPT !.at = "search"] EXCEPT !.q = q]
  <2>2. DOMAIN t = DOMAIN Cat!Idle /\ t.at = "search" /\ t.q = q /\ t.local = FALSE
    BY IdleNames
  <2>3. task_' = [task_ EXCEPT ![p] = t]
    BY <2>1
  <2> HIDE DEF t
  <2>4. QED
    BY <2>2, <2>3, OneResolves
<1>3. QED
  BY <1>1, <1>2

(* An answer on its way to be recorded.                                     *)
LEMMA AnswerNames ==
    ASSUME Folded, NamesHold, NEW p \in Resolvers, Cat!SearchLocal(p) \/ Cat!SearchRemote(p)
    PROVE  NamesHold'
<1>1. /\ task_[p].at = "search" /\ task_[p].q \in Queries /\ task_[p].local = FALSE
      /\ DOMAIN task_[p] = {"at", "q", "mbid", "score", "local"}
  BY IdleNames DEF Cat!SearchLocal, Cat!SearchRemote, NamesHold, Asked
<1>2. CASE Cat!SearchLocal(p)
  <2>1. PICK m \in Cat!Hits(task_[p].q) :
           task_' = [task_ EXCEPT ![p] = [@ EXCEPT !.at = "record", !.mbid = m, !.score = 100,
                                                 !.local = TRUE]]
    BY <1>2 DEF Cat!SearchLocal
  <2> DEFINE t == [[[[task_[p] EXCEPT !.at = "record"] EXCEPT !.mbid = m] EXCEPT !.score = 100]
                     EXCEPT !.local = TRUE]
  <2>2. /\ DOMAIN t = {"at", "q", "mbid", "score", "local"} /\ t.at = "record"
        /\ t.q = task_[p].q /\ t.mbid = m /\ t.local = TRUE
    BY <1>1
  <2>3. task_' = [task_ EXCEPT ![p] = t]
    BY <2>1
  <2> HIDE DEF t
  <2>4. \E r \in DumpRows : Answers(r, t.q, t.mbid)
    BY <1>1, <2>2, HitsAreTheirs
  <2>5. QED
    BY <2>2, <2>3, <2>4, IdleNames, OneResolves
<1>3. CASE Cat!SearchRemote(p)
  <2>1. CASE task_' = [task_ EXCEPT ![p] = Cat!Idle]
    BY <2>1, IdleNames, OneResolves
  <2>2. CASE task_' # [task_ EXCEPT ![p] = Cat!Idle]
    <3>1. PICK m, s : task_' = [task_ EXCEPT ![p] = [@ EXCEPT !.at = "record", !.mbid = m,
                                                            !.score = s]]
      BY <1>3, <2>2 DEF Cat!SearchRemote
    <3> DEFINE t == [[[task_[p] EXCEPT !.at = "record"] EXCEPT !.mbid = m] EXCEPT !.score = s]
    <3>2. /\ DOMAIN t = {"at", "q", "mbid", "score", "local"} /\ t.at = "record"
          /\ t.local = FALSE
      BY <1>1
    <3>3. task_' = [task_ EXCEPT ![p] = t]
      BY <3>1
    <3> HIDE DEF t
    <3>4. QED
      BY <3>2, <3>3, IdleNames, OneResolves
  <2>3. QED
    BY <2>1, <2>2
<1>4. QED
  BY <1>2, <1>3

LEMMA NamesKept ==
    ASSUME Folded, NamesHold, [Cat!Next]_(Cat!vars)
    PROVE  NamesHold'
<1>1. ASSUME UNCHANGED task_
      PROVE  NamesHold'
  BY <1>1 DEF NamesHold, Asked, Cat!NoFalseMerge
<1>2. CASE \/ Cat!Recovers \/ Cat!Load \/ Cat!MemoLapses
           \/ \E l \in Lessons : Cat!Learn(l)
           \/ \E m \in Mbids : Cat!Warm(m)
  <2>1. ASSUME NEW l \in Lessons, Cat!Learn(l)
        PROVE  UNCHANGED task_
    BY <2>1 DEF Cat!Learn
  <2>2. ASSUME NEW m \in Mbids, Cat!Warm(m)
        PROVE  UNCHANGED task_
    BY <2>2 DEF Cat!Warm
  <2>3. CASE Cat!Recovers \/ Cat!Load \/ Cat!MemoLapses
    BY <1>1, <2>3 DEF Cat!Recovers, Cat!Load, Cat!MemoLapses
  <2>4. QED
    BY <1>1, <1>2, <2>1, <2>2, <2>3
<1>3. ASSUME NEW g \in Lookups,
             \/ \E m \in Mbids : Cat!AskNeighbours(g, m)
             \/ Cat!ReadMemo(g) \/ Cat!ReadLoadState(g) \/ Cat!Exists(g) \/ Cat!Known(g)
             \/ Cat!Call(g)
      PROVE  NamesHold'
  BY <1>1, <1>3 DEF Cat!AskNeighbours, Cat!ReadMemo, Cat!ReadLoadState, Cat!Exists,
                    Cat!Known, Cat!Call
<1>4. CASE UNCHANGED Cat!vars
  BY <1>1, <1>4 DEF Cat!vars
<1>5. QED
  BY <1>2, <1>3, <1>4, ResolveNames, AnswerNames DEF Cat!Next

(* local-first.ts: whatever the dump holds, and however it is loaded,       *)
(* restored and lost meanwhile, an MBID it answered, about to be recorded,  *)
(* is that of an artist of that folded name, and of that title of his, for  *)
(* any dump and any queries.                                                *)
THEOREM NamesAreNotMixed ==
    /\ Cat!Spec => []Cat!NoFalseMerge
    /\ MCSpec => []NoFalseMerge
<1>1. Cat!Init => NamesHold
  BY IdleNames DEF Cat!Init, NamesHold, Asked, Cat!NoFalseMerge
<1>2. NamesHold /\ [Cat!Next]_(Cat!vars) => NamesHold'
  BY Folded, NamesKept
<1>3. NamesHold => Cat!NoFalseMerge
  BY DEF NamesHold
<1>4. Cat!Spec => []Cat!NoFalseMerge
  BY <1>1, <1>2, <1>3, PTL DEF Cat!Spec
<1>5. MCInit => NamesHold
  BY <1>1 DEF MCInit
<1>6. NamesHold /\ [MCNext]_<<feedAll, part, catVars, adapters, concerts, pages>> => NamesHold'
  <2> SUFFICES ASSUME NamesHold, [MCNext]_<<feedAll, part, catVars, adapters, concerts, pages>>
               PROVE  NamesHold'
    OBVIOUS
  <2>1. Cat!Next \/ UNCHANGED catVars
    BY DEF MCNext
  <2>2. UNCHANGED catVars => UNCHANGED Cat!vars
    BY DEF catVars, Cat!vars
  <2>3. QED
    BY <1>2, <2>1, <2>2
<1>7. NamesHold => NoFalseMerge
  BY <1>3 DEF NoFalseMerge
<1>8. MCSpec => []NoFalseMerge
  BY <1>5, <1>6, <1>7, PTL DEF MCSpec
<1>9. QED
  BY <1>4, <1>8

-----------------------------------------------------------------------------
(* packages/discovery/src/merge.ts.                                        *)

Candidates(Sources) == [id : Nat, source : Sources, score : Nat, mbid : Nat]

(* What was offered of the first k candidates, and of one identity.        *)
Seen(cs, k) == {cs[j] : j \in {i \in 1..k : cs[i].id # 0}}
SeenOf(S, i) == {c \in S : c.id = i}

(* An entry stands for the candidates of one identity.                     *)
StandsFor(e, i, Same) ==
    /\ DOMAIN e = {"id", "peak", "mbid", "sources"}
    /\ e.id = i /\ e.peak \in Nat /\ e.mbid \in Nat
    /\ e.sources = {c.source : c \in Same}
    /\ \A c \in Same : c.score <= e.peak
    /\ \E c \in Same : c.score = e.peak
    /\ e.mbid = 0 <=> \A c \in Same : c.mbid = 0
    /\ \E c \in Same : c.mbid = e.mbid

Stand(E, S) ==
    /\ DOMAIN E = {c.id : c \in S}
    /\ \A i \in DOMAIN E : StandsFor(E[i], i, SeenOf(S, i))

(* One more candidate of an identity that is known: an MBID is not lost.   *)
LEMMA OneMore ==
    ASSUME NEW e, NEW i, NEW Same, NEW Sources, StandsFor(e, i, Same),
           \A d \in Same : d \in Candidates(Sources),
           NEW c \in Candidates(Sources), NEW m \in {e.mbid, c.mbid},
           e.mbid = 0 => m = c.mbid, e.mbid # 0 => m # 0
    PROVE  StandsFor([id |-> i, peak |-> IF c.score > e.peak THEN c.score ELSE e.peak,
                      mbid |-> m, sources |-> e.sources \cup {c.source}], i, Same \cup {c})
<1> DEFINE p == IF c.score > e.peak THEN c.score ELSE e.peak
           new == [id |-> i, peak |-> p, mbid |-> m, sources |-> e.sources \cup {c.source}]
<1>1. /\ e.peak \in Nat /\ e.mbid \in Nat /\ e.sources = {d.source : d \in Same}
      /\ \A d \in Same : d.score <= e.peak
      /\ \E d \in Same : d.score = e.peak
      /\ e.mbid = 0 <=> \A d \in Same : d.mbid = 0
      /\ \E d \in Same : d.mbid = e.mbid
  BY DEF StandsFor
<1>2. c.score \in Nat /\ c.mbid \in Nat /\ \A d \in Same : d.score \in Nat /\ d.mbid \in Nat
  BY DEF Candidates
<1>3. p \in Nat /\ e.peak <= p /\ c.score <= p /\ p \in {c.score, e.peak}
  BY <1>1, <1>2
<1> HIDE DEF p
<1>4. /\ \A d \in Same \cup {c} : d.score <= p
      /\ \E d \in Same \cup {c} : d.score = p
  BY <1>1, <1>2, <1>3
<1>5. /\ m = 0 <=> \A d \in Same \cup {c} : d.mbid = 0
      /\ \E d \in Same \cup {c} : d.mbid = m
  BY <1>1, <1>2
<1>6. e.sources \cup {c.source} = {d.source : d \in Same \cup {c}}
  BY <1>1
<1>7. /\ DOMAIN new = {"id", "peak", "mbid", "sources"} /\ new.id = i
      /\ new.peak = p /\ new.mbid = m /\ new.sources = e.sources \cup {c.source}
  OBVIOUS
<1> HIDE DEF new
<1>8. m \in Nat
  BY <1>1, <1>2
<1>9. StandsFor(new, i, Same \cup {c})
  BY <1>3, <1>4, <1>5, <1>6, <1>7, <1>8 DEF StandsFor
<1>10. QED
  BY <1>9 DEF new, p

(* One candidate more, of tracks or of artists.                            *)
LEMMA MergeOneStands ==
    ASSUME NEW E, NEW S, NEW Sources, Stand(E, S), \A d \in S : d \in Candidates(Sources),
           NEW c \in Candidates(Sources)
    PROVE  LET T == IF c.id = 0 THEN S ELSE S \cup {c}
           IN  Stand(MergeOne(E, c), T) /\ Stand(MergeArtist(E, c), T)
<1> DEFINE T == S \cup {c}
           first == [id |-> c.id, peak |-> c.score, mbid |-> c.mbid, sources |-> {c.source}]
<1>1. CASE c.id = 0
  BY <1>1 DEF MergeOne, MergeArtist
<1>2. CASE c.id # 0 /\ c.id \notin DOMAIN E
  <2> DEFINE F == [i \in DOMAIN E \cup {c.id} |-> IF i # c.id THEN E[i] ELSE first]
  <2>1. MergeOne(E, c) = F /\ MergeArtist(E, c) = F
    BY <1>2 DEF MergeOne, MergeArtist
  <2>2. SeenOf(T, c.id) = {c}
    BY <1>2 DEF SeenOf, Stand
  <2>3. \A i \in DOMAIN E : SeenOf(T, i) = SeenOf(S, i)
    BY <1>2 DEF SeenOf
  <2>4. StandsFor(first, c.id, {c})
    BY DEF StandsFor, Candidates
  <2>5. DOMAIN F = {d.id : d \in T}
    BY DEF Stand
  <2>6. ASSUME NEW i \in DOMAIN F
        PROVE  StandsFor(F[i], i, SeenOf(T, i))
    <3>1. CASE i = c.id
      BY <2>2, <2>4, <3>1
    <3>2. CASE i # c.id
      BY <2>3, <3>2 DEF Stand
    <3>3. QED
      BY <3>1, <3>2
  <2>7. Stand(F, T)
    BY <2>5, <2>6 DEF Stand
  <2>8. QED
    BY <1>2, <2>1, <2>7
<1>3. CASE c.id # 0 /\ c.id \in DOMAIN E
  <2> DEFINE e == E[c.id]
             Grown(m) == [id |-> c.id, peak |-> IF c.score > e.peak THEN c.score ELSE e.peak,
                          mbid |-> m, sources |-> e.sources \cup {c.source}]
             kept == IF e.mbid # 0 THEN e.mbid ELSE c.mbid
  <2>1. /\ MergeOne(E, c) = [E EXCEPT ![c.id] = Grown(Pick(e, c))]
        /\ MergeArtist(E, c) = [E EXCEPT ![c.id] = Grown(kept)]
    BY <1>3 DEF MergeOne, MergeArtist
  <2>2. StandsFor(e, c.id, SeenOf(S, c.id))
    BY <1>3 DEF Stand
  <2>3. /\ Pick(e, c) \in {e.mbid, c.mbid} /\ kept \in {e.mbid, c.mbid}
        /\ e.mbid = 0 => Pick(e, c) = c.mbid /\ kept = c.mbid
        /\ e.mbid # 0 => Pick(e, c) # 0 /\ kept # 0
    BY DEF Pick
  <2>4. SeenOf(T, c.id) = SeenOf(S, c.id) \cup {c}
    BY DEF SeenOf
  <2>5. \A i \in DOMAIN E : i # c.id => SeenOf(T, i) = SeenOf(S, i)
    BY DEF SeenOf
  <2>6. \A d \in SeenOf(S, c.id) : d \in Candidates(Sources)
    BY DEF SeenOf
  <2>7. ASSUME NEW m \in {e.mbid, c.mbid}, e.mbid = 0 => m = c.mbid, e.mbid # 0 => m # 0
        PROVE  Stand([E EXCEPT ![c.id] = Grown(m)], T)
    <3> DEFINE F == [E EXCEPT ![c.id] = Grown(m)]
    <3>1. StandsFor(Grown(m), c.id, SeenOf(T, c.id))
      <4> HIDE DEF e
      <4>1. StandsFor([id |-> c.id, peak |-> IF c.score > e.peak THEN c.score ELSE e.peak,
                       mbid |-> m, sources |-> e.sources \cup {c.source}], c.id,
                      SeenOf(S, c.id) \cup {c})
        BY <2>2, <2>6, <2>7, OneMore
      <4>2. QED
        BY <2>4, <4>1
    <3>2. DOMAIN F = {d.id : d \in T}
      BY <1>3 DEF Stand
    <3>3. ASSUME NEW i \in DOMAIN F
          PROVE  StandsFor(F[i], i, SeenOf(T, i))
      <4> HIDE DEF Grown
      <4>1. CASE i = c.id
        BY <1>3, <3>1, <4>1
      <4>2. CASE i # c.id
        BY <2>5, <4>2 DEF Stand
      <4>3. QED
        BY <4>1, <4>2
    <3>4. QED
      BY <3>2, <3>3 DEF Stand
  <2> HIDE DEF Grown, kept
  <2>8. Stand(MergeOne(E, c), T) /\ Stand(MergeArtist(E, c), T)
    BY <2>1, <2>3, <2>7
  <2>9. QED
    BY <1>3, <2>8
<1>4. QED
  BY <1>1, <1>2, <1>3

(* The entries after k candidates stand for what was offered of them.      *)
LEMMA EntriesExist ==
    ASSUME NEW cs, NEW n \in Nat
    PROVE  /\ \E f : f = [k \in 0..n |-> IF k = 0 THEN <<>> ELSE MergeOne(f[k - 1], cs[k])]
           /\ \E f : f = [k \in 0..n |-> IF k = 0 THEN <<>> ELSE MergeArtist(f[k - 1], cs[k])]
<1> DEFINE Tracks(m) == \E f : f = [k \in 0..m |-> IF k = 0 THEN <<>>
                                                  ELSE MergeOne(f[k - 1], cs[k])]
           Artists(m) == \E f : f = [k \in 0..m |-> IF k = 0 THEN <<>>
                                                   ELSE MergeArtist(f[k - 1], cs[k])]
           Bad == {m \in Nat : ~(Tracks(m) /\ Artists(m))}
<1>1. Tracks(0) /\ Artists(0)
  <2>1. [k \in 0..0 |-> <<>>] = [k \in 0..0 |-> IF k = 0 THEN <<>>
                                   ELSE MergeOne([j \in 0..0 |-> <<>>][k - 1], cs[k])]
    OBVIOUS
  <2>2. [k \in 0..0 |-> <<>>] = [k \in 0..0 |-> IF k = 0 THEN <<>>
                                   ELSE MergeArtist([j \in 0..0 |-> <<>>][k - 1], cs[k])]
    OBVIOUS
  <2>3. QED
    BY <2>1, <2>2
<1>2. ASSUME NEW m \in Nat \ {0}, Tracks(m - 1)
      PROVE  Tracks(m)
  <2>1. PICK f : f = [k \in 0..(m - 1) |-> IF k = 0 THEN <<>> ELSE MergeOne(f[k - 1], cs[k])]
    BY <1>2
  <2> DEFINE g == [k \in 0..m |-> IF k = m THEN MergeOne(f[m - 1], cs[m]) ELSE f[k]]
  <2>2. \A k \in 0..m : g[k] = IF k = 0 THEN <<>> ELSE MergeOne(g[k - 1], cs[k])
    <3>1. \A k \in 0..(m - 1) : f[k] = IF k = 0 THEN <<>> ELSE MergeOne(f[k - 1], cs[k])
      BY <2>1
    <3>2. \A k \in 1..m : g[k - 1] = f[k - 1]
      OBVIOUS
    <3>3. QED
      BY <3>1, <3>2
  <2>3. g = [k \in 0..m |-> IF k = 0 THEN <<>> ELSE MergeOne(g[k - 1], cs[k])]
    BY <2>2
  <2>4. QED
    BY <2>3
<1>3. ASSUME NEW m \in Nat \ {0}, Artists(m - 1)
      PROVE  Artists(m)
  <2>1. PICK f : f = [k \in 0..(m - 1) |-> IF k = 0 THEN <<>> ELSE MergeArtist(f[k - 1], cs[k])]
    BY <1>3
  <2> DEFINE g == [k \in 0..m |-> IF k = m THEN MergeArtist(f[m - 1], cs[m]) ELSE f[k]]
  <2>2. \A k \in 0..m : g[k] = IF k = 0 THEN <<>> ELSE MergeArtist(g[k - 1], cs[k])
    <3>1. \A k \in 0..(m - 1) : f[k] = IF k = 0 THEN <<>> ELSE MergeArtist(f[k - 1], cs[k])
      BY <2>1
    <3>2. \A k \in 1..m : g[k - 1] = f[k - 1]
      OBVIOUS
    <3>3. QED
      BY <3>1, <3>2
  <2>3. g = [k \in 0..m |-> IF k = 0 THEN <<>> ELSE MergeArtist(g[k - 1], cs[k])]
    BY <2>2
  <2>4. QED
    BY <2>3
<1> HIDE DEF Tracks, Artists
<1>4. Bad = {}
  <2> SUFFICES ASSUME Bad # {} PROVE FALSE
    OBVIOUS
  <2>1. PICK m \in Bad : \A j \in Bad : m <= j
    BY Least
  <2>2. m \in Nat \ {0} /\ m - 1 \in Nat /\ m - 1 \notin Bad
    BY <1>1, <2>1
  <2>3. QED
    BY <1>2, <1>3, <2>1, <2>2
<1>5. QED
  BY <1>4 DEF Tracks, Artists

LEMMA EntriesStand ==
    ASSUME NEW Sources, NEW cs \in Seq(Candidates(Sources))
    PROVE  /\ Stand(Entries(MergeOne, cs), Seen(cs, Len(cs)))
           /\ Stand(Entries(MergeArtist, cs), Seen(cs, Len(cs)))
<1> DEFINE n == Len(cs)
<1>1. n \in Nat /\ \A k \in 1..n : cs[k] \in Candidates(Sources)
  OBVIOUS
<1> HIDE DEF n
<1>2. ASSUME NEW k \in 1..n, NEW E, Stand(E, Seen(cs, k - 1))
      PROVE  Stand(MergeOne(E, cs[k]), Seen(cs, k)) /\ Stand(MergeArtist(E, cs[k]), Seen(cs, k))
  <2>1. cs[k] \in Candidates(Sources) /\ \A d \in Seen(cs, k - 1) : d \in Candidates(Sources)
    BY <1>1 DEF Seen
  <2>2. Seen(cs, k) = IF cs[k].id = 0 THEN Seen(cs, k - 1) ELSE Seen(cs, k - 1) \cup {cs[k]}
    <3>1. 1..k = 1..(k - 1) \cup {k}
      BY <1>1
    <3>2. QED
      BY <3>1 DEF Seen
  <2> DEFINE S == Seen(cs, k - 1)
             c == cs[k]
  <2>3. Stand(E, S) /\ (\A d \in S : d \in Candidates(Sources)) /\ c \in Candidates(Sources)
    BY <1>2, <2>1
  <2>4. Seen(cs, k) = IF c.id = 0 THEN S ELSE S \cup {c}
    BY <2>2
  <2> HIDE DEF S, c
  <2>5. LET T == IF c.id = 0 THEN S ELSE S \cup {c}
        IN  Stand(MergeOne(E, c), T) /\ Stand(MergeArtist(E, c), T)
    BY <2>3, MergeOneStands
  <2>6. Stand(MergeOne(E, c), Seen(cs, k)) /\ Stand(MergeArtist(E, c), Seen(cs, k))
    BY <2>4, <2>5
  <2>7. QED
    BY <2>6 DEF c
<1>3. Stand(<<>>, Seen(cs, 0))
  BY DEF Stand, Seen
<1>4. Stand(Entries(MergeOne, cs), Seen(cs, n))
  <2> DEFINE f == CHOOSE f : f = [k \in 0..n |-> IF k = 0 THEN <<>> ELSE MergeOne(f[k - 1], cs[k])]
  <2>1. f = [k \in 0..n |-> IF k = 0 THEN <<>> ELSE MergeOne(f[k - 1], cs[k])]
    BY <1>1, EntriesExist
  <2>2. Entries(MergeOne, cs) = f[n]
    BY DEF Entries, n
  <2> HIDE DEF f
  <2> DEFINE Bad == {k \in 0..n : ~Stand(f[k], Seen(cs, k))}
  <2>3. f[0] = <<>> /\ \A k \in 1..n : f[k] = MergeOne(f[k - 1], cs[k])
    BY <1>1, <2>1
  <2>4. Bad = {}
    <3> SUFFICES ASSUME Bad # {} PROVE FALSE
      OBVIOUS
    <3>0. Bad \in SUBSET Nat
      BY <1>1
    <3>1. PICK k \in Bad : \A j \in Bad : k <= j
      <4> HIDE DEF Bad
      <4>1. QED
        BY <3>0, Least
    <3>2. k \in 1..n /\ k - 1 \in 0..n /\ k - 1 \notin Bad
      BY <1>1, <1>3, <2>3, <3>1
    <3>3. QED
      BY <1>2, <2>3, <3>1, <3>2
  <2>5. QED
    BY <1>1, <2>2, <2>4
<1>5. Stand(Entries(MergeArtist, cs), Seen(cs, n))
  <2> DEFINE f == CHOOSE f : f = [k \in 0..n |-> IF k = 0 THEN <<>> ELSE MergeArtist(f[k - 1], cs[k])]
  <2>1. f = [k \in 0..n |-> IF k = 0 THEN <<>> ELSE MergeArtist(f[k - 1], cs[k])]
    BY <1>1, EntriesExist
  <2>2. Entries(MergeArtist, cs) = f[n]
    BY DEF Entries, n
  <2> HIDE DEF f
  <2> DEFINE Bad == {k \in 0..n : ~Stand(f[k], Seen(cs, k))}
  <2>3. f[0] = <<>> /\ \A k \in 1..n : f[k] = MergeArtist(f[k - 1], cs[k])
    BY <1>1, <2>1
  <2>4. Bad = {}
    <3> SUFFICES ASSUME Bad # {} PROVE FALSE
      OBVIOUS
    <3>0. Bad \in SUBSET Nat
      BY <1>1
    <3>1. PICK k \in Bad : \A j \in Bad : k <= j
      <4> HIDE DEF Bad
      <4>1. QED
        BY <3>0, Least
    <3>2. k \in 1..n /\ k - 1 \in 0..n /\ k - 1 \notin Bad
      BY <1>1, <1>3, <2>3, <3>1
    <3>3. QED
      BY <1>2, <2>3, <3>1, <3>2
  <2>5. QED
    BY <1>1, <2>2, <2>4
<1>6. QED
  BY <1>4, <1>5 DEF n

-----------------------------------------------------------------------------
(* An order without ties: everything has a place of its own.               *)

(* Before is a strict order in which of any two one is ahead.              *)
Lined(S, Before) ==
    /\ \A x, y \in S : x # y => <<x, y>> \in Before \/ <<y, x>> \in Before
    /\ \A x \in S : <<x, x>> \notin Before
    /\ \A x, y, z \in S : <<x, y>> \in Before /\ <<y, z>> \in Before => <<x, z>> \in Before

AheadOf(x, S, Before) == {y \in S : <<y, x>> \in Before}

LEMMA FewerAhead ==
    ASSUME NEW S, IsFiniteSet(S), NEW Before, Lined(S, Before),
           NEW x \in S, NEW y \in S, <<x, y>> \in Before
    PROVE  /\ Cardinality(AheadOf(x, S, Before)) \in Nat
           /\ Cardinality(AheadOf(y, S, Before)) \in Nat
           /\ Cardinality(AheadOf(x, S, Before)) < Cardinality(AheadOf(y, S, Before))
<1> DEFINE X == AheadOf(x, S, Before)
           Y == AheadOf(y, S, Before)
<1>1. X \subseteq Y /\ x \in Y /\ x \notin X /\ Y \subseteq S
  BY DEF AheadOf, Lined
<1> HIDE DEF X, Y
<1>2. IsFiniteSet(Y) /\ IsFiniteSet(X)
  BY <1>1, FS_Subset
<1>3. Cardinality(X) <= Cardinality(Y) /\ Cardinality(X) # Cardinality(Y)
  BY <1>1, <1>2, FS_Subset
<1>4. Cardinality(X) \in Nat /\ Cardinality(Y) \in Nat
  BY <1>2, FS_CardinalityType
<1>5. QED
  BY <1>3, <1>4 DEF X, Y

LEMMA EveryPlaceTaken ==
    ASSUME NEW S, IsFiniteSet(S), NEW Before, Lined(S, Before), NEW k \in 1..Cardinality(S)
    PROVE  \E x \in S : Cardinality(AheadOf(x, S, Before)) = k - 1
<1> DEFINE n == Cardinality(S)
           place == [x \in S |-> Cardinality(AheadOf(x, S, Before))]
<1>1. n \in Nat
  BY FS_CardinalityType
<1>2. \A x \in S : place[x] \in 0..(n - 1)
  <2> SUFFICES ASSUME NEW x \in S PROVE place[x] \in 0..(n - 1)
    OBVIOUS
  <2>1. AheadOf(x, S, Before) \subseteq S \ {x}
    BY DEF AheadOf, Lined
  <2>2. IsFiniteSet(S \ {x}) /\ Cardinality(S \ {x}) = n - 1
    BY FS_RemoveElement
  <2>3. /\ Cardinality(AheadOf(x, S, Before)) <= n - 1
        /\ IsFiniteSet(AheadOf(x, S, Before))
    BY <2>1, <2>2, FS_Subset
  <2>4. Cardinality(AheadOf(x, S, Before)) \in Nat
    BY <2>3, FS_CardinalityType
  <2>5. QED
    BY <1>1, <2>3, <2>4
<1>3. \A x, y \in S : place[x] = place[y] => x = y
  <2> SUFFICES ASSUME NEW x \in S, NEW y \in S, x # y PROVE place[x] # place[y]
    OBVIOUS
  <2>1. <<x, y>> \in Before \/ <<y, x>> \in Before
    BY DEF Lined
  <2>2. CASE <<x, y>> \in Before
    BY <2>2, FewerAhead
  <2>3. CASE <<y, x>> \in Before
    BY <2>3, FewerAhead
  <2>4. QED
    BY <2>1, <2>2, <2>3
<1>4. IsFiniteSet(0..(n - 1)) /\ Cardinality(0..(n - 1)) = n
  <2>1. 0 \in Int /\ n - 1 \in Int
    BY <1>1
  <2>2. Cardinality(0..(n - 1)) = IF 0 > n - 1 THEN 0 ELSE (n - 1) - 0 + 1
    BY <2>1, FS_Interval
  <2>3. IsFiniteSet(0..(n - 1))
    BY <2>1, FS_Interval
  <2>4. QED
    BY <1>1, <2>2, <2>3
<1>5. place \in Injection(S, 0..(n - 1))
  <2>1. place \in [S -> 0..(n - 1)]
    BY <1>2
  <2>2. \A x, y \in S : place[x] = place[y] => x = y
    BY <1>3
  <2> HIDE DEF place
  <2>3. QED
    BY <2>1, <2>2 DEF Injection, IsInjective
<1>6. place \in Surjection(S, 0..(n - 1))
  <2> HIDE DEF place
  <2>1. QED
    BY <1>4, <1>5, FS_Injection
<1>7. k - 1 \in 0..(n - 1)
  BY <1>1
<1>8. \E x \in S : place[x] = k - 1
  <2> HIDE DEF place
  <2>1. QED
    BY <1>6, <1>7 DEF Surjection
<1>9. QED
  BY <1>8

-----------------------------------------------------------------------------
(* The entries in their order.                                             *)

Line(e) == [id |-> e.id, mbid |-> e.mbid, sources |-> e.sources,
            score |-> e.peak * AgreementBoost(Cardinality(e.sources))]

Lines(E) == {Line(E[i]) : i \in DOMAIN E}

Precedes(S) == {p \in S \X S : \/ p[1].score > p[2].score
                               \/ p[1].score = p[2].score /\ p[1].id < p[2].id}

LEMMA LinesAreLined ==
    ASSUME NEW Sources, NEW cs \in Seq(Candidates(Sources)), NEW E,
           Stand(E, Seen(cs, Len(cs)))
    PROVE  /\ IsFiniteSet(Lines(E)) /\ Lined(Lines(E), Precedes(Lines(E)))
           /\ \A x, y \in Lines(E) : x.id = y.id => x = y
           /\ \A x \in Lines(E) : x.id \in DOMAIN E /\ x.score \in Nat /\ x = Line(E[x.id])
<1> DEFINE n == Len(cs)
           D == DOMAIN E
<1>1. n \in Nat /\ \A k \in 1..n : cs[k] \in Candidates(Sources)
  OBVIOUS
<1> HIDE DEF n
<1>2. D = {c.id : c \in Seen(cs, n)} /\ \A i \in D : StandsFor(E[i], i, SeenOf(Seen(cs, n), i))
  BY DEF Stand, n
<1>3. D \subseteq Nat
  BY <1>1, <1>2 DEF Seen, Candidates
<1>4. IsFiniteSet(D)
  <2> DEFINE f == [j \in 1..n |-> cs[j].id]
             R == {f[j] : j \in 1..n}
  <2>1. f \in Surjection(1..n, R)
    BY DEF Surjection
  <2>2. D \subseteq R
    BY <1>2 DEF Seen
  <2>3. IsFiniteSet(1..n)
    BY <1>1, FS_Interval
  <2> HIDE DEF f, R
  <2>4. IsFiniteSet(R)
    BY <2>1, <2>3, FS_Surjection
  <2>5. QED
    BY <2>2, <2>4, FS_Subset
<1>5. \A i \in D : Line(E[i]).id = i /\ Line(E[i]).score \in Nat
  <2> SUFFICES ASSUME NEW i \in D PROVE Line(E[i]).id = i /\ Line(E[i]).score \in Nat
    OBVIOUS
  <2>1. E[i].id = i /\ E[i].peak \in Nat
    BY <1>2 DEF StandsFor
  <2>2. AgreementBoost(Cardinality(E[i].sources)) \in {1, 2}
    BY DEF AgreementBoost
  <2>3. E[i].peak * AgreementBoost(Cardinality(E[i].sources)) \in Nat
    BY <2>1, <2>2
  <2>4. QED
    BY <2>1, <2>3 DEF Line
<1>6. /\ \A x, y \in Lines(E) : x.id = y.id => x = y
      /\ \A x \in Lines(E) : x.id \in D /\ x.score \in Nat /\ x = Line(E[x.id])
  BY <1>5 DEF Lines
<1>7. IsFiniteSet(Lines(E))
  <2> DEFINE f == [i \in D |-> Line(E[i])]
  <2>1. f \in Surjection(D, Lines(E))
    BY DEF Surjection, Lines
  <2> HIDE DEF f
  <2>2. QED
    BY <1>4, <2>1, FS_Surjection
<1>8. Lined(Lines(E), Precedes(Lines(E)))
  <2> DEFINE S == Lines(E)
  <2>1. \A x \in S : x.id \in Nat /\ x.score \in Nat
    BY <1>3, <1>6
  <2>2. \A x, y \in S : <<x, y>> \in Precedes(S)
                           <=> (x.score > y.score \/ (x.score = y.score /\ x.id < y.id))
    BY DEF Precedes
  <2>3. \A x, y \in S : x.id = y.id => x = y
    BY <1>6
  <2> HIDE DEF S
  <2>4. \A x, y \in S : x # y => <<x, y>> \in Precedes(S) \/ <<y, x>> \in Precedes(S)
    BY <2>1, <2>2, <2>3
  <2>5. \A x \in S : <<x, x>> \notin Precedes(S)
    BY <2>1, <2>2
  <2>6. \A x, y, z \in S : <<x, y>> \in Precedes(S) /\ <<y, z>> \in Precedes(S)
                              => <<x, z>> \in Precedes(S)
    BY <2>1, <2>2
  <2>7. QED
    BY <2>4, <2>5, <2>6 DEF Lined, S
<1>9. QED
  BY <1>6, <1>7, <1>8

(* Everything is listed once, the better before the worse.                 *)
LEMMA RankedLines ==
    ASSUME NEW Sources, NEW cs \in Seq(Candidates(Sources)), NEW E,
           Stand(E, Seen(cs, Len(cs)))
    PROVE  /\ Cardinality(Lines(E)) \in Nat
           /\ DOMAIN Ranked(E) = 1..Cardinality(Lines(E))
           /\ {Ranked(E)[k] : k \in DOMAIN Ranked(E)} = Lines(E)
           /\ \A k, l \in DOMAIN Ranked(E) : k < l =>
                 /\ Ranked(E)[k].score >= Ranked(E)[l].score
                 /\ Ranked(E)[k].id # Ranked(E)[l].id
<1> DEFINE S == Lines(E)
           B == Precedes(S)
           Place(x) == Cardinality(AheadOf(x, S, B))
           out == [k \in 1..Cardinality(S) |-> CHOOSE x \in S : Place(x) = k - 1]
<1>1. /\ IsFiniteSet(S) /\ Lined(S, B) /\ \A x, y \in S : x.id = y.id => x = y
      /\ \A x \in S : x.score \in Nat
  BY LinesAreLined
<1>2. Cardinality(S) \in Nat
  BY <1>1, FS_CardinalityType
<1>3. Ranked(E) = out
  <2> DEFINE scored == {[id |-> e.id, mbid |-> e.mbid, sources |-> e.sources,
                         score |-> e.peak * AgreementBoost(Cardinality(e.sources))] :
                           e \in {E[i] : i \in DOMAIN E}}
             Ahead(T, x) == {f \in T : f.score > x.score \/ (f.score = x.score /\ f.id < x.id)}
             Foremost(T, k) == CHOOSE x \in T : Cardinality(Ahead(T, x)) = k - 1
  <2>1. scored = S
    BY DEF Lines, Line
  <2>2. Ranked(E) = [k \in 1..Cardinality(scored) |-> Foremost(scored, k)]
    BY DEF Ranked
  <2>3. \A x \in S : Ahead(S, x) = AheadOf(x, S, B)
    BY DEF AheadOf, Precedes
  <2> HIDE DEF S, B, scored, Ahead
  <2>4. ASSUME NEW k
        PROVE  Foremost(S, k) = CHOOSE x \in S : Place(x) = k - 1
    BY <2>3
  <2> HIDE DEF Foremost
  <2>5. Ranked(E) = [k \in 1..Cardinality(S) |-> Foremost(S, k)]
    BY <2>1, <2>2
  <2>6. QED
    BY <2>4, <2>5
<1>4. \A k \in 1..Cardinality(S) : out[k] \in S /\ Place(out[k]) = k - 1
  <2> HIDE DEF S, B
  <2>1. \A k \in 1..Cardinality(S) : \E x \in S : Place(x) = k - 1
    BY <1>1, EveryPlaceTaken
  <2>2. QED
    BY <2>1
<1> HIDE DEF S, B
<1>5. \A x, y \in S : <<x, y>> \in B => Place(x) \in Nat /\ Place(y) \in Nat /\ Place(x) < Place(y)
  BY <1>1, FewerAhead
<1>6. \A x, y \in S : Place(x) = Place(y) => x = y
  <2> SUFFICES ASSUME NEW x \in S, NEW y \in S, x # y PROVE Place(x) # Place(y)
    OBVIOUS
  <2>1. <<x, y>> \in B \/ <<y, x>> \in B
    BY <1>1 DEF Lined
  <2> HIDE DEF Place
  <2>2. CASE <<x, y>> \in B
    BY <1>5, <2>2
  <2>3. CASE <<y, x>> \in B
    BY <1>5, <2>3
  <2>4. QED
    BY <2>1, <2>2, <2>3
<1>7. \A x \in S : \E k \in 1..Cardinality(S) : out[k] = x
  <2> SUFFICES ASSUME NEW x \in S PROVE \E k \in 1..Cardinality(S) : out[k] = x
    OBVIOUS
  <2>1. AheadOf(x, S, B) \subseteq S \ {x}
    BY <1>1 DEF AheadOf, Lined
  <2>2. IsFiniteSet(S \ {x}) /\ Cardinality(S \ {x}) = Cardinality(S) - 1
    BY <1>1, FS_RemoveElement
  <2>3. IsFiniteSet(AheadOf(x, S, B)) /\ Place(x) <= Cardinality(S) - 1
    BY <2>1, <2>2, FS_Subset
  <2>4. Place(x) \in Nat
    BY <2>3, FS_CardinalityType
  <2> HIDE DEF Place, out
  <2>5. Place(x) + 1 \in 1..Cardinality(S) /\ (Place(x) + 1) - 1 = Place(x)
    BY <1>2, <2>3, <2>4
  <2>6. QED
    BY <1>4, <1>6, <2>5
<1>8. \A k, l \in 1..Cardinality(S) : k < l =>
          out[k].score >= out[l].score /\ out[k].id # out[l].id
  <2> SUFFICES ASSUME NEW k \in 1..Cardinality(S), NEW l \in 1..Cardinality(S), k < l
               PROVE  out[k].score >= out[l].score /\ out[k].id # out[l].id
    OBVIOUS
  <2> HIDE DEF Place, out
  <2>1. out[k] \in S /\ out[l] \in S /\ Place(out[k]) < Place(out[l])
    BY <1>2, <1>4
  <2>2. out[k] # out[l] /\ <<out[l], out[k]>> \notin B
    BY <1>2, <1>4, <1>5, <2>1
  <2>3. <<out[k], out[l]>> \in B
    BY <1>1, <2>1, <2>2 DEF Lined
  <2>4. out[k].score >= out[l].score
    BY <1>1, <2>1, <2>3 DEF B, Precedes
  <2>5. QED
    BY <1>1, <2>1, <2>2, <2>4
<1>9. DOMAIN out = 1..Cardinality(S)
  OBVIOUS
<1> HIDE DEF out
<1>10. {out[k] : k \in DOMAIN out} = S
  BY <1>4, <1>7, <1>9
<1>11. QED
  BY <1>2, <1>3, <1>8, <1>9, <1>10 DEF S

LEMMA RankedIsMerge ==
    ASSUME NEW Sources, NEW cs \in Seq(Candidates(Sources)), NEW E,
           Stand(E, Seen(cs, Len(cs)))
    PROVE  IsMergeOf(Ranked(E), cs)
<1> DEFINE out == Ranked(E)
           offered == {c \in Range(cs) : c.id # 0}
           Of(i) == {c \in offered : c.id = i}
<1>1. offered = Seen(cs, Len(cs))
  BY DEF Range, Seen
<1>2. \A i : Of(i) = SeenOf(offered, i)
  BY DEF SeenOf
<1>3. \A c \in offered : c \in Candidates(Sources)
  BY DEF Range
<1> HIDE DEF offered, Of
<1>4. /\ DOMAIN E = {c.id : c \in offered}
      /\ \A i \in DOMAIN E : StandsFor(E[i], i, Of(i))
  BY <1>1, <1>2 DEF Stand
<1>5. /\ {out[k] : k \in DOMAIN out} = Lines(E)
      /\ \A k, l \in DOMAIN out : k < l =>
            out[k].score >= out[l].score /\ out[k].id # out[l].id
  BY RankedLines
<1>6. \A x \in Lines(E) : x.id \in DOMAIN E /\ x = Line(E[x.id])
  BY LinesAreLined
<1> HIDE DEF out
<1>7. {out[k].id : k \in DOMAIN out} = {c.id : c \in offered}
  <2>1. \A i \in DOMAIN E : Line(E[i]) \in Lines(E) /\ Line(E[i]).id = i
    BY <1>4 DEF Lines, Line, StandsFor
  <2>2. \A k \in DOMAIN out : out[k].id \in DOMAIN E
    BY <1>5, <1>6
  <2>3. \A i \in DOMAIN E : \E k \in DOMAIN out : out[k].id = i
    BY <1>5, <2>1
  <2>4. QED
    BY <1>4, <2>2, <2>3
<1>8. ASSUME NEW k \in DOMAIN out
      PROVE  LET i == out[k].id IN
             /\ out[k].sources = {c.source : c \in Of(i)}
             /\ out[k].score = Max({c.score : c \in Of(i)})
                                 * AgreementBoost(Cardinality(out[k].sources))
             /\ (out[k].mbid = 0) = (\A c \in Of(i) : c.mbid = 0)
             /\ out[k].mbid \in {c.mbid : c \in Of(i)}
  <2> DEFINE i == out[k].id
             e == E[i]
  <2>1. out[k] \in Lines(E)
    BY <1>5
  <2>2. i \in DOMAIN E /\ out[k] = Line(e)
    BY <1>6, <2>1
  <2>3. StandsFor(e, i, Of(i))
    BY <1>4, <2>2
  <2>4. /\ Line(e).sources = e.sources /\ Line(e).mbid = e.mbid
        /\ Line(e).score = e.peak * AgreementBoost(Cardinality(e.sources))
    BY DEF Line
  <2> HIDE DEF i, e
  <2>5. e.peak = Max({c.score : c \in Of(i)})
    <3> DEFINE X == {c.score : c \in Of(i)}
    <3>1. /\ e.peak \in Nat /\ e.peak \in X /\ \A x \in X : x <= e.peak
      BY <2>3 DEF StandsFor
    <3>2. \A x \in X : x \in Nat
      BY <1>2, <1>3 DEF Candidates, SeenOf
    <3> HIDE DEF X
    <3>3. \A x \in X : (\A y \in X : x >= y) <=> x = e.peak
      BY <3>1, <3>2
    <3>4. Max(X) = CHOOSE x \in X : \A y \in X : x >= y
      BY DEF Max
    <3>5. Max(X) = e.peak
      BY <3>1, <3>3, <3>4
    <3>6. QED
      BY <3>5 DEF X
  <2>6. /\ e.sources = {c.source : c \in Of(i)}
        /\ (e.mbid = 0) = (\A c \in Of(i) : c.mbid = 0)
        /\ e.mbid \in {c.mbid : c \in Of(i)}
    BY <2>3 DEF StandsFor
  <2>7. QED
    BY <2>2, <2>4, <2>5, <2>6 DEF i
<1>9. QED
  BY <1>5, <1>7, <1>8 DEF IsMergeOf, out, offered, Of

(* merge.ts: whatever two shelves offer and in whatever order, the merge of *)
(* tracks and that of artists lose nothing, keep every known MBID, count    *)
(* the sources that agree and rank by the result.                           *)
THEOREM MergesLoseNothing ==
    /\ \A Sources : \A cs \in Seq(Candidates(Sources)) :
          IsMergeOf(MergeTracks(cs), cs) /\ IsMergeOf(MergeArtists(cs), cs)
    /\ MCSpec => []MergeIsRight
<1> DEFINE Given == cands \in Seq(Candidates({"a", "b"}))
<1>1. ASSUME NEW Sources, NEW cs \in Seq(Candidates(Sources))
      PROVE  IsMergeOf(MergeTracks(cs), cs) /\ IsMergeOf(MergeArtists(cs), cs)
  BY <1>1, EntriesStand, RankedIsMerge DEF MergeTracks, MergeArtists
<1>2. MCInit => Given
  <2> SUFFICES ASSUME MCInit PROVE Given
    OBVIOUS
  <2>1. cands \in BoundedSeq(Offered, 3) \/ cands = <<>>
    BY DEF MCInit
  <2>2. BoundedSeq(Offered, 3) \subseteq Seq(Candidates({"a", "b"}))
    <3>1. \A c \in Offered : c \in Candidates({"a", "b"})
      BY DEF Offered, Candidates
    <3> SUFFICES ASSUME NEW s \in BoundedSeq(Offered, 3) PROVE s \in Seq(Candidates({"a", "b"}))
      OBVIOUS
    <3>2. 0..3 \subseteq Nat
      OBVIOUS
    <3>3. PICK k \in Nat : s \in [1..k -> Offered]
      BY <3>2, Zenon DEF BoundedSeq, SeqOf
    <3>4. QED
      BY <3>1, <3>3
  <2>3. <<>> \in Seq(Candidates({"a", "b"}))
    OBVIOUS
  <2>4. QED
    BY <2>1, <2>2, <2>3, Zenon
<1>3. Given /\ [MCNext]_<<feedAll, part, catVars, adapters, concerts, pages>> => Given'
  <2>1. MCNext => cands' = cands
    BY Zenon DEF MCNext, catVars
  <2>2. QED
    BY <2>1 DEF catVars
<1>4. Given => MergeIsRight
  BY <1>1, Zenon DEF MergeIsRight
<1>5. MCSpec => []MergeIsRight
  <2> HIDE DEF Given
  <2> QED
    BY <1>2, <1>3, <1>4, PTL DEF MCSpec
<1>6. QED
  BY <1>1, <1>5

-----------------------------------------------------------------------------
(* What a filter keeps, and a list of lists holds.                         *)

(* f collects, step by step, those of s whose index is in T.               *)
Keeps(f, s, T, n) ==
    f = [k \in 0..n |-> IF k = 0 THEN <<>>
                        ELSE IF k \in T THEN Append(f[k - 1], s[k]) ELSE f[k - 1]]

Picked(s, T, n) == {s[k] : k \in T \cap 1..n}

LEMMA KeptExist ==
    ASSUME NEW s, NEW T, NEW n \in Nat
    PROVE  \E f : Keeps(f, s, T, n)
<1> DEFINE Exists(m) == \E f : f = [k \in 0..m |-> IF k = 0 THEN <<>>
                                      ELSE IF k \in T THEN Append(f[k - 1], s[k]) ELSE f[k - 1]]
           Bad == {m \in Nat : ~Exists(m)}
<1>1. Exists(0)
  <2>1. [k \in 0..0 |-> <<>>] = [k \in 0..0 |-> IF k = 0 THEN <<>>
           ELSE IF k \in T THEN Append([j \in 0..0 |-> <<>>][k - 1], s[k])
           ELSE [j \in 0..0 |-> <<>>][k - 1]]
    OBVIOUS
  <2>2. QED
    BY <2>1
<1>2. ASSUME NEW m \in Nat \ {0}, Exists(m - 1)
      PROVE  Exists(m)
  <2>1. PICK f : f = [k \in 0..(m - 1) |-> IF k = 0 THEN <<>>
                        ELSE IF k \in T THEN Append(f[k - 1], s[k]) ELSE f[k - 1]]
    BY <1>2
  <2> DEFINE g == [k \in 0..m |-> IF k # m THEN f[k]
                                  ELSE IF m \in T THEN Append(f[m - 1], s[m]) ELSE f[m - 1]]
  <2>2. \A k \in 0..m : g[k] = IF k = 0 THEN <<>>
                               ELSE IF k \in T THEN Append(g[k - 1], s[k]) ELSE g[k - 1]
    <3>1. \A k \in 0..(m - 1) : f[k] = IF k = 0 THEN <<>>
                                  ELSE IF k \in T THEN Append(f[k - 1], s[k]) ELSE f[k - 1]
      BY <2>1
    <3>2. \A k \in 1..m : g[k - 1] = f[k - 1]
      OBVIOUS
    <3>3. QED
      BY <3>1, <3>2
  <2>3. g = [k \in 0..m |-> IF k = 0 THEN <<>>
                            ELSE IF k \in T THEN Append(g[k - 1], s[k]) ELSE g[k - 1]]
    BY <2>2
  <2>4. QED
    BY <2>3
<1> HIDE DEF Exists
<1>3. Bad = {}
  <2> SUFFICES ASSUME Bad # {} PROVE FALSE
    OBVIOUS
  <2>1. PICK m \in Bad : \A j \in Bad : m <= j
    BY Least
  <2>2. m \in Nat \ {0} /\ m - 1 \in Nat /\ m - 1 \notin Bad
    BY <1>1, <2>1
  <2>3. QED
    BY <1>2, <2>1, <2>2
<1>4. QED
  BY <1>3 DEF Exists, Keeps

LEMMA KeptAre ==
    ASSUME NEW X, NEW n \in Nat, NEW s, \A k \in 1..n : s[k] \in X, NEW T, NEW f, Keeps(f, s, T, n)
    PROVE  f[n] \in Seq(X) /\ Range(f[n]) = Picked(s, T, n)
<1> DEFINE Is(k) == /\ f[k] \in Seq(X)
                    /\ Range(f[k]) = {s[j] : j \in T \cap 1..k}
           Bad == {k \in 0..n : ~Is(k)}
<1>1. f[0] = <<>> /\ \A k \in 1..n : f[k] = IF k \in T THEN Append(f[k - 1], s[k]) ELSE f[k - 1]
  <2>1. \A k \in 0..n : f[k] = IF k = 0 THEN <<>>
                               ELSE IF k \in T THEN Append(f[k - 1], s[k]) ELSE f[k - 1]
    BY DEF Keeps
  <2>2. QED
    BY <2>1
<1>2. Is(0)
  BY <1>1 DEF Range
<1>3. ASSUME NEW k \in 1..n, Is(k - 1)
      PROVE  Is(k)
  <2>1. 1..k = 1..(k - 1) \cup {k} /\ s[k] \in X
    OBVIOUS
  <2>2. CASE k \notin T
    <3>1. f[k] = f[k - 1]
      BY <1>1, <2>2
    <3>2. T \cap 1..k = T \cap 1..(k - 1)
      BY <2>1, <2>2
    <3>3. QED
      BY <1>3, <3>1, <3>2
  <2>3. CASE k \in T
    <3> DEFINE q == f[k - 1]
    <3>1. f[k] = Append(q, s[k]) /\ q \in Seq(X)
      BY <1>1, <1>3, <2>3
    <3>2. Range(q) = {s[j] : j \in T \cap 1..(k - 1)}
      BY <1>3
    <3> HIDE DEF q
    <3>3. /\ Append(q, s[k]) \in Seq(X) /\ DOMAIN Append(q, s[k]) = 1..(Len(q) + 1)
          /\ Append(q, s[k])[Len(q) + 1] = s[k]
          /\ \A i \in 1..Len(q) : Append(q, s[k])[i] = q[i]
          /\ Len(q) \in Nat /\ DOMAIN q = 1..Len(q)
      BY <2>1, <3>1
    <3>4. Range(Append(q, s[k])) = Range(q) \cup {s[k]}
      <4> DEFINE a == Append(q, s[k])
                 m == Len(q)
      <4>1. 1..(m + 1) = 1..m \cup {m + 1} /\ m + 1 \notin 1..m
        BY <3>3
      <4>2. /\ DOMAIN a = 1..m \cup {m + 1} /\ DOMAIN q = 1..m
            /\ a[m + 1] = s[k] /\ \A i \in 1..m : a[i] = q[i]
        BY <3>3, <4>1
      <4> HIDE DEF a, m
      <4>3. Range(a) = Range(q) \cup {s[k]}
        BY <4>2 DEF Range
      <4>4. QED
        BY <4>3 DEF a
    <3>5. {s[j] : j \in T \cap 1..k} = {s[j] : j \in T \cap 1..(k - 1)} \cup {s[k]}
      BY <2>1, <2>3
    <3>6. Range(f[k]) = {s[j] : j \in T \cap 1..k}
      BY <3>1, <3>2, <3>4, <3>5
    <3>7. f[k] \in Seq(X)
      BY <3>1, <3>3
    <3>8. QED
      BY <3>6, <3>7
  <2>4. QED
    BY <2>2, <2>3
<1> HIDE DEF Is
<1>4. Bad = {}
  <2> SUFFICES ASSUME Bad # {} PROVE FALSE
    OBVIOUS
  <2>0. Bad \in SUBSET Nat
    OBVIOUS
  <2>1. PICK k \in Bad : \A j \in Bad : k <= j
    BY <2>0, Least
  <2>2. k \in 1..n /\ k - 1 \in 0..n /\ k - 1 \notin Bad
    BY <1>2, <2>1
  <2>3. QED
    BY <1>3, <2>1, <2>2
<1>5. Is(n)
  BY <1>4
<1>6. QED
  BY <1>5 DEF Is, Picked

LEMMA JoinedAre ==
    ASSUME NEW X, NEW s \in Seq(X), NEW t \in Seq(X)
    PROVE  s \o t \in Seq(X) /\ Range(s \o t) = Range(s) \cup Range(t)
<1> DEFINE m == Len(s)
           n == Len(t)
           u == s \o t
<1>1. /\ m \in Nat /\ n \in Nat /\ DOMAIN s = 1..m /\ DOMAIN t = 1..n
      /\ u \in Seq(X) /\ DOMAIN u = 1..(m + n)
      /\ \A i \in 1..(m + n) : u[i] = IF i <= m THEN s[i] ELSE t[i - m]
  OBVIOUS
<1> HIDE DEF m, n, u
<1>2. \A i \in 1..m : i \in 1..(m + n) /\ u[i] = s[i]
  BY <1>1
<1>3. \A i \in 1..n : i + m \in 1..(m + n) /\ u[i + m] = t[i]
  BY <1>1
<1>4. \A i \in 1..(m + n) : (i \in 1..m /\ u[i] = s[i]) \/ (i - m \in 1..n /\ u[i] = t[i - m])
  BY <1>1
<1>5. Range(u) = Range(s) \cup Range(t)
  <2>1. Range(s) \subseteq Range(u)
    BY <1>1, <1>2 DEF Range
  <2>0. Range(t) \subseteq Range(u)
    <3> SUFFICES ASSUME NEW i \in 1..n PROVE t[i] \in Range(u)
      BY <1>1 DEF Range
    <3>1. QED
      BY <1>1, <1>3 DEF Range
  <2>2. Range(u) \subseteq Range(s) \cup Range(t)
    BY <1>1, <1>4 DEF Range
  <2>3. QED
    BY <2>0, <2>1, <2>2
<1>6. QED
  BY <1>1, <1>5 DEF u

LEMMA FlatExists ==
    ASSUME NEW ss, NEW n \in Nat
    PROVE  \E f : f = [i \in 1..n |-> IF i = 1 THEN ss[i] ELSE f[i - 1] \o ss[i]]
<1> DEFINE Exists(m) == \E f : f = [i \in 1..m |-> IF i = 1 THEN ss[i] ELSE f[i - 1] \o ss[i]]
           Bad == {m \in Nat : ~Exists(m)}
<1>1. Exists(0)
  <2>1. <<>> = [i \in 1..0 |-> IF i = 1 THEN ss[i] ELSE <<>>[i - 1] \o ss[i]]
    OBVIOUS
  <2>2. QED
    BY <2>1
<1>2. ASSUME NEW m \in Nat \ {0}, Exists(m - 1)
      PROVE  Exists(m)
  <2>1. PICK f : f = [i \in 1..(m - 1) |-> IF i = 1 THEN ss[i] ELSE f[i - 1] \o ss[i]]
    BY <1>2
  <2> DEFINE g == [i \in 1..m |-> IF i # m THEN f[i]
                                  ELSE IF m = 1 THEN ss[m] ELSE f[m - 1] \o ss[m]]
  <2>2. \A i \in 1..m : g[i] = IF i = 1 THEN ss[i] ELSE g[i - 1] \o ss[i]
    <3>1. \A i \in 1..(m - 1) : f[i] = IF i = 1 THEN ss[i] ELSE f[i - 1] \o ss[i]
      BY <2>1
    <3>2. \A i \in 1..m : i # 1 => g[i - 1] = f[i - 1]
      OBVIOUS
    <3>3. QED
      BY <3>1, <3>2
  <2>3. g = [i \in 1..m |-> IF i = 1 THEN ss[i] ELSE g[i - 1] \o ss[i]]
    BY <2>2
  <2>4. QED
    BY <2>3
<1> HIDE DEF Exists
<1>3. Bad = {}
  <2> SUFFICES ASSUME Bad # {} PROVE FALSE
    OBVIOUS
  <2>1. PICK m \in Bad : \A j \in Bad : m <= j
    BY Least
  <2>2. m \in Nat \ {0} /\ m - 1 \in Nat /\ m - 1 \notin Bad
    BY <1>1, <2>1
  <2>3. QED
    BY <1>2, <2>1, <2>2
<1>4. QED
  BY <1>3 DEF Exists

LEMMA FlatAre ==
    ASSUME NEW X, NEW ss \in Seq(Seq(X))
    PROVE  /\ FlattenSeq(ss) \in Seq(X)
           /\ Range(FlattenSeq(ss)) = UNION {Range(ss[i]) : i \in DOMAIN ss}
<1> DEFINE n == Len(ss)
           f == CHOOSE f : f = [i \in 1..n |-> IF i = 1 THEN ss[i] ELSE f[i - 1] \o ss[i]]
           Is(k) == /\ f[k] \in Seq(X)
                    /\ Range(f[k]) = UNION {Range(ss[i]) : i \in 1..k}
           Bad == {k \in 1..n : ~Is(k)}
<1>1. n \in Nat /\ DOMAIN ss = 1..n /\ \A i \in 1..n : ss[i] \in Seq(X)
  OBVIOUS
<1>2. FlattenSeq(ss) = IF n = 0 THEN ss ELSE f[n]
  BY DEF FlattenSeq
<1>3. CASE n = 0
  BY <1>1, <1>2, <1>3 DEF Range
<1> HIDE DEF n
<1>4. f = [i \in 1..n |-> IF i = 1 THEN ss[i] ELSE f[i - 1] \o ss[i]]
  BY <1>1, FlatExists
<1> HIDE DEF f
<1>5. \A i \in 1..n : f[i] = IF i = 1 THEN ss[i] ELSE f[i - 1] \o ss[i]
  BY <1>4
<1>6. CASE n # 0
  <2>1. Is(1)
    <3>1. f[1] = ss[1] /\ ss[1] \in Seq(X) /\ 1..1 = {1}
      BY <1>1, <1>5, <1>6
    <3>2. QED
      BY <3>1
  <2>2. ASSUME NEW k \in 2..n, Is(k - 1)
        PROVE  Is(k)
    <3>0. k \in 1..n /\ k # 1
      BY <1>1
    <3>1. f[k] = f[k - 1] \o ss[k] /\ ss[k] \in Seq(X) /\ f[k - 1] \in Seq(X)
      BY <1>1, <1>5, <2>2, <3>0
    <3>2. f[k] \in Seq(X) /\ Range(f[k]) = Range(f[k - 1]) \cup Range(ss[k])
      BY <3>1, JoinedAre
    <3>3. 1..k = 1..(k - 1) \cup {k}
      BY <1>1
    <3>4. UNION {Range(ss[i]) : i \in 1..k}
            = (UNION {Range(ss[i]) : i \in 1..(k - 1)}) \cup Range(ss[k])
      BY <3>3
    <3>5. QED
      BY <2>2, <3>2, <3>4
  <2> HIDE DEF Is
  <2>3. Bad = {}
    <3> SUFFICES ASSUME Bad # {} PROVE FALSE
      OBVIOUS
    <3>0. Bad \in SUBSET Nat
      BY <1>1
    <3>1. PICK k \in Bad : \A j \in Bad : k <= j
      BY <3>0, Least
    <3>2. k \in 2..n /\ k - 1 \in 1..n /\ k - 1 \notin Bad
      BY <1>1, <2>1, <3>1
    <3>3. QED
      BY <2>2, <3>1, <3>2
  <2>4. Is(n)
    BY <1>1, <1>6, <2>3
  <2>5. QED
    BY <1>1, <1>2, <1>6, <2>4 DEF Is
<1>7. QED
  BY <1>3, <1>6

(* Lists of anything.                                                      *)
IsList(s) == s \in Seq(Range(s))

LEMMA ListOf ==
    ASSUME NEW X, NEW s \in Seq(X)
    PROVE  IsList(s) /\ Range(s) \subseteq X /\ DOMAIN s = 1..Len(s) /\ Len(s) \in Nat
<1>1. /\ DOMAIN s = 1..Len(s) /\ Len(s) \in Nat /\ \A i \in 1..Len(s) : s[i] \in X
      /\ s = [i \in 1..Len(s) |-> s[i]]
  OBVIOUS
<1>2. \A i \in 1..Len(s) : s[i] \in Range(s)
  BY <1>1 DEF Range
<1>3. s \in Seq(Range(s))
  BY <1>1, <1>2
<1>4. QED
  BY <1>1, <1>3 DEF Range, IsList

LEMMA ListIn ==
    ASSUME NEW s, IsList(s), NEW X, Range(s) \subseteq X
    PROVE  s \in Seq(X)
  BY DEF IsList

LEMMA ShortLists ==
    /\ IsList(<<>>) /\ Range(<<>>) = {}
    /\ \A x : IsList(<<x>>) /\ Range(<<x>>) = {x}
<1>1. <<>> \in Seq({}) /\ Range(<<>>) = {}
  BY DEF Range
<1>2. ASSUME NEW x
      PROVE  IsList(<<x>>) /\ Range(<<x>>) = {x}
  <2>1. Range(<<x>>) = {x}
    BY DEF Range
  <2>2. QED
    BY <2>1 DEF IsList
<1>3. QED
  BY <1>1, <1>2 DEF IsList

LEMMA JoinedLists ==
    ASSUME NEW s, NEW t, IsList(s), IsList(t)
    PROVE  IsList(s \o t) /\ Range(s \o t) = Range(s) \cup Range(t)
<1> DEFINE X == Range(s) \cup Range(t)
<1>1. s \in Seq(X) /\ t \in Seq(X)
  BY ListIn
<1>2. s \o t \in Seq(X) /\ Range(s \o t) = X
  BY <1>1, JoinedAre
<1>3. QED
  BY <1>2 DEF IsList

LEMMA FlatLists ==
    ASSUME NEW n \in Nat, NEW ss, ss = [i \in 1..n |-> ss[i]], \A i \in 1..n : IsList(ss[i])
    PROVE  /\ IsList(FlattenSeq(ss))
           /\ Range(FlattenSeq(ss)) = UNION {Range(ss[i]) : i \in 1..n}
<1> DEFINE X == UNION {Range(ss[i]) : i \in 1..n}
<1>1. \A i \in 1..n : ss[i] \in Seq(X)
  <2> SUFFICES ASSUME NEW i \in 1..n PROVE ss[i] \in Seq(X)
    OBVIOUS
  <2>1. Range(ss[i]) \subseteq X
    OBVIOUS
  <2>2. IsList(ss[i])
    OBVIOUS
  <2> HIDE DEF X
  <2>3. QED
    BY <2>1, <2>2, ListIn
<1> HIDE DEF X
<1>2. ss \in Seq(Seq(X)) /\ DOMAIN ss = 1..n
  BY <1>1
<1>3. FlattenSeq(ss) \in Seq(X) /\ Range(FlattenSeq(ss)) = UNION {Range(ss[i]) : i \in DOMAIN ss}
  BY <1>2, FlatAre
<1>4. UNION {Range(ss[i]) : i \in DOMAIN ss} = X
  BY <1>2 DEF X
<1>5. QED
  BY <1>3, <1>4, ListOf DEF X

-----------------------------------------------------------------------------
(* blend.ts: the shelves.                                                  *)

Shown == {"made_for_you", "because_you_like", "daily_mix"}

LEMMA RecommendedAre ==
    ASSUME NEW s, IsList(s)
    PROVE  /\ IsList(Recommended(s))
           /\ Range(Recommended(s)) = {x \in Range(s) : x.kind \in Shown}
<1> DEFINE X == Range(s)
           n == Len(s)
           T == {k \in 1..n : s[k].kind \in Shown}
           f == CHOOSE f : f = [k \in 0..n |->
                    IF k = 0 THEN <<>>
                    ELSE IF s[k].kind \in {"made_for_you", "because_you_like", "daily_mix"}
                    THEN Append(f[k - 1], s[k]) ELSE f[k - 1]]
<1>1. n \in Nat /\ DOMAIN s = 1..n /\ \A k \in 1..n : s[k] \in X
  BY DEF IsList
<1>2. Recommended(s) = f[n]
  BY DEF Recommended, Filtered
<1> HIDE DEF X, n
<1>3. \A g : [k \in 0..n |-> IF k = 0 THEN <<>>
                 ELSE IF s[k].kind \in {"made_for_you", "because_you_like", "daily_mix"}
                 THEN Append(g[k - 1], s[k]) ELSE g[k - 1]]
             = [k \in 0..n |-> IF k = 0 THEN <<>>
                 ELSE IF k \in T THEN Append(g[k - 1], s[k]) ELSE g[k - 1]]
  BY <1>1 DEF Shown
<1> HIDE DEF T
<1>4. f = [k \in 0..n |-> IF k = 0 THEN <<>>
                 ELSE IF s[k].kind \in {"made_for_you", "because_you_like", "daily_mix"}
                 THEN Append(f[k - 1], s[k]) ELSE f[k - 1]]
  <2>1. PICK g : Keeps(g, s, T, n)
    BY <1>1, KeptExist
  <2>2. g = [k \in 0..n |-> IF k = 0 THEN <<>>
                 ELSE IF s[k].kind \in {"made_for_you", "because_you_like", "daily_mix"}
                 THEN Append(g[k - 1], s[k]) ELSE g[k - 1]]
    BY <1>3, <2>1 DEF Keeps
  <2>3. QED
    BY <2>2
<1> HIDE DEF f
<1>5. Keeps(f, s, T, n)
  BY <1>3, <1>4 DEF Keeps
<1>6. f[n] \in Seq(X) /\ Range(f[n]) = Picked(s, T, n)
  BY <1>1, <1>5, KeptAre
<1>7. Picked(s, T, n) = {x \in X : x.kind \in Shown}
  BY <1>1 DEF T, X, Range, Picked
<1>8. QED
  BY <1>2, <1>6, <1>7, ListOf DEF X

(* The artists a listener plays most, as far as they can be asked about.   *)
LEMMA SeedsAre ==
    ASSUME NEW X, NEW top \in Seq(X), NEW m \in Nat
    PROVE  /\ Seeds(top, m) \in Seq(X)
           /\ \A i \in DOMAIN Seeds(top, m) :
                 Seeds(top, m)[i] \in Range(top) /\ Seeds(top, m)[i].mbid # 0
<1> DEFINE n == Len(top)
           T == {k \in 1..n : top[k].mbid # 0}
           f == CHOOSE f : f = [k \in 0..n |->
                    IF k = 0 THEN <<>>
                    ELSE IF top[k].mbid # 0 THEN Append(f[k - 1], top[k]) ELSE f[k - 1]]
           q == f[n]
<1>1. n \in Nat /\ DOMAIN top = 1..n /\ \A k \in 1..n : top[k] \in X
  OBVIOUS
<1>2. Seeds(top, m) = SubSeq(q, 1, IF Len(q) < m THEN Len(q) ELSE m)
  BY DEF Seeds, Filtered, Take
<1> HIDE DEF n
<1>3. \A g : [k \in 0..n |-> IF k = 0 THEN <<>>
                 ELSE IF top[k].mbid # 0 THEN Append(g[k - 1], top[k]) ELSE g[k - 1]]
             = [k \in 0..n |-> IF k = 0 THEN <<>>
                 ELSE IF k \in T THEN Append(g[k - 1], top[k]) ELSE g[k - 1]]
  BY <1>1
<1> HIDE DEF T
<1>4. f = [k \in 0..n |-> IF k = 0 THEN <<>>
                 ELSE IF top[k].mbid # 0 THEN Append(f[k - 1], top[k]) ELSE f[k - 1]]
  <2>1. PICK g : Keeps(g, top, T, n)
    BY <1>1, KeptExist
  <2>2. g = [k \in 0..n |-> IF k = 0 THEN <<>>
                 ELSE IF top[k].mbid # 0 THEN Append(g[k - 1], top[k]) ELSE g[k - 1]]
    BY <1>3, <2>1 DEF Keeps
  <2>3. QED
    BY <2>2
<1> HIDE DEF f
<1>5. Keeps(f, top, T, n)
  BY <1>3, <1>4 DEF Keeps
<1>6. q \in Seq(X) /\ Range(q) = Picked(top, T, n)
  BY <1>1, <1>5, KeptAre
<1> HIDE DEF q
<1>7. \A i \in DOMAIN q : q[i] \in Range(top) /\ q[i].mbid # 0
  <2>1. \A i \in DOMAIN q : q[i] \in Range(q)
    BY DEF Range
  <2>2. \A k \in T : k \in 1..n /\ top[k].mbid # 0
    BY DEF T
  <2>3. QED
    BY <1>1, <1>6, <2>1, <2>2 DEF Range, Picked
<1> DEFINE last == IF Len(q) < m THEN Len(q) ELSE m
<1>8. Len(q) \in Nat /\ last \in Nat /\ last <= Len(q) /\ DOMAIN q = 1..Len(q)
  BY <1>6
<1> HIDE DEF last
<1>9. /\ SubSeq(q, 1, last) \in Seq(X)
      /\ DOMAIN SubSeq(q, 1, last) = 1..last
      /\ \A i \in 1..last : SubSeq(q, 1, last)[i] = q[i] /\ i \in DOMAIN q
  BY <1>6, <1>8
<1>10. QED
  BY <1>2, <1>7, <1>9 DEF last

(* A blend that blames nobody is the one that would be made if nothing     *)
(* failed, unless the similar artists of labs are what is missing.         *)
LEMMA UnblamedIsWhole ==
    ASSUME NEW a, NEW n, NEW F, BuildFeed(a, n, F).unavailable = {},
           \A k \in F : k[1] # "labs-similar"
    PROVE  BuildFeed(a, n, F).sections = BuildFeed(a, n, {}).sections
<1> DEFINE top == TopArtists(a, F)
           picks == MadeForYou(a, F)
           like == BecauseYouLike(top, n, F)
           other == SimilarArtists(top, F)
           mix == DailyMix(a, F)
<1>1. /\ picks.failed = {} /\ like.failed = {} /\ other.failed = {} /\ mix.failed = {}
      /\ KnowsTop(a, F)
  <2>1. BuildFeed(a, n, F).unavailable =
            picks.failed \cup like.failed \cup other.failed \cup mix.failed
              \cup (IF KnowsTop(a, F) THEN {} ELSE {"listenbrainz"})
    BY DEF BuildFeed
  <2> HIDE DEF picks, like, other, mix
  <2>2. QED
    BY <2>1
<1>2. \A k : Has(k, {})
  BY DEF Has
<1>3. \A s, f : Outcome(s, f).sections = s /\ Outcome(s, f).failed = f
  BY DEF Outcome
<1>4. top = TopArtists(a, {}) /\ a # None
  BY <1>1, <1>2 DEF TopArtists, KnowsTop
<1>5. picks.sections = MadeForYou(a, {}).sections
  <2> DEFINE recs == Reads(CfKey(a), Recs[a])
             lost == <<"hydrate">> \in F /\ recs # <<>>
  <2>1. CASE ~Has(CfKey(a), F)
    <3>1. picks = Outcome(<<>>, {"listenbrainz"})
      BY <2>1, Zenon DEF MadeForYou
    <3>2. picks.failed = {"listenbrainz"}
      BY <1>3, <3>1
    <3> HIDE DEF picks
    <3>3. FALSE
      BY <1>1, <3>2
    <3>4. QED
      BY <3>3
  <2>2. CASE Has(CfKey(a), F) /\ lost
    <3>1. a # None
      BY <1>4
    <3>2. picks = Outcome(<<>>, {"musicbrainz"})
      <4>1. Has(CfKey(a), F) /\ <<"hydrate">> \in F /\ recs # <<>>
        BY <2>2
      <4>2. QED
        BY <3>1, <4>1, Zenon DEF MadeForYou
    <3>3. picks.failed = {"musicbrainz"}
      BY <1>3, <3>2
    <3> HIDE DEF picks
    <3>4. FALSE
      BY <1>1, <3>3
    <3>5. QED
      BY <3>4
  <2>3. CASE Has(CfKey(a), F) /\ ~lost
    BY <1>2, <1>4, <2>3 DEF MadeForYou
  <2>4. QED
    BY <2>1, <2>2, <2>3
<1>6. mix.sections = DailyMix(a, {}).sections
  <2>1. CASE ~Has(MixKey(a), F)
    <3>1. mix = Outcome(<<>>, {"listenbrainz"})
      BY <2>1, Zenon DEF DailyMix
    <3>2. QED
      BY <1>1, <1>3, <3>1
  <2>2. CASE Has(MixKey(a), F)
    BY <1>2, <1>4, <2>2 DEF DailyMix
  <2>3. QED
    BY <2>1, <2>2
<1>7. other.sections = SimilarArtists(top, {}).sections
  <2>1. CASE top = <<>>
    BY <2>1 DEF SimilarArtists
  <2>2. CASE top # <<>>
    <3>1. other.failed = IF Lastfm /\ ~Has(SimilarKey(top[1].name), F) THEN {"lastfm"} ELSE {}
      BY <1>3, <2>2, Zenon DEF SimilarArtists
    <3>2. Lastfm => Has(SimilarKey(top[1].name), F)
      BY <1>1, <3>1
    <3>3. Has(LabsKey(top[1].mbid), F)
      BY DEF Has, LabsKey
    <3>4. QED
      BY <1>2, <1>3, <2>2, <3>2, <3>3 DEF SimilarArtists
  <2>3. QED
    BY <2>1, <2>2
<1>8. like.sections = BecauseYouLike(top, n, {}).sections
  <2> DEFINE s == Seeds(top, n)
  <2>1. /\ like.failed = UNION {RadioShelf(s[i], F).failed : i \in DOMAIN s}
        /\ like.sections = FlattenSeq([i \in DOMAIN s |-> RadioShelf(s[i], F).sections])
        /\ BecauseYouLike(top, n, {}).sections
              = FlattenSeq([i \in DOMAIN s |-> RadioShelf(s[i], {}).sections])
    BY <1>3 DEF BecauseYouLike
  <2> HIDE DEF s
  <2>2. \A i \in DOMAIN s : RadioShelf(s[i], F).failed = {}
    BY <1>1, <2>1
  <2>3. \A m : RadioShelf(m, F).failed = {}
                  => RadioShelf(m, F).sections = RadioShelf(m, {}).sections
    <3> SUFFICES ASSUME NEW m, RadioShelf(m, F).failed = {}
                 PROVE  RadioShelf(m, F) = RadioShelf(m, {})
      OBVIOUS
    <3> DEFINE radio == Reads(RadioKey(m.mbid), Radio[m.mbid])
               asks == Lastfm /\ radio # <<>>
    <3>1. Has(RadioKey(m.mbid), F) /\ ~(asks /\ ~Has(EnrichKey(radio[1].id), F))
      BY <1>3 DEF RadioShelf
    <3>2. QED
      BY <1>2, <3>1 DEF RadioShelf
  <2>4. QED
    BY <2>1, <2>2, <2>3
<1>9. BuildFeed(a, n, F).sections = picks.sections \o like.sections \o other.sections \o mix.sections
  BY DEF BuildFeed
<1>10. BuildFeed(a, n, {}).sections
         = MadeForYou(a, {}).sections \o BecauseYouLike(top, n, {}).sections
           \o SimilarArtists(top, {}).sections \o DailyMix(a, {}).sections
  BY <1>4 DEF BuildFeed
<1> HIDE DEF top, picks, like, other, mix
<1>11. QED
  BY <1>5, <1>6, <1>7, <1>8, <1>9, <1>10

(* What the cache holds was answered to a load under its key.              *)
Remembered ==
    \A k \in DOMAIN cache :
       cache[k] = Payload(k, k[2]) \/ (k[1] = "labs-similar" /\ cache[k] = <<>>)

Known == Accounts \cup {None}

(* A shelf of tracks is shown if anything that was offered has a name.     *)
LEMMA MergeShows ==
    ASSUME NEW Sources, NEW cs \in Seq(Candidates(Sources)), NEW m \in Nat
    PROVE  Take(MergeTracks(cs), m) = <<>> <=> m = 0 \/ \A c \in Range(cs) : c.id = 0
<1> DEFINE E == Entries(MergeOne, cs)
           S == Seen(cs, Len(cs))
           s == Ranked(E)
           n == Cardinality(Lines(E))
<1>1. MergeTracks(cs) = s
  BY DEF MergeTracks
<1>2. Stand(E, S)
  BY EntriesStand
<1> HIDE DEF E
<1>3. n \in Nat /\ DOMAIN s = 1..n /\ {s[k] : k \in DOMAIN s} = Lines(E)
  BY <1>2, RankedLines
<1>4. s = [k \in 1..n |-> s[k]]
  BY <1>3 DEF Ranked, Lines, Line
<1>5. n = 0 <=> S = {}
  <2>1. Lines(E) = {} <=> DOMAIN E = {}
    BY DEF Lines
  <2>2. DOMAIN E = {} <=> S = {}
    BY <1>2 DEF Stand
  <2> HIDE DEF S, s
  <2>3. n = 0 <=> Lines(E) = {}
    <3> HIDE DEF n
    <3>1. n = 0 <=> 1..n = {}
      BY <1>3
    <3>2. QED
      BY <1>3, <3>1
  <2>4. QED
    BY <2>1, <2>2, <2>3
<1>6. S = {} <=> \A c \in Range(cs) : c.id = 0
  <2>1. DOMAIN cs = 1..Len(cs)
    OBVIOUS
  <2>2. S = {} <=> \A i \in 1..Len(cs) : cs[i].id = 0
    BY Zenon DEF Seen
  <2>3. (\A c \in Range(cs) : c.id = 0) <=> \A i \in DOMAIN cs : cs[i].id = 0
    BY Zenon DEF Range
  <2>4. QED
    BY <2>1, <2>2, <2>3
<1> HIDE DEF s, n, S
<1>7. s \in Seq({s[k] : k \in 1..n}) /\ Len(s) = n
  BY <1>3, <1>4
<1>8. Take(s, m) = <<>> <=> n = 0 \/ m = 0
  <2> DEFINE last == IF n < m THEN n ELSE m
  <2>1. Take(s, m) = SubSeq(s, 1, last)
    BY <1>7 DEF Take
  <2>2. last \in Nat /\ last <= n /\ (last = 0 <=> n = 0 \/ m = 0)
    BY <1>3
  <2> HIDE DEF last
  <2>3. SubSeq(s, 1, last) \in Seq({s[k] : k \in 1..n}) /\ Len(SubSeq(s, 1, last)) = last
    BY <1>3, <1>7, <2>2
  <2> DEFINE q == SubSeq(s, 1, last)
             X == {s[k] : k \in 1..n}
  <2>4. q \in Seq(X) /\ Len(q) = last
    BY <2>3
  <2> HIDE DEF q, X
  <2>5. q = <<>> <=> Len(q) = 0
    BY <2>4
  <2>6. Take(s, m) = q
    BY <2>1 DEF q
  <2>7. QED
    BY <2>2, <2>4, <2>5, <2>6
<1>9. QED
  BY <1>1, <1>5, <1>6, <1>8

LEMMA SourcedAre ==
    ASSUME NEW Sources, NEW source \in Sources, NEW s \in Seq(Items)
    PROVE  /\ From(source, s) \in Seq(Candidates(Sources))
<1>1. /\ DOMAIN s = 1..Len(s) /\ Len(s) \in Nat /\ \A i \in 1..Len(s) : s[i] \in Items
  OBVIOUS
<1>2. \A i \in 1..Len(s) : [id |-> s[i].id, score |-> s[i].score, mbid |-> s[i].mbid,
                            source |-> source] \in Candidates(Sources)
  BY <1>1 DEF Items, Candidates
<1>3. QED
  BY <1>1, <1>2 DEF From

LEMMA KeysAnswer ==
    ASSUME Remembered
    PROVE  /\ \A m : Reads(RadioKey(m), Radio[m]) = Radio[m]
           /\ \A t : Reads(EnrichKey(t), Enrich[t]) = Enrich[t]
           /\ \A a : Reads(TopKey(a), Top[a]) = Top[a]
<1>1. \A m : Payload(RadioKey(m), m) = Radio[m]
  BY DEF Payload, RadioKey
<1>2. \A t : Payload(EnrichKey(t), t) = Enrich[t]
  BY DEF Payload, EnrichKey
<1>3. \A a : Payload(TopKey(a), a) = Top[a]
  BY DEF Payload, TopKey
<1>4. QED
  BY <1>1, <1>2, <1>3 DEF Remembered, Reads, RadioKey, EnrichKey, TopKey

(* The shelf of one artist: an outage can only lose it.                    *)
LEMMA ShelfOfSeed ==
    ASSUME Remembered, NEW a \in Accounts, NEW m \in Range(Top[a]), m.mbid # 0, NEW F
    PROVE  /\ IsList(RadioShelf(m, F).sections)
           /\ \A x \in Range(RadioShelf(m, F).sections) :
                \E y \in Range(RadioShelf(m, {}).sections) :
                   y.kind = x.kind /\ y.seed = x.seed
<1> DEFINE radio == Radio[m.mbid]
           asks == Lastfm /\ radio # <<>>
           key == EnrichKey(radio[1].id)
           extra(G) == IF asks /\ Has(key, G) THEN Enrich[radio[1].id] ELSE <<>>
           cs(G) == From("radio", radio) \o From("lastfm", extra(G))
           shelf(G) == Shelf("because_you_like", m.name, Take(MergeTracks(cs(G)), Limit))
<1>1. /\ Reads(RadioKey(m.mbid), Radio[m.mbid]) = radio
      /\ Reads(key, Enrich[radio[1].id]) = Enrich[radio[1].id]
  BY KeysAnswer
<1>2. \A k : Has(k, {})
  BY DEF Has
<1>3. \A s, f : Outcome(s, f).sections = s
  BY DEF Outcome
<1>4. /\ Limit \in Nat /\ radio \in Seq(Items)
      /\ radio # <<>> => Enrich[radio[1].id] \in Seq(Items)
  BY ProviderData DEF Range
<1>5. \A G : extra(G) \in Seq(Items)
  BY <1>4
<1>6. \A G : Has(RadioKey(m.mbid), G) => RadioShelf(m, G).sections = shelf(G)
  <2> SUFFICES ASSUME NEW G, Has(RadioKey(m.mbid), G) PROVE RadioShelf(m, G).sections = shelf(G)
    OBVIOUS
  <2>1. RadioShelf(m, G) = Outcome(shelf(G), IF asks /\ ~Has(key, G) THEN {"lastfm"} ELSE {})
    BY <1>1, Zenon DEF RadioShelf
  <2>2. QED
    BY <1>3, <2>1
<1>7. ~Has(RadioKey(m.mbid), F) => RadioShelf(m, F).sections = <<>>
  BY <1>3, Zenon DEF RadioShelf
<1> DEFINE Sources == {"radio", "lastfm"}
<1>8. ASSUME NEW G
      PROVE  /\ cs(G) \in Seq(Candidates(Sources))
             /\ Range(cs(G)) = Range(From("radio", radio)) \cup Range(From("lastfm", extra(G)))
  <2>1. extra(G) \in Seq(Items)
    BY <1>5
  <2> HIDE DEF extra, radio
  <2>2. /\ From("radio", radio) \in Seq(Candidates(Sources))
        /\ From("lastfm", extra(G)) \in Seq(Candidates(Sources))
    BY <1>4, <2>1, SourcedAre
  <2>3. QED
    BY <2>2, JoinedAre
<1>9. Range(cs(F)) \subseteq Range(cs({}))
  <2>1. extra(F) = <<>> \/ extra(F) = extra({})
    BY <1>2
  <2>2. Range(From("lastfm", <<>>)) = {}
    BY DEF Range, From
  <2> HIDE DEF extra, radio, cs
  <2>3. QED
    BY <1>8, <2>1, <2>2
<1> HIDE DEF cs, extra, radio
<1>10. \A G : Take(MergeTracks(cs(G)), Limit) = <<>>
                 <=> Limit = 0 \/ \A c \in Range(cs(G)) : c.id = 0
  BY <1>4, <1>8, MergeShows
<1>11. Take(MergeTracks(cs(F)), Limit) # <<>> => Take(MergeTracks(cs({})), Limit) # <<>>
  BY <1>9, <1>10
<1>12. \A items : items # <<>> =>
         /\ IsList(Shelf("because_you_like", m.name, items))
         /\ Range(Shelf("because_you_like", m.name, items))
              = {[kind |-> "because_you_like", seed |-> m.name, items |-> items]}
  BY ShortLists DEF Shelf
<1>13. Shelf("because_you_like", m.name, <<>>) = <<>>
  BY DEF Shelf
<1>14. CASE RadioShelf(m, F).sections = <<>>
  BY <1>14, ShortLists
<1>15. CASE RadioShelf(m, F).sections # <<>>
  <2> DEFINE items(G) == Take(MergeTracks(cs(G)), Limit)
             line(G) == [kind |-> "because_you_like", seed |-> m.name, items |-> items(G)]
  <2>1. /\ RadioShelf(m, F).sections = shelf(F)
        /\ RadioShelf(m, {}).sections = shelf({})
    BY <1>2, <1>6, <1>7, <1>15
  <2>2. items(F) # <<>> /\ items({}) # <<>>
    BY <1>11, <1>13, <1>15, <2>1
  <2> HIDE DEF items
  <2>3. /\ IsList(shelf(F))
        /\ Range(shelf(F)) = {line(F)} /\ Range(shelf({})) = {line({})}
    BY <1>12, <2>2 DEF items
  <2> HIDE DEF shelf
  <2>4. line(F).kind = line({}).kind /\ line(F).seed = line({}).seed
    OBVIOUS
  <2> HIDE DEF line
  <2>5. QED
    BY <2>1, <2>3, <2>4
<1>16. QED
  BY <1>14, <1>15

(* An outage loses shelves of a recommendation, and adds none.             *)
LEMMA NothingAdded ==
    ASSUME Remembered, NEW a \in Known, NEW n \in Nat, NEW F
    PROVE  Kinds(Recommended(BuildFeed(a, n, F).sections))
             \subseteq Kinds(Recommended(BuildFeed(a, n, {}).sections))
<1> DEFINE top(G) == TopArtists(a, G)
           s(G) == Seeds(top(G), n)
           parts(G) == <<MadeForYou(a, G).sections, BecauseYouLike(top(G), n, G).sections,
                         SimilarArtists(top(G), G).sections, DailyMix(a, G).sections>>
           Shows(p, q) == \A x \in Range(p) : x.kind \in Shown =>
                             \E y \in Range(q) : y.kind = x.kind /\ y.seed = x.seed
<1>1. \A f, g : Outcome(f, g).sections = f
  BY DEF Outcome
<1>2. \A k : Has(k, {})
  BY DEF Has
<1>3. \A kind, seed, items : /\ IsList(Shelf(kind, seed, items))
                             /\ \A x \in Range(Shelf(kind, seed, items)) : x.kind = kind
  BY ShortLists DEF Shelf
<1>4. \A G : top(G) = IF KnowsTop(a, G) THEN Top[a] ELSE <<>>
  BY KeysAnswer DEF TopArtists
<1>5. /\ Limit \in Nat
      /\ \A G : KnowsTop(a, G) => a \in Accounts /\ Top[a] \in Seq([mbid : Nat, name : Nat])
  BY ProviderData DEF KnowsTop, Known
<1>6. ASSUME NEW G
      PROVE  /\ MadeForYou(a, G).sections \in {<<>>, MadeForYou(a, {}).sections}
             /\ IsList(MadeForYou(a, G).sections)
  <2> DEFINE recs == Reads(CfKey(a), Recs[a])
             shelf == Shelf("made_for_you", 0,
                        Take(MergeTracks(From("cf", Filtered(recs, LAMBDA c : c.mbid \in warm))),
                             Limit))
  <2>1. CASE a = None \/ ~Has(CfKey(a), G) \/ (<<"hydrate">> \in G /\ recs # <<>>)
    <3>1. MadeForYou(a, G).sections = <<>>
      BY <1>1, <2>1, Zenon DEF MadeForYou
    <3>2. QED
      BY <3>1, ShortLists
  <2>2. CASE ~(a = None \/ ~Has(CfKey(a), G) \/ (<<"hydrate">> \in G /\ recs # <<>>))
    <3>1. MadeForYou(a, G).sections = shelf
      BY <1>1, <2>2, Zenon DEF MadeForYou
    <3>2. MadeForYou(a, {}).sections = shelf
      BY <1>1, <1>2, <2>2 DEF MadeForYou
    <3>3. QED
      BY <1>3, <3>1, <3>2
  <2>3. QED
    BY <2>1, <2>2
<1>7. ASSUME NEW G
      PROVE  /\ DailyMix(a, G).sections \in {<<>>, DailyMix(a, {}).sections}
             /\ IsList(DailyMix(a, G).sections)
  <2> DEFINE shelf == Shelf("daily_mix", 0, Reads(MixKey(a), Mixes[a]))
  <2>1. CASE a = None \/ ~Has(MixKey(a), G)
    <3>1. DailyMix(a, G).sections = <<>>
      BY <1>1, <2>1, Zenon DEF DailyMix
    <3>2. QED
      BY <3>1, ShortLists
  <2>2. CASE ~(a = None \/ ~Has(MixKey(a), G))
    <3>1. DailyMix(a, G).sections = shelf /\ DailyMix(a, {}).sections = shelf
      BY <1>1, <1>2, <2>2, Zenon DEF DailyMix
    <3>2. QED
      BY <1>3, <3>1
  <2>3. QED
    BY <2>1, <2>2
<1>8. ASSUME NEW G
      PROVE  /\ IsList(SimilarArtists(top(G), G).sections)
             /\ \A x \in Range(SimilarArtists(top(G), G).sections) : x.kind = "connections"
  <2> HIDE DEF top
  <2>1. CASE top(G) = <<>>
    <3>1. SimilarArtists(top(G), G).sections = <<>>
      BY <1>1, <2>1, Zenon DEF SimilarArtists
    <3>2. QED
      BY <3>1, ShortLists
  <2>2. CASE top(G) # <<>>
    <3> DEFINE seed == top(G)[1]
               fromLabs == IF seed.mbid # 0 /\ Has(LabsKey(seed.mbid), G)
                        THEN Reads(LabsKey(seed.mbid), Labs[seed.mbid]) ELSE <<>>
               other == IF Lastfm /\ Has(SimilarKey(seed.name), G)
                        THEN Reads(SimilarKey(seed.name), Similar[seed.name]) ELSE <<>>
               items == Take(MergeArtists(From("labs", fromLabs) \o From("lastfm", other)), Limit)
    <3>1. SimilarArtists(top(G), G).sections = Shelf("connections", seed.name, items)
      BY <1>1, <2>2, Zenon DEF SimilarArtists
    <3> HIDE DEF seed, items
    <3>2. QED
      BY <1>3, <3>1
  <2>3. QED
    BY <2>1, <2>2
<1>9. ASSUME NEW G
      PROVE  /\ DOMAIN s(G) = 1..Len(s(G)) /\ Len(s(G)) \in Nat
             /\ s(G) # <<>> => KnowsTop(a, G)
             /\ \A i \in 1..Len(s(G)) : /\ KnowsTop(a, G)
                                        /\ s(G)[i] \in Range(Top[a]) /\ s(G)[i].mbid # 0
  <2> DEFINE X == [mbid : Nat, name : Nat]
  <2>1. top(G) \in Seq(X) /\ (top(G) # <<>> => KnowsTop(a, G) /\ top(G) = Top[a])
    <3>1. top(G) = IF KnowsTop(a, G) THEN Top[a] ELSE <<>>
      BY <1>4
    <3> HIDE DEF top
    <3>2. CASE KnowsTop(a, G)
      BY <1>5, <3>1, <3>2
    <3>3. CASE ~KnowsTop(a, G)
      BY <3>1, <3>3
    <3>4. QED
      BY <3>2, <3>3
  <2> HIDE DEF X, top
  <2>2. /\ s(G) \in Seq(X)
        /\ \A i \in DOMAIN s(G) : s(G)[i] \in Range(top(G)) /\ s(G)[i].mbid # 0
    BY <2>1, SeedsAre
  <2> HIDE DEF s
  <2>3. DOMAIN s(G) = 1..Len(s(G)) /\ Len(s(G)) \in Nat /\ (Len(s(G)) = 0 => s(G) = <<>>)
    BY <2>2
  <2>4. \A x \in Range(top(G)) : top(G) # <<>>
    BY DEF Range
  <2>5. \A i \in 1..Len(s(G)) : /\ KnowsTop(a, G)
                               /\ s(G)[i] \in Range(Top[a]) /\ s(G)[i].mbid # 0
    BY <2>1, <2>2, <2>3, <2>4
  <2>6. s(G) # <<>> => KnowsTop(a, G)
    <3>1. s(G) # <<>> => 1 \in 1..Len(s(G))
      BY <2>3
    <3>2. QED
      BY <2>5, <3>1
  <2>7. QED
    BY <2>3, <2>5, <2>6
<1> DEFINE like(G) == BecauseYouLike(top(G), n, G).sections
           Shelved(G) == UNION {Range(RadioShelf(s(G)[i], G).sections) : i \in 1..Len(s(G))}
<1>10. ASSUME NEW G
       PROVE  IsList(like(G)) /\ Range(like(G)) = Shelved(G)
  <2> DEFINE ss == [i \in DOMAIN s(G) |-> RadioShelf(s(G)[i], G).sections]
             m == Len(s(G))
  <2>1. like(G) = FlattenSeq(ss)
    BY <1>1, Zenon DEF BecauseYouLike
  <2>2. m \in Nat /\ DOMAIN s(G) = 1..m
    BY <1>9
  <2>3. \A i \in 1..m : ss[i] = RadioShelf(s(G)[i], G).sections
    BY <2>2
  <2>4. \A i \in 1..m : IsList(RadioShelf(s(G)[i], G).sections)
    <3> SUFFICES ASSUME NEW i \in 1..m PROVE IsList(RadioShelf(s(G)[i], G).sections)
      OBVIOUS
    <3>1. a \in Accounts /\ s(G)[i] \in Range(Top[a]) /\ s(G)[i].mbid # 0
      BY <1>5, <1>9
    <3> HIDE DEF s
    <3>2. QED
      BY <3>1, ShelfOfSeed
  <2>5. ss = [i \in 1..m |-> ss[i]]
    BY <2>2
  <2> HIDE DEF ss, m
  <2>6. /\ IsList(FlattenSeq(ss)) /\ Range(FlattenSeq(ss)) = UNION {Range(ss[i]) : i \in 1..m}
    BY <2>2, <2>3, <2>4, <2>5, FlatLists
  <2>7. UNION {Range(ss[i]) : i \in 1..m} = Shelved(G)
    BY <2>3 DEF m
  <2> HIDE DEF like, Shelved
  <2>8. QED
    BY <2>1, <2>6, <2>7
<1>11. Shows(like(F), like({}))
  <2> SUFFICES ASSUME NEW i \in 1..Len(s(F)), NEW x \in Range(RadioShelf(s(F)[i], F).sections)
               PROVE  \E y \in Shelved({}) : y.kind = x.kind /\ y.seed = x.seed
    <3>1. Range(like(F)) = Shelved(F) /\ Range(like({})) = Shelved({})
      BY <1>10
    <3> HIDE DEF like, s
    <3>2. QED
      BY <3>1
  <2>1. KnowsTop(a, F) /\ a \in Accounts /\ s(F)[i] \in Range(Top[a]) /\ s(F)[i].mbid # 0
    BY <1>5, <1>9
  <2>2. KnowsTop(a, {})
    BY <1>2, <2>1 DEF KnowsTop
  <2>3. s({}) = s(F)
    BY <1>4, <2>1, <2>2
  <2> HIDE DEF s
  <2>4. PICK y \in Range(RadioShelf(s(F)[i], {}).sections) : y.kind = x.kind /\ y.seed = x.seed
    BY <2>1, ShelfOfSeed
  <2>5. y \in Shelved({})
    BY <2>3, <2>4
  <2>6. QED
    BY <2>4, <2>5
<1> DEFINE all(G) == BuildFeed(a, n, G).sections
           picks(G) == MadeForYou(a, G).sections
           connections(G) == SimilarArtists(top(G), G).sections
           mix(G) == DailyMix(a, G).sections
<1>12. ASSUME NEW G
       PROVE  /\ IsList(all(G))
              /\ Range(all(G)) = Range(picks(G)) \cup Range(like(G))
                                   \cup Range(connections(G)) \cup Range(mix(G))
  <2>1. all(G) = picks(G) \o like(G) \o connections(G) \o mix(G)
    BY DEF BuildFeed
  <2>2. IsList(picks(G)) /\ IsList(like(G)) /\ IsList(connections(G)) /\ IsList(mix(G))
    BY <1>6, <1>7, <1>8, <1>10
  <2> HIDE DEF all, picks, like, connections, mix
  <2>3. /\ IsList(picks(G) \o like(G))
        /\ Range(picks(G) \o like(G)) = Range(picks(G)) \cup Range(like(G))
    BY <2>2, JoinedLists
  <2>4. /\ IsList(picks(G) \o like(G) \o connections(G))
        /\ Range(picks(G) \o like(G) \o connections(G))
              = Range(picks(G)) \cup Range(like(G)) \cup Range(connections(G))
    BY <2>2, <2>3, JoinedLists
  <2>5. /\ IsList(picks(G) \o like(G) \o connections(G) \o mix(G))
        /\ Range(picks(G) \o like(G) \o connections(G) \o mix(G))
              = Range(picks(G)) \cup Range(like(G)) \cup Range(connections(G)) \cup Range(mix(G))
    BY <2>2, <2>4, JoinedLists
  <2>6. QED
    BY <2>1, <2>5
<1>13. Shows(all(F), all({}))
  <2>1. /\ Range(picks(F)) \subseteq Range(picks({}))
        /\ Range(mix(F)) \subseteq Range(mix({}))
    BY <1>6, <1>7, ShortLists
  <2>2. \A x \in Range(connections(F)) : x.kind \notin Shown
    BY <1>8 DEF Shown
  <2> HIDE DEF all, picks, like, connections, mix
  <2>3. QED
    BY <1>11, <1>12, <2>1, <2>2
<1> HIDE DEF all
<1>14. ASSUME NEW p, IsList(p)
       PROVE  Kinds(Recommended(p)) = {<<x.kind, x.seed>> : x \in {y \in Range(p) : y.kind \in Shown}}
  <2> DEFINE q == Recommended(p)
  <2>1. Range(q) = {y \in Range(p) : y.kind \in Shown}
    BY <1>14, RecommendedAre
  <2> HIDE DEF q
  <2>2. Kinds(q) = {<<x.kind, x.seed>> : x \in Range(q)}
    BY DEF Kinds, Range
  <2>3. QED
    BY <2>1, <2>2 DEF q
<1>15. ASSUME NEW p, NEW q, IsList(p), IsList(q), Shows(p, q)
       PROVE  Kinds(Recommended(p)) \subseteq Kinds(Recommended(q))
  <2>1. ASSUME NEW x \in {y \in Range(p) : y.kind \in Shown}
        PROVE  <<x.kind, x.seed>> \in Kinds(Recommended(q))
    <3>1. PICK y \in Range(q) : y.kind = x.kind /\ y.seed = x.seed
      BY <1>15
    <3>2. <<y.kind, y.seed>> \in Kinds(Recommended(q))
      BY <1>14, <1>15, <3>1
    <3>3. QED
      BY <3>1, <3>2
  <2>2. Kinds(Recommended(p)) = {<<x.kind, x.seed>> : x \in {y \in Range(p) : y.kind \in Shown}}
    BY <1>14, <1>15
  <2>3. QED
    BY <2>1, <2>2
<1>16. IsList(all(F)) /\ IsList(all({}))
  BY <1>12
<1> HIDE DEF Shows
<1>17. QED
  BY <1>13, <1>15, <1>16 DEF all

-----------------------------------------------------------------------------
(* services/discovery.ts: the requests that make the blends.               *)

(* Accounts are those of the provider, wherever they are kept.             *)
Held ==
    /\ \A r \in rows \cup returned : r.account \in Accounts
    /\ DOMAIN task = Users
    /\ \A u \in Users : task[u].at # "free" => task[u].account \in Accounts

(* A request under way has an account, or none at all.                     *)
Carried ==
    /\ DOMAIN req = Users /\ DOMAIN resp = Users
    /\ \A u \in Users : req[u].at = "calls" => req[u].acct \in Known

FeedInv == Held /\ Carried /\ Remembered /\ DegradationIsHonest

LEMMA ConnHolds ==
    ASSUME Held, ConnNext
    PROVE  Held'
<1>1. ASSUME NEW u \in Users, UNCHANGED <<rows, returned>>, NEW t,
             task' = [task EXCEPT ![u] = t], t.at # "free" => t.account \in Accounts
      PROVE  Held'
  BY <1>1 DEF Held
<1>2. Free.at = "free"
  BY DEF Free
<1>3. ASSUME NEW u \in Users, Exchange(u) PROVE Held'
  <2>1. CASE task' = [task EXCEPT ![u] = Free]
    BY <1>1, <1>2, <1>3, <2>1 DEF Exchange
  <2>2. CASE task' = [task EXCEPT ![u].at = "store"]
    BY <1>3, <2>2 DEF Exchange, Held
  <2>3. QED
    BY <1>3, <2>1, <2>2 DEF Exchange
<1>4. ASSUME NEW u \in Users, Store(u) PROVE Held'
  <2>1. task' = [task EXCEPT ![u] = Free] /\ returned' = returned
    BY <1>4 DEF Store
  <2>2. \A r \in rows' : r.account \in Accounts
    BY <1>4 DEF Store, Held
  <2>3. QED
    BY <1>2, <2>1, <2>2 DEF Held
<1>5. ASSUME NEW u \in Users, Callback(u) PROVE Held'
  <2>1. PICK r \in returned :
          task' = [task EXCEPT ![u] = [at |-> "exchange", state |-> r.state,
                                       provider |-> "lastfm", account |-> r.account]]
    BY <1>5 DEF Callback
  <2>2. UNCHANGED <<rows, returned>>
    BY <1>5 DEF Callback
  <2>3. r.account \in Accounts
    BY DEF Held
  <2>4. QED
    BY <1>1, <2>1, <2>2, <2>3
<1>6. ASSUME NEW u \in Users, NEW a \in Accounts, Paste(u, a) PROVE Held'
  BY <1>1, <1>6 DEF Paste
<1>7. ASSUME NEW u \in Users, NEW p, Disconnect(u, p) PROVE Held'
  BY <1>7 DEF Disconnect, Held
<1>8. ASSUME NEW i, NEW a \in Accounts, Authorize(i, a) PROVE Held'
  BY <1>8 DEF Authorize, Held
<1>9. ASSUME NEW u \in Users, StartConnect(u) PROVE Held'
  BY <1>9 DEF StartConnect, Held
<1>10. ASSUME ExpireState \/ Rotate PROVE Held'
  BY <1>10 DEF ExpireState, Rotate, Held
<1>11. QED
  BY <1>3, <1>4, <1>5, <1>6, <1>7, <1>8, <1>9, <1>10 DEF ConnNext, LinkNext

(* What a load is cached as does not depend on who asked.                  *)
LEMMA KeysSayWhose ==
    /\ \A a, b : /\ Payload(TopKey(a), a) = Payload(TopKey(a), TopKey(a)[2])
                 /\ Payload(CfKey(a), a) = Payload(CfKey(a), CfKey(a)[2])
                 /\ Payload(MixKey(a), a) = Payload(MixKey(a), MixKey(a)[2])
                 /\ Payload(RadioKey(b), a) = Payload(RadioKey(b), RadioKey(b)[2])
                 /\ Payload(EnrichKey(b), a) = Payload(EnrichKey(b), EnrichKey(b)[2])
                 /\ Payload(LabsKey(b), a) = Payload(LabsKey(b), LabsKey(b)[2])
                 /\ Payload(SimilarKey(b), a) = Payload(SimilarKey(b), SimilarKey(b)[2])
<1>1. \A a : /\ Payload(TopKey(a), a) = Payload(TopKey(a), TopKey(a)[2])
             /\ Payload(CfKey(a), a) = Payload(CfKey(a), CfKey(a)[2])
             /\ Payload(MixKey(a), a) = Payload(MixKey(a), MixKey(a)[2])
  BY DEF TopKey, CfKey, MixKey
<1>2. \A a, b : Payload(RadioKey(b), a) = Payload(RadioKey(b), RadioKey(b)[2])
  BY DEF Payload, RadioKey
<1>3. \A a, b : Payload(EnrichKey(b), a) = Payload(EnrichKey(b), EnrichKey(b)[2])
  BY DEF Payload, EnrichKey
<1>4. \A a, b : Payload(LabsKey(b), a) = Payload(LabsKey(b), LabsKey(b)[2])
  BY DEF Payload, LabsKey
<1>5. \A a, b : Payload(SimilarKey(b), a) = Payload(SimilarKey(b), SimilarKey(b)[2])
  BY DEF Payload, SimilarKey
<1>6. QED
  BY <1>1, <1>2, <1>3, <1>4, <1>5

LEMMA LoadsSayWhose ==
    ASSUME NEW a, NEW n, NEW F, NEW k \in Loads(a, n, F)
    PROVE  Payload(k, a) = Payload(k, k[2])
<1>1. \/ k \in {TopKey(a), CfKey(a), MixKey(a)}
      \/ \E m : k = RadioKey(m) \/ k = EnrichKey(m) \/ k = LabsKey(m) \/ k = SimilarKey(m)
  BY Zenon DEF Loads
<1>2. QED
  BY <1>1, KeysSayWhose

LEMMA FillRemembers ==
    ASSUME Remembered, NEW loaded, NEW empty, NEW a,
           \A k \in loaded : Payload(k, a) = Payload(k, k[2]),
           \A k \in empty : k[1] = "labs-similar",
           cache' = Fill(loaded, empty, a)
    PROVE  Remembered'
<1>1. ASSUME NEW k \in DOMAIN cache'
      PROVE  cache'[k] = Payload(k, k[2]) \/ (k[1] = "labs-similar" /\ cache'[k] = <<>>)
  <2>1. /\ k \in DOMAIN cache \cup loaded \cup empty
        /\ cache'[k] = IF k \in DOMAIN cache THEN cache[k]
                       ELSE IF k \in empty THEN <<>> ELSE Payload(k, a)
    BY Zenon DEF Fill
  <2>2. QED
    BY <2>1 DEF Remembered
<1>2. QED
  BY <1>1, Zenon DEF Remembered, Payload

(* Opening the credential: an account of one's own rows, or none.          *)
LEMMA AskCarries ==
    ASSUME FeedInv, NEW u \in Users, NEW route, NEW offset, NEW seed,
           Ask(u, route, offset, seed)
    PROVE  FeedInv'
<1>1. /\ resp' = [resp EXCEPT ![u] = Unasked] /\ cache' = cache /\ UNCHANGED connVars
      /\ \E a \in IF Openable(u, "listenbrainz") = {} THEN {None}
                  ELSE {r.account : r \in {x \in Openable(u, "listenbrainz") : Opens(x)}} :
            req' = [req EXCEPT ![u] = [at |-> "calls", route |-> route, offset |-> offset,
                                       acct |-> a, seed |-> seed]]
  BY Zenon DEF Ask
<1>2. \A r \in Openable(u, "listenbrainz") : r.account \in Accounts
  BY DEF Openable, FeedInv, Held
<1>3. PICK a \in Known :
        req' = [req EXCEPT ![u] = [at |-> "calls", route |-> route, offset |-> offset,
                                   acct |-> a, seed |-> seed]]
  BY <1>1, <1>2 DEF Known
<1>4. Carried'
  BY <1>1, <1>3 DEF FeedInv, Carried
<1>5. Held' /\ Remembered'
  BY <1>1 DEF FeedInv, Held, Remembered, Payload, connVars
<1>6. Unasked.route = "none"
  BY DEF Unasked
<1>7. DegradationIsHonest'
  BY <1>1, <1>6 DEF FeedInv, Carried, DegradationIsHonest
<1>8. QED
  BY <1>4, <1>5, <1>7 DEF FeedInv

(* An answer that is honest about itself keeps everything.                 *)
Honest(r) ==
    r.route \in {"feed", "recommendations"} =>
      /\ r.unavailable = {} /\ ~r.silent => r.sections = r.whole
      /\ r.route = "recommendations" => Kinds(r.sections) \subseteq Kinds(r.whole)

LEMMA AnswerCarries ==
    ASSUME FeedInv, NEW u \in Users, NEW r, Answered(u, r), Honest(r), Remembered'
    PROVE  FeedInv'
<1>1. resp' = [resp EXCEPT ![u] = r] /\ req' = [req EXCEPT ![u] = Quiet] /\ UNCHANGED connVars
  BY DEF Answered
<1>2. Quiet.at = "quiet"
  BY DEF Quiet
<1>3. Carried'
  BY <1>1, <1>2 DEF FeedInv, Carried
<1>4. Held'
  BY <1>1 DEF FeedInv, Held, connVars
<1>5. \A v \in Users : resp'[v] = IF v = u THEN r ELSE resp[v]
  BY <1>1 DEF FeedInv, Carried
<1>6. \A v \in Users : Honest(resp[v])
  BY DEF FeedInv, DegradationIsHonest, Honest
<1>7. \A v \in Users : Honest(resp'[v])
  BY <1>5, <1>6
<1>8. DegradationIsHonest'
  BY <1>7 DEF DegradationIsHonest, Honest, Kinds
<1>9. QED
  BY <1>3, <1>4, <1>8 DEF FeedInv

(* GET /feed and GET /recommendations: what is shown is what there is, or  *)
(* says that it is not.                                                    *)
LEMMA BlendedCarries ==
    ASSUME FeedInv, NEW u \in Users, Blended(u)
    PROVE  FeedInv'
<1> DEFINE a == req[u].acct
           route == req[u].route
           full(n) == BuildFeed(a, n, {})
           env(n, F) == IF F = {} THEN full(n) ELSE BuildFeed(a, n, F)
           page(s) == PageOf(u, s, req[u].offset).page
           reply(n, F) ==
             [route |-> route, acct |-> a,
              sections |-> IF route = "feed" THEN page(env(n, F).sections)
                           ELSE Recommended(env(n, F).sections),
              unavailable |-> env(n, F).unavailable,
              whole |-> IF route = "feed" THEN page(full(n).sections)
                        ELSE Recommended(full(n).sections),
              silent |-> \E k \in F : k[1] = "labs-similar", key |-> kek]
<1>1. /\ req[u].at = "calls" /\ route \in {"feed", "recommendations"}
      /\ \E n \in SeedsOf(route) : \E F \in Failing(a, n) :
            /\ Answered(u, reply(n, F))
            /\ \E E \in Empties(F) : cache' = Fill(Loads(a, n, F) \ F, E, a)
  BY Zenon DEF Blended
<1>2. PICK n \in SeedsOf(route) : \E F \in Failing(a, n) :
            /\ Answered(u, reply(n, F))
            /\ \E E \in Empties(F) : cache' = Fill(Loads(a, n, F) \ F, E, a)
  BY <1>1, Zenon
<1>3. PICK F \in Failing(a, n) :
            /\ Answered(u, reply(n, F))
            /\ \E E \in Empties(F) : cache' = Fill(Loads(a, n, F) \ F, E, a)
  BY <1>2, Zenon
<1>4. n \in Nat
  BY <1>1 DEF SeedsOf
<1>5. a \in Known
  BY <1>1 DEF FeedInv, Carried
<1>6. Remembered'
  <2>1. PICK E \in Empties(F) : cache' = Fill(Loads(a, n, F) \ F, E, a)
    BY <1>3
  <2>2. \A k \in E : k[1] = "labs-similar"
    BY DEF Empties
  <2> HIDE DEF a
  <2>3. \A k \in Loads(a, n, F) \ F : Payload(k, a) = Payload(k, k[2])
    BY LoadsSayWhose
  <2>4. QED
    BY <2>1, <2>2, <2>3, FillRemembers DEF FeedInv
<1>7. env(n, F) = BuildFeed(a, n, F)
  OBVIOUS
<1>8. Remembered
  BY DEF FeedInv
<1> DEFINE r == reply(n, F)
<1>9. Answered(u, r)
  BY <1>3
<1>10. /\ r.route = route /\ r.unavailable = env(n, F).unavailable
       /\ r.sections = IF route = "feed" THEN page(env(n, F).sections)
                       ELSE Recommended(env(n, F).sections)
       /\ r.whole = IF route = "feed" THEN page(full(n).sections)
                    ELSE Recommended(full(n).sections)
       /\ r.silent <=> \E k \in F : k[1] = "labs-similar"
  OBVIOUS
<1> HIDE DEF a, r
<1>11. Kinds(Recommended(BuildFeed(a, n, F).sections))
          \subseteq Kinds(Recommended(BuildFeed(a, n, {}).sections))
  BY <1>4, <1>5, <1>8, NothingAdded
<1>12. r.unavailable = {} /\ ~r.silent => env(n, F).sections = full(n).sections
  <2> SUFFICES ASSUME r.unavailable = {}, ~r.silent
               PROVE  env(n, F).sections = full(n).sections
    OBVIOUS
  <2>1. BuildFeed(a, n, F).unavailable = {} /\ \A k \in F : k[1] # "labs-similar"
    BY <1>7, <1>10
  <2>2. BuildFeed(a, n, F).sections = BuildFeed(a, n, {}).sections
    BY <2>1, UnblamedIsWhole
  <2>3. QED
    BY <1>7, <2>2
<1> HIDE DEF env, page, route
<1>13. r.unavailable = {} /\ ~r.silent => r.sections = r.whole
  BY <1>10, <1>12
<1>14. r.route = "recommendations" => Kinds(r.sections) \subseteq Kinds(r.whole)
  BY <1>7, <1>10, <1>11
<1>15. Honest(r)
  BY <1>13, <1>14 DEF Honest
<1>16. QED
  BY <1>6, <1>9, <1>15, AnswerCarries

(* GET /stations and their tracks are no blends.                           *)
LEMMA StationsCarry ==
    ASSUME FeedInv, NEW u \in Users, Stations(u) \/ StationTracks(u)
    PROVE  FeedInv'
<1>1. ASSUME NEW loaded, NEW b, \A k \in loaded : Payload(k, b) = Payload(k, k[2]),
             cache' = Fill(loaded, {}, b)
      PROVE  Remembered'
  BY <1>1, FillRemembers DEF FeedInv
<1>2. CASE Stations(u)
  <2> DEFINE a == req[u].acct
  <2>1. /\ \E s, m : Answered(u, [Unasked EXCEPT !.route = "stations", !.acct = a, !.key = kek,
                                       !.sections = s, !.unavailable = m])
        /\ cache' = Fill({TopKey(a)}, {}, a) \/ cache' = Fill({}, {}, a)
    BY <1>2, Zenon DEF Stations
  <2>2. PICK s, m : Answered(u, [Unasked EXCEPT !.route = "stations", !.acct = a, !.key = kek,
                                       !.sections = s, !.unavailable = m])
    BY <2>1
  <2>3. Remembered'
    BY <1>1, <2>1, KeysSayWhose
  <2> DEFINE r == [Unasked EXCEPT !.route = "stations", !.acct = a, !.key = kek,
                                       !.sections = s, !.unavailable = m]
  <2>4. r.route = "stations"
    BY DEF Unasked
  <2> HIDE DEF r
  <2>5. Honest(r)
    BY <2>4 DEF Honest
  <2>6. QED
    BY <2>2, <2>3, <2>5, AnswerCarries DEF r
<1>3. CASE StationTracks(u)
  <2> DEFINE a == req[u].acct
             k == RadioKey(req[u].seed)
  <2>1. /\ \E s, m : Answered(u, [Unasked EXCEPT !.route = "tracks", !.acct = a,
                                       !.sections = s, !.unavailable = m])
        /\ cache' = Fill({k}, {}, a) \/ cache' = Fill({}, {}, a)
    BY <1>3, Zenon DEF StationTracks
  <2>2. PICK s, m : Answered(u, [Unasked EXCEPT !.route = "tracks", !.acct = a,
                                       !.sections = s, !.unavailable = m])
    BY <2>1
  <2>3. Remembered'
    BY <1>1, <2>1, KeysSayWhose
  <2> DEFINE r == [Unasked EXCEPT !.route = "tracks", !.acct = a,
                                       !.sections = s, !.unavailable = m]
  <2>4. r.route = "tracks"
    BY DEF Unasked
  <2> HIDE DEF r
  <2>5. Honest(r)
    BY <2>4 DEF Honest
  <2>6. QED
    BY <2>2, <2>3, <2>5, AnswerCarries DEF r
<1>4. QED
  BY <1>2, <1>3

LEMMA FeedCarries ==
    ASSUME FeedInv, FeedNext
    PROVE  FeedInv'
<1>1. ASSUME NEW u \in Users,
             \/ AskFeed(u) \/ AskNextPage(u) \/ AskRecommendations(u)
             \/ AskStations(u) \/ AskStationTracks(u)
      PROVE  FeedInv'
  <2>1. \E route, offset, seed : Ask(u, route, offset, seed)
    BY <1>1, Zenon DEF AskFeed, AskNextPage, AskRecommendations, AskStations, AskStationTracks
  <2>2. QED
    BY <2>1, AskCarries
<1>2. QED
  BY <1>1, BlendedCarries, StationsCarry DEF FeedNext

LEMMA QuietFeed ==
    ASSUME FeedInv, UNCHANGED feedVars, Held'
    PROVE  FeedInv'
<1>1. UNCHANGED <<cache, req, resp>>
  BY DEF feedVars
<1>2. QED
  BY <1>1 DEF FeedInv, Carried, Remembered, DegradationIsHonest, Kinds, Payload

LEMMA FeedStarts ==
    ASSUME NEW had, ConnStart(had), FeedInit, \A r \in had : r.account \in Accounts
    PROVE  FeedInv
<1>1. Held
  BY DEF ConnStart, Free, Held
<1>2. Carried /\ DegradationIsHonest
  BY DEF FeedInit, Quiet, Unasked, Carried, DegradationIsHonest
<1>3. Remembered
  BY DEF FeedInit, Remembered
<1>4. QED
  BY <1>1, <1>2, <1>3 DEF FeedInv

(* Whatever people connect and disconnect meanwhile, whatever the cache     *)
(* remembers and whichever call fails, a feed or a list of recommendations  *)
(* that names no unavailable provider is the whole one, and one that does   *)
(* has no shelf the whole one lacks: BlendService's degraded answers.       *)
THEOREM BlendsAreHonest ==
    /\ FeedSpec => []DegradationIsHonest
    /\ MCSpec => []DegradationIsHonest
<1>1. FeedInv => DegradationIsHonest
  BY DEF FeedInv
<1>2. FeedInv /\ ConnNext /\ UNCHANGED feedVars => FeedInv'
  BY ConnHolds, QuietFeed DEF FeedInv
<1>3. FeedInv /\ UNCHANGED <<connVars, feedVars>> => FeedInv'
  <2> SUFFICES ASSUME FeedInv, UNCHANGED <<connVars, feedVars>> PROVE FeedInv'
    OBVIOUS
  <2>1. Held'
    BY DEF connVars, FeedInv, Held
  <2>2. QED
    BY <2>1, QuietFeed
<1>4. ConnStart({}) /\ FeedInit => FeedInv
  BY FeedStarts
<1>5. FeedInv /\ [FeedNext \/ (ConnNext /\ UNCHANGED feedVars)]_<<connVars, feedVars>> => FeedInv'
  BY <1>2, <1>3, FeedCarries
<1>6. MCInit => FeedInv
  <2> SUFFICES ASSUME MCInit PROVE FeedInv
    OBVIOUS
  <2> DEFINE had == IF part # "feed" THEN {} ELSE
         {[user |-> u, provider |-> "listenbrainz", kek |-> 1,
           account |-> IF u = First THEN "la" ELSE "lb"] : u \in Users}
  <2>1. ConnStart(had) /\ FeedInit
    BY DEF MCInit
  <2>2. \A r \in had : r.account \in Accounts
    BY KnownAccounts
  <2> HIDE DEF had
  <2>3. QED
    BY <2>1, <2>2, FeedStarts
<1>7. FeedInv /\ [MCNext]_<<feedAll, part, catVars, adapters, concerts, pages>> => FeedInv'
  <2> SUFFICES ASSUME FeedInv, [MCNext]_<<feedAll, part, catVars, adapters, concerts, pages>>
               PROVE  FeedInv'
    OBVIOUS
  <2>1. \/ FeedNext \/ (ConnNext /\ UNCHANGED feedVars)
        \/ UNCHANGED <<connVars, feedVars>>
    <3>1. First \in Users
      BY SomebodyConnects DEF First, SomebodyConnects
    <3>2. LinkNext(First) => ConnNext
      BY <3>1 DEF ConnNext
    <3>3. QED
      BY <3>2, Zenon DEF MCNext, feedAll
  <2>2. QED
    BY <1>2, <1>3, <2>1, FeedCarries
<1>8. FeedSpec => []DegradationIsHonest
  BY <1>1, <1>4, <1>5, PTL DEF FeedSpec
<1>9. MCSpec => []DegradationIsHonest
  BY <1>1, <1>6, <1>7, PTL DEF MCSpec
<1>10. QED
  BY <1>8, <1>9

-----------------------------------------------------------------------------
(* services/events.ts: the shelf of concerts.  What a similarity is, and   *)
(* how a text is folded, does not matter to these proofs.                  *)

(* Places of one key are the same place to SeatGeek.                       *)
LEMMA OneKeyOnePlace ==
    ASSUME NEW venue, NEW x, NEW y, Concert!GeoKey(x) = Concert!GeoKey(y),
           Concert!Within(venue, x)
    PROVE  Concert!Within(venue, y)
  BY DEF Concert!GeoKey, Concert!Within

(* The id kept for an artist: none, or that of a performer whose name      *)
(* passes and to whom no other that was found is to be preferred.          *)
Best(a, id, seen) ==
    id # 0 => /\ Concert!Passes(Concert!Score(a, id))
              /\ \A p \in seen : ~Concert!Above(Concert!Score(a, p), Concert!Score(a, id))

LEMMA ResponsesListAll ==
    ASSUME NEW there, NEW s \in Concert!SearchResponses(there), s # <<>>
    PROVE  /\ \A i \in DOMAIN s : s[i] \in there
           /\ \A c \in there : \E i \in DOMAIN s : s[i] = c
  BY DEF Concert!SearchResponses

LEMMA SearchFindsTheBest ==
    ASSUME NEW a,
           NEW s \in Concert!SearchResponses({[id |-> p, score |-> Concert!Score(a, p)] : p \in listed})
    PROVE  Best(a, Concert!BestPerformer(s), listed)
<1> DEFINE there == {[id |-> p, score |-> Concert!Score(a, p)] : p \in listed}
           best == {i \in DOMAIN s :
                      /\ Concert!Passes(s[i].score)
                      /\ \A j \in DOMAIN s : ~Concert!Above(s[j].score, s[i].score)
                      /\ \A j \in 1 .. i - 1 : Concert!Above(s[i].score, s[j].score)}
<1>1. Concert!BestPerformer(s) = IF best = {} THEN 0 ELSE s[CHOOSE i \in best : TRUE].id
  BY Zenon DEF Concert!BestPerformer
<1>2. CASE best = {}
  BY <1>1, <1>2 DEF Best
<1>3. CASE best # {}
  <2>1. PICK i \in best : Concert!BestPerformer(s) = s[i].id
    BY <1>1, <1>3
  <2>2. /\ i \in DOMAIN s /\ Concert!Passes(s[i].score)
        /\ \A j \in DOMAIN s : ~Concert!Above(s[j].score, s[i].score)
    OBVIOUS
  <2>3. /\ \A j \in DOMAIN s : s[j] \in there
        /\ \A c \in there : \E j \in DOMAIN s : s[j] = c
    <3>1. s # <<>>
      BY <2>2
    <3>2. QED
      BY <3>1, ResponsesListAll
  <2>4. s[i].score = Concert!Score(a, s[i].id)
    BY <2>2, <2>3
  <2>5. ASSUME NEW p \in listed
        PROVE  ~Concert!Above(Concert!Score(a, p), s[i].score)
    <3>1. [id |-> p, score |-> Concert!Score(a, p)] \in there
      OBVIOUS
    <3>2. PICK j \in DOMAIN s : s[j] = [id |-> p, score |-> Concert!Score(a, p)]
      BY <2>3, <3>1
    <3>3. s[j].score = Concert!Score(a, p)
      BY <3>2
    <3>4. QED
      BY <2>2, <3>3
  <2>6. QED
    BY <2>1, <2>2, <2>4, <2>5 DEF Best
<1>4. QED
  BY <1>2, <1>3

PerformerRows ==
    /\ DOMAIN performers = Concert!Artists
    /\ \A a \in Concert!Artists : performers[a] # Absent =>
          /\ performers[a] = [id |-> performers[a].id, seen |-> performers[a].seen,
                              fresh |-> performers[a].fresh]
          /\ Best(a, performers[a].id, performers[a].seen)

(* What may be kept under a key: it suits every place that has the key.    *)
ShelfHolds(k, events) ==
    \A e \in events :
       /\ e.performer = k[1]
       /\ \A place \in Places : Concert!GeoKey(place) = k[2] => Concert!Within(e.venue, place)

ShelfRows ==
    \A k \in DOMAIN shelves :
       /\ shelves[k] = [events |-> shelves[k].events, fresh |-> shelves[k].fresh]
       /\ ShelfHolds(k, shelves[k].events)

(* A request that waits is about an artist in a place, and the one that     *)
(* goes on to the events does so with the best for the artist.              *)
Underway ==
    /\ DOMAIN stage = Readers /\ DOMAIN asked = Readers
    /\ DOMAIN found = Readers /\ DOMAIN served = Readers
    /\ \A r \in Readers :
          /\ stage[r] # "idle" =>
                asked[r].artist \in Concert!Artists /\ asked[r].place \in Places
          /\ stage[r] = "events" =>
                found[r].id # 0 /\ Best(asked[r].artist, found[r].id, found[r].seen)

ShelvesHold == PerformerRows /\ ShelfRows /\ Underway /\ Concert!ShelfIsTheOneAsked

Suits(r, events) ==
    \A e \in events :
       /\ Concert!Within(e.venue, asked[r].place)
       /\ Concert!Passes(Concert!Score(asked[r].artist, e.performer))
       /\ \A p \in found[r].seen :
             ~Concert!Above(Concert!Score(asked[r].artist, p),
                            Concert!Score(asked[r].artist, e.performer))

LEMMA ResponseKeeps ==
    ASSUME ShelvesHold, NEW r \in Readers, NEW events, NEW status,
           Concert!Respond(r, events, status), Suits(r, events), UNCHANGED asked,
           PerformerRows', ShelfRows'
    PROVE  ShelvesHold'
<1>1. /\ stage' = [stage EXCEPT ![r] = "idle"] /\ found' = [found EXCEPT ![r] = Concert!Nobody]
      /\ served' = [served EXCEPT ![r] = [events |-> events, seen |-> found[r].seen,
                                          status |-> status]]
  BY Zenon DEF Concert!Respond
<1>2. Underway'
  BY <1>1 DEF ShelvesHold, Underway
<1>3. served'[r].events = events /\ served'[r].seen = found[r].seen
  BY <1>1 DEF ShelvesHold, Underway
<1>4. \A q \in Readers \ {r} : stage'[q] = stage[q] /\ served'[q] = served[q]
  BY <1>1 DEF ShelvesHold, Underway
<1>5. Concert!ShelfIsTheOneAsked'
  BY <1>3, <1>4 DEF ShelvesHold, Concert!ShelfIsTheOneAsked, Suits
<1>6. QED
  BY <1>2, <1>5 DEF ShelvesHold

LEMMA NothingSuits ==
    ASSUME NEW r PROVE Suits(r, {})
  BY DEF Suits

LEMMA ContinueKeeps ==
    ASSUME ShelvesHold, NEW r \in Readers, NEW row, Best(asked[r].artist, row.id, row.seen),
           stage[r] = "performer", Concert!Continue(r, row), UNCHANGED asked,
           PerformerRows', ShelfRows'
    PROVE  ShelvesHold'
<1>1. CASE Concert!Respond(r, {}, 200)
  BY <1>1, ResponseKeeps, NothingSuits
<1>2. CASE /\ row.id # 0 /\ found' = [found EXCEPT ![r] = [id |-> row.id, seen |-> row.seen]]
           /\ stage' = [stage EXCEPT ![r] = "events"] /\ UNCHANGED served
  <2>1. Underway'
    <3>1. found'[r] = [id |-> row.id, seen |-> row.seen] /\ stage'[r] = "events"
      BY <1>2 DEF ShelvesHold, Underway
    <3>2. /\ DOMAIN stage' = Readers /\ DOMAIN found' = Readers
          /\ \A q \in Readers \ {r} : stage'[q] = stage[q] /\ found'[q] = found[q]
      BY <1>2 DEF ShelvesHold, Underway
    <3>3. QED
      BY <1>2, <3>1, <3>2 DEF ShelvesHold, Underway
  <2>2. \A q \in Readers : stage'[q] = "idle" => stage[q] = "idle"
    BY <1>2 DEF ShelvesHold, Underway
  <2>3. Concert!ShelfIsTheOneAsked'
    BY <1>2, <2>2 DEF ShelvesHold, Concert!ShelfIsTheOneAsked
  <2>4. QED
    BY <2>1, <2>3 DEF ShelvesHold
<1>3. QED
  BY <1>1, <1>2, Zenon DEF Concert!Continue

(* The performer of an artist, from the cache or from a search.            *)
LEMMA PerformerKeeps ==
    ASSUME ShelvesHold, NEW r \in Readers,
           Concert!PerformerCached(r) \/ Concert!PerformerLoaded(r) \/ Concert!PerformerFailed(r)
    PROVE  ShelvesHold'
<1> DEFINE a == asked[r].artist
<1>1. /\ UNCHANGED <<listed, shelves, asked>> /\ stage[r] = "performer"
  BY Zenon DEF Concert!PerformerCached, Concert!PerformerLoaded, Concert!PerformerFailed
<1>2. a \in Concert!Artists
  BY <1>1 DEF ShelvesHold, Underway
<1>3. ShelfRows'
  BY <1>1 DEF ShelvesHold, ShelfRows
<1>4. UNCHANGED performers => PerformerRows'
  BY DEF ShelvesHold, PerformerRows
<1>5. performers[a] # Absent => Best(a, performers[a].id, performers[a].seen)
  BY <1>2 DEF ShelvesHold, PerformerRows
<1>6. CASE Concert!PerformerCached(r)
  <2>1. performers[a] # Absent /\ Concert!Continue(r, performers[a]) /\ UNCHANGED performers
    BY <1>6, Zenon DEF Concert!PerformerCached, Concert!Due
  <2>2. QED
    BY <1>1, <1>3, <1>4, <1>5, <2>1, ContinueKeeps
<1>7. CASE Concert!PerformerLoaded(r)
  <2> DEFINE there == {[id |-> p, score |-> Concert!Score(a, p)] : p \in listed}
             Row(s) == [id |-> Concert!BestPerformer(s), seen |-> listed, fresh |-> TRUE]
  <2>1. PICK s \in Concert!SearchResponses(there) :
          /\ performers' = [performers EXCEPT ![a] = Row(s)]
          /\ Concert!Continue(r, Row(s))
    BY <1>7, Zenon DEF Concert!PerformerLoaded
  <2>2. Best(a, Concert!BestPerformer(s), listed)
    BY SearchFindsTheBest
  <2>3. Row(s).id = Concert!BestPerformer(s) /\ Row(s).seen = listed
    OBVIOUS
  <2> DEFINE row == Row(s)
  <2>4. /\ performers' = [performers EXCEPT ![a] = row] /\ Concert!Continue(r, row)
        /\ Best(a, row.id, row.seen)
        /\ row = [id |-> row.id, seen |-> row.seen, fresh |-> row.fresh] 
    BY <2>1, <2>2, <2>3
  <2> HIDE DEF row, Row
  <2>5. PerformerRows'
    <3>1. /\ DOMAIN performers' = Concert!Artists /\ performers'[a] = row
          /\ \A b \in Concert!Artists \ {a} : performers'[b] = performers[b]
      BY <1>2, <2>4 DEF ShelvesHold, PerformerRows
    <3>2. QED
      BY <2>4, <3>1 DEF ShelvesHold, PerformerRows
  <2>6. QED
    BY <1>1, <1>3, <2>4, <2>5, ContinueKeeps
<1>8. CASE Concert!PerformerFailed(r)
  <2>1. UNCHANGED performers
    BY <1>8, Zenon DEF Concert!PerformerFailed
  <2>2. \/ performers[a] # Absent /\ Concert!Continue(r, performers[a])
        \/ Concert!Respond(r, {}, 200)
    BY <1>8, Zenon DEF Concert!PerformerFailed
  <2>3. CASE performers[a] # Absent /\ Concert!Continue(r, performers[a])
    BY <1>1, <1>3, <1>4, <1>5, <2>1, <2>3, ContinueKeeps
  <2>4. CASE Concert!Respond(r, {}, 200)
    BY <1>1, <1>3, <1>4, <2>1, <2>4, ResponseKeeps, NothingSuits
  <2>5. QED
    BY <2>2, <2>3, <2>4
<1>9. QED
  BY <1>6, <1>7, <1>8

(* The events of a performer in a place, from the cache or from a load.    *)
LEMMA EventsKeep ==
    ASSUME ShelvesHold, NEW r \in Readers,
           Concert!EventsCached(r) \/ Concert!EventsLoaded(r) \/ Concert!EventsFailed(r)
    PROVE  ShelvesHold'
<1> DEFINE place == asked[r].place
           key == Concert!ShelfKey(r)
<1>1. UNCHANGED <<listed, performers, asked>> /\ stage[r] = "events"
  BY Zenon DEF Concert!EventsCached, Concert!EventsLoaded, Concert!EventsFailed
<1>2. /\ place \in Places /\ found[r].id # 0
      /\ Best(asked[r].artist, found[r].id, found[r].seen)
  BY <1>1 DEF ShelvesHold, Underway
<1>3. key[1] = found[r].id /\ key[2] = Concert!GeoKey(place)
  BY DEF Concert!ShelfKey
<1>4. PerformerRows'
  BY <1>1 DEF ShelvesHold, PerformerRows
<1>5. UNCHANGED shelves => ShelfRows'
  BY DEF ShelvesHold, ShelfRows
<1>6. ASSUME NEW events, ShelfHolds(key, events)
      PROVE  Suits(r, events)
  BY <1>2, <1>3, <1>6 DEF ShelfHolds, Suits, Best
<1>7. Concert!Row(key) # Absent => ShelfHolds(key, Concert!Row(key).events)
  BY DEF Concert!Row, ShelvesHold, ShelfRows
<1>8. CASE Concert!EventsCached(r)
  <2>1. /\ Concert!Row(key) # Absent /\ UNCHANGED shelves
        /\ Concert!Respond(r, Concert!Row(key).events, 200)
    BY <1>8, Zenon DEF Concert!EventsCached, Concert!Due
  <2> HIDE DEF key
  <2>2. QED
    BY <1>1, <1>4, <1>5, <1>6, <1>7, <2>1, ResponseKeeps
<1>9. CASE Concert!EventsFailed(r)
  <2>1. /\ UNCHANGED shelves
        /\ \/ Concert!Row(key) # Absent /\ Concert!Respond(r, Concert!Row(key).events, 200)
           \/ Concert!Respond(r, {}, 200)
    BY <1>9, Zenon DEF Concert!EventsFailed
  <2> HIDE DEF key
  <2>2. QED
    BY <1>1, <1>4, <1>5, <1>6, <1>7, <2>1, ResponseKeeps, NothingSuits
<1>10. CASE Concert!EventsLoaded(r)
  <2>1. PICK events \in Concert!EventResponses(found[r].id, place, Concert!LimitOf(asked[r].limit)) :
          /\ shelves' = [k \in DOMAIN shelves \cup {key} |->
                           IF k = key THEN [events |-> events, fresh |-> TRUE] ELSE shelves[k]]
          /\ Concert!Respond(r, events, 200)
    BY <1>10, Zenon DEF Concert!EventsLoaded
  <2>2. \A e \in events : /\ e.performer = found[r].id
                          /\ Concert!Within(e.venue, place)
    BY <2>1 DEF Concert!EventResponses
  <2>3. ShelfHolds(key, events)
    BY <1>3, <2>2, OneKeyOnePlace DEF ShelfHolds
  <2> HIDE DEF key, place
  <2>4. ShelfRows'
    BY <2>1, <2>3 DEF ShelvesHold, ShelfRows
  <2>5. QED
    BY <1>1, <1>4, <1>6, <2>1, <2>3, <2>4, ResponseKeeps
<1>11. QED
  BY <1>8, <1>9, <1>10

LEMMA AskRejectKeeps ==
    ASSUME ShelvesHold, NEW r \in Readers,
           \/ \E a \in Concert!Artists, place \in Places, limit \in Limits :
                 Concert!Ask(r, a, place, limit)
           \/ Concert!Rejected(r)
    PROVE  ShelvesHold'
<1>1. UNCHANGED <<listed, performers, shelves>>
  BY Zenon DEF Concert!Ask, Concert!Rejected
<1>2. PerformerRows' /\ ShelfRows'
  BY <1>1 DEF ShelvesHold, PerformerRows, ShelfRows
<1>3. CASE \E a \in Concert!Artists, place \in Places, limit \in Limits :
             Concert!Ask(r, a, place, limit)
  <2>1. PICK a \in Concert!Artists, place \in Places, limit \in Limits :
          Concert!Ask(r, a, place, limit)
    BY <1>3
  <2>2. /\ stage' = [stage EXCEPT ![r] = "performer"]
        /\ asked' = [asked EXCEPT ![r] = [artist |-> a, place |-> place, limit |-> limit]]
        /\ served' = [served EXCEPT ![r] = Concert!NoShelf]
        /\ UNCHANGED found
    BY <2>1, Zenon DEF Concert!Ask
  <2>3. Underway'
    BY <2>2 DEF ShelvesHold, Underway
  <2>4. Concert!ShelfIsTheOneAsked'
    BY <2>2 DEF ShelvesHold, Underway, Concert!ShelfIsTheOneAsked
  <2>5. QED
    BY <1>2, <2>3, <2>4 DEF ShelvesHold
<1>4. CASE Concert!Rejected(r)
  <2>1. Concert!Respond(r, {}, 500) /\ UNCHANGED asked
    BY <1>4, Zenon DEF Concert!Rejected
  <2>2. QED
    BY <1>2, <2>1, ResponseKeeps, NothingSuits
<1>5. QED
  BY <1>3, <1>4

(* What expires stays the row it was.                                      *)
LEMMA ExpireKeeps ==
    ASSUME ShelvesHold, Concert!Expires \/ Concert!Listed
    PROVE  ShelvesHold'
<1>1. UNCHANGED <<stage, asked, found, served>>
  BY Zenon DEF Concert!Expires, Concert!Listed
<1>2. Underway' /\ Concert!ShelfIsTheOneAsked'
  BY <1>1 DEF ShelvesHold, Underway, Concert!ShelfIsTheOneAsked
<1>3. \/ UNCHANGED <<performers, shelves>>
      \/ /\ UNCHANGED shelves
         /\ \E a \in Concert!Artists : /\ performers[a] # Absent
                                      /\ performers' = [performers EXCEPT ![a].fresh = FALSE]
      \/ /\ UNCHANGED performers
         /\ \E k \in DOMAIN shelves : shelves' = [shelves EXCEPT ![k].fresh = FALSE]
  BY Zenon DEF Concert!Expires, Concert!Expire, Concert!Listed, Concert!Due
<1>4. PerformerRows'
  <2>1. CASE UNCHANGED performers
    BY <2>1 DEF ShelvesHold, PerformerRows
  <2>2. CASE \E a \in Concert!Artists : /\ performers[a] # Absent
                                        /\ performers' = [performers EXCEPT ![a].fresh = FALSE]
    <3>1. PICK a \in Concert!Artists : /\ performers[a] # Absent
                                       /\ performers' = [performers EXCEPT ![a].fresh = FALSE]
      BY <2>2
    <3>2. /\ performers[a] = [id |-> performers[a].id, seen |-> performers[a].seen,
                              fresh |-> performers[a].fresh]
          /\ Best(a, performers[a].id, performers[a].seen) /\ DOMAIN performers = Concert!Artists
      BY <3>1 DEF ShelvesHold, PerformerRows
    <3>3. /\ DOMAIN performers' = Concert!Artists
          /\ \A b \in Concert!Artists \ {a} : performers'[b] = performers[b]
          /\ performers'[a] = [id |-> performers[a].id, seen |-> performers[a].seen,
                               fresh |-> FALSE]
      BY <3>1, <3>2
    <3>4. /\ performers'[a] = [id |-> performers'[a].id, seen |-> performers'[a].seen,
                               fresh |-> performers'[a].fresh]
          /\ Best(a, performers'[a].id, performers'[a].seen)
      BY <3>2, <3>3
    <3>5. QED
      BY <3>3, <3>4 DEF ShelvesHold, PerformerRows
  <2>3. QED
    BY <1>3, <2>1, <2>2
<1>5. ShelfRows'
  <2>1. CASE UNCHANGED shelves
    BY <2>1 DEF ShelvesHold, ShelfRows
  <2>2. CASE \E k \in DOMAIN shelves : shelves' = [shelves EXCEPT ![k].fresh = FALSE]
    <3>1. PICK k \in DOMAIN shelves : shelves' = [shelves EXCEPT ![k].fresh = FALSE]
      BY <2>2
    <3>2. shelves[k] = [events |-> shelves[k].events, fresh |-> shelves[k].fresh]
      BY DEF ShelvesHold, ShelfRows
    <3>3. shelves'[k] = [events |-> shelves[k].events, fresh |-> FALSE]
      BY <3>1, <3>2
    <3>4. /\ DOMAIN shelves' = DOMAIN shelves
          /\ \A l \in DOMAIN shelves : l # k => shelves'[l] = shelves[l]
      BY <3>1
    <3>5. shelves'[k] = [events |-> shelves'[k].events, fresh |-> shelves'[k].fresh]
          /\ shelves'[k].events = shelves[k].events
      BY <3>3
    <3>6. QED
      BY <3>4, <3>5 DEF ShelvesHold, ShelfRows
  <2>3. QED
    BY <1>3, <2>1, <2>2
<1>6. QED
  BY <1>2, <1>4, <1>5 DEF ShelvesHold

(* GET /artists/:mbid/events: whoever filled the cache, however the place   *)
(* was spelled and whenever it expires, a shelf shows events where they     *)
(* were asked for, of a performer whose name passes for the artist's and    *)
(* than whom SeatGeek had no closer one.                                    *)
THEOREM ShelvesAreTheOnesAsked ==
    /\ Concert!Spec => []Concert!ShelfIsTheOneAsked
    /\ MCSpec => []ShelfIsTheOneAsked
<1>1. Concert!Init => ShelvesHold
  BY DEF Concert!Init, Concert!NoShelf, ShelvesHold, PerformerRows, ShelfRows, Underway,
         Concert!ShelfIsTheOneAsked
<1>2. ShelvesHold /\ Concert!Next => ShelvesHold'
  BY PerformerKeeps, EventsKeep, AskRejectKeeps, ExpireKeeps, Zenon DEF Concert!Next
<1>3. ShelvesHold /\ UNCHANGED concerts => ShelvesHold'
  BY DEF concerts, ShelvesHold, PerformerRows, ShelfRows, Underway, Concert!ShelfIsTheOneAsked
<1>4. ShelvesHold => Concert!ShelfIsTheOneAsked
  BY DEF ShelvesHold
<1>5. Concert!Spec => []Concert!ShelfIsTheOneAsked
  <2>1. ShelvesHold /\ [Concert!Next]_(Concert!vars) => ShelvesHold'
    BY <1>2, <1>3 DEF Concert!vars, concerts
  <2>2. QED
    BY <1>1, <1>4, <2>1, PTL DEF Concert!Spec
<1>6. MCInit => ShelvesHold
  BY <1>1, Zenon DEF MCInit
<1>7. ShelvesHold /\ [MCNext]_<<feedAll, part, catVars, adapters, concerts, pages>> => ShelvesHold'
  <2>1. MCNext => Concert!Next \/ UNCHANGED concerts
    BY Zenon DEF MCNext
  <2>2. QED
    BY <1>2, <1>3, <2>1
<1>8. ShelvesHold => ShelfIsTheOneAsked
  BY <1>4 DEF ShelfIsTheOneAsked
<1>9. MCSpec => []ShelfIsTheOneAsked
  BY <1>6, <1>7, <1>8, PTL DEF MCSpec
<1>10. QED
  BY <1>5, <1>9

=============================================================================
