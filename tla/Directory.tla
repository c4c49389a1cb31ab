----------------------------- MODULE Directory -----------------------------
(***************************************************************************)
(* Sign-in by magic code and the job that cleans up after it: routes/v1/   *)
(* auth.ts, services/magic-auth.ts, services/workos.ts and services/       *)
(* directory-reaper.ts.  Asking for a code CREATES an unverified identity  *)
(* in the WorkOS directory; the reaper deletes identities that nobody      *)
(* verified within ReapAfter.                                              *)
(*                                                                         *)
(* Identities are numbered in the order of their creation, which is the    *)
(* order WorkOS lists them in.  An action is one remote call or one SQL    *)
(* statement.  The send and verify budgets are not modelled here: they     *)
(* bound how often RequestCode and Verify happen, not what they do.  What  *)
(* follows from a deletion at WorkOS is the subject of module Erasure.     *)
(***************************************************************************)
EXTENDS SessionLocks, Integers, Sequences, FiniteSets, FiniteSetsExt

CONSTANTS
    Addresses,      \* email addresses
    MaxIds,         \* bound: identities ever created
    ReapAfter,      \* reapAfterSeconds, in ticks
    PageSize,       \* identities per listed page
    MaxPages,       \* pages one sweep walks
    MaxDeletions,   \* deletions one sweep makes
    MaxFaults,      \* bound: sweeps broken off before their end
    Stubborn        \* identities WorkOS refuses to delete

ASSUME SweepPolicy ==
    /\ MaxIds \in Nat
    /\ MaxFaults \in Nat
    /\ ReapAfter \in Nat \ {0}
    /\ PageSize \in Nat \ {0}
    /\ MaxPages \in Nat \ {0}
    /\ MaxDeletions \in Nat \ {0}
    /\ MaxHolds \in Nat

VARIABLES
    owner,      \* the address each identity was created for, in order
    dir,        \* identities in the WorkOS directory
    verified,   \* identities with email_verified
    age,        \* of each identity, saturated at ReapAfter
    signing,    \* identities authenticated, local row not yet written
    users,      \* identities with a local users row
    lock,       \* the reaper's advisory lock
    sweep,      \* each run's progress
    faults      \* history: sweeps broken off

vars == <<owner, dir, verified, age, signing, users, lock, sweep, faults>>

Ids == 1 .. MaxIds

(* old: past the cutoff computed when the sweep began.  todo: eligible     *)
(* entries of the page, not yet handled.  more: the page's cursor is not   *)
(* null.  seen (history): the page's entries that were verified.           *)
Sweeps == [stage   : {"idle", "list", "check", "delete"},
           old     : SUBSET Ids,
           todo    : SUBSET Ids,
           seen    : SUBSET Ids,
           after   : 0 .. MaxIds,
           more    : BOOLEAN,
           pages   : 0 .. MaxPages,
           deleted : 0 .. MaxDeletions]

Idle == [stage |-> "idle", old |-> {}, todo |-> {}, seen |-> {}, after |-> 0,
         more |-> FALSE, pages |-> 0, deleted |-> 0]

TypeOK ==
    /\ DOMAIN owner \subseteq Ids /\ \A i \in DOMAIN owner : owner[i] \in Addresses
    /\ dir \subseteq DOMAIN owner
    /\ verified \subseteq DOMAIN owner
    /\ age \in [Ids -> 0 .. ReapAfter]
    /\ signing \subseteq verified
    /\ users \subseteq verified
    /\ lock \in Locks
    /\ sweep \in [Runs -> Sweeps]
    /\ faults \in 0 .. MaxFaults

Init ==
    /\ owner = <<>>
    /\ dir = {}
    /\ verified = {}
    /\ age = [i \in Ids |-> 0]
    /\ signing = {}
    /\ users = {}
    /\ lock = NoLock(Servers)
    /\ sweep = [s \in Runs |-> Idle]
    /\ faults = 0

-----------------------------------------------------------------------------

IdentityOf(a) == {i \in dir : owner[i] = a}

(* POST /auth/start: WorkOS mails a code, creating the identity if the     *)
(* address has none.  A further code for an identity that is there changes *)
(* nothing in the directory.                                               *)
RequestCode(a) ==
    /\ IdentityOf(a) = {}
    /\ Len(owner) < MaxIds
    /\ owner' = Append(owner, a)
    /\ dir' = dir \cup {Len(owner) + 1}
    /\ UNCHANGED <<verified, age, signing, users, lock, sweep, faults>>

(* POST /auth/verify: with a code, of which there may be one for every     *)
(* identity at any time, the exchange at WorkOS proves control of the      *)
(* mailbox.                                                                *)
Verify(i) ==
    /\ i \in dir
    /\ verified' = verified \cup {i}
    /\ signing' = signing \cup {i}
    /\ UNCHANGED <<owner, dir, age, users, lock, sweep, faults>>

(* establish: the local row is created or refreshed.                       *)
Establish(i) ==
    /\ i \in signing
    /\ signing' = signing \ {i}
    /\ users' = users \cup {i}
    /\ UNCHANGED <<owner, dir, verified, age, lock, sweep, faults>>

(* The node dies before it gets there.                                     *)
SignInLost(i) ==
    /\ i \in signing
    /\ signing' = signing \ {i}
    /\ UNCHANGED <<owner, dir, verified, age, users, lock, sweep, faults>>

-----------------------------------------------------------------------------

(* run: the advisory lock, or decline; the cutoff is taken from the clock  *)
(* once.                                                                   *)
Begin(s) ==
    /\ sweep[s].stage = "idle"
    /\ \E t \in SessionsOf(s) : TryLock(lock, t, lock')
    /\ sweep' = [sweep EXCEPT ![s] =
                   [Idle EXCEPT !.stage = "list",
                                !.old = {i \in dir : age[i] >= ReapAfter}]]
    /\ UNCHANGED <<owner, dir, verified, age, signing, users, faults>>

(* listUsers: the first PageSize identities after the cursor.              *)
Page(after) ==
    LET rest == {i \in dir : i > after}
    IN  {i \in rest : Cardinality({j \in rest : j <= i}) <= PageSize}

(* Mutant: the age alone decides.                                          *)
EligibleByAge(i, old) == i \in old

(* DirectoryReaper.eligible: unverified when listed, and past the cutoff.  *)
Eligible(i, old) == i \in old /\ i \notin verified

List(s) ==
    LET page == Page(sweep[s].after)
        last == IF page = {} THEN sweep[s].after ELSE Max(page)
    IN  /\ sweep[s].stage = "list"
        /\ sweep' = [sweep EXCEPT
              ![s].stage = "check",
              ![s].todo  = {i \in page : Eligible(i, sweep[s].old)},
              ![s].seen  = page \cap verified,
              ![s].after = last,
              ![s].more  = \E i \in dir : i > last,
              ![s].pages = @ + 1]
        /\ UNCHANGED <<owner, dir, verified, age, signing, users, lock, faults>>

(* The run ends, with the unlock in finally, in whichever session the      *)
(* pooler chooses.                                                         *)
Stop(s) ==
    /\ \E t \in SessionsOf(s) : lock' = Unlock(lock, t)
    /\ sweep' = [sweep EXCEPT ![s] = Idle]
    /\ UNCHANGED <<owner, dir, verified, age, signing, users>>

(* A listing that fails ends the run.                                      *)
ListFails(s) ==
    /\ sweep[s].stage = "list"
    /\ faults < MaxFaults
    /\ faults' = faults + 1
    /\ Stop(s)

(* The next candidate: one with a local row is left alone, and so is every *)
(* one past the cap.                                                       *)
Check(s) ==
    LET i == Min(sweep[s].todo)
    IN  /\ sweep[s].stage = "check"
        /\ sweep[s].todo # {}
        /\ sweep' = IF i \in users \/ sweep[s].deleted >= MaxDeletions
                    THEN [sweep EXCEPT ![s].todo = @ \ {i}]
                    ELSE [sweep EXCEPT ![s].stage = "delete"]
        /\ UNCHANGED <<owner, dir, verified, age, signing, users, lock, faults>>

(* deleteUser: gone, or gone already (404).                                *)
Delete(s) ==
    LET i == Min(sweep[s].todo)
    IN  /\ sweep[s].stage = "delete"
        /\ i \notin Stubborn
        /\ dir' = dir \ {i}
        /\ sweep' = [sweep EXCEPT ![s].stage = "check", ![s].todo = @ \ {i},
                                  ![s].deleted = @ + 1]
        /\ UNCHANGED <<owner, verified, age, signing, users, lock, faults>>

(* Mutant: a refused deletion uses up the cap like a successful one.       *)
DeleteFailsCounted(s) ==
    /\ sweep[s].stage = "delete"
    /\ sweep' = [sweep EXCEPT ![s].stage = "check",
                              ![s].todo = @ \ {Min(sweep[s].todo)},
                              ![s].deleted = @ + 1]
    /\ UNCHANGED <<owner, dir, verified, age, signing, users, lock, faults>>

(* deleteUser is refused or does not answer: counted as failed, and left   *)
(* to the next run.                                                        *)
DeleteFails(s) ==
    /\ sweep[s].stage = "delete"
    /\ sweep' = [sweep EXCEPT ![s].stage = "check",
                              ![s].todo = @ \ {Min(sweep[s].todo)}]
    /\ UNCHANGED <<owner, dir, verified, age, signing, users, lock, faults>>

(* The page is done: another one, unless there is none or MaxPages is hit. *)
Continue(s) ==
    /\ sweep[s].stage = "check"
    /\ sweep[s].todo = {}
    /\ sweep[s].more /\ sweep[s].pages < MaxPages
    /\ sweep' = [sweep EXCEPT ![s].stage = "list"]
    /\ UNCHANGED <<owner, dir, verified, age, signing, users, lock, faults>>

Finish(s) ==
    /\ sweep[s].stage = "check"
    /\ sweep[s].todo = {}
    /\ ~(sweep[s].more /\ sweep[s].pages < MaxPages)
    /\ Stop(s)
    /\ UNCHANGED faults

(* The process dies, or the unlock fails.  Through the pooler the server   *)
(* session outlives its client.                                            *)
Crash(s) ==
    /\ sweep[s].stage # "idle"
    /\ faults < MaxFaults
    /\ faults' = faults + 1
    /\ lock' = IF Pooled THEN lock ELSE EndSession(lock, s)
    /\ sweep' = [sweep EXCEPT ![s] = Idle]
    /\ UNCHANGED <<owner, dir, verified, age, signing, users>>

(* The pooler retires a server session.                                    *)
Recycle(t) ==
    /\ Pooled
    /\ lock[t] > 0
    /\ lock' = EndSession(lock, t)
    /\ UNCHANGED <<owner, dir, verified, age, signing, users, sweep, faults>>

Tick ==
    /\ \E i \in dir : age[i] < ReapAfter
    /\ age' = [i \in Ids |-> IF i \in dir /\ age[i] < ReapAfter THEN age[i] + 1
                                                                ELSE age[i]]
    /\ UNCHANGED <<owner, dir, verified, signing, users, lock, sweep, faults>>

Next ==
    \/ \E a \in Addresses : RequestCode(a)
    \/ \E i \in Ids : Verify(i) \/ Establish(i) \/ SignInLost(i)
    \/ \E s \in Runs :
          \/ Begin(s) \/ List(s) \/ ListFails(s) \/ Check(s) \/ Delete(s)
          \/ DeleteFails(s) \/ Continue(s) \/ Finish(s) \/ Crash(s)
    \/ \E t \in Servers : Recycle(t)
    \/ Tick

Spec == Init /\ [][Next]_vars

Step(s) ==
    \/ List(s) \/ Check(s) \/ Delete(s) \/ DeleteFails(s) \/ Continue(s)
    \/ Finish(s)

(* The timer starts the job again and again, a sweep that is not broken    *)
(* off goes on, the pooler retires old sessions, and WorkOS does not       *)
(* refuse for ever to delete an identity that is not stubborn.             *)
FairSpec ==
    /\ Spec
    /\ WF_vars(Tick)
    /\ SF_vars(\E s \in Runs : Begin(s))
    /\ \A t \in Servers : WF_vars(Recycle(t))
    /\ \A s \in Runs : WF_vars(Step(s))
    /\ \A i \in Ids \ Stubborn :
          SF_vars(\E s \in Runs : /\ sweep[s].todo # {}
                                     /\ Min(sweep[s].todo) = i
                                     /\ Delete(s))

-----------------------------------------------------------------------------

(* Rules 1 and 2 of the reaper: an identity leaves the directory only by   *)
(* the hand of a run that itself listed it as unverified and past the      *)
(* cutoff, also when runs overlap because the pooler lost their lock, and  *)
(* when no local row protects it because the sign-in died before writing   *)
(* one.                                                                    *)
ListedVerifiedSurvives ==
    [][\A i \in dir \ dir' : \E s \in Runs :
          /\ Delete(s)
          /\ i \in sweep[s].old
          /\ i \notin sweep[s].seen]_vars

(* What the reaper is for: an identity nobody verifies does not stay, even *)
(* with the cap and with identities WorkOS refuses to delete in front of   *)
(* it ("one stubborn identity must not protect every other"), as long as   *)
(* MaxPages pages hold the directory.                                      *)
Reaped ==
    \A i \in Ids \ Stubborn :
       (i \in dir /\ i \notin verified) ~> (i \notin dir \/ i \in verified)

=============================================================================
