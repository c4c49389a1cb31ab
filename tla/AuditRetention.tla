--------------------------- MODULE AuditRetention ---------------------------
(***************************************************************************)
(* The audit log's retention job, services/audit-retention.ts: rows lose   *)
(* their identifiers when they leave the window of full fidelity (earlier, *)
(* when their account was deleted), and anonymised rows are deleted at the *)
(* end of the tail.  Each batch is one autocommit statement; a run may be  *)
(* killed between any two of them, statements may fail, and runs may       *)
(* overlap, because the session lock is taken through a pooler.            *)
(*                                                                         *)
(* Time is the age of each row, saturated when every window has passed.    *)
(***************************************************************************)
EXTENDS SessionLocks, FiniteSets

CONSTANTS
    Rows,           \* audit_log rows that may exist at the same time
    Users,
    NoUser,         \* the user_id of a row without a subject
    PostDeletion,   \* postDeletionDays, at most FullFidelity
    FullFidelity,   \* fullFidelityDays, less than HardDelete
    HardDelete,     \* hardDeleteDays
    UsersPerBatch,
    RowsPerBatch,
    MaxBatches      \* maxBatchesPerStatement

VARIABLES
    log,        \* the table
    gone,       \* deletion_log: users whose account was deleted
    lock,       \* the job's advisory lock
    step,       \* the statement each run is at
    batch       \* batches the run has done of it

auditVars == <<log, gone, lock, step, batch>>

Subjects == Users \cup {NoUser}

(* A row is not written yet, carries its identifiers, is anonymised, or    *)
(* was deleted.  user is user_id; age is now() - created_at.               *)
AuditRow == [state : {"none", "raw", "anon", "deleted"},
             user : Subjects, age : 0 .. HardDelete + 1]

Unwritten == [state |-> "none", user |-> NoUser, age |-> 0]
Deleted == [state |-> "deleted", user |-> NoUser, age |-> 0]

Batched == {"deleted", "aged", "orphans", "hard"}
Steps == Batched \cup {"idle", "unlock"}

AuditTypeOK ==
    /\ log \in [Rows -> AuditRow]
    /\ gone \subseteq Users
    /\ lock \in Locks
    /\ step \in [Runs -> Steps]
    /\ batch \in [Runs -> 0 .. MaxBatches]

AuditInit ==
    /\ log = [i \in Rows |-> Unwritten]
    /\ gone = {}
    /\ lock = NoLock(Servers)
    /\ step = [r \in Runs |-> "idle"]
    /\ batch = [r \in Runs |-> 0]

-----------------------------------------------------------------------------
(* The statements, as the sets of rows one batch of them may touch.        *)

Raw == {i \in Rows : log[i].state = "raw"}
Older(i, days) == log[i].age > days

(* LIMIT: as many members of S as n allows.                                *)
Limited(S, n) ==
    {T \in SUBSET S : Cardinality(T) = IF Cardinality(S) < n
                                       THEN Cardinality(S) ELSE n}

(* ORDER BY created_at LIMIT: the oldest.                                  *)
Oldest(S, n) ==
    {T \in Limited(S, n) : \A i \in T, j \in S \ T : log[i].age >= log[j].age}

Victims(days, candidates) ==
    {u \in candidates : \E i \in Raw : log[i].user = u /\ Older(i, days)}

\* Mutant: as in section 5.4 of the policy, the UPDATE has no age predicate.
AnonymizeAllOf(days, candidates) ==
    {{i \in Raw : log[i].user \in T} :
        T \in Limited(Victims(days, candidates), UsersPerBatch)}

(* WITH victims ... UPDATE: the rows, past the window, of UsersPerBatch of *)
(* the users that have such rows.  LIMIT without ORDER BY takes any.       *)
AnonymizeOf(days, candidates) ==
    {{i \in Raw : log[i].user \in T /\ Older(i, days)} :
        T \in Limited(Victims(days, candidates), UsersPerBatch)}

\* Mutant: rows without a subject are left to the other two statements.
OrphansForgotten == {{}}

(* Rows that never had a subject.                                          *)
AnonymizeOrphans ==
    Oldest({i \in Raw : log[i].user = NoUser /\ Older(i, FullFidelity)},
           RowsPerBatch)

(* The anonymised tail.                                                    *)
HardDeletable ==
    Oldest({i \in Rows : log[i].state = "anon" /\ Older(i, HardDelete)},
           RowsPerBatch)

Batches(statement) ==
    CASE statement = "deleted" -> AnonymizeOf(PostDeletion, gone)
      [] statement = "aged"    -> AnonymizeOf(FullFidelity, Users)
      [] statement = "orphans" -> AnonymizeOrphans
      [] statement = "hard"    -> HardDeletable

After(statement) ==
    CASE statement = "deleted" -> "aged"
      [] statement = "aged"    -> "orphans"
      [] statement = "orphans" -> "hard"
      [] statement = "hard"    -> "unlock"

Anonymized(row) == [row EXCEPT !.state = "anon", !.user = NoUser]

-----------------------------------------------------------------------------
(* run.                                                                    *)

BeginRun(r) ==
    /\ step[r] = "idle"
    /\ \E s \in SessionsOf(r) : TryLock(lock, s, lock')
    /\ step' = [step EXCEPT ![r] = "deleted"]
    /\ batch' = [batch EXCEPT ![r] = 0]
    /\ UNCHANGED <<log, gone>>

NextStatement(r) ==
    /\ step' = [step EXCEPT ![r] = After(step[r])]
    /\ batch' = [batch EXCEPT ![r] = 0]

(* One batch of #batched.  An empty one ends the statement, and so does    *)
(* the last one allowed.                                                   *)
Batch(r) ==
    /\ step[r] \in Batched
    /\ \E T \in Batches(step[r]) :
        /\ log' = [i \in Rows |-> IF i \notin T THEN log[i]
                                  ELSE IF step[r] = "hard" THEN Deleted
                                  ELSE Anonymized(log[i])]
        /\ IF T = {} \/ batch[r] + 1 = MaxBatches
           THEN NextStatement(r)
           ELSE /\ batch' = [batch EXCEPT ![r] = @ + 1]
                /\ UNCHANGED step
    /\ UNCHANGED <<gone, lock>>

(* The statement fails, or does not say how many rows it touched: it ends, *)
(* and the sweep goes on with the next one.                                *)
BatchFails(r) ==
    /\ step[r] \in Batched
    /\ NextStatement(r)
    /\ UNCHANGED <<log, gone, lock>>

(* The unlock in finally, in whichever session the pooler chooses.         *)
FinishRun(r) ==
    /\ step[r] = "unlock"
    /\ \E s \in SessionsOf(r) : lock' = Unlock(lock, s)
    /\ step' = [step EXCEPT ![r] = "idle"]
    /\ UNCHANGED <<log, gone, batch>>

(* The process dies between two statements, or the unlock fails.  Through  *)
(* the pooler the server session outlives its client.                      *)
Die(r) ==
    /\ step[r] # "idle"
    /\ step' = [step EXCEPT ![r] = "idle"]
    /\ lock' = IF Pooled THEN lock ELSE EndSession(lock, r)
    /\ UNCHANGED <<log, gone, batch>>

(* The pooler retires a server session.                                    *)
Recycle(s) ==
    /\ Pooled
    /\ lock[s] > 0
    /\ lock' = EndSession(lock, s)
    /\ UNCHANGED <<log, gone, step, batch>>

(* The application writes an audit row.  The supply of rows is bounded.    *)
Write(i, u) ==
    /\ log[i] = Unwritten
    /\ log' = [log EXCEPT ![i] = [state |-> "raw", user |-> u, age |-> 0]]
    /\ UNCHANGED <<gone, lock, step, batch>>

(* An account is deleted; its audit rows stay.                             *)
DeleteAccount(u) ==
    /\ u \notin gone
    /\ gone' = gone \cup {u}
    /\ UNCHANGED <<log, lock, step, batch>>

Ageing == {i \in Rows : log[i].state \in {"raw", "anon"} /\ ~Older(i, HardDelete)}

Tick ==
    /\ Ageing # {}
    /\ log' = [i \in Rows |-> IF i \in Ageing
                              THEN [log[i] EXCEPT !.age = @ + 1] ELSE log[i]]
    /\ UNCHANGED <<gone, lock, step, batch>>

AuditNext ==
    \/ \E r \in Runs : \/ BeginRun(r) \/ Batch(r) \/ BatchFails(r)
                       \/ FinishRun(r) \/ Die(r)
    \/ \E s \in Servers : Recycle(s)
    \/ \E i \in Rows, u \in Subjects : Write(i, u)
    \/ \E u \in Users : DeleteAccount(u)
    \/ Tick

AuditSpec == AuditInit /\ [][AuditNext]_auditVars

(***************************************************************************)
(* The timer starts runs, a run that is started again and again gets each  *)
(* of its statements through now and then, and the pooler retires old      *)
(* sessions.  A run that finds the lock taken declines, which is a         *)
(* stutter.                                                                *)
(***************************************************************************)
AuditFairness ==
    /\ SF_auditVars(\E r \in Runs : BeginRun(r))
    /\ \A statement \in Batched :
        SF_auditVars(\E r \in Runs : step[r] = statement /\ Batch(r))
    /\ \A r \in Runs : WF_auditVars(Batch(r) \/ FinishRun(r))
    /\ \A s \in Servers : WF_auditVars(Recycle(s))

FairAuditSpec == AuditSpec /\ AuditFairness

-----------------------------------------------------------------------------

(***************************************************************************)
(* Evidence is kept.  A row loses its identifiers only after its own       *)
(* window, which is the shorter one only for a deleted account, whatever   *)
(* other rows its user has; and no row leaves the table before it was      *)
(* anonymised, so that one the anonymiser never reached stays visible.     *)
(* #sweep may be killed anywhere and run beside itself.                    *)
(***************************************************************************)
EvidenceKept ==
    [][\A i \in Raw :
        LET before == log[i]  after == log'[i] IN
        after.state # "raw" =>
            /\ after.state = "anon"
            /\ \/ before.age > FullFidelity
               \/ before.age > PostDeletion /\ before.user \in gone]_auditVars

(***************************************************************************)
(* The windows end.  No row keeps its identifiers for ever past the window *)
(* of full fidelity, and no anonymised row outlives the tail, although     *)
(* sessions of the pooler keep locks that nobody will release and runs are *)
(* killed or fail in the middle.                                           *)
(***************************************************************************)
WindowsEnd ==
    /\ \A i \in Rows :
        /\ i \in Raw /\ Older(i, FullFidelity) ~> i \notin Raw
        /\ log[i].state = "anon" /\ Older(i, HardDelete) ~> log[i].state = "deleted"

=============================================================================
