---------------------------- MODULE SessionLocks ----------------------------
(***************************************************************************)
(* Session-scoped advisory locks as the jobs use them, lib/db.ts:          *)
(* withConnection pins one client connection, tryAdvisoryLock and          *)
(* advisoryUnlock are one autocommit statement each on it.                 *)
(*                                                                         *)
(* A lock belongs to the SERVER session that executed the statement, is    *)
(* re-entrant there, and ends with that session.  The jobs connect through *)
(* DATABASE_URL, a PgBouncer in transaction mode (config.ts), which gives  *)
(* every transaction of a client connection whichever server session is    *)
(* free.  With Pooled = FALSE a process has one server session of its own, *)
(* as with DATABASE_URL_DIRECT.                                            *)
(*                                                                         *)
(* One lock key is a function from server sessions to the number of times  *)
(* the session holds it.                                                   *)
(***************************************************************************)
EXTENDS Naturals

CONSTANTS
    Runs,       \* invocations of a job
    Servers,    \* server sessions
    Pooled,     \* the client connection goes through the pooler; if not, a run
                \* is its own session (Runs is a subset of Servers)
    MaxHolds    \* bound: how often one session takes the lock on top of itself

Locks == [Servers -> 0 .. MaxHolds]

NoLock(sessions) == [s \in sessions |-> 0]

(* pg_try_advisory_lock in session s: l becomes m and the answer is TRUE.  *)
TryLock(l, s, m) ==
    /\ \A t \in Servers \ {s} : l[t] = 0
    /\ l[s] < MaxHolds
    /\ m = [l EXCEPT ![s] = @ + 1]

(* pg_advisory_unlock in session s: no effect where s does not hold it.    *)
Unlock(l, s) == [l EXCEPT ![s] = IF @ > 0 THEN @ - 1 ELSE 0]

(* The server session ends.                                                *)
EndSession(l, s) == [l EXCEPT ![s] = 0]

(* The sessions a statement of run r may be executed in.                   *)
SessionsOf(r) == IF Pooled THEN Servers ELSE {r}
=============================================================================
