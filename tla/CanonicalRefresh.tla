-------------------------- MODULE CanonicalRefresh --------------------------
(***************************************************************************)
(* The local copy of the MusicBrainz canonical dump: the scheduled job     *)
(* that spawns the loader (services/mb-canonical-refresh.ts), the loader   *)
(* with its staging table, gates, swap and load_state rows                 *)
(* (infra/mb-loader/mb-canonical-load.sh), and the store that reads the    *)
(* live table and goes quiet when it cannot (canonical-store.ts).          *)
(*                                                                         *)
(* The job holds its lock on a direct session.  The loader is a child      *)
(* process: when the job dies the lock is free and the loader goes on.     *)
(* Dumps are numbered in the order in which they are published.            *)
(***************************************************************************)
EXTENDS SessionLocks, FiniteSets

CONSTANTS
    Newest,         \* the last dump that is published
    Backoff,        \* unavailableBackoffMs
    MaxRestores     \* bound: restores from a backup, which leaves out mb

VARIABLES
    published,  \* the newest dump upstream
    lock,
    job,        \* of each run: idle, loading or unlocking
    loader,     \* its child: what it is at, its dump and its staging table
    live,       \* mb.canonical: the dump it holds and whether it is whole
    loads,      \* mb.load_state: whether a dump has a row, and one that is ok
    schema,     \* whether the mb schema exists
    quiet,      \* ms for which the store sends no query
    answer,     \* who answered the last lookup
    overtaken,  \* ghost: a swap replaced a newer dump by an older one
    restores

vars == <<published, lock, job, loader, live, loads, schema, quiet, answer,
          overtaken, restores>>

Dumps == 1 .. Newest
Content == {"none", "whole", "damaged", "short"}
Table == [dump : Dumps \cup {0}, content : Content]
EmptyTable == [dump |-> 0, content |-> "none"]
Steps == {"none", "choose", "gate", "copy", "verify", "index", "swap", "record"}
NoLoader == [at |-> "none", dump |-> 0, stage |-> "none"]
NoLoads == [d \in Dumps |-> {}]

TypeOK ==
    /\ published \in Dumps
    /\ lock \in Locks
    /\ job \in [Runs -> {"idle", "loading", "unlock"}]
    /\ loader \in [Runs -> [at : Steps, dump : Dumps \cup {0}, stage : Content]]
    /\ live \in Table
    /\ loads \in [Dumps -> SUBSET {"attempt", "ok"}]
    /\ schema \in BOOLEAN /\ overtaken \in BOOLEAN
    /\ quiet \in 0 .. Backoff
    /\ answer \in {"none", "local", "remote"}
    /\ restores \in 0 .. MaxRestores

Init ==
    /\ published = 1
    /\ lock = NoLock(Servers)
    /\ job = [r \in Runs |-> "idle"]
    /\ loader = [r \in Runs |-> NoLoader]
    /\ live = EmptyTable
    /\ loads = NoLoads
    /\ schema = TRUE
    /\ quiet = 0 /\ answer = "none" /\ overtaken = FALSE /\ restores = 0

store == <<quiet, answer>>
tables == <<live, loads, schema, overtaken, restores>>

-----------------------------------------------------------------------------
(* The job.                                                                *)

(* run: the lock, and the loader is spawned.                               *)
Begin(r) ==
    /\ job[r] = "idle" /\ loader[r] = NoLoader
    /\ TryLock(lock, r, lock')
    /\ job' = [job EXCEPT ![r] = "loading"]
    /\ loader' = [loader EXCEPT ![r].at = "choose"]
    /\ UNCHANGED <<published, tables, store>>

(* The loader has ended, with whatever code: #loadState, and finally.      *)
LoaderClosed(r) ==
    /\ job[r] = "loading" /\ loader[r] = NoLoader
    /\ job' = [job EXCEPT ![r] = "unlock"]
    /\ UNCHANGED <<published, lock, loader, tables, store>>

Finish(r) ==
    /\ job[r] = "unlock"
    /\ job' = [job EXCEPT ![r] = "idle"]
    /\ lock' = Unlock(lock, r)
    /\ UNCHANGED <<published, loader, tables, store>>

(* The job's process dies, and its session with it.  Its loader does not.  *)
JobDies(r) ==
    /\ job[r] # "idle"
    /\ job' = [job EXCEPT ![r] = "idle"]
    /\ lock' = EndSession(lock, r)
    /\ UNCHANGED <<published, loader, tables, store>>

-----------------------------------------------------------------------------
(* The loader.                                                             *)

At(r, step) == loader[r].at = step
Go(r, step) == loader' = [loader EXCEPT ![r].at = step]
Exit(r) == loader' = [loader EXCEPT ![r] = NoLoader]

(* 1: the newest dump of the listing; 2: its published digest.             *)
Choose(r) ==
    /\ At(r, "choose")
    /\ loader' = [loader EXCEPT ![r].at = "gate", ![r].dump = published]
    /\ UNCHANGED <<published, lock, job, tables, store>>

\* Mutant: any recorded attempt counts, so a load that died is never retried.
AlreadyTried(d) == "attempt" \in loads[d]

(* 3: status = 'ok' for this dump.                                         *)
AlreadyLoaded(d) == "ok" \in loads[d]

(* The dump is there already: exit 0.                                      *)
NothingToDo(r) ==
    /\ At(r, "gate") /\ schema
    /\ AlreadyLoaded(loader[r].dump)
    /\ Exit(r)
    /\ UNCHANGED <<published, lock, job, tables, store>>

(* 3 to 5: the schema exists, the dump is new, its licence is CC0; the     *)
(* attempt is recorded and the staging table created.                      *)
Stage(r) ==
    /\ At(r, "gate") /\ schema
    /\ ~AlreadyLoaded(loader[r].dump)
    /\ loads' = [loads EXCEPT ![loader[r].dump] = @ \cup {"attempt"}]
    /\ Go(r, "copy")
    /\ UNCHANGED <<published, lock, job, live, schema, overtaken, restores, store>>

(* 6: the stream is copied into the staging table.  What arrives may be    *)
(* damaged or cut without any process of the pipeline noticing.            *)
Copy(r) ==
    /\ At(r, "copy")
    /\ \E c \in Content \ {"none"} :
        loader' = [loader EXCEPT ![r].at = "verify", ![r].stage = c]
    /\ UNCHANGED <<published, lock, job, tables, store>>

\* Mutant: the digest is computed and not compared.
VerifiedByCount(c) == c # "short"

(* 7: the digest of what was streamed; 8: the floor of rows.               *)
Verified(c) == c = "whole"

Verify(r) ==
    /\ At(r, "verify")
    /\ Verified(loader[r].stage)
    /\ Go(r, "index")
    /\ UNCHANGED <<published, lock, job, tables, store>>

(* 9: the indexes.                                                         *)
Index(r) ==
    /\ At(r, "index")
    /\ Go(r, "swap")
    /\ UNCHANGED <<published, lock, job, tables, store>>

(* 10: one transaction, which replaces whatever is live.                   *)
Swap(r) ==
    /\ At(r, "swap") /\ schema
    /\ live' = [dump |-> loader[r].dump, content |-> loader[r].stage]
    /\ overtaken' = (overtaken \/ live.dump > loader[r].dump)
    /\ loader' = [loader EXCEPT ![r].at = "record", ![r].stage = "none"]
    /\ UNCHANGED <<published, lock, job, loads, schema, restores, store>>

(* 11: the attempt is recorded as ok.                                      *)
Record(r) ==
    /\ At(r, "record")
    /\ loads' = [loads EXCEPT ![loader[r].dump] = @ \cup {"ok"}]
    /\ Exit(r)
    /\ UNCHANGED <<published, lock, job, live, schema, overtaken, restores, store>>

(* die in any step, or SIGTERM from the job's timeout: the EXIT trap drops *)
(* the staging table and marks the attempt failed.  SIGKILL or a lost      *)
(* host: no trap, the attempt stays 'running' and the staging table, named *)
(* after the process, stays behind.  No later query tells these apart.     *)
LoaderFails(r) ==
    /\ loader[r].at # "none"
    /\ Exit(r)
    /\ UNCHANGED <<published, lock, job, tables, store>>

-----------------------------------------------------------------------------
(* The database and the readers.                                           *)

(* Upstream publishes a dump.                                              *)
Publish ==
    /\ published < Newest
    /\ published' = published + 1
    /\ UNCHANGED <<lock, job, loader, tables, store>>

(* A restore from a backup, which excludes the whole schema; sessions end, *)
(* and with them every load that was going on.                             *)
Restore ==
    /\ restores < MaxRestores
    /\ restores' = restores + 1
    /\ schema' = FALSE
    /\ live' = EmptyTable
    /\ loads' = NoLoads
    /\ loader' = [r \in Runs |-> NoLoader]
    /\ lock' = NoLock(Servers)
    /\ UNCHANGED <<published, job, overtaken, store>>

(* Migration 0007 creates the schema with empty tables.                    *)
Migrate ==
    /\ ~schema
    /\ schema' = TRUE
    /\ UNCHANGED <<published, lock, job, loader, live, loads, overtaken, restores, store>>

(* #run of the store: quiet, or the query fails and the store goes quiet,  *)
(* or it is answered; a miss is asked of MusicBrainz.                      *)
Lookup ==
    /\ \/ /\ quiet > 0
          /\ answer' = "remote" /\ UNCHANGED quiet
       \/ /\ quiet = 0 /\ ~schema
          /\ answer' = "remote" /\ quiet' = Backoff
       \/ /\ quiet = 0 /\ schema
          /\ answer' = IF live = EmptyTable THEN "remote" ELSE "local"
          /\ UNCHANGED quiet
    /\ UNCHANGED <<published, lock, job, loader, tables>>

Tick ==
    /\ quiet > 0
    /\ quiet' = quiet - 1
    /\ UNCHANGED <<published, lock, job, loader, tables, answer>>

LoaderStep(r) ==
    \/ Choose(r) \/ NothingToDo(r) \/ Stage(r) \/ Copy(r) \/ Verify(r)
    \/ Index(r) \/ Swap(r) \/ Record(r)

Next ==
    \/ \E r \in Runs :
        \/ Begin(r) \/ LoaderClosed(r) \/ Finish(r) \/ JobDies(r)
        \/ LoaderStep(r) \/ LoaderFails(r)
    \/ Publish \/ Restore \/ Migrate \/ Lookup \/ Tick

Spec == Init /\ [][Next]_vars

(***************************************************************************)
(* The timer starts jobs, a job that is left alone goes on, dumps are      *)
(* published, the schema is migrated, lookups come and time passes.  A     *)
(* loader may fail at any step, again and again, but each of its steps     *)
(* goes through now and then, and the download is sound now and then.      *)
(***************************************************************************)
Fairness ==
    /\ SF_vars(\E r \in Runs : Begin(r))
    /\ \A r \in Runs : WF_vars(LoaderClosed(r) \/ Finish(r))
    /\ \A r \in Runs : WF_vars(LoaderStep(r) \/ LoaderFails(r))
    /\ \A step \in {"choose", "gate", "verify", "index", "swap", "record"} :
        SF_vars(\E r \in Runs : At(r, step) /\ LoaderStep(r))
    /\ SF_vars(\E r \in Runs : Copy(r) /\ loader'[r].stage = "whole")
    /\ WF_vars(Publish) /\ WF_vars(Migrate) /\ WF_vars(Lookup) /\ WF_vars(Tick)

FairSpec == Spec /\ Fairness

-----------------------------------------------------------------------------

(***************************************************************************)
(* Readers only ever see a whole, verified dump or none: whatever arrives, *)
(* dies or is killed, no lookup is answered from a table that was cut,     *)
(* damaged or below the floor.  The staging table, the gates and the swap. *)
(***************************************************************************)
NeverPartial == live = EmptyTable \/ live.content = "whole"

(***************************************************************************)
(* The newest dump is served in the end and lookups are answered from it,  *)
(* although loads die before or after the swap, jobs die and leave their   *)
(* loader running without the lock, and a restore drops the schema.  The   *)
(* one exception is a loader without its job that overtakes a newer one:   *)
(* the newer dump then counts as loaded and the older one stays.           *)
(***************************************************************************)
CatchesUp ==
    \/ <>overtaken
    \/ <>[](live.dump = Newest) /\ []<>(answer = "local")
=============================================================================
