------------------------------ MODULE Erasure ------------------------------
(***************************************************************************)
(* Account erasure and what makes it survive a restore: apps/bff/src/      *)
(* services/deletion.ts and erasure-ledger.ts, the user.deleted webhook,   *)
(* sign-in's upsert of the local row, and infra/backup/pullfm-backup.sh    *)
(* (ledger-export, replay-deletions).                                      *)
(*                                                                         *)
(* An account is one WorkOS identity w.  Its local row has an id <<w, n>>, *)
(* n being fresh on every sign-in that creates the row.  The database is   *)
(* what a restore rolls back: the users rows and deletion_log.  The ledger *)
(* (R2) and the identity provider are not rolled back.  An action is one   *)
(* statement, transaction or remote call; the process may die between any  *)
(* two of them.                                                            *)
(***************************************************************************)
EXTENDS Integers, FiniteSets

CONSTANTS
    Accounts,       \* WorkOS identities
    Workers,        \* deletions that may run at once
    MaxRows,        \* bound: local rows created for one identity
    Configured      \* this deployment has an erasure ledger

ASSUME RowsAssumption == MaxRows \in Nat \ {0}
ASSUME ModeAssumption == Configured \in BOOLEAN

VARIABLES
    db,         \* users: the row of each account (0 for none); log: ids
    snap,       \* the point in time a restore would go back to
    ledger,     \* ids in the R2 erasure ledger
    identity,   \* accounts that exist at WorkOS
    hook,       \* accounts whose user.deleted event is not yet acknowledged
    signing,    \* accounts authenticated by WorkOS, not yet upserted
    job,        \* the deletion each worker runs
    rows,       \* history: rows created so far for each account
    erased,     \* history: ids whose DELETE has committed
    serving     \* FALSE between a restore and the end of its replay

vars == <<db, snap, ledger, identity, hook, signing, job, rows, erased,
          serving>>

Ids == Accounts \X (1 .. MaxRows)

Databases == [users : [Accounts -> 0 .. MaxRows], log : SUBSET Ids]

NoId == <<>>

(* A deletion: the step it has reached, the row it is for, whether the     *)
(* webhook started it.                                                     *)
Jobs == [stage : {"logged", "recorded", "erased", "told"},
         id : Ids, hooked : BOOLEAN]

NoJob == [stage |-> "none", id |-> NoId, hooked |-> FALSE]

TypeOK ==
    /\ db \in Databases
    /\ snap \in Databases
    /\ ledger \subseteq Ids
    /\ identity \subseteq Accounts
    /\ hook \subseteq Accounts
    /\ signing \subseteq Accounts
    /\ job \in [Workers -> Jobs \cup {NoJob}]
    /\ rows \in [Accounts -> 0 .. MaxRows]
    /\ erased \subseteq Ids
    /\ serving \in BOOLEAN

NoData == [users |-> [w \in Accounts |-> 0], log |-> {}]

Init ==
    /\ db = NoData
    /\ snap = NoData
    /\ ledger = {}
    /\ identity = Accounts
    /\ hook = {}
    /\ signing = {}
    /\ job = [k \in Workers |-> NoJob]
    /\ rows = [w \in Accounts |-> 0]
    /\ erased = {}
    /\ serving = TRUE

-----------------------------------------------------------------------------

(* Mutant: the id is derived from the identity, not fresh.                 *)
UpsertedSameId(w) ==
    IF db.users[w] = 0
    THEN /\ rows[w] < MaxRows
         /\ db' = [db EXCEPT !.users[w] = 1]
         /\ rows' = [rows EXCEPT ![w] = @ + 1]
    ELSE UNCHANGED <<db, rows>>

(* UserService.upsert: ON CONFLICT (workos_user_id) keeps the row there is.*)
Upserted(w) ==
    IF db.users[w] = 0
    THEN /\ rows[w] < MaxRows
         /\ db' = [db EXCEPT !.users[w] = rows[w] + 1]
         /\ rows' = [rows EXCEPT ![w] = @ + 1]
    ELSE UNCHANGED <<db, rows>>

(* The callback exchanges the code at WorkOS ...                           *)
Authenticate(w) ==
    /\ serving
    /\ w \in identity \ signing
    /\ signing' = signing \cup {w}
    /\ UNCHANGED <<db, snap, ledger, identity, hook, job, rows, erased, serving>>

(* ... and creates or finds the local row.                                 *)
Upsert(w) ==
    /\ serving
    /\ w \in signing
    /\ Upserted(w)
    /\ signing' = signing \ {w}
    /\ UNCHANGED <<snap, ledger, identity, hook, job, erased, serving>>

-----------------------------------------------------------------------------

(* deleteAccount, step 1: the request row of deletion_log.                 *)
Begin(k, w, hooked) ==
    /\ serving
    /\ job[k] = NoJob
    /\ db.users[w] # 0
    /\ db' = [db EXCEPT !.log = @ \cup {<<w, db.users[w]>>}]
    /\ job' = [job EXCEPT ![k] = [stage |-> "logged", id |-> <<w, db.users[w]>>,
                                  hooked |-> hooked]]

(* DELETE /v1/me by the account's own session.                             *)
RequestDeletion(k, w) ==
    /\ Begin(k, w, FALSE)
    /\ UNCHANGED <<snap, ledger, identity, hook, signing, rows, erased, serving>>

(* Step 2: the ledger object, HEAD before PUT.  Without a ledger the       *)
(* erasure goes ahead and its durability is left to the exporter.          *)
Record(k) ==
    /\ job[k].stage = "logged"
    /\ ledger' = IF Configured THEN ledger \cup {job[k].id} ELSE ledger
    /\ job' = [job EXCEPT ![k].stage = "recorded"]
    /\ UNCHANGED <<db, snap, identity, hook, signing, rows, erased, serving>>

(* Mutant: a ledger that cannot be written does not stop the erasure.      *)
RecordFailsOpen(k) ==
    /\ Configured
    /\ job[k].stage = "logged"
    /\ job' = [job EXCEPT ![k].stage = "recorded"]
    /\ UNCHANGED <<db, snap, ledger, identity, hook, signing, rows, erased,
                   serving>>

(* The ledger's write fails, or was made and its answer lost: 503, nothing *)
(* is deleted.  A webhook is not acknowledged and will be redelivered.     *)
RecordFails(k) ==
    /\ Configured
    /\ job[k].stage = "logged"
    /\ \/ UNCHANGED ledger
       \/ ledger' = ledger \cup {job[k].id}
    /\ job' = [job EXCEPT ![k] = NoJob]
    /\ UNCHANGED <<db, snap, identity, hook, signing, rows, erased, serving>>

(* Step 3: DELETE FROM users by id, with its cascade, in one transaction.  *)
Erase(k) ==
    /\ job[k].stage = "recorded"
    /\ db' = [db EXCEPT !.users =
                [w \in Accounts |-> IF <<w, @[w]>> = job[k].id THEN 0 ELSE @[w]]]
    /\ erased' = erased \cup {job[k].id}
    /\ job' = [job EXCEPT ![k].stage = "erased"]
    /\ UNCHANGED <<snap, ledger, identity, hook, signing, rows, serving>>

(* Step 4: WorkOS is told to delete the identity, 404 counting as done;    *)
(* a deletion there makes WorkOS send user.deleted ...                     *)
TellWorkOs(k) ==
    LET w == job[k].id[1]
    IN  /\ job[k].stage = "erased"
        /\ identity' = identity \ {w}
        /\ hook' = IF w \in identity THEN hook \cup {w} ELSE hook
        /\ job' = [job EXCEPT ![k].stage = "told"]
        /\ UNCHANGED <<db, snap, ledger, signing, rows, erased, serving>>

(* ... or the call fails, which is noted and not retried.                  *)
WorkOsFails(k) ==
    /\ job[k].stage = "erased"
    /\ job' = [job EXCEPT ![k].stage = "told"]
    /\ UNCHANGED <<db, snap, ledger, identity, hook, signing, rows, erased,
                   serving>>

(* The request row is completed and the caller, or the webhook, answered.  *)
Finish(k) ==
    /\ job[k].stage = "told"
    /\ hook' = IF job[k].hooked THEN hook \ {job[k].id[1]} ELSE hook
    /\ job' = [job EXCEPT ![k] = NoJob]
    /\ UNCHANGED <<db, snap, ledger, identity, signing, rows, erased, serving>>

(* The process dies, or a statement of the deletion throws: the caller     *)
(* sees an error and a webhook is not acknowledged.                        *)
Abandon(k) ==
    /\ job[k] # NoJob
    /\ job' = [job EXCEPT ![k] = NoJob]
    /\ UNCHANGED <<db, snap, ledger, identity, hook, signing, rows, erased,
                   serving>>

(* The identity is deleted at WorkOS, by its administrator.                *)
IdentityDeleted(w) ==
    /\ w \in identity
    /\ identity' = identity \ {w}
    /\ hook' = hook \cup {w}
    /\ UNCHANGED <<db, snap, ledger, signing, job, rows, erased, serving>>

(* A verified user.deleted event: deleteByWorkOsId looks the row up.       *)
Webhook(k, w) ==
    /\ w \in hook
    /\ Begin(k, w, TRUE)
    /\ UNCHANGED <<snap, ledger, identity, hook, signing, rows, erased, serving>>

(* There is no row: acknowledged, and WorkOS will not send it again.       *)
WebhookUnmatched(w) ==
    /\ serving
    /\ w \in hook
    /\ db.users[w] = 0
    /\ hook' = hook \ {w}
    /\ UNCHANGED <<db, snap, ledger, identity, signing, job, rows, erased,
                   serving>>

-----------------------------------------------------------------------------

(* Mutant: only erasures that went through are exported.                   *)
ExportErased(id) ==
    /\ id \in (db.log \cap erased) \ ledger
    /\ ledger' = ledger \cup {id}
    /\ UNCHANGED <<db, snap, identity, hook, signing, job, rows, erased, serving>>

(* ledger-export, on its timer: a row of deletion_log, completed or not,   *)
(* gets its ledger object.                                                 *)
Export(id) ==
    /\ id \in db.log \ ledger
    /\ ledger' = ledger \cup {id}
    /\ UNCHANGED <<db, snap, identity, hook, signing, job, rows, erased, serving>>

(* The point in time some later restore will go back to.                   *)
Snapshot ==
    /\ serving
    /\ snap # db
    /\ snap' = db
    /\ UNCHANGED <<db, ledger, identity, hook, signing, job, rows, erased,
                   serving>>

(* A restore, with the service stopped.                                    *)
Restore ==
    /\ serving
    /\ db' = snap
    /\ serving' = FALSE
    /\ job' = [k \in Workers |-> NoJob]
    /\ signing' = {}
    /\ UNCHANGED <<snap, ledger, identity, hook, rows, erased>>

(* replay-deletions: every ledger id leaves users and is in deletion_log.  *)
Replayed ==
    [users |-> [w \in Accounts |-> IF <<w, db.users[w]>> \in ledger
                                   THEN 0 ELSE db.users[w]],
     log   |-> db.log \cup ledger]

(* Its last check: no row of users is in deletion_log.                     *)
Clean(d) == \A w \in Accounts : <<w, d.users[w]>> \notin d.log

(* "DO NOT SERVE TRAFFIC" when the check fails: an unfinished request came *)
(* back with the log, and is in no ledger yet.                             *)
Replay ==
    /\ ~serving
    /\ db' = Replayed
    /\ serving' = Clean(Replayed)
    /\ UNCHANGED <<snap, ledger, identity, hook, signing, job, rows, erased>>

Next ==
    \/ \E w \in Accounts :
          \/ Authenticate(w) \/ Upsert(w)
          \/ IdentityDeleted(w) \/ WebhookUnmatched(w)
          \/ \E k \in Workers : RequestDeletion(k, w) \/ Webhook(k, w)
    \/ \E k \in Workers :
          \/ Record(k) \/ RecordFails(k) \/ Erase(k)
          \/ TellWorkOs(k) \/ WorkOsFails(k) \/ Finish(k) \/ Abandon(k)
    \/ \E id \in Ids : Export(id)
    \/ Snapshot \/ Restore \/ Replay

Spec == Init /\ [][Next]_vars

(* A sign-in that reached WorkOS goes on; the ledger is not unwritable for *)
(* ever and the transaction does not fail for ever, so a deletion that is  *)
(* tried again and again succeeds; WorkOS redelivers what was not          *)
(* acknowledged; the exporter's timer fires; an operator replays.          *)
Fairness ==
    /\ \A w \in Accounts :
          /\ WF_vars(Upsert(w))
          /\ WF_vars(WebhookUnmatched(w))
          /\ SF_vars(\E k \in Workers : Webhook(k, w))
    /\ \A k \in Workers :
          /\ SF_vars(Record(k))
          /\ SF_vars(Erase(k))
          /\ WF_vars(TellWorkOs(k) \/ WorkOsFails(k))
          /\ WF_vars(Finish(k))
    /\ WF_vars(\E id \in Ids : Export(id))
    /\ WF_vars(Replay)

FairSpec == Spec /\ Fairness

-----------------------------------------------------------------------------

(* deletion.ts: an erasure "survives a restore to any point".  With a      *)
(* ledger, no id whose rows were deleted is among the users of a system    *)
(* that serves traffic, whatever point in time was restored and wherever   *)
(* deletions were interrupted.                                             *)
NoResurrection ==
    Configured /\ serving =>
       \A w \in Accounts : <<w, db.users[w]>> \notin erased

(* "And put the record back, because the restore rolled that back too":    *)
(* a serving database holds the deletion_log row of every erasure.         *)
EvidenceSurvives == Configured /\ serving => erased \subseteq db.log

(* A restore gets back to serving traffic: the replay's last check cannot  *)
(* fail for ever on a request that was logged and then refused.            *)
RestoreCompletes == ~serving ~> serving

=============================================================================
