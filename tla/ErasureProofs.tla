--------------------------- MODULE ErasureProofs ---------------------------
(***************************************************************************)
(* Proofs about account erasure, for every set of accounts, every number   *)
(* of concurrent deletions and every number of rows an account ever has.   *)
(*                                                                         *)
(* That nothing erased is served again is not inductive by itself.  It     *)
(* rests on the order of deleteAccount's steps (Ordered): the request row  *)
(* and the ledger object precede the DELETE, so a restored database can be *)
(* cleaned from the ledger; and on ids being new (Numbered): a person who  *)
(* returns after an erasure is not taken for the one who was erased.       *)
(*                                                                         *)
(* The audit log has its own lifecycle, module AuditRetention, for any     *)
(* windows and any number of runs, with or without a working lock.         *)
(***************************************************************************)
EXTENDS Erasure, AuditRetention, TLAPS

(* An id that was given to a row, n counting the rows of each account.     *)
Issued(id, n) == id \in Ids /\ id[2] <= n[id[1]]

Numbered ==
    /\ \A w \in Accounts : db.users[w] <= rows[w] /\ snap.users[w] <= rows[w]
    /\ \A id \in erased : Issued(id, rows)
    /\ \A k \in Workers : job[k] # NoJob => Issued(job[k].id, rows)

Ordered ==
    /\ erased \subseteq ledger
    /\ \A k \in Workers : job[k] # NoJob => serving /\ job[k].id \in db.log
    /\ \A k \in Workers :
          job[k].stage \in {"recorded", "erased", "told"} => job[k].id \in ledger

Safe == Configured => Ordered /\ NoResurrection /\ EvidenceSurvives

IInv == TypeOK /\ Numbered /\ Safe

-----------------------------------------------------------------------------

(* A deletion under way has an id of its account, and no deletion has none.*)
LEMMA JobFacts ==
    ASSUME TypeOK, NEW k \in Workers
    PROVE  /\ job[k] # NoJob => job[k] \in Jobs
           /\ job[k] # NoJob => job[k].id[1] \in Accounts
           /\ job[k].stage # "none" <=> job[k] # NoJob
           /\ NoJob.stage = "none"
<1>1. job[k] \in Jobs \cup {NoJob}
  BY DEF TypeOK
<1>2. NoJob.stage = "none"
  BY DEF NoJob
<1>3. ASSUME job[k] \in Jobs PROVE job[k].stage # "none" /\ job[k].id[1] \in Accounts
  BY <1>3 DEF Jobs, Ids
<1>4. QED
  BY <1>1, <1>2, <1>3

(* Initially there is nothing to erase or to restore.                      *)
LEMMA InitHolds == Init => IInv
<1> SUFFICES ASSUME Init PROVE IInv
  OBVIOUS
<1>1. NoData \in Databases
  BY RowsAssumption DEF NoData, Databases
<1>2. TypeOK
  BY <1>1, RowsAssumption DEF Init, TypeOK
<1>3. Numbered
  BY RowsAssumption DEF Init, Numbered, NoData
<1>4. Safe
  BY DEF Init, Safe, Ordered, NoResurrection, EvidenceSurvives, NoData, NoJob
<1>5. QED
  BY <1>2, <1>3, <1>4 DEF IInv

-----------------------------------------------------------------------------

(* Steps that leave the database, its restore point and the history alone: *)
(* each deletion stays, ends, or moves on under the id it has, with that   *)
(* id in the ledger by then.                                               *)
LEMMA QuietKeeps ==
    ASSUME IInv, TypeOK',
           UNCHANGED <<db, snap, rows, erased, serving>>,
           ledger \subseteq ledger',
           \A k \in Workers :
              \/ job'[k] = job[k]
              \/ job'[k] = NoJob
              \/ /\ job[k] # NoJob
                 /\ job'[k].id = job[k].id
                 /\ Configured => job[k].id \in ledger'
    PROVE  IInv'
<1>1. Numbered'
  <2>1. ASSUME NEW k \in Workers, job'[k] # NoJob PROVE Issued(job'[k].id, rows)
    BY <2>1 DEF IInv, Numbered
  <2>2. QED
    BY <2>1 DEF IInv, Numbered
<1>2. ASSUME Configured PROVE Ordered'
  <2>1. Ordered
    BY <1>2 DEF IInv, Safe
  <2>2. ASSUME NEW k \in Workers, job'[k] # NoJob
        PROVE  serving' /\ job'[k].id \in db'.log
    BY <2>1, <2>2 DEF Ordered
  <2>3. ASSUME NEW k \in Workers, job'[k].stage \in {"recorded", "erased", "told"}
        PROVE  job'[k].id \in ledger'
    BY <1>2, <2>1, <2>3 DEF Ordered, NoJob
  <2>4. QED
    BY <2>1, <2>2, <2>3 DEF Ordered
<1>3. Safe'
  BY <1>2 DEF IInv, Safe, NoResurrection, EvidenceSurvives
<1>4. QED
  BY <1>1, <1>3 DEF IInv

(* A deletion that moves on keeps its type.                                *)
LEMMA StageTyped ==
    ASSUME TypeOK, NEW k \in Workers, job[k] # NoJob,
           NEW s \in {"recorded", "erased", "told"}
    PROVE  [job EXCEPT ![k].stage = s] \in [Workers -> Jobs \cup {NoJob}]
<1>1. job[k] \in Jobs /\ job \in [Workers -> Jobs \cup {NoJob}]
  BY JobFacts DEF TypeOK
<1>2. [job[k] EXCEPT !.stage = s] \in Jobs
  BY <1>1 DEF Jobs
<1>3. QED
  BY <1>1, <1>2

(* Sign-in at WorkOS, events, exports: nothing of the above is touched.    *)
LEMMA AuthenticateKeeps ==
    ASSUME IInv, NEW w \in Accounts, Authenticate(w) PROVE IInv'
<1>1. TypeOK'
  BY DEF IInv, TypeOK, Authenticate
<1>2. QED
  BY <1>1, QuietKeeps DEF Authenticate

(* An administrator deletes the identity.                                  *)
LEMMA IdentityDeletedKeeps ==
    ASSUME IInv, NEW w \in Accounts, IdentityDeleted(w) PROVE IInv'
<1>1. TypeOK'
  BY DEF IInv, TypeOK, IdentityDeleted
<1>2. QED
  BY <1>1, QuietKeeps DEF IdentityDeleted

(* An event without a row is acknowledged.                                 *)
LEMMA WebhookUnmatchedKeeps ==
    ASSUME IInv, NEW w \in Accounts, WebhookUnmatched(w) PROVE IInv'
<1>1. TypeOK'
  BY DEF IInv, TypeOK, WebhookUnmatched
<1>2. QED
  BY <1>1, QuietKeeps DEF WebhookUnmatched

(* The exporter writes a ledger object.                                    *)
LEMMA ExportKeeps ==
    ASSUME IInv, NEW id \in Ids, Export(id) PROVE IInv'
<1>1. TypeOK'
  BY DEF IInv, TypeOK, Export
<1>2. QED
  BY <1>1, QuietKeeps DEF Export

(* Step 2 of deleteAccount: from here on the id is in the ledger.          *)
LEMMA RecordKeeps ==
    ASSUME IInv, NEW k \in Workers, Record(k) PROVE IInv'
<1>1. TypeOK /\ job[k] # NoJob /\ job[k] \in Jobs
  BY JobFacts DEF IInv, Record
<1>2. job[k].id \in Ids
  BY <1>1 DEF Jobs
<1>3. TypeOK'
  BY <1>1, <1>2, StageTyped DEF TypeOK, Record
<1>4. \A j \in Workers : job'[j] = job[j] \/ (j = k /\ job'[j].id = job[k].id)
  BY <1>1 DEF TypeOK, Record, Jobs
<1>5. ledger \subseteq ledger' /\ (Configured => job[k].id \in ledger')
  BY DEF Record
<1>6. QED
  BY <1>1, <1>3, <1>4, <1>5, QuietKeeps DEF Record

(* A ledger that cannot be written ends the deletion.                      *)
LEMMA RecordFailsKeeps ==
    ASSUME IInv, NEW k \in Workers, RecordFails(k) PROVE IInv'
<1>1. TypeOK /\ job[k] # NoJob /\ job[k] \in Jobs
  BY JobFacts DEF IInv, RecordFails
<1>2. job[k].id \in Ids
  BY <1>1 DEF Jobs
<1>3. TypeOK'
  BY <1>1, <1>2 DEF TypeOK, RecordFails
<1>4. QED
  BY <1>1, <1>3, QuietKeeps DEF TypeOK, RecordFails

(* Step 4: WorkOS is told, or does not listen.                             *)
LEMMA TellWorkOsKeeps ==
    ASSUME IInv, NEW k \in Workers, TellWorkOs(k) \/ WorkOsFails(k) PROVE IInv'
<1>1. TypeOK /\ job[k] # NoJob /\ job[k] \in Jobs /\ job[k].id[1] \in Accounts
  BY JobFacts DEF IInv, TellWorkOs, WorkOsFails
<1>2. job' = [job EXCEPT ![k].stage = "told"]
  BY DEF TellWorkOs, WorkOsFails
<1>3. TypeOK'
  BY <1>1, <1>2, StageTyped DEF TypeOK, TellWorkOs, WorkOsFails
<1>4. \A j \in Workers : job'[j] = job[j] \/ (j = k /\ job'[j].id = job[k].id)
  BY <1>1, <1>2 DEF TypeOK, Jobs
<1>5. Configured => job[k].id \in ledger
  BY DEF IInv, Safe, Ordered, TellWorkOs, WorkOsFails
<1>6. QED
  BY <1>1, <1>3, <1>4, <1>5, QuietKeeps DEF TellWorkOs, WorkOsFails

(* The answer, or a death on the way.                                      *)
LEMMA EndKeeps ==
    ASSUME IInv, NEW k \in Workers, Finish(k) \/ Abandon(k) PROVE IInv'
<1>1. TypeOK'
  BY DEF IInv, TypeOK, Finish, Abandon
<1>2. QED
  BY <1>1, QuietKeeps DEF IInv, TypeOK, Finish, Abandon

-----------------------------------------------------------------------------

(* A larger count of rows only issues more ids.                            *)
LEMMA IssuedGrows ==
    ASSUME NEW m \in [Accounts -> Nat], NEW n \in [Accounts -> Nat],
           \A w \in Accounts : m[w] <= n[w],
           NEW id, Issued(id, m)
    PROVE  Issued(id, n)
<1>1. id[1] \in Accounts /\ id[2] \in Nat
  BY RowsAssumption DEF Issued, Ids
<1>2. QED
  BY <1>1 DEF Issued

(* Sign-in creates a row under an id nobody had, or keeps the one there is.*)
LEMMA UpsertKeeps ==
    ASSUME IInv, NEW w \in Accounts, Upsert(w) PROVE IInv'
<1>1. TypeOK /\ Numbered /\ Safe
  BY DEF IInv
<1>2. CASE db.users[w] # 0
  <2>1. UNCHANGED <<db, snap, rows, erased, serving, ledger, job>>
    BY <1>2 DEF Upsert, Upserted
  <2>2. TypeOK'
    BY <1>1, <2>1 DEF TypeOK, Upsert
  <2>3. QED
    BY <2>1, <2>2, QuietKeeps
<1>3. CASE db.users[w] = 0
  <2>1. /\ rows[w] < MaxRows
        /\ db' = [db EXCEPT !.users[w] = rows[w] + 1]
        /\ rows' = [rows EXCEPT ![w] = @ + 1]
        /\ UNCHANGED <<snap, ledger, identity, hook, job, erased, serving>>
        /\ signing' = signing \ {w}
    BY <1>3 DEF Upsert, Upserted
  <2>2. /\ rows \in [Accounts -> 0 .. MaxRows] /\ rows[w] \in 0 .. MaxRows
        /\ db \in Databases /\ MaxRows \in Nat
    BY <1>1, RowsAssumption DEF TypeOK
  <2>3. rows[w] + 1 \in 0 .. MaxRows
    BY <2>1, <2>2
  <2>4. /\ db' \in Databases /\ db'.log = db.log
        /\ db'.users = [db.users EXCEPT ![w] = rows[w] + 1]
        /\ db.users \in [Accounts -> 0 .. MaxRows]
    BY <2>1, <2>2, <2>3 DEF Databases
  <2>5. rows' \in [Accounts -> 0 .. MaxRows]
    BY <2>1, <2>2, <2>3
  <2>6. TypeOK'
    BY <1>1, <2>1, <2>4, <2>5 DEF TypeOK
  <2>7. rows \in [Accounts -> Nat] /\ rows' \in [Accounts -> Nat]
    BY <2>2, <2>5
  <2>8. \A x \in Accounts : rows[x] <= rows'[x]
    BY <2>1, <2>7
  <2>9. Numbered'
    <3>1. \A x \in Accounts : db'.users[x] <= rows'[x]
      BY <1>1, <2>1, <2>2, <2>4 DEF Numbered
    <3>2. \A x \in Accounts : snap'.users[x] <= rows'[x]
      <4>1. \A x \in Accounts : snap.users[x] \in 0 .. MaxRows
        BY <1>1 DEF TypeOK, Databases
      <4>2. QED
        BY <1>1, <2>1, <2>7, <2>8, <4>1 DEF Numbered
    <3>3. \A id \in erased : Issued(id, rows')
      BY <1>1, <2>7, <2>8, IssuedGrows DEF Numbered
    <3>4. \A k \in Workers : job[k] # NoJob => Issued(job[k].id, rows')
      BY <1>1, <2>7, <2>8, IssuedGrows DEF Numbered
    <3>5. QED
      BY <2>1, <3>1, <3>2, <3>3, <3>4 DEF Numbered
  <2>10. ASSUME Configured, serving PROVE NoResurrection'
    <3>1. NoResurrection
      BY <1>1, <2>10 DEF Safe
    <3>2. <<w, rows[w] + 1>> \notin erased
      BY <1>1, <2>2 DEF Numbered, Issued
    <3>3. ASSUME NEW x \in Accounts PROVE <<x, db'.users[x]>> \notin erased
      BY <2>4, <2>10, <3>1, <3>2 DEF NoResurrection
    <3>4. QED
      BY <2>1, <3>3 DEF NoResurrection
  <2>11. Safe'
    BY <1>1, <2>1, <2>4, <2>10 DEF Safe, Ordered, EvidenceSurvives, Upsert
  <2>12. QED
    BY <2>6, <2>9, <2>11 DEF IInv
<1>4. QED
  BY <1>2, <1>3

(* Step 1, by request or by webhook: the request row of the id.            *)
LEMMA BeginKeeps ==
    ASSUME IInv, NEW k \in Workers, NEW w \in Accounts, NEW h \in BOOLEAN,
           Begin(k, w, h),
           UNCHANGED <<snap, ledger, identity, hook, signing, rows, erased,
                       serving>>
    PROVE  IInv'
<1> DEFINE id == <<w, db.users[w]>>
           j  == [stage |-> "logged", id |-> id, hooked |-> h]
<1>1. TypeOK /\ Numbered /\ Safe
  BY DEF IInv
<1>2. /\ serving /\ db.users[w] # 0
      /\ db' = [db EXCEPT !.log = @ \cup {id}]
      /\ job' = [job EXCEPT ![k] = j]
  BY DEF Begin
<1>3. db \in Databases /\ db.users[w] \in 0 .. MaxRows
  BY <1>1 DEF TypeOK, Databases
<1>4. id \in Ids
  BY <1>2, <1>3, RowsAssumption DEF Ids
<1>5. j \in Jobs /\ j.id = id /\ j.stage = "logged"
  BY <1>4 DEF Jobs
<1> HIDE DEF j, id
<1>6. db' \in Databases /\ db'.users = db.users /\ db'.log = db.log \cup {id}
  BY <1>2, <1>3, <1>4 DEF Databases
<1>7. /\ job' \in [Workers -> Jobs \cup {NoJob}]
      /\ \A x \in Workers : job'[x] = IF x = k THEN j ELSE job[x]
  BY <1>1, <1>2, <1>5 DEF TypeOK
<1>8. TypeOK'
  BY <1>1, <1>6, <1>7 DEF TypeOK
<1>9. Numbered'
  <2>1. Issued(id, rows)
    BY <1>1, <1>4 DEF Numbered, Issued, id
  <2>2. QED
    BY <1>1, <1>5, <1>6, <1>7, <2>1 DEF Numbered
<1>10. Safe'
  <2>1. ASSUME Configured PROVE Ordered'
    BY <1>1, <1>2, <1>5, <1>6, <1>7, <2>1 DEF Safe, Ordered
  <2>2. ASSUME Configured PROVE NoResurrection' /\ EvidenceSurvives'
    BY <1>1, <1>6, <2>2 DEF Safe, NoResurrection, EvidenceSurvives
  <2>3. QED
    BY <2>1, <2>2 DEF Safe
<1>11. QED
  BY <1>8, <1>9, <1>10 DEF IInv

(* Step 3, the DELETE: the id is in the ledger and in the log by now.      *)
LEMMA EraseKeeps ==
    ASSUME IInv, NEW k \in Workers, Erase(k) PROVE IInv'
<1> DEFINE u == [w \in Accounts |-> IF <<w, db.users[w]>> = job[k].id
                                   THEN 0 ELSE db.users[w]]
<1>1. TypeOK /\ Numbered /\ Safe
  BY DEF IInv
<1>2. job[k] # NoJob /\ job[k] \in Jobs
  BY <1>1, JobFacts DEF Erase
<1>3. job[k].id \in Ids
  BY <1>2 DEF Jobs
<1>4. db \in Databases /\ db.users \in [Accounts -> 0 .. MaxRows]
  BY <1>1 DEF TypeOK, Databases
<1>5. db' = [db EXCEPT !.users = u]
  BY DEF Erase
<1>6. u \in [Accounts -> 0 .. MaxRows]
  BY <1>4, RowsAssumption
<1>7. db' \in Databases /\ db'.users = u /\ db'.log = db.log
  BY <1>4, <1>5, <1>6 DEF Databases
<1>8. /\ erased' = erased \cup {job[k].id}
      /\ job' = [job EXCEPT ![k].stage = "erased"]
      /\ UNCHANGED <<snap, ledger, identity, hook, signing, rows, serving>>
  BY DEF Erase
<1>9. TypeOK'
  BY <1>1, <1>2, <1>3, <1>7, <1>8, StageTyped DEF TypeOK
<1>10. \A j \in Workers : \/ job'[j] = job[j]
                          \/ j = k /\ job'[j].id = job[k].id
  BY <1>1, <1>2, <1>8 DEF TypeOK, Jobs
<1>11. Numbered'
  <2>1. \A w \in Accounts : u[w] <= rows[w]
    BY <1>1, <1>4 DEF Numbered, TypeOK
  <2>2. QED
    BY <1>1, <1>2, <1>7, <1>8, <1>10, <2>1 DEF Numbered
<1>12. Safe'
  <2> SUFFICES ASSUME Configured
               PROVE  Ordered' /\ NoResurrection' /\ EvidenceSurvives'
    BY <1>8 DEF Safe
  <2>1. Ordered /\ NoResurrection /\ EvidenceSurvives
    BY <1>1 DEF Safe
  <2>2. serving /\ job[k].id \in db.log /\ job[k].id \in ledger
    BY <1>2, <2>1 DEF Ordered, Erase
  <2>3. Ordered'
    BY <1>2, <1>7, <1>8, <1>10, <2>1, <2>2 DEF Ordered
  <2>4. ASSUME NEW w \in Accounts PROVE <<w, u[w]>> \notin erased'
    <3>1. <<w, 0>> \notin Ids
      BY DEF Ids
    <3>2. \A id \in erased' : id \in Ids
      BY <1>9 DEF TypeOK
    <3>3. CASE <<w, db.users[w]>> = job[k].id
      BY <3>1, <3>2, <3>3
    <3>4. CASE <<w, db.users[w]>> # job[k].id
      BY <1>8, <2>1, <2>2, <3>4 DEF NoResurrection
    <3>5. QED
      BY <3>3, <3>4
  <2>5. NoResurrection'
    BY <1>7, <2>4 DEF NoResurrection
  <2>6. EvidenceSurvives'
    BY <1>7, <1>8, <2>1, <2>2 DEF EvidenceSurvives
  <2>7. QED
    BY <2>3, <2>5, <2>6
<1>13. QED
  BY <1>9, <1>11, <1>12 DEF IInv

(* The point a later restore will go back to.                              *)
LEMMA SnapshotKeeps ==
    ASSUME IInv, Snapshot PROVE IInv'
<1>1. TypeOK'
  BY DEF IInv, TypeOK, Snapshot
<1>2. Numbered'
  BY DEF IInv, Numbered, Snapshot
<1>3. Safe'
  BY DEF IInv, Safe, Ordered, NoResurrection, EvidenceSurvives, Snapshot
<1>4. QED
  BY <1>1, <1>2, <1>3 DEF IInv

(* A restore ends every deletion and stops the service.                    *)
LEMMA RestoreKeeps ==
    ASSUME IInv, Restore PROVE IInv'
<1>1. TypeOK'
  BY DEF IInv, TypeOK, Restore
<1>2. Numbered'
  BY DEF IInv, Numbered, Restore
<1>3. Safe'
  BY DEF IInv, Safe, Ordered, NoResurrection, EvidenceSurvives, Restore, NoJob
<1>4. QED
  BY <1>1, <1>2, <1>3 DEF IInv

(* The replay takes the ledger's ids out of users and puts them in the log.*)
LEMMA ReplayKeeps ==
    ASSUME IInv, Replay PROVE IInv'
<1>1. TypeOK /\ Numbered /\ Safe
  BY DEF IInv
<1>2. /\ ~serving /\ db' = Replayed
      /\ UNCHANGED <<snap, ledger, identity, hook, signing, job, rows, erased>>
  BY DEF Replay
<1>3. db.users \in [Accounts -> 0 .. MaxRows] /\ db.log \subseteq Ids
      /\ ledger \subseteq Ids
  BY <1>1 DEF TypeOK, Databases
<1>4. db' \in Databases
  BY <1>2, <1>3, RowsAssumption DEF Replayed, Databases
<1>5. TypeOK'
  BY <1>1, <1>2, <1>4 DEF TypeOK, Replay, Clean
<1>6. Numbered'
  <2>1. \A w \in Accounts : db'.users[w] <= rows[w]
    BY <1>1, <1>2, <1>3 DEF Replayed, Numbered, TypeOK
  <2>2. QED
    BY <1>1, <1>2, <2>1 DEF Numbered
<1>7. Safe'
  <2> SUFFICES ASSUME Configured
               PROVE  Ordered' /\ NoResurrection' /\ EvidenceSurvives'
    BY DEF Safe
  <2>1. Ordered /\ \A k \in Workers : job[k] = NoJob
    BY <1>1, <1>2 DEF Safe, Ordered
  <2>2. Ordered'
    BY <1>2, <2>1 DEF Ordered
  <2>3. EvidenceSurvives'
    BY <1>2, <2>1 DEF EvidenceSurvives, Replayed, Ordered
  <2>4. ASSUME NEW w \in Accounts PROVE <<w, db'.users[w]>> \notin erased
    <3>1. <<w, 0>> \notin erased
      BY <1>1 DEF TypeOK, Ids
    <3>2. QED
      BY <1>2, <2>1, <3>1 DEF Replayed, Ordered
  <2>5. QED
    BY <1>2, <2>2, <2>3, <2>4 DEF NoResurrection
<1>8. QED
  BY <1>5, <1>6, <1>7 DEF IInv

-----------------------------------------------------------------------------

(* Every step of the system keeps the invariant.                           *)
LEMMA StepKeeps == IInv /\ [Next]_vars => IInv'
<1> SUFFICES ASSUME IInv, [Next]_vars PROVE IInv'
  OBVIOUS
<1>1. ASSUME NEW w \in Accounts, NEW k \in Workers, RequestDeletion(k, w)
      PROVE  IInv'
  BY <1>1, BeginKeeps DEF RequestDeletion
<1>2. ASSUME NEW w \in Accounts, NEW k \in Workers, Webhook(k, w)
      PROVE  IInv'
  BY <1>2, BeginKeeps DEF Webhook
<1>3. CASE UNCHANGED vars
  <2>1. TypeOK'
    BY <1>3 DEF IInv, TypeOK, vars
  <2>2. QED
    BY <1>3, <2>1, QuietKeeps DEF vars
<1>4. QED
  BY <1>1, <1>2, <1>3, AuthenticateKeeps, UpsertKeeps, IdentityDeletedKeeps,
     WebhookUnmatchedKeeps, RecordKeeps, RecordFailsKeeps, EraseKeeps,
     TellWorkOsKeeps, EndKeeps, ExportKeeps, SnapshotKeeps, RestoreKeeps,
     ReplayKeeps
  DEF Next

(* The invariant holds throughout.                                         *)
LEMMA Invariance == Spec => []IInv
<1>1. QED
  BY InitHolds, StepKeeps, PTL DEF Spec

(* Type correctness of the erasure model: in particular only ids of rows   *)
(* that existed reach deletion_log and the ledger.                         *)
THEOREM TypeCorrect == Spec => []TypeOK
<1>1. IInv => TypeOK
  BY DEF IInv
<1>2. QED
  BY <1>1, Invariance, PTL

(* With a ledger, no id whose rows were deleted is served again, whatever  *)
(* point in time is restored and wherever deletions are interrupted.       *)
THEOREM ErasedStaysErased == Spec => []NoResurrection
<1>1. IInv => NoResurrection
  BY DEF IInv, Safe, NoResurrection
<1>2. QED
  BY <1>1, Invariance, PTL

(* With a ledger, a serving database holds the deletion_log row of every   *)
(* erasure, also of those a restore rolled back.                           *)
THEOREM EvidenceIsRebuilt == Spec => []EvidenceSurvives
<1>1. IInv => EvidenceSurvives
  BY DEF IInv, Safe, EvidenceSurvives
<1>2. QED
  BY <1>1, Invariance, PTL

-----------------------------------------------------------------------------
(* The audit log.                                                          *)

(* Every row has a state: all that is needed of the table's type.          *)
Stated == DOMAIN log = Rows /\ \A i \in Rows : "state" \in DOMAIN log[i]

(* A row that loses its identifiers is anonymised, past its window.        *)
RowKept(i) ==
    log'[i].state # "raw" =>
        /\ log'[i].state = "anon"
        /\ \/ log[i].age > FullFidelity
           \/ log[i].age > PostDeletion /\ log[i].user \in gone

(* Whatever the lock does, a batch takes its rows from the set its         *)
(* statement selects in that very statement, so two runs side by side, or  *)
(* a run continued after another, find no row that is not due.             *)
LEMMA BatchesAreDue ==
    ASSUME Stated, NEW r \in Runs, Batch(r), NEW i \in Raw
    PROVE  RowKept(i)
<1> DEFINE Due(T) == /\ step[r] \in Batched
                     /\ T \in Batches(step[r])
                     /\ log' = [j \in Rows |-> IF j \notin T THEN log[j]
                                   ELSE IF step[r] = "hard" THEN Deleted
                                   ELSE Anonymized(log[j])]
<1>1. PICK T : Due(T)
  BY DEF Batch
<1>2. i \in Rows /\ log[i].state = "raw"
  BY DEF Raw
<1>3. CASE i \notin T
  BY <1>1, <1>2, <1>3 DEF RowKept
<1>4. CASE i \in T /\ step[r] = "hard"
  <2>1. log[i].state = "anon"
    BY <1>1, <1>4 DEF Batches, HardDeletable, Oldest, Limited
  <2>2. QED
    BY <1>2, <2>1
<1>5. CASE i \in T /\ step[r] # "hard"
  <2>1. \/ log[i].age > FullFidelity
        \/ log[i].age > PostDeletion /\ log[i].user \in gone
    <3>1. CASE step[r] = "deleted"
      <4>1. PICK V \in Limited(Victims(PostDeletion, gone), UsersPerBatch) :
              T = {j \in Raw : log[j].user \in V /\ Older(j, PostDeletion)}
        BY <1>1, <3>1 DEF Batches, AnonymizeOf
      <4>2. V \subseteq gone
        BY <4>1 DEF Limited, Victims
      <4>3. QED
        BY <1>5, <4>1, <4>2 DEF Older
    <3>2. CASE step[r] = "aged"
      <4>1. PICK V : T = {j \in Raw : log[j].user \in V /\ Older(j, FullFidelity)}
        BY <1>1, <3>2 DEF Batches, AnonymizeOf
      <4>2. QED
        BY <1>5, <4>1 DEF Older
    <3>3. CASE step[r] = "orphans"
      BY <1>1, <1>5, <3>3
      DEF Batches, AnonymizeOrphans, Oldest, Limited, Older
    <3>4. QED
      BY <1>1, <1>5, <3>1, <3>2, <3>3 DEF Batched
  <2>2. log'[i].state # "raw" => log'[i].state = "anon"
    <3>1. log'[i] = Anonymized(log[i]) /\ "state" \in DOMAIN log[i]
      BY <1>1, <1>2, <1>5 DEF Stated
    <3>2. QED
      BY <3>1 DEF Anonymized
  <2>3. QED
    BY <2>1, <2>2 DEF RowKept
<1>6. QED
  BY <1>3, <1>4, <1>5

(* Every other step leaves the rows that have identifiers with them.       *)
LEMMA OthersKeepRows ==
    ASSUME Stated, AuditNext, ~ \E r \in Runs : Batch(r), NEW i \in Raw
    PROVE  log'[i].state = "raw"
<1>1. i \in Rows /\ log[i].state = "raw" /\ "state" \in DOMAIN log[i]
  BY DEF Raw, Stated
<1>2. ASSUME UNCHANGED log PROVE log'[i].state = "raw"
  BY <1>1, <1>2
<1>3. ASSUME NEW j \in Rows, NEW u \in Subjects, Write(j, u)
      PROVE  log'[i].state = "raw"
  BY <1>1, <1>3 DEF Write, Stated
<1>4. ASSUME Tick PROVE log'[i].state = "raw"
  BY <1>1, <1>4 DEF Tick
<1>5. QED
  BY <1>2, <1>3, <1>4
  DEF AuditNext, BeginRun, BatchFails, FinishRun, Die, Recycle,
      DeleteAccount

LEMMA RowsStayStated ==
    ASSUME Stated, AuditNext
    PROVE  Stated'
<1>1. ASSUME UNCHANGED log PROVE Stated'
  BY <1>1 DEF Stated
<1>2. ASSUME NEW r \in Runs, Batch(r) PROVE Stated'
  <2>1. PICK T : log' = [j \in Rows |-> IF j \notin T THEN log[j]
                           ELSE IF step[r] = "hard" THEN Deleted
                           ELSE Anonymized(log[j])]
    BY <1>2 DEF Batch
  <2>2. QED
    BY <2>1 DEF Stated, Deleted, Anonymized
<1>3. ASSUME NEW j \in Rows, NEW u \in Subjects, Write(j, u) PROVE Stated'
  BY <1>3 DEF Write, Stated
<1>4. ASSUME Tick PROVE Stated'
  BY <1>4 DEF Tick, Stated
<1>5. QED
  BY <1>1, <1>2, <1>3, <1>4
  DEF AuditNext, BeginRun, BatchFails, FinishRun, Die, Recycle,
      DeleteAccount

(* No row of the audit log loses its identifiers before its own window,    *)
(* for any windows, batch sizes and number of overlapping runs of          *)
(* audit-retention.ts, and none leaves the table before it was anonymised. *)
THEOREM WindowsAreKept == AuditSpec => EvidenceKept
<1>1. AuditInit => Stated
  BY DEF AuditInit, Unwritten, Stated
<1>2. Stated /\ [AuditNext]_auditVars => Stated'
  BY RowsStayStated DEF auditVars, Stated
<1>3. Stated /\ [AuditNext]_auditVars
      => [\A i \in Raw : RowKept(i)]_auditVars
  BY BatchesAreDue, OthersKeepRows DEF RowKept
<1>4. (\A i \in Raw : RowKept(i))
      <=> \A i \in Raw :
            LET before == log[i]  after == log'[i] IN
            after.state # "raw" =>
                /\ after.state = "anon"
                /\ \/ before.age > FullFidelity
                   \/ before.age > PostDeletion /\ before.user \in gone
  BY DEF RowKept
<1>5. QED
  BY <1>1, <1>2, <1>3, <1>4, PTL DEF AuditSpec, EvidenceKept

=============================================================================
