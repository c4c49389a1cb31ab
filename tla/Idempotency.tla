---------------------------- MODULE Idempotency ----------------------------
(***************************************************************************)
(* POST /v1/wishlist under an Idempotency-Key: apps/bff/src/lib/           *)
(* idempotency.ts, the route in routes/v1/wishlist.ts, and the sweeper     *)
(* that removes expired keys.                                              *)
(*                                                                         *)
(* One (user_id, key) row is modelled: the primary key makes rows          *)
(* independent.  Requests are HTTP requests carrying that key, on any node:*)
(* a double tap, a client's retries, a key reused with another body.  An   *)
(* action is one SQL statement or one transaction's commit; Postgres runs  *)
(* at READ COMMITTED, so the SELECT of `claim` sees rows as they are when  *)
(* it runs, not when the INSERT before it did.                             *)
(*                                                                         *)
(* The wishlist item has no recording MBID, the case in which the insert's *)
(* ON CONFLICT clause cannot recognise a duplicate.                        *)
(***************************************************************************)
EXTENDS Integers, FiniteSets

CONSTANTS
    Requests,           \* HTTP requests in flight at once
    Bodies,             \* request bodies (fingerprints)
    Expires             \* the key's 24 hours may pass

NoBody == "no body"

ASSUME BodiesAssumption == NoBody \notin Bodies

VARIABLES
    row,        \* the idempotency_keys row: state, request_hash, response
    stage,      \* where each request is
    body,       \* the fingerprint of each request
    reply,      \* what each request answered: an item, or an error
    created,    \* history: items created during the row's lifetime
    calm        \* history: no create has failed and no key has expired

vars == <<row, stage, body, reply, created, calm>>

(* An item is known by the order of its creation, saturated at 2: the      *)
(* properties only tell the first from any later one.                      *)
Items == 1 .. 2

Absent == [state |-> "absent", hash |-> NoBody, item |-> 0]

(* Only an absent row has no hash, and only a completed one (which may have *)
(* expired since) a response.                                              *)
TypeOK ==
    /\ row \in [state : {"absent", "claimed", "done", "expired"},
                hash  : Bodies \cup {NoBody},
                item  : Items \cup {0}]
    /\ row.state = "absent" <=> row.hash = NoBody
    /\ row.state \in {"absent", "claimed"} => row.item = 0
    /\ row.state = "done" => row.item # 0
    /\ stage \in [Requests -> {"idle", "conflict", "executing", "committed",
                               "failed"}]
    /\ body \in [Requests -> Bodies \cup {NoBody}]
    /\ reply \in [Requests -> Items \cup {0}]
    /\ created \in Items \cup {0}
    /\ calm \in BOOLEAN

Init ==
    /\ row = Absent
    /\ stage = [r \in Requests |-> "idle"]
    /\ body = [r \in Requests |-> NoBody]
    /\ reply = [r \in Requests |-> 0]
    /\ created = 0
    /\ calm = TRUE

-----------------------------------------------------------------------------

Answer(r, item) ==
    /\ stage' = [stage EXCEPT ![r] = "idle"]
    /\ reply' = [reply EXCEPT ![r] = item]

(* claim: INSERT ... ON CONFLICT DO NOTHING, committed when it inserted.   *)
Insert(r, b) ==
    /\ stage[r] = "idle"
    /\ body' = [body EXCEPT ![r] = b]
    /\ reply' = [reply EXCEPT ![r] = 0]
    /\ IF row.state = "absent"
       THEN /\ row' = [state |-> "claimed", hash |-> b, item |-> 0]
            /\ stage' = [stage EXCEPT ![r] = "executing"]
       ELSE /\ stage' = [stage EXCEPT ![r] = "conflict"]
            /\ UNCHANGED row
    /\ UNCHANGED <<created, calm>>

(* claim: the SELECT after a conflict.  No live row means the operation is *)
(* executed, with no claim of its own.                                     *)
SelectNone(r) ==
    /\ stage[r] = "conflict"
    /\ row.state \in {"absent", "expired"}
    /\ stage' = [stage EXCEPT ![r] = "executing"]
    /\ UNCHANGED <<row, body, reply, created, calm>>

(* Mutant: the fingerprint is not compared.                                *)
SelectReplayAnyBody(r) ==
    /\ stage[r] = "conflict"
    /\ row.state = "done"
    /\ Answer(r, row.item)
    /\ UNCHANGED <<row, body, created, calm>>

(* A stored response is replayed; another body or a claim still in flight  *)
(* is answered 409.                                                        *)
SelectReplay(r) ==
    /\ stage[r] = "conflict"
    /\ row.state = "done"
    /\ row.hash = body[r]
    /\ Answer(r, row.item)
    /\ UNCHANGED <<row, body, created, calm>>

Select409(r) ==
    /\ stage[r] = "conflict"
    /\ row.state \in {"claimed", "done"}
    /\ row.state = "done" => row.hash # body[r]
    /\ Answer(r, 0)
    /\ UNCHANGED <<row, body, created, calm>>

(* The second transaction commits: the item is created and `complete`      *)
(* stores the response in the row, if there is one, whoever claimed it and *)
(* whatever response it already holds.                                     *)
Commit(r) ==
    LET item == IF created = 0 THEN 1 ELSE 2
    IN  /\ stage[r] = "executing"
        /\ created' = IF row.state = "expired" THEN created ELSE item
        /\ row' = IF row.state \in {"claimed", "done"}
                  THEN [row EXCEPT !.state = "done", !.item = item]
                  ELSE row
        /\ stage' = [stage EXCEPT ![r] = "committed"]
        /\ reply' = [reply EXCEPT ![r] = item]
        /\ UNCHANGED <<body, calm>>

(* 201 with the created item.                                              *)
Reply(r) ==
    /\ stage[r] = "committed"
    /\ stage' = [stage EXCEPT ![r] = "idle"]
    /\ UNCHANGED <<row, body, reply, created, calm>>

(* The COMMIT took effect but its acknowledgement was lost, or sending the *)
(* reply threw: the route's catch block runs all the same.                 *)
ReplyLost(r) ==
    /\ stage[r] = "committed"
    /\ stage' = [stage EXCEPT ![r] = "failed"]
    /\ reply' = [reply EXCEPT ![r] = 0]
    /\ UNCHANGED <<row, body, created, calm>>

(* The second transaction rolls back: the 5000-item cap, a database error. *)
Rollback(r) ==
    /\ stage[r] = "executing"
    /\ stage' = [stage EXCEPT ![r] = "failed"]
    /\ calm' = FALSE
    /\ UNCHANGED <<row, body, reply, created>>

(* Mutant: without AND response_status IS NULL.                            *)
ReleaseAny(r) ==
    /\ stage[r] = "failed"
    /\ row' = Absent
    /\ Answer(r, 0)
    /\ UNCHANGED <<body, created, calm>>

(* The catch block: `release` deletes the row if it holds no response,     *)
(* whoever claimed it, and the error is answered.                          *)
Release(r) ==
    /\ stage[r] = "failed"
    /\ row' = IF row.state = "claimed" THEN Absent ELSE row
    /\ Answer(r, 0)
    /\ UNCHANGED <<body, created, calm>>

(* `release` itself fails; its error is swallowed.                         *)
ReleaseFails(r) ==
    /\ stage[r] = "failed"
    /\ Answer(r, 0)
    /\ UNCHANGED <<row, body, created, calm>>

(* The node dies, or loses its database, between two steps of the request. *)
Crash(r) ==
    /\ stage[r] # "idle"
    /\ Answer(r, 0)
    /\ UNCHANGED <<row, body, created, calm>>

(* expires_at passes.  A request takes seconds and the key lasts a day, so *)
(* none that began under the row is still running.                         *)
Expire ==
    /\ Expires
    /\ row.state \in {"claimed", "done"}
    /\ \A r \in Requests : stage[r] = "idle"
    /\ row' = [row EXCEPT !.state = "expired"]
    /\ created' = 0
    /\ calm' = FALSE
    /\ UNCHANGED <<stage, body, reply>>

(* The sweeper deletes the expired row once its slack has passed too.      *)
Sweep ==
    /\ row.state = "expired"
    /\ row' = Absent
    /\ UNCHANGED <<stage, body, reply, created, calm>>

Next ==
    \/ \E r \in Requests :
          \/ \E b \in Bodies : Insert(r, b)
          \/ SelectNone(r) \/ SelectReplay(r) \/ Select409(r)
          \/ Commit(r) \/ Reply(r) \/ ReplyLost(r) \/ Rollback(r)
          \/ Release(r) \/ ReleaseFails(r) \/ Crash(r)
    \/ Expire \/ Sweep

Spec == Init /\ [][Next]_vars

-----------------------------------------------------------------------------

(* One item during the lifetime of a key, and a retry is handed the        *)
(* original response: whatever crashes, lost acknowledgements and retries  *)
(* happen, as long as no create fails and no key expires, the stored       *)
(* response is the first item's and belongs to the body that claimed it,   *)
(* and everybody who was answered 201 was given that item.                 *)
OneOriginal ==
    calm =>
       /\ created <= 1
       /\ row.state = "done" => row.item = 1
       /\ \A r, s \in Requests :
             reply[r] # 0 /\ reply[s] # 0
                => reply[r] = reply[s] /\ body[r] = body[s]

(* A completed key is never given back: neither a lost acknowledgement     *)
(* followed by `release`, nor a crash, nor a concurrent request turns a    *)
(* stored response into a free or claimed key before it expires.           *)
ResponseSurvives ==
    [][row.state = "done" => row'.state \in {"done", "expired"}]_vars

=============================================================================
