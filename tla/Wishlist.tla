------------------------------ MODULE Wishlist ------------------------------
(***************************************************************************)
(* One person's wishlist: services/wishlist.ts, the routes over it and the *)
(* keyset cursors of lib/cursor.ts.  Adding an item is a transaction that  *)
(* counts and then inserts, under READ COMMITTED and without a lock.       *)
(*                                                                         *)
(* created_at is now(), the start of the transaction, in microseconds; the *)
(* driver hands it out as a Date, which has milliseconds, and the cursor   *)
(* carries that.  Ids are random and only break ties.                      *)
(***************************************************************************)
EXTENDS Naturals, FiniteSets

CONSTANTS
    Writers,    \* requests that add an item, each for one item
    Ids,        \* uuids, as numbers in their order
    Tracks,     \* recording MBIDs
    Cap,        \* MAX_ITEMS_PER_USER
    PageSize,
    Micros,     \* microseconds in a millisecond
    EndOfTime   \* bound on the clock, in microseconds

VARIABLES
    now,
    items,      \* the rows: id, at and track
    unused,     \* the ids no row has had
    adding,     \* of each writer: when its transaction began, if it counted
    walk,       \* a client that pages through the list
    shown,      \* the ids it was shown, on all pages
    owed        \* ghost: the rows that were there from its first page on

vars == <<now, items, unused, adding, walk, shown, owed>>

NoTrack == "no recording"
Idle == EndOfTime + 1
NotWalking == [open |-> FALSE, at |-> 0, id |-> 0]

Init ==
    /\ now = 0 /\ items = {} /\ unused = Ids /\ adding = [w \in Writers |-> Idle]
    /\ walk = NotWalking /\ shown = {} /\ owed = {}

reader == <<walk, shown, owed>>

-----------------------------------------------------------------------------
(* create.                                                                 *)

\* Mutant: a full list still takes one more.
BelowCapByOne == Cardinality(items) <= Cap

BelowCap == Cardinality(items) < Cap

(* The transaction begins and counts.  A list that is full is answered 409 *)
(* and nothing happens.                                                    *)
Count(w) ==
    /\ adding[w] = Idle
    /\ BelowCap
    /\ adding' = [adding EXCEPT ![w] = now]
    /\ UNCHANGED <<now, items, unused, reader>>

(* INSERT ... ON CONFLICT (user_id, recording_mbid), which a row without a *)
(* recording never meets, and COMMIT.                                      *)
Insert(w, id, track) ==
    /\ adding[w] # Idle
    /\ id \in unused
    /\ unused' = unused \ {id}
    /\ items' = IF track # NoTrack /\ \E i \in items : i.track = track
                THEN items
                ELSE items \cup {[id |-> id, at |-> adding[w], track |-> track]}
    /\ adding' = [adding EXCEPT ![w] = Idle]
    /\ UNCHANGED <<now, reader>>

(* The transaction is rolled back.                                         *)
Rollback(w) ==
    /\ adding[w] # Idle
    /\ adding' = [adding EXCEPT ![w] = Idle]
    /\ UNCHANGED <<now, items, unused, reader>>

(* remove.                                                                 *)
Remove(i) ==
    /\ items' = items \ {i}
    /\ owed' = owed \ {i}
    /\ UNCHANGED <<now, unused, adding, walk, shown>>

-----------------------------------------------------------------------------
(* list.                                                                   *)

(* (created_at, id) < (cursor.t, cursor.i).                                *)
AfterCursor(i, c) == i.at < c.at \/ (i.at = c.at /\ i.id < c.id)

(* toISOString: the microseconds are cut off.                              *)
ToISOString(at) == (at \div Micros) * Micros

Newer(i, j) == i.at > j.at \/ (i.at = j.at /\ i.id > j.id)

(* ORDER BY created_at DESC, id DESC LIMIT.                                *)
Page(rows) ==
    {i \in rows : Cardinality({j \in rows : Newer(j, i)}) < PageSize}

Last(page) == CHOOSE i \in page : \A j \in page \ {i} : Newer(j, i)

(* A page of rows is answered, with a cursor when there is one more row.   *)
Answer(rows) ==
    LET page == Page(rows)
        ids  == {i.id : i \in page}
    IN  /\ shown' = shown \cup ids
        /\ walk' = IF Cardinality(rows) > PageSize
                   THEN [open |-> TRUE, at |-> ToISOString(Last(page).at),
                         id |-> Last(page).id]
                   ELSE NotWalking

FirstPage ==
    /\ ~walk.open /\ shown = {}
    /\ items # {}
    /\ Answer(items)
    /\ owed' = items
    /\ UNCHANGED <<now, items, unused, adding>>

NextPage ==
    /\ walk.open
    /\ Answer({i \in items : AfterCursor(i, walk)})
    /\ UNCHANGED <<now, items, unused, adding, owed>>

Tick ==
    /\ now < EndOfTime
    /\ now' = now + 1
    /\ UNCHANGED <<items, unused, adding, reader>>

Next ==
    \/ \E w \in Writers :
        \/ Count(w) \/ Rollback(w)
        \/ \E id \in Ids, track \in Tracks \cup {NoTrack} : Insert(w, id, track)
    \/ \E i \in items : Remove(i)
    \/ FirstPage \/ NextPage \/ Tick

Spec == Init /\ [][Next]_vars

-----------------------------------------------------------------------------

(***************************************************************************)
(* The cap is counted without a lock.  Requests that counted together may  *)
(* all insert, but no more than that: the list, with what is still to be   *)
(* inserted, never exceeds the cap by as many items as there are requests  *)
(* at once.                                                                *)
(***************************************************************************)
CapNearlyHolds ==
    Cardinality(items) + Cardinality({w \in Writers : adding[w] # Idle})
       <= Cap + Cardinality(Writers) - 1

(***************************************************************************)
(* And none is skipped: a client that reads to the last page has been      *)
(* shown every row that was there all the time.  This does not hold: the   *)
(* cursor's time lies before the row it was made from, and the rows of the *)
(* same millisecond that come after that row are passed over.              *)
(***************************************************************************)
NoneSkipped ==
    ~walk.open /\ shown # {} => \A i \in owed : i.id \in shown
=============================================================================
