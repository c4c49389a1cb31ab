------------------------------- MODULE Pages -------------------------------
(***************************************************************************)
(* The catalogue routes of product.ts and their half of services/          *)
(* discovery.ts: search, an artist, its neighbours, a track, its preview   *)
(* and an album, answered from the MusicBrainz rows of the cache, from the *)
(* crosswalk, from stored previews, and from labs, Last.fm and Deezer.     *)
(* Their responses carry cache-control, so an HTTP cache between the       *)
(* product and its listeners may answer in its place.                      *)
(*                                                                         *)
(* There is one artist, one recording and one release.  A row of the       *)
(* response cache past its TTL reads as none, except for the neighbours,   *)
(* whose old rows still serve when a load fails.                           *)
(***************************************************************************)
EXTENDS Merge

CONSTANTS
    None,
    Listeners,
    MaxTime,        \* bound: ticks
    MaxRequests,    \* bound: requests that reach the product
    MaxChanges      \* bound: steps of the jobs and the providers

VARIABLES
    now, changes, requests,
    records,        \* upstream_cache: the MusicBrainz row of each entity
    xwalk,          \* mbid_crosswalk
    stored,         \* the row of track_previews
    labs, lastfm,   \* upstream_cache: neighbours, from labs and from Last.fm
    trouble,        \* what is wrong with the providers
    req,            \* where each listener's request waits
    flight,         \* SingleFlight: a Deezer resolution is under way
    got,            \* the responses the last step delivered
    shared          \* the HTTP cache, which has room for one response

env == <<records, xwalk, stored, labs, lastfm, trouble>>
vars == <<now, changes, requests, env, req, flight, got, shared>>

Entities == {"artist", "recording", "release"}
Routes == {"search", "artist", "similar", "track", "preview", "album"}
Keys == {<<"artist", "ann">>, <<"artist", "ann b">>, <<"recording", "ann">>}

NoRow == [value |-> None, fresh |-> FALSE]
Waits(at, route) == [at |-> at, route |-> route, near |-> << >>, name |-> None]
Idle == Waits("idle", None)
Page0 == [route |-> None, status |-> 0, items |-> << >>, name |-> None,
          unavailable |-> {}, source |-> None, expires |-> None]

Init ==
    /\ now = 0 /\ changes = 0 /\ requests = 0
    /\ \E row \in {"none", "known"} : records = [e \in Entities |-> row]
    /\ xwalk = <<"artist", "ann b">> :> [mbid |-> 1, conf |-> 1]
    /\ stored \in {"none", "bare", "servable"}
    /\ labs \in {NoRow, [value |-> "good", fresh |-> TRUE]}
    /\ lastfm = NoRow
    /\ trouble = {}
    /\ req = [l \in Listeners |-> Idle]
    /\ flight = FALSE
    /\ got = {}
    /\ shared = [page |-> Page0, until |-> 0]

-----------------------------------------------------------------------------
(* Responses.                                                              *)

\* Mutant: a preview is a page like the others.
PublicAlways(page) == IF page.route = "search" THEN 1 ELSE 2

(* The cache-control of a response, as the ticks it may be kept.  The      *)
(* other routes set it before they know that there is nothing to show, so  *)
(* their 404s carry it too; a preview's says whether its URL is signed.    *)
CacheControl(page) ==
    CASE page.route = "search" -> 1
      [] page.route = "preview" -> IF page.source = "itunes" THEN 2 ELSE 0
      [] OTHER -> 2

Kept(page) ==
    IF CacheControl(page) = 0 THEN shared
    ELSE [page |-> page, until |-> now + CacheControl(page)]

Respond(l, page) ==
    /\ got' = {page}
    /\ shared' = Kept(page)
    /\ req' = [req EXCEPT ![l] = Idle]
    /\ UNCHANGED flight

Goes(l, at) ==
    /\ req' = [req EXCEPT ![l].at = at]
    /\ got' = {}
    /\ UNCHANGED <<flight, shared>>

Found(l) == [Page0 EXCEPT !.route = req[l].route, !.status = 200]
NotFound(l) == [Page0 EXCEPT !.route = req[l].route, !.status = 404]

At(l, at) == req[l].at = at
Same == UNCHANGED <<now, changes, requests, env>>

Shared(route) == shared.page.route = route /\ shared.until > now

FromShared(l, route) ==
    /\ At(l, "idle")
    /\ Shared(route)
    /\ got' = {shared.page}
    /\ Same /\ UNCHANGED <<req, flight, shared>>

FirstStep ==
    [search |-> "search", artist |-> "peek", similar |-> "labs",
     track |-> "peek", album |-> "peek", preview |-> "stored"]

Ask(l, route) ==
    /\ At(l, "idle")
    /\ ~Shared(route)
    /\ requests < MaxRequests /\ requests' = requests + 1
    /\ req' = [req EXCEPT ![l] = Waits(FirstStep[route], route)]
    /\ got' = {}
    /\ UNCHANGED <<now, changes, env, flight, shared>>

-----------------------------------------------------------------------------
(* search, and the crosswalk behind it.                                    *)

ShelfSize == 2
MinSimilarity == 3
Similarity(k) == IF k[2] = "ann" THEN 10 ELSE 6

(* PgCrosswalkStore.search, by similarity and then by confidence.          *)
Hits(entity) ==
    LET ks == {k \in DOMAIN xwalk : k[1] = entity /\ Similarity(k) >= MinSimilarity}
        Before(j, k) == \/ Similarity(j) > Similarity(k)
                        \/ Similarity(j) = Similarity(k) /\ xwalk[j].conf > xwalk[k].conf
    IN  Take(SetToSortSeq(ks, Before), ShelfSize)

(* The sort is stable: artists stand before recordings of their score.     *)
Search(l) ==
    LET all == Hits("artist") \o Hits("recording")
        Before(i, j) == \/ Similarity(all[i]) > Similarity(all[j])
                        \/ Similarity(all[i]) = Similarity(all[j]) /\ i < j
        order == SetToSortSeq(DOMAIN all, Before)
    IN  /\ At(l, "search")
        /\ Respond(l, [Found(l) EXCEPT !.items =
              Take([i \in DOMAIN order |-> [name |-> all[order[i]][2],
                                            mbid |-> xwalk[all[order[i]]].mbid]], ShelfSize)])
        /\ Same

(* lookupByMbid.                                                           *)
NamesOf(entity, mbid) ==
    LET ks == {k \in DOMAIN xwalk : k[1] = entity /\ xwalk[k].mbid = mbid}
    IN  {k[2] : k \in {j \in ks : \A k \in ks : xwalk[j].conf >= xwalk[k].conf}}

-----------------------------------------------------------------------------
(* An artist, a track, an album.                                           *)

(* peek and parseCached...: a cached null is nothing.                      *)
Peek(entity) == records[entity] = "known"

Artist(l) ==
    /\ At(l, "peek") /\ req[l].route = "artist"
    /\ IF Peek("artist") THEN Respond(l, [Found(l) EXCEPT !.name = "Ann"])
       ELSE Goes(l, "name")
    /\ Same

NameFromCrosswalk(l) ==
    /\ At(l, "name") /\ req[l].route = "artist"
    /\ \/ \E n \in NamesOf("artist", 1) : Respond(l, [Found(l) EXCEPT !.name = n])
       \/ NamesOf("artist", 1) = {} /\ Respond(l, NotFound(l))
    /\ Same

Track(l) ==
    /\ At(l, "peek") /\ req[l].route = "track"
    /\ Respond(l, IF Peek("recording") THEN [Found(l) EXCEPT !.name = "Song"] ELSE NotFound(l))
    /\ Same

Album(l) ==
    /\ At(l, "peek") /\ req[l].route = "album"
    /\ Respond(l, IF Peek("release") THEN [Found(l) EXCEPT !.name = "Record"] ELSE NotFound(l))
    /\ Same

-----------------------------------------------------------------------------
(* similarArtists.  Scores are tenths.                                     *)

Neighbours(row, source) ==
    IF row # "good" THEN << >>
    ELSE IF source = "labs" THEN <<[id |-> "bea", mbid |-> 0, score |-> 8, source |-> source]>>
    ELSE <<[id |-> "cy", mbid |-> 0, score |-> 6, source |-> source],
           [id |-> "bea", mbid |-> 2, score |-> 6, source |-> source]>>

(* add: a name seen before gains half the new score and what it lacks.     *)
Add(merged, c) ==
    LET same == {i \in DOMAIN merged : merged[i].id = c.id} IN
    IF same = {} THEN Append(merged, [id |-> c.id, mbid |-> c.mbid, score |-> c.score,
                                      sources |-> {c.source}])
    ELSE [i \in DOMAIN merged |-> IF i \notin same THEN merged[i] ELSE
            [merged[i] EXCEPT
                !.score = IF @ + c.score \div 2 > 10 THEN 10 ELSE @ + c.score \div 2,
                !.sources = @ \cup {c.source},
                !.mbid = IF @ = 0 THEN c.mbid ELSE @]]

(* client.similarArtists: any failure of labs is an empty list.            *)
LabsAnswer == IF "labs" \in trouble THEN "empty" ELSE "good"

(* #labsSimilarArtists.  A fresh row serves, unless ListenBrainz's circuit *)
(* is half-open and the lookup is spent on a trial; otherwise the gate     *)
(* declines and the old row serves, or labs is asked and its answer kept.  *)
LabsSimilarArtists(l) ==
    LET near(value) == /\ req' = [req EXCEPT ![l].at = "name", ![l].near = Neighbours(value, "labs")]
                       /\ got' = {} /\ UNCHANGED <<flight, shared>>
    IN  /\ At(l, "labs")
        /\ IF labs.fresh /\ "half_open" \notin trouble
           THEN near(labs.value) /\ UNCHANGED labs
           ELSE \/ near(labs.value) /\ UNCHANGED labs
                \/ /\ labs' = [value |-> LabsAnswer, fresh |-> TRUE]
                   /\ near(LabsAnswer)
        /\ UNCHANGED <<now, changes, requests, records, xwalk, stored, lastfm, trouble>>

ShowSimilar(l, unavailable, value) ==
    LET merged == FoldLeft(Add, << >>, req[l].near \o Neighbours(value, "lastfm"))
        Before(i, j) == \/ merged[i].score > merged[j].score
                        \/ merged[i].score = merged[j].score /\ i < j
        order == SetToSortSeq(DOMAIN merged, Before)
    IN  Respond(l, [Found(l) EXCEPT !.unavailable = unavailable,
            !.items = Take([i \in DOMAIN order |-> [name |-> merged[order[i]].id,
                                                    mbid |-> merged[order[i]].mbid]], ShelfSize)])

(* #displayName; without a name Last.fm is not asked.                      *)
SeedName(l) ==
    /\ At(l, "name") /\ req[l].route = "similar"
    /\ IF Peek("artist") \/ NamesOf("artist", 1) # {} THEN Goes(l, "lastfm")
       ELSE ShowSimilar(l, {}, None)
    /\ Same

(* #lastfmSimilarArtists: a failed load serves the old row, or is reported. *)
LastfmSimilarArtists(l) ==
    /\ At(l, "lastfm")
    /\ IF lastfm.fresh THEN ShowSimilar(l, {}, lastfm.value) /\ UNCHANGED lastfm
       ELSE IF "lastfm" \notin trouble
       THEN /\ lastfm' = [value |-> "good", fresh |-> TRUE]
            /\ ShowSimilar(l, {}, "good")
       ELSE /\ ShowSimilar(l, IF lastfm.value = None THEN {"lastfm"} ELSE {}, lastfm.value)
            /\ UNCHANGED lastfm
    /\ UNCHANGED <<now, changes, requests, records, xwalk, stored, labs, trouble>>

-----------------------------------------------------------------------------
(* preview.                                                                *)

(* resolveCached: a stored row that is not overdue and has a store link.   *)
ResolveCached(row) == row = "servable"

Itunes(l) == [Found(l) EXCEPT !.source = "itunes"]

Preview(l) ==
    /\ At(l, "stored")
    /\ IF ResolveCached(stored) THEN Respond(l, Itunes(l)) ELSE Goes(l, "recording")
    /\ Same

PeekRecording(l) ==
    /\ At(l, "recording")
    /\ IF Peek("recording") THEN Goes(l, "refresh") ELSE Respond(l, NotFound(l))
    /\ Same

(* refreshForPlayback looks at the stored row again, then joins or starts  *)
(* the resolution at Deezer.                                               *)
Refresh(l) ==
    /\ At(l, "refresh")
    /\ IF ResolveCached(stored) THEN Respond(l, Itunes(l))
       ELSE /\ req' = [req EXCEPT ![l].at = "deezer"]
            /\ flight' = TRUE
            /\ got' = {} /\ UNCHANGED shared
    /\ Same

(* #fromDeezer: what has already run out is reported as nothing.           *)
FromDeezer(expires) == expires > now

(* Deezer answers everybody who waits, with a URL signed until `expires`,  *)
(* or not.                                                                 *)
Deezer ==
    LET ls == {l \in Listeners : At(l, "deezer")} IN
    /\ flight
    /\ \E expires \in {now, now + 1} :
        LET page(l) == IF "deezer" \notin trouble /\ FromDeezer(expires)
                       THEN [Found(l) EXCEPT !.source = "deezer", !.expires = expires]
                       ELSE NotFound(l)
        IN  /\ got' = {page(l) : l \in ls}
            /\ shared' = Kept(page(CHOOSE l \in ls : TRUE))
    /\ req' = [l \in Listeners |-> IF l \in ls THEN Idle ELSE req[l]]
    /\ flight' = FALSE
    /\ Same

-----------------------------------------------------------------------------
(* The jobs and the providers.                                             *)

Elapses == got' = {} /\ UNCHANGED <<requests, req, flight, shared>>
Changes == changes < MaxChanges /\ changes' = changes + 1 /\ UNCHANGED now /\ Elapses

(* warmArtist, warmRecording, warmRelease: an unknown MBID is kept as null. *)
Warm(e) ==
    /\ Changes
    /\ \E row \in {"known", "null"} : records' = [records EXCEPT ![e] = row]
    /\ UNCHANGED <<xwalk, stored, labs, lastfm, trouble>>

(* A TTL runs out.                                                         *)
Lapse ==
    /\ Changes
    /\ \/ \E e \in Entities : records[e] # "none" /\ records' = [records EXCEPT ![e] = "none"]
                              /\ UNCHANGED <<stored, labs, lastfm>>
       \/ stored = "servable" /\ stored' = "overdue" /\ UNCHANGED <<records, labs, lastfm>>
       \/ labs.fresh /\ labs' = [labs EXCEPT !.fresh = FALSE] /\ UNCHANGED <<records, stored, lastfm>>
       \/ lastfm.fresh /\ lastfm' = [lastfm EXCEPT !.fresh = FALSE] /\ UNCHANGED <<records, stored, labs>>
    /\ UNCHANGED <<xwalk, trouble>>

(* The warmer's put restarts the revalidation window.                      *)
Put ==
    /\ Changes
    /\ stored' = "servable"
    /\ UNCHANGED <<records, xwalk, labs, lastfm, trouble>>

(* A key is learned, or superseded with more confidence.                   *)
Learn(k) ==
    /\ Changes
    /\ \E mbid \in 1 .. 2, conf \in 1 .. 2 :
        /\ k \in DOMAIN xwalk => conf > xwalk[k].conf
        /\ xwalk' = (k :> [mbid |-> mbid, conf |-> conf]) @@ xwalk
    /\ UNCHANGED <<records, stored, labs, lastfm, trouble>>

Trouble(t) ==
    /\ Changes
    /\ trouble' = IF t \in trouble THEN trouble \ {t} ELSE trouble \cup {t}
    /\ UNCHANGED <<records, xwalk, stored, labs, lastfm>>

Tick == now < MaxTime /\ now' = now + 1 /\ UNCHANGED <<changes, env>> /\ Elapses

Next ==
    \/ \E l \in Listeners :
        \/ \E route \in Routes : FromShared(l, route) \/ Ask(l, route)
        \/ Search(l) \/ Artist(l) \/ NameFromCrosswalk(l) \/ Track(l) \/ Album(l)
        \/ LabsSimilarArtists(l) \/ SeedName(l) \/ LastfmSimilarArtists(l)
        \/ Preview(l) \/ PeekRecording(l) \/ Refresh(l)
    \/ Deezer
    \/ \E e \in Entities : Warm(e)
    \/ \E k \in Keys : Learn(k)
    \/ \E t \in {"labs", "half_open", "lastfm", "deezer"} : Trouble(t)
    \/ Lapse \/ Put \/ Tick

Spec == Init /\ [][Next]_vars

-----------------------------------------------------------------------------

(***************************************************************************)
(* "A stored Deezer URL passes every test written against a warm cache and *)
(* then 403s for users" (discovery.ts): whoever else shares the resolution *)
(* and whatever an HTTP cache kept, a listener is never handed a signed    *)
(* URL that has run out.                                                   *)
(***************************************************************************)
PreviewsPlay ==
    \A page \in got : page.source = "deezer" => page.expires > now

=============================================================================
