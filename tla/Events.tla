------------------------------- MODULE Events -------------------------------
(***************************************************************************)
(* The live events shelf: GET /artists/:mbid/events (product.ts), services/ *)
(* events.ts, events/seatgeek-provider.ts and seatgeek/client.ts.  A       *)
(* request looks an artist's performer id up by name and keeps it for a    *)
(* week, an unknown artist as 0; then it lists that performer's events in  *)
(* a place and keeps those for six hours.  Both lookups go through the     *)
(* cache, whose own steps CacheFirst models: here a lookup is one step.    *)
(*                                                                         *)
(* A text is a sequence of words and a word one of characters, because     *)
(* names are compared by their letters.  What a document of SeatGeek looks *)
(* like is left out: an event is its performer and its venue.              *)
(***************************************************************************)
EXTENDS Naturals, Sequences, FiniteSets

CONSTANTS
    None,
    Readers,        \* concurrent requests
    NameOf,         \* the name of each artist, by MBID
    PerformerName,  \* SeatGeek: the name of each performer, by id
    Venues,         \* SeatGeek: where there are events, [country, state, city]
    Places,         \* where a request may ask, with None for what it leaves out
    Limits,         \* how many events it may ask for, None included
    Capital,        \* the capital of each small letter
    Marks,          \* the characters that are no letter, digit or space
    Personal,       \* the texts that hold coordinates, an address or a postal code
    MaxAsks         \* bound: requests ever made

Artists == DOMAIN NameOf
Performers == DOMAIN PerformerName

VARIABLES
    listed,         \* SeatGeek: the performers it has
    performers,     \* cache: the row of each artist; seen is history, what
                    \* SeatGeek had when the row was written
    shelves,        \* cache: the row of each <<performer id, geoKey>>
    stage,          \* where each request waits
    asked,          \* the artist, the place and the limit it questions with
    found,          \* the performer it goes on with
    served,         \* its last response
    questions

vars == <<listed, performers, shelves, stage, asked, found, served, questions>>

Nobody == [id |-> 0, seen |-> {}]
NoShelf == [events |-> {}, seen |-> {}, status |-> 0]

Init ==
    /\ listed \in SUBSET Performers
    /\ performers = [a \in Artists |-> None]
    /\ shelves = << >>
    /\ stage = [r \in Readers |-> "idle"]
    /\ asked = [r \in Readers |-> None]
    /\ found = [r \in Readers |-> Nobody]
    /\ served = [r \in Readers |-> NoShelf]
    /\ questions = 0

-----------------------------------------------------------------------------
(* normalize.ts.                                                           *)

ToUpper(text) ==
    [i \in DOMAIN text |->
        [j \in DOMAIN text[i] |-> IF text[i][j] \in DOMAIN Capital THEN Capital[text[i][j]]
                                  ELSE text[i][j]]]

Small(c) == IF \E l \in DOMAIN Capital : Capital[l] = c
            THEN CHOOSE l \in DOMAIN Capital : Capital[l] = c ELSE c

(* Marks stand at the ends of words in the texts there are, where dropping *)
(* one is what replacing it by a space comes to.                           *)
NormalizeKey(text) ==
    LET Bare(word) == SelectSeq(word, LAMBDA c : c \notin Marks)
        Folded(word) == [i \in DOMAIN Bare(word) |-> Small(Bare(word)[i])]
    IN  SelectSeq([i \in DOMAIN text |-> Folded(text[i])], LAMBDA word : word # <<>>)

(* Two spaces before a word and one behind it.                             *)
Trigrams(key) ==
    LET Padded(word) == <<" ", " ">> \o word \o <<" ">> IN
    UNION {{SubSeq(Padded(key[i]), j, j + 2) : j \in 1 .. Len(Padded(key[i])) - 2} :
              i \in DOMAIN key}

(* A similarity is the fraction shared / all.                              *)
TrigramSimilarity(a, b) ==
    CASE a = b /\ a # <<>> -> [shared |-> 1, all |-> 1]
      [] a = <<>> \/ b = <<>> -> [shared |-> 0, all |-> 1]
      [] OTHER -> [shared |-> Cardinality(Trigrams(a) \cap Trigrams(b)),
                   all |-> Cardinality(Trigrams(a) \cup Trigrams(b))]

Above(x, y) == x.shared * y.all > y.shared * x.all

-----------------------------------------------------------------------------
(* seatgeek/client.ts: what may be sent.                                   *)

Allowed == {"q", "per_page", "sort", "performers.id", "venue.city", "venue.state",
            "venue.country", "datetime_utc.gte"}
FreeText == {"q", "venue.city", "venue.state", "venue.country"}

(* assertNoPersonalData, where params is a function from names to texts.   *)
NoPersonalData(params) ==
    \A key \in DOMAIN params :
        params[key] # None => key \in Allowed /\ (key \in FreeText => params[key] \notin Personal)

SearchParams(a) == [x \in {"q"} |-> NameOf[a]]

EventsParams(place) ==
    [x \in {"venue.city", "venue.state", "venue.country"} |->
        CASE x = "venue.city" -> place.city
          [] x = "venue.state" -> place.state
          [] x = "venue.country" -> place.country]

-----------------------------------------------------------------------------
(* External: SeatGeek.  A search is fuzzy and finds every performer there  *)
(* is, in any order.  A list of events is held to the filters it is given, *)
(* whatever the case and the marks, and to the limit.                      *)

OrEmpty(text) == IF text = None THEN <<>> ELSE text

Agree(want, have) == want # <<>> => have = want

Within(venue, place) ==
    /\ Agree(ToUpper(OrEmpty(place.country)), ToUpper(OrEmpty(venue.country)))
    /\ Agree(ToUpper(OrEmpty(place.state)), ToUpper(OrEmpty(venue.state)))
    /\ Agree(NormalizeKey(OrEmpty(place.city)), NormalizeKey(OrEmpty(venue.city)))

(* A 404, and a 403 whose code is none that #get knows, are read as an     *)
(* empty list.                                                             *)
SearchResponses(there) ==
    {<<>>} \cup {s \in [1 .. Cardinality(there) -> there] :
                    \A c \in there : \E i \in DOMAIN s : s[i] = c}

EventResponses(p, place, limit) ==
    LET those == {[performer |-> p, venue |-> v] : v \in {v \in Venues : Within(v, place)}}
    IN  {{}} \cup {S \in SUBSET those : \/ Cardinality(S) = limit
                                        \/ S = those /\ Cardinality(S) <= limit}

-----------------------------------------------------------------------------
(* events/seatgeek-provider.ts.                                            *)

\* Mutant: a city of one state is another's.
GeoWithoutState(place) ==
    <<ToUpper(OrEmpty(place.country)), NormalizeKey(OrEmpty(place.city))>>

(* The limit is not part of it.  No text has the separator of the parts.   *)
GeoKey(place) ==
    <<ToUpper(OrEmpty(place.country)), ToUpper(OrEmpty(place.state)),
      NormalizeKey(OrEmpty(place.city))>>

DefaultLimit == 20
LimitOf(limit) == IF limit = None THEN DefaultLimit ELSE limit

Score(a, p) == TrigramSimilarity(NormalizeKey(NameOf[a]), NormalizeKey(PerformerName[p]))

(* PERFORMER_MATCH_THRESHOLD, 0.6.                                         *)
Passes(score) == 10 * score.shared >= 6 * score.all

(* The first of the best that pass, or 0.                                  *)
BestPerformer(candidates) ==
    LET best == {i \in DOMAIN candidates :
                    /\ Passes(candidates[i].score)
                    /\ \A j \in DOMAIN candidates :
                          ~Above(candidates[j].score, candidates[i].score)
                    /\ \A j \in 1 .. i - 1 :
                          Above(candidates[i].score, candidates[j].score)}
    IN  IF best = {} THEN 0 ELSE candidates[CHOOSE i \in best : TRUE].id

-----------------------------------------------------------------------------
(* services/events.ts and the route.                                       *)

Respond(r, events, status) ==
    /\ served' = [served EXCEPT ![r] = [events |-> events, seen |-> found[r].seen,
                                        status |-> status]]
    /\ stage' = [stage EXCEPT ![r] = "idle"]
    /\ found' = [found EXCEPT ![r] = Nobody]

(* The route, for an artist that discovery can name.                       *)
Ask(r, a, place, limit) ==
    /\ questions < MaxAsks /\ questions' = questions + 1
    /\ stage[r] = "idle"
    /\ stage' = [stage EXCEPT ![r] = "performer"]
    /\ asked' = [asked EXCEPT ![r] = [artist |-> a, place |-> place, limit |-> limit]]
    /\ served' = [served EXCEPT ![r] = NoShelf]
    /\ UNCHANGED <<listed, performers, shelves, found>>

(* What performerIdFor's answer leads to.                                  *)
Continue(r, row) ==
    \/ /\ row.id = 0
       /\ Respond(r, {}, 200)
    \/ /\ row.id # 0
       /\ found' = [found EXCEPT ![r] = [id |-> row.id, seen |-> row.seen]]
       /\ stage' = [stage EXCEPT ![r] = "events"]
       /\ UNCHANGED served

Due(row) == row # None => ~row.fresh

PerformerCached(r) ==
    /\ stage[r] = "performer" /\ ~Due(performers[asked[r].artist])
    /\ Continue(r, performers[asked[r].artist])
    /\ UNCHANGED <<listed, performers, shelves, asked, questions>>

(* A miss: the search, and its answer stored.                              *)
PerformerLoaded(r) ==
    LET a == asked[r].artist
        scored == {[id |-> p, score |-> Score(a, p)] : p \in listed}
    IN
    /\ stage[r] = "performer" /\ Due(performers[a])
    /\ NoPersonalData(SearchParams(a))
    /\ \E candidates \in SearchResponses(scored) :
        LET row == [id |-> BestPerformer(candidates), seen |-> listed, fresh |-> TRUE] IN
        /\ performers' = [performers EXCEPT ![a] = row]
        /\ Continue(r, row)
    /\ UNCHANGED <<listed, shelves, asked, questions>>

(* The search is refused or fails: an expired row serves, and without one  *)
(* the shelf is empty.                                                     *)
PerformerFailed(r) ==
    LET row == performers[asked[r].artist] IN
    /\ stage[r] = "performer" /\ Due(row)
    /\ row # None \/ NoPersonalData(SearchParams(asked[r].artist))
    /\ IF row # None THEN Continue(r, row) ELSE Respond(r, {}, 200)
    /\ UNCHANGED <<listed, performers, shelves, asked, questions>>

ShelfKey(r) == <<found[r].id, GeoKey(asked[r].place)>>

Row(k) == IF k \in DOMAIN shelves THEN shelves[k] ELSE None

EventsCached(r) ==
    /\ stage[r] = "events" /\ ~Due(Row(ShelfKey(r)))
    /\ Respond(r, Row(ShelfKey(r)).events, 200)
    /\ UNCHANGED <<listed, performers, shelves, asked, questions>>

EventsLoaded(r) ==
    /\ stage[r] = "events" /\ Due(Row(ShelfKey(r)))
    /\ NoPersonalData(EventsParams(asked[r].place))
    /\ \E events \in EventResponses(found[r].id, asked[r].place, LimitOf(asked[r].limit)) :
        /\ shelves' = [k \in DOMAIN shelves \cup {ShelfKey(r)} |->
                          IF k = ShelfKey(r) THEN [events |-> events, fresh |-> TRUE]
                          ELSE shelves[k]]
        /\ Respond(r, events, 200)
    /\ UNCHANGED <<listed, performers, asked, questions>>

EventsFailed(r) ==
    /\ stage[r] = "events" /\ Due(Row(ShelfKey(r)))
    /\ Row(ShelfKey(r)) # None \/ NoPersonalData(EventsParams(asked[r].place))
    /\ Respond(r, IF Row(ShelfKey(r)) = None THEN {} ELSE Row(ShelfKey(r)).events, 200)
    /\ UNCHANGED <<listed, performers, shelves, asked, questions>>

(* PersonalDataRejectedError is no UpstreamError: without a row to fall    *)
(* back on the request fails.                                              *)
Rejected(r) ==
    /\ \/ /\ stage[r] = "performer" /\ performers[asked[r].artist] = None
          /\ ~NoPersonalData(SearchParams(asked[r].artist))
       \/ /\ stage[r] = "events" /\ Row(ShelfKey(r)) = None
          /\ ~NoPersonalData(EventsParams(asked[r].place))
    /\ Respond(r, {}, 500)
    /\ UNCHANGED <<listed, performers, shelves, asked, questions>>

(* TTLs run out, and SeatGeek's catalogue grows.                           *)
Expire ==
    \/ \E a \in Artists :
        /\ ~Due(performers[a])
        /\ performers' = [performers EXCEPT ![a].fresh = FALSE]
        /\ UNCHANGED shelves
    \/ \E k \in DOMAIN shelves :
        /\ shelves[k].fresh
        /\ shelves' = [shelves EXCEPT ![k].fresh = FALSE]
        /\ UNCHANGED performers

Expires == Expire /\ UNCHANGED <<listed, stage, asked, found, served, questions>>

Listed ==
    /\ \E p \in Performers \ listed : listed' = listed \cup {p}
    /\ UNCHANGED <<performers, shelves, stage, asked, found, served, questions>>

Next ==
    \/ \E r \in Readers :
        \/ \E a \in Artists, place \in Places, limit \in Limits : Ask(r, a, place, limit)
        \/ PerformerCached(r) \/ PerformerLoaded(r) \/ PerformerFailed(r)
        \/ EventsCached(r) \/ EventsLoaded(r) \/ EventsFailed(r) \/ Rejected(r)
    \/ Expires \/ Listed

Spec == Init /\ [][Next]_vars

-----------------------------------------------------------------------------

(***************************************************************************)
(* A shelf shows what was asked for, whoever else's answer filled the      *)
(* cache and however it spelled the place: events where they were asked    *)
(* for, of a performer whose name passes for the artist's, and no other    *)
(* that SeatGeek had when the name was looked up comes closer to it.  A    *)
(* name that contains a long one passes for it, so while SeatGeek does not *)
(* have the artist a tribute band may stand in.                            *)
(***************************************************************************)
ShelfIsTheOneAsked ==
    \A r \in Readers : stage[r] = "idle" =>
        \A e \in served[r].events :
            /\ Within(e.venue, asked[r].place)
            /\ Passes(Score(asked[r].artist, e.performer))
            /\ \A p \in served[r].seen :
                  ~Above(Score(asked[r].artist, p), Score(asked[r].artist, e.performer))

=============================================================================
