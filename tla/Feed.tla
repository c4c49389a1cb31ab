------------------------------- MODULE Feed -------------------------------
(***************************************************************************)
(* The personal routes of services/discovery.ts (feed, recommendations,     *)
(* stations and their tracks) over the blend of packages/discovery, the     *)
(* response cache and the stored connections.                              *)
(*                                                                         *)
(* A request opens the credential of its user and then makes its calls.     *)
(* What a call returns depends on its key alone, so the calls of one        *)
(* request are one step that chooses which of them fail; a call whose row   *)
(* is cached does not.                                                     *)
(***************************************************************************)
EXTENDS Connections, Merge

CONSTANTS
    Top, Recs, Mixes,   \* what ListenBrainz knows of an account
    Radio, Labs,        \* what it knows of an artist
    Named,              \* which recordings the warmer may have named before
    Similar, Enrich,    \* what Last.fm knows of an artist and of a track
    Limit,              \* items per shelf
    SectionsPerPage,
    Lastfm,             \* an app-wide Last.fm key is configured
    MaxFailures,        \* bound: calls of one request that fail
    MaxRequests         \* bound: requests made

Items == [id : Nat, score : Nat, mbid : Nat]

(* The artists an account plays most can be asked about as far as they have *)
(* an MBID, and so can the first track of their radio.                     *)
ASSUME ProviderData ==
    /\ Limit \in Nat
    /\ \A a \in Accounts : Top[a] \in Seq([mbid : Nat, name : Nat])
    /\ \A a \in Accounts : \A m \in {Top[a][i].mbid : i \in DOMAIN Top[a]} \ {0} :
          /\ Radio[m] \in Seq(Items)
          /\ Radio[m] # <<>> => Enrich[Radio[m][1].id] \in Seq(Items)

VARIABLES
    cache,   \* upstream_cache: key -> payload
    warm,    \* recordings whose name is in the cache
    req,     \* the request of each user
    resp,    \* the last answer to each user
    paging,  \* the client of each user: its cursor and the pages it collected
    learned, \* recordings offered to the crosswalk (Catalogue)
    made

feedVars == <<cache, warm, req, resp, paging, learned, made>>

None == "none"
Quiet == [at |-> "quiet", route |-> "none", offset |-> 0, acct |-> None, seed |-> 0]
Unasked == [route |-> "none", acct |-> None, sections |-> <<>>, unavailable |-> {},
            whole |-> <<>>, silent |-> FALSE, key |-> 0]
FromStart == [offset |-> 0, key |-> 0, seen |-> <<>>, base |-> <<>>, same |-> TRUE]

FeedInit ==
    /\ cache = <<>>
    /\ warm \in Named
    /\ req = [u \in Users |-> Quiet]
    /\ resp = [u \in Users |-> Unasked]
    /\ paging = [u \in Users |-> FromStart]
    /\ made = 0 /\ learned = {}

----------------------------------------------------------------------------
(* The ListenBrainz and Last.fm ports: cache.fetch under a key.             *)

TopKey(a) == <<"top-artists", a>>
CfKey(a) == <<"cf", a>>
MixKey(a) == <<"createdfor", a>>
RadioKey(m) == <<"lb-radio", m>>
LabsKey(m) == <<"labs-similar", m>>
SimilarKey(n) == <<"similar-artists", n>>
EnrichKey(t) == <<"similar-tracks", t>>

IdsOf(s) == {s[i].id : i \in DOMAIN s}

\* F is the set of the keys whose load fails.
Has(k, F) == k \in DOMAIN cache \/ k \notin F
Reads(k, fresh) == IF k \in DOMAIN cache THEN cache[k] ELSE fresh
From(source, s) == [i \in DOMAIN s |-> [id |-> s[i].id, score |-> s[i].score,
                                        mbid |-> s[i].mbid, source |-> source]]

Outcome(sections, failed) == [sections |-> sections, failed |-> failed]
Shelf(kind, seed, items) ==
    IF items = <<>> THEN <<>> ELSE <<[kind |-> kind, seed |-> seed, items |-> items]>>

\* list.filter
Filtered(s, Keeps(_)) ==
    LET kept[k \in 0..Len(s)] ==
          IF k = 0 THEN <<>>
          ELSE IF Keeps(s[k]) THEN Append(kept[k - 1], s[k]) ELSE kept[k - 1]
    IN kept[Len(s)]

----------------------------------------------------------------------------
(* buildFeed and its four builders.                                        *)

\* hydrateRecordings peeks: a recording without a cached name is dropped.
MadeForYou(a, F) ==
    LET recs == Reads(CfKey(a), Recs[a])
        named == Filtered(recs, LAMBDA c : c.mbid \in warm) IN
    IF a = None \/ ~Has(CfKey(a), F) THEN Outcome(<<>>, {"listenbrainz"})
    ELSE IF <<"hydrate">> \in F /\ recs # <<>> THEN Outcome(<<>>, {"musicbrainz"})
    ELSE Outcome(Shelf("made_for_you", 0, Take(MergeTracks(From("cf", named)), Limit)), {})

Seeds(top, n) == Take(Filtered(top, LAMBDA a : a.mbid # 0), n)

\* One shelf per seed; Last.fm enriches it, asked about the first radio track.
RadioShelf(a, F) ==
    LET radio == Reads(RadioKey(a.mbid), Radio[a.mbid])
        asks == Lastfm /\ radio # <<>>
        extra == IF asks /\ Has(EnrichKey(radio[1].id), F)
                 THEN Reads(EnrichKey(radio[1].id), Enrich[radio[1].id]) ELSE <<>> IN
    IF ~Has(RadioKey(a.mbid), F) THEN Outcome(<<>>, {"listenbrainz"})
    ELSE Outcome(Shelf("because_you_like", a.name,
                   Take(MergeTracks(From("radio", radio) \o From("lastfm", extra)), Limit)),
                 IF asks /\ ~Has(EnrichKey(radio[1].id), F) THEN {"lastfm"} ELSE {})

\* MUTANT: the shelves stop at the first seed that fails, and nobody is told.
BecauseYouLikeUntilFailure(top, n, F) ==
    LET s == Seeds(top, n)
        good == Filtered(s, LAMBDA a : Has(RadioKey(a.mbid), F)) IN
    Outcome(FlattenSeq([i \in DOMAIN good |-> RadioShelf(good[i], F).sections]),
            UNION {RadioShelf(good[i], F).failed : i \in DOMAIN good})

BecauseYouLike(top, n, F) ==
    LET s == Seeds(top, n)
        shelf == [i \in DOMAIN s |-> RadioShelf(s[i], F)] IN
    Outcome(FlattenSeq([i \in DOMAIN s |-> shelf[i].sections]),
            UNION {shelf[i].failed : i \in DOMAIN s})

\* labs answers [] for any failure of its own; Last.fm's is reported.
SimilarArtists(top, F) ==
    IF top = <<>> THEN Outcome(<<>>, {}) ELSE
    LET seed == top[1]
        labs == IF seed.mbid # 0 /\ Has(LabsKey(seed.mbid), F)
                THEN Reads(LabsKey(seed.mbid), Labs[seed.mbid]) ELSE <<>>
        other == IF Lastfm /\ Has(SimilarKey(seed.name), F)
                 THEN Reads(SimilarKey(seed.name), Similar[seed.name]) ELSE <<>> IN
    Outcome(Shelf("connections", seed.name,
              Take(MergeArtists(From("labs", labs) \o From("lastfm", other)), Limit)),
            IF Lastfm /\ ~Has(SimilarKey(seed.name), F) THEN {"lastfm"} ELSE {})

DailyMix(a, F) ==
    IF a = None \/ ~Has(MixKey(a), F) THEN Outcome(<<>>, {"listenbrainz"})
    ELSE Outcome(Shelf("daily_mix", 0, Reads(MixKey(a), Mixes[a])), {})

KnowsTop(a, F) == a # None /\ Has(TopKey(a), F)
TopArtists(a, F) == IF KnowsTop(a, F) THEN Reads(TopKey(a), Top[a]) ELSE <<>>

BuildFeed(a, n, F) ==
    LET top == TopArtists(a, F)
        picks == MadeForYou(a, F)
        like == BecauseYouLike(top, n, F)
        near == SimilarArtists(top, F)
        mix == DailyMix(a, F) IN
    [sections |-> picks.sections \o like.sections \o near.sections \o mix.sections,
     unavailable |-> picks.failed \cup like.failed \cup near.failed \cup mix.failed \cup
                     (IF KnowsTop(a, F) THEN {} ELSE {"listenbrainz"})]

\* The loads a blend makes when those of F fail.
Loads(a, n, F) ==
    LET top == TopArtists(a, F)
        s == Seeds(top, n) IN
    (IF a = None THEN {} ELSE {TopKey(a), CfKey(a), MixKey(a)})
    \cup {RadioKey(s[i].mbid) : i \in DOMAIN s}
    \cup {EnrichKey(Reads(RadioKey(s[i].mbid), Radio[s[i].mbid])[1].id) : i \in
            {j \in DOMAIN s : /\ Lastfm /\ Has(RadioKey(s[j].mbid), F)
                              /\ Reads(RadioKey(s[j].mbid), Radio[s[j].mbid]) # <<>>}}
    \cup (IF top = <<>> THEN {}
          ELSE (IF top[1].mbid = 0 THEN {} ELSE {LabsKey(top[1].mbid)})
               \cup (IF Lastfm THEN {SimilarKey(top[1].name)} ELSE {}))

\* And the look-up of names, which nothing caches.
Calls(a, n, F) ==
    Loads(a, n, F) \cup
    (IF a # None /\ Has(CfKey(a), F) /\ Reads(CfKey(a), Recs[a]) # <<>> THEN {<<"hydrate">>} ELSE {})

Payload(k, a) ==
    CASE k[1] = "top-artists" -> Top[a]
      [] k[1] = "cf" -> Recs[a]
      [] k[1] = "createdfor" -> Mixes[a]
      [] k[1] = "lb-radio" -> Radio[k[2]]
      [] k[1] = "labs-similar" -> Labs[k[2]]
      [] k[1] = "similar-artists" -> Similar[k[2]]
      [] OTHER -> Enrich[k[2]]

\* labs' own failures are empty answers to its client, and are cached as such.
Empties(F) == SUBSET {k \in F : k[1] = "labs-similar"}

Fill(loaded, empty, a) ==
    [k \in DOMAIN cache \cup loaded \cup empty |->
        IF k \in DOMAIN cache THEN cache[k] ELSE IF k \in empty THEN <<>> ELSE Payload(k, a)]

----------------------------------------------------------------------------
(* The requests.                                                           *)

\* A cursor or a station id is signed for its user under the configured key;
\* any other is refused before anything else happens.
Valid(u, key) == key = kek

\* The request opens the credential first (#ports): a row that cannot be opened
\* fails it, having no row does not.
Ask(u, route, offset, seed) ==
    /\ req[u].at = "quiet" /\ made < MaxRequests /\ made' = made + 1
    /\ \E a \in IF Openable(u, "listenbrainz") = {} THEN {None}
                ELSE {r.account : r \in {x \in Openable(u, "listenbrainz") : Opens(x)}} :
         req' = [req EXCEPT ![u] = [at |-> "calls", route |-> route, offset |-> offset,
                                    acct |-> a, seed |-> seed]]
    /\ resp' = [resp EXCEPT ![u] = Unasked]
    /\ UNCHANGED <<cache, warm, paging, learned, connVars>>

AskFeed(u) == Ask(u, "feed", 0, 0)
AskNextPage(u) == /\ paging[u].offset > 0 /\ Valid(u, paging[u].key)
                  /\ Ask(u, "feed", paging[u].offset, 0)
AskRecommendations(u) == Ask(u, "recommendations", 0, 0)
AskStations(u) == Ask(u, "stations", 0, 0)
AskStationTracks(u) == /\ resp[u].route = "stations" /\ Valid(u, resp[u].key)
                       /\ \E i \in DOMAIN resp[u].sections :
                            Ask(u, "tracks", 0, resp[u].sections[i])

SeedsOf(route) == CASE route = "feed" -> {2} [] route = "recommendations" -> {1, 3}
                    [] OTHER -> {0}

\* #page: the next cursor exists only if a section is left.
PageOf(u, sections, offset) ==
    LET end == offset + SectionsPerPage
        more == end < Len(sections) IN
    [page |-> SubSeq(sections, offset + 1, IF more THEN end ELSE Len(sections)),
     next |-> IF more THEN end ELSE 0]

Collect(u, sections, p) ==
    LET first == req[u].offset = 0 IN
    [offset |-> p.next, key |-> kek,
     seen |-> IF first THEN p.page ELSE paging[u].seen \o p.page,
     base |-> IF first THEN sections ELSE paging[u].base,
     same |-> first \/ (paging[u].same /\ paging[u].base = sections)]

\* Any of the calls that are made may fail, in whatever combination.
Failing(a, n) ==
    LET may == Calls(a, n, {}) \ DOMAIN cache
        some == {{k[i] : i \in 1..MaxFailures} : k \in [1..MaxFailures -> may]} IN
    {F \in some \cup {{}} : F \subseteq Calls(a, n, F)}

Answered(u, r) == /\ resp' = [resp EXCEPT ![u] = r]
                  /\ req' = [req EXCEPT ![u] = Quiet]
                  /\ UNCHANGED <<warm, made, connVars>>

\* A recommendation is no list of similar artists.
Recommended(sections) ==
    Filtered(sections, LAMBDA s : s.kind \in {"made_for_you", "because_you_like", "daily_mix"})

\* GET /feed and GET /recommendations
Blended(u) == LET a == req[u].acct IN
    /\ req[u].at = "calls" /\ req[u].route \in {"feed", "recommendations"}
    /\ \E n \in SeedsOf(req[u].route) : LET full == BuildFeed(a, n, {}) IN
       \E F \in Failing(a, n) :
         LET env == IF F = {} THEN full ELSE BuildFeed(a, n, F)
             loaded == Loads(a, n, F) \ F
             p == PageOf(u, env.sections, req[u].offset) IN
         /\ Answered(u, [route |-> req[u].route, acct |-> a,
              sections |-> IF req[u].route = "feed" THEN p.page ELSE Recommended(env.sections),
              unavailable |-> env.unavailable,
              whole |-> IF req[u].route = "feed"
                        THEN PageOf(u, full.sections, req[u].offset).page
                        ELSE Recommended(full.sections),
              silent |-> \E k \in F : k[1] = "labs-similar", key |-> kek])
         /\ \E E \in Empties(F) : cache' = Fill(loaded, E, a)
         /\ learned' = learned \cup
                 UNION {IdsOf(Radio[k[2]]) : k \in {x \in loaded : x[1] = "lb-radio"}}
         /\ paging' = IF req[u].route # "feed" THEN paging
                      ELSE [paging EXCEPT ![u] = Collect(u, env.sections, p)]

\* GET /stations: a signed id per top artist with an MBID
Stations(u) == LET a == req[u].acct IN
    /\ req[u].at = "calls" /\ req[u].route = "stations"
    /\ \E F \in SUBSET (IF a = None THEN {} ELSE {TopKey(a)}) :
         /\ F \cap DOMAIN cache = {}
         /\ Answered(u, [Unasked EXCEPT !.route = "stations", !.acct = a, !.key = kek,
              !.sections = [i \in DOMAIN Seeds(TopArtists(a, F), 8) |->
                              Seeds(TopArtists(a, F), 8)[i].mbid],
              !.unavailable = IF KnowsTop(a, F) THEN {} ELSE {"listenbrainz"}])
         /\ cache' = Fill(IF KnowsTop(a, F) THEN {TopKey(a)} ELSE {}, {}, a)
    /\ UNCHANGED <<paging, learned>>

\* GET /stations/:id/tracks
StationTracks(u) == LET k == RadioKey(req[u].seed) IN
    /\ req[u].at = "calls" /\ req[u].route = "tracks"
    /\ \E ok \in BOOLEAN :
         /\ ok => req[u].acct # None
         /\ ~ok => req[u].acct = None \/ k \notin DOMAIN cache
         /\ Answered(u, [Unasked EXCEPT !.route = "tracks", !.acct = req[u].acct,
              !.sections = IF ok THEN Take(Reads(k, Radio[req[u].seed]), Limit) ELSE <<>>,
              !.unavailable = IF ok THEN {} ELSE {"listenbrainz"}])
         /\ cache' = Fill(IF ok THEN {k} ELSE {}, {}, req[u].acct)
         /\ learned' = IF ok THEN learned \cup IdsOf(Reads(k, Radio[req[u].seed])) ELSE learned
    /\ UNCHANGED paging

FeedNext == \E u \in Users :
    \/ AskFeed(u) \/ AskNextPage(u) \/ AskRecommendations(u)
    \/ AskStations(u) \/ AskStationTracks(u)
    \/ Blended(u) \/ Stations(u) \/ StationTracks(u)

FeedSpec == /\ ConnStart({}) /\ FeedInit
            /\ [][FeedNext \/ (ConnNext /\ UNCHANGED feedVars)]_<<connVars, feedVars>>

----------------------------------------------------------------------------

Names(a) == {Top[a][i].name : i \in DOMAIN Top[a]}

Kinds(s) == {<<s[i].kind, s[i].seed>> : i \in DOMAIN s}

(* An answer that is not marked degraded is the whole answer: had none of  *)
(* its calls failed, it would have been the same from the rows the cache   *)
(* held, but for the similar artists of labs, whose outage is silent by    *)
(* contract.  A degraded one shows no shelf the whole answer lacks, page   *)
(* boundaries aside.                                                       *)
DegradationIsHonest == \A u \in Users : LET r == resp[u] IN
    r.route \in {"feed", "recommendations"} =>
      /\ r.unavailable = {} /\ ~r.silent => r.sections = r.whole
      /\ r.route = "recommendations" => Kinds(r.sections) \subseteq Kinds(r.whole)

=============================================================================
