------------------------------ MODULE Adapters ------------------------------
(***************************************************************************)
(* The typed clients of packages/upstream/src: musicbrainz, listenbrainz,  *)
(* lastfm, deezer, itunes and reccobeats.  Each is a ProviderClient and,   *)
(* per method, a request with the statuses it accepts, a check for errors  *)
(* that arrive inside a 200, and a parser.                                 *)
(*                                                                         *)
(* A behaviour has one client and one call at a time against the mock of   *)
(* that provider, which may be faulty, or against what the parsers say the *)
(* real one sends.  The local quota and the limiter's queue, which         *)
(* ProviderClient and Limiters model, may refuse a call at any moment.  *)
(***************************************************************************)
EXTENDS Payloads, CircuitBreaker

Seqs == INSTANCE SequencesExt

(***************************************************************************)
(* The mock providers that the load and chaos runs point the service at,   *)
(* load/mock-upstreams: the quota each one enforces, the faults a run      *)
(* injects through the control plane, the shape of each refusal and the    *)
(* answers.                                                                *)
(*                                                                         *)
(* A response carries beside its status and body what it means: an answer, *)
(* which names some ids; a failure; or neither, where the provider does    *)
(* not say which it is.  The catalogue has one artist, one      *)
(* recording and one release.  Two units of time are a second; limits are  *)
(* scaled down, MusicBrainz's apart, which is 1.                           *)
(***************************************************************************)
CONSTANTS
    None,
    PreviewTtl,     \* previewTtlSeconds
    MaxTime         \* bound: the clock stops

VARIABLES
    provider,       \* whose turn this behaviour is
    force,          \* faults.force
    rates,          \* the injected kinds whose rate is not zero
    refusal,        \* rateLimit.status
    window,         \* RateLimiter: the count of the current window and its end
    now

mock == <<provider, force, rates, refusal, window, now>>

Providers == {"musicbrainz", "listenbrainz", "labs", "lastfm", "itunes",
              "deezer", "reccobeats"}

(* defaultProviders: the status of a refusal, and the quota.               *)
DefaultRefusal(p) ==
    CASE p = "musicbrainz" -> 503
      [] p = "itunes" -> 403
      [] p = "deezer" -> 200
      [] OTHER -> 429

Quota(p) == IF p = "musicbrainz" THEN 1 ELSE 2
WindowLength == 2

MockInit ==
    /\ provider \in Providers
    /\ force = None /\ rates = {} /\ refusal = DefaultRefusal(provider)
    /\ window = [count |-> 0, resetAt |-> 0]
    /\ now = 0

-----------------------------------------------------------------------------
(* What is on the wire.                                                    *)

Answers(body, ids) ==
    [status |-> 200, body |-> body, means |-> "answer", names |-> ids]
Fails(status, body) ==
    [status |-> status, body |-> body, means |-> "failure", names |-> {}]
Unclear(status, body) ==
    [status |-> status, body |-> body, means |-> "unclear", names |-> {}]

(* rateLimitBody and serverErrorBody.                                      *)
RateLimitBody(p) ==
    CASE p = "lastfm" -> Obj([error |-> Num(29), message |-> Str("Rate limit exceeded")])
      [] p = "deezer" -> Obj([error |-> Obj([code |-> Num(4)])])
      [] p = "itunes" -> Text
      [] p \in {"listenbrainz", "labs"} -> Obj([code |-> Num(429), error |-> Str("wait")])
      [] OTHER -> Obj([error |-> Str("rate limit exceeded")])

ServerErrorBody(p) ==
    CASE p = "lastfm" -> Obj([error |-> Num(8)])
      [] p = "musicbrainz" -> Text
      [] p \in {"listenbrainz", "labs"} -> Obj([code |-> Num(500), error |-> Str("busy")])
      [] OTHER -> Obj([error |-> Str("internal server error")])

Artist == [name |-> Str("Ann"), mbid |-> Str("mbid-a"), url |-> Str("link")]
Credit == <<Obj([name |-> Str("Ann"),
                 artist |-> Obj([id |-> Str("mbid-a"), name |-> Str("Ann")])])>>

(* providers/musicbrainz.js: the lookups answer artist or recording, and   *)
(* a release looks like a recording.                                       *)
LookupResponse(entity) ==
    IF entity = "lookupArtist"
    THEN Answers(Obj([id |-> Str("mbid-a"), name |-> Str("Ann"),
                      life_span |-> Obj([begin |-> Str("99")])]), {"mbid-a"})
    ELSE Answers(Obj([id |-> Str("mbid-b"), title |-> Str("Song"),
                      length |-> Num(3), artist_credit |-> Arr(Credit)]), {"mbid-b"})

SearchResponse(entity) ==
    IF entity = "searchArtist"
    THEN Answers(Obj([artists |-> Arr(<<Obj([id |-> Str("mbid-a"), score |-> Num(100),
                                             name |-> Str("Ann")])>>)]), {"mbid-a"})
    ELSE Answers(Obj([recordings |-> Arr(<<Obj([id |-> Str("mbid-b"), score |-> Num(98),
                                                title |-> Str("Song"),
                                                artist_credit |-> Arr(Credit)])>>)]),
                 {"mbid-b"})

(* providers/listenbrainz.js.                                              *)
ValidToken == Answers(Obj([valid |-> Bool(TRUE), user_name |-> Str("u")]), {"u"})

CfRecommendations ==
    Answers(Obj([payload |-> Obj([mbids |-> Arr(<<Obj([recording_mbid |-> Str("mbid-b"),
                                                       score |-> Num(1)])>>)])]),
            {"mbid-b"})

CreatedForPlaylists ==
    Answers(Obj([playlists |-> Arr(<<Obj([playlist |->
                Obj([identifier |-> Str("p"), title |-> Str("Weekly Jams"),
                     date |-> Str("d")])])>>)]), {"p"})

LbRadioArtist ==
    Answers(Obj([mbid \in {"mbid-a"} |-> Obj([recordings |->
                Arr(<<Obj([recording_mbid |-> Str("mbid-b"), recording_name |-> Str("Song"),
                           artist_mbid |-> Str(mbid), artist_name |-> Str("Ann"),
                           similarity |-> Num(1)])>>)])]), {"mbid-b"})

UserTopArtists ==
    Answers(Obj([payload |-> Obj([artists |-> Arr(<<Obj([artist_mbid |-> Str("mbid-a"),
                                                         artist_name |-> Str("Ann"),
                                                         listen_count |-> Num(5)])>>)])]),
            {"Ann"})

AlikeArtists ==
    Answers(Arr(<<Obj([artist_mbid |-> Str("mbid-a"), name |-> Str("Ann"),
                       score |-> Num(100)])>>), {"mbid-a"})

(* providers/lastfm.js.                                                    *)
SimilarArtists ==
    Answers(Obj([similarartists |-> Obj([artist |-> Arr(<<Obj(Artist)>>)])]), {"Ann"})
ArtistInfo ==
    Answers(Obj([artist |-> Obj([name |-> Str("Ann"), mbid |-> Str("mbid-a"),
                                  url |-> Str("link"),
                                  stats |-> Obj([listeners |-> Str("7")])])]),
            {"Ann"})
TrackInfo ==
    Answers(Obj([track |-> Obj([name |-> Str("Song"), mbid |-> Str("mbid-b"),
                                artist |-> Obj(Artist), duration |-> Str("30")])]),
            {"Song"})
SimilarTracks ==
    Answers(Obj([similartracks |-> Obj([track |-> Arr(<<Obj([name |-> Str("Song"),
                artist |-> Obj(Artist), duration |-> Num(3)])>>)])]), {"Song"})
TopArtists ==
    Answers(Obj([topartists |-> Obj([artist |-> Arr(<<Obj(Artist)>>)])]), {"Ann"})
Session ==
    Answers(Obj([session |-> Obj([name |-> Str("u"), key |-> Str("k")])]), {"u"})

(* providers/itunes.js: search answers as many tracks as were asked for.   *)
TrackResult(artist, title) ==
    Obj([trackId |-> Num(4), artistName |-> Str(artist), trackName |-> Str(title),
         previewUrl |-> Str("preview")])
ItunesAnswers(tracks, ids) == Answers(Obj([results |-> Arr(tracks)]), ids)

(* providers/deezer.js with sign.js: the preview's URL carries a token,    *)
(* hdnea, with the second after which it is refused.                       *)
Second == now \div 2

SignPreviewUrl == Num(Second + PreviewTtl)

TrackObject(artist, title) ==
    Obj([id |-> Num(4), title |-> Str(title), duration |-> Num(30),
         preview |-> Str("url"), hdnea |-> SignPreviewUrl,
         artist |-> Obj([name |-> Str(artist)]), album |-> Obj([title |-> Str("LP")])])
DeezerAnswers(tracks, ids) == Answers(Obj([data |-> Arr(tracks)]), ids)
DeezerNoData == Unclear(200, Obj([error |-> Obj([code |-> Num(800)])]))

(* providers/reccobeats.js.                                                *)
TrackIds == Answers(Obj([content |-> Arr(<<Obj([id |-> Str("mbid-c")])>>)]), {"mbid-c"})
AudioFeatures == Answers(Obj([tempo |-> Num(90), key |-> Num(12)]), {"90"})

-----------------------------------------------------------------------------
(* What the handlers answer to the clients' methods.                       *)

MusicBrainzHandle(o) ==
    IF o \in {"searchArtist", "searchRecording"} THEN {SearchResponse(o)}
    ELSE {LookupResponse(o)}

ListenBrainzHandle(o) ==
    CASE o = "validateToken" -> {ValidToken}
      [] o = "recommendedRecordings" -> {CfRecommendations}
      [] o = "createdForPlaylists" -> {CreatedForPlaylists}
      [] o = "artistRadio" -> {LbRadioArtist}
      [] o = "topArtists" -> {UserTopArtists}
      [] o = "similarArtists" -> {AlikeArtists}
      [] o = "exploreRadio" -> {Fails(500, ServerErrorBody(provider))}

LastfmHandle(o) ==
    CASE o = "similarArtists" -> {SimilarArtists}
      [] o = "artistInfo" -> {ArtistInfo}
      [] o = "similarTracks" -> {SimilarTracks}
      [] o = "trackInfo" -> {TrackInfo}
      [] o = "userTopArtists" -> {TopArtists}
      [] o = "getSession" -> {Session}

(* A search for Ann's Song answers with tracks of any artist and title.    *)
Tracks == {<<"Ann", "Song">>, <<"Ann Tribute", "Song">>, <<"Ann", "Song (Live)">>,
           <<"Ann", "Other">>, <<"Bob", "Tune">>}
Candidates == {<<>>} \cup {<<t>> : t \in Tracks} \cup {<<t, u>> : t, u \in Tracks}

(* The track that a list names: the one asked for, none if nothing in it   *)
(* has to do with it, and otherwise a matter of opinion, "?".              *)
WithNames(list) ==
    IF \E i \in DOMAIN list : list[i] = <<"Ann", "Song">> THEN {"Song"}
    ELSE IF \A i \in DOMAIN list : list[i] = <<"Bob", "Tune">> THEN {} ELSE {"?"}

ItunesHandle(o) ==
    IF o = "lookupTrack" THEN {ItunesAnswers(<<TrackResult("Ann", "Song")>>, {"Song"})}
    ELSE {ItunesAnswers([i \in DOMAIN list |-> TrackResult(list[i][1], list[i][2])],
                        WithNames(list)) : list \in Candidates}

DeezerHandle(o) ==
    IF o = "refreshPreview" THEN {Answers(TrackObject("Ann", "Song"), {"Song"})}
    ELSE {DeezerAnswers([i \in DOMAIN list |-> TrackObject(list[i][1], list[i][2])],
                        WithNames(list)) : list \in Candidates}

ReccoBeatsHandle(o) == IF o = "resolveTrackId" THEN {TrackIds} ELSE {AudioFeatures}

(* HANDLERS.                                                               *)
Handled(o) ==
    CASE provider = "musicbrainz" -> MusicBrainzHandle(o)
      [] provider \in {"listenbrainz", "labs"} -> ListenBrainzHandle(o)
      [] provider = "lastfm" -> LastfmHandle(o)
      [] provider = "itunes" -> ItunesHandle(o)
      [] provider = "deezer" -> DeezerHandle(o)
      [] provider = "reccobeats" -> ReccoBeatsHandle(o)

-----------------------------------------------------------------------------
(* The pipeline of handleProvider: forced faults, quota, handler.          *)

(* RateLimiter.check; every request counts, the refused ones too.          *)
Checked ==
    LET w == IF now >= window.resetAt
             THEN [count |-> 0, resetAt |-> now + WindowLength]
             ELSE window
    IN  [w EXCEPT !.count = IF @ > Quota(provider) THEN @ ELSE @ + 1]

-----------------------------------------------------------------------------
(* The control plane: POST /__admin/config and /__admin/reset.             *)

Faults == {"429", "500", "timeout"}

SetFault(kind) ==
    /\ kind # force /\ force' = kind
    /\ UNCHANGED <<provider, rates, refusal, window, now>>

SetRates(kinds) ==
    /\ kinds # rates /\ rates' = kinds
    /\ UNCHANGED <<provider, force, refusal, window, now>>

SetRefusal(status) ==
    /\ status # refusal /\ refusal' = status
    /\ UNCHANGED <<provider, force, rates, window, now>>

Reset ==
    /\ force' = None /\ rates' = {} /\ refusal' = DefaultRefusal(provider)
    /\ window' = [count |-> 0, resetAt |-> 0]
    /\ UNCHANGED <<provider, now>>

(* A bound: one setting differs from the default between two resets.       *)
AtDefault == force = None /\ rates = {} /\ refusal = DefaultRefusal(provider)

Admin ==
    \/ /\ AtDefault
       /\ \/ \E kind \in Faults \cup {"down"} : SetFault(kind)
          \/ \E kinds \in {Faults} \cup {{kind} : kind \in Faults} : SetRates(kinds)
          \/ SetRefusal(429)
          \/ provider = "lastfm" /\ SetRefusal(200)  \* as the real one may
    \/ Reset

-----------------------------------------------------------------------------
(* The clients.                                                            *)

CONSTANT MaxAttempts    \* retry.maxAttempts

VARIABLES
    op,         \* the method under way
    attempt,
    breaker,    \* the client's circuit breaker
    said,       \* history: the last response to the last call
    answer      \* what the last call returned or threw

vars == <<mock, op, attempt, breaker, said, answer>>

Init ==
    /\ MockInit
    /\ op = None /\ attempt = 0 /\ breaker = NewBreaker
    /\ said = None /\ answer = None

Returns(ids) == [ids |-> ids, error |-> "none"]
Throws(kind) == [ids |-> {}, error |-> kind]

Field(list, f) == {list[i][f] : i \in DOMAIN list}

-----------------------------------------------------------------------------
(* musicbrainz/client.ts.  A document without an id is an UpstreamError,   *)
(* one without a name a MalformedPayloadError.                             *)

CreditOf(v) ==
    LET credits == ArrayOrSingle(v, "artist_credit")
        first == IF credits = <<>> THEN Null ELSE credits[1]
        nested == Child(first, "artist")
    IN  [mbid |-> OptMbid(nested, "id"),
         name |-> Or(OptString(first, "name"),
                     Or(OptString(nested, "name"), "Unknown Artist"))]

MbArtist(v) ==
    IF OptMbid(v, "id") = Undefined \/ ~HasString(v, "name") THEN Undefined
    ELSE [mbid |-> OptMbid(v, "id"), name |-> OptString(v, "name"),
          beganYear |-> OptNumber(Child(v, "life_span"), "begin")]

MbRecording(v) ==
    IF OptMbid(v, "id") = Undefined \/ ~HasString(v, "title") THEN Undefined
    ELSE [mbid |-> OptMbid(v, "id"), title |-> OptString(v, "title"),
          lengthMs |-> OptNumber(v, "length"), artist |-> CreditOf(v)]

(* The discs' track counts that are stated, added up.                      *)
TrackCount(v) ==
    LET media == ArrayOrSingle(v, "media")
        stated == Present([i \in DOMAIN media |-> OptNumber(media[i], "track_count")])
    IN  IF stated = <<>> THEN Undefined ELSE Seqs!FoldLeft(+, 0, stated)

MbRelease(v) ==
    IF OptMbid(v, "id") = Undefined \/ ~HasString(v, "title") THEN Undefined
    ELSE [mbid |-> OptMbid(v, "id"), title |-> OptString(v, "title"),
          trackCount |-> TrackCount(v), artist |-> CreditOf(v)]

MbLookup(payload, Parse(_)) ==
    IF payload.t = "null" THEN Returns({})
    ELSE IF Parse(payload) # Undefined THEN Returns({Parse(payload).mbid})
    ELSE Throws(IF OptMbid(payload, "id") = Undefined THEN "malformed" ELSE "unclassified")

(* An item that does not parse is dropped from a search.                   *)
ParseSearch(payload, key) ==
    LET Item(v) == IF key = "artists" THEN MbArtist(v) ELSE MbRecording(v) IN
    Returns(Field(Parsed(ArrayOrSingle(payload, key), Item), "mbid"))

MusicBrainzReads(o, payload) ==
    CASE o = "lookupArtist" -> MbLookup(payload, MbArtist)
      [] o = "lookupRecording" -> MbLookup(payload, MbRecording)
      [] o = "lookupRelease" -> MbLookup(payload, MbRelease)
      [] o = "searchArtist" -> ParseSearch(payload, "artists")
      [] o = "searchRecording" -> ParseSearch(payload, "recordings")

-----------------------------------------------------------------------------
(* listenbrainz/client.ts.                                                 *)

ValidateToken(payload) ==
    IF OptBoolean(payload, "valid") = TRUE
    THEN Returns({OptString(payload, "user_name")})
    ELSE Returns({})

RecommendedRecordings(payload) ==
    Returns(Field(Parsed(ArrayOrSingle(OptRecord(payload, "payload"), "mbids"),
                LAMBDA item : IF OptMbid(item, "recording_mbid") = Undefined
                              THEN Undefined
                              ELSE [mbid |-> OptMbid(item, "recording_mbid"),
                                    score |-> Or(OptNumber(item, "score"), 0)]),
                  "mbid"))

CreatedForPlaylist(wrapper) ==
    LET pl == OptRecord(wrapper, "playlist") IN
    IF Undefined \in {OptString(pl, "identifier"), OptString(pl, "title")} THEN Undefined
    ELSE [identifier |-> OptString(pl, "identifier"), title |-> OptString(pl, "title")]

RadioRecording(rec) ==
    IF Undefined \in {OptMbid(rec, "recording_mbid"), OptString(rec, "recording_name")}
    THEN Undefined
    ELSE [mbid |-> OptMbid(rec, "recording_mbid"),
          name |-> OptString(rec, "recording_name"),
          artistName |-> Or(OptString(rec, "artist_name"), "Unknown Artist"),
          similarity |-> Or(OptNumber(rec, "similarity"), 0)]

(* Every value of the document is a bucket, whatever its key.              *)
ArtistRadio(payload) ==
    IF ~IsRecord(payload) THEN Returns({})
    ELSE Returns(UNION {Field(Parsed(ArrayOrSingle(payload.v[k], "recordings"),
                                     RadioRecording), "mbid")
                        : k \in DOMAIN payload.v})

LbTopArtists(payload) ==
    Returns(Field(Parsed(ArrayOrSingle(OptRecord(payload, "payload"), "artists"),
                LAMBDA item : IF OptString(item, "artist_name") = Undefined
                              THEN Undefined
                              ELSE [name |-> OptString(item, "artist_name"),
                                    listens |-> Or(OptNumber(item, "listen_count"), 0)]),
                  "name"))

LabsSimilarArtists(payload) ==
    Returns(Field(Parsed(IF payload.t = "array" THEN payload.v ELSE <<>>,
                LAMBDA item : IF OptMbid(item, "artist_mbid") = Undefined
                              THEN Undefined
                              ELSE [mbid |-> OptMbid(item, "artist_mbid")]),
                  "mbid"))

ExploreRadio(payload) ==
    Returns(Field(Parsed(ArrayOrSingle(OptRecord(payload, "payload"), "jspf"),
                         RadioRecording), "mbid"))

ListenBrainzReads(o, payload) ==
    CASE o = "validateToken" -> ValidateToken(payload)
      [] o = "recommendedRecordings" -> RecommendedRecordings(payload)
      [] o = "createdForPlaylists" ->
            Returns(Field(Parsed(ArrayOrSingle(payload, "playlists"), CreatedForPlaylist),
                          "identifier"))
      [] o = "artistRadio" -> ArtistRadio(payload)
      [] o = "topArtists" -> LbTopArtists(payload)
      [] o = "exploreRadio" -> ExploreRadio(payload)

-----------------------------------------------------------------------------
(* lastfm/client.ts.                                                       *)

(* assertNoInBandError.                                                    *)
InBandError(payload) ==
    LET code == OptNumber(payload, "error") IN
    CASE code = Undefined -> "none"
      [] code = 29 -> "rate_limited"
      [] code \in {8, 11, 16} -> "server_error"
      [] OTHER -> "http"

LastfmArtist(v) ==
    IF OptString(v, "name") = Undefined THEN Undefined
    ELSE [name |-> OptString(v, "name"), mbid |-> OptMbid(v, "mbid"),
          listeners |-> Or(OptNumber(OptRecord(v, "stats"), "listeners"),
                           OptNumber(v, "listeners"))]

(* track.getInfo sends milliseconds and track.getSimilar seconds.          *)
LastfmTrack(v) ==
    IF OptString(v, "name") = Undefined THEN Undefined
    ELSE [name |-> OptString(v, "name"),
          artistName |-> Or(OptString(OptRecord(v, "artist"), "name"),
                            Or(OptString(v, "artist"), "Unknown Artist"))]

(* A method that returns a list under payload[outer][inner].               *)
LastfmList(payload, outer, inner, Parse(_)) ==
    Returns(Field(Parsed(ArrayOrSingle(OptRecord(payload, outer), inner), Parse), "name"))

(* One that returns payload[key].                                          *)
LastfmOne(payload, key, Parse(_)) ==
    LET child == OptRecord(payload, key) IN
    IF Parse(child) = Undefined THEN Returns({}) ELSE Returns({Parse(child).name})

GetSession(payload) ==
    LET session == OptRecord(payload, "session") IN
    IF Undefined \in {OptString(session, "name"), OptString(session, "key")}
    THEN Throws("malformed")
    ELSE Returns({OptString(session, "name")})

LastfmReads(o, payload) ==
    CASE o = "similarArtists" -> LastfmList(payload, "similarartists", "artist", LastfmArtist)
      [] o = "artistInfo" -> LastfmOne(payload, "artist", LastfmArtist)
      [] o = "similarTracks" -> LastfmList(payload, "similartracks", "track", LastfmTrack)
      [] o = "trackInfo" -> LastfmOne(payload, "track", LastfmTrack)
      [] o = "userTopArtists" -> LastfmList(payload, "topartists", "artist", LastfmArtist)
      [] o = "getSession" -> GetSession(payload)

-----------------------------------------------------------------------------
(* deezer/client.ts and itunes/client.ts.                                  *)

(* assertNoErrorEnvelope.                                                  *)
ErrorEnvelope(payload) ==
    LET error == OptRecord(payload, "error") IN
    CASE error.t = "null" -> "none"
      [] OptNumber(error, "code") \in {4, 700} -> "rate_limited"
      [] OTHER -> "http"

(* The token's exp, or a minute.                                           *)
ParsePreviewExpiry(v) == Or(OptNumber(v, "hdnea"), Second + 60)

DeezerTrack(v) ==
    IF ~HasString(v, "preview") \/ OptString(v, "title") = Undefined THEN Undefined
    ELSE [artistName |-> Or(OptString(OptRecord(v, "artist"), "name"), "Unknown Artist"),
          trackName |-> OptString(v, "title"),
          expiresAt |-> ParsePreviewExpiry(v)]

ItunesPreview(v) ==
    IF Undefined \in {OptString(v, "previewUrl"), OptString(v, "trackName"),
                      OptString(v, "artistName")}
    THEN Undefined
    ELSE [artistName |-> OptString(v, "artistName"), trackName |-> OptString(v, "trackName")]

(* What is asked for, and which names contain which, in any case.          *)
WantArtist == "Ann"
WantTitle == "Song"
Contained == {<<"Ann", "Ann Tribute">>, <<"Song", "Song (Live)">>}
Overlap(a, b) == <<a, b>> \in Contained \/ <<b, a>> \in Contained

Score(c) ==
    (IF c.artistName = WantArtist THEN 3
     ELSE IF Overlap(c.artistName, WantArtist) THEN 1 ELSE 0)
    + (IF c.trackName = WantTitle THEN 3
       ELSE IF Overlap(c.trackName, WantTitle) THEN 1 ELSE 0)

(* pickBestMatch: the first of the best, if it reaches 2.                  *)
PickBestMatch(candidates) ==
    LET Best(i) == \A j \in DOMAIN candidates :
                      \/ Score(candidates[j]) < Score(candidates[i])
                      \/ Score(candidates[j]) = Score(candidates[i]) /\ i <= j
    IN  IF \E i \in DOMAIN candidates : Best(i) /\ Score(candidates[i]) >= 2
        THEN candidates[CHOOSE i \in DOMAIN candidates : Best(i)]
        ELSE Undefined

FoundTrack(c) == Returns(IF c = Undefined THEN {} ELSE {c.trackName})

DeezerPick(payload) ==
    IF op = "refreshPreview" THEN DeezerTrack(payload)
    ELSE PickBestMatch(Parsed(ArrayOrSingle(payload, "data"), DeezerTrack))

ItunesPick(payload) ==
    LET results == Parsed(ArrayOrSingle(payload, "results"), ItunesPreview) IN
    IF op = "resolvePreview" THEN PickBestMatch(results)
    ELSE IF results = <<>> THEN Undefined ELSE results[1]

-----------------------------------------------------------------------------
(* reccobeats/client.ts.                                                   *)

ResolveTrackId(payload) ==
    LET ids == Parsed(ArrayOrSingle(payload, "content"),
                      LAMBDA item : OptMbid(item, "id"))
    IN  Returns(IF ids = <<>> THEN {} ELSE {ids[1]})

(* parseAudioFeatures: all of them optional, and a key outside 0 to 11 is  *)
(* no key.                                                                 *)
ParseKey(v) == IF OptNumber(v, "key") \in 0 .. 11 THEN OptNumber(v, "key") ELSE Undefined
ParseAudioFeatures(v) == [tempo |-> OptNumber(v, "tempo"), musicalKey |-> ParseKey(v)]

AudioFeaturesByUuid(payload) ==
    LET inner == OptRecord(payload, "audioFeatures")
        features == ParseAudioFeatures(IF inner.t = "null" THEN payload ELSE inner)
    IN  Returns(IF payload.t = "null" THEN {} ELSE {ToString(features.tempo)})

-----------------------------------------------------------------------------
(* The methods: what each asks for, and what it takes for an answer.       *)

Methods(p) ==
    CASE p = "musicbrainz" -> {"lookupArtist", "lookupRecording", "lookupRelease",
                               "searchArtist", "searchRecording"}
      [] p = "listenbrainz" -> {"validateToken", "recommendedRecordings",
                                "createdForPlaylists", "artistRadio", "topArtists",
                                "exploreRadio"}
      [] p = "labs" -> {"similarArtists"}
      [] p = "lastfm" -> {"similarArtists", "artistInfo", "similarTracks", "trackInfo",
                          "userTopArtists", "getSession"}
      [] p = "deezer" -> {"resolvePreview", "refreshPreview"}
      [] p = "itunes" -> {"resolvePreview", "lookupTrack"}
      [] p = "reccobeats" -> {"resolveTrackId", "audioFeaturesByUuid"}

AcceptStatuses == IF provider = "lastfm" THEN {400, 403} ELSE {}

EmptyStatuses(o) ==
    CASE o \in {"lookupArtist", "lookupRecording", "lookupRelease", "audioFeaturesByUuid",
                "recommendedRecordings", "createdForPlaylists", "artistRadio"} -> {404}
      [] o = "validateToken" -> {401}
      [] o = "topArtists" -> {204, 404}
      [] o = "exploreRadio" -> {500}
      [] o = "resolveTrackId" -> {400, 404}
      [] provider = "labs" -> {400, 404, 500}
      [] OTHER -> {}

Read(o, payload) ==
    CASE provider = "musicbrainz" -> MusicBrainzReads(o, payload)
      [] provider = "listenbrainz" -> ListenBrainzReads(o, payload)
      [] provider = "labs" -> LabsSimilarArtists(payload)
      [] provider = "lastfm" -> LastfmReads(o, payload)
      [] provider = "deezer" -> FoundTrack(DeezerPick(payload))
      [] provider = "itunes" -> FoundTrack(ItunesPick(payload))
      [] o = "resolveTrackId" -> ResolveTrackId(payload)
      [] o = "audioFeaturesByUuid" -> AudioFeaturesByUuid(payload)

(* The errors that arrive as answers, looked for before anything is read.  *)
Inspect(payload) ==
    CASE provider = "lastfm" -> InBandError(payload)
      [] provider = "deezer" -> ErrorEnvelope(payload)
      [] OTHER -> "none"

(* A method's result for a response that the transport accepted.           *)
Interpret(o, r) ==
    LET payload == Payload(r, EmptyStatuses(o)) IN
    IF Unparseable(r, EmptyStatuses(o)) THEN Throws("malformed")
    ELSE IF Inspect(payload) # "none" THEN Throws(Inspect(payload))
    ELSE Read(o, payload)

(* labs is best effort, and exploreRadio expects to be switched off.       *)
Caught(o, result) ==
    IF \/ provider = "labs" /\ result.error \notin {"none", "unclassified"}
       \/ o = "exploreRadio" /\ result.error = "server_error"
    THEN Returns({}) ELSE result

-----------------------------------------------------------------------------
(* What the real providers send beside that, as the clients' comments have *)
(* it: nothing, in each one's way; a list of one as the element itself; a  *)
(* refused key; an error that comes with a 200.  And what they do not rule *)
(* out: a 400 or a 403 of Last.fm without the code that would say why.  A  *)
(* track that Deezer does not know is an error to its client and a miss to *)
(* the client's test, so what it means is left open.                       *)
Nothing(status, body) ==
    [status |-> status, body |-> body, means |-> "answer", names |-> {}]

Uncoded == {Unclear(status, body) : status \in {400, 403}, body \in {Blank, Obj(<<>>)}}

RealLastfm(o) ==
    Uncoded \cup
    IF o = "similarArtists"
    THEN {Answers(Obj([similarartists |-> Obj([artist |-> Obj(Artist)])]), {"Ann"}),
          Nothing(200, Obj([similarartists |-> Obj([artist |-> Arr(<<>>)])]))}
    ELSE {Fails(403, Obj([error |-> Num(10)])), Fails(200, Obj([error |-> Str("16")]))}

Real(o) ==
    CASE provider = "lastfm" -> RealLastfm(o)
      [] o \in {"lookupArtist", "lookupRecording", "lookupRelease", "audioFeaturesByUuid",
                "resolveTrackId", "recommendedRecordings", "createdForPlaylists",
                "artistRadio"} -> {Nothing(404, Text)}
      [] o \in {"searchArtist", "searchRecording"} -> {Nothing(200, Obj(<<>>))}
      [] o = "topArtists" -> {Nothing(204, Blank), Nothing(404, Text)}
      [] o = "validateToken" -> {Nothing(401, Text)}
      [] provider = "labs" -> {Nothing(400, Text)}
      [] o = "refreshPreview" -> {DeezerNoData}
      [] OTHER -> {}

-----------------------------------------------------------------------------

Client == <<op, attempt, breaker, said, answer>>

Settle(result) ==
    /\ op' = None /\ attempt' = 0
    /\ answer' = Caught(op, result)

(* requestJson begins: the kill switch, then the breaker.                  *)
Call(o) ==
    /\ op = None /\ said' = None
    /\ \/ /\ Admits(Refresh(breaker))
          /\ op' = o /\ attempt' = 1 /\ answer' = None
          /\ breaker' = Reserve(Refresh(breaker))
       \/ /\ ~Admits(Refresh(breaker))
          /\ answer' = Caught(o, Throws("circuit_open"))
          /\ breaker' = Refresh(breaker)
          /\ UNCHANGED <<op, attempt>>
    /\ UNCHANGED mock

Disabled(o) ==
    /\ op = None /\ said' = None
    /\ answer' = Caught(o, Throws("disabled"))
    /\ UNCHANGED <<mock, op, attempt, breaker>>

(* An attempt that the quota or the queue refuses before it is sent.       *)
RefusedLocally ==
    /\ op # None
    /\ breaker' = RecordSuccess(breaker)
    /\ said' = None
    /\ \E kind \in {"quota_exhausted", "queue_overflow"} : Settle(Throws(kind))
    /\ UNCHANGED mock

Accept(r) ==
    /\ Accepted(r, AcceptStatuses, EmptyStatuses(op))
    /\ breaker' = RecordSuccess(breaker)
    /\ Settle(Interpret(op, r))

(* labs, which is slow, is asked once.                                     *)
Attempts == IF provider = "labs" THEN 1 ELSE MaxAttempts

(* A retryable failure is tried again unless the attempts are used up or   *)
(* the provider asks for too long a wait.                                  *)
Refuse(r) ==
    LET kind == ErrorKind(r)
        again == kind \in RetryableKinds /\ attempt < Attempts
    IN
    /\ ~Accepted(r, AcceptStatuses, EmptyStatuses(op))
    /\ breaker' = IF kind \in RetryableKinds THEN RecordFailure(breaker)
                  ELSE RecordSuccess(breaker)
    /\ \/ again /\ attempt' = attempt + 1 /\ UNCHANGED <<op, answer>>
       \/ (again => r.status \in {429, 503}) /\ Settle(Throws(kind))

Exchange(r) ==
    /\ said' = [to |-> op, status |-> r.status, means |-> r.means, names |-> r.names]
    /\ Accept(r) \/ Refuse(r)

(* handleProvider, for a request whose handler would answer h.             *)
Respond(h) ==
    LET Injected(kind) == force = kind \/ kind \in rates
        Certain(kind) == force = kind
    IN
    \/ /\ Certain("down") /\ Exchange(Fails(Broken, Blank))
       /\ UNCHANGED window
    \/ /\ ~Certain("down") /\ Injected("timeout")
       /\ Exchange(Fails(Hanging, Blank))
       /\ UNCHANGED window
    \/ /\ ~Certain("down") /\ ~Certain("timeout") /\ Injected("500")
       /\ Exchange(Fails(500, ServerErrorBody(provider)))
       /\ UNCHANGED window
    \/ /\ force \notin {"down", "timeout", "500"}
       /\ window' = Checked
       /\ \/ /\ window'.count > Quota(provider) \/ Injected("429")
             /\ Exchange(Fails(refusal, RateLimitBody(provider)))
          \/ /\ window'.count <= Quota(provider) /\ ~Certain("429")
             /\ Exchange(h)

Receive ==
    /\ op # None
    /\ \/ \E h \in Handled(op) : Respond(h)
       \/ \E h \in Real(op) : Respond(h)
    /\ UNCHANGED <<provider, force, rates, refusal, now>>

Control == Admin /\ UNCHANGED Client

Tick ==
    /\ now < MaxTime /\ now' = now + 1
    /\ breaker' = BreakerTick(breaker)
    /\ UNCHANGED <<provider, force, rates, refusal, window, op, attempt, said, answer>>

Next ==
    \/ \E o \in Methods(provider) : Call(o) \/ Disabled(o)
    \/ RefusedLocally \/ Receive \/ Control \/ Tick

Spec == Init /\ [][Next]_vars

-----------------------------------------------------------------------------

(***************************************************************************)
(* An answer says what the provider said.  A failure, also one that came   *)
(* with a 200, is never handed on as "there is nothing", which would be    *)
(* cached and learnt; nothing is not taken for a failure; and a list of    *)
(* one is not lost.  Of a response that does not say what it means, only   *)
(* this: nothing is made up, and it is no outage, which would be retried   *)
(* and count against the provider.  Last.fm's uncoded refusals do end as   *)
(* "there is nothing".  labs and exploreRadio promise less.                *)
(***************************************************************************)
Faithful ==
    op = None /\ said # None /\ provider # "labs" /\ said.to # "exploreRadio" =>
        /\ said.means = "failure" => answer.error # "none"
        /\ said.means = "unclear" => answer.ids = {} /\ answer.error \notin RetryableKinds
        /\ said.means = "answer" =>
              answer.error = "none" /\ (said.names = {"?"} \/ answer.ids = said.names)

=============================================================================
