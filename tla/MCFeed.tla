------------------------------- MODULE MCFeed -------------------------------
(* What a listener is shown, and what it is made of: connect flows and the   *)
(* feed, the merge, the catalogue, the adapters of the providers, the shelf  *)
(* of concerts and the pages of the catalogue.  No redirect flow ends in a   *)
(* row the feed reads, no shelf depends on the crosswalk, and an adapter is  *)
(* a load of a cache, so a behaviour exercises one of them.                  *)
(*                                                                           *)
(* Two people, two ListenBrainz accounts, one without recommendations; one   *)
(* of the top artists has no MBID and two shelves of tracks overlap with     *)
(* what Last.fm suggests.                                                    *)
EXTENDS Feed

CONSTANTS DumpRows, Queries, Plain, Foreign, Alike, Lessons, Letters,
          Mbids, Scores, Resolvers, Lookups, MinSearchScore, MaxMishaps,
          Absent, Undefined, Listeners,
          Readers, NameOf, PerformerName, Venues, Places, Limits, Capital, Marks, Personal,
          MaxAsks,                     \* bound: requests for a shelf of concerts
          Ticks, Visits, Edits,        \* bounds: time, requests and changes of the pages
          ClockEnd,                    \* bound: time of the adapters
          PreviewTtl, MaxAttempts, FailureThreshold, ResetTimeout, SuccessThreshold,
          MaxResetTimeout

VARIABLES part, cands, xwalk, dump, quiet, memo_, cached, labs, task_, ask_, mishaps,
          provider, force, rates, refusal, window, clock, op, attempt, breaker,
          said, answer,
          listed, performers, shelves, stage, asked, found, served, questions,
          now, changes, requests, records, names, stored, near, nearby, trouble,
          listener, flight, got, shared

catVars == <<cands, xwalk, dump, quiet, memo_, cached, labs, task_, ask_, mishaps>>
adapters == <<provider, force, rates, refusal, window, clock, op, attempt, breaker,
              said, answer>>
concerts == <<listed, performers, shelves, stage, asked, found, served, questions>>
pages == <<now, changes, requests, records, names, stored, near, nearby, trouble,
           listener, flight, got, shared>>

feedAll == <<connVars, feedVars>>

Cat == INSTANCE Catalogue WITH
    task <- task_, ask <- ask_, memo <- memo_, faults <- mishaps, MaxFaults <- MaxMishaps

Adapt == INSTANCE Adapters WITH
    None <- Absent, now <- clock, MaxTime <- ClockEnd

Concert == INSTANCE Events WITH None <- Absent

Site == INSTANCE Pages WITH
    None <- Absent, xwalk <- names, labs <- near, lastfm <- nearby, req <- listener,
    MaxTime <- Ticks, MaxRequests <- Visits, MaxChanges <- Edits

C(i, s, m) == [id |-> i, score |-> s, mbid |-> m]
A(m, n) == [mbid |-> m, name |-> n]
MCTop == [a \in Accounts |-> IF a = "la" THEN <<A(1, 1), A(0, 2), A(3, 3)>> ELSE <<A(3, 3)>>]
MCRecs == [a \in Accounts |-> IF a = "la" THEN <<C(11, 2, 11), C(12, 3, 12)>> ELSE <<>>]
MCNamed == {{12}}
MCMixes == [a \in Accounts |-> <<a>>]
MCRadio == [m \in {1, 3} |-> IF m = 1 THEN <<C(31, 3, 31), C(32, 1, 0)>> ELSE <<C(33, 2, 33)>>]
MCEnrich == [t \in {31, 33} |-> IF t = 31 THEN <<C(32, 1, 32), C(34, 3, 0)>> ELSE <<>>]
MCLabs == [m \in {1, 3} |-> <<C(3, 1, 3), C(0, 9, 0)>>]
MCSimilar == [n \in {1, 2, 3} |-> <<C(3, 2, 0), C(5, 1, 5)>>]

\* Two artists whose keys collide, in the dump and in the crosswalk: "a" has a song
\* "b c", "a b" has a song "c", which is also asked for with a decoration.
Song(a, t, m, r) == [artist |-> a, title |-> t, amb |-> m, rmb |-> r]
MCDumpRows == {Song(<<"a">>, <<"b", " ", "c">>, 1, 11), Song(<<"a", " ", "b">>, <<"c">>, 2, 12)}
MCQueries == {[artist |-> <<"a">>, title |-> <<>>], [artist |-> <<"o">>, title |-> <<>>],
              [artist |-> <<"a", " ", "b">>, title |-> <<"c", " ", "l">>]}
MCPlain == [t \in {<<"c", " ", "l">>} |-> <<"c">>]
MCForeign == {<<"o">>}
MCAlike == {<<<<"artist", <<"a">>>>, <<"artist", <<"o">>>>>>}
MCLessons == {Song(<<"a">>, <<"b", " ", "c">>, 1, 11)}

(* The dump's fold leaves letters.                                         *)
ASSUME Folded ==
    /\ \A r \in DumpRows : Cat!Fold(r.artist) \in Seq(Letters) /\ Cat!Fold(r.title) \in Seq(Letters)
    /\ \A q \in Queries :
          /\ Cat!Fold(q.artist) \in Seq(Letters) /\ Cat!Fold(q.title) \in Seq(Letters)
          /\ Cat!Fold(Cat!Bare(q.title)) \in Seq(Letters)

(* A value that is missing is not a provider.                              *)
ASSUME AbsentAssumption == Absent # "deezer"

\* Texts of the shelf of concerts.  SeatGeek spells Queen in its own way, and has
\* a tribute band that is an artist too: each one's name passes for the other's,
\* with a similarity of 6/10.  A third artist is called like a postal code.  There
\* is a Rye in two states, and one city is a pair of coordinates.
Word(w) == <<w>>
Queen == <<"Q", "u", "e", "e", "n">>
Duo == <<"D", "u", "o">>
Postal == Word(<<"90210">>)
MCNameOf == [a \in {"mq", "md", "mz"} |->
                CASE a = "mq" -> <<Queen>> [] a = "md" -> <<Queen, Duo>> [] a = "mz" -> Postal]
MCPerformerName == <<<<<<"q", "u", "e", "e", "n", "!">>>>, <<Queen, Duo>>>>

US == Word(<<"U", "S">>)
NH == Word(<<"N", "H">>)
NY == Word(<<"N", "Y">>)
Rye == Word(<<"R", "y", "e">>)
Fix == Word(<<"41.8781,-87.6298">>)
In(country, state, city) == [country |-> country, state |-> state, city |-> city]
MCVenues == {In(US, NH, Rye), In(US, NY, Rye)}
MCPlaces == {In(US, NH, Rye), In(Absent, Absent, Fix),
             In(Word(<<"u", "s">>), Absent, Word(<<"r", "y", "e", "!">>))}
\* The letters that are written in both ways.
MCCapital == LET small == <<"q", "r", "s", "u">>
                 large == <<"Q", "R", "S", "U">>
             IN  [c \in {small[i] : i \in DOMAIN small} |->
                    large[CHOOSE i \in DOMAIN small : small[i] = c]]
MCMarks == {"!"}
MCPersonal == {Fix, Postal}
MCLimits == {Absent, 1}

(* Performers are numbered from 1: a 0 is what is kept for no performer.   *)
ASSUME IdsAssumption == 0 \notin DOMAIN PerformerName

(* What a document lacks is not one of the texts, the numbers and the       *)
(* records that are read from documents.                                   *)
Texts == {"Ann", "Ann Tribute", "Bob", "Song", "Song (Live)", "Other", "Tune", "Weekly Jams",
          "mbid-a", "mbid-b", "mbid-c", "Unknown Artist", "p", "u", "k", "url", "preview"}

Opt(S) == S \cup {Undefined}
Credited == [mbid : Opt(Texts), name : Texts]

ASSUME UndefinedAssumption ==
    /\ Undefined \notin Texts /\ Undefined \notin Nat /\ Undefined # TRUE
    /\ Undefined \notin [mbid : Texts, name : Texts, beganYear : Opt(Nat)]
    /\ Undefined \notin [mbid : Texts, title : Texts, lengthMs : Opt(Nat), artist : Credited]
    /\ Undefined \notin [mbid : Texts, title : Texts, trackCount : Opt(Nat), artist : Credited]
    /\ Undefined \notin [mbid : Texts, score : Nat]
    /\ Undefined \notin [identifier : Texts, title : Texts]
    /\ Undefined \notin [mbid : Texts, name : Texts, artistName : Texts, similarity : Nat]
    /\ Undefined \notin [name : Texts, listens : Nat]
    /\ Undefined \notin [name : Texts, mbid : Opt(Texts), listeners : Opt(Nat)]
    /\ Undefined \notin [name : Texts, artistName : Texts]
    /\ Undefined \notin [artistName : Texts, trackName : Texts, expiresAt : Nat]
    /\ Undefined \notin [artistName : Texts, trackName : Texts]

(* Numbers are written in decimal.                                         *)
ASSUME Decimal == Adapt!ToString(16) = "16" /\ Adapt!ToString(90) = "90"

(* A preview is signed for some seconds.                                   *)
ASSUME PreviewAssumption == PreviewTtl \in Nat

\* What a merge may be given: up to three candidates of two sources, one of them
\* with a name that normalises to nothing.
Offered == [id : {0, 1, 2}, source : {"a", "b"}, score : {1, 2}, mbid : {0, 7}] 

(* The one whose connections change while requests are answered.           *)
ASSUME SomebodyConnects == Users # {}
First == CHOOSE u \in Users : TRUE

(* The accounts that are connected before.                                 *)
ASSUME KnownAccounts == {"la", "lb"} \subseteq Accounts

\* In the part about the feed everyone has connected an account before.  A part
\* that is not exercised rests in one of its first states.
MCInit ==
    /\ part \in {"flows", "feed", "catalogue", "merge", "adapters", "concerts", "pages"}
    /\ FeedInit
    /\ cands \in IF part = "merge" THEN BoundedSeq(Offered, 3) ELSE {<<>>}
    /\ Cat!Init /\ (part # "catalogue" => dump = "none")
    /\ Adapt!Init /\ (part # "adapters" => provider = "deezer")
    /\ Concert!Init /\ (part # "concerts" => listed = {})
    /\ Site!Init
    /\ part # "pages" => records["artist"] = "none" /\ stored = "none" /\ ~near.fresh
    /\ ConnStart(IF part # "feed" THEN {} ELSE
         {[user |-> u, provider |-> "listenbrainz", kek |-> 1,
           account |-> IF u = First THEN "la" ELSE "lb"] : u \in Users})

MCNext ==
    /\ part' = part
    /\ \/ part = "flows" /\ ConnNext /\ UNCHANGED <<feedVars, catVars, adapters, concerts, pages>>
       \/ part = "feed" /\ FeedNext /\ UNCHANGED <<catVars, adapters, concerts, pages>>
       \/ part = "feed" /\ LinkNext(First)
          /\ UNCHANGED <<feedVars, catVars, adapters, concerts, pages>>
       \/ part = "catalogue" /\ Cat!Next /\ UNCHANGED <<feedAll, cands, adapters, concerts, pages>>
       \/ part = "adapters" /\ Adapt!Next /\ UNCHANGED <<feedAll, catVars, concerts, pages>>
       \/ part = "concerts" /\ Concert!Next /\ UNCHANGED <<feedAll, catVars, adapters, pages>>
       \/ part = "pages" /\ Site!Next /\ UNCHANGED <<feedAll, catVars, adapters, concerts>>

MCSpec == MCInit /\ [][MCNext]_<<feedAll, part, catVars, adapters, concerts, pages>>

(* The merge of tracks and that of artists against their definition, for   *)
(* every order in which candidates may arrive.                             *)
MergeIsRight == part = "merge" => /\ IsMergeOf(MergeTracks(cands), cands)
                                  /\ IsMergeOf(MergeArtists(cands), cands)

(* The properties of the catalogue, the adapters, the concerts, the pages. *)
NoFalseMerge == part = "catalogue" => Cat!NoFalseMerge
Faithful == part = "adapters" => Adapt!Faithful
ShelfIsTheOneAsked == part = "concerts" => Concert!ShelfIsTheOneAsked
PreviewsPlay == part = "pages" => Site!PreviewsPlay
=============================================================================
