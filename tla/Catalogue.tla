----------------------------- MODULE Catalogue -----------------------------
(***************************************************************************)
(* What the service knows of the catalogue: the crosswalk from names to     *)
(* MBIDs and its resolver (packages/upstream/src/crosswalk), the search     *)
(* that asks the local dump first (musicbrainz/local-first.ts), and the     *)
(* gate before the shared similar-artists budget (artist-lookup-gate.ts).   *)
(*                                                                         *)
(* A name is a sequence of letters and blanks, as normalizeKey leaves it.   *)
(* The dump keeps one string per row, the artist credit and the title run   *)
(* together without blanks; the crosswalk joins the two with a blank, so    *)
(* that either key may be that of another pair too.  Confidences are in     *)
(* ten-thousandths.                                                         *)
(***************************************************************************)
EXTENDS Naturals, Sequences, FiniteSets

CONSTANTS
    DumpRows,    \* what a loaded dump holds: [artist, title, amb, rmb]
    Queries,     \* what is resolved: [artist, title], title <<>> for an artist
    Plain,       \* query title -> the title without store decorations
    Foreign,     \* artists whose name the fold cannot transliterate
    Alike,       \* pairs of crosswalk keys above the trigram threshold
    Lessons,     \* what a radio answer teaches: [artist, title, amb, rmb]
    Mbids,       \* artists somebody asks the neighbours of
    Scores,      \* scores of MusicBrainz's own search, 0 to 100
    Resolvers, Lookups,
    MinSearchScore,
    MaxFaults    \* bound: queries of the store or of the database that fail

VARIABLES
    xwalk,    \* mbid_crosswalk: key -> [mbid, conf]
    dump,     \* "none", "empty" or "loaded": mb.canonical and mb.load_state
    quiet,    \* the store is in its backoff
    memo,     \* the gate's reading of load_state
    cached,   \* artists with a MusicBrainz row in the cache
    labs,     \* artists with a similar-artists row in the cache
    task,     \* the search of each resolver
    ask,      \* the lookup of each request
    faults

vars == <<xwalk, dump, quiet, memo, cached, labs, task, ask, faults>>

Idle == [at |-> "idle", q |-> [artist |-> <<>>, title |-> <<>>], mbid |-> 0, score |-> 0, local |-> FALSE]
NoAsk == [at |-> "idle", mbid |-> 0, blind |-> FALSE]
Unread == [fresh |-> FALSE, loaded |-> FALSE]

Init ==
    /\ xwalk = <<>> /\ dump \in {"none", "empty", "loaded"}
    /\ quiet = FALSE /\ memo = Unread
    /\ cached = {} /\ labs = {}
    /\ task = [p \in Resolvers |-> Idle]
    /\ ask = [g \in Lookups |-> NoAsk]
    /\ faults = 0

Bare(title) == IF title \in DOMAIN Plain THEN Plain[title] ELSE title

Key(q) == IF q.title = <<>> THEN <<"artist", q.artist>>
          ELSE <<"recording", q.artist \o <<" ">> \o Bare(q.title)>>

----------------------------------------------------------------------------
(* #run of the canonical store: any failure is an empty answer and a pause. *)

Rows == IF dump = "loaded" THEN DumpRows ELSE {}

Silent == /\ \/ quiet /\ UNCHANGED <<quiet, faults>>
             \/ ~quiet /\ dump = "none" /\ quiet' = TRUE /\ UNCHANGED faults
             \/ ~quiet /\ faults < MaxFaults /\ quiet' = TRUE /\ faults' = faults + 1

Served == ~quiet /\ dump # "none" /\ UNCHANGED <<quiet, faults>>

Recovers == /\ quiet /\ quiet' = FALSE
            /\ UNCHANGED <<xwalk, dump, memo, cached, labs, task, ask, faults>>

\* The loader, and a restore from a backup that leaves the schema out.
Load == /\ dump' \in {"loaded", "none"} \ {dump}
        /\ UNCHANGED <<xwalk, quiet, memo, cached, labs, task, ask, faults>>

----------------------------------------------------------------------------
(* The crosswalk and its resolver.                                         *)

\* record: only a more confident resolution supersedes a row.
Recorded(x, k, mbid, conf) ==
    IF k \in DOMAIN x /\ x[k].conf >= conf THEN x
    ELSE [j \in DOMAIN x \cup {k} |-> IF j = k THEN [mbid |-> mbid, conf |-> conf] ELSE x[j]]

Local(k) == {j \in DOMAIN xwalk : j = k \/ <<j, k>> \in Alike}

\* #local misses, by the exact key and by similarity.
Resolve(p) == \E q \in Queries :
    /\ task[p].at = "idle" /\ Local(Key(q)) = {}
    /\ task' = [task EXCEPT ![p] = [Idle EXCEPT !.at = "search", !.q = q]]
    /\ UNCHANGED <<xwalk, dump, quiet, memo, cached, labs, ask, faults>>

\* canonicalFold, which is per character: of a concatenation it is the
\* concatenation.
Fold(name) == SelectSeq(name, LAMBDA c : c # " ")

Lookup(artist, title) == Fold(artist) \o Fold(title)

Prefix(s, t) == Len(s) <= Len(t) /\ SubSeq(t, 1, Len(s)) = s

\* MUTANT: the candidates of the index are taken as they come.
HitsUnverified(q) == IF q.title = <<>>
    THEN {r.amb : r \in {x \in Rows : Prefix(Fold(q.artist), Lookup(x.artist, x.title))}}
    ELSE {r.rmb : r \in {x \in Rows : Lookup(x.artist, x.title) = Lookup(q.artist, q.title)}}

\* searchArtist: a prefix finds candidates, the artist credit decides.
\* searchRecording: the whole key, as given and then without decorations.
Hits(q) ==
    LET same == {r \in Rows : Fold(r.artist) = Fold(q.artist)}
        titled(t) == {r.rmb : r \in {x \in same : Lookup(x.artist, x.title) = Lookup(q.artist, t)}}
    IN
    IF q.title = <<>>
    THEN {r.amb : r \in {x \in same : Prefix(Fold(q.artist), Lookup(x.artist, x.title))}}
    ELSE IF titled(q.title) # {} THEN titled(q.title) ELSE titled(Bare(q.title))

\* The dump answers.
SearchLocal(p) ==
    /\ task[p].at = "search" /\ task[p].q.artist \notin Foreign
    /\ Served
    /\ \E m \in Hits(task[p].q) :
         task' = [task EXCEPT ![p] = [@ EXCEPT !.at = "record", !.mbid = m, !.score = 100,
                                               !.local = TRUE]]
    /\ UNCHANGED <<xwalk, dump, memo, cached, labs, ask>>

\* It cannot, and MusicBrainz is asked, which may answer with another artist of a
\* like name, with nothing, or not at all.
SearchRemote(p) ==
    /\ task[p].at = "search"
    /\ \/ task[p].q.artist \in Foreign /\ UNCHANGED <<quiet, faults>>
       \/ task[p].q.artist \notin Foreign /\ Silent
       \/ task[p].q.artist \notin Foreign /\ Served /\ Hits(task[p].q) = {}
    /\ \/ task' = [task EXCEPT ![p] = Idle]
       \/ \E m \in {r.amb : r \in DumpRows}, s \in Scores :
            task' = [task EXCEPT ![p] = [@ EXCEPT !.at = "record", !.mbid = m, !.score = s]]
    /\ UNCHANGED <<xwalk, dump, memo, cached, labs, ask>>

\* #recordRemote
RecordRemote(p) ==
    /\ task[p].at = "record"
    /\ xwalk' = IF task[p].score < MinSearchScore THEN xwalk
                ELSE Recorded(xwalk, Key(task[p].q), task[p].mbid, 6000 + 35 * task[p].score)
    /\ task' = [task EXCEPT ![p] = Idle]
    /\ UNCHANGED <<dump, quiet, memo, cached, labs, ask, faults>>

\* #learnRecordings: the two writes of a lesson settle on their own.
Learn(l) ==
    /\ \E done \in SUBSET {"recording", "artist"} \ {{}} :
         LET one == IF "recording" \in done
                    THEN Recorded(xwalk, Key(l), l.rmb, 9500) ELSE xwalk IN
         xwalk' = IF "artist" \in done /\ l.amb # 0
                  THEN Recorded(one, Key([artist |-> l.artist, title |-> <<>>]), l.amb, 9500)
                  ELSE one
    /\ xwalk' # xwalk
    /\ UNCHANGED <<dump, quiet, memo, cached, labs, task, ask, faults>>

\* warmArtist, by the background job
Warm(m) == /\ m \notin cached
           /\ cached' = cached \cup {m}
           /\ UNCHANGED <<xwalk, dump, quiet, memo, labs, task, ask, faults>>

----------------------------------------------------------------------------
(* #labsSimilarArtists on a miss, and worthAsking inside its load.          *)

Step(g, at) == [ask EXCEPT ![g].at = at]

AskNeighbours(g, m) ==
    /\ ask[g].at \in {"idle", "declined"} /\ m \notin labs
    /\ ask' = [ask EXCEPT ![g] = [NoAsk EXCEPT !.at = "loaded", !.mbid = m]]
    /\ UNCHANGED <<xwalk, dump, quiet, memo, cached, labs, task, faults>>

\* #loaded: the reading of load_state is kept for a while.
ReadMemo(g) ==
    /\ ask[g].at = "loaded" /\ memo.fresh
    /\ ask' = Step(g, IF memo.loaded THEN "exists" ELSE "open")
    /\ UNCHANGED <<xwalk, dump, quiet, memo, cached, labs, task, faults>>

ReadLoadState(g) ==
    /\ ask[g].at = "loaded" /\ ~memo.fresh
    /\ \/ Silent /\ memo' = [fresh |-> TRUE, loaded |-> FALSE]
       \/ Served /\ memo' = [fresh |-> TRUE, loaded |-> dump = "loaded"]
    /\ ask' = Step(g, IF memo'.loaded THEN "exists" ELSE "open")
    /\ UNCHANGED <<xwalk, dump, cached, labs, task>>

MemoLapses ==
    /\ memo.fresh /\ memo' = Unread
    /\ UNCHANGED <<xwalk, dump, quiet, cached, labs, task, ask, faults>>

InDump(m) == \E r \in Rows : r.amb = m

\* exists cannot tell "not there" from "could not look".
Exists(g) ==
    /\ ask[g].at = "exists"
    /\ \/ Silent /\ ask' = [ask EXCEPT ![g].at = "known", ![g].blind = TRUE]
       \/ Served /\ ask' = Step(g, IF InDump(ask[g].mbid) THEN "open" ELSE "known")
    /\ UNCHANGED <<xwalk, dump, memo, cached, labs, task>>

\* knownLocally: a cached MusicBrainz row, or a crosswalk row of this artist
KnownLocally(m) == m \in cached \/ \E k \in DOMAIN xwalk : k[1] = "artist" /\ xwalk[k].mbid = m

Known(g) ==
    /\ ask[g].at = "known"
    /\ \/ /\ ask' = Step(g, IF KnownLocally(ask[g].mbid) THEN "open" ELSE "declined")
          /\ UNCHANGED faults
       \/ /\ faults < MaxFaults /\ faults' = faults + 1
          /\ ask' = Step(g, "open")
    /\ UNCHANGED <<xwalk, dump, quiet, memo, cached, labs, task>>

\* The call; its answer is cached, and so is the empty list its failure gives.
Call(g) ==
    /\ ask[g].at = "open"
    /\ labs' \in {labs, labs \cup {ask[g].mbid}}
    /\ ask' = [ask EXCEPT ![g] = NoAsk]
    /\ UNCHANGED <<xwalk, dump, quiet, memo, cached, task, faults>>

Next ==
    \/ Recovers \/ Load \/ MemoLapses
    \/ \E p \in Resolvers : Resolve(p) \/ SearchLocal(p) \/ SearchRemote(p) \/ RecordRemote(p)
    \/ \E l \in Lessons : Learn(l)
    \/ \E m \in Mbids : Warm(m)
    \/ \E g \in Lookups : \/ \E m \in Mbids : AskNeighbours(g, m)
                          \/ ReadMemo(g) \/ ReadLoadState(g) \/ Exists(g) \/ Known(g) \/ Call(g)

Spec == Init /\ [][Next]_vars

----------------------------------------------------------------------------

(* A name is never resolved from the dump to somebody else: the MBID about *)
(* to be recorded belongs to a row of an artist of that folded name, and   *)
(* for a recording to that title of his, although the dump's key runs      *)
(* artist and title together and is searched by prefix.  A row that is     *)
(* found in the crosswalk is outside of it: the joined keys do collide.    *)
NoFalseMerge == \A p \in Resolvers : LET t == task[p] IN
    t.local => \E r \in DumpRows :
        /\ Fold(r.artist) = Fold(t.q.artist)
        /\ IF t.q.title = <<>> THEN t.mbid = r.amb
           ELSE /\ t.mbid = r.rmb
                /\ Fold(r.title) \in {Fold(t.q.title), Fold(Bare(t.q.title))}

=============================================================================
