------------------------------- MODULE Merge -------------------------------
(***************************************************************************)
(* Deduplication and ranking of candidates: packages/discovery/src/merge.ts *)
(* and the merge inside DiscoveryService.similarArtists.                   *)
(*                                                                         *)
(* A candidate is [id, source, score, mbid], where id is the normalised     *)
(* identity (0 for an empty one), mbid is 0 when absent and scores are      *)
(* whole numbers.  Two sources at most meet in one shelf.                   *)
(***************************************************************************)
EXTENDS Naturals, Sequences, FiniteSets, SequencesExt, FiniteSetsExt

\* 1 + log2(n) for the one or two sources a shelf is built from
AgreementBoost(n) == IF n <= 1 THEN 1 ELSE 2

\* MUTANT: the better-scored representation replaces the other one whole.
PickHighest(e, c) == IF c.score > e.peak THEN c.mbid ELSE e.mbid

\* The richest representation: a better score wins, but an MBID is not lost.
Pick(e, c) ==
    IF c.score > e.peak \/ (e.mbid = 0 /\ c.mbid # 0)
    THEN (IF c.mbid # 0 THEN c.mbid ELSE e.mbid) ELSE e.mbid

MergeOne(entries, c) ==
    IF c.id = 0 THEN entries
    ELSE IF c.id \notin DOMAIN entries
    THEN [i \in DOMAIN entries \cup {c.id} |->
            IF i # c.id THEN entries[i]
            ELSE [id |-> c.id, peak |-> c.score, mbid |-> c.mbid, sources |-> {c.source}]]
    ELSE [entries EXCEPT ![c.id] =
            [id |-> c.id, peak |-> IF c.score > @.peak THEN c.score ELSE @.peak,
             mbid |-> Pick(@, c), sources |-> @.sources \cup {c.source}]]

Ranked(entries) ==
    LET scored == {[id |-> e.id, mbid |-> e.mbid, sources |-> e.sources,
                    score |-> e.peak * AgreementBoost(Cardinality(e.sources))] :
                      e \in {entries[i] : i \in DOMAIN entries}}
        Ahead(e) == {f \in scored : f.score > e.score \/ (f.score = e.score /\ f.id < e.id)}
    IN [k \in 1..Cardinality(scored) |->
          CHOOSE e \in scored : Cardinality(Ahead(e)) = k - 1]

\* The candidates, one after the other.
Entries(One(_, _), candidates) ==
    LET after[k \in 0..Len(candidates)] ==
          IF k = 0 THEN <<>> ELSE One(after[k - 1], candidates[k])
    IN after[Len(candidates)]

MergeTracks(candidates) == Ranked(Entries(MergeOne, candidates))

\* Of an artist the first MBID seen is kept.
MergeArtist(entries, c) ==
    IF c.id = 0 \/ c.id \notin DOMAIN entries THEN MergeOne(entries, c)
    ELSE [entries EXCEPT ![c.id] =
            [id |-> c.id, peak |-> IF c.score > @.peak THEN c.score ELSE @.peak,
             mbid |-> IF @.mbid # 0 THEN @.mbid ELSE c.mbid,
             sources |-> @.sources \cup {c.source}]]

MergeArtists(candidates) == Ranked(Entries(MergeArtist, candidates))

Take(s, n) == SubSeq(s, 1, IF Len(s) < n THEN Len(s) ELSE n)

----------------------------------------------------------------------------
(* What a merge is for, without the fold: nothing a source offered is lost, *)
(* an MBID any source knows is there, agreement is rewarded and the order   *)
(* is by the result.                                                        *)
IsMergeOf(out, candidates) ==
    LET offered == {c \in Range(candidates) : c.id # 0}
        Of(i) == {c \in offered : c.id = i} IN
    /\ {out[k].id : k \in DOMAIN out} = {c.id : c \in offered}
    /\ \A k \in DOMAIN out : LET i == out[k].id IN
         /\ out[k].sources = {c.source : c \in Of(i)}
         /\ out[k].score = Max({c.score : c \in Of(i)}) * AgreementBoost(Cardinality(out[k].sources))
         /\ (out[k].mbid = 0) = (\A c \in Of(i) : c.mbid = 0)
         /\ out[k].mbid \in {c.mbid : c \in Of(i)}
    /\ \A k, l \in DOMAIN out : k < l => out[k].score >= out[l].score /\ out[k].id # out[l].id
=============================================================================
