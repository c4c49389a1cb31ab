------------------------------ MODULE MCService ------------------------------
(* Three things one API process is asked to do: create under an idempotency  *)
(* key, page through a wishlist that is added to, and start, serve and stop. *)
(* They share no state, so a behaviour exercises one of them.                *)
EXTENDS Idempotency

CONSTANTS Conns, RateLimitMax, PollMs, ProbeMs, ForceMs,
          Writers, Ids, Tracks, Cap, PageSize, Micros, EndOfTime

(* Somebody adds to the list, and only so many at once.                      *)
ASSUME WishlistAssumption ==
    /\ IsFiniteSet(Writers) /\ Writers # {}
    /\ Cap \in Nat /\ EndOfTime \in Nat

VARIABLES part,
          proc, env, legal, pools, deps, flagFile, flagAge, gate, used, kind, at,
          waited, draining,
          now, items, unused, adding, walk, shown, owed

Production ==
    [providers |-> {"lastfm", "itunes"}, disabled |-> {"itunes"},
     allowlist |-> "names", keks |-> {"k1"}, active |-> "k1",
     ledger |-> {"endpoint", "bucket", "key id", "secret"},
     deploy |-> "production", corsWildcard |-> FALSE, silent |-> FALSE,
     webhookSecret |-> TRUE, seatgeek |-> FALSE, clientId |-> TRUE,
     mirror |-> FALSE, docs |-> TRUE, maintenance |-> FALSE]

(* Two settings that start, and one for each way in which they do not.       *)
Settings ==
    {Production,
     [Production EXCEPT !.mirror = TRUE, !.maintenance = TRUE],
     [Production EXCEPT !.disabled = {"itune"}],
     [Production EXCEPT !.allowlist = "unmatchable"],
     [Production EXCEPT !.active = "k2"],
     [Production EXCEPT !.ledger = {"endpoint", "bucket"}],
     [Production EXCEPT !.corsWildcard = TRUE],
     [Production EXCEPT !.silent = TRUE],
     [Production EXCEPT !.webhookSecret = FALSE],
     [Production EXCEPT !.seatgeek = TRUE]}

Clauses == {"cap", "beneficiary", "no location", "musicbrainz credit"}
LegalTexts == {Clauses, Clauses \ {"musicbrainz credit"}}

process == <<proc, env, legal, pools, deps, flagFile, flagAge, gate, used, kind,
             at, waited, draining>>
wishlist == <<now, items, unused, adding, walk, shown, owed>>

S == INSTANCE Service
L == INSTANCE Wishlist

MCInit ==
    /\ Init /\ L!Init
    /\ \/ part \in {"idempotency", "wishlist"}
          /\ S!Init /\ env = Production /\ legal = Clauses
       \/ part = "process" /\ S!Init

MCNext ==
    \/ part = "idempotency" /\ Next /\ UNCHANGED <<part, process, wishlist>>
    \/ part = "process" /\ S!Next /\ UNCHANGED <<part, vars, wishlist>>
    \/ part = "wishlist" /\ L!Next /\ UNCHANGED <<part, vars, process>>

MCSpec == MCInit /\ [][MCNext]_<<part, vars, process, wishlist>>

NoDeadPool == part = "process" => S!NoDeadPool
CapNearlyHolds == part = "wishlist" => L!CapNearlyHolds
NoneSkipped == part = "wishlist" => L!NoneSkipped
=============================================================================
