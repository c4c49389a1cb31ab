----------------------------- MODULE MCUpstream -----------------------------
(* The budget of calls to providers, and the local copy of MusicBrainz that  *)
(* makes most of them unnecessary.  They share no state, so a behaviour      *)
(* exercises one of them.                                                    *)
EXTENDS UpstreamBudget

CONSTANTS Runs, Newest, Backoff, MaxRestores

VARIABLES part, published, lock, job, loader, live, loads, schema, quiet,
          answer, overtaken, restores

refresh == <<published, lock, job, loader, live, loads, schema, quiet, answer,
             overtaken, restores>>

C == INSTANCE CanonicalRefresh WITH
    Servers <- Runs, Pooled <- FALSE, MaxHolds <- 1

MCInit == Init /\ C!Init /\ part \in {"budget", "canonical"}

MCNext ==
    \/ part = "budget" /\ Next /\ UNCHANGED <<part, refresh>>
    \/ part = "canonical" /\ C!Next /\ UNCHANGED <<part, vars>>

(* The budget promises nothing that must happen in the end, so the fairness  *)
(* is the refresh's.                                                         *)
MCSpec ==
    /\ MCInit /\ [][MCNext]_<<part, vars, refresh>>
    /\ part = "canonical" => C!Fairness

NeverPartial == part = "canonical" => C!NeverPartial
CatchesUp == part = "canonical" => C!CatchesUp
=============================================================================
