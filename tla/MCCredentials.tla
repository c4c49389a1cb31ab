--------------------------- MODULE MCCredentials ---------------------------
(* Credentials together with how a session comes about (SignIn) and what a   *)
(* session may take away (Exports), and the cache warmer, which runs without *)
(* anybody asking.  A session that exists is all Credentials and Exports     *)
(* know of a sign-in, and the others share no state, so a behaviour          *)
(* exercises one of them.                                                    *)
EXTENDS Credentials, Exports

\* What SignIn needs, who has signed in before in the part about the profile,
\* and the first root key; then what CacheWarmer needs.
CONSTANTS
    Nodes, People, Home, Upper, Headers, Restricted, Undetermined, Enforced, RawLists,
    Keks, PerIpMax, PerEmailMax, VerifyMax, MaxEnds, MaxDeploys,
    SignedUp, FirstKek,
    Runs, Servers, Pooled, MaxHolds, ByPriority, Wishlist, MbInterval, MbMaxCalls,
    ItInterval, ItMaxCalls, RunDeadline, MaxFailures, CallTime, DbTime, MaxExpiries

(* The edge writes the country it finds in capitals.                         *)
EdgeInCapitals == \A p \in People : Home[p] \in DOMAIN Upper => Upper[Home[p]] = Home[p]

ASSUME PeopleAssumption == EdgeInCapitals /\ SignedUp \subseteq People /\ FirstKek \in Keks

VARIABLES part, raw, kek, identity, code, row, held, spent, ends, mails, accepted, req,
          deploys,
          warmLock, phase, warming, todo, called, failures, yielded, elapsed, waited,
          since, cache, preview, expiries

Sign == INSTANCE SignIn WITH session <- held
Warm == INSTANCE CacheWarmer WITH lock <- warmLock, stage <- warming

\* Ann is served; Bob lives where Pull.fm is not offered.  A deployment may bring
\* a list that leaves Ann out, one that names nobody, or one with a typing error,
\* and another root key.
MCHome == [p \in {"ann", "bob"} |-> IF p = "ann" THEN "US" ELSE "DE"]
MCUpper == [s \in {"US", "DE", "de", "XX"} |-> IF s = "de" THEN "DE" ELSE s]
MCHeaders == {<<>>, <<"US">>, <<"de">>, <<"XX">>, <<"US", "US">>, <<"U">>}
MCRawLists == {<<"bob">>, <<"", "">>, <<"ann", "x">>}

\* One MBID that is wanted and one that was seen.
MCByPriority == <<"wanted", "recent">>

signVars == <<raw, kek, identity, code, row, held, spent, ends, mails, accepted, req, deploys>>
personVars == <<vars, signVars, exportVars>>
warmVars == <<warmLock, phase, warming, todo, called, failures, yielded, elapsed, waited,
              since, cache, preview, expiries>>

MCInit ==
    /\ part \in {"credentials", "gates", "profile", "exports", "warmer"}
    /\ Init /\ ExportInit
    /\ Sign!SignInit(IF part = "profile" THEN SignedUp ELSE {}, FirstKek)
    /\ Warm!Init

MCNext ==
    /\ part' = part
    /\ \/ part = "credentials" /\ Next /\ UNCHANGED <<signVars, exportVars, warmVars>>
       \/ part = "gates" /\ Sign!GatesNext /\ UNCHANGED <<vars, exportVars, warmVars>>
       \/ part = "profile" /\ Sign!ProfileNext /\ UNCHANGED <<vars, exportVars, warmVars>>
       \/ part = "exports" /\ ExportNext /\ UNCHANGED <<vars, signVars, warmVars>>
       \/ part = "warmer" /\ Warm!Next /\ UNCHANGED personVars

MCSpec == MCInit /\ [][MCNext]_<<part, personVars, warmVars>>

ASSUME TimesAssumption == Warm!Times

(* The properties of the instances; the others keep their names.             *)
RefusedLeaveNoTrace == Sign!RefusedLeaveNoTrace
ShownNameWasAccepted == Sign!ShownNameWasAccepted
EndsInTime == Warm!EndsInTime
=============================================================================
