------------------------------- MODULE Service -------------------------------
(***************************************************************************)
(* One process of the API from its start to its exit, and what a request   *)
(* passes on its way to a handler: index.ts, config.ts, wiring.ts,         *)
(* server.ts, lib/legal-triggers.ts, lib/maintenance.ts,                   *)
(* lib/rate-limit-store.ts and routes/health.ts.                           *)
(*                                                                         *)
(* A setting is abstracted to what a check tells apart; the legal texts    *)
(* are the set of clauses that the checks find in them.  The handlers of   *)
(* the application are one kind of request that reads the database.        *)
(* Fastify (external) runs the hooks of the instance, maintenance among    *)
(* them, before those of the route, to which the limiter adds itself; and  *)
(* from close() on it answers 503 and waits for the requests it has.       *)
(***************************************************************************)
EXTENDS Naturals, FiniteSets

CONSTANTS
    Conns,          \* connections, each with at most one request
    Settings,       \* the environments the process may be started with
    LegalTexts,     \* the clauses the image's legal/ directory may hold
    RateLimitMax,   \* RATE_LIMIT_MAX, of one address
    PollMs,         \* MAINTENANCE_POLL_MS, in ticks
    ProbeMs,        \* the 2 s of safely
    ForceMs         \* the 15 s of shutdown

VARIABLES
    proc,       \* down, loaded, built, listening, draining, closing or down again
    env,        \* its settings
    legal,      \* the clauses of its legal texts
    pools,      \* the database and Redis clients: none, open or closed
    deps,       \* the dependencies that answer
    flagFile,   \* whether the maintenance flag file is there
    flagAge,    \* how long, up to PollMs
    gate,       \* the gate's cached answer and its age, up to PollMs
    used,       \* requests the limiter counted in this window
    kind, at,   \* of each connection's request: its route, and where it is
    waited,     \* how long its readiness checks have been waiting
    draining    \* how long the shutdown has been going on

vars == <<proc, env, legal, pools, deps, flagFile, flagAge, gate, used, kind, at,
          waited, draining>>

Dependencies == {"database", "quota"}
Unread == [file |-> FALSE, age |-> PollMs]

Init ==
    /\ proc = "down"
    /\ env \in Settings /\ legal \in LegalTexts
    /\ pools = "none" /\ deps = Dependencies
    /\ flagFile = FALSE /\ flagAge = 0 /\ gate = Unread
    /\ used = 0 /\ draining = 0
    /\ kind = [c \in Conns |-> "app"] /\ at = [c \in Conns |-> "idle"]
    /\ waited = [c \in Conns |-> 0]

config == <<env, legal>>
flag == <<flagFile, flagAge>>
requests == <<kind, at, waited>>

-----------------------------------------------------------------------------
(* Starting.                                                               *)

(* The schema's own transforms: no provider that does not exist, no        *)
(* address that can never match, at least one well-formed key.             *)
SchemaAccepts(e) ==
    /\ e.disabled \subseteq e.providers
    /\ e.allowlist # "unmatchable"
    /\ e.keks # {} /\ "malformed" \notin e.keks

LedgerParts == {"endpoint", "bucket", "key id", "secret"}

IsProduction(e) == e.deploy = "production"

(* loadConfig's rules across settings.  The WorkOS addresses of production *)
(* are the derived ones and cannot be wrong.                               *)
ConfigAccepted(e) ==
    /\ SchemaAccepts(e)
    /\ e.active \in e.keks
    /\ e.ledger \in {{}, LedgerParts}
    /\ e.deploy # "local" => ~e.corsWildcard
    /\ IsProduction(e) => ~e.silent /\ e.webhookSecret

EventsEnabled(e) == e.seatgeek /\ e.clientId

(* LEGAL_TRIGGERS: what each capability asks for.  An attested condition   *)
(* that nobody has attested is never met.                                  *)
Preconditions ==
    [seatgeek |-> {"client id", "cap", "beneficiary", "no location", "attested"},
     mirror   |-> {"musicbrainz credit"},
     docs     |-> {}]

Capabilities(e) ==
    {t \in DOMAIN Preconditions :
        \/ t = "seatgeek" /\ EventsEnabled(e)
        \/ t = "mirror" /\ e.mirror
        \/ t = "docs" /\ e.docs}

Met(p, e, texts) == IF p = "client id" THEN e.clientId ELSE p \in texts

(* assertLegalTriggersSatisfied.                                           *)
LegalAllows(e, texts) ==
    \A t \in Capabilities(e) : \A p \in Preconditions[t] : Met(p, e, texts)

(* main: the configuration is read and the legal texts are checked against *)
(* it; otherwise the process exits, and is started again.                  *)
Load ==
    /\ proc = "down"
    /\ ConfigAccepted(env)
    /\ LegalAllows(env, legal)
    /\ proc' = "loaded"
    /\ UNCHANGED <<config, pools, deps, flag, gate, used, requests, draining>>

(* An operator changes the settings or ships another image.                *)
Configure(e, texts) ==
    /\ proc = "down"
    /\ <<env, legal>> # <<e, texts>>
    /\ env' = e /\ legal' = texts
    /\ UNCHANGED <<proc, pools, deps, flag, gate, used, requests, draining>>

(* buildServices opens the clients, which connect lazily; buildServer.     *)
Build ==
    /\ proc = "loaded"
    /\ proc' = "built"
    /\ pools' = "open"
    /\ gate' = Unread
    /\ UNCHANGED <<config, deps, flag, used, requests, draining>>

Listen ==
    /\ proc = "built"
    /\ proc' = "listening"
    /\ UNCHANGED <<config, pools, deps, flag, gate, used, requests, draining>>

(* process.exit, with whatever is under way.                               *)
Exit ==
    /\ proc' = "down"
    /\ pools' = "none" /\ draining' = 0
    /\ gate' = Unread
    /\ kind' = [c \in Conns |-> "app"] /\ at' = [c \in Conns |-> "idle"]
    /\ waited' = [c \in Conns |-> 0]
    /\ UNCHANGED <<config, deps, flag, used>>

(* A key that does not parse, a port in use, an uncaught exception, or     *)
(* SIGTERM before there is a handler for it.                               *)
Fatal == proc # "down" /\ Exit

-----------------------------------------------------------------------------
(* A request.                                                              *)

(* A response is sent, of whatever status.                                 *)
Answered(c) ==
    /\ kind' = [kind EXCEPT ![c] = "app"]
    /\ at' = [at EXCEPT ![c] = "idle"]
    /\ waited' = [waited EXCEPT ![c] = 0]

(* fileActive: the answer is reused until it is pollMs old.                *)
Look == IF gate.age < PollMs THEN gate ELSE [file |-> flagFile, age |-> 0]

Active == env.maintenance \/ Look.file

(* A request arrives: closing, the maintenance hook, or on to the limiter. *)
Arrive(c, k) ==
    /\ proc \in {"listening", "draining"} /\ at[c] = "idle"
    /\ \/ /\ proc = "draining"
          /\ UNCHANGED <<gate, kind, at>>
       \/ /\ proc = "listening"
          /\ gate' = IF env.maintenance THEN gate ELSE Look
          /\ IF Active /\ k = "app"
             THEN UNCHANGED <<kind, at>>
             ELSE /\ kind' = [kind EXCEPT ![c] = k]
                  /\ at' = [at EXCEPT ![c] = "limiter"]
    /\ UNCHANGED waited
    /\ UNCHANGED <<proc, config, pools, deps, flag, used, draining>>

(* The count in the quota Redis, or 503 when it cannot be had.  Health     *)
(* checks are counted like everything else.                                *)
Limit(c) ==
    /\ at[c] = "limiter"
    /\ IF "quota" \notin deps
       THEN Answered(c) /\ UNCHANGED used
       ELSE /\ used' = IF used <= RateLimitMax THEN used + 1 ELSE used
            /\ IF used' > RateLimitMax
               THEN Answered(c)
               ELSE /\ at' = [at EXCEPT ![c] = "handler"]
                    /\ UNCHANGED <<kind, waited>>
    /\ UNCHANGED <<proc, config, pools, deps, flag, gate, draining>>

(* The JSON parser refuses the body, the handler answers, or it throws and *)
(* the error handler does.                                                 *)
Handle(c) ==
    /\ at[c] = "handler" /\ kind[c] = "app"
    /\ Answered(c)
    /\ UNCHANGED <<proc, config, pools, deps, flag, gate, used, draining>>

Healthz(c) ==
    /\ at[c] = "handler" /\ kind[c] = "healthz"
    /\ Answered(c)
    /\ UNCHANGED <<proc, config, pools, deps, flag, gate, used, draining>>

(* /readyz asks both at once.                                              *)
Readyz(c) ==
    /\ at[c] = "handler" /\ kind[c] = "readyz"
    /\ at' = [at EXCEPT ![c] = "checking"]
    /\ UNCHANGED <<proc, config, pools, deps, flag, gate, used, kind, waited,
                   draining>>

(* Redis that is gone fails its ping; a database that is gone hangs, and   *)
(* safely stops waiting for it.                                            *)
Checked(c) ==
    /\ at[c] = "checking"
    /\ "database" \in deps
    /\ Answered(c)
    /\ UNCHANGED <<proc, config, pools, deps, flag, gate, used, draining>>

CheckTimesOut(c) ==
    /\ at[c] = "checking"
    /\ waited[c] = ProbeMs
    /\ Answered(c)
    /\ UNCHANGED <<proc, config, pools, deps, flag, gate, used, draining>>

-----------------------------------------------------------------------------
(* Stopping.                                                               *)

\* Mutant: the clients are closed beside the server and not after it.
SigtermClosesAll ==
    /\ proc \in {"built", "listening"}
    /\ proc' = "draining" /\ pools' = "closed"
    /\ UNCHANGED <<config, deps, flag, gate, used, requests, draining>>

(* SIGTERM or SIGINT; a second one changes nothing.                        *)
Sigterm ==
    /\ proc \in {"built", "listening"}
    /\ proc' = "draining"
    /\ UNCHANGED <<config, pools, deps, flag, gate, used, requests, draining>>

(* app.close() is done when the last request is; then closeServices.       *)
Drained ==
    /\ proc = "draining"
    /\ \A c \in Conns : at[c] = "idle"
    /\ proc' = "closing" /\ pools' = "closed"
    /\ UNCHANGED <<config, deps, flag, gate, used, requests, draining>>

Closed == proc = "closing" /\ Exit

(* The timer.                                                              *)
Forced == proc \in {"draining", "closing"} /\ draining = ForceMs /\ Exit

-----------------------------------------------------------------------------
(* Around the process.                                                     *)

(* touch or rm.                                                            *)
Flag ==
    /\ flagFile' = ~flagFile
    /\ flagAge' = 0
    /\ UNCHANGED <<proc, config, pools, deps, gate, used, requests, draining>>

Flap(d) ==
    /\ deps' = IF d \in deps THEN deps \ {d} ELSE deps \cup {d}
    /\ UNCHANGED <<proc, config, pools, flag, gate, used, requests, draining>>

NextWindow ==
    /\ used > 0
    /\ used' = 0
    /\ UNCHANGED <<proc, config, pools, deps, flag, gate, requests, draining>>

Up(n, top) == IF n < top THEN n + 1 ELSE top

Tick ==
    /\ flagAge' = IF flagFile THEN Up(flagAge, PollMs) ELSE flagAge
    /\ gate' = [gate EXCEPT !.age = Up(@, PollMs)]
    /\ waited' = [c \in Conns |->
                    IF at[c] = "checking" THEN Up(waited[c], ProbeMs) ELSE 0]
    /\ draining' = IF proc \in {"draining", "closing"} THEN Up(draining, ForceMs)
                                                       ELSE 0
    /\ UNCHANGED <<proc, config, pools, deps, flagFile, used, kind, at>>

Routes == {"app", "healthz", "readyz"}

Next ==
    \/ Load \/ Build \/ Listen \/ Fatal \/ Sigterm \/ Drained \/ Closed \/ Forced
    \/ \E e \in Settings, texts \in LegalTexts : Configure(e, texts)
    \/ \E c \in Conns :
        \/ \E k \in Routes : Arrive(c, k)
        \/ Limit(c) \/ Handle(c) \/ Healthz(c) \/ Readyz(c)
        \/ Checked(c) \/ CheckTimesOut(c)
    \/ Flag \/ (\E d \in Dependencies : Flap(d)) \/ NextWindow \/ Tick

Spec == Init /\ [][Next]_vars

-----------------------------------------------------------------------------

(***************************************************************************)
(* While a request is anywhere between its arrival and its answer, the     *)
(* clients it uses are open: shutdown closes them after the server, and a  *)
(* request that arrives during the shutdown never starts.  index.ts.       *)
(***************************************************************************)
NoDeadPool == (\E c \in Conns : at[c] # "idle") => pools = "open"
=============================================================================
