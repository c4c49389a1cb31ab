------------------------------- MODULE Deploy -------------------------------
(***************************************************************************)
(* How a build reaches the application nodes: infra/staging/app/           *)
(* pullfm-deploy, which a timer starts every minute on each node, the      *)
(* migration runner it starts from the new image (packages/db/scripts/     *)
(* migrate.mjs), and the scheduled jobs, which pullfm-job runs from the    *)
(* image that is pinned on the node.                                       *)
(*                                                                         *)
(* systemd runs at most one agent on a node (Type=oneshot) and kills it    *)
(* after ten minutes; the docker CLI hands the signal on to the runner's   *)
(* container.  A file of bff.env is abstracted to its content.             *)
(***************************************************************************)
EXTENDS Naturals, FiniteSets, FiniteSetsExt

CONSTANTS
    Nodes, Builds,
    Versions,       \* the migrations' numbers
    Files,          \* of each build: the contents of its migrations, by number
    Broken,         \* contents whose SQL fails
    Envs,           \* contents of bff.env
    None,
    MaxPushes,      \* bound: how often the channel moves
    MaxFaults       \* bound: kills and failures of docker

VARIABLES
    channel,    \* the build the channel's tag points at
    schema,     \* schema_migrations: the content applied for each number
    lock,       \* the node whose runner's session holds the advisory lock
    at,         \* where each node's agent is
    digest,     \* the build it resolved
    applied,    \* what its runner read of schema_migrations
    armed,      \* bootstrap has installed the agent and enabled its timer
    appEnv,     \* bff.env
    pinned,     \* deploy.env
    container,  \* the container: its image, and bff.env as it was created with
    job,        \* a scheduled job: its image and bff.env
    pushes, faults

database == <<schema, lock>>
node == <<armed, appEnv, pinned, container, job>>
vars == <<channel, database, at, digest, applied, node, pushes, faults>>

Init ==
    /\ channel \in Builds
    /\ schema = [v \in Versions |-> None] /\ lock = None
    /\ at = [n \in Nodes |-> "idle"] /\ digest = [n \in Nodes |-> None]
    /\ applied = [n \in Nodes |-> schema]
    /\ armed = [n \in Nodes |-> FALSE] /\ appEnv = [n \in Nodes |-> None]
    /\ pinned = [n \in Nodes |-> None] /\ container = [n \in Nodes |-> None]
    /\ job = [n \in Nodes |-> None]
    /\ pushes = 0 /\ faults = 0

(* CI moves the tag, forward or, with a revert, back.                      *)
Push(b) ==
    /\ pushes < MaxPushes /\ b # channel
    /\ channel' = b /\ pushes' = pushes + 1
    /\ UNCHANGED <<database, at, digest, applied, node, faults>>

Fault == faults < MaxFaults /\ faults' = faults + 1

-----------------------------------------------------------------------------
(* The migration runner.                                                   *)

(* pg_advisory_lock, of the runner's own session.                          *)
Lock(n) ==
    /\ at[n] = "pulled" /\ appEnv[n] # None
    /\ lock = None
    /\ lock' = n
    /\ at' = [at EXCEPT ![n] = "locked"]
    /\ UNCHANGED <<channel, schema, digest, applied, node, pushes, faults>>

ReadApplied(n) ==
    /\ at[n] = "locked"
    /\ applied' = [applied EXCEPT ![n] = schema]
    /\ at' = [at EXCEPT ![n] = "migrating"]
    /\ UNCHANGED <<channel, database, digest, node, pushes, faults>>

(* The files that are not applied as they are; the loop meets the first.   *)
Pending(n) == {v \in DOMAIN Files[digest[n]] : applied[n][v] # Files[digest[n]][v]}

(* One file and its row of schema_migrations, in one transaction.          *)
ApplyFile(n) ==
    /\ at[n] = "migrating" /\ Pending(n) # {}
    /\ LET v == Min(Pending(n))
           text == Files[digest[n]][v]
       IN  /\ applied[n][v] = None /\ schema[v] = None
           /\ text \notin Broken
           /\ schema' = [schema EXCEPT ![v] = text]
           /\ applied' = [applied EXCEPT ![n][v] = text]
    /\ UNCHANGED <<channel, lock, at, digest, node, pushes, faults>>

(* The runner's session ends, and its lock with it.                        *)
EndSession(n) == lock' = IF lock = n THEN None ELSE lock

(* It ends in an error: an edited file, one that fails, or one that        *)
(* another runner has applied since.                                       *)
MigrateFails(n) ==
    /\ at[n] = "migrating" /\ Pending(n) # {}
    /\ LET v == Min(Pending(n))
       IN  \/ applied[n][v] # None \/ schema[v] # None
           \/ Files[digest[n]][v] \in Broken
    /\ EndSession(n)
    /\ at' = [at EXCEPT ![n] = "idle"]
    /\ UNCHANGED <<channel, schema, digest, applied, node, pushes, faults>>

Migrated(n) ==
    /\ at[n] = "migrating" /\ Pending(n) = {}
    /\ EndSession(n)
    /\ at' = [at EXCEPT ![n] = "migrated"]
    /\ UNCHANGED <<channel, schema, digest, applied, node, pushes, faults>>

-----------------------------------------------------------------------------
(* The agent.                                                              *)

(* Already current: the digest is the pinned one and there is a container, *)
(* whichever it is.                                                        *)
Current(n) == pinned[n] = channel /\ container[n] # None

(* The tag is resolved; there is something to do.                          *)
Pull(n) ==
    /\ at[n] = "idle" /\ armed[n]
    /\ ~Current(n)
    /\ digest' = [digest EXCEPT ![n] = channel]
    /\ at' = [at EXCEPT ![n] = "pulled"]
    /\ UNCHANGED <<channel, database, applied, node, pushes, faults>>

\* Mutant: pinned before the migrations.
PinFirst(n) ==
    /\ at[n] \in {"pulled", "migrated"}
    /\ pinned' = [pinned EXCEPT ![n] = digest[n]]
    /\ at' = [at EXCEPT ![n] = IF @ = "migrated" THEN "pinned" ELSE @]
    /\ UNCHANGED <<channel, database, digest, applied, armed, appEnv, container,
                   job, pushes, faults>>

(* deploy.env is replaced.                                                 *)
Pin(n) ==
    /\ at[n] = "migrated"
    /\ pinned' = [pinned EXCEPT ![n] = digest[n]]
    /\ at' = [at EXCEPT ![n] = "pinned"]
    /\ UNCHANGED <<channel, database, digest, applied, armed, appEnv, container,
                   job, pushes, faults>>

(* docker compose up.                                                      *)
Swap(n) ==
    /\ at[n] = "pinned"
    /\ container' = [container EXCEPT ![n] =
                        [image |-> pinned[n], env |-> appEnv[n]]]
    /\ at' = [at EXCEPT ![n] = "probing"]
    /\ UNCHANGED <<channel, database, digest, applied, armed, appEnv, pinned, job,
                   pushes, faults>>

(* It fails before or after it has removed the old container.              *)
SwapFails(n) ==
    /\ at[n] = "pinned" /\ Fault
    /\ \/ UNCHANGED container
       \/ container' = [container EXCEPT ![n] = None]
    /\ at' = [at EXCEPT ![n] = "idle"]
    /\ UNCHANGED <<channel, database, digest, applied, armed, appEnv, pinned, job,
                   pushes>>

(* Healthy within a minute or not, the agent ends and changes nothing.     *)
Probe(n) ==
    /\ at[n] = "probing"
    /\ at' = [at EXCEPT ![n] = "idle"]
    /\ UNCHANGED <<channel, database, digest, applied, node, pushes, faults>>

(* The agent is killed, and a runner of its with it.                       *)
Kill(n) ==
    /\ at[n] # "idle" /\ Fault
    /\ EndSession(n)
    /\ at' = [at EXCEPT ![n] = "idle"]
    /\ UNCHANGED <<channel, schema, digest, applied, node, pushes>>

(* A timer starts a scheduled job; it is skipped until there is a pin.     *)
StartJob(n) ==
    /\ armed[n] /\ job[n] = None
    /\ pinned[n] # None /\ appEnv[n] # None
    /\ job' = [job EXCEPT ![n] = [image |-> pinned[n], env |-> appEnv[n]]]
    /\ UNCHANGED <<channel, database, at, digest, applied, armed, appEnv, pinned,
                   container, pushes, faults>>

EndJob(n) ==
    /\ job[n] # None
    /\ job' = [job EXCEPT ![n] = None]
    /\ UNCHANGED <<channel, database, at, digest, applied, armed, appEnv, pinned,
                   container, pushes, faults>>

(* Converge places bff.env, and later bootstrap installs the agent.        *)
Place(n, e) ==
    /\ appEnv' = [appEnv EXCEPT ![n] = e]
    /\ UNCHANGED <<channel, database, at, digest, applied, armed, pinned,
                   container, job, pushes, faults>>

Arm(n) ==
    /\ appEnv[n] # None
    /\ armed' = [armed EXCEPT ![n] = TRUE]
    /\ UNCHANGED <<channel, database, at, digest, applied, appEnv, pinned,
                   container, job, pushes, faults>>

(* The node is destroyed, with everything on it.                           *)
Lose(n) ==
    /\ EndSession(n)
    /\ at' = [at EXCEPT ![n] = "idle"]
    /\ armed' = [armed EXCEPT ![n] = FALSE] /\ appEnv' = [appEnv EXCEPT ![n] = None]
    /\ pinned' = [pinned EXCEPT ![n] = None]
    /\ container' = [container EXCEPT ![n] = None]
    /\ job' = [job EXCEPT ![n] = None]
    /\ UNCHANGED <<channel, schema, digest, applied, pushes, faults>>

(* What the agent does without waiting for anybody.                        *)
Step(n) ==
    \/ Pull(n) \/ ReadApplied(n) \/ ApplyFile(n) \/ MigrateFails(n) \/ Migrated(n)
    \/ Pin(n) \/ Swap(n) \/ Probe(n)

Scheduled(n) ==
    Lock(n) \/ Step(n) \/ SwapFails(n) \/ Kill(n) \/ StartJob(n) \/ EndJob(n)

Next ==
    \/ \E b \in Builds : Push(b)
    \/ \E n \in Nodes :
        \/ Scheduled(n)
        \/ (\E e \in Envs : e # appEnv[n] /\ Place(n, e))
        \/ ~armed[n] /\ Arm(n)

Spec == Init /\ [][Next]_vars

-----------------------------------------------------------------------------

(***************************************************************************)
(* "the schema and the code that expects it can never be deployed apart"   *)
(* (pullfm-deploy): whatever runs on a node, container or scheduled job,   *)
(* finds every migration of its build applied as its build has it, through *)
(* kills, failed swaps, reverts and edited migrations.                     *)
(***************************************************************************)
SchemaFirst ==
    \A n \in Nodes : \A x \in {container[n], job[n]} \ {None} :
        \A v \in DOMAIN Files[x.image] : schema[v] = Files[x.image][v]
=============================================================================
