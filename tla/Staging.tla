------------------------------ MODULE Staging ------------------------------
(***************************************************************************)
(* The staging environment as an operator builds, configures and destroys  *)
(* it: infra/staging-env.sh with lib/secrets.sh, staging/cache/bootstrap.sh*)
(* and staging/app/bootstrap.sh.  The application node runs the agent and  *)
(* the jobs of module Deploy.                                              *)
(*                                                                         *)
(* Terraform and the cloud are external: an apply or a destroy that fails  *)
(* stops anywhere that respects the dependencies.  Secrets are the number  *)
(* of times they were rotated.  One operator runs one command at a time.   *)
(***************************************************************************)
EXTENDS Naturals, FiniteSets

CONSTANTS
    App, Cache, Lb, Network, Dns, Bucket,   \* the resources
    Nodes, Builds, Versions, Files, Broken, Envs, None,     \* see Deploy
    MaxPushes,
    MaxChanges,     \* bound: decisions of the operator
    MaxFaults       \* bound: calls that fail

ASSUME AppAssumption == App \in Nodes

(* Whatever a migration's file holds, its row in schema_migrations holds   *)
(* something.                                                              *)
ASSUME DeployAssumption ==
    \A b \in Builds :
        /\ DOMAIN Files[b] \subseteq Versions
        /\ \A v \in DOMAIN Files[b] : Files[b][v] # None

VARIABLES
    want,       \* the optional resources of the configuration: Cache, Lb
    cloud,      \* the resources there are, which is also terraform's state
    protected,  \* those that carry delete protection
    private,    \* servers whose private address is configured
    booted,     \* servers whose cloud-init is done
    redis,      \* on each server: the Redis containers
    nginx,      \* whether nginx expects the PROXY header
    placed,     \* files of /etc/pullfm on the application node
    timers,     \* timers that are enabled there
    vault,      \* the rotation of the secrets in 1Password
    goal,       \* what the operator is after: up or down
    cmd, step,  \* the command under way, and where it is
    read,       \* the outputs that a converge has read, and its secrets
    shipped,    \* what it has put beside bootstrap.sh
    changes, failed,
    channel, schema, lock, at, digest, applied, armed, appEnv, pinned, container,
    job, pushes, faults

D == INSTANCE Deploy

agent == <<channel, schema, lock, at, digest, applied, armed, appEnv, pinned,
           container, job, pushes, faults>>
servers == <<private, booted, redis, nginx, placed, timers>>
operator == <<want, vault, goal, changes>>
command == <<cmd, step, read, shipped>>
vars == <<operator, cloud, protected, servers, command, failed, agent>>

(* Nothing has been built yet.                                             *)
Outside ==
    /\ want = {} /\ cloud = {} /\ protected = {} /\ private = {} /\ booted = {}
    /\ redis = [h \in {App, Cache} |-> None] /\ nginx = None
    /\ placed = {} /\ timers = {}
    /\ vault = 0 /\ goal = "up" /\ changes = 0 /\ failed = 0
    /\ cmd = None /\ step = None /\ read = None /\ shipped = {}

Init == Outside /\ D!Init

Fault == failed < MaxFaults /\ failed' = failed + 1

(* The next step of the command, or its end.                               *)
Go(s) == step' = s /\ UNCHANGED <<cmd, read, shipped>>
Done == cmd' = None /\ step' = None /\ read' = None /\ shipped' = {}

Begin(c, first) ==
    /\ cmd = None
    /\ cmd' = c /\ step' = first /\ read' = None /\ shipped' = {}
    /\ UNCHANGED <<operator, cloud, protected, servers, failed, agent>>

-----------------------------------------------------------------------------
(* The operator.                                                           *)

Change ==
    /\ changes < MaxChanges /\ changes' = changes + 1
    /\ UNCHANGED <<cloud, protected, servers, command, failed, agent>>

Reshape ==
    /\ \E w \in SUBSET {Cache, Lb} : w # want /\ want' = w
    /\ Change /\ UNCHANGED <<vault, goal>>

Rotate == vault' = vault + 1 /\ Change /\ UNCHANGED <<want, goal>>

TurnRound ==
    /\ goal' = IF goal = "up" THEN "down" ELSE "up"
    /\ Change /\ UNCHANGED <<want, vault>>

Wanted == {Bucket, Network, App, Dns} \cup want

(* What cannot be there without the network, or without an address.        *)
Consistent(c) ==
    /\ c \cap {App, Cache, Lb} # {} => Network \in c
    /\ Dns \in c => (IF Lb \in c THEN Lb ELSE App) \in c

(* The resources become c: what goes is lost with everything on it.        *)
Becomes(c) ==
    /\ cloud' = c
    /\ protected' = protected \cap c
    /\ booted' = booted \cap c
    /\ private' = private \cap c
    /\ redis' = [h \in {App, Cache} |-> IF h \in c THEN redis[h] ELSE None]
    /\ IF App \in cloud \ c
       THEN nginx' = None /\ placed' = {} /\ timers' = {} /\ D!Lose(App)
       ELSE UNCHANGED <<nginx, placed, timers, agent>>

-----------------------------------------------------------------------------
(* up.                                                                     *)

Up == goal = "up" /\ Begin("up", "apply")

(* terraform apply.  A protected resource that is no longer wanted cannot  *)
(* be removed.                                                             *)
Apply ==
    /\ step = "apply"
    /\ protected \subseteq Wanted
    /\ Becomes(Wanted)
    /\ Go("wait")
    /\ UNCHANGED <<operator, failed>>

ApplyFails ==
    /\ step = "apply"
    /\ IF protected \subseteq Wanted THEN Fault ELSE UNCHANGED failed
    /\ \E c \in SUBSET (cloud \cup Wanted) :
        /\ cloud \cap Wanted \subseteq c /\ protected \subseteq c /\ Consistent(c)
        /\ Becomes(c)
    /\ Done
    /\ UNCHANGED operator

(* cloud-init, which writes its marker although the private address may    *)
(* not have been attached in time.                                         *)
Boot(h) ==
    /\ h \in cloud \ booted
    /\ booted' = booted \cup {h}
    /\ private' \in {private, private \cup {h}}
    /\ UNCHANGED <<operator, cloud, protected, redis, nginx, placed, timers,
                   command, failed, agent>>

Wait ==
    /\ step = "wait"
    /\ cloud \cap {App, Cache} \subseteq booted
    /\ Go("render")
    /\ UNCHANGED <<operator, cloud, protected, servers, failed, agent>>

-----------------------------------------------------------------------------
(* converge.                                                               *)

Converge == goal = "up" /\ App \in booted /\ Begin("converge", "render")

(* Where Redis is, in the shape that was applied.                          *)
RedisHost == IF Cache \in cloud THEN Cache ELSE App

(* The outputs are read and every secret is rendered, if the node that is  *)
(* to have Redis can be reached.                                           *)
Render ==
    /\ step = "render"
    /\ IF RedisHost \in booted
       THEN /\ read' = [proxy |-> Lb \in cloud, redis |-> RedisHost,
                        secret |-> vault]
            /\ step' = "redis"
            /\ UNCHANGED <<cmd, shipped>>
       ELSE Done
    /\ UNCHANGED <<operator, cloud, protected, servers, failed, agent>>

(* cache/bootstrap.sh: the private address, repaired if it must be.        *)
PrivateAddress ==
    /\ step = "redis" /\ read.redis \in cloud
    /\ private' = private \cup {read.redis}
    /\ Go("compose")
    /\ UNCHANGED <<operator, cloud, protected, booted, redis, nginx, placed,
                   timers, failed, agent>>

(* docker compose up starts the containers there are and creates those     *)
(* there are not.                                                          *)
Composed(h) ==
    IF redis[h] = None THEN [published |-> TRUE, secret |-> read.secret]
                       ELSE redis[h]

(* Containers that do not publish their ports are recreated.               *)
Recreated(r) ==
    IF r.published THEN r ELSE [published |-> TRUE, secret |-> read.secret]

Compose ==
    /\ step = "compose"
    /\ redis' = [redis EXCEPT ![read.redis] = Recreated(Composed(read.redis))]
    /\ IF redis'[read.redis].published THEN Go("place") ELSE Done
    /\ UNCHANGED <<operator, cloud, protected, private, booted, nginx, placed,
                   timers, failed, agent>>

(* A port cannot be bound: the container stays behind without its ports.   *)
ComposeFails ==
    /\ step = "compose" /\ Fault
    /\ redis' = [redis EXCEPT ![read.redis] =
                    IF @ = None THEN [published |-> FALSE, secret |-> read.secret]
                                ELSE @]
    /\ Done
    /\ UNCHANGED <<operator, cloud, protected, private, booted, nginx, placed,
                   timers, agent>>

(* The directories sent beside the application's own.                      *)
Trees == {"observability", "backup", "mb-loader", "lib"}

EnvFiles == {"metrics.env", "backup.env", "mb-canonical.env", "tls"}

AppEnv == [redis |-> read.redis, secret |-> read.secret]

(* bff.env goes to the application node before everything else.            *)
PlaceEnv ==
    /\ step = "place" /\ App \in cloud
    /\ placed' = placed \cup {"bff.env"}
    /\ Go("ship")
    /\ D!Place(App, AppEnv)
    /\ UNCHANGED <<operator, cloud, protected, private, booted, redis, nginx,
                   timers, failed>>

(* The other files follow; the alert channel may fail.                     *)
Ship ==
    /\ step = "ship" /\ App \in cloud
    /\ \E f \in {{}, {"alert.env"}} : placed' = placed \cup EnvFiles \cup f
    /\ shipped' = Trees
    /\ step' = "bootstrap"
    /\ UNCHANGED <<operator, cloud, protected, private, booted, redis, nginx,
                   timers, cmd, read, failed, agent>>

(* app/bootstrap.sh: whether the web server expects the PROXY header, and  *)
(* the timers of the agent and the jobs and of the directories that came.  *)
Ingress == nginx' = read.proxy

ApplicationTimers ==
    {"deploy", "cf-ranges", "warm-cache", "sweep-expired", "purge-audit",
     "reap-unverified"}

BackupTimers == {t \in {"backup-dump"} : "backup" \in shipped}
CanonicalTimers == {t \in {"mb-canonical"} : "mb-loader" \in shipped}
WatchdogTimers == {t \in {"watchdog"} : "observability" \in shipped}

EnableTimers ==
    timers' = timers \cup ApplicationTimers \cup BackupTimers \cup CanonicalTimers
                     \cup WatchdogTimers

Bootstrap ==
    /\ step = "bootstrap"
    /\ {"bff.env", "tls"} \subseteq placed
    /\ Ingress /\ EnableTimers
    /\ Go("deploy")
    /\ D!Arm(App)
    /\ UNCHANGED <<operator, cloud, protected, private, booted, redis, placed,
                   failed>>

(* systemctl start pullfm-deploy.service: the agent is started, or is under *)
(* way already, or finds nothing to do.                                    *)
StartAgent ==
    /\ step = "deploy"
    /\ \/ D!Pull(App)
       \/ (at[App] # "idle" \/ D!Current(App)) /\ UNCHANGED agent
    /\ Go("deploying")
    /\ UNCHANGED <<operator, cloud, protected, servers, failed>>

(* It is waited for; whether it failed is not asked.                       *)
AgentEnds ==
    /\ step = "deploying"
    /\ at[App] = "idle"
    /\ Go("converged")
    /\ UNCHANGED <<operator, cloud, protected, servers, failed, agent>>

(* converge ends; up polls the public URL first, which changes nothing.    *)
Verify ==
    /\ step = "converged"
    /\ Done
    /\ UNCHANGED <<operator, cloud, protected, servers, failed, agent>>

(* A call fails on the way and the command with it.                        *)
Dies ==
    /\ step \in {"wait", "render", "redis", "place", "ship", "bootstrap"} /\ Fault
    /\ Done
    /\ UNCHANGED <<operator, cloud, protected, servers, agent>>

-----------------------------------------------------------------------------
(* down.                                                                   *)

Down == goal = "down" /\ cloud \ {Bucket} # {} /\ Begin("down", "clear")

Kinds == {App, Cache, Lb, Network}

\* Mutant: the network is forgotten.
ClearServersOnly ==
    /\ step = "clear"
    /\ protected' = protected \ {App, Cache, Lb}
    /\ Go("destroy")
    /\ UNCHANGED <<operator, cloud, servers, failed, agent>>

(* clear_delete_protection, kind by kind; a call that fails is ignored.    *)
ClearProtection ==
    /\ step = "clear"
    /\ \/ protected' = protected \ Kinds /\ UNCHANGED failed
       \/ Fault /\ \E k \in Kinds : protected' = protected \cap {k}
    /\ Go("destroy")
    /\ UNCHANGED <<operator, cloud, servers, agent>>

(* Everything of the state but KEEP is a target.                           *)
Keep == {Bucket}

Destroy ==
    /\ step = "destroy"
    /\ protected = {}
    /\ Becomes(cloud \cap Keep)
    /\ Done
    /\ UNCHANGED <<operator, failed>>

DestroyFails ==
    /\ step = "destroy"
    /\ IF protected = {} THEN Fault ELSE UNCHANGED failed
    /\ \E c \in SUBSET cloud :
        /\ cloud \cap Keep \subseteq c /\ protected \subseteq c /\ Consistent(c)
        /\ Becomes(c)
    /\ Done
    /\ UNCHANGED operator

(* A resource that was created with, or later given, delete protection.    *)
Protect ==
    /\ \E r \in cloud \cap {Cache, Lb, Network} :
        r \notin protected /\ protected' = protected \cup {r}
    /\ changes < MaxChanges /\ changes' = changes + 1
    /\ UNCHANGED <<want, vault, goal, cloud, servers, command, failed, agent>>

(* The node's own timers.                                                  *)
Elsewhere == UNCHANGED <<operator, cloud, protected, servers, command, failed>>

Agent == (D!Lock(App) \/ D!Step(App)) /\ Elsewhere
Jobs == (D!StartJob(App) \/ D!EndJob(App)) /\ Elsewhere

Operator == Reshape \/ Rotate \/ TurnRound \/ Protect

Command ==
    \/ Up \/ Apply \/ ApplyFails \/ Wait \/ Render \/ PrivateAddress \/ Compose
    \/ PlaceEnv \/ Ship \/ Bootstrap \/ StartAgent \/ AgentEnds \/ Verify
    \/ Down \/ ClearProtection \/ Destroy \/ DestroyFails

Next ==
    \/ Operator \/ Command \/ Converge \/ ComposeFails \/ Dies
    \/ (\E h \in {App, Cache} : Boot(h)) \/ Agent \/ Jobs

Spec == Init /\ [][Next]_vars

(* The operator repeats the command until it is done, a server boots, and  *)
(* the node's timer fires.                                                 *)
Fairness ==
    /\ WF_vars(Command)
    /\ \A h \in {App, Cache} : WF_vars(Boot(h))
    /\ WF_vars(Agent)

-----------------------------------------------------------------------------

(* What the agent promises of the schema it promises here as well: see      *)
(* Deploy.  up, converge and destroy run it on a node they build anew.      *)
SchemaFirst == D!SchemaFirst

(***************************************************************************)
(* An operator who wants the environment gone gets it: no destroy stops    *)
(* for ever at a protected resource that "keeps billing", and the backup   *)
(* bucket is all that is left.  clear_delete_protection, cmd_down.         *)
(***************************************************************************)
DownEmpties == <>[](goal = "down") => <>[](cloud \subseteq {Bucket})

=============================================================================
