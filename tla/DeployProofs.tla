---------------------------- MODULE DeployProofs ----------------------------
(***************************************************************************)
(* Proofs about what is done from outside the product.                     *)
(*                                                                         *)
(* Deploy and Staging, for any nodes, builds, migrations and contents of   *)
(* their files.  SchemaFirst speaks of what runs; the invariant also of    *)
(* what is about to run: the pin, and the build an agent has migrated to.  *)
(* A migration that is applied stays as it is, so what was once applied    *)
(* for a build remains so (AppliedIn, Grows).  That no runner works beside *)
(* another is not needed: one that has read schema_migrations trusts only  *)
(* what it found there or wrote itself.                                    *)
(*                                                                         *)
(* The gate on accepted risks, for any number of slips and any lines.  A   *)
(* green gate has read every entry; the invariant says how far it is:      *)
(* what the author wrote before this line is in an entry of the parser     *)
(* with all its fields, or the gate has failed (Paired, Counted, Open).    *)
(*                                                                         *)
(* The restore drill, for any quota, drills and refusals.  Only the ends   *)
(* of the chain of branches can be deleted, so the invariant follows the   *)
(* chain through every phase, and counts the passes it still takes.        *)
(***************************************************************************)
EXTENDS MCDeploy, SequenceTheorems, WellFoundedInduction, TLAPS

Stages == {"idle", "pulled", "locked", "migrating", "migrated", "pinned", "probing"}

(* Every migration of build b is in s as b has it.                         *)
AppliedIn(s, b) == b \in Builds /\ \A v \in DOMAIN Files[b] : s[v] = Files[b][v]

Shapes ==
    /\ channel \in Builds
    /\ DOMAIN schema = Versions
    /\ at \in [Nodes -> Stages]
    /\ digest \in [Nodes -> Builds \cup {None}]
    /\ pinned \in [Nodes -> Builds \cup {None}]
    /\ DOMAIN applied = Nodes /\ \A n \in Nodes : DOMAIN applied[n] = Versions
    /\ DOMAIN container = Nodes /\ DOMAIN job = Nodes

NodeFits(n) ==
    /\ at[n] # "idle" => digest[n] \in Builds
    /\ at[n] = "migrating" =>
          \A v \in Versions : applied[n][v] # None => schema[v] = applied[n][v]
    /\ at[n] \in {"migrated", "pinned"} => AppliedIn(schema, digest[n])
    /\ at[n] = "pinned" => pinned[n] = digest[n]
    /\ pinned[n] # None => AppliedIn(schema, pinned[n])
    /\ container[n] # None => AppliedIn(schema, container[n].image)
    /\ job[n] # None => AppliedIn(schema, job[n].image)

DeployInv == Shapes /\ \A n \in Nodes : NodeFits(n)

-----------------------------------------------------------------------------

(* What is applied stays applied as the table grows.                       *)
LEMMA Grows ==
    ASSUME NEW s, NEW t, NEW b, AppliedIn(s, b),
           \A v \in Versions : s[v] # None => t[v] = s[v]
    PROVE  AppliedIn(t, b)
  BY DeployAssumption DEF AppliedIn

(* A step of node n that leaves the others alone.                          *)
LEMMA NodeSteps ==
    ASSUME DeployInv, NEW n \in Nodes, Shapes', NodeFits(n)',
           \A v \in Versions : schema[v] # None => schema'[v] = schema[v],
           \A m \in Nodes \ {n} :
              /\ at'[m] = at[m] /\ digest'[m] = digest[m] /\ applied'[m] = applied[m]
              /\ pinned'[m] = pinned[m] /\ container'[m] = container[m] /\ job'[m] = job[m]
    PROVE  DeployInv'
<1>1. ASSUME NEW m \in Nodes \ {n} PROVE NodeFits(m)'
  <2>1. NodeFits(m)
    BY DEF DeployInv
  <2>2. \A b : AppliedIn(schema, b) => AppliedIn(schema', b)
    BY Grows
  <2>3. QED
    BY <2>1, <2>2 DEF NodeFits
<1>2. QED
  BY <1>1 DEF DeployInv

LEMMA DeployInitHolds == D!Init => DeployInv
<1> SUFFICES ASSUME D!Init PROVE DeployInv
  OBVIOUS
<1>1. /\ channel \in Builds /\ schema = [v \in Versions |-> None]
      /\ at = [n \in Nodes |-> "idle"] /\ digest = [n \in Nodes |-> None]
      /\ applied = [n \in Nodes |-> schema]
      /\ pinned = [n \in Nodes |-> None] /\ container = [n \in Nodes |-> None]
      /\ job = [n \in Nodes |-> None]
  BY DEF D!Init
<1>2. Shapes
  BY <1>1 DEF Shapes, Stages
<1>3. QED
  BY <1>1, <1>2 DEF DeployInv, NodeFits

(* The steps of the runner.                                                *)
LEMMA RunnerKeeps ==
    ASSUME DeployInv, NEW n \in Nodes,
           D!Lock(n) \/ D!ReadApplied(n) \/ D!MigrateFails(n) \/ D!Migrated(n)
    PROVE  DeployInv'
<1> USE DEF DeployInv
<1>1. /\ UNCHANGED <<channel, schema, digest, pinned, container, job>>
      /\ NodeFits(n)
  BY DEF D!Lock, D!ReadApplied, D!MigrateFails, D!Migrated, D!node, D!database
<1>2. CASE D!Lock(n)
  <2>1. /\ at' = [at EXCEPT ![n] = "locked"] /\ applied' = applied /\ at[n] = "pulled"
    BY <1>2 DEF D!Lock
  <2>2. Shapes'
    BY <1>1, <2>1 DEF Shapes, Stages
  <2>3. NodeFits(n)'
    BY <1>1, <2>1 DEF Shapes, NodeFits
  <2>4. QED
    BY <1>1, <2>1, <2>2, <2>3, NodeSteps DEF Shapes
<1>3. CASE D!ReadApplied(n)
  <2>1. /\ at' = [at EXCEPT ![n] = "migrating"] /\ applied' = [applied EXCEPT ![n] = schema]
        /\ at[n] = "locked"
    BY <1>3 DEF D!ReadApplied
  <2>2. Shapes'
    BY <1>1, <2>1 DEF Shapes, Stages
  <2>3. NodeFits(n)'
    BY <1>1, <2>1 DEF Shapes, NodeFits
  <2>4. QED
    BY <1>1, <2>1, <2>2, <2>3, NodeSteps DEF Shapes
<1>4. CASE D!MigrateFails(n)
  <2>1. at' = [at EXCEPT ![n] = "idle"] /\ applied' = applied
    BY <1>4 DEF D!MigrateFails
  <2>2. Shapes'
    BY <1>1, <2>1 DEF Shapes, Stages
  <2>3. NodeFits(n)'
    BY <1>1, <2>1 DEF Shapes, NodeFits
  <2>4. QED
    BY <1>1, <2>1, <2>2, <2>3, NodeSteps DEF Shapes
<1>5. CASE D!Migrated(n)
  <2>1. /\ at' = [at EXCEPT ![n] = "migrated"] /\ applied' = applied
        /\ at[n] = "migrating" /\ D!Pending(n) = {}
    BY <1>5 DEF D!Migrated
  <2>2. Shapes'
    BY <1>1, <2>1 DEF Shapes, Stages
  <2>3. AppliedIn(schema, digest[n])
    BY <1>1, <2>1, DeployAssumption DEF NodeFits, AppliedIn, D!Pending
  <2>4. NodeFits(n)'
    BY <1>1, <2>1, <2>3 DEF Shapes, NodeFits
  <2>5. QED
    BY <1>1, <2>1, <2>2, <2>4, NodeSteps DEF Shapes
<1>6. QED
  BY <1>2, <1>3, <1>4, <1>5

(* One file goes where there was nothing.                                  *)
LEMMA ApplyFileKeeps ==
    ASSUME DeployInv, NEW n \in Nodes, D!ApplyFile(n)
    PROVE  DeployInv'
<1> USE DEF DeployInv
<1> DEFINE v == D!Min(D!Pending(n))
           text == Files[digest[n]][v]
<1>1. /\ at[n] = "migrating" /\ schema[v] = None
      /\ schema' = [schema EXCEPT ![v] = text]
      /\ applied' = [applied EXCEPT ![n][v] = text]
      /\ UNCHANGED <<channel, at, digest, pinned, container, job>>
      /\ NodeFits(n)
  BY DEF D!ApplyFile, D!node
<1> HIDE DEF v, text
<1>2. /\ \A w \in Versions : schema'[w] = IF w = v THEN text ELSE schema[w]
      /\ \A w \in Versions : applied'[n][w] = IF w = v THEN text ELSE applied[n][w]
      /\ \A m \in Nodes \ {n} : applied'[m] = applied[m]
  BY <1>1 DEF Shapes
<1>3. Shapes'
  BY <1>1 DEF Shapes
<1>4. \A w \in Versions : schema[w] # None => schema'[w] = schema[w]
  BY <1>1, <1>2
<1>5. NodeFits(n)'
  <2>1. \A b : AppliedIn(schema, b) => AppliedIn(schema', b)
    BY <1>4, Grows
  <2>2. \A w \in Versions : applied'[n][w] # None => schema'[w] = applied'[n][w]
    BY <1>1, <1>2 DEF NodeFits
  <2>3. QED
    BY <1>1, <2>1, <2>2 DEF NodeFits
<1>6. QED
  BY <1>1, <1>2, <1>3, <1>4, <1>5, NodeSteps

(* The steps of the agent: it pins what it has migrated to, and starts     *)
(* what is pinned.                                                         *)
LEMMA AgentKeeps ==
    ASSUME DeployInv, NEW n \in Nodes,
           D!Pull(n) \/ D!Pin(n) \/ D!Swap(n) \/ D!SwapFails(n) \/ D!Probe(n) \/ D!Kill(n)
    PROVE  DeployInv'
<1> USE DEF DeployInv
<1>1. /\ UNCHANGED <<channel, schema, applied, job>>
      /\ NodeFits(n)
  BY DEF D!Pull, D!Pin, D!Swap, D!SwapFails, D!Probe, D!Kill, D!node, D!database
<1>2. CASE D!Pull(n)
  <2>1. /\ at' = [at EXCEPT ![n] = "pulled"] /\ digest' = [digest EXCEPT ![n] = channel]
        /\ UNCHANGED <<pinned, container>>
    BY <1>2 DEF D!Pull, D!node
  <2>2. Shapes'
    BY <1>1, <2>1 DEF Shapes, Stages
  <2>3. NodeFits(n)'
    BY <1>1, <2>1 DEF Shapes, NodeFits
  <2>4. QED
    BY <1>1, <2>1, <2>2, <2>3, NodeSteps DEF Shapes
<1>3. CASE D!Pin(n)
  <2>1. /\ at' = [at EXCEPT ![n] = "pinned"] /\ pinned' = [pinned EXCEPT ![n] = digest[n]]
        /\ UNCHANGED <<digest, container>> /\ at[n] = "migrated"
    BY <1>3 DEF D!Pin
  <2>2. Shapes'
    BY <1>1, <2>1 DEF Shapes, Stages
  <2>3. NodeFits(n)'
    BY <1>1, <2>1 DEF Shapes, NodeFits
  <2>4. QED
    BY <1>1, <2>1, <2>2, <2>3, NodeSteps DEF Shapes
<1>4. CASE D!Swap(n)
  <2> DEFINE c == [image |-> pinned[n], env |-> appEnv[n]]
  <2>1. /\ at' = [at EXCEPT ![n] = "probing"] /\ container' = [container EXCEPT ![n] = c]
        /\ UNCHANGED <<digest, pinned>> /\ at[n] = "pinned"
    BY <1>4 DEF D!Swap
  <2>2. AppliedIn(schema, c.image)
    BY <1>1, <2>1 DEF NodeFits
  <2> HIDE DEF c
  <2>3. Shapes'
    BY <1>1, <2>1 DEF Shapes, Stages
  <2>4. NodeFits(n)'
    BY <1>1, <2>1, <2>2 DEF Shapes, NodeFits
  <2>5. QED
    BY <1>1, <2>1, <2>3, <2>4, NodeSteps DEF Shapes
<1>5. CASE D!SwapFails(n) \/ D!Probe(n) \/ D!Kill(n)
  <2>1. /\ at' = [at EXCEPT ![n] = "idle"] /\ UNCHANGED <<digest, pinned>>
        /\ container' = container \/ container' = [container EXCEPT ![n] = None]
    BY <1>5 DEF D!SwapFails, D!Probe, D!Kill, D!node
  <2>2. Shapes'
    BY <1>1, <2>1 DEF Shapes, Stages
  <2>3. NodeFits(n)'
    BY <1>1, <2>1 DEF Shapes, NodeFits
  <2>4. QED
    BY <1>1, <2>1, <2>2, <2>3, NodeSteps DEF Shapes
<1>6. QED
  BY <1>2, <1>3, <1>4, <1>5

(* A job starts from what is pinned.                                       *)
LEMMA JobKeeps ==
    ASSUME DeployInv, NEW n \in Nodes, D!StartJob(n) \/ D!EndJob(n)
    PROVE  DeployInv'
<1> USE DEF DeployInv
<1> DEFINE j == IF D!StartJob(n) THEN [image |-> pinned[n], env |-> appEnv[n]] ELSE None
<1>1. /\ UNCHANGED <<channel, schema, at, digest, applied, pinned, container>>
      /\ NodeFits(n)
  BY DEF D!StartJob, D!EndJob, D!database
<1>2. /\ job' = [job EXCEPT ![n] = j]
      /\ D!StartJob(n) => pinned[n] # None
  BY DEF D!StartJob, D!EndJob
<1>3. j # None => AppliedIn(schema, j.image)
  BY <1>1, <1>2 DEF NodeFits
<1> HIDE DEF j
<1>4. Shapes'
  BY <1>1, <1>2 DEF Shapes
<1>5. NodeFits(n)'
  BY <1>1, <1>2, <1>3 DEF Shapes, NodeFits
<1>6. QED
  BY <1>1, <1>2, <1>4, <1>5, NodeSteps DEF Shapes

(* A node that is lost runs nothing.                                       *)
LEMMA LoseKeeps ==
    ASSUME DeployInv, NEW n \in Nodes, D!Lose(n)
    PROVE  DeployInv'
<1> USE DEF DeployInv
<1>1. /\ UNCHANGED <<channel, schema, digest, applied>>
      /\ at' = [at EXCEPT ![n] = "idle"] /\ pinned' = [pinned EXCEPT ![n] = None]
      /\ container' = [container EXCEPT ![n] = None] /\ job' = [job EXCEPT ![n] = None]
  BY DEF D!Lose
<1>2. Shapes'
  BY <1>1 DEF Shapes, Stages
<1>3. NodeFits(n)'
  BY <1>1 DEF Shapes, NodeFits
<1>4. QED
  BY <1>1, <1>2, <1>3, NodeSteps DEF Shapes

(* What the agents and the migrations do not look at.                      *)
LEMMA OthersKeep ==
    ASSUME DeployInv, channel' \in Builds,
           UNCHANGED <<schema, at, digest, applied, pinned, container, job>>
    PROVE  DeployInv'
  BY DEF DeployInv, Shapes, NodeFits

(* Nodes that may be lost, and be given any file bff.env, are what module  *)
(* Staging makes of Deploy.                                                *)
NodesNext ==
    \/ D!Next
    \/ \E n \in Nodes : D!Lose(n) \/ D!Arm(n) \/ \E e : D!Place(n, e)

NodesSpec == D!Init /\ [][NodesNext]_(D!vars)

LEMMA NodesKeep ==
    ASSUME DeployInv, [NodesNext]_(D!vars)
    PROVE  DeployInv'
<1>1. channel \in Builds
  BY DEF DeployInv, Shapes
<1>2. CASE UNCHANGED D!vars
  BY <1>1, <1>2, OthersKeep DEF D!vars, D!database, D!node
<1>3. ASSUME NEW b \in Builds, D!Push(b)
      PROVE  DeployInv'
  BY <1>3, OthersKeep DEF D!Push, D!database, D!node
<1>4. ASSUME NEW n \in Nodes, D!Arm(n) \/ \E e : D!Place(n, e)
      PROVE  DeployInv'
  BY <1>1, <1>4, OthersKeep DEF D!Arm, D!Place, D!database
<1>5. ASSUME NEW n \in Nodes, D!Scheduled(n)
      PROVE  DeployInv'
  BY <1>5, RunnerKeeps, ApplyFileKeeps, AgentKeeps, JobKeeps DEF D!Scheduled, D!Step
<1>6. CASE NodesNext
  BY <1>3, <1>4, <1>5, <1>6, LoseKeeps DEF NodesNext, D!Next
<1>7. QED
  BY <1>2, <1>6

LEMMA FitsIsSchemaFirst == DeployInv => SchemaFirst
<1> SUFFICES ASSUME DeployInv, NEW n \in Nodes, NEW x \in {container[n], job[n]} \ {None}
    PROVE  \A v \in DOMAIN Files[x.image] : schema[v] = Files[x.image][v]
  BY DEF SchemaFirst, D!SchemaFirst
<1>1. AppliedIn(schema, x.image)
  BY DEF DeployInv, NodeFits
<1>2. QED
  BY <1>1 DEF AppliedIn

(* pullfm-deploy and migrate.mjs: whatever runs on a node finds the        *)
(* migrations of its build applied as the build has them, for any number   *)
(* of nodes, builds and edits, with kills, failed swaps, reverts, lost     *)
(* nodes and changes of bff.env at any time.                               *)
THEOREM SchemaIsFirst == NodesSpec => []SchemaFirst
<1>1. NodesSpec => []DeployInv
  BY DeployInitHolds, NodesKeep, PTL DEF NodesSpec
<1>2. QED
  BY <1>1, FitsIsSchemaFirst, PTL

-----------------------------------------------------------------------------
(* What an operator does to a staging environment is, on its node, a step  *)
(* of the agent, the loss of the node, or nothing.                         *)

LEMMA BecomesIsLoss ==
    ASSUME NEW c, Becomes(c)
    PROVE  [NodesNext]_(D!vars)
<1>1. CASE D!Lose(App)
  BY <1>1, AppAssumption DEF NodesNext
<1>2. CASE UNCHANGED agent
  BY <1>2 DEF agent, D!vars, D!database, D!node
<1>3. QED
  BY <1>1, <1>2 DEF Becomes

LEMMA StagingSteps ==
    ASSUME [Next]_vars
    PROVE  [NodesNext]_(D!vars)
<1>1. ASSUME UNCHANGED agent
      PROVE  [NodesNext]_(D!vars)
  BY <1>1 DEF agent, D!vars, D!database, D!node
<1>2. ASSUME NEW c, Becomes(c)
      PROVE  [NodesNext]_(D!vars)
  BY <1>2, BecomesIsLoss
<1>3. CASE UNCHANGED vars
  BY <1>1, <1>3 DEF vars
<1>4. CASE Operator
  BY <1>1, <1>4 DEF Operator, Reshape, Rotate, TurnRound, Protect, Change
<1>5. CASE Up \/ Converge \/ Down
  BY <1>1, <1>5 DEF Up, Converge, Down, Begin
<1>6. CASE Apply \/ ApplyFails \/ Destroy \/ DestroyFails
  BY <1>2, <1>6 DEF Apply, ApplyFails, Destroy, DestroyFails
<1>7. CASE Wait \/ Render \/ PrivateAddress \/ Compose \/ ComposeFails \/ Ship \/ Dies
  BY <1>1, <1>7 DEF Wait, Render, PrivateAddress, Compose, ComposeFails, Ship, Dies
<1>8. CASE PlaceEnv
  BY <1>8, AppAssumption DEF PlaceEnv, NodesNext
<1>9. CASE Bootstrap
  BY <1>9, AppAssumption DEF Bootstrap, NodesNext
<1>10. CASE StartAgent
  <2>1. CASE D!Pull(App)
    BY <2>1, AppAssumption DEF NodesNext, D!Next, D!Scheduled, D!Step
  <2>2. QED
    BY <1>1, <1>10, <2>1 DEF StartAgent
<1>11. CASE AgentEnds \/ Verify \/ ClearProtection \/ \E h \in {App, Cache} : Boot(h)
  BY <1>1, <1>11 DEF AgentEnds, Verify, ClearProtection, Boot
<1>12. CASE Agent \/ Jobs
  <2>1. D!Scheduled(App)
    BY <1>12 DEF Agent, Jobs, D!Scheduled
  <2>2. QED
    BY <2>1, AppAssumption DEF NodesNext, D!Next
<1>13. QED
  BY <1>3, <1>4, <1>5, <1>6, <1>7, <1>8, <1>9, <1>10, <1>11, <1>12 DEF Next, Command

(* staging-env.sh drives the agent only in ways the nodes of Deploy allow. *)
THEOREM StagingImplementsNodes == Spec => NodesSpec
<1>1. Init => D!Init
  BY DEF Init
<1>2. QED
  BY <1>1, StagingSteps, PTL DEF Spec, NodesSpec

(* Hence the same on the node of a staging environment, which an operator  *)
(* builds, converges and destroys in any order.                            *)
THEOREM StagingSchemaIsFirst == Spec => []SchemaFirst
  BY StagingImplementsNodes, SchemaIsFirst

-----------------------------------------------------------------------------
(* The gate on the register of accepted risks, for any number of slips.     *)
(* What the author wrote below an entry and what the parser put into it     *)
(* drift apart after the front matter, but never in what the gate reads of  *)
(* them (Kept).  Every entry he wrote in it has one of the parser that says *)
(* nothing else (Paired); while an entry is open it is the last on both     *)
(* sides (Open).                                                            *)

Kept == {"status", "expires_on"}

Names == {"", "id", "status", "severity", "accepted_on", "expires_on", "review_notes",
          "threat_ids", "schema_version", "register", "notes", "owner", "stauts"}

Forms == {"fence", "item", "quoted", "listitem", "field", "list", "value", "key", "scalar", "text", "bad"}

Values == Int

Maps == UNION {[Ns -> Values] : Ns \in SUBSET Names}

WrittenEntries == [fields : Maps, under : Names, front : BOOLEAN, plain : BOOLEAN]

Lines == {l \in [form : Forms, key : Names, value : Values] :
             l.form \in {"list", "listitem"} => l.key \notin Kept}

(* The field whose list goes on is one of the entry's, and no field the gate *)
(* reads.                                                                   *)
Takes(e, field) == field # "" => field \notin Kept /\ field \in DOMAIN e

GateTypes ==
    /\ DOMAIN root \subseteq Names
    /\ \A k \in DOMAIN root : root[k] \in [scalar : Values, entries : Seq(Maps)]
    /\ list \in Names /\ values \in Names /\ entry \in BOOLEAN
    /\ list # "" => list \in DOMAIN root
    /\ entry => list # "" /\ root[list].entries # <<>>
    /\ values # "" => entry
    /\ entry => Takes(Register!Current, values)
    /\ reading = "opening" => ~entry
    /\ written \in Seq(WrittenEntries)
    /\ inFront \in Nat /\ inFile \in Nat

(* What the parser read of an entry is what was written.                    *)
Agree(e, w) ==
    \A f \in Kept : f \in DOMAIN e => f \in DOMAIN w.fields /\ w.fields[f] = e[f]

(* And the parser read all that was written.                                *)
Match(e, w) ==
    Agree(e, w) /\ \A f \in Kept : f \in DOMAIN w.fields => f \in DOMAIN e

Open ==
    reading = "front" /\ entry =>
       /\ written # <<>>
       /\ written[Len(written)].front /\ written[Len(written)].under = list
       /\ Match(Register!Current, written[Len(written)])

(* Entry j of key k may still grow.                                         *)
Growing(k, j) == reading = "front" /\ entry /\ k = list /\ j = Len(root[list].entries)

Paired ==
    reading # "failed" =>
       \A i \in 1 .. Len(written) : written[i].front =>
          /\ written[i].under \in DOMAIN root
          /\ \E j \in 1 .. Len(root[written[i].under].entries) :
                /\ Agree(root[written[i].under].entries[j], written[i])
                /\ Growing(written[i].under, j) => i = Len(written)

Counted ==
    /\ inFront <= inFile
    /\ \A i \in 1 .. Len(written) :
          ~written[i].front /\ written[i].plain => inFront < inFile

GateInv == GateTypes /\ Open /\ Paired /\ Counted

LEMMA MapIsMap ==
    ASSUME NEW Ns \in SUBSET Names, NEW f \in [Ns -> Values]
    PROVE  f \in Maps
  BY DEF Maps

LEMMA MapOpens ==
    ASSUME NEW f \in Maps
    PROVE  DOMAIN f \subseteq Names /\ \A k \in DOMAIN f : f[k] \in Values
  BY DEF Maps

Within(f, g) == DOMAIN f \subseteq DOMAIN g /\ \A k \in DOMAIN f : g[k] = f[k]

LEMMA WithIsMap ==
    ASSUME NEW f \in Maps, NEW key \in Names, NEW value \in Values
    PROVE  /\ Register!With(f, key, value) \in Maps
           /\ DOMAIN Register!With(f, key, value) = DOMAIN f \cup {key}
           /\ Register!With(f, key, value)[key] = value
           /\ \A k \in DOMAIN f :
                 Register!With(f, key, value)[k] = IF k = key THEN value ELSE f[k]
           /\ key \notin DOMAIN f => Within(f, Register!With(f, key, value))
<1> DEFINE g == Register!With(f, key, value)
<1>1. g = [k \in DOMAIN f \cup {key} |-> IF k = key THEN value ELSE f[k]]
  BY DEF Register!With
<1>2. DOMAIN f \cup {key} \in SUBSET Names
  BY MapOpens
<1>3. g \in [DOMAIN f \cup {key} -> Values]
  BY <1>1, MapOpens
<1>4. g \in Maps
  BY <1>2, <1>3, MapIsMap
<1>5. QED
  BY <1>1, <1>4 DEF Within

(* Map g is f with this value for the key.                                  *)
Gains(g, f, key, value) ==
    /\ g \in Maps /\ DOMAIN g = DOMAIN f \cup {key} /\ g[key] = value
    /\ \A k \in DOMAIN f : k # key => g[k] = f[k]

LEMMA WithGains ==
    ASSUME NEW f \in Maps, NEW key \in Names, NEW value \in Values
    PROVE  Gains(Register!With(f, key, value), f, key, value)
<1> DEFINE g == Register!With(f, key, value)
<1>1. g = [k \in DOMAIN f \cup {key} |-> IF k = key THEN value ELSE f[k]]
  BY DEF Register!With
<1>2. g \in Maps
  BY WithIsMap
<1> HIDE DEF g
<1>3. Gains(g, f, key, value)
  BY <1>1, <1>2 DEF Gains
<1>4. QED
  BY <1>3 DEF g

LEMMA FirstIsMap ==
    ASSUME NEW key \in Names, NEW value \in Values
    PROVE  /\ [k \in {key} |-> value] \in Maps
           /\ DOMAIN [k \in {key} |-> value] = {key}
<1>1. [k \in {key} |-> value] \in [{key} -> Values]
  OBVIOUS
<1>2. {key} \in SUBSET Names
  OBVIOUS
<1>3. QED
  BY <1>1, <1>2, MapIsMap

LEMMA LineIsLine ==
    ASSUME NEW form \in Forms, NEW key \in Names, NEW value \in Values,
           form \in {"list", "listitem"} => key \notin Kept
    PROVE  Register!Line(form, key, value) \in Lines
  BY DEF Lines, Register!Line

LEMMA Tuples ==
    ASSUME NEW S, NEW a \in S, NEW b \in S, NEW c \in S, NEW d \in S, NEW e \in S,
           NEW f \in S, NEW g \in S, NEW h \in S
    PROVE  /\ <<a, b>> \in Seq(S) /\ <<a, b, c>> \in Seq(S)
           /\ <<a, b, c, d, e, f, g, h>> \in Seq(S)
OBVIOUS

(* A list has no field the gate reads, whoever writes the line.             *)
LEMMA LinesRead == Register!Regular \in Seq(Lines) /\ Register!Strays \subseteq Lines
<1>1. /\ {0, 1, 2, 3, 4, 5, 7} \subseteq Values
      /\ {"fence", "item", "quoted", "listitem", "field", "list", "value", "key", "scalar",
          "text", "bad"}
            \subseteq Forms
      /\ {"", "id", "status", "severity", "accepted_on", "expires_on", "review_notes",
          "threat_ids", "schema_version", "register", "notes", "owner", "stauts"} \subseteq Names
  BY DEF Forms, Names, Values
<1>2. ASSUME NEW key \in Names, NEW value \in Values
      PROVE  /\ Register!Line("fence", key, value) \in Lines
             /\ Register!Line("scalar", key, value) \in Lines
             /\ Register!Line("key", key, value) \in Lines
             /\ Register!Line("text", key, value) \in Lines
             /\ Register!Line("value", key, value) \in Lines
             /\ Register!Line("quoted", key, value) \in Lines
             /\ Register!Line("bad", key, value) \in Lines
             /\ Register!Line("item", key, value) \in Lines
             /\ Register!Line("field", key, value) \in Lines
             /\ key \notin Kept => /\ Register!Line("list", key, value) \in Lines
                                   /\ Register!Line("listitem", key, value) \in Lines
  BY <1>1, LineIsLine
<1>3. ASSUME NEW key \in Names, NEW value \in Values
      PROVE  Register!Field(key, value) \in Lines /\ Register!Item(value) \in Lines
  BY <1>1, <1>2 DEF Register!Field, Register!Item
<1>4. /\ Register!Fence \in Lines
      /\ Register!Line("list", "threat_ids", 0) \in Lines
      /\ Register!Line("list", "owner", 0) \in Lines
      /\ Register!Line("listitem", "threat_ids", 0) \in Lines
      /\ Register!Line("value", "", 7) \in Lines
      /\ Register!Line("value", "", 0) \in Lines
      /\ Register!Line("text", "", 0) \in Lines
      /\ Register!Line("bad", "", 0) \in Lines
      /\ Register!Line("scalar", "schema_version", 1) \in Lines
      /\ Register!Line("scalar", "schema_version", 2) \in Lines
      /\ Register!Line("scalar", "register", 1) \in Lines
      /\ Register!Line("key", "register", 0) \in Lines
      /\ Register!Line("key", "notes", 0) \in Lines
      /\ Register!Line("quoted", "id", 2) \in Lines
  BY <1>1, <1>2 DEF Register!Fence, Kept
<1>5. ASSUME NEW id \in Values, NEW status \in Values, NEW expires \in Values
      PROVE  Register!EntryLines(id, status, expires) \in Seq(Lines)
  <2>1. /\ Register!Item(id) \in Lines /\ Register!Field("status", status) \in Lines
        /\ Register!Field("severity", 2) \in Lines
        /\ Register!Field("accepted_on", 1) \in Lines
        /\ Register!Field("expires_on", expires) \in Lines
        /\ Register!Field("review_notes", Register!MinLength) \in Lines
    BY <1>1, <1>3 DEF Register!MinLength
  <2>2. QED
    BY <1>4, <2>1, Tuples, Zenon DEF Register!EntryLines
<1>6. /\ <<Register!Fence, Register!Line("scalar", "schema_version", 1),
           Register!Line("key", "register", 0)>> \in Seq(Lines)
      /\ <<Register!Fence, Register!Line("text", "", 0)>> \in Seq(Lines)
  BY <1>4, Tuples, Zenon
<1>7. Register!Regular \in Seq(Lines)
  <2>1. /\ Register!EntryLines(1, Register!Accepted, 4) \in Seq(Lines)
        /\ Register!EntryLines(2, Register!Accepted, 2) \in Seq(Lines)
    BY <1>1, <1>5 DEF Register!Accepted
  <2>2. QED
    BY <1>6, <2>1, ConcatProperties DEF Register!Regular
<1>8. Register!Strays \subseteq Lines
  <2>1. /\ Register!Item(3) \in Lines /\ Register!Field("status", Register!Retired) \in Lines
        /\ Register!Field("status", 3) \in Lines /\ Register!Field("expires_on", 5) \in Lines
        /\ Register!Field("expires_on", 0) \in Lines /\ Register!Field("severity", 1) \in Lines
        /\ Register!Field("review_notes", Register!MinLength - 1) \in Lines
        /\ Register!Field("stauts", Register!Accepted) \in Lines
        /\ Register!Line("item", "status", Register!Accepted) \in Lines
    <3>1. /\ Register!MinLength - 1 \in Values /\ Register!Retired \in Values
          /\ Register!Accepted \in Values
      BY DEF Register!MinLength, Register!Retired, Register!Accepted, Values
    <3>2. QED
      BY <1>1, <1>2, <1>3, <3>1
  <2>2. QED
    BY <1>4, <2>1 DEF Register!Strays
<1>9. QED
  BY <1>7, <1>8

(* What a line adds to the history: an entry, a field of the last one, or   *)
(* nothing.                                                                 *)
LEMMA WrittenGrows ==
    ASSUME GateTypes, NEW l \in Lines, written' = Register!Written(l)
    PROVE  /\ written' \in Seq(WrittenEntries)
           /\ Len(written') =
                 Len(written) + IF l.form \in {"item", "quoted", "listitem"} THEN 1 ELSE 0
           /\ \A i \in 1 .. Len(written) :
                 /\ written'[i].under = written[i].under
                 /\ written'[i].front = written[i].front
                 /\ written'[i].plain = written[i].plain
                 /\ \A e : Agree(e, written[i]) => Agree(e, written'[i])
           /\ l.form \in {"item", "quoted", "listitem"} =>
                 LET w == written'[Len(written) + 1] IN
                    /\ w.fields = [k \in {l.key} |-> l.value] /\ w.under = list
                    /\ w.front = (reading = "front") /\ w.plain = (l.form = "item" /\ l.key = "id")
           /\ l.form # "field" => \A i \in 1 .. Len(written) : written'[i] = written[i]
           /\ l.form = "field" /\ written # <<>> =>
                 LET f == written[Len(written)].fields IN
                 written'[Len(written)].fields =
                    IF l.key \in DOMAIN f THEN f ELSE Register!With(f, l.key, l.value)
<1>1. /\ written \in Seq(WrittenEntries) /\ Len(written) \in Nat
      /\ list \in Names
      /\ l.key \in Names /\ l.value \in Values /\ l.form \in Forms
  BY LenProperties DEF GateTypes, Lines
<1>2. CASE l.form \in {"item", "quoted", "listitem"}
  <2> DEFINE first == [k \in {l.key} |-> l.value]
             plain == l.form = "item" /\ l.key = "id"
             front == reading = "front"
             x == [fields |-> first, under |-> list, front |-> front, plain |-> plain]
  <2>1. written' = Append(written, x)
    BY <1>2 DEF Register!Written, Register!Plain, Register!Starts
  <2>2. x \in WrittenEntries
    <3>1. first \in Maps
      BY <1>1, FirstIsMap
    <3>2. plain \in BOOLEAN /\ front \in BOOLEAN
      OBVIOUS
    <3> HIDE DEF first, plain, front
    <3>3. QED
      BY <1>1, <3>1, <3>2 DEF WrittenEntries
  <2>3. /\ written' \in Seq(WrittenEntries) /\ Len(written') = Len(written) + 1
        /\ \A i \in 1 .. Len(written) : written'[i] = written[i]
        /\ written'[Len(written) + 1] = x
    BY <1>1, <2>1, <2>2, AppendProperties
  <2>4. /\ x.fields = [k \in {l.key} |-> l.value] /\ x.under = list
        /\ x.front = (reading = "front") /\ x.plain = (l.form = "item" /\ l.key = "id")
    OBVIOUS
  <2> HIDE DEF x
  <2>5. l.form # "field"
    BY <1>2
  <2>6. QED
    BY <1>2, <2>3, <2>4, <2>5
<1>3. CASE l.form = "field" /\ written # <<>>
  <2> DEFINE n == Len(written)
             f == written[n].fields
             g == IF l.key \in DOMAIN f THEN f ELSE Register!With(f, l.key, l.value)
             y == [written[n] EXCEPT !.fields = g]
  <2>1. n \in 1 .. Len(written)
    BY <1>1, <1>3, EmptySeq
  <2>2. written[n] \in WrittenEntries /\ f \in Maps
    <3>1. written[n] \in WrittenEntries
      BY <1>1, <2>1, LenProperties
    <3>2. QED
      BY <3>1 DEF WrittenEntries
  <2>3. written' = [written EXCEPT ![n].fields = IF l.key \in DOMAIN @ THEN @
                                                 ELSE Register!With(@, l.key, l.value)]
    BY <1>3 DEF Register!Written, Register!Starts
  <2>4. written' = [written EXCEPT ![n] = y]
    BY <2>3
  <2>5. g \in Maps /\ Within(f, g)
    <3>1. CASE l.key \in DOMAIN f
      BY <2>2, <3>1 DEF Within
    <3>2. CASE l.key \notin DOMAIN f
      BY <1>1, <2>2, <3>2, WithIsMap
    <3>3. QED
      BY <3>1, <3>2
  <2> HIDE DEF g, f
  <2>6. /\ y \in WrittenEntries /\ y.fields = g /\ y.under = written[n].under
        /\ y.front = written[n].front /\ y.plain = written[n].plain
    BY <2>2, <2>5 DEF WrittenEntries
  <2> HIDE DEF y
  <2>7. /\ written' \in Seq(WrittenEntries) /\ Len(written') = Len(written)
        /\ \A i \in 1 .. Len(written) : written'[i] = IF i = n THEN y ELSE written[i]
    BY <1>1, <2>1, <2>4, <2>6, ExceptSeq
  <2>8. written'[n] = y
    BY <2>1, <2>7
  <2>9. \A e : Agree(e, written[n]) => Agree(e, written'[n])
    BY <2>5, <2>6, <2>8 DEF Agree, Within, f
  <2>10. \A i \in 1 .. Len(written) :
            /\ written'[i].under = written[i].under
            /\ written'[i].front = written[i].front
            /\ written'[i].plain = written[i].plain
            /\ \A e : Agree(e, written[i]) => Agree(e, written'[i])
    BY <2>6, <2>7, <2>8, <2>9
  <2>11. l.form \notin {"item", "quoted", "listitem"}
    BY <1>3
  <2>12. written'[Len(written)].fields = g
    BY <2>6, <2>8
  <2>13. QED
    BY <1>1, <1>3, <2>7, <2>10, <2>11, <2>12 DEF f, g
<1>4. CASE l.form \notin {"item", "quoted", "listitem"} /\ ~(l.form = "field" /\ written # <<>>)
  <2>1. written' = written
    BY <1>4 DEF Register!Written, Register!Starts
  <2>2. QED
    BY <1>1, <1>4, <2>1
<1>5. QED
  BY <1>2, <1>3, <1>4

(* An entry the parser never sees is counted as outside.                    *)
LEMMA CountedKept ==
    ASSUME GateInv, NEW l \in Lines, Register!Read(l)
    PROVE  Counted' /\ inFront' \in Nat /\ inFile' \in Nat
<1>1. /\ inFile' = inFile + Register!Marker(l)
      /\ inFront' = IF reading = "front" THEN inFront + Register!Marker(l) ELSE inFront
      /\ written' = Register!Written(l)
      /\ inFront \in Nat /\ inFile \in Nat /\ inFront <= inFile
      /\ Len(written) \in Nat
  BY LenProperties DEF Register!Read, GateInv, GateTypes, Counted
<1>2. Register!Marker(l) = IF l.form = "item" /\ l.key = "id" THEN 1 ELSE 0
  BY DEF Register!Marker, Register!Plain
<1>3. /\ inFront' \in Nat /\ inFile' \in Nat /\ inFront' <= inFile'
      /\ inFront < inFile => inFront' < inFile'
      /\ reading # "front" /\ l.form = "item" /\ l.key = "id" => inFront' < inFile'
  BY <1>1, <1>2
<1>4. /\ Len(written') = Len(written) + IF l.form \in {"item", "quoted", "listitem"} THEN 1 ELSE 0
      /\ \A i \in 1 .. Len(written) :
            written'[i].front = written[i].front /\ written'[i].plain = written[i].plain
      /\ l.form \in {"item", "quoted", "listitem"} =>
            /\ written'[Len(written) + 1].front = (reading = "front")
            /\ written'[Len(written) + 1].plain = (l.form = "item" /\ l.key = "id")
  BY <1>1, WrittenGrows DEF GateInv
<1>5. ASSUME NEW i \in 1 .. Len(written'), ~written'[i].front, written'[i].plain
      PROVE  inFront' < inFile'
  <2>1. CASE i \in 1 .. Len(written)
    BY <1>3, <1>4, <1>5, <2>1 DEF GateInv, Counted
  <2>2. CASE i \notin 1 .. Len(written)
    <3>1. l.form \in {"item", "quoted", "listitem"} /\ i = Len(written) + 1
      BY <1>1, <1>4, <1>5, <2>2
    <3>2. QED
      BY <1>3, <1>4, <1>5, <3>1
  <2>3. QED
    BY <2>1, <2>2
<1>6. QED
  BY <1>3, <1>5 DEF Counted

(* A line that does not move the parser: it fails on it, the line is a      *)
(* fence, or it stands outside the front matter.                            *)
LEMMA ParserStays ==
    ASSUME GateInv, NEW l \in Lines, Register!Read(l), UNCHANGED <<root, list, entry, values>>,
           reading' = "failed" \/ reading # "front" \/ l.form = "fence",
           reading = "failed" => reading' = "failed",
           reading' \in {"front", "opening"} => reading = "opening"
    PROVE  GateInv'
<1>1. /\ GateTypes /\ written' = Register!Written(l) /\ Counted'
      /\ inFront' \in Nat /\ inFile' \in Nat
  BY CountedKept DEF GateInv, Register!Read
<1>2. GateTypes'
  <2>1. written' \in Seq(WrittenEntries)
    BY <1>1, WrittenGrows
  <2>2. Register!Current' = Register!Current
    BY DEF Register!Current
  <2>3. QED
    BY <1>1, <2>1, <2>2 DEF GateTypes
<1>3. Open'
  BY <1>1 DEF Open, GateTypes
<1>4. ~(reading' = "front" /\ entry')
  BY <1>1 DEF GateTypes
<1>5. ASSUME reading' # "failed", NEW i \in 1 .. Len(written'), written'[i].front
      PROVE  /\ written'[i].under \in DOMAIN root
             /\ \E j \in 1 .. Len(root[written'[i].under].entries) :
                   Agree(root[written'[i].under].entries[j], written'[i])
  <2>1. i \in 1 .. Len(written)
    <3>1. Len(written) \in Nat
      BY <1>1, LenProperties DEF GateTypes
    <3>2. l.form \in {"item", "quoted", "listitem"} => ~written'[Len(written) + 1].front
      BY <1>1, <1>5, WrittenGrows
    <3>3. Len(written') = Len(written) + IF l.form \in {"item", "quoted", "listitem"} THEN 1 ELSE 0
      BY <1>1, WrittenGrows
    <3>4. QED
      BY <1>5, <3>1, <3>2, <3>3
  <2>2. /\ written'[i].under = written[i].under /\ written[i].front
        /\ \A e : Agree(e, written[i]) => Agree(e, written'[i])
    BY <1>1, <1>5, <2>1, WrittenGrows
  <2>3. /\ written[i].under \in DOMAIN root
        /\ \E j \in 1 .. Len(root[written[i].under].entries) :
              Agree(root[written[i].under].entries[j], written[i])
    BY <1>5, <2>1, <2>2 DEF GateInv, Paired
  <2>4. QED
    BY <2>2, <2>3
<1>6. Paired'
  <2>1. root' = root
    OBVIOUS
  <2> DEFINE Read(r, w) == /\ w.under \in DOMAIN r
                           /\ \E j \in 1 .. Len(r[w.under].entries) :
                                 Agree(r[w.under].entries[j], w)
  <2>2. reading' # "failed" =>
           \A i \in 1 .. Len(written') : written'[i].front => Read(root', written'[i])
    BY <1>5, <2>1
  <2>3. QED
    BY <1>4, <2>2 DEF Paired, Growing
<1>7. QED
  BY <1>1, <1>2, <1>3, <1>6 DEF GateInv

(* The open entry is the last of its list, and the last written is paired    *)
(* with it.                                                                  *)
LEMMA OpenEntry ==
    ASSUME GateTypes, entry
    PROVE  /\ list \in DOMAIN root /\ list \in Names
           /\ root[list].entries \in Seq(Maps)
           /\ Len(root[list].entries) \in 1 .. Len(root[list].entries)
           /\ Len(root[list].entries) \in Nat
           /\ Register!Current \in Maps
           /\ Register!Current = root[list].entries[Len(root[list].entries)]
<1>1. list \in DOMAIN root /\ list \in Names /\ root[list].entries # <<>>
  BY DEF GateTypes
<1>2. root[list].entries \in Seq(Maps)
  BY <1>1 DEF GateTypes
<1>3. /\ Len(root[list].entries) \in Nat
      /\ Len(root[list].entries) \in 1 .. Len(root[list].entries)
  BY <1>1, <1>2, LenProperties, EmptySeq
<1>4. root[list].entries[Len(root[list].entries)] \in Maps
  BY <1>2, <1>3, ElementOfSeq
<1>5. QED
  BY <1>1, <1>2, <1>3, <1>4 DEF Register!Current

LEMMA EntryBecomes ==
    ASSUME GateTypes, entry, NEW e \in Maps, Register!Becomes(e)
    PROVE  /\ DOMAIN root' = DOMAIN root
           /\ \A k \in DOMAIN root :
                 /\ root'[k] \in [scalar : Values, entries : Seq(Maps)]
                 /\ Len(root'[k].entries) = Len(root[k].entries)
                 /\ \A j \in 1 .. Len(root[k].entries) :
                       root'[k].entries[j] =
                          IF k = list /\ j = Len(root[list].entries) THEN e
                          ELSE root[k].entries[j]
<1> DEFINE es == root[list].entries
           n == Len(es)
           es2 == [es EXCEPT ![n] = e]
           r2 == [root[list] EXCEPT !.entries = es2]
<1>1. list \in DOMAIN root /\ es \in Seq(Maps) /\ n \in 1 .. n /\ n \in Nat
  BY OpenEntry
<1>2. root' = [root EXCEPT ![list].entries[n] = e]
  BY DEF Register!Becomes
<1>3. root' = [root EXCEPT ![list] = r2]
  BY <1>2
<1>4. /\ es2 \in Seq(Maps) /\ Len(es2) = n
      /\ \A j \in 1 .. n : es2[j] = IF j = n THEN e ELSE es[j]
  <2> HIDE DEF es
  <2>1. QED
    BY <1>1, ExceptSeq
<1>5. root[list] \in [scalar : Values, entries : Seq(Maps)]
  BY <1>1 DEF GateTypes
<1>6. r2 \in [scalar : Values, entries : Seq(Maps)] /\ r2.entries = es2
  <2> HIDE DEF es2
  <2>1. QED
    BY <1>4, <1>5
<1> HIDE DEF r2, es2
<1>7. DOMAIN root' = DOMAIN root
  BY <1>3
<1>8. root'[list] = r2
  BY <1>1, <1>3
<1>9. ASSUME NEW k \in DOMAIN root, k # list
      PROVE  root'[k] = root[k]
  BY <1>3, <1>9
<1>10. ASSUME NEW k \in DOMAIN root
       PROVE  /\ root'[k] \in [scalar : Values, entries : Seq(Maps)]
              /\ Len(root'[k].entries) = Len(root[k].entries)
              /\ \A j \in 1 .. Len(root[k].entries) :
                    root'[k].entries[j] =
                       IF k = list /\ j = Len(root[list].entries) THEN e
                       ELSE root[k].entries[j]
  <2>1. CASE k = list
    <3>1. root'[k].entries = es2 /\ root'[k] = r2
      BY <1>6, <1>8, <2>1
    <3>2. QED
      BY <1>4, <1>6, <2>1, <3>1
  <2>2. CASE k # list
    BY <1>9, <2>2 DEF GateTypes
  <2>3. QED
    BY <2>1, <2>2
<1>11. QED
  BY <1>7, <1>10

(* A line that changes the open entry, and in no field the gate reads unless *)
(* the history changes the same way.                                         *)
LEMMA FieldMoves ==
    ASSUME GateInv, NEW l \in Lines, Register!Read(l), reading = "front", UNCHANGED reading,
           l.form \notin {"item", "quoted", "listitem"},
           entry, UNCHANGED <<list, entry>>, values' \in Names, NEW e \in Maps, Register!Becomes(e),
           Takes(e, values'), Match(e, written'[Len(written)])
    PROVE  GateInv'
<1> DEFINE n == Len(root[list].entries)
           m == Len(written)
<1>1. /\ GateTypes /\ written' = Register!Written(l) /\ Counted'
      /\ inFront' \in Nat /\ inFile' \in Nat
  BY CountedKept DEF GateInv, Register!Read
<1>2. /\ list \in DOMAIN root /\ n \in 1 .. n /\ n \in Nat
  BY <1>1, OpenEntry
<1>3. /\ DOMAIN root' = DOMAIN root
      /\ \A k \in DOMAIN root :
            /\ root'[k] \in [scalar : Values, entries : Seq(Maps)]
            /\ Len(root'[k].entries) = Len(root[k].entries)
            /\ \A j \in 1 .. Len(root[k].entries) :
                  root'[k].entries[j] = IF k = list /\ j = n THEN e ELSE root[k].entries[j]
  BY <1>1, EntryBecomes
<1>4. /\ written' \in Seq(WrittenEntries) /\ Len(written') = m /\ m \in Nat
      /\ \A i \in 1 .. m :
            /\ written'[i].under = written[i].under
            /\ written'[i].front = written[i].front
            /\ \A g : Agree(g, written[i]) => Agree(g, written'[i])
  <2>1. written \in Seq(WrittenEntries) /\ m \in Nat
    BY <1>1, LenProperties DEF GateTypes
  <2>2. /\ written' \in Seq(WrittenEntries)
        /\ Len(written') = m + IF l.form \in {"item", "quoted", "listitem"} THEN 1 ELSE 0
        /\ \A i \in 1 .. m :
              /\ written'[i].under = written[i].under
              /\ written'[i].front = written[i].front
              /\ \A g : Agree(g, written[i]) => Agree(g, written'[i])
    BY <1>1, WrittenGrows
  <2>3. Len(written') = m
    BY <2>1, <2>2
  <2>4. QED
    BY <2>1, <2>2, <2>3, Zenon
<1>5. /\ written # <<>> /\ m \in 1 .. m
      /\ written[m].front /\ written[m].under = list
  <2>1. written # <<>> /\ written[m].front /\ written[m].under = list
    BY DEF GateInv, Open
  <2>2. m # 0
    BY <1>1, <2>1, EmptySeq DEF GateTypes
  <2>3. m \in 1 .. m
    BY <1>4, <2>2
  <2>4. QED
    BY <2>1, <2>3, Zenon
<1>6. Len(root'[list].entries) = n /\ root'[list].entries[n] = e
  BY <1>2, <1>3
<1>7. (Register!Current)' = e
  BY <1>6 DEF Register!Current
<1>8. GateTypes'
  <2>1. root'[list'].entries # <<>>
    <3>1. Len(root'[list].entries) # 0
      BY <1>2, <1>6
    <3>2. QED
      BY <3>1
  <2>2. QED
    BY <1>1, <1>2, <1>3, <1>4, <1>7, <2>1 DEF GateTypes
<1>9. Open'
  <2>1. written' # <<>>
    <3>1. Len(written') # 0
      BY <1>4, <1>5
    <3>2. QED
      BY <3>1
  <2>2. written'[m].front /\ written'[m].under = list
    BY <1>4, <1>5
  <2>3. QED
    BY <1>4, <1>7, <2>1, <2>2 DEF Open
<1>10. ASSUME NEW i \in 1 .. m, written'[i].front
       PROVE  /\ written'[i].under \in DOMAIN root'
              /\ \E j \in 1 .. Len(root'[written'[i].under].entries) :
                    /\ Agree(root'[written'[i].under].entries[j], written'[i])
                    /\ written'[i].under = list /\ j = n => i = m
  <2>1. CASE i = m
    <3>1. written'[m].under = list /\ Agree(e, written'[m])
      BY <1>4, <1>5 DEF Match
    <3>2. list \in DOMAIN root' /\ n \in 1 .. Len(root'[list].entries)
      BY <1>2, <1>3, <1>6
    <3>3. QED
      BY <1>6, <2>1, <3>1, <3>2
  <2>2. CASE i # m
    <3> DEFINE k == written[i].under
    <3>1. /\ k \in DOMAIN root
          /\ \E j \in 1 .. Len(root[k].entries) :
                Agree(root[k].entries[j], written[i]) /\ ~(k = list /\ j = n)
      BY <1>4, <1>10, <2>2 DEF GateInv, Paired, Growing
    <3>2. PICK j \in 1 .. Len(root[k].entries) :
             Agree(root[k].entries[j], written[i]) /\ ~(k = list /\ j = n)
      BY <3>1
    <3>3. /\ k \in DOMAIN root' /\ j \in 1 .. Len(root'[k].entries)
          /\ root'[k].entries[j] = root[k].entries[j]
      BY <1>3, <3>1, <3>2
    <3>4. Agree(root'[k].entries[j], written'[i]) /\ written'[i].under = k
      BY <1>4, <3>2, <3>3
    <3>5. QED
      BY <3>2, <3>3, <3>4
  <2>3. QED
    BY <2>1, <2>2
<1>11. Paired'
  BY <1>4, <1>6, <1>10 DEF Paired, Growing
<1>12. QED
  BY <1>1, <1>8, <1>9, <1>11 DEF GateInv

(* A line that begins a top-level key or an entry: no entry changes, and     *)
(* those before it do not grow.                                              *)
LEMMA Begins ==
    ASSUME GateInv, NEW l \in Lines, Register!Read(l), reading = "front", UNCHANGED reading,
           GateTypes', Open', l.form \in {"item", "quoted", "listitem"} => entry',
           \A k \in DOMAIN root :
              /\ k \in DOMAIN root'
              /\ \A j \in 1 .. Len(root[k].entries) :
                    /\ j \in 1 .. Len(root'[k].entries)
                    /\ root'[k].entries[j] = root[k].entries[j]
                    /\ ~(entry' /\ k = list' /\ j = Len(root'[list'].entries))
    PROVE  GateInv'
<1> DEFINE m == Len(written)
<1>1. /\ GateTypes /\ written' = Register!Written(l) /\ Counted'
  BY CountedKept DEF GateInv, Register!Read
<1>2. /\ m \in Nat /\ Len(written') = m + IF l.form \in {"item", "quoted", "listitem"} THEN 1 ELSE 0
      /\ \A i \in 1 .. m :
            /\ written'[i].under = written[i].under
            /\ written'[i].front = written[i].front
            /\ \A g : Agree(g, written[i]) => Agree(g, written'[i])
  <2>1. written \in Seq(WrittenEntries) /\ m \in Nat
    BY <1>1, LenProperties DEF GateTypes
  <2>2. QED
    BY <1>1, <2>1, WrittenGrows
<1> DEFINE Sees(w, i) ==
              /\ w.under \in DOMAIN root'
              /\ \E j \in 1 .. Len(root'[w.under].entries) :
                    /\ Agree(root'[w.under].entries[j], w)
                    /\ entry' /\ w.under = list' /\ j = Len(root'[list'].entries)
                          => i = Len(written')
<1>3. ASSUME NEW i \in 1 .. m, written'[i].front
      PROVE  Sees(written'[i], i)
  <2> DEFINE k == written[i].under
  <2>1. /\ k \in DOMAIN root
        /\ \E j \in 1 .. Len(root[k].entries) : Agree(root[k].entries[j], written[i])
    BY <1>2, <1>3 DEF GateInv, Paired
  <2>2. PICK j \in 1 .. Len(root[k].entries) : Agree(root[k].entries[j], written[i])
    BY <2>1
  <2>3. /\ k \in DOMAIN root' /\ j \in 1 .. Len(root'[k].entries)
        /\ root'[k].entries[j] = root[k].entries[j]
        /\ ~(entry' /\ k = list' /\ j = Len(root'[list'].entries))
    BY <2>1, <2>2
  <2>4. written'[i].under = k /\ Agree(root'[k].entries[j], written'[i])
    BY <1>2, <2>2, <2>3
  <2>5. QED
    BY <2>3, <2>4
<1>4. ASSUME NEW i \in 1 .. Len(written'), i \notin 1 .. m
      PROVE  Sees(written'[i], i)
  <2>1. i = Len(written') /\ entry'
    BY <1>2, <1>4
  <2>2. written'[i].under = list' /\ Agree((Register!Current)', written'[i])
    BY <2>1 DEF Open, Match
  <2>3. /\ list' \in DOMAIN root'
        /\ Len(root'[list'].entries) \in 1 .. Len(root'[list'].entries)
        /\ (Register!Current)' = root'[list'].entries[Len(root'[list'].entries)]
    <3>1. list' \in DOMAIN root' /\ root'[list'].entries # <<>>
      BY <2>1 DEF GateTypes
    <3>2. root'[list'].entries \in Seq(Maps)
      BY <3>1 DEF GateTypes
    <3>3. Len(root'[list'].entries) \in Nat \ {0}
      BY <3>1, <3>2, EmptySeq
    <3>4. QED
      BY <3>1, <3>3 DEF Register!Current
  <2>4. QED
    BY <2>1, <2>2, <2>3
<1>5. \A i \in 1 .. Len(written') : written'[i].front => Sees(written'[i], i)
  BY <1>3, <1>4
<1>6. Paired'
  BY <1>5 DEF Paired, Growing
<1>7. QED
  BY <1>1, <1>6 DEF GateInv

LEMMA ATopLevelKey ==
    ASSUME GateInv, NEW l \in Lines, Register!Read(l), reading = "front",
           l.form \in {"key", "scalar"}, Register!TopLevel(l)
    PROVE  GateInv'
<1>1. CASE l.key \in DOMAIN root
  <2>1. Register!Fails
    BY <1>1 DEF Register!TopLevel
  <2>2. reading' = "failed" /\ UNCHANGED <<root, list, entry, values>>
    BY <2>1 DEF Register!Fails
  <2>3. QED
    BY <2>2, ParserStays
<1>2. CASE l.key \notin DOMAIN root
  <2> DEFINE x == [scalar |-> l.value, entries |-> <<>>]
             r2 == Register!Key(l.key, l.value)
             name == IF l.form = "key" THEN l.key ELSE ""
  <2>1. /\ root' = r2 /\ list' = name /\ entry' = FALSE /\ values' = "" /\ UNCHANGED reading
    BY <1>2 DEF Register!TopLevel, Register!Keeps
  <2>2. /\ GateTypes /\ l.key \in Names /\ l.value \in Values /\ "" \in Names
    BY DEF GateInv, Lines, Names
  <2>3. x \in [scalar : Values, entries : Seq(Maps)]
    BY <2>2, EmptySeq
  <2>4. r2 = [k \in DOMAIN root \cup {l.key} |-> IF k = l.key THEN x ELSE root[k]]
    BY DEF Register!Key
  <2> HIDE DEF x, r2
  <2>5. /\ DOMAIN r2 = DOMAIN root \cup {l.key} /\ r2[l.key] = x
        /\ \A k \in DOMAIN root : r2[k] = root[k]
    BY <1>2, <2>4
  <2>6. DOMAIN r2 \subseteq Names /\ \A k \in DOMAIN r2 : r2[k] \in [scalar : Values, entries : Seq(Maps)]
    BY <2>2, <2>3, <2>5 DEF GateTypes
  <2>7. name \in Names /\ (name # "" => name \in DOMAIN r2)
    BY <2>2, <2>5
  <2> HIDE DEF name
  <2>8. written' \in Seq(WrittenEntries) /\ inFront' \in Nat /\ inFile' \in Nat
    BY <2>2, WrittenGrows, CountedKept DEF Register!Read
  <2>9. GateTypes'
    BY <2>1, <2>2, <2>6, <2>7, <2>8 DEF GateTypes
  <2>10. Open'
    BY <2>1 DEF Open
  <2>11. ASSUME NEW k \in DOMAIN root
         PROVE  /\ k \in DOMAIN root'
                /\ \A j \in 1 .. Len(root[k].entries) :
                      /\ j \in 1 .. Len(root'[k].entries)
                      /\ root'[k].entries[j] = root[k].entries[j]
                      /\ ~(entry' /\ k = list' /\ j = Len(root'[list'].entries))
    BY <2>1, <2>5
  <2>12. l.form \notin {"item", "quoted", "listitem"}
    OBVIOUS
  <2>13. QED
    BY <2>1, <2>9, <2>10, <2>11, <2>12, Begins
<1>3. QED
  BY <1>1, <1>2

LEMMA AListItem ==
    ASSUME GateInv, NEW l \in Lines, Register!Read(l), reading = "front",
           l.form \in {"item", "quoted", "listitem"}, Register!ListItem(l)
    PROVE  GateInv'
<1>1. CASE list = ""
  <2>1. Register!Fails
    BY <1>1 DEF Register!ListItem
  <2>2. reading' = "failed" /\ UNCHANGED <<root, list, entry, values>>
    BY <2>1 DEF Register!Fails
  <2>3. QED
    BY <2>2, ParserStays
<1>2. CASE list # ""
  <2> DEFINE e == [k \in {l.key} |-> l.value]
             es == root[list].entries
             es2 == Append(es, e)
             r2 == [root[list] EXCEPT !.entries = es2]
             m == Len(written)
  <2>1. /\ GateTypes /\ l.key \in Names /\ l.value \in Values /\ "" \in Names
        /\ list \in DOMAIN root /\ list \in Names
        /\ l.form = "listitem" => l.key \notin Kept
    BY <1>2 DEF GateInv, GateTypes, Lines, Names
  <2>2. /\ root' = [root EXCEPT ![list].entries = Append(@, e)]
        /\ entry' = TRUE /\ list' = list /\ UNCHANGED reading
        /\ values' = IF l.form = "listitem" THEN l.key ELSE ""
    BY <1>2 DEF Register!ListItem, Register!Keeps
  <2>3. root' = [root EXCEPT ![list] = r2]
    BY <2>2
  <2>4. root[list] \in [scalar : Values, entries : Seq(Maps)]
    BY <2>1 DEF GateTypes
  <2>5. e \in Maps /\ DOMAIN e = {l.key}
    BY <2>1, FirstIsMap
  <2> HIDE DEF e
  <2>6. es \in Seq(Maps) /\ Len(es) \in Nat
    BY <2>4, LenProperties
  <2>7. /\ es2 \in Seq(Maps) /\ Len(es2) = Len(es) + 1 /\ es2[Len(es) + 1] = e
        /\ \A j \in 1 .. Len(es) : es2[j] = es[j]
    <3> HIDE DEF es
    <3>1. QED
      BY <2>5, <2>6, AppendProperties
  <2>8. r2 \in [scalar : Values, entries : Seq(Maps)] /\ r2.entries = es2
    <3> HIDE DEF es2
    <3>1. QED
      BY <2>4, <2>7
  <2> HIDE DEF r2, es2
  <2>9. /\ DOMAIN root' = DOMAIN root /\ root'[list] = r2
    BY <2>1, <2>3
  <2>10. ASSUME NEW k \in DOMAIN root, k # list
         PROVE  root'[k] = root[k]
    BY <2>3, <2>10
  <2>11. root'[list'].entries = es2 /\ root'[list'].entries # <<>>
    <3>1. root'[list'].entries = es2
      BY <2>2, <2>8, <2>9
    <3>2. Len(es2) # 0
      BY <2>6, <2>7
    <3>3. QED
      BY <3>1, <3>2, EmptySeq
  <2>12. (Register!Current)' = e
    BY <2>6, <2>7, <2>11 DEF Register!Current
  <2>13. \A k \in DOMAIN root' : root'[k] \in [scalar : Values, entries : Seq(Maps)]
    BY <2>1, <2>8, <2>9, <2>10 DEF GateTypes
  <2>14. written' \in Seq(WrittenEntries) /\ inFront' \in Nat /\ inFile' \in Nat
    BY <2>1, WrittenGrows, CountedKept DEF Register!Read
  <2>15. GateTypes'
    <3>1. values' \in Names /\ Takes(e, values')
      BY <2>1, <2>2, <2>5 DEF Takes
    <3>2. QED
      BY <1>2, <2>1, <2>2, <2>9, <2>11, <2>12, <2>13, <2>14, <3>1 DEF GateTypes
  <2>16. Open'
    <3>1. /\ m \in Nat /\ Len(written') = m + 1
          /\ written'[m + 1].fields = e /\ written'[m + 1].under = list
          /\ written'[m + 1].front = (reading = "front")
      <4>1. written' = Register!Written(l) /\ m \in Nat
        BY <2>1, LenProperties DEF Register!Read, GateTypes
      <4>2. QED
        BY <2>1, <4>1, WrittenGrows DEF e
    <3>2. written' # <<>>
      <4>1. Len(written') # 0
        BY <3>1
      <4>2. QED
        BY <2>14, <4>1, EmptySeq
    <3>3. Match(e, written'[m + 1])
      BY <2>5, <3>1 DEF Match, Agree, Kept
    <3>4. QED
      BY <2>2, <2>12, <3>1, <3>2, <3>3 DEF Open
  <2>17. ASSUME NEW k \in DOMAIN root
         PROVE  /\ k \in DOMAIN root'
                /\ \A j \in 1 .. Len(root[k].entries) :
                      /\ j \in 1 .. Len(root'[k].entries)
                      /\ root'[k].entries[j] = root[k].entries[j]
                      /\ ~(entry' /\ k = list' /\ j = Len(root'[list'].entries))
    <3>1. CASE k = list
      <4>1. root[k].entries = es /\ root'[k].entries = es2 /\ k \in DOMAIN root'
        BY <2>2, <2>9, <2>11, <3>1
      <4> HIDE DEF es
      <4>2. \A j \in 1 .. Len(es) :
               j \in 1 .. Len(es2) /\ es2[j] = es[j] /\ j # Len(es2)
        BY <2>6, <2>7
      <4>3. QED
        BY <2>11, <4>1, <4>2
    <3>2. CASE k # list
      BY <2>2, <2>9, <2>10, <3>2
    <3>3. QED
      BY <3>1, <3>2
  <2>18. QED
    BY <2>2, <2>15, <2>16, <2>17, Begins
<1>3. QED
  BY <1>1, <1>2

(* A field line: the author wrote it below the same entry.                   *)
LEMMA AnEntryField ==
    ASSUME GateInv, NEW l \in Lines, Register!Read(l), reading = "front",
           l.form \in {"field", "list"}, Register!EntryField(l)
    PROVE  GateInv'
<1>1. CASE ~entry \/ l.key \in DOMAIN Register!Current
  <2>1. Register!Fails
    BY <1>1 DEF Register!EntryField
  <2>2. reading' = "failed" /\ UNCHANGED <<root, list, entry, values>>
    BY <2>1 DEF Register!Fails
  <2>3. QED
    BY <2>2, ParserStays
<1>2. CASE entry /\ l.key \notin DOMAIN Register!Current
  <2> DEFINE c == Register!Current
             e == Register!With(c, l.key, l.value)
             m == Len(written)
  <2>1. /\ GateTypes /\ l.key \in Names /\ l.value \in Values /\ "" \in Names
        /\ l.form = "list" => l.key \notin Kept
    BY DEF GateInv, Lines, Names
  <2>2. c \in Maps
    BY <1>2, <2>1, OpenEntry
  <2>3. /\ Register!Becomes(e)
        /\ values' = IF l.form = "list" THEN l.key ELSE ""
        /\ UNCHANGED <<list, entry>> /\ UNCHANGED reading
    BY <1>2 DEF Register!EntryField, Register!Keeps
  <2> HIDE DEF c, e
  <2>4. /\ e \in Maps /\ DOMAIN e = DOMAIN c \cup {l.key} /\ e[l.key] = l.value
        /\ \A k \in DOMAIN c : e[k] = c[k]
    <3>1. l.key \notin DOMAIN c
      BY <1>2 DEF c
    <3>2. Gains(e, c, l.key, l.value)
      BY <2>1, <2>2, WithGains DEF e
    <3>3. QED
      BY <3>1, <3>2 DEF Gains
  <2>5. values' \in Names /\ Takes(e, values')
    BY <2>1, <2>3, <2>4 DEF Takes
  <2>6. /\ written # <<>> /\ m \in Nat /\ m \in 1 .. m
        /\ written[m] \in WrittenEntries /\ Match(c, written[m])
    <3>1. written # <<>> /\ Match(c, written[m])
      BY <1>2 DEF GateInv, Open, c
    <3>2. written \in Seq(WrittenEntries)
      BY <2>1 DEF GateTypes
    <3>3. m \in Nat \ {0}
      BY <3>1, <3>2, EmptySeq
    <3>4. m \in 1 .. m
      BY <3>3
    <3>5. written[m] \in WrittenEntries
      BY <3>2, <3>4, ElementOfSeq
    <3>6. QED
      BY <3>1, <3>3, <3>4, <3>5
  <2>7. Match(e, written'[m])
    <3> DEFINE g == written[m].fields
    <3>1. written' = Register!Written(l)
      BY DEF Register!Read
    <3>2. g \in Maps
      BY <2>6 DEF WrittenEntries
    <3>3. CASE l.form = "list"
      <4>1. written'[m] = written[m]
        BY <2>1, <2>6, <3>1, <3>3, WrittenGrows
      <4>2. l.key \notin Kept
        BY <2>1, <3>3
      <4>3. QED
        BY <2>4, <2>6, <4>1, <4>2 DEF Match, Agree
    <3>4. CASE l.form = "field"
      <4>1. written'[m].fields = IF l.key \in DOMAIN g THEN g
                                 ELSE Register!With(g, l.key, l.value)
        BY <2>1, <2>6, <3>1, <3>4, WrittenGrows
      <4>2. CASE l.key \in DOMAIN g
        <5>1. l.key \notin Kept
          BY <1>2, <2>6, <4>2 DEF Match, c
        <5>2. QED
          BY <2>4, <2>6, <4>1, <4>2, <5>1 DEF Match, Agree
      <4>3. CASE l.key \notin DOMAIN g
        <5> DEFINE h == Register!With(g, l.key, l.value)
        <5>1. /\ DOMAIN h = DOMAIN g \cup {l.key} /\ h[l.key] = l.value
              /\ \A k \in DOMAIN g : h[k] = g[k]
          <6> HIDE DEF g, h
          <6>1. Gains(h, g, l.key, l.value)
            BY <2>1, <3>2, WithGains DEF h
          <6>2. QED
            BY <4>3, <6>1 DEF Gains
        <5>2. written'[m].fields = h
          BY <4>1, <4>3
        <5> HIDE DEF h
        <5>3. QED
          BY <2>4, <2>6, <5>1, <5>2 DEF Match, Agree
      <4>4. QED
        BY <4>2, <4>3
    <3>5. QED
      BY <3>3, <3>4
  <2>8. l.form \notin {"item", "quoted", "listitem"}
    OBVIOUS
  <2>9. QED
    BY <1>2, <2>3, <2>4, <2>5, <2>7, <2>8, FieldMoves
<1>3. QED
  BY <1>1, <1>2

(* A value of a list: no field the gate reads.                               *)
LEMMA AFieldValue ==
    ASSUME GateInv, NEW l \in Lines, Register!Read(l), reading = "front",
           l.form = "value", Register!FieldValue(l)
    PROVE  GateInv'
<1>1. CASE values = ""
  <2>1. Register!Fails
    BY <1>1 DEF Register!FieldValue
  <2>2. reading' = "failed" /\ UNCHANGED <<root, list, entry, values>>
    BY <2>1 DEF Register!Fails
  <2>3. QED
    BY <2>2, ParserStays
<1>2. CASE values # ""
  <2> DEFINE c == Register!Current
             v == IF c[values] = -1 \/ l.value = 0 THEN -1 ELSE c[values] + 1
             e == Register!With(c, values, v)
             m == Len(written)
  <2>1. /\ GateTypes /\ entry /\ values \in Names /\ values \notin Kept
        /\ values \in DOMAIN c
    BY <1>2 DEF GateInv, GateTypes, Takes
  <2>2. c \in Maps
    BY <2>1, OpenEntry
  <2>3. /\ Register!Becomes(e)
        /\ UNCHANGED <<list, entry, values>> /\ UNCHANGED reading
    BY <1>2 DEF Register!FieldValue, Register!Keeps
  <2> HIDE DEF c
  <2>4. v \in Values
    <3>1. c[values] \in Values
      BY <2>1, <2>2, MapOpens
    <3>2. QED
      BY <3>1 DEF Values
  <2> HIDE DEF v, e
  <2>5. /\ e \in Maps /\ DOMAIN e = DOMAIN c
        /\ \A k \in DOMAIN c : k # values => e[k] = c[k]
    <3>1. Gains(e, c, values, v)
      BY <2>1, <2>2, <2>4, WithGains DEF e
    <3>2. QED
      BY <2>1, <3>1 DEF Gains
  <2>6. values' \in Names /\ Takes(e, values')
    BY <2>1, <2>3, <2>5 DEF Takes
  <2>7. /\ m \in 1 .. m /\ Match(c, written[m])
    <3>1. written # <<>> /\ Match(c, written[m])
      BY <2>1 DEF GateInv, Open, c
    <3>2. m \in Nat \ {0}
      BY <2>1, <3>1, EmptySeq DEF GateTypes
    <3>3. QED
      BY <3>1, <3>2
  <2>8. written'[m] = written[m]
    BY <2>1, <2>7, WrittenGrows DEF Register!Read
  <2>9. Match(e, written'[m])
    BY <2>1, <2>5, <2>7, <2>8 DEF Match, Agree
  <2>10. l.form \notin {"item", "quoted", "listitem"}
    OBVIOUS
  <2>11. QED
    BY <2>1, <2>3, <2>5, <2>6, <2>9, <2>10, FieldMoves
<1>3. QED
  BY <1>1, <1>2

LEMMA ReadKeeps ==
    ASSUME GateInv, reading # "failed", NEW l \in Lines, Register!Read(l)
    PROVE  GateInv'
<1>1. Register!ExtractFrontmatter(l)
  BY DEF Register!Read
<1>2. CASE reading = "front" /\ l.form # "fence"
  <2>1. Register!Parse(l)
    BY <1>1, <1>2 DEF Register!ExtractFrontmatter
  <2>2. CASE l.form \in {"key", "scalar"}
    BY <1>2, <2>1, <2>2, ATopLevelKey DEF Register!Parse, Register!Starts
  <2>3. CASE l.form \in {"item", "quoted", "listitem"}
    BY <1>2, <2>1, <2>3, AListItem DEF Register!Parse, Register!Starts
  <2>4. CASE l.form \in {"field", "list"}
    BY <1>2, <2>1, <2>4, AnEntryField DEF Register!Parse, Register!Starts
  <2>5. CASE l.form = "value"
    BY <1>2, <2>1, <2>5, AFieldValue DEF Register!Parse, Register!Starts
  <2>6. CASE l.form \notin {"key", "scalar", "item", "quoted", "listitem", "field", "list", "value"}
    <3>1. Register!Fails
      BY <2>1, <2>6 DEF Register!Parse, Register!Starts
    <3>2. reading' = "failed" /\ UNCHANGED <<root, list, entry, values>>
      BY <3>1 DEF Register!Fails
    <3>3. QED
      BY <3>2, ParserStays
  <2>7. QED
    BY <2>2, <2>3, <2>4, <2>5, <2>6
<1>3. CASE reading = "front" /\ l.form = "fence"
  <2>1. reading' = "body" /\ UNCHANGED <<root, list, entry, values>>
    BY <1>1, <1>3 DEF Register!ExtractFrontmatter
  <2>2. QED
    BY <1>3, <2>1, ParserStays
<1>4. CASE reading = "opening" /\ l.form = "fence"
  <2>1. reading' = "front" /\ UNCHANGED <<root, list, entry, values>>
    BY <1>1, <1>4 DEF Register!ExtractFrontmatter
  <2>2. QED
    BY <1>4, <2>1, ParserStays
<1>5. CASE reading = "opening" /\ l.form # "fence"
  <2>1. reading' = "failed" /\ UNCHANGED <<root, list, entry, values>>
    BY <1>1, <1>5 DEF Register!ExtractFrontmatter, Register!Fails
  <2>2. QED
    BY <1>5, <2>1, ParserStays
<1>6. CASE reading \notin {"opening", "front"}
  <2>1. UNCHANGED <<reading, root, list, entry, values>>
    BY <1>1, <1>6 DEF Register!ExtractFrontmatter
  <2>2. QED
    BY <1>6, <2>1, ParserStays
<1>7. QED
  BY <1>2, <1>3, <1>4, <1>5, <1>6

RegisterInv == GateInv /\ pos \in Nat \ {0} /\ today \in Int

LEMMA GateStays ==
    ASSUME GateInv, UNCHANGED <<root, list, entry, values, inFront, inFile, written>>,
           reading' # reading => reading # "failed" /\ reading' \in {"done", "failed"}
    PROVE  GateInv'
<1>1. GateTypes'
  BY DEF GateInv, GateTypes, Register!Current
<1>2. Open'
  BY DEF GateInv, Open, Register!Current
<1>3. Paired'
  <2>1. CASE reading' = "failed"
    BY <2>1 DEF Paired
  <2>2. CASE reading' # "failed"
    BY <2>2 DEF GateInv, Paired, Growing
  <2>3. QED
    BY <2>1, <2>2
<1>4. Counted'
  BY DEF GateInv, Counted
<1>5. QED
  BY <1>1, <1>2, <1>3, <1>4 DEF GateInv

LEMMA RegisterStarts == Register!Init => RegisterInv
<1> SUFFICES ASSUME Register!Init
             PROVE  RegisterInv
  OBVIOUS
<1>1. root = <<>> /\ written = <<>>
  BY DEF Register!Init
<1>2. list = "" /\ entry = FALSE /\ values = "" /\ reading = "opening"
  BY DEF Register!Init
<1>10. inFront = 0 /\ inFile = 0 /\ pos = 1 /\ today = 1
  BY DEF Register!Init
<1>3. DOMAIN root = {}
  <2>1. <<>> \in Seq(Int) /\ Len(<<>>) = 0
    BY EmptySeq
  <2>2. DOMAIN <<>> = 1 .. 0
    BY <2>1, LenProperties
  <2>3. QED
    BY <1>1, <2>2
<1>4. Len(written) = 0 /\ written \in Seq(WrittenEntries)
  BY <1>1, EmptySeq, Zenon
<1>5. "" \in Names
  BY DEF Names
<1>6. GateTypes
  BY <1>2, <1>3, <1>4, <1>5, <1>10 DEF GateTypes
<1>7. Open /\ Paired /\ Counted
  <2>1. Open
    BY <1>2 DEF Open
  <2>2. 1 .. Len(written) = {}
    BY <1>4
  <2>3. Paired
    BY <2>2 DEF Paired
  <2>4. Counted
    BY <1>10, <2>2 DEF Counted
  <2>5. QED
    BY <2>1, <2>3, <2>4
<1>8. pos \in Nat \ {0} /\ today \in Int
  BY <1>10
<1>9. QED
  BY <1>6, <1>7, <1>8 DEF RegisterInv, GateInv

LEMMA RegisterSteps ==
    ASSUME RegisterInv, [Register!Next]_registerVars
    PROVE  RegisterInv'
<1>1. GateInv /\ pos \in Nat \ {0} /\ today \in Int
  BY DEF RegisterInv
<1>2. CASE reading # "failed" /\ Register!Copy
  <2>1. /\ pos <= Len(Register!Regular) /\ Register!Read(Register!Regular[pos])
        /\ pos' = pos + 1 /\ today' = today
    BY <1>2 DEF Register!Copy
  <2>2. Register!Regular[pos] \in Lines
    <3>1. Register!Regular \in Seq(Lines) /\ Len(Register!Regular) \in Nat
      BY LinesRead, LenProperties
    <3>2. QED
      BY <1>1, <2>1, <3>1, ElementOfSeq
  <2>3. GateInv'
    BY <1>1, <1>2, <2>1, <2>2, ReadKeeps
  <2>4. QED
    BY <1>1, <2>1, <2>3 DEF RegisterInv
<1>3. CASE reading # "failed" /\ Register!Omit
  <2>1. GateInv'
    <3>1. /\ UNCHANGED <<root, list, entry, values, inFront, inFile, written>>
          /\ reading' = reading
      BY <1>3 DEF Register!Omit, Register!parser
    <3>2. QED
      BY <1>1, <3>1, GateStays
  <2>2. pos' = pos + 1 /\ today' = today
    BY <1>3 DEF Register!Omit, Register!Slip
  <2>3. QED
    BY <1>1, <2>1, <2>2 DEF RegisterInv
<1>4. ASSUME NEW l \in Register!Strays, Register!Insert(l)
      PROVE  RegisterInv'
  <2>1. reading # "failed" /\ Register!Read(l) /\ pos' = pos /\ today' = today
    BY <1>4 DEF Register!Insert, Register!Slip
  <2>2. GateInv'
    BY <1>1, <2>1, LinesRead, ReadKeeps
  <2>3. QED
    BY <1>1, <2>1, <2>2 DEF RegisterInv
<1>5. CASE Register!EndOfFile
  <2>1. GateInv'
    BY <1>1, <1>5, GateStays DEF Register!EndOfFile
  <2>2. QED
    BY <1>1, <1>5, <2>1 DEF RegisterInv, Register!EndOfFile
<1>6. CASE Register!NextDay
  <2>1. GateInv'
    BY <1>1, <1>6, GateStays DEF Register!NextDay, Register!parser
  <2>2. QED
    BY <1>1, <1>6, <2>1 DEF RegisterInv, Register!NextDay
<1>7. CASE UNCHANGED registerVars
  <2>1. GateInv'
    <3>1. /\ UNCHANGED <<root, list, entry, values, inFront, inFile, written>>
          /\ reading' = reading
      BY <1>7 DEF registerVars
    <3>2. QED
      BY <1>1, <3>1, GateStays
  <2>2. QED
    BY <1>1, <1>7, <2>1 DEF RegisterInv, registerVars
<1>8. QED
  BY <1>2, <1>3, <1>4, <1>5, <1>6, <1>7 DEF Register!Next

LEMMA GreenIsCurrent == RegisterInv => Register!NothingExpiredPasses
<1> SUFFICES ASSUME RegisterInv, Register!Green, NEW i \in DOMAIN written,
                    Register!RunOut(written[i])
             PROVE  \/ written[i].front /\ written[i].under # "register"
                    \/ ~written[i].front /\ ~written[i].plain
  BY DEF Register!NothingExpiredPasses
<1>1. GateTypes /\ Paired /\ Counted /\ today \in Int
  BY DEF RegisterInv, GateInv
<1>2. i \in 1 .. Len(written) /\ written[i] \in WrittenEntries
  <2>1. written \in Seq(WrittenEntries)
    BY <1>1 DEF GateTypes
  <2>2. i \in 1 .. Len(written)
    BY <2>1, LenProperties
  <2>3. QED
    BY <2>1, <2>2, ElementOfSeq
<1>3. reading = "done" /\ inFile = inFront /\ Register!Validates
  BY DEF Register!Green
<1>4. CASE written[i].front /\ written[i].under = "register"
  <2> DEFINE es == root["register"].entries
             w == written[i]
  <2>1. \E j \in 1 .. Len(es) : Agree(es[j], w)
    BY <1>1, <1>2, <1>3, <1>4 DEF Paired
  <2>2. PICK j \in 1 .. Len(es) : Agree(es[j], w)
    BY <2>1
  <2>3. "register" \in DOMAIN root
    BY <1>3 DEF Register!Validates
  <2>4. es \in Seq(Maps)
    BY <1>1, <2>3 DEF GateTypes
  <2>5. j \in DOMAIN es /\ es[j] \in Maps
    BY <2>2, <2>4, LenProperties, ElementOfSeq
  <2>6. Register!EntryHolds(es[j])
    BY <1>3, <2>5 DEF Register!Validates
  <2> DEFINE e == es[j]
  <2> HIDE DEF es, e
  <2>7. /\ DOMAIN e = Register!RequiredFields
        /\ e["status"] = Register!Accepted => ~Register!Expired(e)
    BY <2>6 DEF Register!EntryHolds, Register!DatesHold, e
  <2>8. "status" \in DOMAIN e /\ "expires_on" \in DOMAIN e
    BY <2>7 DEF Register!RequiredFields
  <2>9. w.fields["status"] = e["status"] /\ w.fields["expires_on"] = e["expires_on"]
    BY <2>2, <2>8 DEF Agree, Kept, e
  <2>10. w.fields["status"] = Register!Accepted /\ w.fields["expires_on"] < today
    BY DEF Register!RunOut, Register!Expired
  <2>11. ~(e["expires_on"] < today)
    BY <2>7, <2>9, <2>10 DEF Register!Expired
  <2>12. QED
    BY <2>9, <2>10, <2>11
<1>5. CASE ~written[i].front /\ written[i].plain
  <2>1. inFront < inFile /\ inFront \in Nat /\ inFile \in Nat
    BY <1>1, <1>2, <1>5 DEF Counted, GateTypes
  <2>2. QED
    BY <1>3, <2>1
<1>6. QED
  BY <1>2, <1>4, <1>5 DEF WrittenEntries

(* However often the author slips, and on whatever day the gate runs, it is *)
(* not green while an accepted risk that he wrote in the list of the        *)
(* register, or outside the front matter with a plain id first, has run out *)
(* (check-accepted-risks.mjs): a field that the parser passes over, or puts  *)
(* into another entry than the author did, makes it fail.                    *)
THEOREM NoExpiredRiskPasses ==
    /\ Register!Spec => []Register!NothingExpiredPasses
    /\ MCSpec => []NothingExpiredPasses
<1>1. Register!Spec => []RegisterInv
  <2>1. RegisterInv /\ [Register!Next]_(Register!vars) => RegisterInv'
    <3>1. ASSUME RegisterInv, UNCHANGED Register!vars
          PROVE  RegisterInv'
      <4>1. UNCHANGED registerVars
        BY <3>1 DEF registerVars, Register!vars, Register!parser
      <4>2. QED
        BY <3>1, <4>1, RegisterSteps
    <3>2. QED
      BY <3>1, RegisterSteps
  <2>2. QED
    BY <2>1, RegisterStarts, PTL DEF Register!Spec
<1>2. MCSpec => []RegisterInv
  <2>1. MCInit => RegisterInv
    BY RegisterStarts DEF MCInit
  <2>2. RegisterInv /\ [MCNext]_<<part, vars, drillVars, registerVars>> => RegisterInv'
    <3>1. ASSUME RegisterInv, MCNext
          PROVE  RegisterInv'
      <4>1. Register!Next \/ UNCHANGED registerVars
        BY <3>1 DEF MCNext
      <4>2. QED
        BY <3>1, <4>1, RegisterSteps
    <3>2. ASSUME RegisterInv, UNCHANGED <<part, vars, drillVars, registerVars>>
          PROVE  RegisterInv'
      BY <3>2, RegisterSteps
    <3>3. QED
      BY <3>1, <3>2
  <2>3. QED
    BY <2>1, <2>2, PTL DEF MCSpec
<1>3. RegisterInv => NothingExpiredPasses
  BY GreenIsCurrent DEF NothingExpiredPasses
<1>4. QED
  BY <1>1, <1>2, <1>3, GreenIsCurrent, PTL
-----------------------------------------------------------------------------
(* The restore drill, for any quota, any number of drills and of refusals,  *)
(* and an operator who takes, deletes and prunes restore points meanwhile.  *)
(* In every phase the branches of the drill hang from each other in one     *)
(* way: the target from its first parent, the restore point from it; after  *)
(* the restore, target, restore point, preserved branch; after the second   *)
(* one the preserved branch of that between the first two.  So only the end *)
(* of the chain can be deleted, and each pass of the clean-up deletes one   *)
(* branch of it or meets a refusal (ScratchGoes, ChainGoes).                *)

OwnRp == <<run, "rp">>
OwnPreserved == <<run, "preserved">>
OwnPitr == <<run, "pitr">>
OwnScratch == <<run, "scratch">>

Branches == Points \cup UNION {Drill!Own(r) : r \in 1 .. Drills}

TreeTypes ==
    /\ Target \in DOMAIN tree
    /\ \A x \in DOMAIN tree :
          /\ tree[x] = [parent |-> tree[x].parent, content |-> tree[x].content]
          /\ tree[x].parent \in DOMAIN tree \cup {NoBranch}

(* No branch has the name of one of a drill to come.                        *)
RunTypes ==
    /\ run \in Nat /\ run <= Drills /\ (pc # "idle" => run > 0)
    /\ \A r \in 1 .. Drills : run < r => Drill!Own(r) \cap DOMAIN tree = {}
    /\ run > 0 /\ alone => original \notin Drill!Own(run) \cup {Target, NoBranch}

ListTypes ==
    /\ created \in Seq(Drill!Own(run))
    /\ work \in [todo : Seq(Drill!Own(run)), left : Seq(Drill!Own(run))]
    /\ made \in Seq(Branches) /\ doomed \in Seq(Branches)
    /\ mishaps \in Nat /\ passes \in Int

Tracked == Drill!Own(run) \cap DOMAIN tree \subseteq Drill!ToSet(created)

Listed ==
    Drill!Own(run) \cap DOMAIN tree
        \subseteq Drill!ToSet(work.todo) \cup Drill!ToSet(work.left)

Unmoved == tree[Target].parent = original

Started ==
    /\ Unmoved
    /\ OwnRp \in DOMAIN tree => tree[OwnRp].parent = Target
    /\ \A x \in DOMAIN tree :
          /\ tree[x].parent \notin Drill!Own(run)
          /\ tree[x].parent = Target => x = OwnRp

Restored ==
    /\ tree[Target].parent = OwnRp
    /\ OwnRp \in DOMAIN tree /\ tree[OwnRp].parent = OwnPreserved
    /\ OwnPreserved \in DOMAIN tree /\ tree[OwnPreserved].parent = original
    /\ \A x \in DOMAIN tree :
          /\ tree[x].parent \notin {Target, OwnPitr, OwnScratch}
          /\ tree[x].parent = OwnRp => x = Target
          /\ tree[x].parent = OwnPreserved => x = OwnRp

Moved ==
    /\ tree[Target].parent = OwnPitr
    /\ OwnPitr \in DOMAIN tree /\ tree[OwnPitr].parent = OwnRp
    /\ OwnRp \in DOMAIN tree /\ tree[OwnRp].parent = OwnPreserved
    /\ OwnPreserved \in DOMAIN tree /\ tree[OwnPreserved].parent = original
    /\ \A x \in DOMAIN tree :
          /\ tree[x].parent # OwnScratch
          /\ tree[x].parent = Target => x = OwnScratch
          /\ tree[x].parent = OwnPitr => x = Target
          /\ tree[x].parent = OwnRp => x = OwnPitr
          /\ tree[x].parent = OwnPreserved => x = OwnRp

PutBack ==
    /\ Unmoved
    /\ OwnScratch \notin DOMAIN tree
    /\ OwnPitr \in DOMAIN tree => tree[OwnPitr].parent = OwnRp
    /\ OwnRp \in DOMAIN tree => tree[OwnRp].parent = OwnPreserved
    /\ \A x \in DOMAIN tree :
          /\ tree[x].parent \notin {Target, OwnPitr}
          /\ tree[x].parent = OwnRp => x = OwnPitr
          /\ tree[x].parent = OwnPreserved => x = OwnRp

Tidy == Drill!Own(run) \cap DOMAIN tree = {} /\ Unmoved

(* The scratch branch outlives two passes only with two refusals.           *)
ScratchGoes ==
    /\ passes \in {1, 2}
    /\ OwnScratch \in DOMAIN tree =>
          \/ OwnScratch \in Drill!ToSet(work.todo) /\ passes + mishaps >= 2
          \/ passes + mishaps >= 3

Depth ==
    IF OwnPitr \in DOMAIN tree THEN 3
    ELSE IF OwnRp \in DOMAIN tree THEN 2
    ELSE IF OwnPreserved \in DOMAIN tree THEN 1 ELSE 0

Deepest ==
    IF OwnPitr \in DOMAIN tree THEN OwnPitr
    ELSE IF OwnRp \in DOMAIN tree THEN OwnRp ELSE OwnPreserved

(* What is left of the chain takes no more passes than there are, and this  *)
(* pass still has its end before it or was not needed.                      *)
ChainGoes ==
    Depth # 0 => \/ Deepest \in Drill!ToSet(work.todo) /\ Depth + 2 <= passes + mishaps
                 \/ Depth + 3 <= passes + mishaps

BeforeRestore == {"seed", "capture", "dump", "readback", "erase", "probe", "restore"}
BeforePitr == {"verify", "replay", "pitr"}
BeforeCleanup == {"scratch", "fromdump", "rows"}

Phases ==
    alone =>
      /\ pc \in BeforeRestore => Started /\ Tracked
      /\ pc \in BeforePitr => Restored /\ Tracked
      /\ pc \in BeforeCleanup => Moved /\ Tracked
      /\ mishaps <= 1 =>
            /\ pc = "leaves" => Moved /\ Listed /\ ScratchGoes
            /\ pc = "lineage" =>
                  /\ Moved /\ Tracked /\ OwnScratch \notin DOMAIN tree
                  /\ passes + mishaps >= 3
            /\ pc = "chain" => PutBack /\ Listed /\ ChainGoes
            /\ pc \in {"report", "done"} /\ ~keep => Tidy

DrillInv == TreeTypes /\ RunTypes /\ ListTypes /\ Phases

LEMMA OwnBranches ==
    ASSUME RunTypes, run > 0
    PROVE  /\ Drill!Own(run) = {OwnRp, OwnPreserved, OwnPitr, OwnScratch}
           /\ OwnRp # OwnPreserved /\ OwnRp # OwnPitr /\ OwnRp # OwnScratch
           /\ OwnPreserved # OwnPitr /\ OwnPreserved # OwnScratch /\ OwnPitr # OwnScratch
           /\ Drill!Own(run) \cap (Points \cup {Main, Target, NoBranch}) = {}
           /\ Drill!Own(run) \subseteq Branches
<1>1. run \in 1 .. Drills
  BY DrillAssumption DEF RunTypes
<1>2. Drill!Own(run) = {OwnRp, OwnPreserved, OwnPitr, OwnScratch}
  BY DEF Drill!Own, OwnRp, OwnPreserved, OwnPitr, OwnScratch
<1>3. Drill!Own(run) \cap (Points \cup {Main, Target, NoBranch}) = {}
  BY <1>1, BranchNames
<1>4. Drill!Own(run) \subseteq Branches
  BY <1>1 DEF Branches
<1>5. /\ OwnRp # OwnPreserved /\ OwnRp # OwnPitr /\ OwnRp # OwnScratch
      /\ OwnPreserved # OwnPitr /\ OwnPreserved # OwnScratch /\ OwnPitr # OwnScratch
  BY DEF OwnRp, OwnPreserved, OwnPitr, OwnScratch
<1>6. QED
  BY <1>2, <1>3, <1>4, <1>5

LEMMA TargetIsNone == Target \notin Branches /\ Main \notin Branches
  BY BranchNames DEF Branches

LEMMA OwnStays ==
    ASSUME UNCHANGED run
    PROVE  /\ OwnRp' = OwnRp /\ OwnPreserved' = OwnPreserved
           /\ OwnPitr' = OwnPitr /\ OwnScratch' = OwnScratch
           /\ Drill!Own(run)' = Drill!Own(run)
  BY DEF OwnRp, OwnPreserved, OwnPitr, OwnScratch

(* Sequences as sets.                                                       *)
LEMMA TailSet ==
    ASSUME NEW S, NEW s \in Seq(S), s # <<>>
    PROVE  /\ Head(s) \in S /\ Tail(s) \in Seq(S)
           /\ Drill!ToSet(s) = {Head(s)} \cup Drill!ToSet(Tail(s))
<1>1. /\ Head(s) \in S /\ Tail(s) \in Seq(S) /\ Len(s) \in Nat \ {0}
      /\ Head(s) = s[1] /\ Len(Tail(s)) = Len(s) - 1 /\ DOMAIN s = 1 .. Len(s)
      /\ DOMAIN Tail(s) = 1 .. Len(s) - 1
      /\ \A i \in 1 .. Len(s) - 1 : Tail(s)[i] = s[i + 1]
  BY HeadTailProperties, EmptySeq, LenProperties
<1>2. ASSUME NEW x \in Drill!ToSet(s)
      PROVE  x = Head(s) \/ x \in Drill!ToSet(Tail(s))
  <2>1. PICK i \in 1 .. Len(s) : x = s[i]
    BY <1>1, <1>2 DEF Drill!ToSet
  <2>2. CASE i # 1
    <3>1. i - 1 \in 1 .. Len(s) - 1
      BY <1>1, <2>2
    <3>2. Tail(s)[i - 1] = x
      BY <1>1, <2>1, <3>1
    <3>3. QED
      BY <1>1, <3>1, <3>2 DEF Drill!ToSet
  <2>3. QED
    BY <1>1, <2>1, <2>2
<1>3. ASSUME NEW x \in Drill!ToSet(Tail(s))
      PROVE  x \in Drill!ToSet(s)
  <2>1. PICK i \in 1 .. Len(s) - 1 : x = Tail(s)[i]
    BY <1>1, <1>3 DEF Drill!ToSet
  <2>2. i + 1 \in 1 .. Len(s) /\ x = s[i + 1]
    BY <1>1, <2>1
  <2>3. QED
    BY <1>1, <2>2 DEF Drill!ToSet
<1>4. Head(s) \in Drill!ToSet(s)
  <2>1. 1 \in 1 .. Len(s)
    BY <1>1
  <2>2. QED
    BY <1>1, <2>1 DEF Drill!ToSet
<1>5. QED
  BY <1>1, <1>2, <1>3, <1>4

LEMMA AppendSet ==
    ASSUME NEW S, NEW s \in Seq(S), NEW e \in S
    PROVE  /\ Append(s, e) \in Seq(S)
           /\ Drill!ToSet(Append(s, e)) = Drill!ToSet(s) \cup {e}
<1>1. /\ Append(s, e) \in Seq(S) /\ Len(s) \in Nat
      /\ DOMAIN s = 1 .. Len(s) /\ DOMAIN Append(s, e) = 1 .. Len(s) + 1
      /\ \A i \in 1 .. Len(s) : Append(s, e)[i] = s[i]
      /\ Append(s, e)[Len(s) + 1] = e
  BY AppendProperties, LenProperties
<1>2. Drill!ToSet(Append(s, e)) = {Append(s, e)[i] : i \in 1 .. Len(s) + 1}
  BY <1>1 DEF Drill!ToSet
<1>3. Drill!ToSet(s) = {s[i] : i \in 1 .. Len(s)}
  BY <1>1 DEF Drill!ToSet
<1> DEFINE t == Append(s, e)
<1> HIDE DEF t
<1>4. ASSUME NEW i \in 1 .. Len(s) + 1
      PROVE  t[i] \in Drill!ToSet(s) \cup {e}
  BY <1>1, <1>3 DEF t
<1>5. ASSUME NEW i \in 1 .. Len(s)
      PROVE  i \in 1 .. Len(s) + 1 /\ t[i] = s[i]
  BY <1>1 DEF t
<1>6. Len(s) + 1 \in 1 .. Len(s) + 1 /\ t[Len(s) + 1] = e
  BY <1>1 DEF t
<1>7. Drill!ToSet(t) = {t[i] : i \in 1 .. Len(s) + 1}
  BY <1>2 DEF t
<1>8. Drill!ToSet(t) = Drill!ToSet(s) \cup {e}
  BY <1>3, <1>4, <1>5, <1>6, <1>7
<1>9. QED
  BY <1>1, <1>8 DEF t

LEMMA EmptySet == Drill!ToSet(<<>>) = {}
<1>1. <<>> \in Seq(Int) /\ Len(<<>>) = 0
  BY EmptySeq
<1>2. DOMAIN <<>> = {}
  BY <1>1, LenProperties
<1>3. QED
  BY <1>2 DEF Drill!ToSet

BelowNat == {p \in Nat \X Nat : p[1] < p[2]}

(* A set of naturals that is not empty has a least element.                 *)
LEMMA Least ==
    ASSUME NEW S \in SUBSET Nat, S # {}
    PROVE  \E x \in S : \A y \in S : x <= y
<1>1. OpToRel(<, Nat) = BelowNat
  BY Zenon DEF OpToRel, BelowNat
<1>2. IsWellFoundedOn(BelowNat, Nat)
  BY <1>1, NatLessThanWellFounded, Zenon
<1>3. S \subseteq Nat
  OBVIOUS
<1>4. PICK x \in S : \A y \in S : ~(<<y, x>> \in BelowNat)
  <2> HIDE DEF BelowNat
  <2> QED
    BY <1>2, <1>3, WFMin, Zenon
<1>5. ASSUME NEW y \in S
      PROVE  x <= y
  <2>1. x \in Nat /\ y \in Nat /\ ~(<<y, x>> \in BelowNat)
    BY <1>3, <1>4
  <2>2. QED
    BY <2>1 DEF BelowNat
<1>6. QED
  BY <1>5

(* A list without one of its elements is still a list of them.              *)
LEMMA RemovedIsSeq ==
    ASSUME NEW S, NEW s \in Seq(S), NEW e
    PROVE  Drill!RemoveFirst(s, e) \in Seq(S)
<1>1. CASE ~\E i \in 1 .. Len(s) : s[i] = e
  BY <1>1 DEF Drill!RemoveFirst
<1>2. CASE \E i \in 1 .. Len(s) : s[i] = e
  <2> DEFINE I == {i \in 1 .. Len(s) : s[i] = e}
             n == Drill!Min(I)
  <2>1. I \in SUBSET Nat /\ I # {} /\ Len(s) \in Nat
    BY <1>2, LenProperties
  <2>2. n \in I
    <3> HIDE DEF I
    <3>1. QED
      BY <2>1, Least DEF Drill!Min
  <2>3. n \in 1 .. Len(s)
    BY <2>2
  <2>4. Drill!RemoveFirst(s, e) = SubSeq(s, 1, n - 1) \o SubSeq(s, n + 1, Len(s))
    BY <1>2, <2>1 DEF Drill!RemoveFirst, Drill!RemoveAt, Drill!SelectInSeq
  <2> HIDE DEF n
  <2>5. SubSeq(s, 1, n - 1) \in Seq(S)
    BY <2>1, <2>3, SubSeqProperties
  <2>6. SubSeq(s, n + 1, Len(s)) \in Seq(S)
    BY <2>1, <2>3, SubSeqProperties
  <2>7. QED
    BY <2>4, <2>5, <2>6, ConcatProperties
<1>3. QED
  BY <1>1, <1>2

(* What anybody but the drill does to the tree, and most of what it does:   *)
(* nothing hangs elsewhere afterwards, some restore points were taken of    *)
(* other branches, and some branches without children are gone.             *)
Meddles ==
    /\ DOMAIN tree' \subseteq DOMAIN tree \cup Points
    /\ \A x \in DOMAIN tree' :
          tree'[x] = [parent |-> tree'[x].parent, content |-> tree'[x].content]
    /\ \A x \in DOMAIN tree : x \in DOMAIN tree' => tree'[x].parent = tree[x].parent
    /\ \A x \in DOMAIN tree' : x \notin DOMAIN tree =>
          /\ tree'[x].parent \in DOMAIN tree'
          /\ tree'[x].parent \notin Drill!Own(run) \cup {Target}
    /\ \A x \in DOMAIN tree : x \notin DOMAIN tree' =>
          x # Target /\ \A y \in DOMAIN tree : tree[y].parent # x

LEMMA SameMeddles ==
    ASSUME TreeTypes, UNCHANGED tree
    PROVE  Meddles
  BY DEF TreeTypes, Meddles

LEMMA WriteMeddles ==
    ASSUME TreeTypes, NEW c, Drill!Write(c)
    PROVE  Meddles
<1>1. tree' = [tree EXCEPT ![Target].content = c]
  BY DEF Drill!Write
<1>2. tree' = [tree EXCEPT ![Target] = [tree[Target] EXCEPT !.content = c]]
  BY <1>1
<1>3. [tree[Target] EXCEPT !.content = c] = [parent |-> tree[Target].parent, content |-> c]
  BY DEF TreeTypes
<1>4. /\ DOMAIN tree' = DOMAIN tree
      /\ tree'[Target] = [parent |-> tree[Target].parent, content |-> c]
      /\ \A x \in DOMAIN tree : x # Target => tree'[x] = tree[x]
  BY <1>2, <1>3 DEF TreeTypes
<1>5. \A x \in DOMAIN tree : tree'[x].parent = tree[x].parent
  BY <1>4
<1>6. \A x \in DOMAIN tree' :
          tree'[x] = [parent |-> tree'[x].parent, content |-> tree'[x].content]
  BY <1>4 DEF TreeTypes
<1>7. QED
  BY <1>4, <1>5, <1>6 DEF Meddles

LEMMA DeleteMeddles ==
    ASSUME TreeTypes, NEW b, b # Target, Drill!Deletable(tree, b),
           tree' = Drill!Without(tree, b)
    PROVE  Meddles /\ DOMAIN tree' = DOMAIN tree \ {b}
<1>1. /\ DOMAIN tree' = DOMAIN tree \ {b}
      /\ \A x \in DOMAIN tree' : tree'[x] = tree[x]
  BY DEF Drill!Without
<1>2. b \in DOMAIN tree /\ \A y \in DOMAIN tree : tree[y].parent # b
  BY DEF Drill!Deletable, Drill!Children
<1>3. QED
  BY <1>1, <1>2 DEF Meddles, TreeTypes

LEMMA BranchIs ==
    ASSUME NEW b, NEW of, Drill!CanBranch(tree, b, of), tree' = Drill!Branch(tree, b, of)
    PROVE  /\ b \notin DOMAIN tree /\ of \in DOMAIN tree
           /\ DOMAIN tree' = DOMAIN tree \cup {b}
           /\ tree'[b] = [parent |-> of, content |-> tree[of].content]
           /\ tree'[b].parent = of
           /\ \A x \in DOMAIN tree : tree'[x] = tree[x]
  BY DEF Drill!CanBranch, Drill!Branch

LEMMA PointMeddles ==
    ASSUME TreeTypes, NEW p \in Points, NEW of, Drill!CanBranch(tree, p, of),
           tree' = Drill!Branch(tree, p, of)
    PROVE  /\ TreeTypes' /\ DOMAIN tree' = DOMAIN tree \cup {p}
           /\ of \notin Drill!Own(run) \cup {Target} => Meddles
<1>1. /\ p \notin DOMAIN tree /\ of \in DOMAIN tree
      /\ DOMAIN tree' = DOMAIN tree \cup {p}
      /\ tree'[p] = [parent |-> of, content |-> tree[of].content]
      /\ tree'[p].parent = of
      /\ \A x \in DOMAIN tree : tree'[x] = tree[x]
  BY BranchIs
<1>2. \A x \in DOMAIN tree' :
          tree'[x] = [parent |-> tree'[x].parent, content |-> tree'[x].content]
  BY <1>1 DEF TreeTypes
<1>3. TreeTypes'
  BY <1>1, <1>2 DEF TreeTypes
<1>4. QED
  BY <1>1, <1>2, <1>3 DEF Meddles

LEMMA TreeTypesStay ==
    ASSUME TreeTypes, Meddles
    PROVE  TreeTypes'
<1>1. Target \in DOMAIN tree'
  BY DEF TreeTypes, Meddles
<1>2. ASSUME NEW x \in DOMAIN tree'
      PROVE  tree'[x].parent \in DOMAIN tree' \cup {NoBranch}
  <2>1. CASE x \in DOMAIN tree
    <3>1. tree'[x].parent = tree[x].parent
      BY <1>2, <2>1 DEF Meddles
    <3>2. tree[x].parent \in DOMAIN tree => tree[x].parent \in DOMAIN tree'
      BY <2>1 DEF Meddles
    <3>3. QED
      BY <2>1, <3>1, <3>2 DEF TreeTypes
  <2>2. CASE x \notin DOMAIN tree
    BY <1>2, <2>2 DEF Meddles
  <2>3. QED
    BY <2>1, <2>2
<1>3. QED
  BY <1>1, <1>2 DEF TreeTypes, Meddles

LEMMA RunTypesStay ==
    ASSUME RunTypes, DOMAIN tree' \subseteq DOMAIN tree \cup Points \cup Drill!Own(run),
           UNCHANGED <<run, original>>, alone' => alone, pc = "idle" => pc' = "idle"
    PROVE  RunTypes'
<1>1. ASSUME NEW r \in 1 .. Drills, run < r
      PROVE  Drill!Own(r) \cap DOMAIN tree' = {}
  <2>1. Drill!Own(r) \cap Points = {}
    BY BranchNames
  <2>2. Drill!Own(r) \cap Drill!Own(run) = {}
    BY <1>1 DEF Drill!Own, RunTypes
  <2>3. Drill!Own(r) \cap DOMAIN tree = {}
    BY <1>1 DEF RunTypes
  <2>4. QED
    BY <2>1, <2>2, <2>3
<1>2. QED
  BY <1>1 DEF RunTypes

(* Each way the branches hang survives that.                                *)
LEMMA OwnNames ==
    ASSUME RunTypes, run > 0, NEW x \in Drill!Own(run)
    PROVE  x \notin Points /\ x # Main /\ x # Target /\ x # NoBranch
  BY OwnBranches

LEMMA TrackedStays ==
    ASSUME RunTypes, run > 0, Meddles, UNCHANGED run
    PROVE  /\ Drill!Own(run)' \cap DOMAIN tree' \subseteq Drill!Own(run) \cap DOMAIN tree
           /\ Tracked /\ UNCHANGED created => Tracked'
           /\ Listed /\ UNCHANGED work => Listed'
<1>1. Drill!Own(run) \cap DOMAIN tree' \subseteq Drill!Own(run) \cap DOMAIN tree
  BY OwnNames DEF Meddles
<1>2. Drill!Own(run)' = Drill!Own(run)
  BY OwnStays
<1>3. QED
  BY <1>1, <1>2 DEF Tracked, Listed

LEMMA StartedStays ==
    ASSUME TreeTypes, RunTypes, run > 0, Started, Meddles, UNCHANGED <<run, original>>
    PROVE  Started'
<1> USE DEF Meddles
<1>1. /\ OwnRp' = OwnRp /\ Drill!Own(run)' = Drill!Own(run)
      /\ OwnRp \in Drill!Own(run)
  BY OwnStays, OwnBranches
<1>2. Target \in DOMAIN tree /\ Target \in DOMAIN tree'
  BY DEF TreeTypes
<1>3. Unmoved'
  BY <1>2 DEF Started, Unmoved
<1>4. OwnRp \in DOMAIN tree' => tree'[OwnRp].parent = Target
  BY <1>1, OwnNames DEF Started
<1>5. ASSUME NEW x \in DOMAIN tree'
      PROVE  /\ tree'[x].parent \notin Drill!Own(run)
             /\ tree'[x].parent = Target => x = OwnRp
  <2>1. CASE x \in DOMAIN tree
    BY <2>1 DEF Started
  <2>2. CASE x \notin DOMAIN tree
    <3>1. tree'[x].parent \notin Drill!Own(run) \cup {Target}
      BY <1>5, <2>2
    <3>2. QED
      BY <3>1
  <2>3. QED
    BY <2>1, <2>2
<1>6. QED
  BY <1>1, <1>3, <1>4, <1>5 DEF Started

LEMMA RestoredStays ==
    ASSUME TreeTypes, RunTypes, run > 0, Restored, Meddles, UNCHANGED <<run, original>>
    PROVE  Restored'
<1> USE DEF Meddles
<1>1. /\ OwnRp' = OwnRp /\ OwnPreserved' = OwnPreserved /\ OwnPitr' = OwnPitr
      /\ OwnScratch' = OwnScratch
      /\ {OwnRp, OwnPreserved, OwnPitr, OwnScratch} = Drill!Own(run)
  BY OwnStays, OwnBranches
<1>2. Target \in DOMAIN tree /\ Target \in DOMAIN tree'
  BY DEF TreeTypes
<1>3. OwnRp \in DOMAIN tree' /\ OwnPreserved \in DOMAIN tree'
  BY <1>2 DEF Restored
<1>4. /\ tree'[Target].parent = OwnRp /\ tree'[OwnRp].parent = OwnPreserved
      /\ tree'[OwnPreserved].parent = original
  BY <1>2, <1>3 DEF Restored
<1>5. ASSUME NEW x \in DOMAIN tree'
      PROVE  /\ tree'[x].parent \notin {Target, OwnPitr, OwnScratch}
             /\ tree'[x].parent = OwnRp => x = Target
             /\ tree'[x].parent = OwnPreserved => x = OwnRp
  <2>1. CASE x \in DOMAIN tree
    BY <2>1 DEF Restored
  <2>2. CASE x \notin DOMAIN tree
    <3>1. tree'[x].parent \notin Drill!Own(run) \cup {Target}
      BY <2>2
    <3>2. QED
      BY <1>1, <3>1
  <2>3. QED
    BY <2>1, <2>2
<1>6. QED
  BY <1>1, <1>3, <1>4, <1>5 DEF Restored

LEMMA MovedStays ==
    ASSUME TreeTypes, RunTypes, run > 0, Moved, Meddles, UNCHANGED <<run, original>>
    PROVE  Moved'
<1> USE DEF Meddles
<1>1. /\ OwnRp' = OwnRp /\ OwnPreserved' = OwnPreserved /\ OwnPitr' = OwnPitr
      /\ OwnScratch' = OwnScratch
      /\ {OwnRp, OwnPreserved, OwnPitr, OwnScratch} = Drill!Own(run)
  BY OwnStays, OwnBranches
<1>2. Target \in DOMAIN tree /\ Target \in DOMAIN tree'
  BY DEF TreeTypes
<1>3. OwnPitr \in DOMAIN tree' /\ OwnRp \in DOMAIN tree' /\ OwnPreserved \in DOMAIN tree'
  BY <1>2 DEF Moved
<1>4. /\ tree'[Target].parent = OwnPitr /\ tree'[OwnPitr].parent = OwnRp
      /\ tree'[OwnRp].parent = OwnPreserved /\ tree'[OwnPreserved].parent = original
  BY <1>2, <1>3 DEF Moved
<1>5. ASSUME NEW x \in DOMAIN tree'
      PROVE  /\ tree'[x].parent # OwnScratch
             /\ tree'[x].parent = Target => x = OwnScratch
             /\ tree'[x].parent = OwnPitr => x = Target
             /\ tree'[x].parent = OwnRp => x = OwnPitr
             /\ tree'[x].parent = OwnPreserved => x = OwnRp
  <2>1. CASE x \in DOMAIN tree
    BY <2>1 DEF Moved
  <2>2. CASE x \notin DOMAIN tree
    <3>1. tree'[x].parent \notin Drill!Own(run) \cup {Target}
      BY <2>2
    <3>2. QED
      BY <1>1, <3>1
  <2>3. QED
    BY <2>1, <2>2
<1>6. QED
  BY <1>1, <1>3, <1>4, <1>5 DEF Moved

LEMMA PutBackStays ==
    ASSUME TreeTypes, RunTypes, run > 0, PutBack, Meddles, UNCHANGED <<run, original>>
    PROVE  PutBack'
<1> USE DEF Meddles
<1>1. /\ OwnRp' = OwnRp /\ OwnPreserved' = OwnPreserved /\ OwnPitr' = OwnPitr
      /\ OwnScratch' = OwnScratch
      /\ {OwnRp, OwnPreserved, OwnPitr, OwnScratch} = Drill!Own(run)
  BY OwnStays, OwnBranches
<1>2. Target \in DOMAIN tree /\ Target \in DOMAIN tree'
  BY DEF TreeTypes
<1>3. Unmoved'
  BY <1>2 DEF PutBack, Unmoved
<1>4. OwnScratch \notin DOMAIN tree'
  BY <1>1, OwnNames DEF PutBack
<1>5. /\ OwnPitr \in DOMAIN tree' => tree'[OwnPitr].parent = OwnRp
      /\ OwnRp \in DOMAIN tree' => tree'[OwnRp].parent = OwnPreserved
  BY <1>1, OwnNames DEF PutBack
<1>6. ASSUME NEW x \in DOMAIN tree'
      PROVE  /\ tree'[x].parent \notin {Target, OwnPitr}
             /\ tree'[x].parent = OwnRp => x = OwnPitr
             /\ tree'[x].parent = OwnPreserved => x = OwnRp
  <2>1. CASE x \in DOMAIN tree
    BY <2>1 DEF PutBack
  <2>2. CASE x \notin DOMAIN tree
    <3>1. tree'[x].parent \notin Drill!Own(run) \cup {Target}
      BY <2>2
    <3>2. QED
      BY <1>1, <3>1
  <2>3. QED
    BY <2>1, <2>2
<1>7. QED
  BY <1>1, <1>3, <1>4, <1>5, <1>6 DEF PutBack

LEMMA TidyStays ==
    ASSUME TreeTypes, RunTypes, run > 0, Tidy, Meddles, UNCHANGED <<run, original>>
    PROVE  Tidy'
<1>1. Drill!Own(run)' \cap DOMAIN tree' = {}
  BY TrackedStays DEF Tidy
<1>2. Unmoved'
  BY DEF Tidy, Unmoved, TreeTypes, Meddles
<1>3. QED
  BY <1>1, <1>2 DEF Tidy

(* A branch that is deleted shortens the chain by its end.                  *)
LEMMA ChainShortens ==
    ASSUME TreeTypes, RunTypes, run > 0, PutBack, Meddles, UNCHANGED run
    PROVE  /\ Depth \in 0 .. 3 /\ Depth' \in 0 .. 3
           /\ (Depth' = Depth /\ (Depth # 0 => Deepest' = Deepest)) \/ Depth' < Depth
           /\ Depth = 0 => {OwnRp, OwnPreserved, OwnPitr} \cap DOMAIN tree = {}
           /\ Depth # 0 => /\ Deepest \in DOMAIN tree
                           /\ Deepest \in {OwnRp, OwnPreserved, OwnPitr}
<1>1. /\ OwnRp' = OwnRp /\ OwnPreserved' = OwnPreserved /\ OwnPitr' = OwnPitr
      /\ {OwnRp, OwnPreserved, OwnPitr, OwnScratch} = Drill!Own(run)
  BY OwnStays, OwnBranches
<1>2. /\ OwnRp \in DOMAIN tree' => OwnRp \in DOMAIN tree
      /\ OwnPreserved \in DOMAIN tree' => OwnPreserved \in DOMAIN tree
      /\ OwnPitr \in DOMAIN tree' => OwnPitr \in DOMAIN tree
  BY <1>1, OwnNames DEF Meddles
<1>3. OwnPitr \in DOMAIN tree => OwnRp \in DOMAIN tree /\ OwnRp \in DOMAIN tree'
  <2>1. OwnPitr \in DOMAIN tree => tree[OwnPitr].parent = OwnRp
    BY DEF PutBack
  <2>2. OwnRp # NoBranch
    BY <1>1, OwnNames
  <2>3. QED
    BY <2>1, <2>2 DEF TreeTypes, Meddles
<1>4. OwnRp \in DOMAIN tree => OwnPreserved \in DOMAIN tree /\ OwnPreserved \in DOMAIN tree'
  <2>1. OwnRp \in DOMAIN tree => tree[OwnRp].parent = OwnPreserved
    BY DEF PutBack
  <2>2. OwnPreserved # NoBranch
    BY <1>1, OwnNames
  <2>3. QED
    BY <2>1, <2>2 DEF TreeTypes, Meddles
<1>5. QED
  BY <1>1, <1>2, <1>3, <1>4 DEF Depth, Deepest

LEMMA Shorter ==
    ASSUME NEW d \in 0 .. 3, NEW e \in 0 .. 3, NEW n \in Int, NEW m \in Nat,
           e < d, d + 2 <= n + m \/ d + 3 <= n + m
    PROVE  e + 3 <= n + m
OBVIOUS

LEMMA ChainGoesOn ==
    ASSUME TreeTypes, RunTypes, run > 0, PutBack, ChainGoes, Meddles,
           passes \in Int, mishaps \in Nat, UNCHANGED <<run, work, passes, mishaps>>
    PROVE  ChainGoes'
<1>1. /\ Depth \in 0 .. 3 /\ Depth' \in 0 .. 3
      /\ (Depth' = Depth /\ (Depth # 0 => Deepest' = Deepest)) \/ Depth' < Depth
  BY ChainShortens
<1>2. CASE Depth' = Depth /\ (Depth # 0 => Deepest' = Deepest)
  BY <1>2 DEF ChainGoes
<1>3. CASE Depth' < Depth
  <2>1. Depth # 0
    BY <1>1, <1>3
  <2>2. Depth + 2 <= passes + mishaps \/ Depth + 3 <= passes + mishaps
    BY <2>1 DEF ChainGoes
  <2>3. Depth' + 3 <= passes + mishaps
    BY <1>1, <1>3, <2>2, Shorter
  <2>4. QED
    BY <2>3 DEF ChainGoes
<1>4. QED
  BY <1>1, <1>2, <1>3

(* A step within a phase, with what the operator does meanwhile.            *)
LEMMA PhaseStays ==
    ASSUME DrillInv, Meddles, alone' => alone,
           UNCHANGED <<run, keep, original, created, work, passes, mishaps>>,
           made' \in Seq(Branches), doomed' \in Seq(Branches),
           pc = "idle" => pc' = "idle",
           \/ pc' = pc \/ pc' \in {"trap", "aborted"}
           \/ pc \in BeforeRestore /\ pc' \in BeforeRestore
           \/ pc \in BeforePitr /\ pc' \in BeforePitr
           \/ pc \in BeforeCleanup /\ pc' \in BeforeCleanup
           \/ pc = "report" /\ pc' = "done"
    PROVE  DrillInv'
<1>1. TreeTypes /\ RunTypes /\ ListTypes /\ Phases
  BY DEF DrillInv
<1>2. TreeTypes'
  BY <1>1, TreeTypesStay
<1>3. RunTypes'
  <2>1. DOMAIN tree' \subseteq DOMAIN tree \cup Points \cup Drill!Own(run)
    BY DEF Meddles
  <2>2. QED
    BY <1>1, <2>1, RunTypesStay
<1>4. ListTypes'
  BY <1>1, OwnStays DEF ListTypes
<1>5. Phases'
  <2>1. CASE pc = "idle"
    BY <2>1 DEF Phases, BeforeRestore, BeforePitr, BeforeCleanup
  <2>2. CASE pc # "idle"
    <3>1. run > 0
      BY <1>1, <2>2 DEF RunTypes
    <3>2. /\ Tracked => Tracked'
          /\ Listed => Listed'
      BY <1>1, <3>1, TrackedStays
    <3>3. /\ Started => Started'
          /\ Restored => Restored'
          /\ Moved => Moved'
          /\ PutBack => PutBack'
          /\ Tidy => Tidy'
      BY <1>1, <3>1, StartedStays, RestoredStays, MovedStays, PutBackStays, TidyStays
    <3>4. /\ OwnScratch' = OwnScratch
          /\ OwnScratch \in DOMAIN tree' => OwnScratch \in DOMAIN tree
      BY <1>1, <3>1, OwnStays, OwnBranches, OwnNames DEF Meddles
    <3>5. ScratchGoes => ScratchGoes'
      BY <3>4 DEF ScratchGoes
    <3>6. PutBack /\ ChainGoes => ChainGoes'
      <4>1. passes \in Int /\ mishaps \in Nat
        BY <1>1 DEF ListTypes
      <4>2. QED
        BY <1>1, <3>1, <4>1, ChainGoesOn
    <3>7. CASE pc' = pc
      BY <1>1, <3>2, <3>3, <3>4, <3>5, <3>6, <3>7 DEF Phases
    <3>8. CASE pc' # pc
      BY <1>1, <3>2, <3>3, <3>8 DEF Phases, BeforeRestore, BeforePitr, BeforeCleanup
    <3>9. QED
      BY <3>7, <3>8
  <2>3. QED
    BY <2>1, <2>2
<1>6. QED
  BY <1>2, <1>3, <1>4, <1>5 DEF DrillInv

LEMMA PreflightKeeps ==
    ASSUME DrillInv, Drill!Preflight
    PROVE  DrillInv'
<1>1. TreeTypes /\ RunTypes /\ ListTypes
  BY DEF DrillInv
<1>2. /\ run < Drills /\ run' = run + 1 /\ pc' = "seed" /\ tree' = tree
      /\ tree[Target].parent # NoBranch /\ original' = tree[Target].parent
      /\ alone' = (Drill!Children(tree, Target) = {})
      /\ created' = <<>> /\ work' = [todo |-> <<>>, left |-> <<>>]
      /\ passes' = 0 /\ mishaps' = 0 /\ made' = made /\ doomed' = doomed
  BY DEF Drill!Preflight, Drill!operator, Drill!NoWork
<1>3. run \in Nat /\ run' \in 1 .. Drills /\ Drills \in Nat
  BY <1>1, <1>2, DrillAssumption DEF RunTypes
<1>4. Drill!Own(run') \cap DOMAIN tree = {}
  BY <1>1, <1>2, <1>3 DEF RunTypes
<1>5. NoBranch \notin Drill!Own(run')
  BY <1>3, BranchNames
<1>6. TreeTypes'
  BY <1>1, <1>2 DEF TreeTypes
<1>7. alone' => \A x \in DOMAIN tree : tree[x].parent # Target
  BY <1>2 DEF Drill!Children
<1>8. alone' => original' \notin Drill!Own(run') \cup {Target, NoBranch}
  BY <1>1, <1>2, <1>4, <1>7 DEF TreeTypes
<1>9. RunTypes'
  <2>1. ASSUME NEW r \in 1 .. Drills, run' < r
        PROVE  Drill!Own(r) \cap DOMAIN tree' = {}
    BY <1>1, <1>2, <1>3, <2>1 DEF RunTypes
  <2>2. QED
    BY <1>2, <1>3, <1>8, <2>1 DEF RunTypes
<1>10. ListTypes'
  <2>1. <<>> \in Seq(Drill!Own(run'))
    BY EmptySeq
  <2>2. QED
    BY <1>1, <1>2, <2>1 DEF ListTypes
<1>11. alone' => Started' /\ Tracked'
  <2>1. SUFFICES ASSUME alone'
                 PROVE  Started' /\ Tracked'
    OBVIOUS
  <2>2. OwnRp' \in Drill!Own(run') /\ Drill!Own(run)' = Drill!Own(run')
    BY DEF OwnRp, Drill!Own
  <2>3. OwnRp' \notin DOMAIN tree'
    BY <1>2, <1>4, <2>2
  <2>4. Tracked'
    BY <1>2, <1>4 DEF Tracked
  <2>5. ASSUME NEW x \in DOMAIN tree'
        PROVE  tree'[x].parent \notin Drill!Own(run') /\ tree'[x].parent # Target
    BY <1>1, <1>2, <1>4, <1>5, <1>7, <2>1 DEF TreeTypes
  <2>6. Unmoved'
    BY <1>2 DEF Unmoved
  <2>7. QED
    BY <2>3, <2>4, <2>5, <2>6 DEF Started
<1>12. Phases'
  BY <1>2, <1>11 DEF Phases, BeforeRestore, BeforePitr, BeforeCleanup
<1>13. QED
  BY <1>6, <1>9, <1>10, <1>12 DEF DrillInv

(* What the restores do to the tree.                                        *)
LEMMA ReplaceIs ==
    ASSUME NEW t, NEW old, NEW source, NEW c, Target \in DOMAIN t, old \notin DOMAIN t,
           \A x \in DOMAIN t : t[x] = [parent |-> t[x].parent, content |-> t[x].content],
           tree' = Drill!Replace(t, Target, old, source, c)
    PROVE  /\ DOMAIN tree' = DOMAIN t \cup {old}
           /\ tree'[old] = t[Target]
           /\ tree'[Target] = [parent |-> IF source = Target THEN old ELSE source, content |-> c]
           /\ \A x \in DOMAIN t : x # Target =>
                 /\ tree'[x].parent = IF t[x].parent = Target THEN old ELSE t[x].parent
                 /\ tree'[x] = [parent |-> tree'[x].parent, content |-> tree'[x].content]
<1>1. tree' = [x \in DOMAIN t \cup {old} |->
        CASE x = old    -> t[Target]
          [] x = Target -> [parent |-> IF source = Target THEN old ELSE source, content |-> c]
          [] OTHER      -> IF t[x].parent = Target THEN [t[x] EXCEPT !.parent = old] ELSE t[x]]
  BY DEF Drill!Replace
<1>2. Target # old
  OBVIOUS
<1>3. DOMAIN tree' = DOMAIN t \cup {old}
  BY <1>1
<1>4. tree'[old] = t[Target]
  BY <1>1, <1>2
<1>5. tree'[Target] = [parent |-> IF source = Target THEN old ELSE source, content |-> c]
  BY <1>1, <1>2
<1>6. ASSUME NEW x \in DOMAIN t, x # Target
      PROVE  /\ tree'[x].parent = IF t[x].parent = Target THEN old ELSE t[x].parent
             /\ tree'[x] = [parent |-> tree'[x].parent, content |-> tree'[x].content]
  <2>1. tree'[x] = IF t[x].parent = Target THEN [t[x] EXCEPT !.parent = old] ELSE t[x]
    BY <1>1, <1>6
  <2>2. t[x] = [parent |-> t[x].parent, content |-> t[x].content]
    OBVIOUS
  <2>3. CASE t[x].parent = Target
    <3>1. tree'[x] = [parent |-> old, content |-> t[x].content]
      BY <2>1, <2>2, <2>3
    <3>2. QED
      BY <2>3, <3>1
  <2>4. CASE t[x].parent # Target
    BY <2>1, <2>2, <2>4
  <2>5. QED
    BY <2>3, <2>4
<1>7. QED
  BY <1>3, <1>4, <1>5, <1>6

(* The parents before and after.                                            *)
LEMMA ReplaceTypes ==
    ASSUME TreeTypes, NEW old, NEW source \in DOMAIN tree, old \notin DOMAIN tree,
           DOMAIN tree' = DOMAIN tree \cup {old},
           tree'[old] = [parent |-> tree'[old].parent, content |-> tree'[old].content],
           tree'[old].parent = tree[Target].parent,
           tree'[Target] = [parent |-> tree'[Target].parent, content |-> tree'[Target].content],
           tree'[Target].parent = IF source = Target THEN old ELSE source,
           \A x \in DOMAIN tree : x # Target =>
                 /\ tree'[x].parent = IF tree[x].parent = Target THEN old ELSE tree[x].parent
                 /\ tree'[x] = [parent |-> tree'[x].parent, content |-> tree'[x].content]
    PROVE  TreeTypes'
<1>1. ASSUME NEW x \in DOMAIN tree'
      PROVE  /\ tree'[x] = [parent |-> tree'[x].parent, content |-> tree'[x].content]
             /\ tree'[x].parent \in DOMAIN tree' \cup {NoBranch}
  <2>1. CASE x = old
    BY <2>1 DEF TreeTypes
  <2>2. CASE x = Target
    BY <2>2 DEF TreeTypes
  <2>3. CASE x \in DOMAIN tree /\ x # Target
    BY <2>3 DEF TreeTypes
  <2>4. QED
    BY <2>1, <2>2, <2>3
<1>2. QED
  BY <1>1 DEF TreeTypes

LEMMA WritesMeddle ==
    ASSUME TreeTypes, \E c : Drill!Write(c)
    PROVE  Meddles
  BY WriteMeddles

LEMMA RestIsSame ==
    ASSUME DrillInv, UNCHANGED <<Drill!started, created, Drill!cleanup, Drill!operator>>
    PROVE  /\ UNCHANGED <<run, keep, original, alone, created, work, passes, mishaps>>
           /\ made' \in Seq(Branches) /\ doomed' \in Seq(Branches)
  BY DEF DrillInv, ListTypes, Drill!started, Drill!cleanup, Drill!operator

LEMMA SameKeeps ==
    ASSUME DrillInv, UNCHANGED <<Drill!started, created, Drill!cleanup, Drill!operator>>,
           UNCHANGED tree \/ \E c : Drill!Write(c),
           pc = "idle" => pc' = "idle",
           \/ pc' = pc \/ pc' \in {"trap", "aborted"}
           \/ pc \in BeforeRestore /\ pc' \in BeforeRestore
           \/ pc \in BeforePitr /\ pc' \in BeforePitr
           \/ pc \in BeforeCleanup /\ pc' \in BeforeCleanup
           \/ pc = "report" /\ pc' = "done"
    PROVE  DrillInv'
<1>1. Meddles
  BY SameMeddles, WritesMeddle DEF DrillInv
<1>2. /\ UNCHANGED <<run, keep, original, alone, created, work, passes, mishaps>>
      /\ made' \in Seq(Branches) /\ doomed' \in Seq(Branches)
  BY RestIsSame
<1>3. QED
  BY <1>1, <1>2, PhaseStays

LEMMA PlainStepsKeep ==
    ASSUME DrillInv,
           \/ Drill!Seed \/ Drill!Dump \/ Drill!ReadBack \/ Drill!SkipDump \/ Drill!Damage
           \/ Drill!Erase \/ Drill!Destroy \/ Drill!Verify \/ Drill!Replay
           \/ Drill!NoScratch \/ Drill!FromDump \/ Drill!Report \/ Drill!Fail
    PROVE  DrillInv'
<1> DEFINE Same == UNCHANGED <<Drill!started, created, Drill!cleanup, Drill!operator>>
<1>1. CASE Drill!Seed
  <2>1. pc = "seed" /\ pc' = "capture" /\ Same
    BY <1>1 DEF Drill!Seed
  <2>2. \E c : Drill!Write(c)
    BY <1>1, Zenon DEF Drill!Seed
  <2>3. QED
    BY <2>1, <2>2, SameKeeps DEF BeforeRestore
<1>2. CASE Drill!Dump
  <2>1. pc = "dump" /\ pc' \in {"readback", "trap"} /\ UNCHANGED tree /\ Same
    BY <1>2 DEF Drill!Dump
  <2>2. QED
    BY <2>1, SameKeeps DEF BeforeRestore
<1>3. CASE Drill!ReadBack
  <2>1. pc = "readback" /\ pc' \in {"erase", "trap"} /\ UNCHANGED tree /\ Same
    BY <1>3 DEF Drill!ReadBack
  <2>2. QED
    BY <2>1, SameKeeps DEF BeforeRestore
<1>4. CASE Drill!SkipDump
  <2>1. pc = "dump" /\ pc' = "erase" /\ UNCHANGED tree /\ Same
    BY <1>4 DEF Drill!SkipDump
  <2>2. QED
    BY <2>1, SameKeeps DEF BeforeRestore
<1>5. CASE Drill!Damage
  <2>1. pc' = pc /\ UNCHANGED tree /\ Same
    BY <1>5 DEF Drill!Damage
  <2>2. QED
    BY <2>1, SameKeeps
<1>6. CASE Drill!Erase
  <2>1. pc = "erase" /\ pc' = "probe" /\ Same
    BY <1>6 DEF Drill!Erase
  <2>2. \E c : Drill!Write(c)
    BY <1>6, Zenon DEF Drill!Erase
  <2>3. QED
    BY <2>1, <2>2, SameKeeps DEF BeforeRestore
<1>7. CASE Drill!Destroy
  <2>1. pc = "probe" /\ pc' = "restore" /\ Same
    BY <1>7 DEF Drill!Destroy
  <2>2. \E c : Drill!Write(c)
    BY <1>7, Zenon DEF Drill!Destroy
  <2>3. QED
    BY <2>1, <2>2, SameKeeps DEF BeforeRestore
<1>8. CASE Drill!Verify
  <2>1. pc = "verify" /\ pc' = "replay" /\ UNCHANGED tree /\ Same
    BY <1>8 DEF Drill!Verify
  <2>2. QED
    BY <2>1, SameKeeps DEF BeforePitr
<1>9. CASE Drill!Replay
  <2>1. pc = "replay" /\ pc' = "pitr" /\ Same
    BY <1>9 DEF Drill!Replay
  <2>2. \E c : Drill!Write(c)
    BY <1>9, Zenon DEF Drill!Replay
  <2>3. QED
    BY <2>1, <2>2, SameKeeps DEF BeforePitr
<1>10. CASE Drill!NoScratch
  <2>1. pc = "scratch" /\ pc' = "rows" /\ UNCHANGED tree /\ Same
    BY <1>10 DEF Drill!NoScratch
  <2>2. QED
    BY <2>1, SameKeeps DEF BeforeCleanup
<1>11. CASE Drill!FromDump
  <2>1. pc = "fromdump" /\ pc' \in {"rows", "trap"} /\ UNCHANGED tree /\ Same
    BY <1>11 DEF Drill!FromDump
  <2>2. QED
    BY <2>1, SameKeeps DEF BeforeCleanup
<1>12. CASE Drill!Report
  <2>1. pc = "report" /\ pc' = "done" /\ UNCHANGED tree /\ Same
    BY <1>12 DEF Drill!Report
  <2>2. QED
    BY <2>1, SameKeeps
<1>13. CASE Drill!Fail
  <2>1. pc # "idle" /\ pc' = "trap" /\ UNCHANGED tree /\ Same
    BY <1>13 DEF Drill!Fail
  <2>2. QED
    BY <2>1, SameKeeps
<1>14. QED
  BY <1>1, <1>2, <1>3, <1>4, <1>5, <1>6, <1>7, <1>8, <1>9, <1>10, <1>11, <1>12, <1>13

LEMMA OperatorKeeps ==
    ASSUME DrillInv,
           \/ \E p \in Points : \/ Drill!RpDelete(p)
                                \/ \E of \in DOMAIN tree : Drill!RpCreate(p, of)
           \/ Drill!RpPrune \/ Drill!PruneOne
    PROVE  DrillInv'
<1>1. TreeTypes /\ RunTypes /\ made \in Seq(Branches) /\ doomed \in Seq(Branches)
  BY DEF DrillInv, ListTypes
<1> DEFINE Same == /\ UNCHANGED <<run, keep, original, created, work, passes, mishaps>>
                   /\ pc' = pc /\ (alone' => alone)
<1>2. ASSUME Meddles, Same, made' \in Seq(Branches), doomed' \in Seq(Branches)
      PROVE  DrillInv'
  BY <1>2, PhaseStays
<1>3. UNCHANGED Drill!drill => Same
  BY DEF Drill!drill, Drill!course, Drill!cleanup
<1>4. ASSUME NEW p \in Points, NEW of \in DOMAIN tree, Drill!RpCreate(p, of)
      PROVE  DrillInv'
  <2>1. /\ Drill!CanBranch(tree, p, of) /\ tree' = Drill!Branch(tree, p, of)
        /\ made' = Append(made, p) /\ doomed' = doomed
        /\ alone' = (alone /\ of \notin Drill!Own(run) \cup {Target})
        /\ UNCHANGED <<pc, run, keep, original, created, work, passes, mishaps>>
    BY <1>4 DEF Drill!RpCreate, Drill!course, Drill!cleanup
  <2>2. /\ TreeTypes' /\ DOMAIN tree' = DOMAIN tree \cup {p}
        /\ of \notin Drill!Own(run) \cup {Target} => Meddles
    BY <1>1, <2>1, PointMeddles
  <2>3. made' \in Seq(Branches) /\ doomed' \in Seq(Branches)
    BY <1>1, <2>1, AppendProperties DEF Branches
  <2>4. CASE of \notin Drill!Own(run) \cup {Target}
    BY <1>2, <2>1, <2>2, <2>3, <2>4
  <2>5. CASE of \in Drill!Own(run) \cup {Target}
    <3>1. ~alone'
      BY <2>1, <2>5
    <3>2. RunTypes'
      BY <1>1, <2>1, <2>2, <3>1, RunTypesStay
    <3>3. ListTypes'
      BY <2>1, <2>3, OwnStays DEF DrillInv, ListTypes
    <3>4. Phases'
      BY <3>1 DEF Phases
    <3>5. QED
      BY <2>2, <3>2, <3>3, <3>4 DEF DrillInv
  <2>6. QED
    BY <2>4, <2>5
<1>5. ASSUME NEW p \in Points, Drill!RpDelete(p)
      PROVE  DrillInv'
  <2>1. /\ Drill!Deletable(tree, p) /\ tree' = Drill!Without(tree, p)
        /\ made' = Drill!RemoveFirst(made, p) /\ doomed' = doomed /\ UNCHANGED Drill!drill
    BY <1>5 DEF Drill!RpDelete
  <2>2. p # Target
    BY BranchNames
  <2>3. Meddles
    BY <1>1, <2>1, <2>2, DeleteMeddles
  <2>4. made' \in Seq(Branches)
    BY <1>1, <2>1, RemovedIsSeq
  <2>5. QED
    BY <1>1, <1>2, <1>3, <2>1, <2>3, <2>4
<1>6. CASE Drill!RpPrune
  <2>1. /\ Len(made) > RpKeep /\ doomed' = SubSeq(made, 1, Len(made) - RpKeep)
        /\ tree' = tree /\ made' = made /\ UNCHANGED Drill!drill
    BY <1>6 DEF Drill!RpPrune
  <2>2. Len(made) \in Nat /\ RpKeep \in Nat
    BY <1>1, LenProperties, DrillAssumption
  <2>3. doomed' \in Seq(Branches)
    BY <1>1, <2>1, <2>2, SubSeqProperties
  <2>4. Meddles
    BY <1>1, <2>1, SameMeddles
  <2>5. QED
    BY <1>1, <1>2, <1>3, <2>1, <2>3, <2>4
<1>7. CASE Drill!PruneOne
  <2> DEFINE b == Head(doomed)
  <2>1. doomed # <<>> /\ UNCHANGED Drill!drill
    BY <1>7 DEF Drill!PruneOne
  <2>2. b \in Branches /\ Tail(doomed) \in Seq(Branches) /\ <<>> \in Seq(Branches)
    BY <1>1, <2>1, TailSet, EmptySeq
  <2>3. b # Target
    BY <2>2, TargetIsNone
  <2>4. CASE Drill!Deletable(tree, b)
    <3>1. /\ tree' = Drill!Without(tree, b) /\ doomed' = Tail(doomed)
          /\ made' = Drill!RemoveFirst(made, b)
      BY <1>7, <2>4 DEF Drill!PruneOne
    <3>2. Meddles
      BY <1>1, <2>3, <2>4, <3>1, DeleteMeddles
    <3>3. made' \in Seq(Branches)
      BY <1>1, <3>1, RemovedIsSeq
    <3>4. QED
      BY <1>2, <1>3, <2>1, <2>2, <3>1, <3>2, <3>3
  <2>5. CASE ~Drill!Deletable(tree, b)
    <3>1. doomed' = <<>> /\ tree' = tree /\ made' = made
      BY <1>7, <2>5 DEF Drill!PruneOne
    <3>2. Meddles
      BY <1>1, <3>1, SameMeddles
    <3>3. QED
      BY <1>1, <1>2, <1>3, <2>1, <2>2, <3>1, <3>2
  <2>6. QED
    BY <2>4, <2>5
<1>8. QED
  BY <1>4, <1>5, <1>6, <1>7

(* The drill takes a branch of its own, of the target.                      *)
LEMMA OwnPointKeeps ==
    ASSUME TreeTypes, RunTypes, ListTypes, run > 0, pc # "idle", NEW b \in Drill!Own(run),
           Drill!CanBranch(tree, b, Target), tree' = Drill!Branch(tree, b, Target),
           made' = Append(made, b), created' \in {created, Append(created, b)},
           UNCHANGED <<run, keep, original, alone, work, passes, mishaps, doomed>>
    PROVE  /\ TreeTypes' /\ RunTypes' /\ ListTypes'
           /\ Tracked /\ created' = Append(created, b) => Tracked'
<1>1. /\ b \notin DOMAIN tree /\ Target \in DOMAIN tree
      /\ DOMAIN tree' = DOMAIN tree \cup {b}
      /\ tree'[b] = [parent |-> Target, content |-> tree[Target].content]
      /\ tree'[b].parent = Target
      /\ \A x \in DOMAIN tree : tree'[x] = tree[x]
  BY BranchIs
<1>2. TreeTypes'
  <2>1. ASSUME NEW x \in DOMAIN tree'
        PROVE  /\ tree'[x] = [parent |-> tree'[x].parent, content |-> tree'[x].content]
               /\ tree'[x].parent \in DOMAIN tree' \cup {NoBranch}
    BY <1>1 DEF TreeTypes
  <2>2. QED
    BY <1>1, <2>1 DEF TreeTypes
<1>3. RunTypes'
  BY <1>1, RunTypesStay
<1>4. Drill!Own(run)' = Drill!Own(run) /\ b \in Branches
  BY OwnStays, OwnBranches
<1>5. ListTypes'
  <2>1. created \in Seq(Drill!Own(run)) /\ made \in Seq(Branches)
    BY DEF ListTypes
  <2>2. created' \in Seq(Drill!Own(run))
    <3>1. Append(created, b) \in Seq(Drill!Own(run))
      BY <2>1, AppendSet
    <3>2. created' = created \/ created' = Append(created, b)
      OBVIOUS
    <3>3. QED
      BY <2>1, <3>1, <3>2
  <2>3. made' \in Seq(Branches)
    BY <1>4, <2>1, AppendSet
  <2>4. QED
    BY <1>4, <2>2, <2>3 DEF ListTypes
<1>6. ASSUME Tracked, created' = Append(created, b)
      PROVE  Tracked'
  <2>1. Drill!ToSet(created') = Drill!ToSet(created) \cup {b}
    BY <1>6, AppendSet DEF ListTypes
  <2>2. QED
    BY <1>1, <1>4, <1>6, <2>1 DEF Tracked
<1>7. QED
  BY <1>2, <1>3, <1>5, <1>6

LEMMA CaptureKeeps ==
    ASSUME DrillInv, Drill!Capture
    PROVE  DrillInv'
<1>1. TreeTypes /\ RunTypes /\ ListTypes /\ Phases
  BY DEF DrillInv
<1>2. PICK ready \in BOOLEAN :
          Drill!CreatePoint(OwnRp, ready) /\ pc' = IF ready THEN "dump" ELSE "trap"
  BY DEF Drill!Capture, OwnRp
<1>3. /\ Drill!CanBranch(tree, OwnRp, Target) /\ tree' = Drill!Branch(tree, OwnRp, Target)
      /\ made' = Append(made, OwnRp) /\ created' = IF ready THEN Append(created, OwnRp) ELSE created
  BY <1>2 DEF Drill!CreatePoint
<1>4. /\ pc = "capture"
      /\ UNCHANGED <<run, keep, original, alone, work, passes, mishaps, doomed>>
  BY DEF Drill!Capture, Drill!started, Drill!cleanup
<1>5. run > 0 /\ OwnRp \in Drill!Own(run)
  BY <1>1, <1>4, OwnBranches DEF RunTypes
<1>6. created' \in {created, Append(created, OwnRp)}
  BY <1>3
<1>7. /\ TreeTypes' /\ RunTypes' /\ ListTypes'
      /\ Tracked /\ created' = Append(created, OwnRp) => Tracked'
  BY <1>1, <1>3, <1>4, <1>5, <1>6, OwnPointKeeps
<1>8. Started => Started'
  <2>1. /\ OwnRp \notin DOMAIN tree /\ Target \in DOMAIN tree
        /\ DOMAIN tree' = DOMAIN tree \cup {OwnRp}
        /\ tree'[OwnRp].parent = Target
        /\ \A x \in DOMAIN tree : tree'[x] = tree[x]
    BY <1>3, BranchIs
  <2>2. OwnRp' = OwnRp /\ Drill!Own(run)' = Drill!Own(run) /\ Target \notin Drill!Own(run)
    BY <1>1, <1>4, <1>5, OwnStays, OwnNames
  <2>3. QED
    BY <1>4, <2>1, <2>2 DEF Started, Unmoved
<1>9. Phases'
  <2>1. CASE ready
    <3>1. pc' = "dump" /\ created' = Append(created, OwnRp)
      BY <1>2, <1>3, <2>1
    <3>2. alone' => Started' /\ Tracked'
      BY <1>1, <1>4, <1>7, <1>8, <3>1 DEF Phases, BeforeRestore
    <3>3. QED
      BY <3>1, <3>2 DEF Phases, BeforeRestore, BeforePitr, BeforeCleanup
  <2>2. CASE ~ready
    BY <1>2, <2>2 DEF Phases, BeforeRestore, BeforePitr, BeforeCleanup
  <2>3. QED
    BY <2>1, <2>2
<1>10. QED
  BY <1>7, <1>9 DEF DrillInv

LEMMA ScratchKeeps ==
    ASSUME DrillInv, Drill!Scratch
    PROVE  DrillInv'
<1>1. TreeTypes /\ RunTypes /\ ListTypes /\ Phases
  BY DEF DrillInv
<1>2. PICK ready \in BOOLEAN :
          Drill!CreatePoint(OwnScratch, ready) /\ pc' = IF ready THEN "fromdump" ELSE "trap"
  BY DEF Drill!Scratch, OwnScratch
<1>3. /\ Drill!CanBranch(tree, OwnScratch, Target)
      /\ tree' = Drill!Branch(tree, OwnScratch, Target)
      /\ made' = Append(made, OwnScratch)
      /\ created' = IF ready THEN Append(created, OwnScratch) ELSE created
  BY <1>2 DEF Drill!CreatePoint
<1>4. /\ pc = "scratch"
      /\ UNCHANGED <<run, keep, original, alone, work, passes, mishaps, doomed>>
  BY DEF Drill!Scratch, Drill!started, Drill!cleanup
<1>5. run > 0
  BY <1>1, <1>4 DEF RunTypes
<1>6. /\ Drill!Own(run) = {OwnRp, OwnPreserved, OwnPitr, OwnScratch}
      /\ OwnRp # OwnScratch /\ OwnPreserved # OwnScratch /\ OwnPitr # OwnScratch
      /\ Target \notin Drill!Own(run)
  BY <1>1, <1>5, OwnBranches, OwnNames
<1>7. created' \in {created, Append(created, OwnScratch)}
  BY <1>3
<1>8. /\ TreeTypes' /\ RunTypes' /\ ListTypes'
      /\ Tracked /\ created' = Append(created, OwnScratch) => Tracked'
  BY <1>1, <1>3, <1>4, <1>5, <1>6, <1>7, OwnPointKeeps
<1>9. Moved => Moved'
  <2>1. /\ OwnScratch \notin DOMAIN tree /\ Target \in DOMAIN tree
        /\ DOMAIN tree' = DOMAIN tree \cup {OwnScratch}
        /\ tree'[OwnScratch].parent = Target
        /\ \A x \in DOMAIN tree : tree'[x] = tree[x]
    BY <1>3, BranchIs
  <2>2. /\ OwnRp' = OwnRp /\ OwnPreserved' = OwnPreserved /\ OwnPitr' = OwnPitr
        /\ OwnScratch' = OwnScratch /\ original' = original
    BY <1>4, OwnStays
  <2>3. SUFFICES ASSUME Moved
                 PROVE  Moved'
    OBVIOUS
  <2>4. ASSUME NEW x \in DOMAIN tree'
        PROVE  /\ tree'[x].parent # OwnScratch
               /\ tree'[x].parent = Target => x = OwnScratch
               /\ tree'[x].parent = OwnPitr => x = Target
               /\ tree'[x].parent = OwnRp => x = OwnPitr
               /\ tree'[x].parent = OwnPreserved => x = OwnRp
    BY <1>6, <2>1, <2>3 DEF Moved
  <2>5. QED
    BY <2>1, <2>2, <2>3, <2>4 DEF Moved
<1>10. Phases'
  <2>1. CASE ready
    <3>1. pc' = "fromdump" /\ created' = Append(created, OwnScratch)
      BY <1>2, <1>3, <2>1
    <3>2. alone' => Moved' /\ Tracked'
      BY <1>1, <1>4, <1>8, <1>9, <3>1 DEF Phases, BeforeCleanup
    <3>3. QED
      BY <3>1, <3>2 DEF Phases, BeforeRestore, BeforePitr, BeforeCleanup
  <2>2. CASE ~ready
    BY <1>2, <2>2 DEF Phases, BeforeRestore, BeforePitr, BeforeCleanup
  <2>3. QED
    BY <2>1, <2>2
<1>11. QED
  BY <1>8, <1>10 DEF DrillInv

(* The two restores that preserve what was there.                           *)
LEMMA PreservedKeeps ==
    ASSUME TreeTypes, RunTypes, ListTypes, run > 0, pc # "idle", NEW old \in Drill!Own(run),
           DOMAIN tree' = DOMAIN tree \cup {old},
           created' \in {created, Append(created, old)},
           alone' => alone,
           UNCHANGED <<run, keep, original, work, passes, mishaps, made, doomed>>
    PROVE  /\ RunTypes' /\ ListTypes'
           /\ Tracked /\ created' = Append(created, old) => Tracked'
<1>1. RunTypes'
  BY RunTypesStay
<1>2. Drill!Own(run)' = Drill!Own(run)
  BY OwnStays
<1>3. ListTypes'
  <2>1. created \in Seq(Drill!Own(run))
    BY DEF ListTypes
  <2>2. Append(created, old) \in Seq(Drill!Own(run))
    BY <2>1, AppendSet
  <2>3. created' = created \/ created' = Append(created, old)
    OBVIOUS
  <2>4. created' \in Seq(Drill!Own(run))
    BY <2>1, <2>2, <2>3
  <2>5. QED
    BY <1>2, <2>4 DEF ListTypes
<1>4. ASSUME Tracked, created' = Append(created, old)
      PROVE  Tracked'
  <2>1. Drill!ToSet(created') = Drill!ToSet(created) \cup {old}
    BY <1>4, AppendSet DEF ListTypes
  <2>2. QED
    BY <1>2, <1>4, <2>1 DEF Tracked
<1>5. QED
  BY <1>1, <1>3, <1>4

LEMMA FromBranchKeeps ==
    ASSUME DrillInv, Drill!FromBranch
    PROVE  DrillInv'
<1>1. TreeTypes /\ RunTypes /\ ListTypes /\ Phases
  BY DEF DrillInv
<1>2. /\ Drill!CanReplace(tree, Target, OwnPreserved, OwnRp)
      /\ tree' = Drill!Replace(tree, Target, OwnPreserved, OwnRp, tree[OwnRp].content)
      /\ Drill!LookUp(OwnPreserved, "verify")
  BY DEF Drill!FromBranch, OwnPreserved, OwnRp
<1>3. /\ pc = "restore"
      /\ UNCHANGED <<run, keep, original, work, passes, mishaps, made, doomed>>
  BY DEF Drill!FromBranch, Drill!cleanup, Drill!operator
<1>4. run > 0
  BY <1>1, <1>3 DEF RunTypes
<1>5. /\ Drill!Own(run) = {OwnRp, OwnPreserved, OwnPitr, OwnScratch}
      /\ OwnRp # OwnPreserved /\ OwnRp # OwnPitr /\ OwnRp # OwnScratch
      /\ OwnPreserved # OwnPitr /\ OwnPreserved # OwnScratch /\ OwnPitr # OwnScratch
      /\ Target \notin Drill!Own(run)
  BY <1>1, <1>4, OwnBranches, OwnNames
<1>6. OwnRp \in DOMAIN tree /\ OwnPreserved \notin DOMAIN tree /\ Target \in DOMAIN tree
  BY <1>1, <1>2 DEF Drill!CanReplace, TreeTypes
<1>7. /\ DOMAIN tree' = DOMAIN tree \cup {OwnPreserved}
      /\ tree'[OwnPreserved] = tree[Target]
      /\ tree'[Target] = [parent |-> OwnRp, content |-> tree[OwnRp].content]
      /\ \A x \in DOMAIN tree : x # Target =>
            /\ tree'[x].parent = IF tree[x].parent = Target THEN OwnPreserved
                                                            ELSE tree[x].parent
            /\ tree'[x] = [parent |-> tree'[x].parent, content |-> tree'[x].content]
  <2>1. \A x \in DOMAIN tree :
            tree[x] = [parent |-> tree[x].parent, content |-> tree[x].content]
    BY <1>1 DEF TreeTypes
  <2>2. OwnRp # Target
    BY <1>5
  <2>3. tree' = Drill!Replace(tree, Target, OwnPreserved, OwnRp, tree[OwnRp].content)
    BY <1>2
  <2>4. /\ DOMAIN tree' = DOMAIN tree \cup {OwnPreserved}
        /\ tree'[OwnPreserved] = tree[Target]
        /\ tree'[Target] = [parent |-> IF OwnRp = Target THEN OwnPreserved ELSE OwnRp,
                            content |-> tree[OwnRp].content]
        /\ \A x \in DOMAIN tree : x # Target =>
              /\ tree'[x].parent = IF tree[x].parent = Target THEN OwnPreserved
                                                              ELSE tree[x].parent
              /\ tree'[x] = [parent |-> tree'[x].parent, content |-> tree'[x].content]
    <3> HIDE DEF OwnRp, OwnPreserved
    <3>1. QED
      BY <1>6, <2>1, <2>3, ReplaceIs
  <2>5. QED
    BY <2>2, <2>4
<1>8. TreeTypes'
  <2>1. /\ tree'[OwnPreserved] =
              [parent |-> tree'[OwnPreserved].parent, content |-> tree'[OwnPreserved].content]
        /\ tree'[OwnPreserved].parent = tree[Target].parent
    BY <1>1, <1>7 DEF TreeTypes
  <2>2. /\ tree'[Target] =
              [parent |-> tree'[Target].parent, content |-> tree'[Target].content]
        /\ tree'[Target].parent = IF OwnRp = Target THEN OwnPreserved ELSE OwnRp
    BY <1>5, <1>7
  <2>3. QED
    BY <1>1, <1>6, <1>7, <2>1, <2>2, ReplaceTypes
<1>9. \/ pc' = "verify" /\ created' = Append(created, OwnPreserved) /\ alone' = alone
      \/ pc' = "verify" /\ created' = created /\ alone' = FALSE
      \/ pc' = "trap" /\ created' = created /\ alone' = alone
  BY <1>2 DEF Drill!LookUp
<1>10. created' \in {created, Append(created, OwnPreserved)} /\ (alone' => alone)
  BY <1>9
<1>11. /\ RunTypes' /\ ListTypes'
       /\ Tracked /\ created' = Append(created, OwnPreserved) => Tracked'
  BY <1>1, <1>3, <1>4, <1>5, <1>7, <1>10, PreservedKeeps
<1>12. alone /\ Started => Restored'
  <2>1. SUFFICES ASSUME alone, Started
                 PROVE  Restored'
    OBVIOUS
  <2>2. original \notin Drill!Own(run) \cup {Target, NoBranch}
    BY <1>1, <1>4, <2>1 DEF RunTypes
  <2>3. /\ OwnRp' = OwnRp /\ OwnPreserved' = OwnPreserved /\ OwnPitr' = OwnPitr
        /\ OwnScratch' = OwnScratch /\ original' = original
    BY <1>3, OwnStays
  <2>4. /\ tree[Target].parent = original /\ tree[OwnRp].parent = Target
        /\ \A x \in DOMAIN tree :
              /\ tree[x].parent \notin Drill!Own(run)
              /\ tree[x].parent = Target => x = OwnRp
    BY <1>6, <2>1 DEF Started, Unmoved
  <2>5. /\ tree'[Target].parent = OwnRp /\ tree'[OwnRp].parent = OwnPreserved
        /\ tree'[OwnPreserved].parent = original
    BY <1>5, <1>6, <1>7, <2>4
  <2>6. ASSUME NEW x \in DOMAIN tree'
        PROVE  /\ tree'[x].parent \notin {Target, OwnPitr, OwnScratch}
               /\ tree'[x].parent = OwnRp => x = Target
               /\ tree'[x].parent = OwnPreserved => x = OwnRp
    <3>1. CASE x = Target
      BY <1>5, <2>5, <3>1
    <3>2. CASE x = OwnPreserved
      BY <1>5, <2>2, <2>5, <3>2
    <3>3. CASE x \in DOMAIN tree /\ x # Target
      BY <1>5, <1>7, <2>4, <3>3
    <3>4. QED
      BY <1>7, <2>6, <3>1, <3>2, <3>3
  <2>7. QED
    BY <1>6, <1>7, <2>3, <2>5, <2>6 DEF Restored
<1>13. Phases'
  <2>1. CASE pc' = "verify" /\ created' = Append(created, OwnPreserved) /\ alone' = alone
    <3>1. alone' => Restored' /\ Tracked'
      BY <1>1, <1>3, <1>11, <1>12, <2>1 DEF Phases, BeforeRestore
    <3>2. QED
      BY <2>1, <3>1 DEF Phases, BeforeRestore, BeforePitr, BeforeCleanup
  <2>2. CASE pc' = "trap"
    BY <2>2 DEF Phases, BeforeRestore, BeforePitr, BeforeCleanup
  <2>3. CASE ~alone'
    BY <2>3 DEF Phases
  <2>4. QED
    BY <1>9, <2>1, <2>2, <2>3
<1>14. QED
  BY <1>8, <1>11, <1>13 DEF DrillInv

LEMMA PitrKeeps ==
    ASSUME DrillInv, Drill!Pitr
    PROVE  DrillInv'
<1>1. TreeTypes /\ RunTypes /\ ListTypes /\ Phases
  BY DEF DrillInv
<1>2. PICK now, at2 :
        /\ Drill!CanReplace(tree, Target, OwnPitr, Target)
        /\ tree' = Drill!Replace([tree EXCEPT ![Target].content = now],
                                 Target, OwnPitr, Target, at2)
        /\ Drill!LookUp(OwnPitr, "scratch")
  BY Zenon DEF Drill!Pitr, OwnPitr
<1>3. /\ pc = "pitr"
      /\ UNCHANGED <<run, keep, original, work, passes, mishaps, made, doomed>>
  BY DEF Drill!Pitr, Drill!cleanup, Drill!operator
<1>4. run > 0
  BY <1>1, <1>3 DEF RunTypes
<1>5. /\ Drill!Own(run) = {OwnRp, OwnPreserved, OwnPitr, OwnScratch}
      /\ OwnRp # OwnPreserved /\ OwnRp # OwnPitr /\ OwnRp # OwnScratch
      /\ OwnPreserved # OwnPitr /\ OwnPreserved # OwnScratch /\ OwnPitr # OwnScratch
      /\ Target \notin Drill!Own(run)
  BY <1>1, <1>4, OwnBranches, OwnNames
<1>6. OwnPitr \notin DOMAIN tree /\ Target \in DOMAIN tree
  BY <1>1, <1>2 DEF Drill!CanReplace, TreeTypes
<1> DEFINE t == [tree EXCEPT ![Target].content = now]
<1>7. /\ DOMAIN t = DOMAIN tree
      /\ t[Target] = [parent |-> tree[Target].parent, content |-> now]
      /\ \A x \in DOMAIN tree : x # Target => t[x] = tree[x]
  <2>1. t = [tree EXCEPT ![Target] = [tree[Target] EXCEPT !.content = now]]
    OBVIOUS
  <2>2. [tree[Target] EXCEPT !.content = now] = [parent |-> tree[Target].parent, content |-> now]
    BY <1>1 DEF TreeTypes
  <2> HIDE DEF t
  <2>3. QED
    BY <1>6, <2>1, <2>2
<1>8. tree' = Drill!Replace(t, Target, OwnPitr, Target, at2)
  BY <1>2
<1> HIDE DEF t
<1>9. \A x \in DOMAIN t : t[x] = [parent |-> t[x].parent, content |-> t[x].content]
  BY <1>1, <1>7 DEF TreeTypes
<1>10. \A x \in DOMAIN tree : t[x].parent = tree[x].parent
  BY <1>7
<1>11. /\ DOMAIN tree' = DOMAIN tree \cup {OwnPitr}
       /\ tree'[OwnPitr] = t[Target]
       /\ tree'[Target] = [parent |-> OwnPitr, content |-> at2]
       /\ \A x \in DOMAIN tree : x # Target =>
             /\ tree'[x].parent = IF t[x].parent = Target THEN OwnPitr ELSE t[x].parent
             /\ tree'[x] = [parent |-> tree'[x].parent, content |-> tree'[x].content]
  <2>1. Target \in DOMAIN t /\ OwnPitr \notin DOMAIN t
    BY <1>6, <1>7
  <2>2. /\ DOMAIN tree' = DOMAIN t \cup {OwnPitr}
        /\ tree'[OwnPitr] = t[Target]
        /\ tree'[Target] = [parent |-> IF Target = Target THEN OwnPitr ELSE Target,
                            content |-> at2]
        /\ \A x \in DOMAIN t : x # Target =>
              /\ tree'[x].parent = IF t[x].parent = Target THEN OwnPitr ELSE t[x].parent
              /\ tree'[x] = [parent |-> tree'[x].parent, content |-> tree'[x].content]
    BY <1>8, <1>9, <2>1, ReplaceIs
  <2>3. QED
    BY <1>7, <2>2
<1>12. /\ tree'[OwnPitr].parent = tree[Target].parent
       /\ \A x \in DOMAIN tree : x # Target =>
             tree'[x].parent = IF tree[x].parent = Target THEN OwnPitr ELSE tree[x].parent
  BY <1>6, <1>10, <1>11
<1>13. TreeTypes'
  <2>1. tree'[OwnPitr] = [parent |-> tree'[OwnPitr].parent, content |-> tree'[OwnPitr].content]
    BY <1>6, <1>7, <1>9, <1>11
  <2>2. /\ tree'[Target] =
              [parent |-> tree'[Target].parent, content |-> tree'[Target].content]
        /\ tree'[Target].parent = IF Target = Target THEN OwnPitr ELSE Target
    BY <1>11
  <2>3. QED
    BY <1>1, <1>6, <1>11, <1>12, <2>1, <2>2, ReplaceTypes
<1>14. \/ pc' = "scratch" /\ created' = Append(created, OwnPitr) /\ alone' = alone
       \/ pc' = "scratch" /\ created' = created /\ alone' = FALSE
       \/ pc' = "trap" /\ created' = created /\ alone' = alone
  BY <1>2 DEF Drill!LookUp
<1>15. created' \in {created, Append(created, OwnPitr)} /\ (alone' => alone)
  BY <1>14
<1>16. /\ RunTypes' /\ ListTypes'
       /\ Tracked /\ created' = Append(created, OwnPitr) => Tracked'
  BY <1>1, <1>3, <1>4, <1>5, <1>11, <1>15, PreservedKeeps
<1>17. alone /\ Restored => Moved'
  <2>1. SUFFICES ASSUME alone, Restored
                 PROVE  Moved'
    OBVIOUS
  <2>2. original \notin Drill!Own(run) \cup {Target, NoBranch}
    BY <1>1, <1>4, <2>1 DEF RunTypes
  <2>3. /\ OwnRp' = OwnRp /\ OwnPreserved' = OwnPreserved /\ OwnPitr' = OwnPitr
        /\ OwnScratch' = OwnScratch /\ original' = original
    BY <1>3, OwnStays
  <2>4. /\ tree[Target].parent = OwnRp
        /\ OwnRp \in DOMAIN tree /\ tree[OwnRp].parent = OwnPreserved
        /\ OwnPreserved \in DOMAIN tree /\ tree[OwnPreserved].parent = original
        /\ \A x \in DOMAIN tree :
              /\ tree[x].parent \notin {Target, OwnPitr, OwnScratch}
              /\ tree[x].parent = OwnRp => x = Target
              /\ tree[x].parent = OwnPreserved => x = OwnRp
    BY <2>1 DEF Restored
  <2>5. /\ tree'[Target].parent = OwnPitr /\ tree'[OwnPitr].parent = OwnRp
        /\ tree'[OwnRp].parent = OwnPreserved /\ tree'[OwnPreserved].parent = original
    BY <1>5, <1>11, <1>12, <2>4
  <2>6. ASSUME NEW x \in DOMAIN tree'
        PROVE  /\ tree'[x].parent # OwnScratch
               /\ tree'[x].parent = Target => x = OwnScratch
               /\ tree'[x].parent = OwnPitr => x = Target
               /\ tree'[x].parent = OwnRp => x = OwnPitr
               /\ tree'[x].parent = OwnPreserved => x = OwnRp
    <3>1. CASE x = Target
      BY <1>5, <2>5, <3>1
    <3>2. CASE x = OwnPitr
      BY <1>5, <2>5, <3>2
    <3>3. CASE x \in DOMAIN tree /\ x # Target
      BY <1>5, <1>12, <2>4, <3>3
    <3>4. QED
      BY <1>11, <2>6, <3>1, <3>2, <3>3
  <2>7. QED
    BY <1>11, <2>3, <2>4, <2>5, <2>6 DEF Moved
<1>18. Phases'
  <2>1. CASE pc' = "scratch" /\ created' = Append(created, OwnPitr) /\ alone' = alone
    <3>1. alone' => Moved' /\ Tracked'
      BY <1>1, <1>3, <1>16, <1>17, <2>1 DEF Phases, BeforePitr
    <3>2. QED
      BY <2>1, <3>1 DEF Phases, BeforeRestore, BeforePitr, BeforeCleanup
  <2>2. CASE pc' = "trap"
    BY <2>2 DEF Phases, BeforeRestore, BeforePitr, BeforeCleanup
  <2>3. CASE ~alone'
    BY <2>3 DEF Phases
  <2>4. QED
    BY <1>14, <2>1, <2>2, <2>3
<1>19. QED
  BY <1>13, <1>16, <1>18 DEF DrillInv

(* The clean-up.                                                            *)
LEMMA TypesGoOn ==
    ASSUME DrillInv, run > 0, pc # "idle", Meddles, UNCHANGED <<run, original, alone>>,
           created' \in Seq(Drill!Own(run)),
           work' \in [todo : Seq(Drill!Own(run)), left : Seq(Drill!Own(run))],
           made' \in Seq(Branches), doomed' \in Seq(Branches),
           mishaps' \in Nat, passes' \in Int
    PROVE  TreeTypes' /\ RunTypes' /\ ListTypes'
<1>1. TreeTypes /\ RunTypes
  BY DEF DrillInv
<1>2. TreeTypes'
  BY <1>1, TreeTypesStay
<1>3. RunTypes'
  <2>1. DOMAIN tree' \subseteq DOMAIN tree \cup Points \cup Drill!Own(run)
    BY DEF Meddles
  <2>2. QED
    BY <1>1, <2>1, RunTypesStay
<1>4. Drill!Own(run)' = Drill!Own(run)
  BY OwnStays
<1>5. ListTypes'
  BY <1>4 DEF ListTypes
<1>6. QED
  BY <1>2, <1>3, <1>5

LEMMA NewWork ==
    ASSUME NEW S, NEW s \in Seq(S), NEW t \in Seq(S), NEW w, w = [todo |-> s, left |-> t]
    PROVE  w \in [todo : Seq(S), left : Seq(S)] /\ w.todo = s /\ w.left = t
OBVIOUS

LEMMA CleanRowsKeeps ==
    ASSUME DrillInv, Drill!CleanRows
    PROVE  DrillInv'
<1>1. TreeTypes /\ RunTypes /\ ListTypes /\ Phases
  BY DEF DrillInv
<1>2. /\ pc = "rows" /\ pc' = IF keep THEN "report" ELSE "leaves"
      /\ work' = [todo |-> created, left |-> <<>>] /\ passes' = 2
      /\ UNCHANGED <<run, keep, original, alone, created, mishaps, made, doomed>>
  BY DEF Drill!CleanRows, Drill!started, Drill!operator
<1>3. \E c : Drill!Write(c)
  BY Zenon DEF Drill!CleanRows
<1>4. Meddles
  BY <1>1, <1>3, WritesMeddle
<1>5. run > 0
  BY <1>1, <1>2 DEF RunTypes
<1>6. /\ work' \in [todo : Seq(Drill!Own(run)), left : Seq(Drill!Own(run))]
      /\ work'.todo = created /\ work'.left = <<>>
  <2>1. created \in Seq(Drill!Own(run)) /\ <<>> \in Seq(Drill!Own(run))
    BY <1>1, EmptySeq DEF ListTypes
  <2>2. QED
    BY <1>2, <2>1, NewWork
<1>7. TreeTypes' /\ RunTypes' /\ ListTypes'
  <2>1. /\ created' \in Seq(Drill!Own(run)) /\ made' \in Seq(Branches)
        /\ doomed' \in Seq(Branches) /\ mishaps' \in Nat /\ passes' \in Int
    BY <1>1, <1>2 DEF ListTypes
  <2>2. QED
    BY <1>2, <1>4, <1>5, <1>6, <2>1, TypesGoOn
<1>8. alone /\ ~keep => Moved' /\ Listed' /\ ScratchGoes'
  <2>1. SUFFICES ASSUME alone, ~keep
                 PROVE  Moved' /\ Listed' /\ ScratchGoes'
    OBVIOUS
  <2>2. Moved /\ Tracked
    BY <1>1, <1>2, <2>1 DEF Phases, BeforeCleanup
  <2>3. Moved'
    BY <1>1, <1>2, <1>4, <1>5, <2>2, MovedStays
  <2>4. Tracked'
    BY <1>1, <1>2, <1>4, <1>5, <2>2, TrackedStays
  <2>5. Listed'
    BY <1>2, <1>6, <2>4 DEF Tracked, Listed
  <2>6. OwnScratch' \in DOMAIN tree' => OwnScratch' \in Drill!ToSet(work'.todo)
    <3>1. OwnScratch' \in Drill!Own(run)'
      BY DEF OwnScratch, Drill!Own
    <3>2. QED
      BY <1>2, <1>6, <2>4, <3>1 DEF Tracked
  <2>7. passes' = 2 /\ passes' + mishaps' >= 2
    BY <1>1, <1>2 DEF ListTypes
  <2>8. ScratchGoes'
    BY <2>6, <2>7 DEF ScratchGoes
  <2>9. QED
    BY <2>3, <2>5, <2>8
<1>9. Phases'
  <2>1. CASE keep
    BY <1>2, <2>1 DEF Phases, BeforeRestore, BeforePitr, BeforeCleanup
  <2>2. CASE ~keep
    BY <1>2, <1>8, <2>2 DEF Phases, BeforeRestore, BeforePitr, BeforeCleanup
  <2>3. QED
    BY <2>1, <2>2
<1>10. QED
  BY <1>7, <1>9 DEF DrillInv

(* One DELETE: it went through, or the branch waits for the next pass, and  *)
(* then either it could not go or the refusal counts.                       *)
Gone(b) ==
    /\ Drill!Deletable(tree, b) /\ tree' = Drill!Without(tree, b)
    /\ made' = Drill!RemoveFirst(made, b)
    /\ work'.todo = Tail(work.todo) /\ work'.left = work.left /\ mishaps' = mishaps

Refused(b) ==
    /\ UNCHANGED <<tree, made>>
    /\ work'.todo = Tail(work.todo) /\ work'.left = Append(work.left, b)
    /\ mishaps' = IF Drill!Deletable(tree, b) THEN mishaps + 1 ELSE mishaps

LEMMA DeletingIs ==
    ASSUME DrillInv, Drill!Deleting
    PROVE  /\ run > 0 /\ pc \in {"leaves", "chain"} /\ work.todo # <<>>
           /\ UNCHANGED <<pc, run, keep, original, alone, created, passes, doomed>>
           /\ Head(work.todo) \in Drill!Own(run)
           /\ Gone(Head(work.todo)) \/ Refused(Head(work.todo))
           /\ work' \in [todo : Seq(Drill!Own(run)), left : Seq(Drill!Own(run))]
           /\ mishaps' \in Nat /\ mishaps <= mishaps'
<1>1. RunTypes /\ ListTypes
  BY DEF DrillInv
<1>2. /\ pc \in {"leaves", "chain"} /\ work.todo # <<>>
      /\ UNCHANGED <<pc, run, keep, original, alone, created, passes, doomed>>
      /\ Drill!TryDelete(Head(work.todo))
  BY DEF Drill!Deleting, Drill!started
<1>3. run > 0
  BY <1>1, <1>2 DEF RunTypes
<1> DEFINE S == Drill!Own(run)  b == Head(work.todo)
<1>4. work = [todo |-> work.todo, left |-> work.left] /\ work.todo \in Seq(S) /\ work.left \in Seq(S)
  BY <1>1 DEF ListTypes
<1>5. b \in S /\ Tail(work.todo) \in Seq(S)
  BY <1>2, <1>4, TailSet
<1>6. Append(work.left, b) \in Seq(S)
  BY <1>4, <1>5, AppendSet
<1>7. mishaps \in Nat
  BY <1>1 DEF ListTypes
<1>8. CASE /\ Drill!Deletable(tree, b) /\ tree' = Drill!Without(tree, b)
           /\ made' = Drill!RemoveFirst(made, b)
           /\ work' = [work EXCEPT !.todo = Tail(@)] /\ mishaps' = mishaps
  <2>1. work' = [todo |-> Tail(work.todo), left |-> work.left]
    BY <1>4, <1>8
  <2>2. /\ work' \in [todo : Seq(S), left : Seq(S)]
        /\ work'.todo = Tail(work.todo) /\ work'.left = work.left
    BY <1>4, <1>5, <2>1, NewWork
  <2>3. Gone(b)
    BY <1>8, <2>2 DEF Gone
  <2>4. QED
    BY <1>2, <1>3, <1>5, <1>7, <1>8, <2>2, <2>3
<1>9. CASE /\ UNCHANGED <<tree, made>>
           /\ work' = [todo |-> Tail(work.todo), left |-> Append(work.left, b)]
           /\ mishaps' = IF Drill!Deletable(tree, b) THEN mishaps + 1 ELSE mishaps
  <2>1. /\ work' \in [todo : Seq(S), left : Seq(S)]
        /\ work'.todo = Tail(work.todo) /\ work'.left = Append(work.left, b)
    BY <1>5, <1>6, <1>9, NewWork
  <2>2. Refused(b)
    BY <1>9, <2>1 DEF Refused
  <2>3. mishaps' \in Nat /\ mishaps <= mishaps'
    BY <1>7, <1>9
  <2>4. QED
    BY <1>2, <1>3, <1>5, <2>1, <2>2, <2>3
<1>10. QED
  <2>1. \/ /\ Drill!Deletable(tree, b) /\ tree' = Drill!Without(tree, b)
           /\ made' = Drill!RemoveFirst(made, b)
           /\ work' = [work EXCEPT !.todo = Tail(@)] /\ mishaps' = mishaps
        \/ /\ UNCHANGED <<tree, made>>
           /\ work' = [todo |-> Tail(work.todo), left |-> Append(work.left, b)]
           /\ mishaps' = IF Drill!Deletable(tree, b) THEN mishaps + 1 ELSE mishaps
    BY <1>2 DEF Drill!TryDelete
  <2>2. QED
    BY <1>8, <1>9, <2>1

LEMMA DeletingMeddles ==
    ASSUME DrillInv, run > 0, NEW b \in Drill!Own(run), Gone(b) \/ Refused(b)
    PROVE  /\ Meddles /\ made' \in Seq(Branches)
           /\ Gone(b) => b \notin DOMAIN tree'
<1>1. TreeTypes /\ RunTypes /\ made \in Seq(Branches)
  BY DEF DrillInv, ListTypes
<1>2. b # Target
  BY <1>1, OwnNames
<1>3. CASE Gone(b)
  <2>1. /\ Drill!Deletable(tree, b) /\ tree' = Drill!Without(tree, b)
        /\ made' = Drill!RemoveFirst(made, b)
    BY <1>3 DEF Gone
  <2>2. Meddles /\ DOMAIN tree' = DOMAIN tree \ {b}
    BY <1>1, <1>2, <2>1, DeleteMeddles
  <2>3. made' \in Seq(Branches)
    BY <1>1, <2>1, RemovedIsSeq
  <2>4. QED
    BY <2>2, <2>3
<1>4. CASE ~Gone(b) /\ Refused(b)
  <2>1. tree' = tree /\ made' = made
    BY <1>4 DEF Refused
  <2>2. QED
    BY <1>1, <1>4, <2>1, SameMeddles
<1>5. QED
  BY <1>3, <1>4

(* What a pass has still to try, or could not delete, is all that is left.  *)
LEMMA ListedGoesOn ==
    ASSUME DrillInv, run > 0, Listed, work.todo # <<>>, UNCHANGED run,
           Gone(Head(work.todo)) \/ Refused(Head(work.todo))
    PROVE  Listed'
<1> DEFINE S == Drill!Own(run)  b == Head(work.todo)
<1>1. work.todo \in Seq(S) /\ work.left \in Seq(S)
  BY DEF DrillInv, ListTypes
<1>2. b \in S /\ Drill!ToSet(work.todo) = {b} \cup Drill!ToSet(Tail(work.todo))
  BY <1>1, TailSet
<1>3. Drill!ToSet(Append(work.left, b)) = Drill!ToSet(work.left) \cup {b}
  BY <1>1, <1>2, AppendSet
<1>4. Meddles /\ (Gone(b) => b \notin DOMAIN tree')
  BY <1>2, DeletingMeddles
<1>5. S \cap DOMAIN tree' \subseteq S \cap DOMAIN tree /\ Drill!Own(run)' = S
  BY <1>4, TrackedStays, OwnStays DEF DrillInv
<1>6. CASE Gone(b)
  <2>1. work'.todo = Tail(work.todo) /\ work'.left = work.left
    BY <1>6 DEF Gone
  <2>2. QED
    BY <1>2, <1>4, <1>5, <1>6, <2>1 DEF Listed
<1>7. CASE Refused(b)
  <2>1. work'.todo = Tail(work.todo) /\ work'.left = Append(work.left, b)
    BY <1>7 DEF Refused
  <2>2. QED
    BY <1>2, <1>3, <1>5, <2>1 DEF Listed
<1>8. QED
  BY <1>6, <1>7

(* Nothing hangs from the scratch branch, so that its DELETE either goes    *)
(* through or is a refusal that counts.                                     *)
LEMMA ScratchGoesOn ==
    ASSUME DrillInv, run > 0, Moved, ScratchGoes, work.todo # <<>>, UNCHANGED <<run, passes>>,
           Gone(Head(work.todo)) \/ Refused(Head(work.todo)), mishaps <= mishaps', mishaps' \in Nat
    PROVE  ScratchGoes'
<1> DEFINE S == Drill!Own(run)  b == Head(work.todo)
<1>1. work.todo \in Seq(S) /\ mishaps \in Nat /\ RunTypes
  BY DEF DrillInv, ListTypes
<1>2. b \in S /\ Drill!ToSet(work.todo) = {b} \cup Drill!ToSet(Tail(work.todo))
  BY <1>1, TailSet
<1>3. Meddles /\ (Gone(b) => b \notin DOMAIN tree')
  BY <1>2, DeletingMeddles
<1>4. OwnScratch' = OwnScratch /\ OwnScratch \in S /\ OwnScratch \notin Points
  BY <1>1, OwnStays, OwnBranches, OwnNames
<1>5. work'.todo = Tail(work.todo)
  BY DEF Gone, Refused
<1>6. passes \in {1, 2} /\ passes' = passes
  BY DEF ScratchGoes
<1>7. SUFFICES ASSUME OwnScratch \in DOMAIN tree'
               PROVE  \/ OwnScratch \in Drill!ToSet(work'.todo) /\ passes + mishaps' >= 2
                      \/ passes + mishaps' >= 3
  BY <1>4, <1>6 DEF ScratchGoes
<1>8. OwnScratch \in DOMAIN tree
  BY <1>3, <1>4, <1>7 DEF Meddles
<1>9. CASE passes + mishaps >= 3
  BY <1>1, <1>6, <1>9
<1>10. CASE OwnScratch \in Drill!ToSet(work.todo) /\ passes + mishaps >= 2
  <2>1. passes + mishaps' >= 2
    BY <1>1, <1>6, <1>10
  <2>2. CASE OwnScratch # b
    BY <1>2, <1>5, <1>10, <2>1, <2>2
  <2>3. CASE OwnScratch = b
    <3>1. Refused(b)
      BY <1>3, <1>7, <2>3
    <3>2. Drill!Deletable(tree, b)
      BY <1>8, <2>3 DEF Moved, Drill!Deletable, Drill!Children
    <3>3. mishaps' = mishaps + 1
      BY <3>1, <3>2 DEF Refused
    <3>4. QED
      BY <1>1, <1>6, <1>10, <3>3
  <2>4. QED
    BY <2>2, <2>3
<1>11. QED
  BY <1>8, <1>9, <1>10 DEF ScratchGoes

(* The same for the end of the chain.                                       *)
LEMMA DeepestGoes ==
    ASSUME PutBack, Deepest \in DOMAIN tree, Depth # 0
    PROVE  Drill!Deletable(tree, Deepest)
  BY DEF PutBack, Depth, Deepest, Drill!Deletable, Drill!Children

LEMMA OneLess ==
    ASSUME NEW d \in 0 .. 3, NEW n \in Int, NEW m \in Nat, NEW k \in Nat, m <= k
    PROVE  /\ d + 2 <= n + m => d + 2 <= n + k
           /\ d + 3 <= n + m => d + 3 <= n + k
           /\ d + 2 <= n + m /\ k = m + 1 => d + 3 <= n + k
OBVIOUS

LEMMA ChainGoesAlong ==
    ASSUME DrillInv, run > 0, PutBack, ChainGoes, work.todo # <<>>, UNCHANGED <<run, passes>>,
           Gone(Head(work.todo)) \/ Refused(Head(work.todo)), mishaps <= mishaps', mishaps' \in Nat
    PROVE  ChainGoes'
<1> DEFINE S == Drill!Own(run)  b == Head(work.todo)
<1>1. work.todo \in Seq(S) /\ mishaps \in Nat /\ passes \in Int /\ TreeTypes /\ RunTypes
  BY DEF DrillInv, ListTypes
<1>2. b \in S /\ Drill!ToSet(work.todo) = {b} \cup Drill!ToSet(Tail(work.todo))
  BY <1>1, TailSet
<1>3. Meddles /\ (Gone(b) => b \notin DOMAIN tree')
  BY <1>2, DeletingMeddles
<1>4. /\ Depth \in 0 .. 3 /\ Depth' \in 0 .. 3
      /\ (Depth' = Depth /\ (Depth # 0 => Deepest' = Deepest)) \/ Depth' < Depth
      /\ Depth # 0 => Deepest \in DOMAIN tree
  BY <1>1, <1>3, ChainShortens
<1>5. work'.todo = Tail(work.todo)
  BY DEF Gone, Refused
<1>6. SUFFICES ASSUME Depth' # 0
               PROVE  \/ Deepest' \in Drill!ToSet(work'.todo) /\ Depth' + 2 <= passes + mishaps'
                      \/ Depth' + 3 <= passes + mishaps'
  BY DEF ChainGoes
<1>7. CASE Depth' < Depth
  <2>1. Depth + 2 <= passes + mishaps \/ Depth + 3 <= passes + mishaps
    BY <1>4, <1>7 DEF ChainGoes
  <2>2. Depth' + 3 <= passes + mishaps
    BY <1>1, <1>4, <1>7, <2>1, Shorter
  <2>3. QED
    BY <1>1, <1>4, <2>2, OneLess
<1>8. CASE Depth' = Depth /\ Deepest' = Deepest /\ Depth # 0
  <2>1. CASE Depth + 3 <= passes + mishaps
    BY <1>1, <1>4, <1>8, <2>1, OneLess
  <2>2. CASE Deepest \in Drill!ToSet(work.todo) /\ Depth + 2 <= passes + mishaps
    <3>1. Depth + 2 <= passes + mishaps'
      BY <1>1, <1>4, <2>2, OneLess
    <3>2. CASE Deepest # b
      BY <1>2, <1>5, <1>8, <2>2, <3>1, <3>2
    <3>3. CASE Deepest = b
      <4>1. Drill!Deletable(tree, b)
        BY <1>4, <1>8, <3>3, DeepestGoes
      <4>2. Deepest' \in DOMAIN tree'
        BY <1>6 DEF Depth, Deepest
      <4>3. Refused(b)
        BY <1>3, <1>8, <3>3, <4>2
      <4>4. mishaps' = mishaps + 1
        BY <4>1, <4>3 DEF Refused
      <4>5. QED
        BY <1>1, <1>4, <1>8, <2>2, <4>4, OneLess
    <3>4. QED
      BY <3>2, <3>3
  <2>3. QED
    BY <1>8, <2>1, <2>2 DEF ChainGoes
<1>9. QED
  BY <1>4, <1>6, <1>7, <1>8

LEMMA DeletingKeeps ==
    ASSUME DrillInv, Drill!Deleting
    PROVE  DrillInv'
<1>1. TreeTypes /\ RunTypes /\ ListTypes /\ Phases
  BY DEF DrillInv
<1> DEFINE S == Drill!Own(run)  b == Head(work.todo)
<1>2. /\ run > 0 /\ pc \in {"leaves", "chain"} /\ work.todo # <<>>
      /\ UNCHANGED <<pc, run, keep, original, alone, created, passes, doomed>>
      /\ b \in S
      /\ work' \in [todo : Seq(S), left : Seq(S)]
      /\ mishaps' \in Nat /\ mishaps <= mishaps'
  BY DeletingIs
<1>3. Gone(b) \/ Refused(b)
  BY DeletingIs
<1>4. Meddles /\ made' \in Seq(Branches)
  BY <1>2, <1>3, DeletingMeddles
<1>5. TreeTypes' /\ RunTypes' /\ ListTypes'
  <2>1. created' \in Seq(S) /\ doomed' \in Seq(Branches) /\ passes' \in Int /\ mishaps' \in Nat
    BY <1>1, <1>2 DEF ListTypes
  <2>2. work' \in [todo : Seq(S), left : Seq(S)]
    BY DeletingIs
  <2>3. QED
    BY <1>2, <1>4, <2>1, <2>2, TypesGoOn
<1>6. mishaps' <= 1 => mishaps <= 1
  <2>1. mishaps \in Nat /\ mishaps' \in Nat /\ mishaps <= mishaps'
    BY <1>1, DeletingIs DEF ListTypes
  <2>2. QED
    BY <2>1
<1>7. mishaps' \in Nat /\ mishaps <= mishaps'
  BY DeletingIs
<1>8. /\ Listed => Listed'
      /\ Moved => Moved'
      /\ PutBack => PutBack'
      /\ Moved /\ ScratchGoes => ScratchGoes'
      /\ PutBack /\ ChainGoes => ChainGoes'
  <2>1. Listed => Listed'
    BY <1>2, <1>3, ListedGoesOn
  <2>2. (Moved => Moved') /\ (PutBack => PutBack')
    BY <1>1, <1>2, <1>4, MovedStays, PutBackStays
  <2>3. Moved /\ ScratchGoes => ScratchGoes'
    BY <1>2, <1>3, <1>7, ScratchGoesOn
  <2>4. PutBack /\ ChainGoes => ChainGoes'
    BY <1>2, <1>3, <1>7, ChainGoesAlong
  <2>5. QED
    BY <2>1, <2>2, <2>3, <2>4
<1>9. Phases'
  BY <1>1, <1>2, <1>6, <1>8 DEF Phases, BeforeRestore, BeforePitr, BeforeCleanup
<1>10. QED
  BY <1>5, <1>9 DEF DrillInv

(* The end of a pass: whatever is left was refused in it.                   *)
LEMMA LeftOver ==
    ASSUME DrillInv, Listed, work.todo = <<>>
    PROVE  /\ Drill!Own(run) \cap DOMAIN tree \subseteq Drill!ToSet(work.left)
           /\ work.left = <<>> => Drill!Own(run) \cap DOMAIN tree = {}
           /\ \A x : x \notin Drill!ToSet(work.todo)
  BY EmptySet DEF Listed

LEMMA PassEndsLeaves ==
    ASSUME DrillInv, run > 0, Moved, Listed, ScratchGoes, mishaps <= 1, work.todo = <<>>,
           UNCHANGED <<tree, run, original, mishaps>>, created' = work.left
    PROVE  /\ work.left = <<>> \/ passes = 1 =>
                 Moved' /\ Tracked' /\ OwnScratch' \notin DOMAIN tree'
           /\ /\ work.left # <<>> /\ passes # 1 /\ passes' = passes - 1
              /\ work'.todo = work.left /\ work'.left = <<>>
              => Moved' /\ Listed' /\ ScratchGoes'
<1>1. TreeTypes /\ RunTypes /\ mishaps \in Nat
  BY DEF DrillInv, ListTypes
<1>2. /\ OwnScratch' = OwnScratch /\ OwnScratch \in Drill!Own(run)
      /\ Drill!Own(run)' = Drill!Own(run)
  BY <1>1, OwnStays, OwnBranches
<1>3. /\ Drill!Own(run) \cap DOMAIN tree \subseteq Drill!ToSet(work.left)
      /\ work.left = <<>> => Drill!Own(run) \cap DOMAIN tree = {}
      /\ OwnScratch \notin Drill!ToSet(work.todo)
  BY LeftOver
<1>4. Moved'
  BY <1>1, SameMeddles, MovedStays
<1>5. OwnScratch \in DOMAIN tree => passes + mishaps >= 3
  BY <1>3 DEF ScratchGoes
<1>6. passes \in {1, 2}
  BY DEF ScratchGoes
<1>7. ASSUME work.left = <<>> \/ passes = 1
      PROVE  Tracked' /\ OwnScratch' \notin DOMAIN tree'
  <2>1. Tracked'
    BY <1>2, <1>3 DEF Tracked
  <2>2. OwnScratch \notin DOMAIN tree
    <3>1. CASE work.left = <<>>
      BY <1>2, <1>3, <3>1
    <3>2. CASE passes = 1
      BY <1>1, <1>5, <3>2
    <3>3. QED
      BY <1>7, <3>1, <3>2
  <2>3. QED
    BY <1>2, <2>1, <2>2
<1>8. ASSUME passes # 1, passes' = passes - 1, work'.todo = work.left, work'.left = <<>>
      PROVE  Listed' /\ ScratchGoes'
  <2>1. Listed'
    BY <1>2, <1>3, <1>8 DEF Listed
  <2>2. passes = 2 /\ passes' = 1
    BY <1>6, <1>8
  <2>3. OwnScratch \in DOMAIN tree =>
            OwnScratch \in Drill!ToSet(work'.todo) /\ passes' + mishaps' >= 2
    BY <1>1, <1>2, <1>3, <1>5, <1>8, <2>2
  <2>4. ScratchGoes'
    BY <1>2, <2>2, <2>3 DEF ScratchGoes
  <2>5. QED
    BY <2>1, <2>4
<1>9. QED
  BY <1>4, <1>7, <1>8

LEMMA OneMore ==
    ASSUME NEW d \in 0 .. 3, NEW n \in Int, NEW m \in Nat, d + 3 <= n + m
    PROVE  d + 2 <= n - 1 + m /\ (m <= 1 => n # 1)
OBVIOUS

LEMMA PassEndsChain ==
    ASSUME DrillInv, run > 0, PutBack, Listed, ChainGoes, mishaps <= 1, work.todo = <<>>,
           UNCHANGED <<tree, run, original, mishaps>>, created' = work.left
    PROVE  /\ work.left = <<>> \/ passes = 1 => Tidy'
           /\ /\ work.left # <<>> /\ passes # 1 /\ passes' = passes - 1
              /\ work'.todo = work.left /\ work'.left = <<>>
              => PutBack' /\ Listed' /\ ChainGoes'
<1>1. TreeTypes /\ RunTypes /\ mishaps \in Nat /\ passes \in Int
  BY DEF DrillInv, ListTypes
<1>2. /\ Drill!Own(run)' = Drill!Own(run)
      /\ Drill!Own(run) = {OwnRp, OwnPreserved, OwnPitr, OwnScratch}
  BY <1>1, OwnStays, OwnBranches
<1>3. /\ Drill!Own(run) \cap DOMAIN tree \subseteq Drill!ToSet(work.left)
      /\ work.left = <<>> => Drill!Own(run) \cap DOMAIN tree = {}
      /\ Deepest \notin Drill!ToSet(work.todo)
  BY LeftOver
<1>4. PutBack'
  BY <1>1, SameMeddles, PutBackStays
<1>5. /\ Depth \in 0 .. 3
      /\ Depth = 0 => {OwnRp, OwnPreserved, OwnPitr} \cap DOMAIN tree = {}
      /\ Depth # 0 => Deepest \in DOMAIN tree /\ Deepest \in Drill!Own(run)
  BY <1>1, <1>2, SameMeddles, ChainShortens
<1>6. Depth # 0 => Depth + 3 <= passes + mishaps
  BY <1>3 DEF ChainGoes
<1>7. ASSUME work.left = <<>> \/ passes = 1
      PROVE  Tidy'
  <2>1. Drill!Own(run) \cap DOMAIN tree = {}
    <3>1. CASE work.left = <<>>
      BY <1>3, <3>1
    <3>2. CASE passes = 1
      <4>1. Depth = 0
        BY <1>1, <1>5, <1>6, <3>2, OneMore
      <4>2. OwnScratch \notin DOMAIN tree
        BY DEF PutBack
      <4>3. QED
        BY <1>2, <1>5, <4>1, <4>2
    <3>3. QED
      BY <1>7, <3>1, <3>2
  <2>2. Unmoved'
    BY DEF PutBack, Unmoved
  <2>3. QED
    BY <1>2, <2>1, <2>2 DEF Tidy
<1>8. ASSUME passes' = passes - 1, work'.todo = work.left, work'.left = <<>>
      PROVE  Listed' /\ ChainGoes'
  <2>1. Listed'
    BY <1>2, <1>3, <1>8 DEF Listed
  <2>2. Depth' = Depth /\ Deepest' = Deepest
    BY OwnStays DEF Depth, Deepest
  <2>3. Depth # 0 => Deepest \in Drill!ToSet(work'.todo)
    BY <1>3, <1>5, <1>8
  <2>4. Depth # 0 => Depth + 2 <= passes' + mishaps'
    BY <1>1, <1>5, <1>6, <1>8, OneMore
  <2>5. ChainGoes'
    BY <2>2, <2>3, <2>4 DEF ChainGoes
  <2>6. QED
    BY <2>1, <2>5
<1>9. QED
  BY <1>4, <1>7, <1>8

LEMMA EndPassKeeps ==
    ASSUME DrillInv, Drill!EndPass
    PROVE  DrillInv'
<1>1. TreeTypes /\ RunTypes /\ ListTypes /\ Phases
  BY DEF DrillInv
<1> DEFINE S == Drill!Own(run)
<1>2. /\ pc \in {"leaves", "chain"} /\ work.todo = <<>> /\ created' = work.left
      /\ UNCHANGED <<tree, run, keep, original, alone, mishaps, made, doomed>>
  BY DEF Drill!EndPass, Drill!started, Drill!operator
<1>3. \/ /\ work.left = <<>> \/ passes = 1
         /\ pc' = IF pc = "leaves" THEN "lineage" ELSE "report"
         /\ passes' = 3 /\ work' = [todo |-> <<>>, left |-> <<>>]
      \/ /\ work.left # <<>> /\ passes # 1
         /\ passes' = passes - 1 /\ work' = [todo |-> work.left, left |-> <<>>] /\ pc' = pc
  BY DEF Drill!EndPass, Drill!NoWork
<1>4. run > 0
  BY <1>1, <1>2 DEF RunTypes
<1>5. work.left \in Seq(S) /\ <<>> \in Seq(S) /\ mishaps \in Nat /\ passes \in Int
  BY <1>1, EmptySeq DEF ListTypes
<1>6. /\ work' \in [todo : Seq(S), left : Seq(S)] /\ work'.left = <<>>
      /\ work' = [todo |-> work.left, left |-> <<>>] => work'.todo = work.left
  <2>1. CASE work' = [todo |-> <<>>, left |-> <<>>]
    <3>1. work' \in [todo : Seq(S), left : Seq(S)] /\ work'.left = <<>> /\ work'.todo = <<>>
      BY <1>5, <2>1, NewWork
    <3>2. work' = [todo |-> work.left, left |-> <<>>] => work'.todo = work.left
      OBVIOUS
    <3>3. QED
      BY <3>1, <3>2
  <2>2. CASE work' = [todo |-> work.left, left |-> <<>>]
    <3>1. /\ work' \in [todo : Seq(S), left : Seq(S)]
          /\ work'.left = <<>> /\ work'.todo = work.left
      BY <1>5, <2>2, NewWork
    <3>2. QED
      BY <3>1
  <2>3. QED
    BY <1>3, <2>1, <2>2
<1>7. TreeTypes' /\ RunTypes' /\ ListTypes'
  <2>1. /\ created' \in Seq(S) /\ made' \in Seq(Branches) /\ doomed' \in Seq(Branches)
        /\ mishaps' \in Nat
    BY <1>1, <1>2, <1>5 DEF ListTypes
  <2>2. passes' \in Int
    BY <1>3, <1>5
  <2>3. Meddles
    BY <1>1, <1>2, SameMeddles
  <2>4. QED
    BY <1>2, <1>4, <1>6, <2>1, <2>2, <2>3, TypesGoOn
<1>8. CASE pc = "leaves"
  <2>1. alone /\ mishaps <= 1 =>
            /\ work.left = <<>> \/ passes = 1 =>
                  Moved' /\ Tracked' /\ OwnScratch' \notin DOMAIN tree'
            /\ /\ work.left # <<>> /\ passes # 1 /\ passes' = passes - 1
               /\ work'.todo = work.left /\ work'.left = <<>>
               => Moved' /\ Listed' /\ ScratchGoes'
    BY <1>1, <1>2, <1>4, <1>8, PassEndsLeaves DEF Phases
  <2>2. CASE /\ work.left = <<>> \/ passes = 1
             /\ pc' = "lineage" /\ passes' = 3
    <3>1. passes' + mishaps' >= 3
      BY <1>2, <1>5, <2>2
    <3>2. Phases'
      BY <1>2, <2>1, <2>2, <3>1 DEF Phases, BeforeRestore, BeforePitr, BeforeCleanup
    <3>3. QED
      BY <1>7, <3>2 DEF DrillInv
  <2>3. CASE /\ work.left # <<>> /\ passes # 1 /\ pc' = pc
             /\ passes' = passes - 1 /\ work' = [todo |-> work.left, left |-> <<>>]
    <3>1. Phases'
      BY <1>2, <1>6, <1>8, <2>1, <2>3 DEF Phases, BeforeRestore, BeforePitr, BeforeCleanup
    <3>2. QED
      BY <1>7, <3>1 DEF DrillInv
  <2>4. QED
    BY <1>3, <1>8, <2>2, <2>3
<1>9. CASE pc = "chain"
  <2>1. alone /\ mishaps <= 1 =>
            /\ work.left = <<>> \/ passes = 1 => Tidy'
            /\ /\ work.left # <<>> /\ passes # 1 /\ passes' = passes - 1
               /\ work'.todo = work.left /\ work'.left = <<>>
               => PutBack' /\ Listed' /\ ChainGoes'
    BY <1>1, <1>2, <1>4, <1>9, PassEndsChain DEF Phases
  <2>2. CASE (work.left = <<>> \/ passes = 1) /\ pc' = "report"
    <3>1. Phases'
      BY <1>2, <2>1, <2>2 DEF Phases, BeforeRestore, BeforePitr, BeforeCleanup
    <3>2. QED
      BY <1>7, <3>1 DEF DrillInv
  <2>3. CASE /\ work.left # <<>> /\ passes # 1 /\ pc' = pc
             /\ passes' = passes - 1 /\ work' = [todo |-> work.left, left |-> <<>>]
    <3>1. Phases'
      BY <1>2, <1>6, <1>9, <2>1, <2>3 DEF Phases, BeforeRestore, BeforePitr, BeforeCleanup
    <3>2. QED
      BY <1>7, <3>1 DEF DrillInv
  <2>4. QED
    BY <1>3, <1>9, <2>2, <2>3
<1>10. QED
  BY <1>2, <1>8, <1>9

LEMMA ResetIs ==
    ASSUME TreeTypes, NEW source, Drill!CanReset(tree, Target, source),
           tree' = Drill!Reset(tree, Target, source)
    PROVE  /\ source \in DOMAIN tree /\ DOMAIN tree' = DOMAIN tree
           /\ tree'[Target].parent = source
           /\ tree'[Target] = [parent |-> tree'[Target].parent, content |-> tree'[Target].content]
           /\ \A x \in DOMAIN tree : x # Target => tree'[x] = tree[x]
<1>1. tree' = [tree EXCEPT ![Target] = [parent |-> source, content |-> tree[source].content]]
  BY DEF Drill!Reset
<1>2. source \in DOMAIN tree
  BY DEF Drill!CanReset
<1>3. /\ DOMAIN tree' = DOMAIN tree
      /\ tree'[Target] = [parent |-> source, content |-> tree[source].content]
      /\ \A x \in DOMAIN tree : x # Target => tree'[x] = tree[x]
  BY <1>1 DEF TreeTypes
<1>4. QED
  BY <1>2, <1>3

LEMMA FivePasses ==
    ASSUME NEW n, NEW m \in Nat, n = 5
    PROVE  3 + 2 <= n + m
OBVIOUS

(* The target back below its first parent, its branches a chain again.      *)
LEMMA ComesBack ==
    ASSUME TreeTypes, RunTypes, run > 0, alone, Moved, Tracked, OwnScratch \notin DOMAIN tree,
           UNCHANGED <<run, original>>, work'.todo = created, passes' = 5, mishaps' \in Nat,
           Drill!CanReset(tree, Target, original), tree' = Drill!Reset(tree, Target, original)
    PROVE  PutBack' /\ Listed' /\ ChainGoes'
<1>1. /\ DOMAIN tree' = DOMAIN tree
      /\ tree'[Target].parent = original
      /\ \A x \in DOMAIN tree : x # Target => tree'[x] = tree[x]
  BY ResetIs
<1>2. original \notin Drill!Own(run) \cup {Target, NoBranch}
  BY DEF RunTypes
<1>3. /\ Drill!Own(run) = {OwnRp, OwnPreserved, OwnPitr, OwnScratch}
      /\ OwnRp # OwnPreserved /\ OwnRp # OwnPitr /\ OwnRp # OwnScratch
      /\ OwnPreserved # OwnPitr /\ OwnPreserved # OwnScratch /\ OwnPitr # OwnScratch
      /\ Target \notin Drill!Own(run)
  BY OwnBranches, OwnNames
<1>4. /\ OwnRp' = OwnRp /\ OwnPreserved' = OwnPreserved /\ OwnPitr' = OwnPitr
      /\ OwnScratch' = OwnScratch /\ Drill!Own(run)' = Drill!Own(run)
  BY OwnStays
<1>5. PutBack'
  <2>1. Unmoved'
    BY <1>1 DEF Unmoved
  <2>2. /\ OwnPitr \in DOMAIN tree /\ tree'[OwnPitr].parent = OwnRp
        /\ OwnRp \in DOMAIN tree /\ tree'[OwnRp].parent = OwnPreserved
    BY <1>1, <1>3 DEF Moved
  <2>3. ASSUME NEW x \in DOMAIN tree'
        PROVE  /\ tree'[x].parent \notin {Target, OwnPitr}
               /\ tree'[x].parent = OwnRp => x = OwnPitr
               /\ tree'[x].parent = OwnPreserved => x = OwnRp
    <3>1. CASE x = Target
      BY <1>1, <1>2, <1>3, <3>1
    <3>2. CASE x # Target
      BY <1>1, <3>2 DEF Moved
    <3>3. QED
      BY <3>1, <3>2
  <2>4. QED
    BY <1>1, <1>4, <2>1, <2>2, <2>3 DEF PutBack
<1>6. Listed'
  BY <1>1, <1>4 DEF Tracked, Listed
<1>7. ChainGoes'
  <2>1. OwnPitr \in DOMAIN tree /\ OwnPitr \in Drill!ToSet(created)
    BY <1>3 DEF Moved, Tracked
  <2>2. Depth' = 3 /\ Deepest' = OwnPitr
    BY <1>1, <1>4, <2>1 DEF Depth, Deepest
  <2>3. 3 + 2 <= passes' + mishaps'
    BY FivePasses
  <2>4. QED
    BY <2>1, <2>2, <2>3 DEF ChainGoes
<1>8. QED
  BY <1>5, <1>6, <1>7

(* It can come back as soon as the scratch branch is gone.                  *)
LEMMA CanComeBack ==
    ASSUME TreeTypes, RunTypes, run > 0, alone, Moved, OwnScratch \notin DOMAIN tree
    PROVE  Drill!CanReset(tree, Target, original)
<1>1. original # NoBranch
  BY DEF RunTypes
<1>2. original \in DOMAIN tree
  BY <1>1 DEF Moved, TreeTypes
<1>3. Drill!Children(tree, Target) = {}
  BY DEF Moved, Drill!Children
<1>4. QED
  BY <1>2, <1>3 DEF TreeTypes, Drill!CanReset

LEMMA StillTime ==
    ASSUME NEW n \in Int, NEW m \in Nat, NEW k \in Nat, n + m >= 3, k <= 1
    PROVE  /\ k = m + 1 => n - 1 + k >= 3
           /\ m <= k => n > 1
OBVIOUS

LEMMA LineageKeeps ==
    ASSUME DrillInv, Drill!Lineage
    PROVE  DrillInv'
<1>1. TreeTypes /\ RunTypes /\ ListTypes /\ Phases
  BY DEF DrillInv
<1> DEFINE S == Drill!Own(run)
<1>2. /\ pc = "lineage" /\ work' = [todo |-> created, left |-> <<>>]
      /\ UNCHANGED <<run, keep, original, alone, created, made, doomed>>
  BY DEF Drill!Lineage, Drill!started, Drill!operator
<1>3. \/ /\ Drill!CanReset(tree, Target, original)
         /\ tree' = Drill!Reset(tree, Target, original)
         /\ pc' = "chain" /\ passes' = 5 /\ mishaps' = mishaps
      \/ /\ mishaps' = IF Drill!CanReset(tree, Target, original) THEN mishaps + 1 ELSE mishaps
         /\ \/ passes > 1 /\ passes' = passes - 1 /\ pc' = pc
            \/ ~(passes > 1) /\ pc' = "chain" /\ passes' = 5
         /\ tree' = tree
  BY DEF Drill!Lineage
<1>4. run > 0 /\ mishaps \in Nat /\ passes \in Int
  BY <1>1, <1>2 DEF RunTypes, ListTypes
<1>5. mishaps' \in Nat /\ mishaps <= mishaps' /\ passes' \in Int
  BY <1>3, <1>4
<1>6. work' \in [todo : Seq(S), left : Seq(S)] /\ work'.todo = created
  <2>1. created \in Seq(S) /\ <<>> \in Seq(S)
    BY <1>1, EmptySeq DEF ListTypes
  <2>2. QED
    BY <1>2, <2>1, NewWork
<1>7. ListTypes'
  <2>1. S' = S
    BY <1>2, OwnStays
  <2>2. QED
    BY <1>1, <1>2, <1>5, <1>6, <2>1 DEF ListTypes
<1>8. mishaps' <= 1 => mishaps <= 1
  BY <1>4, <1>5
<1>9. alone /\ mishaps' <= 1 =>
          /\ Moved /\ Tracked /\ OwnScratch \notin DOMAIN tree
          /\ passes + mishaps >= 3
  BY <1>1, <1>2, <1>8 DEF Phases
<1>10. CASE /\ Drill!CanReset(tree, Target, original)
            /\ tree' = Drill!Reset(tree, Target, original)
            /\ pc' = "chain" /\ passes' = 5
  <2>1. /\ original \in DOMAIN tree /\ DOMAIN tree' = DOMAIN tree
        /\ tree'[Target].parent = original
        /\ tree'[Target] = [parent |-> tree'[Target].parent, content |-> tree'[Target].content]
        /\ \A x \in DOMAIN tree : x # Target => tree'[x] = tree[x]
    BY <1>1, <1>10, ResetIs
  <2>2. TreeTypes'
    BY <1>1, <2>1 DEF TreeTypes
  <2>3. RunTypes'
    BY <1>1, <1>2, <2>1, RunTypesStay
  <2>4. alone /\ mishaps' <= 1 => PutBack' /\ Listed' /\ ChainGoes'
    BY <1>1, <1>2, <1>4, <1>5, <1>6, <1>9, <1>10, ComesBack
  <2>5. Phases'
    BY <1>2, <1>10, <2>4 DEF Phases, BeforeRestore, BeforePitr, BeforeCleanup
  <2>6. QED
    BY <1>7, <2>2, <2>3, <2>5 DEF DrillInv
<1>11. CASE /\ mishaps' = IF Drill!CanReset(tree, Target, original) THEN mishaps + 1 ELSE mishaps
            /\ \/ passes > 1 /\ passes' = passes - 1 /\ pc' = pc
               \/ ~(passes > 1) /\ pc' = "chain"
            /\ tree' = tree
  <2>1. Meddles
    BY <1>1, <1>11, SameMeddles
  <2>2. TreeTypes'
    BY <1>1, <2>1, TreeTypesStay
  <2>3. RunTypes'
    BY <1>1, <1>2, <1>11, RunTypesStay
  <2>4. alone /\ mishaps' <= 1 =>
            Moved' /\ Tracked' /\ OwnScratch' \notin DOMAIN tree'
    BY <1>1, <1>2, <1>4, <1>9, <1>11, <2>1, MovedStays, TrackedStays, OwnStays
  <2>5. alone /\ mishaps' <= 1 => passes > 1 /\ passes - 1 + mishaps' >= 3
    <3>1. SUFFICES ASSUME alone, mishaps' <= 1
                   PROVE  passes > 1 /\ passes - 1 + mishaps' >= 3
      OBVIOUS
    <3>2. Drill!CanReset(tree, Target, original)
      BY <1>1, <1>4, <1>9, <3>1, CanComeBack
    <3>3. mishaps' = mishaps + 1 /\ passes + mishaps >= 3
      BY <1>9, <1>11, <3>1, <3>2
    <3>4. QED
      BY <1>4, <1>5, <3>1, <3>3, StillTime
  <2>6. CASE pc' = "lineage" /\ passes' = passes - 1
    <3>1. Phases'
      BY <1>2, <2>4, <2>5, <2>6 DEF Phases, BeforeRestore, BeforePitr, BeforeCleanup
    <3>2. QED
      BY <1>7, <2>2, <2>3, <3>1 DEF DrillInv
  <2>7. CASE ~(passes > 1) /\ pc' = "chain"
    <3>1. Phases'
      BY <1>2, <2>5, <2>7 DEF Phases, BeforeRestore, BeforePitr, BeforeCleanup
    <3>2. QED
      BY <1>7, <2>2, <2>3, <3>1 DEF DrillInv
  <2>8. QED
    BY <1>2, <1>11, <2>6, <2>7
<1>12. QED
  BY <1>3, <1>10, <1>11

LEMMA TrapKeeps ==
    ASSUME DrillInv, Drill!Trap
    PROVE  DrillInv'
<1>1. TreeTypes /\ RunTypes /\ ListTypes
  BY DEF DrillInv
<1> DEFINE S == Drill!Own(run)  b == Head(created)
<1>2. /\ pc = "trap"
      /\ UNCHANGED <<run, keep, original, alone, work, passes, mishaps, doomed>>
  BY DEF Drill!Trap, Drill!started, Drill!cleanup
<1>3. \/ /\ created # <<>> /\ Drill!Deletable(tree, b) /\ tree' = Drill!Without(tree, b)
         /\ made' = Drill!RemoveFirst(made, b) /\ created' = Tail(created) /\ pc' = pc
      \/ pc' = "aborted" /\ UNCHANGED <<tree, made, created>>
  BY DEF Drill!Trap
<1>4. run > 0 /\ created \in Seq(S) /\ made \in Seq(Branches)
  BY <1>1, <1>2 DEF RunTypes, ListTypes
<1>5. Meddles /\ created' \in Seq(S) /\ made' \in Seq(Branches)
  <2>1. CASE /\ created # <<>> /\ Drill!Deletable(tree, b) /\ tree' = Drill!Without(tree, b)
             /\ made' = Drill!RemoveFirst(made, b) /\ created' = Tail(created)
    <3>1. b \in S /\ Tail(created) \in Seq(S)
      BY <1>4, <2>1, TailSet
    <3>2. b # Target
      BY <1>1, <1>4, <3>1, OwnNames
    <3>3. Meddles
      BY <1>1, <2>1, <3>2, DeleteMeddles
    <3>4. made' \in Seq(Branches)
      BY <1>4, <2>1, RemovedIsSeq
    <3>5. QED
      BY <2>1, <3>1, <3>3, <3>4
  <2>2. CASE UNCHANGED <<tree, made, created>>
    BY <1>1, <1>4, <2>2, SameMeddles
  <2>3. QED
    BY <1>3, <2>1, <2>2
<1>6. TreeTypes' /\ RunTypes' /\ ListTypes'
  <2>1. /\ work' \in [todo : Seq(S), left : Seq(S)] /\ doomed' \in Seq(Branches)
        /\ mishaps' \in Nat /\ passes' \in Int
    BY <1>1, <1>2 DEF ListTypes
  <2>2. QED
    BY <1>2, <1>4, <1>5, <2>1, TypesGoOn
<1>7. Phases'
  BY <1>2, <1>3 DEF Phases, BeforeRestore, BeforePitr, BeforeCleanup
<1>8. QED
  BY <1>6, <1>7 DEF DrillInv

LEMMA DrillStarts == Drill!Init => DrillInv
<1> SUFFICES ASSUME Drill!Init
             PROVE  DrillInv
  OBVIOUS
<1>1. /\ tree = [b \in {Main, Target} |->
            [parent |-> IF b = Main THEN NoBranch ELSE Main, content |-> Drill!Empty]]
      /\ pc = "idle" /\ run = 0 /\ created = <<>> /\ work = [todo |-> <<>>, left |-> <<>>]
      /\ passes = 0 /\ mishaps = 0 /\ made = <<>> /\ doomed = <<>>
  BY DEF Drill!Init, Drill!NoWork
<1>2. TreeTypes
  <2>1. DOMAIN tree = {Main, Target}
    BY <1>1
  <2>2. ASSUME NEW x \in DOMAIN tree
        PROVE  /\ tree[x] = [parent |-> tree[x].parent, content |-> tree[x].content]
               /\ tree[x].parent \in {NoBranch, Main}
    BY <1>1, <2>1
  <2>3. QED
    BY <2>1, <2>2 DEF TreeTypes
<1>3. RunTypes
  <2>1. ASSUME NEW r \in 1 .. Drills
        PROVE  Drill!Own(r) \cap DOMAIN tree = {}
    BY <1>1, BranchNames
  <2>2. run \in Nat /\ run <= Drills /\ ~(run > 0)
    BY <1>1, DrillAssumption
  <2>3. QED
    BY <1>1, <2>1, <2>2 DEF RunTypes
<1>4. ListTypes
  <2>1. <<>> \in Seq(Drill!Own(run)) /\ <<>> \in Seq(Branches)
    BY EmptySeq
  <2>2. QED
    BY <1>1, <2>1 DEF ListTypes
<1>5. Phases
  BY <1>1 DEF Phases, BeforeRestore, BeforePitr, BeforeCleanup
<1>6. QED
  BY <1>2, <1>3, <1>4, <1>5 DEF DrillInv

LEMMA DrillSteps ==
    ASSUME DrillInv, Drill!Next \/ UNCHANGED drillVars
    PROVE  DrillInv'
<1>1. CASE Drill!Next
  <2>1. \/ Drill!Preflight \/ Drill!Capture \/ Drill!FromBranch \/ Drill!Pitr \/ Drill!Scratch
        \/ Drill!CleanRows \/ Drill!Deleting \/ Drill!EndPass \/ Drill!Lineage \/ Drill!Trap
        \/ \/ Drill!Seed \/ Drill!Dump \/ Drill!ReadBack \/ Drill!SkipDump \/ Drill!Damage
           \/ Drill!Erase \/ Drill!Destroy \/ Drill!Verify \/ Drill!Replay
           \/ Drill!NoScratch \/ Drill!FromDump \/ Drill!Report \/ Drill!Fail
        \/ \/ \E p \in Points : \/ Drill!RpDelete(p)
                                \/ \E of \in DOMAIN tree : Drill!RpCreate(p, of)
           \/ Drill!RpPrune \/ Drill!PruneOne
    BY <1>1 DEF Drill!Next
  <2>2. QED
    BY <2>1, PreflightKeeps, CaptureKeeps, FromBranchKeeps, PitrKeeps, ScratchKeeps,
       CleanRowsKeeps, DeletingKeeps, EndPassKeeps, LineageKeeps, TrapKeeps,
       PlainStepsKeep, OperatorKeeps
<1>2. CASE UNCHANGED drillVars
  <2>1. /\ UNCHANGED <<tree, pc, run, keep, original, alone, created, work, passes, mishaps>>
        /\ made' \in Seq(Branches) /\ doomed' \in Seq(Branches)
    BY <1>2 DEF drillVars, DrillInv, ListTypes
  <2>2. Meddles
    BY <2>1, SameMeddles DEF DrillInv
  <2>3. QED
    BY <2>1, <2>2, PhaseStays
<1>3. QED
  BY <1>1, <1>2

LEMMA DoneIsClean == DrillInv => Drill!CleanedUp
<1> SUFFICES ASSUME DrillInv, pc = "done", ~keep, alone, mishaps <= 1
             PROVE  Drill!Own(run) \cap DOMAIN tree = {} /\ tree[Target].parent = original
  BY DEF Drill!CleanedUp
<1>1. Tidy
  BY DEF DrillInv, Phases
<1>2. QED
  BY <1>1 DEF Tidy, Unmoved

(* A drill that reaches its end leaves the tree as it found it, whatever    *)
(* the quota, the drills before it and the operator beside it: none of its  *)
(* branches is left and the target hangs where it hung, although every      *)
(* restore moved the target below the branch it came from, a branch with    *)
(* children cannot be deleted, and one call of the clean-up may be refused  *)
(* (restore-drill.sh, phase 11: leaves, lineage, chain), as long as no      *)
(* branch the drill does not know of hangs below it.                        *)
THEOREM DrillsCleanUp ==
    /\ Drill!Spec => []Drill!CleanedUp
    /\ MCSpec => []CleanedUp
<1>1. Drill!Spec => []DrillInv
  <2>1. DrillInv /\ [Drill!Next]_(Drill!vars) => DrillInv'
    <3>1. ASSUME DrillInv, UNCHANGED Drill!vars
          PROVE  DrillInv'
      <4>1. UNCHANGED drillVars
        BY <3>1 DEF drillVars, Drill!vars
      <4>2. QED
        BY <3>1, <4>1, DrillSteps
    <3>2. QED
      BY <3>1, DrillSteps
  <2>2. QED
    BY <2>1, DrillStarts, PTL DEF Drill!Spec
<1>2. MCSpec => []DrillInv
  <2>1. MCInit => DrillInv
    BY DrillStarts DEF MCInit
  <2>2. DrillInv /\ [MCNext]_<<part, vars, drillVars, registerVars>> => DrillInv'
    <3>1. ASSUME DrillInv, MCNext
          PROVE  DrillInv'
      <4>1. Drill!Next \/ UNCHANGED drillVars
        BY <3>1 DEF MCNext
      <4>2. QED
        BY <3>1, <4>1, DrillSteps
    <3>2. ASSUME DrillInv, UNCHANGED <<part, vars, drillVars, registerVars>>
          PROVE  DrillInv'
      BY <3>2, DrillSteps
    <3>3. QED
      BY <3>1, <3>2
  <2>3. QED
    BY <2>1, <2>2, PTL DEF MCSpec
<1>3. DrillInv => CleanedUp
  BY DoneIsClean DEF CleanedUp
<1>4. QED
  BY <1>1, <1>2, <1>3, DoneIsClean, PTL
=============================================================================
