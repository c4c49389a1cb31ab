------------------------------ MODULE MCDeploy ------------------------------
(* What is done from outside the product: two application nodes that deploy  *)
(* against one database, the staging environment with one node, the restore  *)
(* drill beside it, and the gate on the register of accepted risks.  They    *)
(* share no state, so a behaviour exercises one of them.                     *)
EXTENDS Staging, TLC

CONSTANTS Main, NoBranch, Target, Points, Quota, RpKeep, Drills, MaxSlips, MaxDay

VARIABLES part,
          tree, pc, run, keep, original, alone, seeded, created, work, passes, dump,
          ledger, findings, mishaps, made, doomed,
          pos, slips, reading, root, list, entry, values, inFront, inFile, written, today

Drill == INSTANCE RestoreDrill WITH Nobody <- NoBranch, faults <- mishaps

Register == INSTANCE RiskRegister WITH at <- reading

(* The drill tells its own branches from those of the operator by name.      *)
ASSUME BranchNames ==
    /\ Main # Target /\ NoBranch \notin {Main, Target} \cup Points
    /\ {Main, Target} \cap Points = {}
    /\ \A r \in 1 .. Drills : Drill!Own(r) \cap ({Main, Target, NoBranch} \cup Points) = {}
ASSUME DrillAssumption == RpKeep \in Nat /\ Drills \in Nat

(* A build, one with another migration, one in which the first migration was *)
(* edited, and one with a migration that fails.                              *)
MCBuilds == 1 .. 4
MCVersions == 1 .. 3
MCFiles ==
    <<1 :> "a", (1 :> "a") @@ (2 :> "b"), 1 :> "edited a",
      (1 :> "a") @@ (2 :> "b") @@ (3 :> "bad")>>

environment == <<operator, cloud, protected, servers, command, failed>>
drillVars == <<tree, pc, run, keep, original, alone, seeded, created, work, passes, dump,
               ledger, findings, mishaps, made, doomed>>
registerVars == <<pos, slips, reading, root, list, entry, values, inFront, inFile, written,
                  today>>

MCInit ==
    /\ Init /\ Drill!Init /\ Register!Init
    /\ part \in {"nodes", "staging", "drill", "register"}
    /\ part = "nodes" \/ channel = 1

MCNext ==
    /\ part' = part
    /\ \/ part = "nodes" /\ D!Next /\ UNCHANGED <<environment, drillVars, registerVars>>
       \/ part = "staging" /\ Next /\ UNCHANGED <<drillVars, registerVars>>
       \/ part = "drill" /\ Drill!Next /\ UNCHANGED <<vars, registerVars>>
       \/ part = "register" /\ Register!Next /\ UNCHANGED <<vars, drillVars>>

MCSpec ==
    /\ MCInit /\ [][MCNext]_<<part, vars, drillVars, registerVars>>
    /\ part = "staging" => Fairness

MCDownEmpties == part = "staging" => DownEmpties
CleanedUp == part = "drill" => Drill!CleanedUp
NothingExpiredPasses == part = "register" => Register!NothingExpiredPasses
=============================================================================
