----------------------------- MODULE RestoreDrill -----------------------------
(***************************************************************************)
(* infra/backup/restore-drill.sh: seed known rows, pin a restore point and *)
(* a dump, erase one person, destroy everything, get it back on three      *)
(* paths, replay the erasures, and put the branch tree back as it was.     *)
(* Beside it an operator takes, deletes and prunes restore points with     *)
(* infra/backup/pullfm-restore.sh.                                         *)
(*                                                                         *)
(* Every call of the script may fail, and under set -e the script then     *)
(* leaves through its EXIT trap.  The deletes and the re-parenting of the  *)
(* clean-up phase are the calls it retries instead.                        *)
(***************************************************************************)
EXTENDS Naturals, FiniteSets, Sequences, SequencesExt

(***************************************************************************)
(* The branch tree of the Neon project, as infra/backup/pullfm-restore.sh  *)
(* uses it through the control plane: every branch is a copy-on-write      *)
(* child of its parent, a branch with children cannot be deleted, and a    *)
(* restore RE-PARENTS its target.  The project may hold Quota branches.    *)
(*                                                                         *)
(* A tree is a function from the live branches to [parent, content].  The  *)
(* content of a branch is what its database answers: the rows and the      *)
(* names in deletion_log.                                                  *)
(***************************************************************************)
CONSTANTS
    Main,       \* the default branch, production
    Nobody,     \* the parent of the root
    Quota       \* how many branches the project may hold

Children(tree, b) == {c \in DOMAIN tree : tree[c].parent = b}

HasRoom(tree) == Cardinality(DOMAIN tree) < Quota

(* POST /branches: a copy of the parent's content at this moment.          *)
Branch(tree, b, of) ==
    [x \in DOMAIN tree \cup {b} |->
        IF x = b THEN [parent |-> of, content |-> tree[of].content] ELSE tree[x]]

CanBranch(tree, b, of) == HasRoom(tree) /\ b \notin DOMAIN tree /\ of \in DOMAIN tree

Deletable(tree, b) == b \in DOMAIN tree /\ Children(tree, b) = {}

Without(tree, b) == [x \in DOMAIN tree \ {b} |-> tree[x]]

(* POST /branches/b/restore without preserve_under_name: refused while the *)
(* target has children; the target becomes a child of the source.          *)
CanReset(tree, b, source) == {b, source} \subseteq DOMAIN tree /\ Children(tree, b) = {}

Reset(tree, b, source) ==
    [tree EXCEPT ![b] = [parent |-> source, content |-> tree[source].content]]

(* The same with preserve_under_name = old: the branch old takes the place *)
(* of the target, with its content, its parent and its children, and the   *)
(* target is created anew below the source (below old, when the target is  *)
(* restored to a moment of its own history).                               *)
CanReplace(tree, b, old, source) ==
    {b, source} \subseteq DOMAIN tree /\ HasRoom(tree) /\ old \notin DOMAIN tree

Replace(tree, b, old, source, content) ==
    [x \in DOMAIN tree \cup {old} |->
        CASE x = old -> tree[b]
          [] x = b   -> [parent |-> IF source = b THEN old ELSE source, content |-> content]
          [] OTHER   -> IF tree[x].parent = b THEN [tree[x] EXCEPT !.parent = old] ELSE tree[x]]

(* _assert_not_protected: the default branch, as Neon names it, is refused *)
(* as the target of a restore.                                             *)
NotProtected(b) == b # Main

-----------------------------------------------------------------------------
(* The drill.                                                              *)

CONSTANTS
    Target,     \* the branch the drill runs on, a child of Main
    Points,     \* names an operator gives to restore points
    RpKeep,     \* RP_KEEP_DEFAULT: restore points that survive a prune
    Drills,     \* bound: how many drills are run
    MaxFaults   \* bound: control plane refusals the clean-up meets

VARIABLES
    tree,       \* the branches of the project
    pc,         \* the phase of the drill, or how it ended
    run,        \* RUN_ID
    keep,       \* --keep
    original,   \* ORIGINAL_PARENT
    alone,      \* history: below the target and the drill's branches hangs nothing
                \* but what the drill knows of
    seeded,     \* MARKER_BEFORE
    created,    \* CREATED_BRANCHES
    work,       \* what a _delete_pass still has to try, and what it could not delete
    passes,     \* passes or tries left in the current step of the clean-up
    dump,       \* the drill's dump: the object in the bucket and its manifest
    ledger,     \* the drill's ledger bucket
    findings,   \* the findings of this run
    faults,     \* transient refusals in this run's clean-up
    made,       \* the live rp- branches, oldest first
    doomed      \* what a prune still has to delete

vars == <<tree, pc, run, keep, original, alone, seeded, created, work, passes, dump,
          ledger, findings, faults, made, doomed>>

Own(r) == {<<r, k>> : k \in {"rp", "preserved", "pitr", "scratch"}}

Empty == [rows |-> {}, log |-> {}]

Nothing == [rows |-> {}, log |-> {"nothing"}]

NoDump == [object |-> Nothing, manifest |-> Nothing]

NoWork == [todo |-> <<>>, left |-> <<>>]

TargetContent == tree[Target].content

Init ==
    /\ tree = [b \in {Main, Target} |->
                  [parent |-> IF b = Main THEN Nobody ELSE Main, content |-> Empty]]
    /\ pc = "idle" /\ run = 0 /\ keep = FALSE /\ original = Nobody /\ alone = TRUE /\ seeded = {}
    /\ created = <<>> /\ work = NoWork /\ passes = 0 /\ dump = NoDump /\ ledger = {}
    /\ findings = {} /\ faults = 0 /\ made = <<>> /\ doomed = <<>>

(***************************************************************************)
(* The phases.                                                             *)
(***************************************************************************)

(* SQL on the target branch.                                               *)
Write(content) == tree' = [tree EXCEPT ![Target].content = content]

started == <<run, keep, original, alone>>
cleanup == <<work, passes, faults>>
operator == <<made, doomed>>

(* 0. Preflight: not main, a parent to return to, no rows of anybody else. *)
Preflight ==
    /\ pc \in {"idle", "done", "aborted"} /\ run < Drills
    /\ NotProtected(Target) /\ TargetContent.rows = {} /\ tree[Target].parent # Nobody
    /\ \E k \in BOOLEAN : keep' = k
    /\ pc' = "seed" /\ run' = run + 1 /\ original' = tree[Target].parent
    /\ alone' = (Children(tree, Target) = {})
    /\ created' = <<>> /\ work' = NoWork /\ passes' = 0 /\ findings' = {} /\ faults' = 0
    /\ dump' = NoDump
    /\ UNCHANGED <<tree, seeded, ledger, operator>>

(* 1. Seed the markers: two people who stay and one who will be erased.    *)
Seed ==
    /\ pc = "seed" /\ pc' = "capture"
    /\ Write([TargetContent EXCEPT !.rows = @ \cup {"keep", "erase"}])
    /\ seeded' = {"keep", "erase"}
    /\ UNCHANGED <<started, created, dump, ledger, findings, cleanup, operator>>

(* restore-point create: the branch exists once the control plane answered *)
(* the POST, and is tracked once it also became ready.                     *)
CreatePoint(b, ready) ==
    /\ CanBranch(tree, b, Target)
    /\ tree' = Branch(tree, b, Target)
    /\ made' = Append(made, b)
    /\ created' = IF ready THEN Append(created, b) ELSE created

(* 2. The restore point.                                                   *)
Capture ==
    /\ pc = "capture"
    /\ \E ready \in BOOLEAN :
          /\ CreatePoint(<<run, "rp">>, ready)
          /\ pc' = IF ready THEN "dump" ELSE "trap"
    /\ UNCHANGED <<started, seeded, dump, ledger, findings, cleanup, doomed>>

(* What `dump` leaves in the bucket: the encrypted archive first, then its *)
(* manifest with the digests and the MAC.  When the second upload fails    *)
(* the first stays, an object no verification accepts.                     *)
Uploaded(content) == [object |-> content, manifest |-> content]

HalfUploaded(content) == [object |-> content, manifest |-> Nothing]

(* pullfm-backup.sh dump: pg_dump into the invocation's own directory, of  *)
(* the database as it is now, then the uploads.                            *)
Dump ==
    /\ pc = "dump"
    /\ \/ dump' = Uploaded(TargetContent) /\ pc' = "readback"
       \/ dump' = HalfUploaded(TargetContent) /\ pc' = "trap"
    /\ UNCHANGED <<tree, started, seeded, created, ledger, findings, cleanup, operator>>

(* _verify_key: both are there, the digests and the MAC of the manifest    *)
(* are those of the object, and what it decrypts to is an archive.         *)
VerifyKey == dump.object # Nothing /\ dump.object = dump.manifest

(* The object just written is read back before the dump is reported.       *)
ReadBack ==
    /\ pc = "readback" /\ pc' = IF VerifyKey THEN "erase" ELSE "trap"
    /\ UNCHANGED <<tree, started, seeded, created, dump, ledger, findings, cleanup, operator>>

(* --skip-dump.                                                            *)
SkipDump ==
    /\ pc = "dump" /\ pc' = "erase"
    /\ UNCHANGED <<tree, started, seeded, created, dump, ledger, findings, cleanup, operator>>

(* The object is damaged in the bucket.                                    *)
Damage ==
    /\ dump.object # Nothing /\ dump' = [dump EXCEPT !.object = Nothing]
    /\ UNCHANGED <<tree, pc, started, seeded, created, ledger, findings, cleanup, operator>>

(* 3. Erase one person as the application does, and export the ledger.     *)
Erase ==
    /\ pc = "erase" /\ pc' = "probe"
    /\ Write([rows |-> TargetContent.rows \ {"erase"}, log |-> TargetContent.log \cup {"erase"}])
    /\ ledger' = ledger \cup {"erase"}
    /\ UNCHANGED <<started, seeded, created, dump, findings, cleanup, operator>>

(* 4 and 5. Two rows around an instant, then the disaster.  deletion_log   *)
(* is not among the tables it empties.                                     *)
Destroy ==
    /\ pc = "probe" /\ pc' = "restore"
    /\ Write([TargetContent EXCEPT !.rows = {}])
    /\ UNCHANGED <<started, seeded, created, dump, ledger, findings, cleanup, operator>>

(* The preserved copy is looked up by name after the restore, and tracked  *)
(* when the list has it.  Without it the drill goes on.                    *)
LookUp(old, next) ==
    \/ pc' = next /\ created' = Append(created, old) /\ UNCHANGED alone
    \/ pc' = next /\ alone' = FALSE /\ UNCHANGED created
    \/ pc' = "trap" /\ UNCHANGED <<created, alone>>

(* 6. from-branch with --preserve.                                         *)
FromBranch ==
    /\ pc = "restore"
    /\ LET old == <<run, "preserved">>  rp == <<run, "rp">> IN
          /\ CanReplace(tree, Target, old, rp)
          /\ tree' = Replace(tree, Target, old, rp, tree[rp].content)
          /\ LookUp(old, "verify")
    /\ UNCHANGED <<run, keep, original, seeded, dump, ledger, findings, cleanup, operator>>

(* 7. What came back, and whether the restore forgot the erasure.          *)
Verify ==
    /\ pc = "verify" /\ pc' = "replay"
    /\ findings' = findings
          \cup {f \in {"mismatch"} : TargetContent.rows # seeded}
          \cup {f \in {"resurrected"} : "erase" \in TargetContent.rows \ TargetContent.log}
    /\ UNCHANGED <<tree, started, seeded, created, dump, ledger, cleanup, operator>>

(* 8. replay-deletions from the ledger.                                    *)
Replay ==
    /\ pc = "replay" /\ pc' = "pitr"
    /\ Write([rows |-> TargetContent.rows \ ledger, log |-> TargetContent.log \cup ledger])
    /\ findings' = findings
          \cup {f \in {"unrepaired"} : "erase" \notin ledger}
          \cup {f \in {"overreach"} : "keep" \notin TargetContent.rows \ ledger}
    /\ UNCHANGED <<started, seeded, created, dump, ledger, cleanup, operator>>

(* 9. A row before and a row after an instant, then a restore to it.       *)
Pitr ==
    /\ pc = "pitr"
    /\ LET old == <<run, "pitr">>
           at == [TargetContent EXCEPT !.rows = @ \cup {"before"}]
           now == [TargetContent EXCEPT !.rows = @ \cup {"before", "after"}] IN
          /\ CanReplace(tree, Target, old, Target)
          /\ tree' = Replace([tree EXCEPT ![Target].content = now], Target, old, Target, at)
          /\ LookUp(old, "scratch")
    /\ UNCHANGED <<run, keep, original, seeded, dump, ledger, findings, cleanup, operator>>

(* 10. With a dump, a scratch branch and a new database in it.             *)
Scratch ==
    /\ pc = "scratch" /\ dump # NoDump
    /\ \E ready \in BOOLEAN :
          /\ CreatePoint(<<run, "scratch">>, ready)
          /\ pc' = IF ready THEN "fromdump" ELSE "trap"
    /\ UNCHANGED <<started, seeded, dump, ledger, findings, cleanup, doomed>>

NoScratch ==
    /\ pc = "scratch" /\ dump = NoDump /\ pc' = "rows"
    /\ UNCHANGED <<tree, started, seeded, created, dump, ledger, findings, cleanup, operator>>

(* fetch, which verifies before it writes a plaintext, and pg_restore.     *)
FromDump ==
    /\ pc = "fromdump" /\ <<run, "scratch">> \in DOMAIN tree
    /\ IF VerifyKey
       THEN /\ pc' = "rows"
            /\ findings' = findings
                  \cup {f \in {"dumpmismatch"} : dump.object.rows # seeded}
       ELSE pc' = "trap" /\ UNCHANGED findings
    /\ UNCHANGED <<tree, started, seeded, created, dump, ledger, cleanup, operator>>

(***************************************************************************)
(* 11. The clean-up.                                                       *)
(***************************************************************************)

\* Mutant: the branches are deleted before the target is put back.
CleanRowsNoReparent ==
    /\ pc = "rows" /\ pc' = IF keep THEN "report" ELSE "chain"
    /\ Write([rows |-> TargetContent.rows \ {"keep", "erase", "before"},
              log |-> TargetContent.log \ {"erase"}])
    /\ \/ ledger' = ledger \ {"erase"} /\ UNCHANGED findings
       \/ ledger' = ledger /\ findings' = findings \cup {"ledger"}
    /\ work' = [todo |-> created, left |-> <<>>] /\ passes' = 5
    /\ UNCHANGED <<started, seeded, created, dump, faults, operator>>

(* The rows of the drill, its deletion_log row and, where the bucket lets  *)
(* it, its ledger entry; then step 1, two passes over the branches.        *)
CleanRows ==
    /\ pc = "rows" /\ pc' = IF keep THEN "report" ELSE "leaves"
    /\ Write([rows |-> TargetContent.rows \ {"keep", "erase", "before"},
              log |-> TargetContent.log \ {"erase"}])
    /\ \/ ledger' = ledger \ {"erase"} /\ UNCHANGED findings
       \/ ledger' = ledger /\ findings' = findings \cup {"ledger"}
    /\ work' = [todo |-> created, left |-> <<>>] /\ passes' = 2
    /\ UNCHANGED <<started, seeded, created, dump, faults, operator>>

(* One DELETE of a _delete_pass.  A refusal keeps the branch for the next  *)
(* pass; a branch that is gone already is refused as well.                 *)
TryDelete(b) ==
    \/ /\ Deletable(tree, b)
       /\ tree' = Without(tree, b)
       /\ made' = RemoveFirst(made, b)
       /\ work' = [work EXCEPT !.todo = Tail(@)]
       /\ UNCHANGED faults
    \/ /\ ~Deletable(tree, b) \/ faults < MaxFaults
       /\ faults' = IF Deletable(tree, b) THEN faults + 1 ELSE faults
       /\ work' = [todo |-> Tail(work.todo), left |-> Append(work.left, b)]
       /\ UNCHANGED <<tree, made>>

Deleting ==
    /\ pc \in {"leaves", "chain"} /\ work.todo # <<>>
    /\ TryDelete(Head(work.todo))
    /\ UNCHANGED <<pc, started, seeded, created, passes, dump, ledger, findings, doomed>>

(* The end of a pass: another one over what is left, or the next step.     *)
EndPass ==
    /\ pc \in {"leaves", "chain"} /\ work.todo = <<>>
    /\ created' = work.left
    /\ IF work.left = <<>> \/ passes = 1
       THEN /\ pc' = IF pc = "leaves" THEN "lineage" ELSE "report"
            /\ passes' = 3 /\ work' = NoWork
            /\ findings' = findings \cup
                  {f \in {"branches"} : pc = "chain" /\ work.left # <<>>}
       ELSE /\ passes' = passes - 1 /\ work' = [todo |-> work.left, left |-> <<>>]
            /\ UNCHANGED <<pc, findings>>
    /\ UNCHANGED <<tree, started, seeded, dump, ledger, faults, operator>>

(* Step 2: from-branch onto the original parent, three tries.              *)
Lineage ==
    /\ pc = "lineage"
    /\ \/ /\ CanReset(tree, Target, original)
          /\ tree' = Reset(tree, Target, original)
          /\ pc' = "chain" /\ passes' = 5
          /\ UNCHANGED <<findings, faults>>
       \/ /\ ~CanReset(tree, Target, original) \/ faults < MaxFaults
          /\ faults' = IF CanReset(tree, Target, original) THEN faults + 1 ELSE faults
          /\ IF passes > 1
             THEN passes' = passes - 1 /\ UNCHANGED <<pc, findings>>
             ELSE pc' = "chain" /\ passes' = 5 /\ findings' = findings \cup {"lineage"}
          /\ UNCHANGED tree
    /\ work' = [todo |-> created, left |-> <<>>]
    /\ UNCHANGED <<started, seeded, created, dump, ledger, operator>>

(* The report goes to the bucket, and a restore that did not bring back    *)
(* what was seeded makes the script fail after all.                        *)
Report ==
    /\ pc = "report" /\ pc' = "done"
    /\ UNCHANGED <<tree, started, seeded, created, dump, ledger, findings, cleanup, operator>>

(***************************************************************************)
(* A call fails: set -e, and the EXIT trap.                                *)
(***************************************************************************)
Fail ==
    /\ pc \in {"seed", "capture", "erase", "probe", "restore", "verify", "replay",
               "pitr", "dump", "readback", "scratch", "fromdump", "rows", "report"}
    /\ pc' = "trap"
    /\ UNCHANGED <<tree, started, seeded, created, dump, ledger, findings, cleanup, operator>>

(* _cleanup: one pass in the order of creation, through pullfm_neon, whose *)
(* refusal is an exit: nothing behind the first refusal is tried.          *)
Trap ==
    /\ pc = "trap"
    /\ IF ~keep /\ created # <<>> /\ Deletable(tree, Head(created))
       THEN /\ tree' = Without(tree, Head(created))
            /\ made' = RemoveFirst(made, Head(created))
            /\ created' = Tail(created)
            /\ UNCHANGED pc
       ELSE pc' = "aborted" /\ UNCHANGED <<tree, made, created>>
    /\ UNCHANGED <<started, seeded, dump, ledger, findings, cleanup, doomed>>

(***************************************************************************)
(* The operator: pullfm-restore.sh restore-point create, delete, prune.    *)
(***************************************************************************)
course == <<pc, run, keep, original, seeded, created, dump, ledger, findings, cleanup>>
drill == <<course, alone>>

(* A restore point of any branch, the target and the drill's included.     *)
RpCreate(p, of) ==
    /\ CanBranch(tree, p, of)
    /\ tree' = Branch(tree, p, of) /\ made' = Append(made, p)
    /\ alone' = (alone /\ of \notin Own(run) \cup {Target})
    /\ UNCHANGED <<course, doomed>>

RpDelete(p) ==
    /\ p \in ToSet(made) /\ Deletable(tree, p)
    /\ tree' = Without(tree, p) /\ made' = RemoveFirst(made, p)
    /\ UNCHANGED <<drill, doomed>>

(* The list is made once; every rp- branch counts, the drill's included.   *)
RpPrune ==
    /\ doomed = <<>> /\ Len(made) > RpKeep
    /\ doomed' = SubSeq(made, 1, Len(made) - RpKeep)
    /\ UNCHANGED <<tree, drill, made>>

(* A refused DELETE ends the command.                                      *)
PruneOne ==
    /\ doomed # <<>>
    /\ LET b == Head(doomed) IN
          IF Deletable(tree, b)
          THEN /\ tree' = Without(tree, b) /\ doomed' = Tail(doomed)
               /\ made' = RemoveFirst(made, b)
          ELSE doomed' = <<>> /\ UNCHANGED <<tree, made>>
    /\ UNCHANGED drill

Next ==
    \/ Preflight \/ Seed \/ Capture \/ Dump \/ ReadBack \/ SkipDump \/ Damage
    \/ Erase \/ Destroy \/ FromBranch \/ Verify \/ Replay \/ Pitr \/ Scratch \/ NoScratch \/ FromDump
    \/ CleanRows \/ Deleting \/ EndPass \/ Lineage \/ Report
    \/ Fail \/ Trap
    \/ \E p \in Points : RpDelete(p) \/ \E of \in DOMAIN tree : RpCreate(p, of)
    \/ RpPrune \/ PruneOne

Spec == Init /\ [][Next]_vars

-----------------------------------------------------------------------------
(* A drill that reaches its end leaves the tree as it found it: none of    *)
(* its branches is left and the target hangs where it hung, even though    *)
(* every restore moved the target below the branch it came from, a branch  *)
(* with children cannot be deleted, and one call of the clean-up may be    *)
(* refused (phase 11: leaves, lineage, chain).  A branch the drill does    *)
(* not know of pins those above it: one that an earlier drill was told to  *)
(* keep, one that an operator took of the target or of a branch of the     *)
(* drill meanwhile, and one of its own that the look-up did not return.    *)
CleanedUp ==
    pc = "done" /\ ~keep /\ alone /\ faults <= 1 =>
        /\ Own(run) \cap DOMAIN tree = {}
        /\ tree[Target].parent = original

=============================================================================
