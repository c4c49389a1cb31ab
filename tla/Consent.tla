------------------------------ MODULE Consent ------------------------------
(***************************************************************************)
(* The published legal documents and one person's recorded assent to them: *)
(* services/legal-consent.ts, the consent gate of plugins/auth.ts, the     *)
(* routes /legal and /me/consent, and the triggers of migrations 0008 and  *)
(* 0009.                                                                   *)
(*                                                                         *)
(* Several nodes serve one database and may run different builds: a        *)
(* rolling deploy, a rollback, or a build that disagrees with history.     *)
(* Every build declares one entry per document.  A text stands for its     *)
(* digest: the two are interchangeable while no two texts collide.         *)
(***************************************************************************)
EXTENDS Naturals, Sequences, FiniteSets

CONSTANTS
    Nodes,       \* server processes
    Clients,     \* the person's devices
    Builds,      \* deployable versions of the code
    FirstBuild,  \* the one every node starts with
    Docs,        \* sequence of the published documents, in registry order
    Required,    \* those of them that must be accepted
    Bare,        \* the builds whose image lacks the texts
    Registry,    \* [Builds -> [documents -> [version, epoch, material, text]]]
    MaxDeploys,  \* bound: restarts of a node with some build
    MaxFaults    \* bound: failed queries, abandoned handshakes, bundled copies

VARIABLES
    build,     \* the build each node runs
    memo,      \* #published: progress of the lazy publication of the process
    revs,      \* legal_document_revisions, per document in order of publication
    consents,  \* legal_consents of the person
    account,   \* "live" or "gone"
    client,    \* the consent handshake of each device
    deploys,
    faults

vars == <<build, memo, revs, consents, account, client, deploys, faults>>

Published == {Docs[i] : i \in 1..Len(Docs)}

\* The builds come from one line of history, which raises the epoch of a
\* document once: what two of them call material at the same epoch is one
\* version.  (The text may differ: build 5 of MCConsent edits it in place.)
ASSUME RegistryAssumption ==
    /\ Docs \in Seq(Published) /\ Docs # <<>>
    /\ Required \subseteq Published
    /\ FirstBuild \in Builds
    /\ \A b, c \in Builds, d \in Published :
         /\ Registry[b][d].epoch \in Nat \ {0}
         /\ /\ Registry[b][d].material /\ Registry[c][d].material
            /\ Registry[b][d].epoch = Registry[c][d].epoch
            => Registry[b][d].version = Registry[c][d].version

Entry(b, d) == [doc |-> d, version |-> Registry[b][d].version,
                text |-> Registry[b][d].text]
Idle == [at |-> "start", node |-> CHOOSE n \in Nodes : TRUE,
         told |-> {}, shown |-> {}]
Carries(n) == build[n] \notin Bare
Unpublished == [at |-> "guard", doc |-> 1]

Init ==
    /\ build = [n \in Nodes |-> FirstBuild]
    /\ memo = [n \in Nodes |-> Unpublished]
    /\ revs = [d \in Published |-> <<>>]
    /\ consents = {}
    /\ account = "live"
    /\ client = [c \in Clients |-> Idle]
    /\ deploys = 0
    /\ faults = 0

----------------------------------------------------------------------------
(* The revision table.                                                     *)

RowOf(d, v) == {i \in DOMAIN revs[d] : revs[d][i].version = v}
Row(d, v) == revs[d][CHOOSE i \in RowOf(d, v) : TRUE]
MaxEpoch(d) == CHOOSE e \in {revs[d][i].epoch : i \in DOMAIN revs[d]} :
                 \A i \in DOMAIN revs[d] : revs[d][i].epoch <= e

\* legal_document_revisions_epoch_guard: a new version is the first one and
\* material at epoch 1, or cosmetic at the same epoch, or material at the next.
EpochGuard(d, r) ==
    \/ RowOf(d, r.version) # {}
    \/ revs[d] = <<>> /\ r.epoch = 1 /\ r.material
    \/ /\ revs[d] # <<>>
       /\ \/ r.epoch = MaxEpoch(d) /\ ~r.material
          \/ r.epoch = MaxEpoch(d) + 1 /\ r.material

\* The stored row and the build declare the same revision.
Agrees(d, r) == LET s == Row(d, r.version) IN
    s.text = r.text /\ s.epoch = r.epoch /\ s.material = r.material

----------------------------------------------------------------------------
(* ensureRevisions: one publication at a time per process, memoised on     *)
(* success only; a refusal or an error clears the memo and the next        *)
(* request tries again.  The trigger is evaluated before the row appears,  *)
(* so another node's INSERT may come between the two.                      *)

DocOf(n) == Docs[memo[n].doc]
Declared(n) == Registry[build[n]][DocOf(n)]
PublishingChanges == UNCHANGED <<build, consents, account, client, deploys>>

TriggerPasses(n) ==
    /\ memo[n].at = "guard" /\ EpochGuard(DocOf(n), Declared(n))
    /\ memo' = [memo EXCEPT ![n].at = "insert"]
    /\ UNCHANGED <<revs, faults>> /\ PublishingChanges

\* The trigger raises on a later document: the earlier ones stay published.  On
\* the first one a refusal changes nothing.
TriggerRefuses(n) ==
    /\ memo[n].at = "guard" /\ memo[n].doc > 1
    /\ ~EpochGuard(DocOf(n), Declared(n))
    /\ memo' = [memo EXCEPT ![n] = Unpublished]
    /\ UNCHANGED <<revs, faults>> /\ PublishingChanges

\* INSERT ... ON CONFLICT (document_id, version) DO NOTHING
Inserted(n) ==
    IF RowOf(DocOf(n), Declared(n).version) # {} THEN revs
    ELSE [revs EXCEPT ![DocOf(n)] = Append(@,
            [version |-> Declared(n).version, epoch |-> Declared(n).epoch,
             material |-> Declared(n).material, text |-> Declared(n).text,
             content |-> Carries(n)])]

\* The UPDATE that fills a missing text: the CHECK of migration 0009 lets only
\* the text of the row's own digest in, and the build's digest may be another.
Backfill(n) ==
    [revs EXCEPT ![DocOf(n)] = [i \in DOMAIN @ |->
        IF /\ Carries(n) /\ @[i].version = Declared(n).version
           /\ @[i].text = Declared(n).text
        THEN [@[i] EXCEPT !.content = TRUE] ELSE @[i]]]

NextStage(n) == IF memo[n].doc = Len(Docs) THEN [at |-> "ok", doc |-> 1]
            ELSE [at |-> "guard", doc |-> memo[n].doc + 1]

\* MUTANT: what the INSERT returns is compared, and it returns nothing on conflict.
PublishRowReturning(n) ==
    /\ memo[n].at = "insert"
    /\ revs' = Inserted(n)
    /\ memo' = [memo EXCEPT ![n] = IF revs' = revs THEN Unpublished ELSE NextStage(n)]
    /\ UNCHANGED faults /\ PublishingChanges

\* The INSERT, the row read back, the backfill and the comparison.  Rows only
\* change by a backfill, so no other node's step between the queries matters;
\* a query that fails leaves the row and clears the memo.
PublishRow(n) ==
    /\ memo[n].at = "insert"
    /\ revs' = IF RowOf(DocOf(n), Declared(n).version) # {} THEN Backfill(n)
               ELSE Inserted(n)
    /\ \/ /\ memo' = [memo EXCEPT ![n] =
              IF RowOf(DocOf(n), Declared(n).version) # {}
                 /\ ~Agrees(DocOf(n), Declared(n)) THEN Unpublished ELSE NextStage(n)]
          /\ UNCHANGED faults
       \/ /\ faults < MaxFaults /\ faults' = faults + 1
          /\ memo' = [memo EXCEPT ![n] = Unpublished]
    /\ PublishingChanges

Ready(n) == memo[n].at = "ok"

----------------------------------------------------------------------------
(* The gate.                                                               *)

AcceptedEpochs(d) == {r.epoch : r \in {s \in consents : s.doc = d}}

\* MUTANT: an acceptance counts whatever its epoch.
OutstandingOnce(b) == {d \in Required : AcceptedEpochs(d) = {}}

\* consentGap: the documents whose current epoch has not been accepted.
Outstanding(b) ==
    {d \in Required : \A e \in AcceptedEpochs(d) : e < Registry[b][d].epoch}
NeverAccepted(b) == \E d \in Outstanding(b) : AcceptedEpochs(d) = {}

\* enforceConsent on a route without an exemption
Admits(n, method) ==
    \/ Outstanding(build[n]) = {}
    \/ method = "read" /\ ~NeverAccepted(build[n])

----------------------------------------------------------------------------
(* The handshake of a device.                                              *)

Talk(c, r) == client' = [client EXCEPT ![c] = r]
HandshakeChanges == UNCHANGED <<build, memo, revs, account, deploys>>

\* GET /me/consent, or the consent member of a 403: what is outstanding here.
Status(c, n) ==
    /\ client[c].at = "start" /\ account = "live"
    /\ Ready(n) /\ Outstanding(build[n]) # {}
    /\ Talk(c, [Idle EXCEPT !.at = "fetch",
                  !.told = {Entry(build[n], d) : d \in Outstanding(build[n])}])
    /\ UNCHANGED <<consents, faults>> /\ HandshakeChanges

\* textFor: the stored text, or the file of the version the build declares.
Serves(n, e) ==
    /\ RowOf(e.doc, e.version) # {}
    /\ \/ Row(e.doc, e.version).content
       \/ /\ Carries(n) /\ Registry[build[n]][e.doc].version = e.version
          /\ Row(e.doc, e.version).text = Registry[build[n]][e.doc].text

\* GET /legal/{id}/versions/{version} on any node: the client compares the
\* digest of what it got with the one it was told, and displays the text.
Display(c, n) == \E e \in client[c].told \ client[c].shown :
    /\ client[c].at = "fetch" /\ Ready(n)
    /\ IF Serves(n, e) /\ Row(e.doc, e.version).text = e.text
         THEN Talk(c, [client[c] EXCEPT !.shown = @ \cup {e}])
         ELSE Talk(c, Idle)
    /\ UNCHANGED <<consents, faults>> /\ HandshakeChanges

\* A client that carries its own copy of the texts of some build, asked or not.
UseBundledCopy(c, b) ==
    /\ client[c].at = "start" /\ account = "live" /\ faults < MaxFaults
    /\ LET own == {Entry(b, d) : d \in Required} IN
         Talk(c, [Idle EXCEPT !.at = "fetch", !.told = own, !.shown = own])
    /\ faults' = faults + 1
    /\ UNCHANGED consents /\ HandshakeChanges

\* POST /me/consent: version and digest must be those of the node's registry.
Current(n, e) == e = Entry(build[n], e.doc)

Post(c, n) ==
    /\ client[c].at = "fetch" /\ client[c].shown = client[c].told
    /\ account = "live" /\ Ready(n)
    /\ IF \A e \in client[c].told : Current(n, e)
         THEN Talk(c, [client[c] EXCEPT !.at = "insert", !.node = n])
         ELSE Talk(c, Idle)
    /\ UNCHANGED <<consents, faults>> /\ HandshakeChanges

\* ON CONFLICT (user_id, document_id, document_version) DO NOTHING
Already(e) == \E s \in consents : s.doc = e.doc /\ s.version = e.version

\* One INSERT per document, not in a transaction; the first acceptance of a
\* version stays, and an erased account fails the foreign key.
Record(c) == \E e \in client[c].told :
    /\ client[c].at = "insert"
    /\ LET r == [doc |-> e.doc, version |-> e.version,
                 epoch |-> Registry[build[client[c].node]][e.doc].epoch] IN
         consents' = IF account = "gone" \/ Already(e) THEN consents ELSE consents \cup {r}
    /\ Talk(c, IF account = "gone" \/ client[c].told = {e} THEN Idle
               ELSE [client[c] EXCEPT !.told = @ \ {e}, !.shown = @ \ {e}])
    /\ UNCHANGED faults /\ HandshakeChanges

\* The request fails, or the person closes the screen.
GiveUp(c) ==
    /\ client[c].at # "start" /\ faults < MaxFaults
    /\ Talk(c, Idle)
    /\ faults' = faults + 1
    /\ UNCHANGED consents /\ HandshakeChanges

----------------------------------------------------------------------------
(* Deploys, and the erasure of the account.                                *)

\* A new process: nothing memoised, and what ran on the old one is lost.
Deploy(n, b) ==
    /\ deploys < MaxDeploys
    /\ deploys' = deploys + 1
    /\ build' = [build EXCEPT ![n] = b]
    /\ memo' = [memo EXCEPT ![n] = Unpublished]
    /\ client' = [c \in Clients |-> IF client[c].at = "insert" /\ client[c].node = n
                                      THEN Idle ELSE client[c]]
    /\ UNCHANGED <<revs, consents, account, faults>>

\* deleteAccount: the cascade from users takes the person's acceptances along.
Erase ==
    /\ account = "live"
    /\ account' = "gone" /\ consents' = {}
    /\ UNCHANGED <<build, memo, revs, client, deploys, faults>>

Publish(n) == TriggerPasses(n) \/ TriggerRefuses(n) \/ PublishRow(n)
Handshake(c) == \/ \E n \in Nodes : Status(c, n) \/ Display(c, n) \/ Post(c, n)
                \/ Record(c)

Next ==
    \/ \E n \in Nodes : Publish(n) \/ \E b \in Builds : Deploy(n, b)
    \/ \E c \in Clients : \/ Handshake(c) \/ GiveUp(c)
                          \/ \E b \in Builds : UseBundledCopy(c, b)
    \/ Erase

Spec == Init /\ [][Next]_vars

\* A waiting request starts a publication and waits for its end, and a person
\* who wants to use the service takes the next step of the handshake.
Fairness == /\ \A n \in Nodes : WF_vars(Publish(n))
            /\ \A c \in Clients : WF_vars(Handshake(c))

FairSpec == Spec /\ Fairness

----------------------------------------------------------------------------
(* What the epochs are for.                                                *)

\* The person accepted a version of d after which no material revision was
\* published that b, whose epoch of d is known, stands on.
Assented(b, d) == \E r \in consents : r.doc = d /\ \A q \in RowOf(d, r.version) :
    \A i \in DOMAIN revs[d] :
        i > q /\ revs[d][i].material => revs[d][i].epoch > Registry[b][d].epoch

(* consentGap's promise, that a material revision is accepted anew and a   *)
(* correction is not: a node lets the person write only if he accepted, of *)
(* every required document, a text with no material change after it up to  *)
(* the epoch in force there, whatever other builds published in between.   *)
(* The gate compares numbers; that these follow the history is the         *)
(* trigger's doing, which reads the table without a lock.                  *)
MaterialChangeNeedsAssent == \A n \in Nodes :
    Admits(n, "write") => \A d \in Required : Assented(build[n], d)

Settled(b) ==
    /\ deploys = MaxDeploys
    /\ \A n \in Nodes : build[n] = b /\ Carries(n)
    /\ \A d \in Published : LET r == Registry[b][d] IN
         EpochGuard(d, r) /\ (RowOf(d, r.version) # {} => Agrees(d, r))

(* Once the nodes have settled on a build that fits the published history  *)
(* and carries its texts, a person who keeps answering the handshake gets  *)
(* through the gate, or has left: no order of publications, 409s and       *)
(* partly recorded acceptances locks him out.                              *)
HandshakeCompletes ==
    (\E b \in Builds : Settled(b)) ~>
        (account = "gone" \/ \A n \in Nodes : Outstanding(build[n]) = {})
=============================================================================
