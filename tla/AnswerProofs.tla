---------------------------- MODULE AnswerProofs ----------------------------
(***************************************************************************)
(* Proofs about answers: what a person agreed to when asked, and what a    *)
(* provider is taken to have said.                                         *)
(*                                                                         *)
(* Consent and LegalPages, for any documents, builds, nodes and devices    *)
(* whose registries satisfy RegistryAssumption.  Neither property is       *)
(* inductive.  The gate compares the epochs of the registry, and the       *)
(* property is about the order of the published rows.  What ties them is   *)
(* EpochsFollow: a row of some epoch stands behind the material rows of    *)
(* all epochs up to its own.  The trigger checks that before the row       *)
(* appears and without a lock, so the invariant also keeps what a passed   *)
(* trigger saw (TriggerHeld), what a node that has finished knows of every *)
(* document (PublishedHere), and that acceptances and the requests on      *)
(* their way to become some name published rows.                           *)
(*                                                                         *)
(* Adapters, for any policy of retries and of the circuit breaker and any  *)
(* length of a behaviour: every response that a method can get says what   *)
(* it must be taken for (Says), shown parser by parser on the documents of *)
(* each provider; after that only the exchange is left (ExchangeKeeps).    *)
(***************************************************************************)
EXTENDS LegalPages, MCFeed, FiniteSetTheorems, SequenceTheorems, TLAPS


(* The row that build b publishes of d, with or without the text.          *)
RowBy(b, d, c) == [version |-> Registry[b][d].version, epoch |-> Registry[b][d].epoch,
                   material |-> Registry[b][d].material, text |-> Registry[b][d].text,
                   content |-> c]
Flags == BOOLEAN
Revision(d) == {RowBy(b, d, c) : b \in Builds, c \in Flags}

Types ==
    /\ build \in [Nodes -> Builds]
    /\ memo \in [Nodes -> [at : {"guard", "insert", "ok"}, doc : 1..Len(Docs)]]
    /\ revs = [d \in Published |-> revs[d]]
    /\ \A d \in Published : revs[d] \in Seq(Revision(d))

(* The history of one document.                                            *)
VersionsDiffer(d) == \A i, j \in DOMAIN revs[d] :
    revs[d][i].version = revs[d][j].version => i = j

EpochsFollow(d) == \A j \in DOMAIN revs[d] : \A m \in 1..revs[d][j].epoch :
    \E i \in 1..j : revs[d][i].material /\ revs[d][i].epoch = m

HasLatest(d) == revs[d] # <<>> =>
    \E j \in DOMAIN revs[d] : \A i \in DOMAIN revs[d] : revs[d][i].epoch <= revs[d][j].epoch

History == \A d \in Published : VersionsDiffer(d) /\ EpochsFollow(d) /\ HasLatest(d)

(* The row that a declaration became, if it was published as declared.     *)
IsRow(s, r) == /\ s.version = r.version /\ s.epoch = r.epoch
               /\ s.material = r.material /\ s.text = r.text
InHistory(d, r) == \E j \in DOMAIN revs[d] : IsRow(revs[d][j], r)

Stands(d, r) ==
    \/ RowOf(d, r.version) # {}
    \/ r.material /\ r.epoch = 1
    \/ \E j \in DOMAIN revs[d] : \/ r.epoch = revs[d][j].epoch
                                 \/ r.material /\ r.epoch = revs[d][j].epoch + 1

Held(n) == memo[n].at = "insert" => Stands(DocOf(n), Declared(n))
TriggerHeld == \A n \in Nodes : Held(n)

Knows(n) == \A i \in 1..Len(Docs) : memo[n].at = "ok" \/ i < memo[n].doc
                => InHistory(Docs[i], Registry[build[n]][Docs[i]])
PublishedHere == \A n \in Nodes : Knows(n)

(* A version of a document, and the epoch or text it was published with.   *)
NamesRow(d, v, e) == \E j \in DOMAIN revs[d] : revs[d][j].version = v /\ revs[d][j].epoch = e

Asks(c) == client[c].at = "insert" =>
    /\ client[c].node \in Nodes
    /\ \A e \in client[c].told :
         /\ e.doc \in Published
         /\ NamesRow(e.doc, e.version, Registry[build[client[c].node]][e.doc].epoch)
RequestsName == \A c \in Clients : Asks(c)

AcceptancesName == \A r \in consents : r.doc \in Published /\ NamesRow(r.doc, r.version, r.epoch)

NoticeEntries == {Entry(b, d) : b \in Builds, d \in Published}
Device == [at : {"start", "fetch", "insert"}, node : Nodes \cup {Idle.node},
           told : SUBSET NoticeEntries, shown : SUBSET NoticeEntries]
Devices == client \in [Clients -> Device]

IInv == /\ Types /\ History /\ TriggerHeld /\ PublishedHere
        /\ Devices /\ RequestsName /\ AcceptancesName

-----------------------------------------------------------------------------
(* The documents in registry order.                                        *)
LEMMA DocsAre ==
    /\ Len(Docs) \in Nat \ {0}
    /\ \A i \in 1..Len(Docs) : Docs[i] \in Published
    /\ \A d \in Published : \E i \in 1..Len(Docs) : Docs[i] = d
  BY RegistryAssumption DEF Published

(* What is known of a published row.                                       *)
LEMMA RowByIsRow ==
    ASSUME NEW b \in Builds, NEW d, NEW c, NEW x
    PROVE  /\ IsRow(RowBy(b, d, c), Registry[b][d])
           /\ IsRow(RowBy(b, d, x), RowBy(b, d, c))
           /\ [RowBy(b, d, c) EXCEPT !.content = x] = RowBy(b, d, x)
<1>1. IsRow(RowBy(b, d, c), Registry[b][d]) /\ IsRow(RowBy(b, d, x), RowBy(b, d, c))
  BY DEF RowBy, IsRow
<1>2. [RowBy(b, d, c) EXCEPT !.content = x] = RowBy(b, d, x)
  BY DEF RowBy
<1>3. QED
  BY <1>1, <1>2

LEMMA RowByIsRevision ==
    ASSUME NEW b \in Builds, NEW d, NEW c \in Flags
    PROVE  RowBy(b, d, c) \in Revision(d)
  BY DEF Revision

LEMMA RowsAre ==
    ASSUME Types, NEW d \in Published, NEW j \in DOMAIN revs[d]
    PROVE  /\ DOMAIN revs[d] = 1..Len(revs[d]) /\ Len(revs[d]) \in Nat
           /\ revs[d][j] \in Revision(d)
           /\ \E b \in Builds, c \in Flags : revs[d][j] = RowBy(b, d, c)
           /\ \E b \in Builds : IsRow(revs[d][j], Registry[b][d])
           /\ revs[d][j].epoch \in Nat \ {0}
<1>1. revs[d] \in Seq(Revision(d))
  BY DEF Types
<1>2. /\ DOMAIN revs[d] = 1..Len(revs[d]) /\ Len(revs[d]) \in Nat
      /\ revs[d][j] \in Revision(d)
  BY <1>1
<1>3. PICK b \in Builds, c \in Flags : revs[d][j] = RowBy(b, d, c)
  BY <1>2 DEF Revision
<1>4. IsRow(revs[d][j], Registry[b][d])
  BY <1>3, RowByIsRow
<1>5. revs[d][j].epoch \in Nat \ {0}
  BY <1>4, RegistryAssumption DEF IsRow
<1>6. QED
  BY <1>2, <1>3, <1>4, <1>5

(* The trigger's max(consent_epoch) is the epoch of some row.              *)
LEMMA MaxEpochIsOfARow ==
    ASSUME Types, NEW d \in Published, HasLatest(d), revs[d] # <<>>
    PROVE  \E j \in DOMAIN revs[d] : MaxEpoch(d) = revs[d][j].epoch
<1>1. PICK j \in DOMAIN revs[d] : \A i \in DOMAIN revs[d] : revs[d][i].epoch <= revs[d][j].epoch
  BY DEF HasLatest
<1>2. revs[d][j].epoch \in {revs[d][i].epoch : i \in DOMAIN revs[d]}
  OBVIOUS
<1>3. MaxEpoch(d) \in {revs[d][i].epoch : i \in DOMAIN revs[d]}
  BY <1>1, <1>2 DEF MaxEpoch
<1>4. QED
  BY <1>3

(* A declaration that passes the trigger stands on the published rows.     *)
LEMMA GuardStands ==
    ASSUME Types, NEW d \in Published, HasLatest(d), NEW r, EpochGuard(d, r)
    PROVE  Stands(d, r)
  BY MaxEpochIsOfARow DEF EpochGuard, Stands

(* The table only grows: a row keeps its place and what it declares.       *)
Grows(d) == \A j \in DOMAIN revs[d] : j \in DOMAIN revs'[d] /\ IsRow(revs'[d][j], revs[d][j])

LEMMA GrowthKeeps ==
    ASSUME NEW d, Grows(d), NEW r, NEW v, NEW e
    PROVE  /\ InHistory(d, r) => InHistory(d, r)'
           /\ NamesRow(d, v, e) => NamesRow(d, v, e)'
           /\ Stands(d, r) => Stands(d, r)'
<1>1. InHistory(d, r) => InHistory(d, r)'
  BY DEF Grows, InHistory, IsRow
<1>2. NamesRow(d, v, e) => NamesRow(d, v, e)'
  BY DEF Grows, NamesRow, IsRow
<1>3. RowOf(d, r.version) # {} => RowOf(d, r.version)' # {}
  BY DEF Grows, RowOf, IsRow
<1>4. Stands(d, r) => Stands(d, r)'
  BY <1>3 DEF Grows, Stands, IsRow
<1>5. QED
  BY <1>1, <1>2, <1>4

(* The backfill changes the text column of a row and nothing else.         *)
LEMMA BackfillKeepsRows ==
    ASSUME Types, NEW n \in Nodes, revs' = Backfill(n), NEW d \in Published
    PROVE  /\ revs' = [x \in Published |-> revs'[x]]
           /\ revs'[d] \in Seq(Revision(d))
           /\ DOMAIN revs'[d] = DOMAIN revs[d]
           /\ \A j \in DOMAIN revs[d] : IsRow(revs'[d][j], revs[d][j])
<1>1. DocOf(n) \in Published
  BY DocsAre DEF DocOf, Types
<1>2. DOMAIN revs = Published
  BY DEF Types
<1>3. CASE d # DocOf(n)
  <2>1. revs'[d] = revs[d]
    BY <1>2, <1>3 DEF Backfill
  <2>2. QED
    BY <2>1, <1>2 DEF Types, Backfill, IsRow
<1>4. CASE d = DocOf(n)
  <2> DEFINE full == TRUE
  <2> DEFINE fill(i) == IF /\ Carries(n) /\ revs[d][i].version = Declared(n).version
                           /\ revs[d][i].text = Declared(n).text
                        THEN [revs[d][i] EXCEPT !.content = full] ELSE revs[d][i]
  <2>1. revs'[d] = [i \in DOMAIN revs[d] |-> fill(i)]
    BY <1>1, <1>2, <1>4 DEF Backfill
  <2>2. revs[d] \in Seq(Revision(d))
    BY DEF Types
  <2>3. \A i \in DOMAIN revs[d] : fill(i) \in Revision(d) /\ IsRow(fill(i), revs[d][i])
    <3>1. SUFFICES ASSUME NEW i \in DOMAIN revs[d]
                   PROVE  fill(i) \in Revision(d) /\ IsRow(fill(i), revs[d][i])
      OBVIOUS
    <3> full \in Flags
      BY DEF Flags
    <3> HIDE DEF full
    <3>2. PICK b \in Builds, c \in Flags : revs[d][i] = RowBy(b, d, c)
      BY RowsAre
    <3>3. [revs[d][i] EXCEPT !.content = full] = RowBy(b, d, full)
      BY <3>2, RowByIsRow
    <3>4. RowBy(b, d, full) \in Revision(d) /\ IsRow(RowBy(b, d, full), revs[d][i])
      BY <3>2, RowByIsRow, RowByIsRevision
    <3>5. revs[d][i] \in Revision(d) /\ IsRow(revs[d][i], revs[d][i])
      BY RowsAre DEF IsRow
    <3>6. QED
      BY <3>3, <3>4, <3>5
  <2>4. revs'[d] \in Seq(Revision(d))
    <3> HIDE DEF fill
    <3> QED
      BY <2>1, <2>2, <2>3
  <2>5. QED
    BY <2>1, <2>3, <2>4, <1>2 DEF Backfill, Types
<1>5. QED
  BY <1>3, <1>4

(* A new row takes its place behind what it stands on.                     *)
LEMMA InsertKeepsHistory ==
    ASSUME Types, History, NEW n \in Nodes, NEW p, p = DocOf(n), NEW r, r = Declared(n),
           Stands(p, r), RowOf(p, r.version) = {}, revs' = Inserted(n),
           NEW d \in Published
    PROVE  /\ revs' = [x \in Published |-> revs'[x]]
           /\ revs'[d] \in Seq(Revision(d))
           /\ Grows(d)
           /\ (VersionsDiffer(d) /\ EpochsFollow(d) /\ HasLatest(d))'
           /\ InHistory(p, r)'
<1> DEFINE new == RowBy(build[n], p, Carries(n))
           L == Len(revs[p])
<1>1. p \in Published /\ build[n] \in Builds
  BY DocsAre DEF DocOf, Types
<1>2. r = Registry[build[n]][p]
  BY DEF Declared
<1>3. revs' = [revs EXCEPT ![p] = Append(revs[p], new)]
  BY DEF Inserted, RowBy, Declared
<1>4. Carries(n) \in Flags
  BY DEF Carries, Flags
<1>5. new \in Revision(p) /\ IsRow(new, r)
  BY <1>1, <1>2, <1>4, RowByIsRow, RowByIsRevision
<1>6. revs = [x \in Published |-> revs[x]] /\ revs[p] \in Seq(Revision(p))
  BY <1>1 DEF Types
<1>7. r.epoch \in Nat \ {0}
  BY <1>1, <1>2, RegistryAssumption
<1> HIDE DEF new
<1>b. revs'[p] = Append(revs[p], new) /\ revs'[p] \in Seq(Revision(p))
  BY <1>1, <1>3, <1>5, <1>6
<1>8. /\ L \in Nat /\ DOMAIN revs[p] = 1..L /\ DOMAIN revs'[p] = 1..(L + 1)
      /\ \A j \in 1..L : revs'[p][j] = revs[p][j]
      /\ revs'[p][L + 1] = new
  BY <1>5, <1>6, <1>b
<1>c. revs[p] # <<>> <=> L # 0
  BY <1>6
<1>a. /\ \A j \in 1..L : \A m \in 1..revs[p][j].epoch :
           \E i \in 1..j : revs[p][i].material /\ revs[p][i].epoch = m
      /\ L # 0 => \E j \in 1..L : \A i \in 1..L : revs[p][i].epoch <= revs[p][j].epoch
  <2>1. EpochsFollow(p) /\ HasLatest(p)
    BY <1>1 DEF History
  <2>2. QED
    BY <2>1, <1>8, <1>c DEF EpochsFollow, HasLatest
<1> HIDE DEF L
<1>9. \A j \in 1..L : revs[p][j].epoch \in Nat \ {0} /\ revs[p][j].version # r.version
  BY <1>1, <1>8, RowsAre DEF RowOf
<1>10. VersionsDiffer(p)'
  <2>1. VersionsDiffer(p)
    BY <1>1 DEF History
  <2>2. QED
    BY <1>5, <1>8, <1>9, <2>1 DEF VersionsDiffer, IsRow
<1>11. ASSUME NEW m \in 1..r.epoch
       PROVE  \E i \in 1..(L + 1) : revs'[p][i].material /\ revs'[p][i].epoch = m
  <2>1. ASSUME NEW j \in 1..L, NEW k \in 1..revs[p][j].epoch
        PROVE  \E i \in 1..(L + 1) : revs'[p][i].material /\ revs'[p][i].epoch = k
    <3>1. PICK i \in 1..j : revs[p][i].material /\ revs[p][i].epoch = k
      BY <1>a
    <3>2. i \in 1..L /\ i \in 1..(L + 1)
      BY <1>8
    <3>3. revs'[p][i] = revs[p][i]
      BY <1>8, <3>2
    <3>4. QED
      BY <3>1, <3>2, <3>3
  <2>2. CASE r.material /\ m = r.epoch
    <3>1. revs'[p][L + 1].material /\ revs'[p][L + 1].epoch = m
      BY <1>5, <1>8, <2>2 DEF IsRow
    <3>2. L + 1 \in 1..(L + 1)
      BY <1>8
    <3>3. QED
      BY <3>1, <3>2
  <2>3. CASE \E j \in 1..L : r.epoch = revs[p][j].epoch
    BY <2>1, <2>3
  <2>4. CASE m # r.epoch /\ \E j \in 1..L : r.epoch = revs[p][j].epoch + 1
    BY <1>7, <1>9, <2>1, <2>4
  <2>5. \/ r.material /\ r.epoch = 1
        \/ \E j \in 1..L : \/ r.epoch = revs[p][j].epoch
                           \/ r.material /\ r.epoch = revs[p][j].epoch + 1
    BY <1>8 DEF Stands, RowOf
  <2>6. QED
    BY <1>7, <2>2, <2>3, <2>4, <2>5
<1>12. EpochsFollow(p)'
  <2>1. ASSUME NEW j \in 1..L, NEW m \in 1..revs[p][j].epoch
        PROVE  \E i \in 1..j : revs'[p][i].material /\ revs'[p][i].epoch = m
    <3>1. PICK i \in 1..j : revs[p][i].material /\ revs[p][i].epoch = m
      BY <1>a
    <3>2. i \in 1..L
      BY <1>8
    <3>3. revs'[p][i] = revs[p][i]
      BY <1>8, <3>2
    <3>4. QED
      BY <3>1, <3>3
  <2>2. QED
    BY <1>5, <1>8, <1>11, <2>1 DEF EpochsFollow, IsRow
<1>13. HasLatest(p)'
  <2>1. CASE L = 0
    BY <1>5, <1>7, <1>8, <2>1 DEF HasLatest, IsRow
  <2>2. CASE L # 0
    <3>1. PICK j \in 1..L : \A i \in 1..L : revs[p][i].epoch <= revs[p][j].epoch
      BY <1>a, <2>2
    <3>2. CASE r.epoch <= revs[p][j].epoch
      <4>1. \A i \in 1..(L + 1) : revs'[p][i].epoch <= revs'[p][j].epoch
        BY <1>5, <1>8, <3>1, <3>2 DEF IsRow
      <4>2. j \in DOMAIN revs'[p] /\ \A i \in DOMAIN revs'[p] : revs'[p][i].epoch <= revs'[p][j].epoch
        BY <1>8, <4>1
      <4>3. QED
        BY <4>2 DEF HasLatest
    <3>3. CASE revs[p][j].epoch <= r.epoch
      <4>a. revs'[p][L + 1].epoch = r.epoch
        BY <1>5, <1>8 DEF IsRow
      <4>b. ASSUME NEW i \in 1..L PROVE revs'[p][i].epoch <= r.epoch
        <5>1. revs'[p][i].epoch = revs[p][i].epoch
          BY <1>8
        <5>2. revs[p][i].epoch <= revs[p][j].epoch
          BY <3>1
        <5>3. QED
          BY <1>7, <1>9, <3>3, <5>1, <5>2
      <4>1. \A i \in 1..(L + 1) : revs'[p][i].epoch <= revs'[p][L + 1].epoch
        BY <1>7, <1>8, <4>a, <4>b
      <4>2. L + 1 \in DOMAIN revs'[p]
        BY <1>8
      <4>3. \A i \in DOMAIN revs'[p] : revs'[p][i].epoch <= revs'[p][L + 1].epoch
        BY <1>8, <4>1
      <4>4. QED
        BY <4>2, <4>3 DEF HasLatest
    <3>4. QED
      BY <1>7, <1>9, <3>2, <3>3
  <2>3. QED
    BY <2>1, <2>2
<1>14. Grows(p)
  BY <1>8 DEF Grows, IsRow
<1>15. InHistory(p, r)'
  BY <1>5, <1>8 DEF InHistory
<1>16. CASE d = p
  BY <1>3, <1>6, <1>b, <1>10, <1>12, <1>13, <1>14, <1>15, <1>16 
<1>17. CASE d # p
  <2>1. revs'[d] = revs[d]
    BY <1>3, <1>6, <1>17
  <2>2. (VersionsDiffer(d) /\ EpochsFollow(d) /\ HasLatest(d))'
    BY <2>1 DEF History, VersionsDiffer, EpochsFollow, HasLatest
  <2>3. QED
    BY <1>3, <1>6, <1>15, <2>1, <2>2 DEF Grows, IsRow, Types
<1>18. QED
  BY <1>16, <1>17

(* Whatever becomes of a publication, the table grows by the rules, and    *)
(* the node goes on only with a row that is the one it declares.           *)
LEMMA PublishRowEffect ==
    ASSUME Types, History, TriggerHeld, NEW n \in Nodes, PublishRow(n),
           NEW p, p = DocOf(n), NEW r, r = Declared(n)
    PROVE  /\ revs' = [x \in Published |-> revs'[x]]
           /\ \A d \in Published : revs'[d] \in Seq(Revision(d)) /\ Grows(d)
           /\ History'
           /\ \/ memo' = [memo EXCEPT ![n] = Unpublished]
              \/ memo' = [memo EXCEPT ![n] = NextStage(n)] /\ InHistory(p, r)'
<1>1. p \in Published
  BY DocsAre DEF DocOf, Types
<1>2. CASE RowOf(p, r.version) = {}
  <2>1. revs' = Inserted(n) /\ Stands(p, r)
    BY <1>2 DEF PublishRow, TriggerHeld, Held
  <2>2. \A d \in Published :
          /\ revs' = [x \in Published |-> revs'[x]]
          /\ revs'[d] \in Seq(Revision(d))
          /\ Grows(d)
          /\ (VersionsDiffer(d) /\ EpochsFollow(d) /\ HasLatest(d))'
          /\ InHistory(p, r)'
    BY <1>2, <2>1, InsertKeepsHistory
  <2>3. \/ memo' = [memo EXCEPT ![n] = Unpublished]
        \/ memo' = [memo EXCEPT ![n] = NextStage(n)]
    BY <1>2 DEF PublishRow
  <2>4. QED
    BY <1>1, <2>2, <2>3 DEF History
<1>3. CASE RowOf(p, r.version) # {}
  <2>1. revs' = Backfill(n)
    BY <1>3 DEF PublishRow
  <2>2. \A d \in Published :
          /\ revs' = [x \in Published |-> revs'[x]]
          /\ revs'[d] \in Seq(Revision(d))
          /\ DOMAIN revs'[d] = DOMAIN revs[d]
          /\ \A j \in DOMAIN revs[d] : IsRow(revs'[d][j], revs[d][j])
    BY <2>1, BackfillKeepsRows
  <2>3. ASSUME NEW d \in Published
        PROVE  Grows(d) /\ (VersionsDiffer(d) /\ EpochsFollow(d) /\ HasLatest(d))'
    <3>1. /\ DOMAIN revs'[d] = DOMAIN revs[d]
          /\ \A j \in DOMAIN revs[d] : IsRow(revs'[d][j], revs[d][j])
      BY <2>2
    <3>2. VersionsDiffer(d) /\ EpochsFollow(d) /\ HasLatest(d)
      BY DEF History
    <3>3. Grows(d)
      BY <3>1 DEF Grows
    <3>4. VersionsDiffer(d)'
      BY <3>1, <3>2 DEF VersionsDiffer, IsRow
    <3>5. EpochsFollow(d)'
      <4>1. DOMAIN revs[d] = 1..Len(revs[d]) /\ Len(revs[d]) \in Nat
        BY DEF Types
      <4>2. SUFFICES ASSUME NEW j \in DOMAIN revs[d], NEW m \in 1..revs[d][j].epoch
                     PROVE  \E i \in 1..j : revs'[d][i].material /\ revs'[d][i].epoch = m
        BY <3>1 DEF EpochsFollow, IsRow
      <4>3. PICK i \in 1..j : revs[d][i].material /\ revs[d][i].epoch = m
        BY <3>2 DEF EpochsFollow
      <4>4. i \in DOMAIN revs[d]
        BY <4>1
      <4>5. QED
        BY <3>1, <4>3, <4>4 DEF IsRow
    <3>6. HasLatest(d)'
      <4>1. revs'[d] # <<>> => revs[d] # <<>>
        BY <2>2, <3>1 DEF Types
      <4>2. QED
        BY <3>1, <3>2, <4>1 DEF HasLatest, IsRow
    <3>7. QED
      BY <3>3, <3>4, <3>5, <3>6
  <2>4. CASE memo' # [memo EXCEPT ![n] = Unpublished]
    <3>1. Agrees(p, r) /\ memo' = [memo EXCEPT ![n] = NextStage(n)]
      BY <1>3, <2>4 DEF PublishRow
    <3>2. PICK j \in RowOf(p, r.version) : Row(p, r.version) = revs[p][j]
      BY <1>3 DEF Row
    <3>3. j \in DOMAIN revs[p] /\ IsRow(revs[p][j], r)
      BY <3>1, <3>2 DEF Agrees, RowOf, IsRow
    <3>4. InHistory(p, r)
      BY <3>3 DEF InHistory
    <3>5. Grows(p)
      BY <1>1, <2>3
    <3>6. InHistory(p, r)'
      BY <3>4, <3>5, GrowthKeeps
    <3>7. QED
      BY <1>1, <2>2, <2>3, <3>1, <3>6 DEF History
  <2>5. QED
    BY <1>1, <2>2, <2>3, <2>4 DEF History
<1>4. QED
  BY <1>2, <1>3

(* Any step of the model lets the table grow and its history follow.       *)
LEMMA TableGrows ==
    ASSUME Types, History, TriggerHeld, [Next]_vars
    PROVE  /\ revs' = [x \in Published |-> revs'[x]]
           /\ \A d \in Published : revs'[d] \in Seq(Revision(d)) /\ Grows(d)
           /\ History'
<1>1. CASE \E n \in Nodes : PublishRow(n)
  BY <1>1, PublishRowEffect
<1>2. CASE UNCHANGED revs
  BY <1>2 DEF Types, History, VersionsDiffer, EpochsFollow, HasLatest, Grows, IsRow
<1>3. QED
  <2>1. CASE UNCHANGED vars
    BY <2>1, <1>2 DEF vars
  <2>2. ASSUME NEW n \in Nodes, Publish(n) PROVE UNCHANGED revs \/ PublishRow(n)
    BY <2>2 DEF Publish, TriggerPasses, TriggerRefuses
  <2>3. ASSUME NEW n \in Nodes, NEW b \in Builds, Deploy(n, b) PROVE UNCHANGED revs
    BY <2>3 DEF Deploy
  <2>4. ASSUME NEW c \in Clients, Handshake(c) \/ GiveUp(c) \/ \E b \in Builds : UseBundledCopy(c, b)
        PROVE  UNCHANGED revs
    BY <2>4 DEF Handshake, Status, Display, Post, Record, GiveUp, UseBundledCopy,
                HandshakeChanges
  <2>5. CASE Erase
    BY <2>5, <1>2 DEF Erase
  <2>6. QED
    BY <1>1, <1>2, <2>1, <2>2, <2>3, <2>4, <2>5 DEF Next

-----------------------------------------------------------------------------
(* The nodes.                                                              *)
Stages == [at : {"guard", "insert", "ok"}, doc : 1..Len(Docs)]

LEMMA UnpublishedIsAStage == Unpublished \in Stages
  BY DocsAre DEF Unpublished, Stages

(* A node that does nothing loses nothing while the table grows.           *)
LEMMA IdleNodeKeeps ==
    ASSUME Types, NEW n \in Nodes, build'[n] = build[n], memo'[n] = memo[n],
           Held(n), Knows(n), \A d \in Published : Grows(d)
    PROVE  Held(n)' /\ Knows(n)'
<1>1. memo[n].doc \in 1..Len(Docs)
  BY DEF Types
<1>2. Held(n)'
  <2>1. DocOf(n)' = DocOf(n) /\ Declared(n)' = Declared(n)
    BY DEF DocOf, Declared
  <2>2. DocOf(n) \in Published
    BY <1>1, DocsAre DEF DocOf
  <2>3. ASSUME NEW p \in Published, NEW r, Stands(p, r)
        PROVE  Stands(p, r)'
    BY <2>3, GrowthKeeps
  <2>4. QED
    <3>1. CASE memo[n].at = "insert"
      <4>1. Stands(DocOf(n), Declared(n))
        BY <3>1 DEF Held
      <4>2. PICK p, r : p = DocOf(n) /\ r = Declared(n)
        OBVIOUS
      <4>3. Stands(p, r)'
        BY <4>1, <4>2, <2>2, <2>3
      <4>4. QED
        BY <4>2, <4>3, <2>1 DEF Held, Stands, RowOf
    <3>2. QED
      BY <3>1 DEF Held
<1>3. Knows(n)'
  <2>1. SUFFICES ASSUME NEW i \in 1..Len(Docs), memo[n].at = "ok" \/ i < memo[n].doc
                 PROVE  InHistory(Docs[i], Registry[build[n]][Docs[i]])'
    BY DEF Knows, InHistory
  <2>2. InHistory(Docs[i], Registry[build[n]][Docs[i]]) /\ Grows(Docs[i])
    BY <2>1, DocsAre DEF Knows
  <2>3. PICK r : r = Registry[build[n]][Docs[i]]
    OBVIOUS
  <2>4. InHistory(Docs[i], r)'
    BY <2>2, <2>3, GrowthKeeps
  <2>5. QED
    BY <2>3, <2>4 DEF InHistory
<1>4. QED
  BY <1>2, <1>3

(* A node that takes up its next document knows the ones before.           *)
LEMMA PublisherKeeps ==
    ASSUME Types, History, TriggerHeld, PublishedHere, NEW n \in Nodes, Publish(n)
    PROVE  /\ build' = build
           /\ memo' \in [Nodes -> Stages]
           /\ \A m \in Nodes \ {n} : memo'[m] = memo[m]
           /\ Held(n)' /\ Knows(n)'
<1>1. memo \in [Nodes -> Stages] /\ build' = build
  BY DEF Types, Stages, Publish, TriggerPasses, TriggerRefuses, PublishRow, PublishingChanges
<1>2. memo[n].doc \in 1..Len(Docs) /\ Len(Docs) \in Nat
  BY <1>1, DocsAre DEF Stages
<1>3. ASSUME memo' = [memo EXCEPT ![n] = Unpublished]
      PROVE  /\ memo' \in [Nodes -> Stages] /\ \A m \in Nodes \ {n} : memo'[m] = memo[m]
             /\ Held(n)' /\ Knows(n)'
  <2>1. memo'[n] = Unpublished
    BY <1>1, <1>3
  <2>2. \A i \in 1..Len(Docs) : ~(i < 1)
    BY <1>2
  <2>3. Held(n)' /\ Knows(n)'
    BY <2>1, <2>2 DEF Held, Knows, Unpublished
  <2>4. QED
    BY <1>1, <1>3, <2>3, UnpublishedIsAStage
<1>4. CASE TriggerPasses(n)
  <2>1. /\ memo' = [memo EXCEPT ![n] = [memo[n] EXCEPT !.at = "insert"]]
        /\ revs' = revs /\ EpochGuard(DocOf(n), Declared(n)) /\ memo[n].at = "guard"
    BY <1>4 DEF TriggerPasses
  <2>2. /\ memo'[n].at = "insert" /\ memo'[n].doc = memo[n].doc /\ memo'[n] \in Stages
    BY <1>1, <2>1 DEF Stages
  <2>3. DocOf(n) \in Published
    BY <1>2, DocsAre DEF DocOf
  <2>4. Stands(DocOf(n), Declared(n))
    BY <2>1, <2>3, GuardStands DEF History
  <2>5. DocOf(n)' = DocOf(n) /\ Declared(n)' = Declared(n)
    BY <1>1, <2>2 DEF DocOf, Declared
  <2>6. Held(n)'
    BY <2>1, <2>4, <2>5 DEF Held, Stands, RowOf
  <2>7. Knows(n)'
    BY <1>1, <2>1, <2>2 DEF Knows, PublishedHere, InHistory
  <2>8. QED
    BY <1>1, <2>1, <2>2, <2>6, <2>7
<1>5. CASE TriggerRefuses(n)
  BY <1>1, <1>3, <1>5 DEF TriggerRefuses
<1>6. CASE PublishRow(n)
  <2>1. PICK p, r : p = DocOf(n) /\ r = Declared(n)
    OBVIOUS
  <2>2. /\ \A d \in Published : Grows(d)
        /\ \/ memo' = [memo EXCEPT ![n] = Unpublished]
           \/ memo' = [memo EXCEPT ![n] = NextStage(n)] /\ InHistory(p, r)'
    BY <1>6, <2>1, PublishRowEffect
  <2>3. CASE memo' = [memo EXCEPT ![n] = NextStage(n)] /\ InHistory(p, r)'
    <3>1. memo'[n] = NextStage(n) /\ NextStage(n) \in Stages /\ memo'[n].at # "insert"
      BY <1>1, <1>2, <2>3 DEF NextStage, Stages
    <3>2. ASSUME NEW i \in 1..Len(Docs), memo'[n].at = "ok" \/ i < memo'[n].doc
          PROVE  i < memo[n].doc \/ i = memo[n].doc
      BY <1>2, <3>1, <3>2 DEF NextStage
    <3>3. ASSUME NEW i \in 1..Len(Docs), i < memo[n].doc
          PROVE  InHistory(Docs[i], Registry[build[n]][Docs[i]])'
      <4>1. InHistory(Docs[i], Registry[build[n]][Docs[i]]) /\ Grows(Docs[i])
        BY <2>2, <3>3, DocsAre DEF PublishedHere, Knows
      <4>2. PICK q : q = Registry[build[n]][Docs[i]]
        OBVIOUS
      <4>3. InHistory(Docs[i], q)'
        BY <4>1, <4>2, GrowthKeeps
      <4>4. QED
        BY <1>1, <4>2, <4>3 DEF InHistory
    <3>4. \A j : j = memo[n].doc => InHistory(Docs[j], Registry[build[n]][Docs[j]])'
      BY <1>1, <2>1, <2>3 DEF InHistory, DocOf, Declared
    <3>5. Knows(n)'
      BY <3>2, <3>3, <3>4 DEF Knows
    <3>6. QED
      BY <1>1, <2>3, <3>1, <3>5 DEF Held
  <2>4. QED
    BY <1>1, <1>3, <2>2, <2>3
<1>7. QED
  BY <1>4, <1>5, <1>6 DEF Publish

(* A node that starts anew has nothing to keep.                            *)
LEMMA NodesKeep ==
    ASSUME Types, History, TriggerHeld, PublishedHere, [Next]_vars
    PROVE  Types' /\ TriggerHeld' /\ PublishedHere'
<1>1. /\ revs' = [x \in Published |-> revs'[x]]
      /\ \A d \in Published : revs'[d] \in Seq(Revision(d)) /\ Grows(d)
  BY TableGrows
<1>2. memo \in [Nodes -> Stages] /\ build \in [Nodes -> Builds]
  BY DEF Types, Stages
<1>3. \A n \in Nodes : build'[n] = build[n] /\ memo'[n] = memo[n] => Held(n)' /\ Knows(n)'
  BY <1>1, IdleNodeKeeps DEF TriggerHeld, PublishedHere
<1>4. SUFFICES /\ memo' \in [Nodes -> Stages] /\ build' \in [Nodes -> Builds]
               /\ \A n \in Nodes : Held(n)' /\ Knows(n)'
  BY <1>1 DEF Types, Stages, TriggerHeld, PublishedHere
<1>5. ASSUME NEW n \in Nodes, Publish(n)
      PROVE  /\ memo' \in [Nodes -> Stages] /\ build' \in [Nodes -> Builds]
             /\ \A m \in Nodes : Held(m)' /\ Knows(m)'
  BY <1>2, <1>3, <1>5, PublisherKeeps
<1>6. ASSUME NEW n \in Nodes, NEW b \in Builds, Deploy(n, b)
      PROVE  /\ memo' \in [Nodes -> Stages] /\ build' \in [Nodes -> Builds]
             /\ \A m \in Nodes : Held(m)' /\ Knows(m)'
  <2>1. /\ memo' = [memo EXCEPT ![n] = Unpublished] /\ build' = [build EXCEPT ![n] = b]
    BY <1>6 DEF Deploy
  <2>2. memo'[n] = Unpublished /\ \A i \in 1..Len(Docs) : ~(i < 1)
    BY <1>2, <2>1, DocsAre
  <2>3. Held(n)' /\ Knows(n)'
    BY <2>2 DEF Held, Knows, Unpublished
  <2>4. QED
    BY <1>2, <1>3, <2>1, <2>3, UnpublishedIsAStage
<1>7. CASE UNCHANGED <<build, memo>>
  BY <1>2, <1>3, <1>7
<1>8. ASSUME NEW c \in Clients, Handshake(c) \/ GiveUp(c) \/ \E b \in Builds : UseBundledCopy(c, b)
      PROVE  UNCHANGED <<build, memo>>
  BY <1>8 DEF Handshake, Status, Display, Post, Record, GiveUp, UseBundledCopy,
              HandshakeChanges
<1>9. QED
  BY <1>5, <1>6, <1>7, <1>8 DEF Next, Erase, vars

-----------------------------------------------------------------------------
(* The devices.                                                            *)
LEMMA IdleIsADevice == Idle \in Device /\ Idle.at = "start"
  BY DEF Idle, Device

(* A node that is ready serves its registry from the table.                *)
LEMMA ReadyKnows ==
    ASSUME PublishedHere, NEW n \in Nodes, Ready(n), NEW d \in Published
    PROVE  InHistory(d, Registry[build[n]][d])
  BY DocsAre DEF PublishedHere, Knows, Ready

(* What a device is told are entries of some build.                        *)
LEMMA DevicesKeep ==
    ASSUME Types, Devices, [Next]_vars
    PROVE  Devices'
<1>1. CASE client' = client
  BY <1>1 DEF Devices
<1>2. ASSUME NEW c \in Clients, NEW r \in Device, Talk(c, r) PROVE Devices'
  BY <1>2 DEF Devices, Talk
<1>3. ASSUME NEW c \in Clients, NEW n \in Nodes, Status(c, n) PROVE Devices'
  <2> DEFINE told0 == {Entry(build[n], d) : d \in Outstanding(build[n])}
  <2>1. Talk(c, [Idle EXCEPT !.at = "fetch", !.told = told0])
    BY <1>3 DEF Status
  <2>2. told0 \subseteq NoticeEntries
    BY RegistryAssumption DEF Outstanding, NoticeEntries, Types
  <2>3. [Idle EXCEPT !.at = "fetch", !.told = told0] \in Device
    <3> HIDE DEF told0
    <3> QED
      BY <2>2, IdleIsADevice DEF Device
  <2>4. QED
    BY <1>2, <2>1, <2>3
<1>4. ASSUME NEW c \in Clients, NEW n \in Nodes, Display(c, n) PROVE Devices'
  <2>1. PICK e \in client[c].told : Talk(c, [client[c] EXCEPT !.shown = @ \cup {e}]) \/ Talk(c, Idle)
    BY <1>4 DEF Display
  <2>2. client[c] \in Device
    BY DEF Devices
  <2>3. [client[c] EXCEPT !.shown = @ \cup {e}] \in Device
    BY <2>2 DEF Device
  <2>4. QED
    BY <1>2, <2>1, <2>3, IdleIsADevice
<1>5. ASSUME NEW c \in Clients, NEW b \in Builds, UseBundledCopy(c, b) PROVE Devices'
  <2> DEFINE own == {Entry(b, d) : d \in Required}
  <2>1. Talk(c, [Idle EXCEPT !.at = "fetch", !.told = own, !.shown = own])
    BY <1>5 DEF UseBundledCopy
  <2>2. own \subseteq NoticeEntries
    BY RegistryAssumption DEF NoticeEntries
  <2>3. [Idle EXCEPT !.at = "fetch", !.told = own, !.shown = own] \in Device
    <3> HIDE DEF own
    <3> QED
      BY <2>2, IdleIsADevice DEF Device
  <2>4. QED
    BY <1>2, <2>1, <2>3
<1>6. ASSUME NEW c \in Clients, NEW n \in Nodes, Post(c, n) PROVE Devices'
  <2>1. Talk(c, [client[c] EXCEPT !.at = "insert", !.node = n]) \/ Talk(c, Idle)
    BY <1>6 DEF Post
  <2>2. [client[c] EXCEPT !.at = "insert", !.node = n] \in Device
    BY DEF Devices, Device
  <2>3. QED
    BY <1>2, <2>1, <2>2, IdleIsADevice
<1>7. ASSUME NEW c \in Clients, Record(c) PROVE Devices'
  <2>1. PICK e : \/ Talk(c, [client[c] EXCEPT !.told = @ \ {e}, !.shown = @ \ {e}])
                 \/ Talk(c, Idle)
    BY <1>7 DEF Record
  <2>2. [client[c] EXCEPT !.told = @ \ {e}, !.shown = @ \ {e}] \in Device
    BY DEF Devices, Device
  <2>3. QED
    BY <1>2, <2>1, <2>2, IdleIsADevice
<1>8. ASSUME NEW c \in Clients, GiveUp(c) PROVE Devices'
  BY <1>2, <1>8, IdleIsADevice DEF GiveUp
<1>9. ASSUME NEW n \in Nodes, NEW b \in Builds, Deploy(n, b) PROVE Devices'
  BY <1>9, IdleIsADevice DEF Deploy, Devices
<1>10. ASSUME NEW n \in Nodes, Publish(n) PROVE client' = client
  BY <1>10 DEF Publish, TriggerPasses, TriggerRefuses, PublishRow, PublishingChanges
<1>11. QED
  BY <1>1, <1>3, <1>4, <1>5, <1>6, <1>7, <1>8, <1>9, <1>10 DEF Next, Handshake, Erase, vars

(* A request whose node runs on keeps naming the rows it named.            *)
LEMMA IdleDeviceKeeps ==
    ASSUME \A d \in Published : Grows(d), NEW c \in Clients, Asks(c), client'[c] = client[c],
           client[c].at = "insert" => build'[client[c].node] = build[client[c].node]
    PROVE  Asks(c)'
<1>1. ASSUME client[c].at = "insert", NEW e \in client[c].told
      PROVE  /\ e.doc \in Published
             /\ NamesRow(e.doc, e.version, Registry[build[client[c].node]][e.doc].epoch)'
  <2>1. /\ e.doc \in Published /\ Grows(e.doc)
        /\ NamesRow(e.doc, e.version, Registry[build[client[c].node]][e.doc].epoch)
    BY <1>1 DEF Asks
  <2>2. PICK k : k = Registry[build[client[c].node]][e.doc].epoch
    OBVIOUS
  <2>3. NamesRow(e.doc, e.version, k)'
    BY <2>1, <2>2, GrowthKeeps
  <2>4. NamesRow(e.doc, e.version, Registry[build[client[c].node]][e.doc].epoch)'
    BY <1>1, <2>2, <2>3 DEF NamesRow
  <2>5. QED
    BY <2>1, <2>4
<1>2. QED
  BY <1>1 DEF Asks, NamesRow

(* The digest a request carries is its node's own, and the node is ready.  *)
LEMMA RequestsKeep ==
    ASSUME IInv, [Next]_vars
    PROVE  RequestsName'
<1>1. \A d \in Published : Grows(d)
  BY TableGrows DEF IInv
<1>2. /\ client \in [Clients -> Device] /\ build \in [Nodes -> Builds] /\ RequestsName
  BY DEF IInv, Devices, Types
<1>3. ASSUME build' = build, NEW c \in Clients, NEW r, Talk(c, r), r.at # "insert"
      PROVE  RequestsName'
  <2>1. client'[c] = r /\ \A x \in Clients \ {c} : client'[x] = client[x]
    BY <1>2, <1>3 DEF Talk
  <2>2. Asks(c)'
    BY <1>3, <2>1 DEF Asks
  <2>3. QED
    BY <1>1, <1>2, <1>3, <2>1, <2>2, IdleDeviceKeeps DEF RequestsName
<1>4. ASSUME NEW c \in Clients, NEW n \in Nodes, Status(c, n) PROVE RequestsName'
  <2>1. PICK t : Talk(c, [Idle EXCEPT !.at = "fetch", !.told = t])
    BY <1>4 DEF Status
  <2>2. [Idle EXCEPT !.at = "fetch", !.told = t].at # "insert"
    BY DEF Idle
  <2>3. QED
    BY <1>3, <1>4, <2>1, <2>2 DEF Status, HandshakeChanges
<1>5. ASSUME NEW c \in Clients, NEW n \in Nodes, Display(c, n) PROVE RequestsName'
  <2>1. PICK e : Talk(c, [client[c] EXCEPT !.shown = @ \cup {e}]) \/ Talk(c, Idle)
    BY <1>5 DEF Display
  <2>2. client[c] \in Device /\ client[c].at = "fetch" /\ build' = build
    BY <1>2, <1>5 DEF Display, HandshakeChanges
  <2>3. [client[c] EXCEPT !.shown = @ \cup {e}].at # "insert"
    BY <2>2 DEF Device
  <2>4. QED
    BY <1>3, <2>1, <2>2, <2>3, IdleIsADevice
<1>6. ASSUME NEW c \in Clients, NEW b \in Builds, UseBundledCopy(c, b) PROVE RequestsName'
  <2>1. PICK t : Talk(c, [Idle EXCEPT !.at = "fetch", !.told = t, !.shown = t])
    BY <1>6 DEF UseBundledCopy
  <2>2. [Idle EXCEPT !.at = "fetch", !.told = t, !.shown = t].at # "insert"
    BY DEF Idle
  <2>3. QED
    BY <1>3, <1>6, <2>1, <2>2 DEF UseBundledCopy, HandshakeChanges
<1>7. ASSUME NEW c \in Clients, NEW n \in Nodes, Post(c, n) PROVE RequestsName'
  <2>1. build' = build /\ Ready(n) /\ client[c] \in Device
    BY <1>2, <1>7 DEF Post, HandshakeChanges
  <2>2. CASE Talk(c, Idle)
    BY <1>3, <2>1, <2>2, IdleIsADevice
  <2>3. CASE /\ Talk(c, [client[c] EXCEPT !.at = "insert", !.node = n])
             /\ \A e \in client[c].told : Current(n, e)
    <3>1. /\ client'[c].told = client[c].told /\ client'[c].node = n
          /\ \A x \in Clients \ {c} : client'[x] = client[x]
      BY <1>2, <2>1, <2>3 DEF Talk, Device
    <3>2. ASSUME NEW e \in client[c].told
          PROVE  e.doc \in Published /\ NamesRow(e.doc, e.version, Registry[build[n]][e.doc].epoch)'
      <4>1. e \in NoticeEntries /\ e = Entry(build[n], e.doc)
        BY <2>1, <2>3, <3>2 DEF Device, Current
      <4>2. e.doc \in Published
        BY <4>1 DEF NoticeEntries, Entry
      <4>3. InHistory(e.doc, Registry[build[n]][e.doc])
        BY <2>1, <4>2, ReadyKnows DEF IInv
      <4>4. e.version = Registry[build[n]][e.doc].version
        BY <4>1 DEF Entry
      <4>5. PICK k : k = Registry[build[n]][e.doc].epoch
        OBVIOUS
      <4>6. NamesRow(e.doc, e.version, k)
        BY <4>3, <4>4, <4>5 DEF InHistory, NamesRow, IsRow
      <4>7. NamesRow(e.doc, e.version, k)'
        BY <1>1, <4>2, <4>6, GrowthKeeps
      <4>8. QED
        BY <2>1, <4>2, <4>5, <4>7 DEF NamesRow
    <3>3. Asks(c)'
      BY <2>1, <3>1, <3>2 DEF Asks, NamesRow
    <3>4. QED
      BY <1>1, <1>2, <2>1, <3>1, <3>3, IdleDeviceKeeps DEF RequestsName
  <2>4. QED
    BY <1>7, <2>2, <2>3 DEF Post
<1>8. ASSUME NEW c \in Clients, Record(c) PROVE RequestsName'
  <2>1. PICK e : \/ Talk(c, [client[c] EXCEPT !.told = @ \ {e}, !.shown = @ \ {e}])
                 \/ Talk(c, Idle)
    BY <1>8 DEF Record
  <2>2. build' = build /\ client[c] \in Device /\ client[c].at = "insert"
    BY <1>2, <1>8 DEF Record, HandshakeChanges
  <2>3. CASE Talk(c, [client[c] EXCEPT !.told = @ \ {e}, !.shown = @ \ {e}])
    <3>1. /\ client'[c].told \subseteq client[c].told /\ client'[c].node = client[c].node
          /\ \A x \in Clients \ {c} : client'[x] = client[x]
      BY <1>2, <2>2, <2>3 DEF Talk, Device
    <3>2. ASSUME NEW f \in client[c].told
          PROVE  f.doc \in Published
                 /\ NamesRow(f.doc, f.version, Registry[build[client[c].node]][f.doc].epoch)'
      <4>1. /\ f.doc \in Published
            /\ NamesRow(f.doc, f.version, Registry[build[client[c].node]][f.doc].epoch)
        BY <1>2, <2>2 DEF RequestsName, Asks
      <4>2. PICK k : k = Registry[build[client[c].node]][f.doc].epoch
        OBVIOUS
      <4>3. NamesRow(f.doc, f.version, k)'
        BY <1>1, <4>1, <4>2, GrowthKeeps
      <4>4. QED
        BY <2>2, <3>1, <4>1, <4>2, <4>3 DEF NamesRow
    <3>3. Asks(c)'
      BY <1>2, <2>2, <3>1, <3>2 DEF RequestsName, Asks, NamesRow
    <3>4. QED
      BY <1>1, <1>2, <2>2, <3>1, <3>3, IdleDeviceKeeps DEF RequestsName
  <2>4. QED
    BY <1>3, <2>1, <2>2, <2>3, IdleIsADevice
<1>9. ASSUME NEW c \in Clients, GiveUp(c) PROVE RequestsName'
  BY <1>3, <1>9, IdleIsADevice DEF GiveUp, HandshakeChanges
<1>10. ASSUME NEW n \in Nodes, NEW b \in Builds, Deploy(n, b) PROVE RequestsName'
  <2>1. /\ build' = [build EXCEPT ![n] = b]
        /\ client' = [c \in Clients |-> IF client[c].at = "insert" /\ client[c].node = n
                                          THEN Idle ELSE client[c]]
    BY <1>10 DEF Deploy
  <2>2. ASSUME NEW c \in Clients PROVE Asks(c)'
    <3>1. CASE client[c].at = "insert" /\ client[c].node = n
      <4>1. client'[c].at # "insert"
        BY <2>1, <3>1, IdleIsADevice
      <4>2. QED
        BY <4>1 DEF Asks
    <3>2. CASE ~(client[c].at = "insert" /\ client[c].node = n)
      <4>1. client'[c] = client[c]
        BY <2>1, <3>2
      <4>2. client[c].at = "insert" => build'[client[c].node] = build[client[c].node]
        BY <1>2, <2>1, <3>2 DEF RequestsName, Asks
      <4>3. QED
        BY <1>1, <1>2, <4>1, <4>2, IdleDeviceKeeps DEF RequestsName
    <3>3. QED
      BY <3>1, <3>2
  <2>3. QED
    BY <2>2 DEF RequestsName
<1>11. ASSUME UNCHANGED <<client, build>> PROVE RequestsName'
  BY <1>1, <1>2, <1>11, IdleDeviceKeeps DEF RequestsName
<1>12. ASSUME NEW n \in Nodes, Publish(n) PROVE UNCHANGED <<client, build>>
  BY <1>12 DEF Publish, TriggerPasses, TriggerRefuses, PublishRow, PublishingChanges
<1>13. QED
  BY <1>4, <1>5, <1>6, <1>7, <1>8, <1>9, <1>10, <1>11, <1>12
  DEF Next, Handshake, Erase, vars

(* An acceptance is written with the epoch of a published row.             *)
LEMMA AcceptancesKeep ==
    ASSUME IInv, [Next]_vars
    PROVE  AcceptancesName'
<1>1. \A d \in Published : Grows(d)
  BY TableGrows DEF IInv
<1>2. \A r \in consents : r.doc \in Published /\ NamesRow(r.doc, r.version, r.epoch)'
  BY <1>1, GrowthKeeps DEF IInv, AcceptancesName
<1>3. CASE consents' \subseteq consents
  BY <1>2, <1>3 DEF AcceptancesName
<1>4. ASSUME NEW c \in Clients, Record(c) PROVE AcceptancesName'
  <2>1. PICK e \in client[c].told :
          consents' \subseteq consents \cup
            {[doc |-> e.doc, version |-> e.version,
              epoch |-> Registry[build[client[c].node]][e.doc].epoch]}
    BY <1>4 DEF Record
  <2>2. /\ e.doc \in Published
        /\ NamesRow(e.doc, e.version, Registry[build[client[c].node]][e.doc].epoch)
    BY <1>4 DEF Record, IInv, RequestsName, Asks
  <2>3. PICK r : r = [doc |-> e.doc, version |-> e.version,
                      epoch |-> Registry[build[client[c].node]][e.doc].epoch]
    OBVIOUS
  <2>4. r.doc \in Published /\ NamesRow(r.doc, r.version, r.epoch)
    BY <2>2, <2>3
  <2>5. NamesRow(r.doc, r.version, r.epoch)'
    BY <1>1, <2>4, GrowthKeeps
  <2>6. QED
    BY <1>2, <2>1, <2>3, <2>4, <2>5 DEF AcceptancesName
<1>5. ASSUME NEW c \in Clients, Handshake(c), ~Record(c) PROVE consents' = consents
  BY <1>5 DEF Handshake, Status, Display, Post
<1>6. ASSUME NEW c \in Clients, GiveUp(c) \/ \E b \in Builds : UseBundledCopy(c, b)
      PROVE  consents' = consents
  BY <1>6 DEF GiveUp, UseBundledCopy
<1>7. ASSUME NEW n \in Nodes, Publish(n) \/ \E b \in Builds : Deploy(n, b)
      PROVE  consents' = consents
  BY <1>7 DEF Publish, TriggerPasses, TriggerRefuses, PublishRow, PublishingChanges, Deploy
<1>8. QED
  BY <1>3, <1>4, <1>5, <1>6, <1>7 DEF Next, Erase, vars

LEMMA IInvHolds ==
    /\ Init => IInv
    /\ IInv /\ [Next]_vars => IInv'
<1>1. ASSUME Init PROVE IInv
  <2>1. Types
    <3>1. <<>> \in Seq({}) /\ \A S : <<>> \in Seq(S)
      OBVIOUS
    <3>2. QED
      BY <1>1, <3>1, UnpublishedIsAStage, RegistryAssumption DEF Init, Types, Stages
  <2>2. \A d \in Published : revs[d] = <<>> /\ DOMAIN revs[d] = {}
    BY <1>1 DEF Init
  <2>3. History
    BY <2>2 DEF History, VersionsDiffer, EpochsFollow, HasLatest
  <2>4. TriggerHeld /\ PublishedHere
    <3>1. \A i \in 1..Len(Docs) : ~(i < 1)
      BY DocsAre
    <3>2. \A n \in Nodes : memo[n].at = "guard" /\ memo[n].doc = 1
      BY <1>1 DEF Init, Unpublished
    <3>3. QED
      BY <3>1, <3>2 DEF TriggerHeld, Held, PublishedHere, Knows
  <2>5. Devices /\ RequestsName /\ AcceptancesName
    BY <1>1, IdleIsADevice DEF Init, Devices, RequestsName, Asks, AcceptancesName
  <2>6. QED
    BY <2>1, <2>3, <2>4, <2>5 DEF IInv
<1>2. ASSUME IInv, [Next]_vars PROVE IInv'
  BY <1>2, TableGrows, NodesKeep, DevicesKeep, RequestsKeep, AcceptancesKeep DEF IInv
<1>3. QED
  BY <1>1, <1>2

(* Behind a row of the epoch a person accepted stand the material rows of  *)
(* every epoch up to it, and there is no other material row of those.      *)
LEMMA MaterialRowsStandBefore ==
    ASSUME Types, History, NEW d \in Published, NEW q \in DOMAIN revs[d],
           NEW i \in DOMAIN revs[d], revs[d][i].material, revs[d][i].epoch <= revs[d][q].epoch
    PROVE  i <= q
<1>1. /\ DOMAIN revs[d] = 1..Len(revs[d]) /\ Len(revs[d]) \in Nat
      /\ revs[d][i].epoch \in Nat \ {0} /\ revs[d][q].epoch \in Nat
  BY RowsAre
<1>2. revs[d][i].epoch \in 1..revs[d][q].epoch
  BY <1>1
<1>3. PICK k \in 1..q : revs[d][k].material /\ revs[d][k].epoch = revs[d][i].epoch
  BY <1>2 DEF History, EpochsFollow
<1>4. k \in DOMAIN revs[d]
  BY <1>1
<1>5. PICK b \in Builds, c \in Builds :
        IsRow(revs[d][i], Registry[b][d]) /\ IsRow(revs[d][k], Registry[c][d])
  BY <1>4, RowsAre
<1>6. revs[d][i].version = revs[d][k].version
  BY <1>3, <1>5, RegistryAssumption DEF IsRow
<1>7. i = k
  BY <1>4, <1>6 DEF History, VersionsDiffer
<1>8. QED
  BY <1>1, <1>7

(* The gate compares epochs; the order of the published rows is why that   *)
(* is enough.                                                              *)
LEMMA GateIsEnough ==
    ASSUME IInv
    PROVE  MaterialChangeNeedsAssent
<1>1. SUFFICES ASSUME NEW n \in Nodes, Admits(n, "write"), NEW d \in Required
               PROVE  Assented(build[n], d)
  BY DEF MaterialChangeNeedsAssent
<1>2. d \in Published /\ build[n] \in Builds
  BY RegistryAssumption DEF IInv, Types
<1>3. PICK r \in consents : r.doc = d /\ ~(r.epoch < Registry[build[n]][d].epoch)
  BY <1>1 DEF Admits, Outstanding, AcceptedEpochs
<1>4. PICK j \in DOMAIN revs[d] : revs[d][j].version = r.version /\ revs[d][j].epoch = r.epoch
  BY <1>3 DEF IInv, AcceptancesName, NamesRow
<1>5. ASSUME NEW q \in RowOf(d, r.version), NEW i \in DOMAIN revs[d], i > q, revs[d][i].material
      PROVE  revs[d][i].epoch > Registry[build[n]][d].epoch
  <2>1. q = j
    BY <1>2, <1>4, <1>5 DEF IInv, History, VersionsDiffer, RowOf
  <2>2. ~(revs[d][i].epoch <= r.epoch)
    BY <1>2, <1>4, <1>5, <2>1, RowsAre, MaterialRowsStandBefore DEF IInv
  <2>3. /\ revs[d][i].epoch \in Nat /\ r.epoch \in Nat /\ Registry[build[n]][d].epoch \in Nat
    BY <1>2, <1>4, RowsAre, RegistryAssumption DEF IInv
  <2>4. QED
    BY <1>3, <2>2, <2>3
<1>6. QED
  BY <1>3, <1>5 DEF Assented

(* Whatever builds the nodes run, however their publications interleave    *)
(* and fail, a person who may write has accepted the latest material text. *)
THEOREM ConsentIsToTheMaterialText == Spec => []MaterialChangeNeedsAssent
<1>1. IInv => MaterialChangeNeedsAssent
  BY GateIsEnough
<1>2. QED
  BY <1>1, IInvHolds, PTL DEF Spec

-----------------------------------------------------------------------------
(* The public pages.  A cache that keeps the text of a version for good is *)
(* right because a row never changes; the reader's list was given by a     *)
(* ready node, so that what it names is in the table.                      *)
TextOf(d, v, t) == \E j \in DOMAIN revs[d] : revs[d][j].version = v /\ revs[d][j].text = t

KeptAt(u) == u.kind = "version" /\ web[u].status = 200 =>
                 \E t : web[u].body = {t} /\ TextOf(u.doc, u.version, t)
Kept == web = [u \in Urls |-> web[u]] /\ \A u \in Urls : KeptAt(u)
Told == \A e \in told : e.doc \in Published /\ TextOf(e.doc, e.version, e.text)

PagesInv == IInv /\ Kept /\ Told /\ LegalTextIsTheOneAsked

LEMMA TextsKeep ==
    ASSUME NEW d, Grows(d), NEW v, NEW t, TextOf(d, v, t)
    PROVE  TextOf(d, v, t)'
  BY DEF TextOf, Grows, IsRow

LEMMA TextIsUnique ==
    ASSUME History, NEW d \in Published, NEW v, NEW t, NEW x, TextOf(d, v, t), TextOf(d, v, x)
    PROVE  t = x
  BY DEF TextOf, History, VersionsDiffer

LEMMA UrlsAre ==
    ASSUME NEW u \in Urls
    PROVE  /\ u.kind \in {"list", "current", "version"}
           /\ u.kind # "list" => u.doc \in Published
<1>1. \/ u \in {Url("list", "none", 0)}
      \/ u \in {Url("current", d, 0) : d \in Published}
      \/ u \in {Url("version", d, v) : d \in Published, v \in Versions}
  BY DEF Urls
<1>2. CASE u \in {Url("list", "none", 0)}
  BY <1>2 DEF Url
<1>3. CASE u \in {Url("current", d, 0) : d \in Published}
  BY <1>3 DEF Url
<1>4. CASE u \in {Url("version", d, v) : d \in Published, v \in Versions}
  BY <1>4 DEF Url
<1>5. QED
  BY <1>1, <1>2, <1>3, <1>4

(* What a ready node sends of a document is the text of the row asked for. *)
LEMMA SentIsTheRow ==
    ASSUME IInv, NEW n \in Nodes, Ready(n), NEW d \in Published, NEW v
    PROVE  /\ SendDocument(n, d, v).status = 200 =>
                \E t : SendDocument(n, d, v).body = {t} /\ TextOf(d, v, t)
           /\ \A t : TextOf(d, v, t) => SendDocument(n, d, v).status # 422
<1>1. RowOf(d, v) # {} => \E j \in DOMAIN revs[d] : Row(d, v) = revs[d][j] /\ revs[d][j].version = v
  BY DEF Row, RowOf
<1>2. RowOf(d, v) # {} => TextOf(d, v, Row(d, v).text)
  BY <1>1 DEF TextOf
<1>3. RowOf(d, v) = {} => SendDocument(n, d, v).status = 422
  BY DEF SendDocument, Response
<1>4. SendDocument(n, d, v).status = 200 => SendDocument(n, d, v).body = {Row(d, v).text}
  BY DEF SendDocument, Response
<1>5. RowOf(d, v) # {} => SendDocument(n, d, v).status # 422
  BY DEF SendDocument, Response
<1>6. \A t : TextOf(d, v, t) => RowOf(d, v) # {}
  BY DEF TextOf, RowOf
<1>7. QED
  BY <1>2, <1>3, <1>4, <1>5, <1>6

(* A 304 stands for the answer it saves.                                   *)
LEMMA NotModifiedIsTheAnswer ==
    ASSUME NEW kept, NEW r
    PROVE  NotModified(kept, r).status = r.status /\ NotModified(kept, r).body = r.body
  BY DEF NotModified, ConditionalHit

LEMMA PageIsTheRow ==
    ASSUME PagesInv, NEW n \in Nodes, NEW url \in Urls, Fetch(n, url)
    PROVE  (Kept /\ Told /\ LegalTextIsTheOneAsked)'
<1> DEFINE r == NotModified(web[url], Answer(n, url))
<1>1. /\ r.status = Answer(n, url).status /\ r.body = Answer(n, url).body
  BY NotModifiedIsTheAnswer
<1> HIDE DEF r
<1>2. /\ page' = [url |-> url, response |-> r] /\ Ready(n) /\ revs' = revs /\ build' = build
      /\ told' = IF url.kind = "list" /\ r.status = 200 THEN r.body ELSE told
      /\ web' = IF r.status = 200 THEN [web EXCEPT ![url] = r] ELSE web
  BY DEF Fetch, Hand, r, vars
<1>3. ASSUME url.kind = "version"
      PROVE  /\ r.status = 200 => \E t : r.body = {t} /\ TextOf(url.doc, url.version, t)
             /\ \A t : TextOf(url.doc, url.version, t) => r.status # 422
  <2>1. Answer(n, url) = SendDocument(n, url.doc, url.version) /\ url.doc \in Published
    BY <1>3, UrlsAre DEF Answer
  <2>2. QED
    BY <1>1, <1>2, <2>1, SentIsTheRow DEF PagesInv
<1>4. ASSUME url.kind = "current", r.status = 200
      PROVE  r.body = {Registry[build[n]][url.doc].text}
  <2>1. PICK d \in Published : d = url.doc
    BY <1>4, UrlsAre
  <2>2. PICK v : v = Registry[build[n]][d].version
    OBVIOUS
  <2>3. Answer(n, url) = SendDocument(n, d, v)
    BY <1>4, <2>1, <2>2 DEF Answer
  <2>4. PICK t : r.body = {t} /\ TextOf(d, v, t)
    <3>1. SendDocument(n, d, v).status = 200 /\ SendDocument(n, d, v).body = r.body
      BY <1>1, <1>4, <2>3
    <3>2. Ready(n) /\ IInv
      BY <1>2 DEF PagesInv
    <3>3. \E t : SendDocument(n, d, v).body = {t} /\ TextOf(d, v, t)
      BY <3>1, <3>2, SentIsTheRow
    <3>4. QED
      BY <3>1, <3>3
  <2>5. TextOf(d, v, Registry[build[n]][d].text)
    BY <1>2, <2>2, ReadyKnows DEF PagesInv, IInv, InHistory, IsRow, TextOf
  <2>6. QED
    BY <2>1, <2>4, <2>5, TextIsUnique DEF PagesInv, IInv
<1>5. ASSUME url.kind = "list", r.status = 200, NEW e \in r.body
      PROVE  e.doc \in Published /\ TextOf(e.doc, e.version, e.text)
  <2>1. r.body = {Entry(build[n], d) : d \in Published}
    BY <1>1, <1>5 DEF Answer, ListDocuments, Response
  <2>2. PICK d \in Published : e = Entry(build[n], d)
    BY <1>5, <2>1
  <2>3. e.doc = d /\ e.version = Registry[build[n]][d].version /\ e.text = Registry[build[n]][d].text
    BY <2>2 DEF Entry
  <2>4. QED
    BY <1>2, <2>3, ReadyKnows DEF PagesInv, IInv, InHistory, IsRow, TextOf
<1>6. Kept'
  <2>1. web = [u \in Urls |-> web[u]] /\ \A u \in Urls : KeptAt(u)
    BY DEF PagesInv, Kept
  <2>a. web = [u \in Urls |-> web[u]]
    BY <2>1
  <2>2. web' = [u \in Urls |-> web'[u]] /\ \A u \in Urls : web'[u] = web[u] \/ (u = url /\ web'[u] = r)
    <3>1. CASE r.status = 200
      <4>1. web' = [web EXCEPT ![url] = r]
        BY <1>2, <3>1
      <4>2. QED
        BY <2>a, <4>1
    <3>2. CASE r.status # 200
      <4>1. web' = web
        BY <1>2, <3>2
      <4>2. QED
        BY <2>a, <4>1
    <3>3. QED
      BY <3>1, <3>2
  <2>3. ASSUME NEW u \in Urls PROVE KeptAt(u)'
    <3>1. CASE web'[u] = web[u]
      <4>1. KeptAt(u)
        BY <2>1
      <4>2. QED
        BY <1>2, <3>1, <4>1 DEF KeptAt, TextOf
    <3>2. CASE u = url /\ web'[u] = r
      BY <1>2, <1>3, <3>2 DEF KeptAt, TextOf
    <3>3. QED
      BY <2>2, <3>1, <3>2
  <2>4. QED
    BY <2>2, <2>3 DEF Kept
<1>7. Told'
  BY <1>2, <1>5 DEF PagesInv, Told, TextOf
<1>8. ASSUME url.kind = "version", NEW e \in told, e.doc = url.doc, e.version = url.version
      PROVE  r.status # 422 /\ (r.status = 200 => r.body = {e.text})
  <2>1. e.doc \in Published /\ TextOf(url.doc, url.version, e.text)
    BY <1>8 DEF PagesInv, Told
  <2>2. QED
    BY <1>3, <1>8, <2>1, TextIsUnique DEF PagesInv, IInv
<1>9. LegalTextIsTheOneAsked'
  BY <1>2, <1>4, <1>8 DEF LegalTextIsTheOneAsked
<1>10. QED
  BY <1>6, <1>7, <1>9

LEMMA PagesInvHolds ==
    /\ PagesInit => PagesInv
    /\ PagesInv /\ [PagesNext]_<<vars, web, page, told, reads>> => PagesInv'
<1>1. ASSUME PagesInit PROVE PagesInv
  <2>1. Nothing.status = 0 /\ NoPage.url.kind = "none"
    BY DEF Nothing, NoPage, Response, Url
  <2>2. QED
    BY <1>1, <2>1, IInvHolds DEF PagesInit, PagesInv, Kept, KeptAt, Told, LegalTextIsTheOneAsked
<1>2. ASSUME PagesInv, [PagesNext]_<<vars, web, page, told, reads>> PROVE PagesInv'
  <2>1. [Next]_vars
    BY <1>2 DEF PagesNext, FromCache, Fetch, Hand, Next
  <2>2. IInv' /\ \A d \in Published : Grows(d)
    BY <1>2, <2>1, IInvHolds, TableGrows DEF PagesInv, IInv
  <2>3. ASSUME NEW n \in Nodes, NEW url \in Urls, Fetch(n, url)
        PROVE  (Kept /\ Told /\ LegalTextIsTheOneAsked)'
    BY <1>2, <2>3, PageIsTheRow
  <2>4. ASSUME UNCHANGED <<web, told>> PROVE (Kept /\ Told)'
    <3>1. ASSUME NEW u \in Urls, u.kind = "version", web[u].status = 200
          PROVE  \E t : web[u].body = {t} /\ TextOf(u.doc, u.version, t)'
      <4>1. PICK t : web[u].body = {t} /\ TextOf(u.doc, u.version, t)
        BY <1>2, <3>1 DEF PagesInv, Kept, KeptAt
      <4>2. TextOf(u.doc, u.version, t)'
        BY <2>2, <3>1, <4>1, TextsKeep, UrlsAre
      <4>3. QED
        BY <4>1, <4>2
    <3>2. ASSUME NEW e \in told PROVE e.doc \in Published /\ TextOf(e.doc, e.version, e.text)'
      BY <1>2, <2>2, <3>2, TextsKeep DEF PagesInv, Told
    <3>3. Kept'
      BY <1>2, <2>4, <3>1 DEF PagesInv, Kept, KeptAt
    <3>4. Told'
      BY <2>4, <3>2 DEF Told
    <3>5. QED
      BY <3>3, <3>4
  <2>5. ASSUME NEW url \in Urls, FromCache(url)
        PROVE  (Kept /\ Told /\ LegalTextIsTheOneAsked)'
    <3>1. /\ url.kind = "version" /\ web[url].status = 200
          /\ page' = [url |-> url, response |-> web[url]]
          /\ web' = web /\ told' = told /\ revs' = revs
      BY <2>5 DEF FromCache, Hand, Immutable, vars
    <3>2. PICK t : web[url].body = {t} /\ TextOf(url.doc, url.version, t)
      BY <1>2, <3>1 DEF PagesInv, Kept, KeptAt
    <3>3. url.doc \in Published
      BY <3>1, UrlsAre
    <3>4. ASSUME NEW e \in told, e.doc = url.doc, e.version = url.version
          PROVE  web[url].body = {e.text}
      <4>1. TextOf(url.doc, url.version, e.text)
        BY <1>2, <3>4 DEF PagesInv, Told
      <4>2. QED
        BY <1>2, <3>2, <3>3, <4>1, TextIsUnique DEF PagesInv, IInv
    <3>5. LegalTextIsTheOneAsked'
      BY <3>1, <3>4 DEF LegalTextIsTheOneAsked
    <3>6. Kept' /\ Told'
      BY <2>4, <3>1
    <3>7. QED
      BY <3>5, <3>6
  <2>6. CASE page' = NoPage /\ UNCHANGED <<web, told, reads>>
    <3>1. NoPage.url.kind \notin {"current", "version"}
      BY DEF NoPage, Url
    <3>2. QED
      BY <2>2, <2>4, <2>6, <3>1 DEF PagesInv, LegalTextIsTheOneAsked
  <2>7. CASE UNCHANGED <<vars, web, page, told, reads>>
    BY <1>2, <2>2, <2>4, <2>7 DEF PagesInv, LegalTextIsTheOneAsked, vars
  <2>8. QED
    BY <1>2, <2>2, <2>3, <2>5, <2>6, <2>7 DEF PagesNext, PagesInv
<1>3. QED
  BY <1>1, <1>2

(* A reader behind the cache is handed the text whose digest he was given, *)
(* and the current text of a document is one that some node declares now,  *)
(* for any builds and any order of deploys, publications and reads.        *)
THEOREM PublicTextIsTheOneAsked == PagesSpec => []LegalTextIsTheOneAsked
<1>1. PagesInv => LegalTextIsTheOneAsked
  BY DEF PagesInv
<1>2. QED
  BY <1>1, PagesInvHolds, PTL DEF PagesSpec

-----------------------------------------------------------------------------
LEMMA Appended ==
    ASSUME NEW x, NEW y
    PROVE  Append(<<>>, x) = <<x>> /\ Append(<<x>>, y) = <<x, y>>
<1> DEFINE X == {x, y}
<1>1. <<>> \in Seq(X) /\ <<x>> \in Seq(X) /\ x \in X /\ y \in X /\ Len(<<>>) = 0 /\ Len(<<x>>) = 1
  OBVIOUS
<1> HIDE DEF X
<1>2. Append(<<>>, x) \in Seq(X) /\ Len(Append(<<>>, x)) = 1 /\ Append(<<>>, x)[1] = x
  BY <1>1
<1>3. /\ Append(<<x>>, y) \in Seq(X) /\ Len(Append(<<x>>, y)) = 2
      /\ Append(<<x>>, y)[1] = x /\ Append(<<x>>, y)[2] = y
  BY <1>1
<1> DEFINE a == Append(<<>>, x)
           b == Append(<<x>>, y)
<1> HIDE DEF a, b
<1>4. a = <<x>>
  BY <1>2 DEF a
<1>5. b = <<x, y>>
  <2> DEFINE c == <<x, y>>
  <2>1. c \in Seq(X) /\ Len(c) = 2 /\ c[1] = x /\ c[2] = y
    BY <1>1
  <2> HIDE DEF c
  <2>2. b \in Seq(X) /\ Len(b) = 2 /\ b[1] = x /\ b[2] = y
    BY <1>3 DEF b
  <2>3. \A i \in 1..Len(b) : b[i] = c[i]
    BY <2>1, <2>2
  <2>4. b = c
    BY <2>1, <2>2, <2>3, SeqEqual
  <2>5. QED
    BY <2>4 DEF c
<1>6. QED
  BY <1>4, <1>5 DEF a, b

LEMMA NoneRead == Adapt!Present(<<>>) = <<>>
<1> DEFINE l == <<>>
           f == CHOOSE f : f = [k \in 0..0 |-> IF k = 0 THEN <<>>
                    ELSE IF l[k] = Undefined THEN f[k - 1] ELSE Append(f[k - 1], l[k])]
<1>1. Adapt!Present(l) = f[0]
  BY Len(<<>>) = 0 DEF Adapt!Present
<1>2. [k \in 0..0 |-> <<>>] = [k \in 0..0 |-> IF k = 0 THEN <<>>
         ELSE IF l[k] = Undefined THEN [j \in 0..0 |-> <<>>][k - 1]
         ELSE Append([j \in 0..0 |-> <<>>][k - 1], l[k])]
  OBVIOUS
<1>3. f = [k \in 0..0 |-> IF k = 0 THEN <<>>
             ELSE IF l[k] = Undefined THEN f[k - 1] ELSE Append(f[k - 1], l[k])]
  BY <1>2
<1>4. f[0] = <<>>
  BY <1>3
<1>5. QED
  BY <1>1, <1>4

(* A list of one or two whose members all parse.                           *)
LEMMA AllRead ==
    ASSUME NEW X, NEW l \in Seq(X), NEW n \in 1..2, Len(l) = n, Undefined \notin X
    PROVE  Adapt!Present(l) = l
<1> DEFINE f == CHOOSE f : f = [k \in 0..n |-> IF k = 0 THEN <<>>
                    ELSE IF l[k] = Undefined THEN f[k - 1] ELSE Append(f[k - 1], l[k])]
           g == [k \in 0..n |-> IF k = 0 THEN <<>> ELSE IF k = 1 THEN <<l[1]>> ELSE <<l[1], l[2]>>]
<1>1. \A k \in 1..n : l[k] # Undefined
  OBVIOUS
<1>2. Adapt!Present(l) = f[n]
  BY DEF Adapt!Present
<1>3. g = [k \in 0..n |-> IF k = 0 THEN <<>>
             ELSE IF l[k] = Undefined THEN g[k - 1] ELSE Append(g[k - 1], l[k])]
  <2>1. \A k \in 0..n : g[k] = IF k = 0 THEN <<>>
             ELSE IF l[k] = Undefined THEN g[k - 1] ELSE Append(g[k - 1], l[k])
    <3>1. g[0] = <<>> /\ g[1] = <<l[1]>> /\ (n = 2 => g[2] = <<l[1], l[2]>>)
      OBVIOUS
    <3> HIDE DEF g
    <3>2. Append(<<>>, l[1]) = <<l[1]>> /\ Append(<<l[1]>>, l[2]) = <<l[1], l[2]>>
      BY Appended
    <3> SUFFICES ASSUME NEW k \in 0..n
                 PROVE  g[k] = IF k = 0 THEN <<>>
                        ELSE IF l[k] = Undefined THEN g[k - 1] ELSE Append(g[k - 1], l[k])
      OBVIOUS
    <3>3. k = 0 \/ k = 1 \/ (k = 2 /\ n = 2)
      OBVIOUS
    <3>4. CASE k = 0
      BY <3>1, <3>4
    <3>5. CASE k = 1
      <4>1. k - 1 = 0 /\ l[k] # Undefined
        BY <1>1, <3>5
      <4>2. QED
        BY <3>1, <3>2, <3>5, <4>1
    <3>6. CASE k = 2 /\ n = 2
      <4>1. k - 1 = 1 /\ l[k] # Undefined
        BY <1>1, <3>6
      <4>2. QED
        BY <3>1, <3>2, <3>6, <4>1
    <3>7. QED
      BY <3>3, <3>4, <3>5, <3>6
  <2>2. QED
    BY <2>1
<1>4. f = [k \in 0..n |-> IF k = 0 THEN <<>>
             ELSE IF l[k] = Undefined THEN f[k - 1] ELSE Append(f[k - 1], l[k])]
  <2> HIDE DEF g
  <2> QED
    BY <1>3
<1> HIDE DEF f, g
<1>5. f[0] = <<>> /\ f[1] = <<l[1]>> /\ (n = 2 => f[2] = <<l[1], l[2]>>)
  <2>1. \A k \in 0..n : f[k] = IF k = 0 THEN <<>>
             ELSE IF l[k] = Undefined THEN f[k - 1] ELSE Append(f[k - 1], l[k])
    BY <1>4
  <2>2. f[0] = <<>> /\ \A k \in 1..n : f[k] = Append(f[k - 1], l[k])
    <3>1. 0 \in 0..n /\ \A k \in 1..n : k \in 0..n /\ k # 0
      OBVIOUS
    <3>2. f[0] = <<>>
      BY <2>1, <3>1
    <3>3. ASSUME NEW k \in 1..n PROVE f[k] = Append(f[k - 1], l[k])
      BY <1>1, <2>1, <3>1
    <3>4. QED
      BY <3>2, <3>3
  <2>3. f[1] = Append(f[0], l[1]) /\ (n = 2 => f[2] = Append(f[1], l[2]))
    BY <2>2
  <2>4. Append(<<>>, l[1]) = <<l[1]>> /\ Append(<<l[1]>>, l[2]) = <<l[1], l[2]>>
    BY Appended
  <2>5. QED
    BY <2>2, <2>3, <2>4
<1>6. CASE n = 1
  <2>1. <<l[1]>> \in Seq(X) /\ Len(<<l[1]>>) = 1
    BY <1>6
  <2>2. l = <<l[1]>>
    BY <1>6, <2>1, SeqEqual
  <2>3. QED
    BY <1>2, <1>5, <1>6, <2>2
<1>7. CASE n = 2
  <2> DEFINE c == <<l[1], l[2]>>
  <2>1. c \in Seq(X) /\ Len(c) = 2 /\ c[1] = l[1] /\ c[2] = l[2]
    BY <1>7
  <2> HIDE DEF c
  <2>2. l = c
    BY <1>7, <2>1, SeqEqual
  <2>3. QED
    BY <1>2, <1>5, <1>7, <2>2 DEF c
<1>8. QED
  BY <1>6, <1>7

-----------------------------------------------------------------------------
(* What a response must be taken for.                                      *)
Says(r) ==
    LET accepted == Adapt!Accepted(r, Adapt!AcceptStatuses, Adapt!EmptyStatuses(op))
        result == Adapt!Interpret(op, r)
    IN  /\ r.means \in {"answer", "failure", "unclear"}
        /\ r.means = "failure" => (accepted => result.error # "none")
        /\ r.means = "unclear" =>
              accepted /\ result.ids = {} /\ result.error \notin Adapt!RetryableKinds
        /\ r.means = "answer" =>
              /\ accepted /\ result.error = "none"
              /\ r.names = {"?"} \/ result.ids = r.names

LEMMA NotEmpty == 200 \notin Adapt!EmptyStatuses(op) /\ 429 \notin Adapt!EmptyStatuses(op)
  BY DEF Adapt!EmptyStatuses

LEMMA SaysAnswer ==
    ASSUME NEW body, NEW ids, NEW names_, names_ = ids \/ names_ = {"?"},
           body.t \notin {"blank", "text"},
           Adapt!Inspect(body) = "none", Adapt!Read(op, body) = Adapt!Returns(ids)
    PROVE  Says(Adapt!Answers(body, names_))
<1> DEFINE r == Adapt!Answers(body, names_)
<1>1. r.status = 200 /\ r.body = body /\ r.means = "answer" /\ r.names = names_
  BY DEF Adapt!Answers
<1> HIDE DEF r
<1>2. Adapt!Accepted(r, Adapt!AcceptStatuses, Adapt!EmptyStatuses(op))
  BY <1>1 DEF Adapt!Accepted
<1>3. Adapt!Payload(r, Adapt!EmptyStatuses(op)) = body
  BY <1>1, NotEmpty DEF Adapt!Payload
<1>4. Adapt!Interpret(op, r) = Adapt!Returns(ids)
  BY <1>1, <1>3 DEF Adapt!Interpret, Adapt!Unparseable
<1>5. Says(r)
  BY <1>1, <1>2, <1>4 DEF Says, Adapt!Returns
<1>6. QED
  BY <1>5 DEF r

LEMMA SaysNothing ==
    ASSUME NEW body, NEW status \in Adapt!EmptyStatuses(op),
           Adapt!Inspect(Adapt!Null) = "none",
           Adapt!Read(op, Adapt!Null) = Adapt!Returns({})
    PROVE  Says(Adapt!Nothing(status, body))
<1> DEFINE r == Adapt!Nothing(status, body)
<1>1. r.status = status /\ r.body = body /\ r.means = "answer" /\ r.names = {}
  BY DEF Adapt!Nothing
<1> HIDE DEF r
<1>2. Adapt!Accepted(r, Adapt!AcceptStatuses, Adapt!EmptyStatuses(op))
  BY <1>1 DEF Adapt!Accepted
<1>3. Adapt!Payload(r, Adapt!EmptyStatuses(op)) = Adapt!Null
  BY <1>1 DEF Adapt!Payload
<1>4. Adapt!Interpret(op, r) = Adapt!Returns({})
  BY <1>1, <1>3 DEF Adapt!Interpret, Adapt!Unparseable
<1>5. Says(r)
  BY <1>1, <1>2, <1>4 DEF Says, Adapt!Returns
<1>6. QED
  BY <1>5 DEF r

LEMMA SaysFailure ==
    ASSUME NEW status, NEW body, status \notin Adapt!EmptyStatuses(op),
           body.t \notin {"blank", "text"}, Adapt!Inspect(body) # "none"
    PROVE  Says(Adapt!Fails(status, body))
<1> DEFINE r == Adapt!Fails(status, body)
<1>1. r.status = status /\ r.body = body /\ r.means = "failure"
  BY DEF Adapt!Fails
<1> HIDE DEF r
<1>2. Adapt!Payload(r, Adapt!EmptyStatuses(op)) = body
  BY <1>1 DEF Adapt!Payload
<1>3. Adapt!Interpret(op, r) = Adapt!Throws(Adapt!Inspect(body))
  BY <1>1, <1>2 DEF Adapt!Interpret, Adapt!Unparseable
<1>4. Says(r)
  BY <1>1, <1>3 DEF Says, Adapt!Throws
<1>5. QED
  BY <1>4 DEF r

LEMMA SaysRefusal ==
    ASSUME NEW status, NEW body,
           status \notin 200 .. 299 \cup Adapt!AcceptStatuses \cup Adapt!EmptyStatuses(op)
    PROVE  Says(Adapt!Fails(status, body))
  BY DEF Says, Adapt!Fails, Adapt!Accepted

(* A response that the method reads as nothing or refuses to read.         *)
LEMMA SaysUnclear ==
    ASSUME NEW status, NEW body, status \in 200 .. 299 \cup Adapt!AcceptStatuses,
           status \notin Adapt!EmptyStatuses(op), body.t # "text",
           NEW doc, doc = IF body.t = "blank" THEN Adapt!Null ELSE body,
           \/ Adapt!Inspect(doc) \notin Adapt!RetryableKinds \cup {"none"}
           \/ /\ Adapt!Inspect(doc) = "none"
              /\ Adapt!Read(op, doc) \in {Adapt!Returns({}), Adapt!Throws("malformed")}
    PROVE  Says(Adapt!Unclear(status, body))
<1> DEFINE r == Adapt!Unclear(status, body)
<1>1. r.status = status /\ r.body = body /\ r.means = "unclear"
  BY DEF Adapt!Unclear
<1> HIDE DEF r
<1>2. Adapt!Accepted(r, Adapt!AcceptStatuses, Adapt!EmptyStatuses(op))
  BY <1>1 DEF Adapt!Accepted
<1>3. Adapt!Payload(r, Adapt!EmptyStatuses(op)) = doc
  BY <1>1 DEF Adapt!Payload
<1>4. ~Adapt!Unparseable(r, Adapt!EmptyStatuses(op))
  BY <1>1 DEF Adapt!Unparseable
<1>5. Adapt!Interpret(op, r) \in {Adapt!Throws(Adapt!Inspect(doc)), Adapt!Returns({}),
                                 Adapt!Throws("malformed")}
      /\ (Adapt!Interpret(op, r) = Adapt!Throws(Adapt!Inspect(doc)) =>
             Adapt!Inspect(doc) \notin Adapt!RetryableKinds)
  <2>1. CASE Adapt!Inspect(doc) = "none"
    BY <1>3, <1>4, <2>1 DEF Adapt!Interpret, Adapt!RetryableKinds
  <2>2. CASE Adapt!Inspect(doc) # "none"
    BY <1>3, <1>4, <2>2 DEF Adapt!Interpret
  <2>3. QED
    BY <2>1, <2>2
<1>6. Adapt!Interpret(op, r).ids = {} /\ Adapt!Interpret(op, r).error \notin Adapt!RetryableKinds
  BY <1>5 DEF Adapt!Returns, Adapt!Throws, Adapt!RetryableKinds
<1>7. Says(r)
  BY <1>1, <1>2, <1>6 DEF Says
<1>8. QED
  BY <1>7 DEF r

(* Only Last.fm and Deezer say in an answer that there is none.            *)
LEMMA NothingInside ==
    ASSUME provider \notin {"lastfm", "deezer"}, NEW body
    PROVE  Adapt!Inspect(body) = "none"
  BY DEF Adapt!Inspect

LEMMA NumeralsAre == \A t \in DOMAIN Adapt!Numerals : Adapt!Numerals[t] \in 0 .. 100
  BY DEF Adapt!Numerals

LEMMA NumberIs ==
    ASSUME NEW v, NEW key, Adapt!Child(v, key).t = "number" => Adapt!Child(v, key).v \in Nat
    PROVE  Adapt!OptNumber(v, key) \in Opt(Nat)
<1> DEFINE c == Adapt!Child(v, key)
<1>1. Adapt!OptNumber(v, key) =
        CASE c.t = "number" -> c.v
          [] c.t = "string" /\ c.v \in DOMAIN Adapt!Numerals -> Adapt!Numerals[c.v]
          [] OTHER -> Undefined
  BY DEF Adapt!OptNumber
<1> HIDE DEF c
<1>2. c.t = "number" => c.v \in Nat
  BY DEF c
<1>3. QED
  BY <1>1, <1>2, NumeralsAre DEF Opt

LEMMA NullReads ==
    ASSUME NEW key
    PROVE  /\ Adapt!Child(Adapt!Null, key) = Adapt!Null
           /\ Adapt!ArrayOrSingle(Adapt!Null, key) = <<>>
           /\ Adapt!OptString(Adapt!Null, key) = Undefined
           /\ Adapt!OptRecord(Adapt!Null, key) = Adapt!Null
           /\ Adapt!OptMbid(Adapt!Null, key) = Undefined
           /\ Adapt!OptBoolean(Adapt!Null, key) = Undefined
           /\ Adapt!OptNumber(Adapt!Null, key) = Undefined
<1>1. Adapt!Child(Adapt!Null, key) = Adapt!Null /\ Adapt!Null.t = "null"
  BY DEF Adapt!Null, Adapt!Child, Adapt!IsRecord
<1>2. Adapt!OptString(Adapt!Null, key) = Undefined
  BY <1>1 DEF Adapt!OptString
<1>3. QED
  BY <1>1, <1>2 DEF Adapt!ArrayOrSingle, Adapt!OptRecord, Adapt!OptMbid, Adapt!OptBoolean,
     Adapt!OptNumber, Adapt!IsRecord

-----------------------------------------------------------------------------
(* musicbrainz/client.ts.                                                  *)

MbArtistDoc == Adapt!Obj([id |-> Adapt!Str("mbid-a"), name |-> Adapt!Str("Ann"),
                          life_span |-> Adapt!Obj([begin |-> Adapt!Str("99")])])
MbSong == Adapt!Obj([id |-> Adapt!Str("mbid-b"), title |-> Adapt!Str("Song"),
                     length |-> Adapt!Num(3), artist_credit |-> Adapt!Arr(Adapt!Credit)])
MbFoundArtist == Adapt!Obj([id |-> Adapt!Str("mbid-a"), score |-> Adapt!Num(100),
                            name |-> Adapt!Str("Ann")])
MbFoundSong == Adapt!Obj([id |-> Adapt!Str("mbid-b"), score |-> Adapt!Num(98),
                          title |-> Adapt!Str("Song"), artist_credit |-> Adapt!Arr(Adapt!Credit)])

LEMMA CreditRead ==
    ASSUME NEW v, Adapt!Child(v, "artist_credit") = Adapt!Arr(Adapt!Credit)
    PROVE  Adapt!CreditOf(v) = [mbid |-> "mbid-a", name |-> "Ann"]
<1> DEFINE nested == Adapt!Obj([id |-> Adapt!Str("mbid-a"), name |-> Adapt!Str("Ann")])
           first == Adapt!Obj([name |-> Adapt!Str("Ann"), artist |-> nested])
<1>1. Adapt!Credit = <<first>>
  BY DEF Adapt!Credit
<1>2. Adapt!OptString(first, "name") = "Ann" /\ Adapt!Child(first, "artist") = nested
  BY DEF Adapt!OptString, Adapt!Child, Adapt!Obj, Adapt!Str, Adapt!IsRecord
<1>3. Adapt!OptString(nested, "id") = "mbid-a"
  BY DEF Adapt!OptString, Adapt!Child, Adapt!Obj, Adapt!Str, Adapt!IsRecord
<1> HIDE DEF nested, first
<1>4. Adapt!OptMbid(nested, "id") = "mbid-a"
  BY <1>3 DEF Adapt!OptMbid, Adapt!IsMbid, Adapt!Known
<1>5. Adapt!ArrayOrSingle(v, "artist_credit") = <<first>>
  BY <1>1 DEF Adapt!ArrayOrSingle, Adapt!Arr
<1>6. <<first>> # <<>> /\ <<first>>[1] = first
  OBVIOUS
<1>7. "Ann" # Undefined
  BY UndefinedAssumption DEF UndefinedAssumption, Texts
<1>8. QED
  BY <1>2, <1>4, <1>5, <1>6, <1>7 DEF Adapt!CreditOf, Adapt!Or

LEMMA NoCredit ==
    ASSUME NEW v, Adapt!Child(v, "artist_credit") = Adapt!Null
    PROVE  Adapt!CreditOf(v) \in Credited
<1>1. Adapt!ArrayOrSingle(v, "artist_credit") = <<>>
  BY DEF Adapt!ArrayOrSingle, Adapt!Null
<1>2. Adapt!CreditOf(v) = [mbid |-> Undefined, name |-> "Unknown Artist"]
  BY <1>1, NullReads DEF Adapt!CreditOf, Adapt!Or
<1>3. Undefined \in Opt(Texts) /\ "Unknown Artist" \in Texts
  BY DEF Opt, Texts
<1> DEFINE rec == [mbid |-> Undefined, name |-> "Unknown Artist"]
<1>4. rec \in [mbid : Opt(Texts), name : Texts]
  BY <1>3
<1>5. QED
  BY <1>2, <1>4 DEF Credited

LEMMA ArtistParses ==
    ASSUME NEW v \in {MbArtistDoc, MbFoundArtist}
    PROVE  /\ Adapt!MbArtist(v) # Undefined /\ Adapt!MbArtist(v).mbid = "mbid-a"
           /\ v.t = "object"
<1>1. /\ v.t = "object"
      /\ Adapt!OptString(v, "name") = "Ann" /\ Adapt!OptString(v, "id") = "mbid-a"
  <2>1. CASE v = MbArtistDoc
    BY <2>1 DEF MbArtistDoc, Adapt!OptString, Adapt!Child, Adapt!Obj, Adapt!Str, Adapt!IsRecord
  <2>2. CASE v = MbFoundArtist
    BY <2>2 DEF MbFoundArtist, Adapt!OptString, Adapt!Child, Adapt!Obj, Adapt!Str, Adapt!IsRecord
  <2>3. QED
    BY <2>1, <2>2
<1>2. Adapt!OptMbid(v, "id") = "mbid-a"
  BY <1>1 DEF Adapt!OptMbid, Adapt!IsMbid, Adapt!Known
<1> DEFINE span == Adapt!Child(v, "life_span")
           b == Adapt!OptNumber(span, "begin")
           rec == [mbid |-> "mbid-a", name |-> "Ann", beganYear |-> b]
<1>3. b \in Opt(Nat)
  <2>1. Adapt!Child(span, "begin").t # "number"
    <3>1. CASE v = MbArtistDoc
      <4>1. span = Adapt!Obj([begin |-> Adapt!Str("99")])
        BY <3>1 DEF MbArtistDoc, Adapt!Child, Adapt!Obj, Adapt!IsRecord
      <4> HIDE DEF span
      <4>2. QED
        BY <4>1 DEF Adapt!Child, Adapt!Obj, Adapt!IsRecord, Adapt!Str
    <3>2. CASE v = MbFoundArtist
      <4>1. span = Adapt!Null
        BY <3>2 DEF MbFoundArtist, Adapt!Child, Adapt!Obj, Adapt!IsRecord
      <4> HIDE DEF span
      <4>2. QED
        BY <4>1, NullReads DEF Adapt!Null
    <3>3. QED
      BY <3>1, <3>2
  <2> HIDE DEF span
  <2>2. QED
    BY <2>1, NumberIs
<1>4. "mbid-a" # Undefined /\ "Ann" # Undefined
  BY UndefinedAssumption DEF UndefinedAssumption, Texts
<1>5. rec # Undefined
  <2> HIDE DEF b
  <2>1. rec \in [mbid : Texts, name : Texts, beganYear : Opt(Nat)]
    BY <1>3 DEF Texts
  <2>2. QED
    BY <2>1, UndefinedAssumption DEF UndefinedAssumption
<1>6. Adapt!HasString(v, "name")
  BY <1>1, <1>4 DEF Adapt!HasString
<1>7. Adapt!MbArtist(v) = rec
  BY <1>1, <1>2, <1>4, <1>6 DEF Adapt!MbArtist
<1>8. QED
  BY <1>1, <1>5, <1>7

LEMMA SongParses ==
    ASSUME NEW v \in {MbSong, MbFoundSong}
    PROVE  /\ Adapt!MbRecording(v) # Undefined /\ Adapt!MbRecording(v).mbid = "mbid-b"
           /\ Adapt!MbRelease(v) # Undefined /\ Adapt!MbRelease(v).mbid = "mbid-b"
           /\ v.t = "object"
<1>1. /\ v.t = "object"
      /\ Adapt!OptString(v, "title") = "Song" /\ Adapt!OptString(v, "id") = "mbid-b"
      /\ Adapt!Child(v, "artist_credit") = Adapt!Arr(Adapt!Credit)
      /\ Adapt!Child(v, "media") = Adapt!Null
      /\ Adapt!Child(v, "length") = Adapt!Num(3) \/ Adapt!Child(v, "length") = Adapt!Null
  <2>1. CASE v = MbSong
    BY <2>1 DEF MbSong, Adapt!OptString, Adapt!Child, Adapt!Obj, Adapt!Str, Adapt!IsRecord
  <2>2. CASE v = MbFoundSong
    BY <2>2 DEF MbFoundSong, Adapt!OptString, Adapt!Child, Adapt!Obj, Adapt!Str, Adapt!IsRecord
  <2>3. QED
    BY <2>1, <2>2
<1>2. Adapt!OptMbid(v, "id") = "mbid-b"
  BY <1>1 DEF Adapt!OptMbid, Adapt!IsMbid, Adapt!Known
<1>3. "mbid-b" # Undefined /\ "Song" # Undefined /\ Adapt!HasString(v, "title")
  BY <1>1, UndefinedAssumption DEF UndefinedAssumption, Texts, Adapt!HasString
<1> DEFINE b == Adapt!OptNumber(v, "length")
           c == Adapt!CreditOf(v)
           n == Adapt!TrackCount(v)
           rec == [mbid |-> "mbid-b", title |-> "Song", lengthMs |-> b, artist |-> c]
           rel == [mbid |-> "mbid-b", title |-> "Song", trackCount |-> n, artist |-> c]
<1>4. b \in Opt(Nat)
  BY <1>1, NumberIs DEF Adapt!Num, Adapt!Null
<1>5. c \in Credited
  <2>1. c = [mbid |-> "mbid-a", name |-> "Ann"]
    BY <1>1, CreditRead
  <2>2. "mbid-a" \in Opt(Texts) /\ "Ann" \in Texts
    BY DEF Opt, Texts
  <2> HIDE DEF c
  <2>3. QED
    BY <2>1, <2>2 DEF Credited
<1>6. n = Undefined
  <2>1. Adapt!ArrayOrSingle(v, "media") = <<>>
    BY <1>1 DEF Adapt!ArrayOrSingle, Adapt!Null
  <2>2. [i \in DOMAIN <<>> |-> Adapt!OptNumber(<<>>[i], "track_count")] = <<>>
    OBVIOUS
  <2>3. Adapt!TrackCount(v) =
          LET media == <<>>
              stated == Adapt!Present([i \in DOMAIN media |->
                                         Adapt!OptNumber(media[i], "track_count")])
          IN IF stated = <<>> THEN Undefined ELSE Adapt!Seqs!FoldLeft(+, 0, stated)
    BY <2>1 DEF Adapt!TrackCount
  <2>4. QED
    BY <2>2, <2>3, NoneRead
<1>7. "mbid-b" \in Texts /\ "Song" \in Texts /\ n \in Opt(Nat)
  BY <1>6 DEF Texts, Opt
<1>8. rec # Undefined /\ rel # Undefined
  <2> HIDE DEF b, c, n
  <2>1. rec \in [mbid : Texts, title : Texts, lengthMs : Opt(Nat), artist : Credited]
    BY <1>4, <1>5, <1>7
  <2>2. rel \in [mbid : Texts, title : Texts, trackCount : Opt(Nat), artist : Credited]
    BY <1>5, <1>7
  <2>3. QED
    BY <2>1, <2>2, UndefinedAssumption DEF UndefinedAssumption
<1>9. Adapt!MbRecording(v) = rec /\ Adapt!MbRelease(v) = rel
  BY <1>1, <1>2, <1>3 DEF Adapt!MbRecording, Adapt!MbRelease
<1>10. QED
  BY <1>1, <1>8, <1>9

(* One that parses is all that a list of one is read as.                   *)
LEMMA OneRead ==
    ASSUME NEW x, x # Undefined
    PROVE  Adapt!Present(<<x>>) = <<x>>
<1> DEFINE X == {x}
           l == <<x>>
<1>1. l \in Seq(X) /\ Len(l) = 1 /\ Undefined \notin X /\ 1 \in 1..2
  OBVIOUS
<1> HIDE DEF X, l
<1>2. Adapt!Present(l) = l
  BY <1>1, AllRead
<1>3. QED
  BY <1>2 DEF l

LEMMA FieldOfOne ==
    ASSUME NEW x, NEW f
    PROVE  Adapt!Field(<<x>>, f) = {x[f]} /\ Adapt!Field(<<>>, f) = {}
  BY DEF Adapt!Field

LEMMA SearchRead ==
    /\ \A key : Adapt!ParseSearch(Adapt!Obj(<<>>), key) = Adapt!Returns({})
    /\ Adapt!ParseSearch(Adapt!Obj([artists |-> Adapt!Arr(<<MbFoundArtist>>)]), "artists")
         = Adapt!Returns({"mbid-a"})
    /\ Adapt!ParseSearch(Adapt!Obj([recordings |-> Adapt!Arr(<<MbFoundSong>>)]), "recordings")
         = Adapt!Returns({"mbid-b"})
<1>1. ASSUME NEW key PROVE Adapt!ParseSearch(Adapt!Obj(<<>>), key) = Adapt!Returns({})
  <2> DEFINE Item(v) == IF key = "artists" THEN Adapt!MbArtist(v) ELSE Adapt!MbRecording(v)
  <2>1. Adapt!Child(Adapt!Obj(<<>>), key) = Adapt!Null
    BY DEF Adapt!Child, Adapt!Obj, Adapt!IsRecord
  <2>2. Adapt!ArrayOrSingle(Adapt!Obj(<<>>), key) = <<>>
    BY <2>1 DEF Adapt!ArrayOrSingle, Adapt!Null
  <2>3. [i \in DOMAIN <<>> |-> Item(<<>>[i])] = <<>>
    OBVIOUS
  <2>4. Adapt!Parsed(<<>>, Item) = <<>>
    BY <2>3, NoneRead DEF Adapt!Parsed
  <2>5. QED
    BY <2>2, <2>4, FieldOfOne DEF Adapt!ParseSearch
<1>2. Adapt!ParseSearch(Adapt!Obj([artists |-> Adapt!Arr(<<MbFoundArtist>>)]), "artists")
         = Adapt!Returns({"mbid-a"})
  <2> DEFINE v == MbFoundArtist
             x == Adapt!MbArtist(v)
             d == Adapt!Obj([artists |-> Adapt!Arr(<<v>>)])
  <2>1. x # Undefined /\ x.mbid = "mbid-a"
    BY ArtistParses
  <2>2. Adapt!ArrayOrSingle(d, "artists") = <<v>>
    BY DEF Adapt!ArrayOrSingle, Adapt!Child, Adapt!Obj, Adapt!Arr, Adapt!IsRecord
  <2>3. [i \in DOMAIN <<v>> |-> Adapt!MbArtist(<<v>>[i])] = <<x>>
    OBVIOUS
  <2>4. Adapt!ParseSearch(d, "artists") = Adapt!Returns(Adapt!Field(Adapt!Present(
           [i \in DOMAIN <<v>> |-> Adapt!MbArtist(<<v>>[i])]), "mbid"))
    BY <2>2 DEF Adapt!ParseSearch, Adapt!Parsed
  <2>5. Adapt!Field(Adapt!Present(<<x>>), "mbid") = {x.mbid}
    <3> HIDE DEF x
    <3> QED
      BY <2>1, OneRead, FieldOfOne
  <2>6. QED
    BY <2>1, <2>3, <2>4, <2>5
<1>3. Adapt!ParseSearch(Adapt!Obj([recordings |-> Adapt!Arr(<<MbFoundSong>>)]), "recordings")
         = Adapt!Returns({"mbid-b"})
  <2> DEFINE v == MbFoundSong
             x == Adapt!MbRecording(v)
             d == Adapt!Obj([recordings |-> Adapt!Arr(<<v>>)])
  <2>1. x # Undefined /\ x.mbid = "mbid-b"
    BY SongParses
  <2>2. Adapt!ArrayOrSingle(d, "recordings") = <<v>>
    BY DEF Adapt!ArrayOrSingle, Adapt!Child, Adapt!Obj, Adapt!Arr, Adapt!IsRecord
  <2>3. [i \in DOMAIN <<v>> |-> Adapt!MbRecording(<<v>>[i])] = <<x>>
    OBVIOUS
  <2>4. Adapt!ParseSearch(d, "recordings") = Adapt!Returns(Adapt!Field(Adapt!Present(
           [i \in DOMAIN <<v>> |-> Adapt!MbRecording(<<v>>[i])]), "mbid"))
    BY <2>2 DEF Adapt!ParseSearch, Adapt!Parsed
  <2>5. Adapt!Field(Adapt!Present(<<x>>), "mbid") = {x.mbid}
    <3> HIDE DEF x
    <3> QED
      BY <2>1, OneRead, FieldOfOne
  <2>6. QED
    BY <2>1, <2>3, <2>4, <2>5
<1>4. QED
  BY <1>1, <1>2, <1>3

LEMMA MusicBrainzSays ==
    ASSUME provider = "musicbrainz", op \in Adapt!Methods(provider),
           NEW r \in Adapt!Handled(op) \cup Adapt!Real(op)
    PROVE  Says(r)
<1>1. op \in {"lookupArtist", "lookupRecording", "lookupRelease", "searchArtist", "searchRecording"}
  BY DEF Adapt!Methods
<1>2. \A payload : /\ Adapt!Inspect(payload) = "none"
                   /\ Adapt!Read(op, payload) = Adapt!MusicBrainzReads(op, payload)
  <2>1. \A payload : Adapt!Inspect(payload) = "none"
    BY DEF Adapt!Inspect
  <2>2. QED
    BY <1>1, <2>1 DEF Adapt!Read
<1>3. Adapt!Handled(op) = Adapt!MusicBrainzHandle(op)
  BY DEF Adapt!Handled
<1>4. CASE op \in {"lookupArtist", "lookupRecording", "lookupRelease"}
  <2> DEFINE body == IF op = "lookupArtist" THEN MbArtistDoc ELSE MbSong
             id == IF op = "lookupArtist" THEN "mbid-a" ELSE "mbid-b"
  <2>1. Adapt!Handled(op) = {Adapt!Answers(body, {id})}
    BY <1>3, <1>4 DEF Adapt!MusicBrainzHandle, Adapt!LookupResponse, MbArtistDoc, MbSong
  <2>2. body.t = "object" /\ Adapt!MusicBrainzReads(op, body) = Adapt!Returns({id})
    <3>1. CASE op = "lookupArtist"
      BY <3>1, ArtistParses DEF Adapt!MusicBrainzReads, Adapt!MbLookup
    <3>2. CASE op = "lookupRecording"
      BY <3>2, SongParses DEF Adapt!MusicBrainzReads, Adapt!MbLookup
    <3>3. CASE op = "lookupRelease"
      BY <3>3, SongParses DEF Adapt!MusicBrainzReads, Adapt!MbLookup
    <3>4. QED
      BY <1>4, <3>1, <3>2, <3>3
  <2> HIDE DEF body, id
  <2>3. Says(Adapt!Answers(body, {id}))
    BY <1>2, <2>2, SaysAnswer
  <2>4. Adapt!Real(op) = {Adapt!Nothing(404, Adapt!Text)} /\ 404 \in Adapt!EmptyStatuses(op)
    BY <1>4 DEF Adapt!Real, Adapt!EmptyStatuses
  <2>5. Adapt!MusicBrainzReads(op, Adapt!Null) = Adapt!Returns({})
    BY <1>4 DEF Adapt!MusicBrainzReads, Adapt!MbLookup, Adapt!Null
  <2>6. Says(Adapt!Nothing(404, Adapt!Text))
    BY <1>2, <2>4, <2>5, SaysNothing
  <2>7. QED
    BY <2>1, <2>3, <2>4, <2>6
<1>5. CASE op \in {"searchArtist", "searchRecording"}
  <2> DEFINE body == IF op = "searchArtist"
                     THEN Adapt!Obj([artists |-> Adapt!Arr(<<MbFoundArtist>>)])
                     ELSE Adapt!Obj([recordings |-> Adapt!Arr(<<MbFoundSong>>)])
             id == IF op = "searchArtist" THEN "mbid-a" ELSE "mbid-b"
             none == Adapt!Obj(<<>>)
  <2>1. Adapt!Handled(op) = {Adapt!Answers(body, {id})}
    BY <1>3, <1>5 DEF Adapt!MusicBrainzHandle, Adapt!SearchResponse, MbFoundArtist, MbFoundSong
  <2>2. /\ body.t = "object" /\ Adapt!MusicBrainzReads(op, body) = Adapt!Returns({id})
        /\ none.t = "object" /\ Adapt!MusicBrainzReads(op, none) = Adapt!Returns({})
    <3>1. body.t = "object" /\ none.t = "object"
      BY DEF Adapt!Obj
    <3>2. CASE op = "searchArtist"
      BY <3>1, <3>2, SearchRead DEF Adapt!MusicBrainzReads
    <3>3. CASE op = "searchRecording"
      BY <3>1, <3>3, SearchRead DEF Adapt!MusicBrainzReads
    <3>4. QED
      BY <1>5, <3>2, <3>3
  <2> HIDE DEF body, id
  <2>3. Adapt!Real(op) = {Adapt!Answers(none, {})}
    BY <1>5 DEF Adapt!Real, Adapt!Nothing, Adapt!Answers
  <2> HIDE DEF none
  <2>4. Says(Adapt!Answers(body, {id})) /\ Says(Adapt!Answers(none, {}))
    BY <1>2, <2>2, SaysAnswer
  <2>5. QED
    BY <2>1, <2>3, <2>4
<1>6. QED
  BY <1>1, <1>4, <1>5

-----------------------------------------------------------------------------
(* listenbrainz/client.ts.                                                 *)

TokenDoc == Adapt!Obj([valid |-> Adapt!Bool(TRUE), user_name |-> Adapt!Str("u")])
Suggested == Adapt!Obj([recording_mbid |-> Adapt!Str("mbid-b"), score |-> Adapt!Num(1)])
RecommendedDoc == Adapt!Obj([payload |-> Adapt!Obj([mbids |-> Adapt!Arr(<<Suggested>>)])])
Playlist == Adapt!Obj([playlist |->
              Adapt!Obj([identifier |-> Adapt!Str("p"), title |-> Adapt!Str("Weekly Jams"),
                         date |-> Adapt!Str("d")])])
PlaylistsDoc == Adapt!Obj([playlists |-> Adapt!Arr(<<Playlist>>)])
OnRadio == Adapt!Obj([recording_mbid |-> Adapt!Str("mbid-b"),
                      recording_name |-> Adapt!Str("Song"),
                      artist_mbid |-> Adapt!Str("mbid-a"), artist_name |-> Adapt!Str("Ann"),
                      similarity |-> Adapt!Num(1)])
Bucket == Adapt!Obj([recordings |-> Adapt!Arr(<<OnRadio>>)])
RadioDoc == Adapt!Obj([mbid \in {"mbid-a"} |-> Bucket])
TopArtist == Adapt!Obj([artist_mbid |-> Adapt!Str("mbid-a"), artist_name |-> Adapt!Str("Ann"),
                        listen_count |-> Adapt!Num(5)])
TopDoc == Adapt!Obj([payload |-> Adapt!Obj([artists |-> Adapt!Arr(<<TopArtist>>)])])

LEMMA TokenRead ==
    /\ Adapt!ValidateToken(TokenDoc) = Adapt!Returns({"u"})
    /\ Adapt!ValidateToken(Adapt!Null) = Adapt!Returns({})
<1>1. Adapt!OptString(TokenDoc, "user_name") = "u"
  BY DEF TokenDoc, Adapt!OptString, Adapt!Child, Adapt!Obj, Adapt!Str, Adapt!IsRecord
<1>2. Adapt!OptBoolean(TokenDoc, "valid") = TRUE
  BY DEF TokenDoc, Adapt!OptBoolean, Adapt!Child, Adapt!Obj, Adapt!Bool, Adapt!IsRecord
<1>3. Adapt!OptBoolean(Adapt!Null, "valid") = Undefined
  BY NullReads
<1>4. Undefined # TRUE
  BY UndefinedAssumption DEF UndefinedAssumption
<1>5. QED
  BY <1>1, <1>2, <1>3, <1>4 DEF Adapt!ValidateToken

LEMMA FieldRead ==
    ASSUME NEW x, x # Undefined, NEW f
    PROVE  Adapt!Field(Adapt!Present(<<x>>), f) = {x[f]}
  BY OneRead, FieldOfOne

LEMMA RecommendedRead ==
    /\ Adapt!RecommendedRecordings(RecommendedDoc) = Adapt!Returns({"mbid-b"})
    /\ Adapt!RecommendedRecordings(Adapt!Null) = Adapt!Returns({})
<1> DEFINE P(item) == IF Adapt!OptMbid(item, "recording_mbid") = Undefined
                      THEN Undefined
                      ELSE [mbid |-> Adapt!OptMbid(item, "recording_mbid"),
                            score |-> Adapt!Or(Adapt!OptNumber(item, "score"), 0)]
           v == Suggested
<1>1. Adapt!OptString(v, "recording_mbid") = "mbid-b" /\ Adapt!Child(v, "score") = Adapt!Num(1)
  BY DEF Suggested, Adapt!OptString, Adapt!Child, Adapt!Obj, Adapt!Str, Adapt!IsRecord
<1>2. Adapt!OptMbid(v, "recording_mbid") = "mbid-b" /\ "mbid-b" # Undefined
  BY <1>1, UndefinedAssumption DEF Adapt!OptMbid, Adapt!IsMbid, Adapt!Known,
     UndefinedAssumption, Texts
<1>3. Adapt!OptNumber(v, "score") = 1 /\ 1 # Undefined
  BY <1>1, UndefinedAssumption DEF Adapt!OptNumber, Adapt!Num, UndefinedAssumption
<1> DEFINE x == [mbid |-> "mbid-b", score |-> 1]
<1>4. x # Undefined
  <2>1. x \in [mbid : Texts, score : Nat]
    BY DEF Texts
  <2>2. QED
    BY <2>1, UndefinedAssumption DEF UndefinedAssumption
<1>5. P(v) = x
  BY <1>2, <1>3 DEF Adapt!Or
<1>6. Adapt!ArrayOrSingle(Adapt!OptRecord(RecommendedDoc, "payload"), "mbids") = <<v>>
  BY DEF RecommendedDoc, Adapt!ArrayOrSingle, Adapt!OptRecord, Adapt!Child, Adapt!Obj, Adapt!Arr,
     Adapt!IsRecord
<1>7. Adapt!RecommendedRecordings(RecommendedDoc) = Adapt!Returns(Adapt!Field(Adapt!Present(
           [i \in DOMAIN <<v>> |-> P(<<v>>[i])]), "mbid"))
  BY <1>6 DEF Adapt!RecommendedRecordings, Adapt!Parsed
<1>8. [i \in DOMAIN <<v>> |-> P(<<v>>[i])] = <<x>>
  <2> HIDE DEF P, x
  <2> QED
    BY <1>5
<1>9. Adapt!Field(Adapt!Present(<<x>>), "mbid") = {"mbid-b"}
  <2>1. x.mbid = "mbid-b"
    OBVIOUS
  <2> HIDE DEF x
  <2> QED
    BY <1>4, <2>1, FieldRead
<1>10. Adapt!RecommendedRecordings(Adapt!Null) = Adapt!Returns({})
  <2>1. Adapt!ArrayOrSingle(Adapt!OptRecord(Adapt!Null, "payload"), "mbids") = <<>>
    BY NullReads
  <2>2. [i \in DOMAIN <<>> |-> P(<<>>[i])] = <<>>
    OBVIOUS
  <2>3. Adapt!RecommendedRecordings(Adapt!Null) = Adapt!Returns(Adapt!Field(Adapt!Present(
           [i \in DOMAIN <<>> |-> P(<<>>[i])]), "mbid"))
    BY <2>1 DEF Adapt!RecommendedRecordings, Adapt!Parsed
  <2>4. QED
    BY <2>2, <2>3, NoneRead, FieldOfOne
<1>11. QED
  BY <1>7, <1>8, <1>9, <1>10

LEMMA PlaylistsRead ==
    /\ Adapt!ListenBrainzReads("createdForPlaylists", PlaylistsDoc) = Adapt!Returns({"p"})
    /\ Adapt!ListenBrainzReads("createdForPlaylists", Adapt!Null) = Adapt!Returns({})
<1> DEFINE P(item) == Adapt!CreatedForPlaylist(item)
           v == Playlist
           pl == Adapt!OptRecord(v, "playlist")
           x == [identifier |-> "p", title |-> "Weekly Jams"]
<1>1. Adapt!OptString(pl, "identifier") = "p" /\ Adapt!OptString(pl, "title") = "Weekly Jams"
  <2>1. pl = Adapt!Obj([identifier |-> Adapt!Str("p"), title |-> Adapt!Str("Weekly Jams"),
                        date |-> Adapt!Str("d")])
    BY DEF Playlist, Adapt!OptRecord, Adapt!Child, Adapt!Obj, Adapt!IsRecord
  <2> HIDE DEF pl
  <2>2. QED
    BY <2>1 DEF Adapt!OptString, Adapt!Child, Adapt!Obj, Adapt!Str, Adapt!IsRecord
<1>2. x # Undefined /\ "p" # Undefined /\ "Weekly Jams" # Undefined
  <2>1. x \in [identifier : Texts, title : Texts]
    BY DEF Texts
  <2>2. QED
    BY <2>1, UndefinedAssumption DEF UndefinedAssumption, Texts
<1>3. P(v) = x
  BY <1>1, <1>2 DEF Adapt!CreatedForPlaylist
<1>4. Adapt!ArrayOrSingle(PlaylistsDoc, "playlists") = <<v>>
  BY DEF PlaylistsDoc, Adapt!ArrayOrSingle, Adapt!Child, Adapt!Obj, Adapt!Arr, Adapt!IsRecord
<1>5. [i \in DOMAIN <<v>> |-> P(<<v>>[i])] = <<x>> /\ x.identifier = "p"
  <2>1. x.identifier = "p"
    OBVIOUS
  <2> HIDE DEF P, x
  <2>2. QED
    BY <1>3, <2>1
<1>6. Adapt!ListenBrainzReads("createdForPlaylists", PlaylistsDoc)
        = Adapt!Returns(Adapt!Field(Adapt!Present([i \in DOMAIN <<v>> |-> P(<<v>>[i])]),
                                    "identifier"))
  BY <1>4 DEF Adapt!ListenBrainzReads, Adapt!Parsed
<1>7. Adapt!Field(Adapt!Present(<<x>>), "identifier") = {"p"}
  <2> HIDE DEF x
  <2> QED
    BY <1>2, <1>5, FieldRead
<1>8. Adapt!ListenBrainzReads("createdForPlaylists", Adapt!Null) = Adapt!Returns({})
  <2>1. Adapt!ArrayOrSingle(Adapt!Null, "playlists") = <<>>
    BY NullReads
  <2>2. [i \in DOMAIN <<>> |-> P(<<>>[i])] = <<>>
    OBVIOUS
  <2>3. Adapt!ListenBrainzReads("createdForPlaylists", Adapt!Null)
          = Adapt!Returns(Adapt!Field(Adapt!Present([i \in DOMAIN <<>> |-> P(<<>>[i])]),
                                      "identifier"))
    BY <2>1 DEF Adapt!ListenBrainzReads, Adapt!Parsed
  <2>4. QED
    BY <2>2, <2>3, NoneRead, FieldOfOne
<1>9. QED
  BY <1>5, <1>6, <1>7, <1>8

LEMMA RadioRead ==
    /\ Adapt!ArtistRadio(RadioDoc) = Adapt!Returns({"mbid-b"})
    /\ Adapt!ArtistRadio(Adapt!Null) = Adapt!Returns({})
<1> DEFINE P(item) == Adapt!RadioRecording(item)
           v == OnRadio
           x == [mbid |-> "mbid-b", name |-> "Song", artistName |-> "Ann", similarity |-> 1]
           All(b) == Adapt!Field(Adapt!Parsed(Adapt!ArrayOrSingle(b, "recordings"),
                                              Adapt!RadioRecording), "mbid")
<1>1. /\ Adapt!OptString(v, "recording_mbid") = "mbid-b"
      /\ Adapt!OptString(v, "recording_name") = "Song"
      /\ Adapt!OptString(v, "artist_name") = "Ann"
      /\ Adapt!Child(v, "similarity") = Adapt!Num(1)
  BY DEF OnRadio, Adapt!OptString, Adapt!Child, Adapt!Obj, Adapt!Str, Adapt!IsRecord
<1>2. "mbid-b" # Undefined /\ "Song" # Undefined /\ "Ann" # Undefined /\ 1 # Undefined
  <2>1. 1 # Undefined
    BY UndefinedAssumption DEF UndefinedAssumption
  <2>2. "mbid-b" # Undefined /\ "Song" # Undefined /\ "Ann" # Undefined
    BY UndefinedAssumption DEF UndefinedAssumption, Texts
  <2>3. QED
    BY <2>1, <2>2
<1>3. /\ Adapt!OptMbid(v, "recording_mbid") = "mbid-b"
      /\ Adapt!OptNumber(v, "similarity") = 1
  BY <1>1 DEF Adapt!OptMbid, Adapt!IsMbid, Adapt!Known, Adapt!OptNumber, Adapt!Num
<1>4. x # Undefined
  <2>1. x \in [mbid : Texts, name : Texts, artistName : Texts, similarity : Nat]
    BY DEF Texts
  <2>2. QED
    BY <2>1, UndefinedAssumption DEF UndefinedAssumption
<1>5. P(v) = x
  BY <1>1, <1>2, <1>3 DEF Adapt!RadioRecording, Adapt!Or
<1>6. Adapt!ArrayOrSingle(Bucket, "recordings") = <<v>>
  BY DEF Bucket, Adapt!ArrayOrSingle, Adapt!Child, Adapt!Obj, Adapt!Arr, Adapt!IsRecord
<1>7. [i \in DOMAIN <<v>> |-> P(<<v>>[i])] = <<x>> /\ x.mbid = "mbid-b"
  BY <1>5
<1>8. All(Bucket) = Adapt!Field(Adapt!Present([i \in DOMAIN <<v>> |-> P(<<v>>[i])]), "mbid")
  BY <1>6 DEF Adapt!Parsed
<1>9. Adapt!Field(Adapt!Present(<<x>>), "mbid") = {"mbid-b"}
  <2> HIDE DEF x
  <2> QED
    BY <1>4, <1>7, FieldRead
<1>10. All(Bucket) = {"mbid-b"}
  BY <1>7, <1>8, <1>9
<1>11. /\ Adapt!IsRecord(RadioDoc) /\ DOMAIN RadioDoc.v = {"mbid-a"}
       /\ RadioDoc.v["mbid-a"] = Bucket
  BY DEF RadioDoc, Adapt!IsRecord, Adapt!Obj
<1>12. Adapt!ArtistRadio(RadioDoc)
         = Adapt!Returns(UNION {All(RadioDoc.v[k]) : k \in DOMAIN RadioDoc.v})
  BY <1>11 DEF Adapt!ArtistRadio
<1> HIDE DEF All
<1>13. UNION {All(RadioDoc.v[k]) : k \in DOMAIN RadioDoc.v} = {"mbid-b"}
  BY <1>10, <1>11
<1>14. Adapt!ArtistRadio(Adapt!Null) = Adapt!Returns({})
  BY DEF Adapt!ArtistRadio, Adapt!IsRecord, Adapt!Null
<1>15. QED
  BY <1>12, <1>13, <1>14

LEMMA TopRead ==
    /\ Adapt!LbTopArtists(TopDoc) = Adapt!Returns({"Ann"})
    /\ Adapt!LbTopArtists(Adapt!Null) = Adapt!Returns({})
<1> DEFINE P(item) == IF Adapt!OptString(item, "artist_name") = Undefined
                      THEN Undefined
                      ELSE [name |-> Adapt!OptString(item, "artist_name"),
                            listens |-> Adapt!Or(Adapt!OptNumber(item, "listen_count"), 0)]
           v == TopArtist
           x == [name |-> "Ann", listens |-> 5]
<1>1. Adapt!OptString(v, "artist_name") = "Ann" /\ Adapt!Child(v, "listen_count") = Adapt!Num(5)
  BY DEF TopArtist, Adapt!OptString, Adapt!Child, Adapt!Obj, Adapt!Str, Adapt!IsRecord
<1>2. Adapt!OptNumber(v, "listen_count") = 5 /\ 5 # Undefined /\ "Ann" # Undefined
  <2>1. Adapt!OptNumber(v, "listen_count") = 5
    BY <1>1 DEF Adapt!OptNumber, Adapt!Num
  <2>2. 5 # Undefined
    BY UndefinedAssumption DEF UndefinedAssumption
  <2>3. "Ann" # Undefined
    BY UndefinedAssumption DEF UndefinedAssumption, Texts
  <2>4. QED
    BY <2>1, <2>2, <2>3
<1>3. x # Undefined
  <2>1. x \in [name : Texts, listens : Nat]
    BY DEF Texts
  <2>2. QED
    BY <2>1, UndefinedAssumption DEF UndefinedAssumption
<1>4. P(v) = x
  BY <1>1, <1>2 DEF Adapt!Or
<1>5. Adapt!ArrayOrSingle(Adapt!OptRecord(TopDoc, "payload"), "artists") = <<v>>
  BY DEF TopDoc, Adapt!ArrayOrSingle, Adapt!OptRecord, Adapt!Child, Adapt!Obj, Adapt!Arr,
     Adapt!IsRecord
<1>6. Adapt!LbTopArtists(TopDoc) = Adapt!Returns(Adapt!Field(Adapt!Present(
           [i \in DOMAIN <<v>> |-> P(<<v>>[i])]), "name"))
  BY <1>5 DEF Adapt!LbTopArtists, Adapt!Parsed
<1>7. [i \in DOMAIN <<v>> |-> P(<<v>>[i])] = <<x>>
  <2> HIDE DEF P, x
  <2> QED
    BY <1>4
<1>8. Adapt!Field(Adapt!Present(<<x>>), "name") = {"Ann"}
  <2>1. x.name = "Ann"
    OBVIOUS
  <2> HIDE DEF x
  <2> QED
    BY <1>3, <2>1, FieldRead
<1>9. Adapt!LbTopArtists(Adapt!Null) = Adapt!Returns({})
  <2>1. Adapt!ArrayOrSingle(Adapt!OptRecord(Adapt!Null, "payload"), "artists") = <<>>
    BY NullReads
  <2>2. [i \in DOMAIN <<>> |-> P(<<>>[i])] = <<>>
    OBVIOUS
  <2>3. Adapt!LbTopArtists(Adapt!Null) = Adapt!Returns(Adapt!Field(Adapt!Present(
           [i \in DOMAIN <<>> |-> P(<<>>[i])]), "name"))
    BY <2>1 DEF Adapt!LbTopArtists, Adapt!Parsed
  <2>4. QED
    BY <2>2, <2>3, NoneRead, FieldOfOne
<1>10. QED
  BY <1>6, <1>7, <1>8, <1>9

LEMMA ListenBrainzSays ==
    ASSUME provider = "listenbrainz", op \in Adapt!Methods(provider) \ {"exploreRadio"},
           NEW r \in Adapt!Handled(op) \cup Adapt!Real(op)
    PROVE  Says(r)
<1>1. op \in {"validateToken", "recommendedRecordings", "createdForPlaylists", "artistRadio",
              "topArtists"}
  BY DEF Adapt!Methods
<1>2. \A payload : /\ Adapt!Inspect(payload) = "none"
                   /\ Adapt!Read(op, payload) = Adapt!ListenBrainzReads(op, payload)
  <2>1. \A payload : Adapt!Inspect(payload) = "none"
    BY DEF Adapt!Inspect
  <2>2. QED
    BY <1>1, <2>1 DEF Adapt!Read
<1> DEFINE body == CASE op = "validateToken" -> TokenDoc
                     [] op = "recommendedRecordings" -> RecommendedDoc
                     [] op = "createdForPlaylists" -> PlaylistsDoc
                     [] op = "artistRadio" -> RadioDoc
                     [] op = "topArtists" -> TopDoc
           id == CASE op = "validateToken" -> "u"
                   [] op = "createdForPlaylists" -> "p"
                   [] op = "topArtists" -> "Ann"
                   [] OTHER -> "mbid-b"
<1>3. Adapt!Handled(op) = {Adapt!Answers(body, {id})}
  <2>1. Adapt!Handled(op) = Adapt!ListenBrainzHandle(op)
    BY DEF Adapt!Handled
  <2>2. CASE op = "validateToken"
    BY <2>1, <2>2 DEF Adapt!ListenBrainzHandle, Adapt!ValidToken, TokenDoc
  <2>3. CASE op = "recommendedRecordings"
    BY <2>1, <2>3 DEF Adapt!ListenBrainzHandle, Adapt!CfRecommendations, RecommendedDoc, Suggested
  <2>4. CASE op = "createdForPlaylists"
    BY <2>1, <2>4 DEF Adapt!ListenBrainzHandle, Adapt!CreatedForPlaylists, PlaylistsDoc, Playlist
  <2>5. CASE op = "artistRadio"
    <3>1. [mbid \in {"mbid-a"} |-> Bucket] = [mbid \in {"mbid-a"} |-> Adapt!Obj([recordings |->
             Adapt!Arr(<<Adapt!Obj([recording_mbid |-> Adapt!Str("mbid-b"),
                      recording_name |-> Adapt!Str("Song"),
                      artist_mbid |-> Adapt!Str(mbid), artist_name |-> Adapt!Str("Ann"),
                      similarity |-> Adapt!Num(1)])>>)])]
      BY DEF Bucket, OnRadio
    <3>2. QED
      BY <2>1, <2>5, <3>1 DEF Adapt!ListenBrainzHandle, Adapt!LbRadioArtist, RadioDoc
  <2>6. CASE op = "topArtists"
    BY <2>1, <2>6 DEF Adapt!ListenBrainzHandle, Adapt!UserTopArtists, TopDoc, TopArtist
  <2>7. QED
    BY <1>1, <2>2, <2>3, <2>4, <2>5, <2>6
<1>4. body.t = "object"
  BY <1>1 DEF TokenDoc, RecommendedDoc, PlaylistsDoc, RadioDoc, TopDoc, Adapt!Obj
<1>5. /\ Adapt!ListenBrainzReads(op, body) = Adapt!Returns({id})
      /\ Adapt!ListenBrainzReads(op, Adapt!Null) = Adapt!Returns({})
  <2>1. CASE op = "validateToken"
    BY <2>1, TokenRead DEF Adapt!ListenBrainzReads
  <2>2. CASE op = "recommendedRecordings"
    BY <2>2, RecommendedRead DEF Adapt!ListenBrainzReads
  <2>3. CASE op = "createdForPlaylists"
    BY <2>3, PlaylistsRead
  <2>4. CASE op = "artistRadio"
    BY <2>4, RadioRead DEF Adapt!ListenBrainzReads
  <2>5. CASE op = "topArtists"
    BY <2>5, TopRead DEF Adapt!ListenBrainzReads
  <2>6. QED
    BY <1>1, <2>1, <2>2, <2>3, <2>4, <2>5
<1> HIDE DEF body, id
<1>6. Says(Adapt!Answers(body, {id}))
  BY <1>2, <1>4, <1>5, SaysAnswer
<1>7. ASSUME NEW s \in Adapt!Real(op) PROVE Says(s)
  <2>1. \E status \in Adapt!EmptyStatuses(op) : \E b : s = Adapt!Nothing(status, b)
    BY <1>1 DEF Adapt!Real, Adapt!EmptyStatuses
  <2>2. QED
    BY <1>2, <1>5, <2>1, SaysNothing
<1>8. QED
  BY <1>3, <1>6, <1>7

(* lastfm/client.ts.                                                       *)

FmArtist == Adapt!Obj(Adapt!Artist)
FmInfo == Adapt!Obj([name |-> Adapt!Str("Ann"), mbid |-> Adapt!Str("mbid-a"),
                     url |-> Adapt!Str("link"),
                     stats |-> Adapt!Obj([listeners |-> Adapt!Str("7")])])
FmTrack == Adapt!Obj([name |-> Adapt!Str("Song"), mbid |-> Adapt!Str("mbid-b"),
                      artist |-> FmArtist, duration |-> Adapt!Str("30")])
FmSimilar == Adapt!Obj([name |-> Adapt!Str("Song"), artist |-> FmArtist,
                        duration |-> Adapt!Num(3)])

LEMMA FmArtistParses ==
    ASSUME NEW v \in {FmArtist, FmInfo}
    PROVE  Adapt!LastfmArtist(v) # Undefined /\ Adapt!LastfmArtist(v).name = "Ann"
<1> DEFINE stats == Adapt!OptRecord(v, "stats")
           n == Adapt!OptNumber(stats, "listeners")
           m == Adapt!OptNumber(v, "listeners")
           x == [name |-> "Ann", mbid |-> "mbid-a", listeners |-> Adapt!Or(n, m)]
<1>1. /\ Adapt!OptString(v, "name") = "Ann" /\ Adapt!OptString(v, "mbid") = "mbid-a"
      /\ Adapt!Child(v, "listeners") = Adapt!Null
      /\ stats = Adapt!Null \/ stats = Adapt!Obj([listeners |-> Adapt!Str("7")])
  <2>1. CASE v = FmArtist
    BY <2>1 DEF FmArtist, Adapt!Artist, Adapt!OptString, Adapt!Child, Adapt!Obj, Adapt!Str,
       Adapt!IsRecord, Adapt!OptRecord, Adapt!Null
  <2>2. CASE v = FmInfo
    BY <2>2 DEF FmInfo, Adapt!OptString, Adapt!Child, Adapt!Obj, Adapt!Str,
       Adapt!IsRecord, Adapt!OptRecord
  <2>3. QED
    BY <2>1, <2>2
<1>2. Adapt!OptMbid(v, "mbid") = "mbid-a"
  BY <1>1 DEF Adapt!OptMbid, Adapt!IsMbid, Adapt!Known
<1>3. n \in Opt(Nat) /\ m \in Opt(Nat)
  <2>1. Adapt!Child(v, "listeners").t # "number"
    BY <1>1 DEF Adapt!Null
  <2>2. Adapt!Child(stats, "listeners").t # "number"
    <3>1. CASE stats = Adapt!Null
      BY <3>1, NullReads DEF Adapt!Null
    <3>2. CASE stats = Adapt!Obj([listeners |-> Adapt!Str("7")])
      <4> HIDE DEF stats
      <4> QED
        BY <3>2 DEF Adapt!Child, Adapt!Obj, Adapt!Str, Adapt!IsRecord
    <3>3. QED
      BY <1>1, <3>1, <3>2
  <2> HIDE DEF stats
  <2>3. QED
    BY <2>1, <2>2, NumberIs
<1>4. x # Undefined
  <2> HIDE DEF n, m
  <2>1. Adapt!Or(n, m) \in Opt(Nat)
    BY <1>3 DEF Adapt!Or, Opt
  <2>2. "Ann" \in Texts /\ "mbid-a" \in Opt(Texts)
    BY DEF Texts, Opt
  <2>3. x \in [name : Texts, mbid : Opt(Texts), listeners : Opt(Nat)]
    BY <2>1, <2>2
  <2>4. QED
    BY <2>3, UndefinedAssumption DEF UndefinedAssumption
<1>5. "Ann" # Undefined
  BY UndefinedAssumption DEF UndefinedAssumption, Texts
<1>6. Adapt!LastfmArtist(v) = x /\ x.name = "Ann"
  BY <1>1, <1>2, <1>5 DEF Adapt!LastfmArtist
<1>7. QED
  BY <1>4, <1>6

LEMMA FmTrackParses ==
    ASSUME NEW v \in {FmTrack, FmSimilar}
    PROVE  Adapt!LastfmTrack(v) # Undefined /\ Adapt!LastfmTrack(v).name = "Song"
<1> DEFINE x == [name |-> "Song", artistName |-> "Ann"]
<1>1. Adapt!OptString(v, "name") = "Song" /\ Adapt!OptRecord(v, "artist") = FmArtist
  <2>1. CASE v = FmTrack
    BY <2>1 DEF FmTrack, FmArtist, Adapt!OptString, Adapt!Child, Adapt!Obj, Adapt!Str,
       Adapt!IsRecord, Adapt!OptRecord
  <2>2. CASE v = FmSimilar
    BY <2>2 DEF FmSimilar, FmArtist, Adapt!OptString, Adapt!Child, Adapt!Obj, Adapt!Str,
       Adapt!IsRecord, Adapt!OptRecord
  <2>3. QED
    BY <2>1, <2>2
<1>2. Adapt!OptString(FmArtist, "name") = "Ann"
  BY DEF FmArtist, Adapt!Artist, Adapt!OptString, Adapt!Child, Adapt!Obj, Adapt!Str,
     Adapt!IsRecord
<1>3. "Ann" # Undefined /\ "Song" # Undefined
  BY UndefinedAssumption DEF UndefinedAssumption, Texts
<1>4. x # Undefined
  <2>1. x \in [name : Texts, artistName : Texts]
    BY DEF Texts
  <2>2. QED
    BY <2>1, UndefinedAssumption DEF UndefinedAssumption
<1>5. Adapt!LastfmTrack(v) = x /\ x.name = "Song"
  BY <1>1, <1>2, <1>3 DEF Adapt!LastfmTrack, Adapt!Or
<1>6. QED
  BY <1>4, <1>5

(* The lists.                                                              *)
FmSimilarDoc == Adapt!Obj([similarartists |->
                             Adapt!Obj([artist |-> Adapt!Arr(<<FmArtist>>)])])
FmSingleDoc == Adapt!Obj([similarartists |-> Adapt!Obj([artist |-> FmArtist])])
FmNoneDoc == Adapt!Obj([similarartists |-> Adapt!Obj([artist |-> Adapt!Arr(<<>>)])])
FmTopDoc == Adapt!Obj([topartists |-> Adapt!Obj([artist |-> Adapt!Arr(<<FmArtist>>)])])
FmTracksDoc == Adapt!Obj([similartracks |-> Adapt!Obj([track |-> Adapt!Arr(<<FmSimilar>>)])])

LEMMA FmArtistsRead ==
    ASSUME NEW payload, NEW outer,
           Adapt!ArrayOrSingle(Adapt!OptRecord(payload, outer), "artist") = <<FmArtist>>
    PROVE  Adapt!LastfmList(payload, outer, "artist", Adapt!LastfmArtist)
             = Adapt!Returns({"Ann"})
<1> DEFINE P(item) == Adapt!LastfmArtist(item)
           v == FmArtist
           x == P(v)
<1>1. [i \in DOMAIN <<v>> |-> P(<<v>>[i])] = <<x>>
  OBVIOUS
<1>2. Adapt!LastfmList(payload, outer, "artist", Adapt!LastfmArtist)
        = Adapt!Returns(Adapt!Field(Adapt!Present([i \in DOMAIN <<v>> |-> P(<<v>>[i])]), "name"))
  BY DEF Adapt!LastfmList, Adapt!Parsed
<1>3. x # Undefined /\ x.name = "Ann"
  BY FmArtistParses
<1>4. Adapt!Field(Adapt!Present(<<x>>), "name") = {"Ann"}
  <2> HIDE DEF x
  <2> QED
    BY <1>3, FieldRead
<1>5. QED
  BY <1>1, <1>2, <1>4

LEMMA FmNoneRead ==
    ASSUME NEW payload, NEW outer,
           Adapt!ArrayOrSingle(Adapt!OptRecord(payload, outer), "artist") = <<>>
    PROVE  Adapt!LastfmList(payload, outer, "artist", Adapt!LastfmArtist) = Adapt!Returns({})
<1> DEFINE P(item) == Adapt!LastfmArtist(item)
<1>1. [i \in DOMAIN <<>> |-> P(<<>>[i])] = <<>>
  OBVIOUS
<1>2. Adapt!LastfmList(payload, outer, "artist", Adapt!LastfmArtist)
        = Adapt!Returns(Adapt!Field(Adapt!Present([i \in DOMAIN <<>> |-> P(<<>>[i])]), "name"))
  BY DEF Adapt!LastfmList, Adapt!Parsed
<1>3. QED
  BY <1>1, <1>2, NoneRead, FieldOfOne

LEMMA FmNoTracksRead ==
    ASSUME NEW payload, NEW outer,
           Adapt!ArrayOrSingle(Adapt!OptRecord(payload, outer), "track") = <<>>
    PROVE  Adapt!LastfmList(payload, outer, "track", Adapt!LastfmTrack) = Adapt!Returns({})
<1> DEFINE P(item) == Adapt!LastfmTrack(item)
<1>1. [i \in DOMAIN <<>> |-> P(<<>>[i])] = <<>>
  OBVIOUS
<1>2. Adapt!LastfmList(payload, outer, "track", Adapt!LastfmTrack)
        = Adapt!Returns(Adapt!Field(Adapt!Present([i \in DOMAIN <<>> |-> P(<<>>[i])]), "name"))
  BY DEF Adapt!LastfmList, Adapt!Parsed
<1>3. QED
  BY <1>1, <1>2, NoneRead, FieldOfOne

LEMMA FmTracksRead ==
    ASSUME NEW payload,
           Adapt!ArrayOrSingle(Adapt!OptRecord(payload, "similartracks"), "track") = <<FmSimilar>>
    PROVE  Adapt!LastfmList(payload, "similartracks", "track", Adapt!LastfmTrack)
             = Adapt!Returns({"Song"})
<1> DEFINE P(item) == Adapt!LastfmTrack(item)
           v == FmSimilar
           x == P(v)
<1>1. [i \in DOMAIN <<v>> |-> P(<<v>>[i])] = <<x>>
  OBVIOUS
<1>2. Adapt!LastfmList(payload, "similartracks", "track", Adapt!LastfmTrack)
        = Adapt!Returns(Adapt!Field(Adapt!Present([i \in DOMAIN <<v>> |-> P(<<v>>[i])]), "name"))
  BY DEF Adapt!LastfmList, Adapt!Parsed
<1>3. x # Undefined /\ x.name = "Song"
  BY FmTrackParses
<1>4. Adapt!Field(Adapt!Present(<<x>>), "name") = {"Song"}
  <2> HIDE DEF x
  <2> QED
    BY <1>3, FieldRead
<1>5. QED
  BY <1>1, <1>2, <1>4

LEMMA FmListsRead ==
    /\ Adapt!LastfmList(FmSimilarDoc, "similarartists", "artist", Adapt!LastfmArtist)
         = Adapt!Returns({"Ann"})
    /\ Adapt!LastfmList(FmSingleDoc, "similarartists", "artist", Adapt!LastfmArtist)
         = Adapt!Returns({"Ann"})
    /\ Adapt!LastfmList(FmNoneDoc, "similarartists", "artist", Adapt!LastfmArtist)
         = Adapt!Returns({})
    /\ Adapt!LastfmList(FmTopDoc, "topartists", "artist", Adapt!LastfmArtist)
         = Adapt!Returns({"Ann"})
    /\ Adapt!LastfmList(FmTracksDoc, "similartracks", "track", Adapt!LastfmTrack)
         = Adapt!Returns({"Song"})
<1>1. Adapt!ArrayOrSingle(Adapt!OptRecord(FmSimilarDoc, "similarartists"), "artist") = <<FmArtist>>
  BY DEF FmSimilarDoc, Adapt!ArrayOrSingle, Adapt!OptRecord, Adapt!Child, Adapt!Obj, Adapt!Arr,
     Adapt!IsRecord
<1>2. Adapt!ArrayOrSingle(Adapt!OptRecord(FmSingleDoc, "similarartists"), "artist") = <<FmArtist>>
  <2>1. FmArtist.t = "object"
    BY DEF FmArtist, Adapt!Obj
  <2>2. QED
    BY <2>1 DEF FmSingleDoc, Adapt!ArrayOrSingle, Adapt!OptRecord, Adapt!Child, Adapt!Obj,
       Adapt!IsRecord
<1>3. Adapt!ArrayOrSingle(Adapt!OptRecord(FmNoneDoc, "similarartists"), "artist") = <<>>
  BY DEF FmNoneDoc, Adapt!ArrayOrSingle, Adapt!OptRecord, Adapt!Child, Adapt!Obj, Adapt!Arr,
     Adapt!IsRecord
<1>4. Adapt!ArrayOrSingle(Adapt!OptRecord(FmTopDoc, "topartists"), "artist") = <<FmArtist>>
  BY DEF FmTopDoc, Adapt!ArrayOrSingle, Adapt!OptRecord, Adapt!Child, Adapt!Obj, Adapt!Arr,
     Adapt!IsRecord
<1>5. Adapt!ArrayOrSingle(Adapt!OptRecord(FmTracksDoc, "similartracks"), "track") = <<FmSimilar>>
  BY DEF FmTracksDoc, Adapt!ArrayOrSingle, Adapt!OptRecord, Adapt!Child, Adapt!Obj, Adapt!Arr,
     Adapt!IsRecord
<1>6. QED
  BY <1>1, <1>2, <1>3, <1>4, <1>5, FmArtistsRead, FmNoneRead, FmTracksRead

FmInfoDoc == Adapt!Obj([artist |-> FmInfo])
FmTrackDoc == Adapt!Obj([track |-> FmTrack])
FmSession == Adapt!Obj([name |-> Adapt!Str("u"), key |-> Adapt!Str("k")])
FmSessionDoc == Adapt!Obj([session |-> FmSession])

LEMMA FmOnesRead ==
    /\ Adapt!LastfmOne(FmInfoDoc, "artist", Adapt!LastfmArtist) = Adapt!Returns({"Ann"})
    /\ Adapt!LastfmOne(FmTrackDoc, "track", Adapt!LastfmTrack) = Adapt!Returns({"Song"})
    /\ Adapt!GetSession(FmSessionDoc) = Adapt!Returns({"u"})
<1>1. Adapt!OptRecord(FmInfoDoc, "artist") = FmInfo
  <2>1. Adapt!IsRecord(FmInfo)
    BY DEF FmInfo, Adapt!Obj, Adapt!IsRecord
  <2>2. QED
    BY <2>1 DEF FmInfoDoc, Adapt!OptRecord, Adapt!Child, Adapt!Obj, Adapt!IsRecord
<1>2. Adapt!OptRecord(FmTrackDoc, "track") = FmTrack
  <2>1. Adapt!IsRecord(FmTrack)
    BY DEF FmTrack, Adapt!Obj, Adapt!IsRecord
  <2>2. QED
    BY <2>1 DEF FmTrackDoc, Adapt!OptRecord, Adapt!Child, Adapt!Obj, Adapt!IsRecord
<1>3. Adapt!OptRecord(FmSessionDoc, "session") = FmSession
  <2>1. Adapt!IsRecord(FmSession)
    BY DEF FmSession, Adapt!Obj, Adapt!IsRecord
  <2>2. QED
    BY <2>1 DEF FmSessionDoc, Adapt!OptRecord, Adapt!Child, Adapt!Obj, Adapt!IsRecord
<1>4. /\ Adapt!OptString(FmSession, "name") = "u" /\ Adapt!OptString(FmSession, "key") = "k"
  BY DEF FmSession, Adapt!OptString, Adapt!Child, Adapt!Obj, Adapt!Str, Adapt!IsRecord
<1>5. "u" # Undefined /\ "k" # Undefined
  BY UndefinedAssumption DEF UndefinedAssumption, Texts
<1>6. Adapt!LastfmOne(FmInfoDoc, "artist", Adapt!LastfmArtist) = Adapt!Returns({"Ann"})
  BY <1>1, FmArtistParses DEF Adapt!LastfmOne
<1>7. Adapt!LastfmOne(FmTrackDoc, "track", Adapt!LastfmTrack) = Adapt!Returns({"Song"})
  BY <1>2, FmTrackParses DEF Adapt!LastfmOne
<1>8. Adapt!GetSession(FmSessionDoc) = Adapt!Returns({"u"})
  BY <1>3, <1>4, <1>5 DEF Adapt!GetSession
<1>9. QED
  BY <1>6, <1>7, <1>8

(* An answer without an error is no error; one with a code is.             *)
LEMMA NoErrorInBand ==
    ASSUME NEW payload, Adapt!Child(payload, "error") = Adapt!Null
    PROVE  Adapt!InBandError(payload) = "none"
<1>1. Adapt!OptNumber(payload, "error") = Undefined
  BY DEF Adapt!OptNumber, Adapt!Null
<1>2. Undefined # 29 /\ Undefined \notin {8, 11, 16}
  BY UndefinedAssumption DEF UndefinedAssumption
<1>3. QED
  BY <1>1, <1>2 DEF Adapt!InBandError

LEMMA ErrorInBand ==
    ASSUME NEW payload, Adapt!OptNumber(payload, "error") \in Nat
    PROVE  Adapt!InBandError(payload) # "none"
<1> DEFINE code == Adapt!OptNumber(payload, "error")
<1>1. code # Undefined
  BY UndefinedAssumption DEF UndefinedAssumption
<1>2. Adapt!InBandError(payload) = CASE code = Undefined -> "none"
                                     [] code = 29 -> "rate_limited"
                                     [] code \in {8, 11, 16} -> "server_error"
                                     [] OTHER -> "http"
  BY DEF Adapt!InBandError
<1> HIDE DEF code
<1>3. QED
  BY <1>1, <1>2

FmRefusals == {Adapt!Obj([error |-> Adapt!Num(10)]), Adapt!Obj([error |-> Adapt!Str("16")]),
               Adapt!Obj([error |-> Adapt!Num(29), message |-> Adapt!Str("Rate limit exceeded")])}

LEMMA FmRefusalsAreErrors ==
    \A payload \in FmRefusals :
        payload.t \notin {"blank", "text"} /\ Adapt!InBandError(payload) # "none"
<1> SUFFICES ASSUME NEW payload \in FmRefusals
             PROVE  payload.t \notin {"blank", "text"} /\ Adapt!InBandError(payload) # "none"
  OBVIOUS
<1>1. /\ payload.t = "object"
      /\ Adapt!Child(payload, "error") \in {Adapt!Num(10), Adapt!Num(29), Adapt!Str("16")}
  <2>1. CASE payload = Adapt!Obj([error |-> Adapt!Num(10)])
    BY <2>1 DEF Adapt!Child, Adapt!Obj, Adapt!IsRecord
  <2>2. CASE payload = Adapt!Obj([error |-> Adapt!Str("16")])
    BY <2>2 DEF Adapt!Child, Adapt!Obj, Adapt!IsRecord
  <2>3. CASE payload = Adapt!Obj([error |-> Adapt!Num(29),
                                  message |-> Adapt!Str("Rate limit exceeded")])
    BY <2>3 DEF Adapt!Child, Adapt!Obj, Adapt!IsRecord
  <2>4. QED
    BY <2>1, <2>2, <2>3 DEF FmRefusals
<1>2. CASE Adapt!Child(payload, "error") \in {Adapt!Num(10), Adapt!Num(29)}
  <2>1. Adapt!OptNumber(payload, "error") \in Nat
    BY <1>2 DEF Adapt!OptNumber, Adapt!Num
  <2>2. QED
    BY <1>1, <2>1, ErrorInBand
<1>3. CASE Adapt!Child(payload, "error") = Adapt!Str("16")
  <2>1. "16" \in DOMAIN Adapt!Numerals
    BY Decimal, 16 \in 0 .. 100 DEF Decimal, Adapt!Numerals
  <2>2. Adapt!OptNumber(payload, "error") = Adapt!Numerals["16"]
    <3>1. Adapt!Str("16").t = "string" /\ Adapt!Str("16").v = "16"
      BY DEF Adapt!Str
    <3>2. QED
      BY <1>3, <2>1, <3>1 DEF Adapt!OptNumber
  <2>3. Adapt!OptNumber(payload, "error") \in Nat
    BY <2>1, <2>2, NumeralsAre
  <2>4. QED
    BY <1>1, <2>3, ErrorInBand
<1>4. QED
  BY <1>1, <1>2, <1>3

(* A document without any field, or none at all.                           *)
LEMMA FmUncodedReads ==
    ASSUME NEW doc, \A key : Adapt!Child(doc, key) = Adapt!Null,
           provider = "lastfm", op \in Adapt!Methods(provider)
    PROVE  /\ Adapt!InBandError(doc) = "none"
           /\ Adapt!LastfmReads(op, doc) \in {Adapt!Returns({}), Adapt!Throws("malformed")}
<1>1. op \in {"similarArtists", "artistInfo", "similarTracks", "trackInfo", "userTopArtists",
              "getSession"}
  BY DEF Adapt!Methods
<1>2. Adapt!InBandError(doc) = "none"
  BY NoErrorInBand
<1>3. \A key : Adapt!OptRecord(doc, key) = Adapt!Null
  BY DEF Adapt!OptRecord, Adapt!Null, Adapt!IsRecord
<1>4. \A outer, inner : Adapt!ArrayOrSingle(Adapt!OptRecord(doc, outer), inner) = <<>>
  BY <1>3, NullReads
<1>5. Adapt!LastfmArtist(Adapt!Null) = Undefined /\ Adapt!LastfmTrack(Adapt!Null) = Undefined
  BY NullReads DEF Adapt!LastfmArtist, Adapt!LastfmTrack
<1>6. \A outer : Adapt!LastfmList(doc, outer, "artist", Adapt!LastfmArtist) = Adapt!Returns({})
  BY <1>4, FmNoneRead
<1>7. Adapt!LastfmList(doc, "similartracks", "track", Adapt!LastfmTrack) = Adapt!Returns({})
  BY <1>4, FmNoTracksRead
<1>8. /\ Adapt!LastfmOne(doc, "artist", Adapt!LastfmArtist) = Adapt!Returns({})
      /\ Adapt!LastfmOne(doc, "track", Adapt!LastfmTrack) = Adapt!Returns({})
  BY <1>3, <1>5 DEF Adapt!LastfmOne
<1>9. Adapt!GetSession(doc) = Adapt!Throws("malformed")
  BY <1>3, NullReads DEF Adapt!GetSession
<1>10. Adapt!LastfmReads(op, doc) \in {Adapt!Returns({}), Adapt!Throws("malformed")}
  <2>1. CASE op = "similarArtists"
    BY <1>6, <2>1 DEF Adapt!LastfmReads
  <2>2. CASE op = "userTopArtists"
    BY <1>6, <2>2 DEF Adapt!LastfmReads
  <2>3. CASE op = "similarTracks"
    BY <1>7, <2>3 DEF Adapt!LastfmReads
  <2>4. CASE op = "artistInfo"
    BY <1>8, <2>4 DEF Adapt!LastfmReads
  <2>5. CASE op = "trackInfo"
    BY <1>8, <2>5 DEF Adapt!LastfmReads
  <2>6. CASE op = "getSession"
    BY <1>9, <2>6 DEF Adapt!LastfmReads
  <2>7. QED
    BY <1>1, <2>1, <2>2, <2>3, <2>4, <2>5, <2>6
<1>11. QED
  BY <1>2, <1>10

LEMMA UncodedSays ==
    ASSUME provider = "lastfm", op \in Adapt!Methods(provider), NEW r \in Adapt!Uncoded
    PROVE  Says(r)
<1>1. PICK status \in {400, 403}, body \in {Adapt!Blank, Adapt!Obj(<<>>)} :
         r = Adapt!Unclear(status, body)
  BY DEF Adapt!Uncoded
<1> DEFINE doc == IF body.t = "blank" THEN Adapt!Null ELSE body
<1>2. body.t # "text" /\ \A key : Adapt!Child(doc, key) = Adapt!Null
  <2>1. CASE body = Adapt!Blank
    BY <2>1, NullReads DEF Adapt!Blank
  <2>2. CASE body = Adapt!Obj(<<>>)
    BY <2>2 DEF Adapt!Obj, Adapt!Child
  <2>3. QED
    BY <2>1, <2>2
<1> HIDE DEF doc
<1>3. /\ Adapt!InBandError(doc) = "none"
      /\ Adapt!LastfmReads(op, doc) \in {Adapt!Returns({}), Adapt!Throws("malformed")}
  BY <1>2, FmUncodedReads
<1>4. Adapt!Inspect(doc) = Adapt!InBandError(doc)
  BY DEF Adapt!Inspect
<1>5. Adapt!Read(op, doc) = Adapt!LastfmReads(op, doc)
  BY DEF Adapt!Read, Adapt!Methods
<1>6. status \in Adapt!AcceptStatuses /\ status \notin Adapt!EmptyStatuses(op)
  BY DEF Adapt!AcceptStatuses, Adapt!EmptyStatuses, Adapt!Methods
<1>7. doc = IF body.t = "blank" THEN Adapt!Null ELSE body
  BY DEF doc
<1>8. QED
  BY <1>1, <1>2, <1>3, <1>4, <1>5, <1>6, <1>7, SaysUnclear

LEMMA LastfmSays ==
    ASSUME provider = "lastfm", op \in Adapt!Methods(provider),
           NEW r \in Adapt!Handled(op) \cup Adapt!Real(op)
    PROVE  Says(r)
<1>1. op \in {"similarArtists", "artistInfo", "similarTracks", "trackInfo", "userTopArtists",
              "getSession"}
  BY DEF Adapt!Methods
<1>2. \A payload : Adapt!Inspect(payload) = Adapt!InBandError(payload)
  BY DEF Adapt!Inspect
<1>3. \A payload : Adapt!Read(op, payload) = Adapt!LastfmReads(op, payload)
  BY <1>1 DEF Adapt!Read
<1> DEFINE body == CASE op = "similarArtists" -> FmSimilarDoc
                     [] op = "artistInfo" -> FmInfoDoc
                     [] op = "similarTracks" -> FmTracksDoc
                     [] op = "trackInfo" -> FmTrackDoc
                     [] op = "userTopArtists" -> FmTopDoc
                     [] op = "getSession" -> FmSessionDoc
           id == CASE op \in {"similarArtists", "artistInfo", "userTopArtists"} -> "Ann"
                   [] op = "getSession" -> "u"
                   [] OTHER -> "Song"
<1>4. Adapt!Handled(op) = {Adapt!Answers(body, {id})}
  <2>1. Adapt!Handled(op) = Adapt!LastfmHandle(op)
    BY DEF Adapt!Handled
  <2>2. CASE op = "similarArtists"
    BY <2>1, <2>2 DEF Adapt!LastfmHandle, Adapt!SimilarArtists, FmSimilarDoc, FmArtist
  <2>3. CASE op = "artistInfo"
    BY <2>1, <2>3 DEF Adapt!LastfmHandle, Adapt!ArtistInfo, FmInfoDoc, FmInfo
  <2>4. CASE op = "similarTracks"
    BY <2>1, <2>4 DEF Adapt!LastfmHandle, Adapt!SimilarTracks, FmTracksDoc, FmSimilar, FmArtist
  <2>5. CASE op = "trackInfo"
    BY <2>1, <2>5 DEF Adapt!LastfmHandle, Adapt!TrackInfo, FmTrackDoc, FmTrack, FmArtist
  <2>6. CASE op = "userTopArtists"
    BY <2>1, <2>6 DEF Adapt!LastfmHandle, Adapt!TopArtists, FmTopDoc, FmArtist
  <2>7. CASE op = "getSession"
    BY <2>1, <2>7 DEF Adapt!LastfmHandle, Adapt!Session, FmSessionDoc, FmSession
  <2>8. QED
    BY <1>1, <2>2, <2>3, <2>4, <2>5, <2>6, <2>7
<1>5. /\ body.t = "object" /\ Adapt!Child(body, "error") = Adapt!Null
      /\ \A b \in {FmSingleDoc, FmNoneDoc} :
            b.t = "object" /\ Adapt!Child(b, "error") = Adapt!Null
  <2>1. \A b \in {FmSimilarDoc, FmInfoDoc, FmTracksDoc, FmTrackDoc, FmTopDoc, FmSessionDoc,
                  FmSingleDoc, FmNoneDoc} : b.t = "object" /\ Adapt!Child(b, "error") = Adapt!Null
    BY DEF FmSimilarDoc, FmInfoDoc, FmTracksDoc, FmTrackDoc, FmTopDoc, FmSessionDoc, FmSingleDoc,
       FmNoneDoc, Adapt!Obj, Adapt!Child, Adapt!IsRecord
  <2>2. body \in {FmSimilarDoc, FmInfoDoc, FmTracksDoc, FmTrackDoc, FmTopDoc, FmSessionDoc}
    BY <1>1
  <2> HIDE DEF body
  <2>3. QED
    BY <2>1, <2>2
<1>6. Adapt!LastfmReads(op, body) = Adapt!Returns({id})
  <2>1. CASE op = "similarArtists"
    BY <2>1, FmListsRead DEF Adapt!LastfmReads
  <2>2. CASE op = "artistInfo"
    BY <2>2, FmOnesRead DEF Adapt!LastfmReads
  <2>3. CASE op = "similarTracks"
    BY <2>3, FmListsRead DEF Adapt!LastfmReads
  <2>4. CASE op = "trackInfo"
    BY <2>4, FmOnesRead DEF Adapt!LastfmReads
  <2>5. CASE op = "userTopArtists"
    BY <2>5, FmListsRead DEF Adapt!LastfmReads
  <2>6. CASE op = "getSession"
    BY <2>6, FmOnesRead DEF Adapt!LastfmReads
  <2>7. QED
    BY <1>1, <2>1, <2>2, <2>3, <2>4, <2>5, <2>6
<1> HIDE DEF body, id
<1>7. Says(Adapt!Answers(body, {id}))
  BY <1>2, <1>3, <1>5, <1>6, NoErrorInBand, SaysAnswer
<1>8. ASSUME NEW s \in Adapt!RealLastfm(op) \ Adapt!Uncoded PROVE Says(s)
  <2>1. CASE op = "similarArtists"
    <3>1. s \in {Adapt!Answers(FmSingleDoc, {"Ann"}), Adapt!Answers(FmNoneDoc, {})}
      BY <2>1 DEF Adapt!RealLastfm, FmSingleDoc, FmNoneDoc, FmArtist, Adapt!Answers, Adapt!Nothing
    <3>2. /\ Adapt!LastfmReads(op, FmSingleDoc) = Adapt!Returns({"Ann"})
          /\ Adapt!LastfmReads(op, FmNoneDoc) = Adapt!Returns({})
      BY <2>1, FmListsRead DEF Adapt!LastfmReads
    <3>3. Says(Adapt!Answers(FmSingleDoc, {"Ann"}))
      BY <1>2, <1>3, <1>5, <3>2, NoErrorInBand, SaysAnswer
    <3>4. Says(Adapt!Answers(FmNoneDoc, {}))
      BY <1>2, <1>3, <1>5, <3>2, NoErrorInBand, SaysAnswer
    <3>5. QED
      BY <3>1, <3>3, <3>4
  <2>2. CASE op # "similarArtists"
    <3>1. \E status \in {200, 403}, b \in FmRefusals : s = Adapt!Fails(status, b)
      <4>1. s \in {Adapt!Fails(403, Adapt!Obj([error |-> Adapt!Num(10)])),
                   Adapt!Fails(200, Adapt!Obj([error |-> Adapt!Str("16")]))}
        BY <2>2 DEF Adapt!RealLastfm
      <4>2. /\ Adapt!Obj([error |-> Adapt!Num(10)]) \in FmRefusals
            /\ Adapt!Obj([error |-> Adapt!Str("16")]) \in FmRefusals
        BY DEF FmRefusals
      <4>3. QED
        BY <4>1, <4>2
    <3>2. Adapt!EmptyStatuses(op) = {}
      BY <1>1, <2>2 DEF Adapt!EmptyStatuses
    <3>3. QED
      BY <1>2, <3>1, <3>2, FmRefusalsAreErrors, SaysFailure
  <2>3. QED
    BY <2>1, <2>2
<1>9. Adapt!Real(op) = Adapt!RealLastfm(op)
  BY <1>1 DEF Adapt!Real
<1>10. QED
  BY <1>4, <1>7, <1>8, <1>9, UncodedSays

(* deezer/client.ts and itunes/client.ts.                                  *)

LEMMA UpToTwoRead ==
    ASSUME NEW X, NEW l \in Seq(X), Len(l) \in 0 .. 2, Undefined \notin X
    PROVE  Adapt!Present(l) = l
<1>1. CASE Len(l) = 0
  <2>1. l = <<>>
    BY <1>1
  <2>2. QED
    BY <2>1, NoneRead
<1>2. CASE Len(l) # 0
  <2> DEFINE n == Len(l)
  <2>1. n \in 1 .. 2
    BY <1>2
  <2>2. QED
    BY <2>1, AllRead
<1>3. QED
  BY <1>1, <1>2

LEMMA CandidatesAreLists ==
    ASSUME NEW list \in Adapt!Candidates
    PROVE  list \in Seq(Adapt!Tracks) /\ Len(list) \in 0 .. 2
<1> DEFINE T == Adapt!Tracks
<1>1. list = <<>> \/ (\E t \in T : list = <<t>>) \/ (\E t, u \in T : list = <<t, u>>)
  BY DEF Adapt!Candidates
<1> HIDE DEF T
<1>2. CASE list = <<>>
  BY <1>2 DEF T
<1>3. CASE \E t \in T : list = <<t>>
  BY <1>3 DEF T
<1>4. CASE \E t, u \in T : list = <<t, u>>
  BY <1>4 DEF T
<1>5. QED
  BY <1>1, <1>2, <1>3, <1>4

LEMMA TracksAreTexts ==
    ASSUME NEW t \in Adapt!Tracks
    PROVE  t[1] \in Texts /\ t[2] \in Texts /\ t[1] # Undefined /\ t[2] # Undefined
<1>1. t[1] \in Texts /\ t[2] \in Texts
  <2>1. \A a, b \in Texts : <<a, b>>[1] \in Texts /\ <<a, b>>[2] \in Texts
    OBVIOUS
  <2>2. {"Ann", "Ann Tribute", "Bob", "Song", "Song (Live)", "Other", "Tune"} \subseteq Texts
    BY DEF Texts
  <2> HIDE DEF Texts
  <2>3. \E a, b \in Texts : t = <<a, b>>
    BY <2>2 DEF Adapt!Tracks
  <2>4. QED
    BY <2>1, <2>3
<1>2. QED
  BY <1>1, UndefinedAssumption DEF UndefinedAssumption

LEMMA ScoreOf ==
    ASSUME NEW c, NEW x, NEW y, c.artistName = x, c.trackName = y, NEW m \in Nat, NEW n \in Nat,
           m = IF x = "Ann" THEN 3 ELSE IF Adapt!Overlap(x, "Ann") THEN 1 ELSE 0,
           n = IF y = "Song" THEN 3 ELSE IF Adapt!Overlap(y, "Song") THEN 1 ELSE 0
    PROVE  Adapt!Score(c) = m + n
  BY DEF Adapt!Score, Adapt!WantArtist, Adapt!WantTitle

LEMMA ScoreIs ==
    ASSUME NEW t \in Adapt!Tracks, NEW c, c.artistName = t[1], c.trackName = t[2]
    PROVE  /\ Adapt!Score(c) \in 0 .. 6
           /\ t = <<"Ann", "Song">> <=> Adapt!Score(c) = 6
           /\ t = <<"Bob", "Tune">> => Adapt!Score(c) = 0
<1>1. /\ ~Adapt!Overlap("Other", "Song") /\ ~Adapt!Overlap("Tune", "Song")
      /\ ~Adapt!Overlap("Bob", "Ann")
      /\ Adapt!Overlap("Ann Tribute", "Ann") /\ Adapt!Overlap("Song (Live)", "Song")
  BY DEF Adapt!Overlap, Adapt!Contained
<1> DEFINE s == Adapt!Score(c)
<1>2. CASE t = <<"Ann", "Song">>
  <2>1. c.artistName = "Ann" /\ c.trackName = "Song"
    BY <1>2
  <2>2. s = 3 + 3
    BY <1>1, <2>1, ScoreOf
  <2> HIDE DEF s
  <2>3. s = 6
    BY <2>2
  <2>4. QED
    BY <1>2, <2>3 DEF s
<1>3. CASE t = <<"Ann Tribute", "Song">>
  <2>1. c.artistName = "Ann Tribute" /\ c.trackName = "Song"
    BY <1>3
  <2>2. s = 1 + 3
    BY <1>1, <2>1, ScoreOf
  <2> HIDE DEF s
  <2>3. s = 4
    BY <2>2
  <2>4. t # <<"Ann", "Song">> /\ t # <<"Bob", "Tune">>
    BY <1>3
  <2>5. s \in 0 .. 6 /\ s # 6
    BY <2>3
  <2>6. QED
    BY <2>4, <2>5 DEF s
<1>4. CASE t = <<"Ann", "Song (Live)">>
  <2>1. c.artistName = "Ann" /\ c.trackName = "Song (Live)"
    BY <1>4
  <2>2. s = 3 + 1
    BY <1>1, <2>1, ScoreOf
  <2> HIDE DEF s
  <2>3. s = 4
    BY <2>2
  <2>4. t # <<"Ann", "Song">> /\ t # <<"Bob", "Tune">>
    BY <1>4
  <2>5. s \in 0 .. 6 /\ s # 6
    BY <2>3
  <2>6. QED
    BY <2>4, <2>5 DEF s
<1>5. CASE t = <<"Ann", "Other">>
  <2>1. c.artistName = "Ann" /\ c.trackName = "Other"
    BY <1>5
  <2>2. s = 3 + 0
    BY <1>1, <2>1, ScoreOf
  <2> HIDE DEF s
  <2>3. s = 3
    BY <2>2
  <2>4. t # <<"Ann", "Song">> /\ t # <<"Bob", "Tune">>
    BY <1>5
  <2>5. s \in 0 .. 6 /\ s # 6
    BY <2>3
  <2>6. QED
    BY <2>4, <2>5 DEF s
<1>6. CASE t = <<"Bob", "Tune">>
  <2>1. c.artistName = "Bob" /\ c.trackName = "Tune"
    BY <1>6
  <2>2. s = 0 + 0
    BY <1>1, <2>1, ScoreOf
  <2> HIDE DEF s
  <2>3. s = 0
    BY <2>2
  <2>4. QED
    BY <1>6, <2>3 DEF s
<1>7. QED
  BY <1>2, <1>3, <1>4, <1>5, <1>6 DEF Adapt!Tracks

(* The one that is meant is the one that is picked.                        *)
LEMMA BestIsPicked ==
    ASSUME NEW list \in Seq(Adapt!Tracks), Len(list) \in 0 .. 2,
           NEW p, DOMAIN p = DOMAIN list,
           \A i \in DOMAIN list : p[i].artistName = list[i][1] /\ p[i].trackName = list[i][2],
           \A i \in DOMAIN list : p[i] # Undefined
    PROVE  \/ Adapt!WithNames(list) = {"?"}
           \/ Adapt!FoundTrack(Adapt!PickBestMatch(p)) = Adapt!Returns(Adapt!WithNames(list))
<1> DEFINE s(i) == Adapt!Score(p[i])
           Best(i) == \A j \in DOMAIN p : s(j) < s(i) \/ (s(j) = s(i) /\ i <= j)
<1>1. DOMAIN list = 1 .. Len(list) /\ \A i \in DOMAIN list : list[i] \in Adapt!Tracks
  OBVIOUS
<1>2. \A i \in DOMAIN list : /\ s(i) \in 0 .. 6
                             /\ list[i] = <<"Ann", "Song">> <=> s(i) = 6
                             /\ list[i] = <<"Bob", "Tune">> => s(i) = 0
  BY <1>1, ScoreIs
<1>3. Adapt!PickBestMatch(p) = IF \E i \in DOMAIN p : Best(i) /\ s(i) >= 2
                               THEN p[CHOOSE i \in DOMAIN p : Best(i)] ELSE Undefined
  BY DEF Adapt!PickBestMatch
<1>4. CASE \E i \in DOMAIN list : list[i] = <<"Ann", "Song">>
  <2>1. PICK k \in DOMAIN list : s(k) = 6
    BY <1>2, <1>4
  <2>2. \E i \in DOMAIN p : Best(i)
    <3>1. \A j \in DOMAIN p : s(j) \in 0 .. 6 /\ j \in 1 .. 2
      BY <1>1, <1>2
    <3>2. CASE k = 2 /\ s(1) # 6
      <4>1. 1 \in DOMAIN p
        BY <1>1, <3>2
      <4> HIDE DEF s
      <4>2. Best(k)
        BY <2>1, <3>1, <3>2, <4>1
      <4>3. QED
        BY <4>2
    <3>3. CASE k = 2 /\ s(1) = 6
      <4>1. 1 \in DOMAIN p
        BY <1>1, <3>3
      <4> HIDE DEF s
      <4>2. Best(1)
        BY <2>1, <3>1, <3>3, <4>1
      <4>3. QED
        BY <4>1, <4>2
    <3>4. CASE k = 1
      <4> HIDE DEF s
      <4>1. Best(k)
        BY <2>1, <3>1, <3>4
      <4>2. QED
        BY <4>1
    <3>5. QED
      BY <2>1, <3>1, <3>2, <3>3, <3>4
  <2> DEFINE b == CHOOSE i \in DOMAIN p : Best(i)
  <2>3. b \in DOMAIN p /\ Best(b)
    BY <2>2
  <2> HIDE DEF b
  <2>4. s(b) = 6
    <3> HIDE DEF s
    <3> QED
      BY <1>2, <2>1, <2>3
  <2>5. Adapt!PickBestMatch(p) = p[b]
    <3> HIDE DEF s
    <3>1. \E i \in DOMAIN p : Best(i) /\ s(i) >= 2
      BY <2>3, <2>4
    <3>2. QED
      BY <1>3, <3>1 DEF b
  <2>6. p[b] # Undefined /\ p[b].trackName = "Song"
    BY <1>2, <2>3, <2>4
  <2>7. Adapt!WithNames(list) = {"Song"}
    BY <1>4 DEF Adapt!WithNames
  <2>8. QED
    BY <2>5, <2>6, <2>7 DEF Adapt!FoundTrack
<1>5. CASE /\ ~\E i \in DOMAIN list : list[i] = <<"Ann", "Song">>
           /\ \A i \in DOMAIN list : list[i] = <<"Bob", "Tune">>
  <2>1. ~\E i \in DOMAIN p : s(i) >= 2
    <3>1. \A i \in DOMAIN p : s(i) = 0
      BY <1>2, <1>5
    <3> HIDE DEF s
    <3>2. QED
      BY <3>1
  <2>2. Adapt!PickBestMatch(p) = Undefined
    BY <1>3, <2>1
  <2>3. Adapt!WithNames(list) = {}
    BY <1>5 DEF Adapt!WithNames
  <2>4. QED
    BY <2>2, <2>3 DEF Adapt!FoundTrack
<1>6. CASE /\ ~\E i \in DOMAIN list : list[i] = <<"Ann", "Song">>
           /\ ~\A i \in DOMAIN list : list[i] = <<"Bob", "Tune">>
  BY <1>6 DEF Adapt!WithNames
<1>7. QED
  BY <1>4, <1>5, <1>6

LEMMA DeezerTrackParses ==
    ASSUME clock \in Nat, NEW a \in Texts, NEW b \in Texts
    PROVE  LET x == Adapt!DeezerTrack(Adapt!TrackObject(a, b)) IN
           /\ x \in [artistName : Texts, trackName : Texts, expiresAt : Nat]
           /\ x.artistName = a /\ x.trackName = b
<1> DEFINE v == Adapt!TrackObject(a, b)
           n == Adapt!Second + PreviewTtl
           artist == Adapt!Obj([name |-> Adapt!Str(a)])
           x == [artistName |-> a, trackName |-> b, expiresAt |-> n]
<1>1. n \in Nat
  <2>1. clock \div 2 \in Nat /\ PreviewTtl \in Nat
    BY PreviewAssumption DEF PreviewAssumption
  <2>2. QED
    BY <2>1 DEF Adapt!Second
<1>2. /\ Adapt!OptString(v, "preview") = "url" /\ Adapt!OptString(v, "title") = b
      /\ Adapt!OptRecord(v, "artist") = artist
      /\ Adapt!Child(v, "hdnea") = Adapt!SignPreviewUrl
  BY DEF Adapt!TrackObject, Adapt!OptString, Adapt!OptRecord, Adapt!Child, Adapt!Obj, Adapt!Str,
     Adapt!IsRecord
<1>3. Adapt!OptNumber(v, "hdnea") = n
  BY <1>2 DEF Adapt!OptNumber, Adapt!SignPreviewUrl, Adapt!Num
<1>4. Adapt!OptString(artist, "name") = a
  BY DEF Adapt!OptString, Adapt!Child, Adapt!Obj, Adapt!Str, Adapt!IsRecord
<1> HIDE DEF v, artist, n
<1>5. a # Undefined /\ b # Undefined /\ n # Undefined
  <2>1. a # Undefined /\ b # Undefined
    BY UndefinedAssumption DEF UndefinedAssumption
  <2>2. n # Undefined
    BY <1>1, UndefinedAssumption DEF UndefinedAssumption
  <2>3. QED
    BY <2>1, <2>2
<1>6. "url" # Undefined
  BY UndefinedAssumption DEF UndefinedAssumption, Texts
<1>7. Adapt!HasString(v, "preview")
  BY <1>2, <1>6 DEF Adapt!HasString
<1>8. Adapt!ParsePreviewExpiry(v) = n
  BY <1>3, <1>5 DEF Adapt!ParsePreviewExpiry, Adapt!Or
<1>9. Adapt!DeezerTrack(v) = x
  BY <1>2, <1>4, <1>5, <1>7, <1>8 DEF Adapt!DeezerTrack, Adapt!Or
<1>10. x \in [artistName : Texts, trackName : Texts, expiresAt : Nat]
  BY <1>1
<1>11. x.artistName = a /\ x.trackName = b
  OBVIOUS
<1> HIDE DEF x
<1>12. QED
  BY <1>9, <1>10, <1>11 DEF v

LEMMA ItunesTrackParses ==
    ASSUME NEW a \in Texts, NEW b \in Texts
    PROVE  LET x == Adapt!ItunesPreview(Adapt!TrackResult(a, b)) IN
           /\ x \in [artistName : Texts, trackName : Texts]
           /\ x.artistName = a /\ x.trackName = b
<1> DEFINE v == Adapt!TrackResult(a, b)
           x == [artistName |-> a, trackName |-> b]
<1>1. /\ Adapt!OptString(v, "previewUrl") = "preview" /\ Adapt!OptString(v, "trackName") = b
      /\ Adapt!OptString(v, "artistName") = a
  BY DEF Adapt!TrackResult, Adapt!OptString, Adapt!Child, Adapt!Obj, Adapt!Str, Adapt!IsRecord
<1>2. a # Undefined /\ b # Undefined
  BY UndefinedAssumption DEF UndefinedAssumption
<1>3. "preview" # Undefined
  BY UndefinedAssumption DEF UndefinedAssumption, Texts
<1> HIDE DEF v
<1>4. Adapt!ItunesPreview(v) = x
  BY <1>1, <1>2, <1>3 DEF Adapt!ItunesPreview
<1>5. x \in [artistName : Texts, trackName : Texts] /\ x.artistName = a /\ x.trackName = b
  OBVIOUS
<1> HIDE DEF x
<1>6. QED
  BY <1>4, <1>5 DEF v

LEMMA DeezerListRead ==
    ASSUME clock \in Nat, NEW list \in Adapt!Candidates
    PROVE  LET doc == Adapt!Obj([data |-> Adapt!Arr([i \in DOMAIN list |->
                                    Adapt!TrackObject(list[i][1], list[i][2])])])
               picked == Adapt!FoundTrack(Adapt!PickBestMatch(Adapt!Parsed(
                           Adapt!ArrayOrSingle(doc, "data"), Adapt!DeezerTrack)))
           IN  Adapt!WithNames(list) = {"?"} \/ picked = Adapt!Returns(Adapt!WithNames(list))
<1> DEFINE s == [i \in DOMAIN list |-> Adapt!TrackObject(list[i][1], list[i][2])]
           doc == Adapt!Obj([data |-> Adapt!Arr(s)])
           p == [i \in DOMAIN list |-> Adapt!DeezerTrack(s[i])]
           X == [artistName : Texts, trackName : Texts, expiresAt : Nat]
<1>1. list \in Seq(Adapt!Tracks) /\ Len(list) \in 0 .. 2
  BY CandidatesAreLists
<1>2. /\ DOMAIN list = 1 .. Len(list)
      /\ \A i \in DOMAIN list : list[i][1] \in Texts /\ list[i][2] \in Texts
  BY <1>1, TracksAreTexts
<1>3. Adapt!ArrayOrSingle(doc, "data") = s
  <2> HIDE DEF s
  <2> QED
    BY DEF Adapt!ArrayOrSingle, Adapt!Child, Adapt!Obj, Adapt!Arr, Adapt!IsRecord
<1>4. \A i \in DOMAIN list : /\ p[i] \in X
                             /\ p[i].artistName = list[i][1] /\ p[i].trackName = list[i][2]
  <2> SUFFICES ASSUME NEW i \in DOMAIN list
               PROVE  /\ p[i] \in X
                      /\ p[i].artistName = list[i][1] /\ p[i].trackName = list[i][2]
    OBVIOUS
  <2>1. p[i] = Adapt!DeezerTrack(Adapt!TrackObject(list[i][1], list[i][2]))
    OBVIOUS
  <2>2. list[i][1] \in Texts /\ list[i][2] \in Texts
    BY <1>2
  <2> HIDE DEF p, X, s
  <2>3. QED
    BY <2>1, <2>2, DeezerTrackParses DEF X
<1>5. DOMAIN s = DOMAIN list /\ DOMAIN p = DOMAIN list
  OBVIOUS
<1>6. p = [i \in DOMAIN s |-> Adapt!DeezerTrack(s[i])]
  OBVIOUS
<1> HIDE DEF X
<1>7. p \in Seq(X) /\ Len(p) \in 0 .. 2
  <2>1. p = [i \in 1 .. Len(list) |-> p[i]]
    BY <1>2
  <2> HIDE DEF p, s
  <2>2. \A i \in 1 .. Len(list) : p[i] \in X
    BY <1>2, <1>4
  <2>3. Len(list) \in Nat
    BY <1>1
  <2>4. p \in [1 .. Len(list) -> X]
    BY <2>1, <2>2
  <2>5. p \in Seq(X)
    BY <2>3, <2>4, SeqDef
  <2>6. Len(p) = Len(list)
    <3> DEFINE m == Len(list)
               k == Len(p)
    <3>1. k \in Nat /\ DOMAIN p = 1 .. k /\ DOMAIN p = 1 .. m /\ m \in Nat
      BY <2>3, <2>4, <2>5, LenProperties
    <3> HIDE DEF m, k
    <3>2. 1 .. k = 1 .. m
      BY <3>1
    <3>3. k = m
      BY <3>1, <3>2
    <3>4. QED
      BY <3>3 DEF m, k
  <2>7. QED
    BY <1>1, <2>5, <2>6
<1>8. Undefined \notin X
  BY UndefinedAssumption DEF UndefinedAssumption, X
<1> HIDE DEF s, p, doc
<1>9. Adapt!Present(p) = p
  BY <1>7, <1>8, UpToTwoRead
<1>10. Adapt!Parsed(Adapt!ArrayOrSingle(doc, "data"), Adapt!DeezerTrack) = p
  BY <1>3, <1>6, <1>9 DEF Adapt!Parsed
<1>11. \/ Adapt!WithNames(list) = {"?"}
       \/ Adapt!FoundTrack(Adapt!PickBestMatch(p)) = Adapt!Returns(Adapt!WithNames(list))
  <2>1. \A i \in DOMAIN list : p[i] # Undefined
    BY <1>4, <1>8
  <2>2. QED
    BY <1>1, <1>4, <1>5, <2>1, BestIsPicked
<1>12. QED
  BY <1>10, <1>11 DEF doc, s

LEMMA ItunesListRead ==
    ASSUME NEW list \in Adapt!Candidates
    PROVE  LET doc == Adapt!Obj([results |-> Adapt!Arr([i \in DOMAIN list |->
                                    Adapt!TrackResult(list[i][1], list[i][2])])])
               picked == Adapt!FoundTrack(Adapt!PickBestMatch(Adapt!Parsed(
                           Adapt!ArrayOrSingle(doc, "results"), Adapt!ItunesPreview)))
           IN  Adapt!WithNames(list) = {"?"} \/ picked = Adapt!Returns(Adapt!WithNames(list))
<1> DEFINE s == [i \in DOMAIN list |-> Adapt!TrackResult(list[i][1], list[i][2])]
           doc == Adapt!Obj([results |-> Adapt!Arr(s)])
           p == [i \in DOMAIN list |-> Adapt!ItunesPreview(s[i])]
           X == [artistName : Texts, trackName : Texts]
<1>1. list \in Seq(Adapt!Tracks) /\ Len(list) \in 0 .. 2
  BY CandidatesAreLists
<1>2. /\ DOMAIN list = 1 .. Len(list)
      /\ \A i \in DOMAIN list : list[i][1] \in Texts /\ list[i][2] \in Texts
  BY <1>1, TracksAreTexts
<1>3. Adapt!ArrayOrSingle(doc, "results") = s
  <2> HIDE DEF s
  <2> QED
    BY DEF Adapt!ArrayOrSingle, Adapt!Child, Adapt!Obj, Adapt!Arr, Adapt!IsRecord
<1>4. \A i \in DOMAIN list : /\ p[i] \in X
                             /\ p[i].artistName = list[i][1] /\ p[i].trackName = list[i][2]
  <2> SUFFICES ASSUME NEW i \in DOMAIN list
               PROVE  /\ p[i] \in X
                      /\ p[i].artistName = list[i][1] /\ p[i].trackName = list[i][2]
    OBVIOUS
  <2>1. p[i] = Adapt!ItunesPreview(Adapt!TrackResult(list[i][1], list[i][2]))
    OBVIOUS
  <2>2. list[i][1] \in Texts /\ list[i][2] \in Texts
    BY <1>2
  <2> HIDE DEF p, X, s
  <2>3. QED
    BY <2>1, <2>2, ItunesTrackParses DEF X
<1>5. DOMAIN s = DOMAIN list /\ DOMAIN p = DOMAIN list
  OBVIOUS
<1>6. p = [i \in DOMAIN s |-> Adapt!ItunesPreview(s[i])]
  OBVIOUS
<1> HIDE DEF X
<1>7. p \in Seq(X) /\ Len(p) \in 0 .. 2
  <2>1. p = [i \in 1 .. Len(list) |-> p[i]]
    BY <1>2
  <2> HIDE DEF p, s
  <2>2. \A i \in 1 .. Len(list) : p[i] \in X
    BY <1>2, <1>4
  <2>3. Len(list) \in Nat
    BY <1>1
  <2>4. p \in [1 .. Len(list) -> X]
    BY <2>1, <2>2
  <2>5. p \in Seq(X)
    BY <2>3, <2>4, SeqDef
  <2>6. Len(p) = Len(list)
    <3> DEFINE m == Len(list)
               k == Len(p)
    <3>1. k \in Nat /\ DOMAIN p = 1 .. k /\ DOMAIN p = 1 .. m /\ m \in Nat
      BY <2>3, <2>4, <2>5, LenProperties
    <3> HIDE DEF m, k
    <3>2. 1 .. k = 1 .. m
      BY <3>1
    <3>3. k = m
      BY <3>1, <3>2
    <3>4. QED
      BY <3>3 DEF m, k
  <2>7. QED
    BY <1>1, <2>5, <2>6
<1>8. Undefined \notin X
  BY UndefinedAssumption DEF UndefinedAssumption, X
<1> HIDE DEF s, p, doc
<1>9. Adapt!Present(p) = p
  BY <1>7, <1>8, UpToTwoRead
<1>10. Adapt!Parsed(Adapt!ArrayOrSingle(doc, "results"), Adapt!ItunesPreview) = p
  BY <1>3, <1>6, <1>9 DEF Adapt!Parsed
<1>11. \/ Adapt!WithNames(list) = {"?"}
       \/ Adapt!FoundTrack(Adapt!PickBestMatch(p)) = Adapt!Returns(Adapt!WithNames(list))
  <2>1. \A i \in DOMAIN list : p[i] # Undefined
    BY <1>4, <1>8
  <2>2. QED
    BY <1>1, <1>4, <1>5, <2>1, BestIsPicked
<1>12. QED
  BY <1>10, <1>11 DEF doc, s

(* An answer that holds no error object holds no error; one that does, does. *)
LEMMA NoEnvelope ==
    ASSUME NEW payload, Adapt!OptRecord(payload, "error") = Adapt!Null
    PROVE  Adapt!ErrorEnvelope(payload) = "none"
<1>1. Adapt!Null.t = "null"
  BY DEF Adapt!Null
<1>2. Adapt!OptNumber(Adapt!Null, "code") \notin {4, 700}
  BY NullReads, UndefinedAssumption DEF UndefinedAssumption
<1>3. QED
  BY <1>1, <1>2 DEF Adapt!ErrorEnvelope

LEMMA AnEnvelope ==
    ASSUME NEW payload, Adapt!OptRecord(payload, "error").t = "object"
    PROVE  /\ Adapt!ErrorEnvelope(payload) # "none"
           /\ Adapt!OptNumber(Adapt!OptRecord(payload, "error"), "code") \notin {4, 700} =>
                 Adapt!ErrorEnvelope(payload) = "http"
  BY DEF Adapt!ErrorEnvelope

LEMMA DeezerSays ==
    ASSUME provider = "deezer", op \in Adapt!Methods(provider), clock \in Nat,
           NEW r \in Adapt!Handled(op) \cup Adapt!Real(op)
    PROVE  Says(r)
<1>1. op \in {"resolvePreview", "refreshPreview"}
  BY DEF Adapt!Methods
<1>2. \A payload : /\ Adapt!Inspect(payload) = Adapt!ErrorEnvelope(payload)
                   /\ Adapt!Read(op, payload) = Adapt!FoundTrack(Adapt!DeezerPick(payload))
  <2>1. \A payload : Adapt!Inspect(payload) = Adapt!ErrorEnvelope(payload)
    BY DEF Adapt!Inspect
  <2>2. QED
    BY <1>1, <2>1 DEF Adapt!Read
<1>3. Adapt!Handled(op) = Adapt!DeezerHandle(op)
  BY DEF Adapt!Handled
<1>4. CASE op = "refreshPreview"
  <2> DEFINE body == Adapt!TrackObject("Ann", "Song")
             x == Adapt!DeezerTrack(body)
  <2>1. r \in {Adapt!Answers(body, {"Song"}), Adapt!DeezerNoData}
    BY <1>3, <1>4 DEF Adapt!DeezerHandle, Adapt!Real
  <2>2. body.t = "object" /\ Adapt!OptRecord(body, "error") = Adapt!Null
    BY DEF Adapt!TrackObject, Adapt!Obj, Adapt!OptRecord, Adapt!Child, Adapt!IsRecord, Adapt!Null
  <2>3. "Ann" \in Texts /\ "Song" \in Texts
    BY DEF Texts
  <2> HIDE DEF body
  <2>4. x \in [artistName : Texts, trackName : Texts, expiresAt : Nat] /\ x.trackName = "Song"
    BY <2>3, DeezerTrackParses DEF body
  <2>5. x # Undefined
    <3> HIDE DEF x
    <3> QED
      BY <2>4, UndefinedAssumption DEF UndefinedAssumption
  <2>6. Adapt!Read(op, body) = Adapt!Returns({"Song"})
    BY <1>2, <1>4, <2>4, <2>5 DEF Adapt!DeezerPick, Adapt!FoundTrack
  <2>7. Adapt!Inspect(body) = "none"
    BY <1>2, <2>2, NoEnvelope
  <2>8. Says(Adapt!Answers(body, {"Song"}))
    BY <2>2, <2>6, <2>7, SaysAnswer
  <2> DEFINE e == Adapt!Obj([error |-> Adapt!Obj([code |-> Adapt!Num(800)])])
  <2>9. Says(Adapt!DeezerNoData)
    <3>1. /\ e.t = "object"
          /\ Adapt!OptRecord(e, "error") = Adapt!Obj([code |-> Adapt!Num(800)])
      BY DEF Adapt!Obj, Adapt!OptRecord, Adapt!Child, Adapt!IsRecord
    <3>2. /\ Adapt!Obj([code |-> Adapt!Num(800)]).t = "object"
          /\ Adapt!Child(Adapt!Obj([code |-> Adapt!Num(800)]), "code") = Adapt!Num(800)
      BY DEF Adapt!Obj, Adapt!Child, Adapt!IsRecord
    <3>3. Adapt!OptNumber(Adapt!Obj([code |-> Adapt!Num(800)]), "code") = 800
      BY <3>2 DEF Adapt!OptNumber, Adapt!Num
    <3> HIDE DEF e
    <3>4. Adapt!Inspect(e) = "http"
      BY <1>2, <3>1, <3>2, <3>3, AnEnvelope
    <3>5. Adapt!EmptyStatuses(op) = {}
      BY <1>4 DEF Adapt!EmptyStatuses
    <3>6. Says(Adapt!Unclear(200, e))
      BY <3>1, <3>4, <3>5, SaysUnclear DEF Adapt!RetryableKinds
    <3>7. QED
      BY <3>6 DEF Adapt!DeezerNoData, e
  <2>10. QED
    BY <2>1, <2>8, <2>9
<1>5. CASE op = "resolvePreview"
  <2>1. Adapt!Real(op) = {}
    BY <1>5 DEF Adapt!Real
  <2>2. PICK list \in Adapt!Candidates :
          r = Adapt!DeezerAnswers([i \in DOMAIN list |->
                                     Adapt!TrackObject(list[i][1], list[i][2])],
                                  Adapt!WithNames(list))
    BY <1>3, <1>5, <2>1 DEF Adapt!DeezerHandle
  <2> DEFINE s == [i \in DOMAIN list |-> Adapt!TrackObject(list[i][1], list[i][2])]
             doc == Adapt!Obj([data |-> Adapt!Arr(s)])
             pick == Adapt!PickBestMatch(Adapt!Parsed(Adapt!ArrayOrSingle(doc, "data"),
                                                      Adapt!DeezerTrack))
  <2>3. Adapt!WithNames(list) = {"?"}
        \/ Adapt!FoundTrack(pick) = Adapt!Returns(Adapt!WithNames(list))
    BY DeezerListRead
  <2>4. r = Adapt!Answers(doc, Adapt!WithNames(list))
    BY <2>2 DEF Adapt!DeezerAnswers
  <2> HIDE DEF s
  <2>5. doc.t = "object" /\ Adapt!OptRecord(doc, "error") = Adapt!Null
    BY DEF Adapt!Obj, Adapt!OptRecord, Adapt!Child, Adapt!IsRecord, Adapt!Null
  <2> HIDE DEF doc
  <2>6. Adapt!Read(op, doc) = Adapt!FoundTrack(pick)
    BY <1>2, <1>5 DEF Adapt!DeezerPick
  <2> HIDE DEF pick
  <2>7. Adapt!Inspect(doc) = "none"
    BY <1>2, <2>5, NoEnvelope
  <2>8. \E ids : /\ Adapt!FoundTrack(pick) = Adapt!Returns(ids)
                 /\ Adapt!WithNames(list) = ids \/ Adapt!WithNames(list) = {"?"}
    BY <2>3 DEF Adapt!FoundTrack
  <2>9. QED
    BY <2>4, <2>5, <2>6, <2>7, <2>8, SaysAnswer
<1>6. QED
  BY <1>1, <1>4, <1>5

LEMMA ItunesSays ==
    ASSUME provider = "itunes", op \in Adapt!Methods(provider),
           NEW r \in Adapt!Handled(op) \cup Adapt!Real(op)
    PROVE  Says(r)
<1>1. op \in {"resolvePreview", "lookupTrack"}
  BY DEF Adapt!Methods
<1>2. \A payload : /\ Adapt!Inspect(payload) = "none"
                   /\ Adapt!Read(op, payload) = Adapt!FoundTrack(Adapt!ItunesPick(payload))
  <2>1. \A payload : Adapt!Inspect(payload) = "none"
    BY DEF Adapt!Inspect
  <2>2. QED
    BY <1>1, <2>1 DEF Adapt!Read
<1>3. Adapt!Handled(op) = Adapt!ItunesHandle(op) /\ Adapt!Real(op) = {}
  BY <1>1 DEF Adapt!Handled, Adapt!Real
<1>4. CASE op = "lookupTrack"
  <2> DEFINE v == Adapt!TrackResult("Ann", "Song")
             P(item) == Adapt!ItunesPreview(item)
             x == P(v)
             body == Adapt!Obj([results |-> Adapt!Arr(<<v>>)])
             all == Adapt!Parsed(Adapt!ArrayOrSingle(body, "results"), Adapt!ItunesPreview)
  <2>1. r = Adapt!Answers(body, {"Song"})
    BY <1>3, <1>4 DEF Adapt!ItunesHandle, Adapt!ItunesAnswers
  <2>2. body.t = "object" /\ Adapt!ArrayOrSingle(body, "results") = <<v>>
    BY DEF Adapt!Obj, Adapt!ArrayOrSingle, Adapt!Child, Adapt!Arr, Adapt!IsRecord
  <2>3. "Ann" \in Texts /\ "Song" \in Texts
    BY DEF Texts
  <2> HIDE DEF body, v
  <2>4. x \in [artistName : Texts, trackName : Texts] /\ x.trackName = "Song"
    BY <2>3, ItunesTrackParses DEF v
  <2>5. x # Undefined
    <3> HIDE DEF x
    <3> QED
      BY <2>4, UndefinedAssumption DEF UndefinedAssumption
  <2>6. [i \in DOMAIN <<v>> |-> P(<<v>>[i])] = <<x>>
    OBVIOUS
  <2>7. all = Adapt!Present([i \in DOMAIN <<v>> |-> P(<<v>>[i])])
    BY <2>2 DEF Adapt!Parsed
  <2> HIDE DEF x
  <2>8. all = <<x>>
    BY <2>5, <2>6, <2>7, OneRead
  <2>9. Adapt!ItunesPick(body) = x
    <3>1. Adapt!ItunesPick(body) = IF all = <<>> THEN Undefined ELSE all[1]
      BY <1>4 DEF Adapt!ItunesPick
    <3> HIDE DEF all
    <3>2. QED
      BY <2>8, <3>1
  <2>10. Adapt!Read(op, body) = Adapt!Returns({"Song"})
    BY <1>2, <2>4, <2>5, <2>9 DEF Adapt!FoundTrack
  <2>11. QED
    BY <1>2, <2>1, <2>2, <2>10, SaysAnswer
<1>5. CASE op = "resolvePreview"
  <2>1. PICK list \in Adapt!Candidates :
          r = Adapt!ItunesAnswers([i \in DOMAIN list |->
                                     Adapt!TrackResult(list[i][1], list[i][2])],
                                  Adapt!WithNames(list))
    BY <1>3, <1>5 DEF Adapt!ItunesHandle
  <2> DEFINE s == [i \in DOMAIN list |-> Adapt!TrackResult(list[i][1], list[i][2])]
             doc == Adapt!Obj([results |-> Adapt!Arr(s)])
             pick == Adapt!PickBestMatch(Adapt!Parsed(Adapt!ArrayOrSingle(doc, "results"),
                                                      Adapt!ItunesPreview))
  <2>2. Adapt!WithNames(list) = {"?"}
        \/ Adapt!FoundTrack(pick) = Adapt!Returns(Adapt!WithNames(list))
    BY ItunesListRead
  <2>3. r = Adapt!Answers(doc, Adapt!WithNames(list))
    BY <2>1 DEF Adapt!ItunesAnswers
  <2> HIDE DEF s
  <2>4. doc.t = "object"
    BY DEF Adapt!Obj
  <2> HIDE DEF doc
  <2>5. Adapt!Read(op, doc) = Adapt!FoundTrack(pick)
    BY <1>2, <1>5 DEF Adapt!ItunesPick
  <2> HIDE DEF pick
  <2>6. \E ids : /\ Adapt!FoundTrack(pick) = Adapt!Returns(ids)
                 /\ Adapt!WithNames(list) = ids \/ Adapt!WithNames(list) = {"?"}
    BY <2>2 DEF Adapt!FoundTrack
  <2>7. QED
    BY <1>2, <2>3, <2>4, <2>5, <2>6, SaysAnswer
<1>6. QED
  BY <1>1, <1>4, <1>5

(* reccobeats/client.ts.                                                   *)

RbTrack == Adapt!Obj([id |-> Adapt!Str("mbid-c")])
RbTracksDoc == Adapt!Obj([content |-> Adapt!Arr(<<RbTrack>>)])
RbFeaturesDoc == Adapt!Obj([tempo |-> Adapt!Num(90), key |-> Adapt!Num(12)])

LEMMA TrackIdRead ==
    /\ Adapt!ResolveTrackId(RbTracksDoc) = Adapt!Returns({"mbid-c"})
    /\ Adapt!ResolveTrackId(Adapt!Null) = Adapt!Returns({})
<1> DEFINE P(item) == Adapt!OptMbid(item, "id")
           v == RbTrack
<1>1. Adapt!OptString(v, "id") = "mbid-c"
  BY DEF RbTrack, Adapt!OptString, Adapt!Child, Adapt!Obj, Adapt!Str, Adapt!IsRecord
<1>2. P(v) = "mbid-c"
  BY <1>1 DEF Adapt!OptMbid, Adapt!IsMbid, Adapt!Known
<1>3. "mbid-c" # Undefined
  BY UndefinedAssumption DEF UndefinedAssumption, Texts
<1>4. Adapt!ResolveTrackId(RbTracksDoc) = Adapt!Returns({"mbid-c"})
  <2> DEFINE all == Adapt!Present([i \in DOMAIN <<v>> |-> P(<<v>>[i])])
  <2>1. Adapt!ArrayOrSingle(RbTracksDoc, "content") = <<v>>
    BY DEF RbTracksDoc, Adapt!ArrayOrSingle, Adapt!Child, Adapt!Obj, Adapt!Arr, Adapt!IsRecord
  <2>2. [i \in DOMAIN <<v>> |-> P(<<v>>[i])] = <<"mbid-c">>
    <3> HIDE DEF P
    <3> QED
      BY <1>2
  <2>3. Adapt!ResolveTrackId(RbTracksDoc)
          = Adapt!Returns(IF all = <<>> THEN {} ELSE {all[1]})
    BY <2>1 DEF Adapt!ResolveTrackId, Adapt!Parsed
  <2>4. all = <<"mbid-c">>
    BY <1>3, <2>2, OneRead
  <2> HIDE DEF all
  <2>5. QED
    BY <2>3, <2>4
<1>5. Adapt!ResolveTrackId(Adapt!Null) = Adapt!Returns({})
  <2> DEFINE all == Adapt!Present([i \in DOMAIN <<>> |-> P(<<>>[i])])
  <2>1. Adapt!ArrayOrSingle(Adapt!Null, "content") = <<>>
    BY NullReads
  <2>2. [i \in DOMAIN <<>> |-> P(<<>>[i])] = <<>>
    OBVIOUS
  <2>3. Adapt!ResolveTrackId(Adapt!Null) = Adapt!Returns(IF all = <<>> THEN {} ELSE {all[1]})
    BY <2>1 DEF Adapt!ResolveTrackId, Adapt!Parsed
  <2>4. all = <<>>
    BY <2>2, NoneRead
  <2> HIDE DEF all
  <2>5. QED
    BY <2>3, <2>4
<1>6. QED
  BY <1>4, <1>5

LEMMA FeaturesRead ==
    /\ Adapt!AudioFeaturesByUuid(RbFeaturesDoc) = Adapt!Returns({"90"})
    /\ Adapt!AudioFeaturesByUuid(Adapt!Null) = Adapt!Returns({})
<1> DEFINE d == RbFeaturesDoc
<1>1. /\ d.t = "object" /\ Adapt!OptRecord(d, "audioFeatures") = Adapt!Null
      /\ Adapt!Child(d, "tempo") = Adapt!Num(90)
  BY DEF RbFeaturesDoc, Adapt!OptRecord, Adapt!Child, Adapt!Obj, Adapt!IsRecord
<1>2. Adapt!OptNumber(d, "tempo") = 90
  BY <1>1 DEF Adapt!OptNumber, Adapt!Num
<1>3. Adapt!ParseAudioFeatures(d).tempo = 90
  BY <1>2 DEF Adapt!ParseAudioFeatures
<1>4. Adapt!Null.t = "null"
  BY DEF Adapt!Null
<1> HIDE DEF d
<1>5. Adapt!AudioFeaturesByUuid(d) = Adapt!Returns({Adapt!ToString(90)})
  BY <1>1, <1>3, <1>4 DEF Adapt!AudioFeaturesByUuid
<1>6. Adapt!AudioFeaturesByUuid(Adapt!Null) = Adapt!Returns({})
  BY <1>4 DEF Adapt!AudioFeaturesByUuid
<1>7. QED
  BY <1>5, <1>6, Decimal DEF Decimal, d

LEMMA ReccoBeatsSays ==
    ASSUME provider = "reccobeats", op \in Adapt!Methods(provider),
           NEW r \in Adapt!Handled(op) \cup Adapt!Real(op)
    PROVE  Says(r)
<1>1. op \in {"resolveTrackId", "audioFeaturesByUuid"}
  BY DEF Adapt!Methods
<1>2. \A payload : Adapt!Inspect(payload) = "none"
  BY DEF Adapt!Inspect
<1> DEFINE body == IF op = "resolveTrackId" THEN RbTracksDoc ELSE RbFeaturesDoc
           id == IF op = "resolveTrackId" THEN "mbid-c" ELSE "90"
<1>3. Adapt!Handled(op) = {Adapt!Answers(body, {id})}
  BY <1>1 DEF Adapt!Handled, Adapt!ReccoBeatsHandle, Adapt!TrackIds, Adapt!AudioFeatures,
     RbTracksDoc, RbTrack, RbFeaturesDoc
<1>4. /\ body.t = "object" /\ Adapt!Read(op, body) = Adapt!Returns({id})
      /\ Adapt!Read(op, Adapt!Null) = Adapt!Returns({})
  <2>1. body.t = "object"
    BY DEF RbTracksDoc, RbFeaturesDoc, Adapt!Obj
  <2>2. CASE op = "resolveTrackId"
    BY <2>1, <2>2, TrackIdRead DEF Adapt!Read
  <2>3. CASE op = "audioFeaturesByUuid"
    BY <2>1, <2>3, FeaturesRead DEF Adapt!Read
  <2>4. QED
    BY <1>1, <2>2, <2>3
<1> HIDE DEF body, id
<1>5. Says(Adapt!Answers(body, {id}))
  BY <1>2, <1>4, SaysAnswer
<1>6. Adapt!Real(op) = {Adapt!Nothing(404, Adapt!Text)} /\ 404 \in Adapt!EmptyStatuses(op)
  BY <1>1 DEF Adapt!Real, Adapt!EmptyStatuses
<1>7. Says(Adapt!Nothing(404, Adapt!Text))
  BY <1>2, <1>4, <1>6, SaysNothing
<1>8. QED
  BY <1>3, <1>5, <1>6, <1>7

-----------------------------------------------------------------------------
(* Whatever the provider, the method and the weather.                      *)
Served == provider # "labs" /\ op # "exploreRadio"

LEMMA EveryAnswerSays ==
    ASSUME provider \in Adapt!Providers, op \in Adapt!Methods(provider), clock \in Nat, Served,
           NEW r \in Adapt!Handled(op) \cup Adapt!Real(op)
    PROVE  Says(r)
<1>1. provider \in {"musicbrainz", "listenbrainz", "lastfm", "itunes", "deezer", "reccobeats"}
  BY DEF Served, Adapt!Providers
<1>2. op # "exploreRadio"
  BY DEF Served
<1>3. QED
  BY <1>1, <1>2, MusicBrainzSays, ListenBrainzSays, LastfmSays, ItunesSays, DeezerSays,
     ReccoBeatsSays

MayRefuse == refusal \in {Adapt!DefaultRefusal(provider), 429}
             \/ (provider = "lastfm" /\ refusal = 200)

LEMMA EmptyStatusesServed ==
    ASSUME Served, op \in Adapt!Methods(provider), provider \in Adapt!Providers
    PROVE  /\ Adapt!EmptyStatuses(op) \subseteq {204, 400, 401, 404}
           /\ provider \in {"itunes", "deezer", "lastfm"} => Adapt!EmptyStatuses(op) = {}
<1>1. /\ op \in {"lookupArtist", "lookupRecording", "lookupRelease", "searchArtist",
                 "searchRecording", "validateToken", "recommendedRecordings",
                 "createdForPlaylists", "artistRadio", "topArtists", "similarArtists",
                 "artistInfo", "similarTracks", "trackInfo", "userTopArtists", "getSession",
                 "resolvePreview", "refreshPreview", "lookupTrack", "resolveTrackId",
                 "audioFeaturesByUuid"}
      /\ provider \in {"itunes", "deezer", "lastfm"} =>
            op \in {"similarArtists", "artistInfo", "similarTracks", "trackInfo",
                    "userTopArtists", "getSession", "resolvePreview", "refreshPreview",
                    "lookupTrack"}
  BY DEF Served, Adapt!Methods, Adapt!Providers
<1>2. provider # "labs"
  BY DEF Served
<1>3. Adapt!EmptyStatuses(op) \subseteq {204, 400, 401, 404}
  BY <1>1, <1>2 DEF Adapt!EmptyStatuses
<1>4. ASSUME provider \in {"itunes", "deezer", "lastfm"} PROVE Adapt!EmptyStatuses(op) = {}
  BY <1>1, <1>2, <1>4 DEF Adapt!EmptyStatuses
<1>5. QED
  BY <1>3, <1>4

LEMMA EveryRefusalSays ==
    ASSUME provider \in Adapt!Providers, op \in Adapt!Methods(provider), Served, MayRefuse
    PROVE  /\ Says(Adapt!Fails(Adapt!Broken, Adapt!Blank))
           /\ Says(Adapt!Fails(Adapt!Hanging, Adapt!Blank))
           /\ Says(Adapt!Fails(500, Adapt!ServerErrorBody(provider)))
           /\ Says(Adapt!Fails(refusal, Adapt!RateLimitBody(provider)))
<1>1. /\ Adapt!EmptyStatuses(op) \subseteq {204, 400, 401, 404}
      /\ Adapt!AcceptStatuses \subseteq {400, 403}
      /\ provider # "lastfm" => Adapt!AcceptStatuses = {}
      /\ provider \in {"itunes", "deezer", "lastfm"} => Adapt!EmptyStatuses(op) = {}
  BY EmptyStatusesServed DEF Adapt!AcceptStatuses
<1>2. \A status \in {0, 1, 429, 500, 503} :
         status \notin 200 .. 299 \cup Adapt!AcceptStatuses \cup Adapt!EmptyStatuses(op)
  BY <1>1
<1>3. \A status \in {0, 1, 429, 500, 503} : \A b : Says(Adapt!Fails(status, b))
  BY <1>2, SaysRefusal
<1>4. Says(Adapt!Fails(refusal, Adapt!RateLimitBody(provider)))
  <2>1. CASE refusal \in {429, 503}
    BY <1>3, <2>1
  <2>2. CASE provider = "itunes" /\ refusal = 403
    <3>1. 403 \notin 200 .. 299 \cup Adapt!AcceptStatuses \cup Adapt!EmptyStatuses(op)
      BY <1>1, <2>2
    <3>2. QED
      BY <2>2, <3>1, SaysRefusal
  <2>3. CASE provider = "lastfm" /\ refusal = 200
    <3>1. Adapt!RateLimitBody(provider) \in FmRefusals
      BY <2>3 DEF Adapt!RateLimitBody, FmRefusals
    <3>2. Adapt!Inspect(Adapt!RateLimitBody(provider))
            = Adapt!InBandError(Adapt!RateLimitBody(provider))
      BY <2>3 DEF Adapt!Inspect
    <3>3. QED
      BY <1>1, <2>3, <3>1, <3>2, FmRefusalsAreErrors, SaysFailure
  <2>4. CASE provider = "deezer" /\ refusal = 200
    <3> DEFINE e == Adapt!Obj([error |-> Adapt!Obj([code |-> Adapt!Num(4)])])
    <3>1. Adapt!RateLimitBody(provider) = e
      BY <2>4 DEF Adapt!RateLimitBody
    <3>2. e.t = "object" /\ Adapt!OptRecord(e, "error").t = "object"
      BY DEF Adapt!Obj, Adapt!OptRecord, Adapt!Child, Adapt!IsRecord
    <3> HIDE DEF e
    <3>3. Adapt!Inspect(e) = Adapt!ErrorEnvelope(e)
      BY <2>4 DEF Adapt!Inspect
    <3>4. QED
      BY <1>1, <2>4, <3>1, <3>2, <3>3, AnEnvelope, SaysFailure
  <2>5. QED
    BY <2>1, <2>2, <2>3, <2>4 DEF MayRefuse, Adapt!DefaultRefusal, Adapt!Providers
<1>5. QED
  BY <1>3, <1>4 DEF Adapt!Broken, Adapt!Hanging

-----------------------------------------------------------------------------
(* The invariant: what an answer is, and what a response can still be.     *)
AnswersHold ==
    /\ provider \in Adapt!Providers
    /\ op = Absent \/ op \in Adapt!Methods(provider)
    /\ clock \in Nat
    /\ MayRefuse
    /\ Adapt!Faithful

LEMMA ErrorKindIs == \A r : Adapt!ErrorKind(r) # "none"
  BY DEF Adapt!ErrorKind

LEMMA ExchangeKeeps ==
    ASSUME AnswersHold, op # Absent, NEW r, Adapt!Exchange(r), Served => Says(r),
           UNCHANGED provider
    PROVE  Adapt!Faithful'
<1> SUFFICES ASSUME op' = Absent, said' # Absent, provider' # "labs", said'.to # "exploreRadio"
             PROVE  /\ said'.means = "failure" => answer'.error # "none"
                    /\ said'.means = "unclear" =>
                          answer'.ids = {} /\ answer'.error \notin Adapt!RetryableKinds
                    /\ said'.means = "answer" =>
                          /\ answer'.error = "none"
                          /\ said'.names = {"?"} \/ answer'.ids = said'.names
  BY DEF Adapt!Faithful
<1>1. said' = [to |-> op, status |-> r.status, means |-> r.means, names |-> r.names]
  BY DEF Adapt!Exchange
<1>2. said'.to = op /\ said'.means = r.means /\ said'.names = r.names
  BY <1>1
<1>3. Served /\ Says(r)
  BY <1>2 DEF Served
<1>4. \A result : Adapt!Caught(op, result) = result
  BY <1>3 DEF Served, Adapt!Caught
<1>5. CASE Adapt!Accept(r)
  <2>1. answer' = Adapt!Interpret(op, r)
    BY <1>4, <1>5 DEF Adapt!Accept, Adapt!Settle
  <2>2. Adapt!Accepted(r, Adapt!AcceptStatuses, Adapt!EmptyStatuses(op))
    BY <1>5 DEF Adapt!Accept
  <2>3. QED
    BY <1>2, <1>3, <2>1, <2>2 DEF Says
<1>6. CASE Adapt!Refuse(r)
  <2>1. ~Adapt!Accepted(r, Adapt!AcceptStatuses, Adapt!EmptyStatuses(op))
    BY <1>6 DEF Adapt!Refuse
  <2>2. r.means = "failure"
    BY <1>3, <2>1 DEF Says
  <2>3. Adapt!Settle(Adapt!Throws(Adapt!ErrorKind(r)))
    BY <1>6 DEF Adapt!Refuse
  <2>4. answer' = Adapt!Throws(Adapt!ErrorKind(r))
    BY <1>4, <2>3 DEF Adapt!Settle
  <2>5. answer'.error # "none"
    BY <2>4, ErrorKindIs DEF Adapt!Throws
  <2>6. QED
    BY <1>2, <2>2, <2>5
<1>7. QED
  BY <1>5, <1>6 DEF Adapt!Exchange

LEMMA RespondKeeps ==
    ASSUME AnswersHold, op # Absent, NEW h \in Adapt!Handled(op) \cup Adapt!Real(op),
           Adapt!Respond(h), UNCHANGED provider
    PROVE  Adapt!Faithful' /\ (op' = op \/ op' = Absent)
<1>1. /\ op \in Adapt!Methods(provider) /\ provider \in Adapt!Providers /\ clock \in Nat
      /\ MayRefuse
  BY DEF AnswersHold
<1>2. Served => Says(h)
  BY <1>1, EveryAnswerSays
<1> DEFINE broken == Adapt!Fails(Adapt!Broken, Adapt!Blank)
           hanging == Adapt!Fails(Adapt!Hanging, Adapt!Blank)
           down == Adapt!Fails(500, Adapt!ServerErrorBody(provider))
           limited == Adapt!Fails(refusal, Adapt!RateLimitBody(provider))
<1>3. Served => Says(broken) /\ Says(hanging) /\ Says(down) /\ Says(limited)
  BY <1>1, EveryRefusalSays
<1>4. \/ Adapt!Exchange(broken) \/ Adapt!Exchange(hanging) \/ Adapt!Exchange(down)
      \/ Adapt!Exchange(limited) \/ Adapt!Exchange(h)
  BY Zenon DEF Adapt!Respond
<1> HIDE DEF broken, hanging, down, limited
<1>5. PICK r : Adapt!Exchange(r) /\ (Served => Says(r))
  BY <1>2, <1>3, <1>4
<1>6. Adapt!Faithful'
  BY <1>5, ExchangeKeeps
<1>7. op' = op \/ op' = Absent
  <2>1. Adapt!Accept(r) => op' = Absent
    BY DEF Adapt!Accept, Adapt!Settle
  <2>2. Adapt!Refuse(r) => op' = op \/ op' = Absent
    BY DEF Adapt!Refuse, Adapt!Settle
  <2>3. QED
    BY <1>5, <2>1, <2>2 DEF Adapt!Exchange
<1>8. QED
  BY <1>6, <1>7

LEMMA AnswersKept ==
    ASSUME AnswersHold, Adapt!Next
    PROVE  AnswersHold'
<1>1. CASE \E o \in Adapt!Methods(provider) : Adapt!Call(o) \/ Adapt!Disabled(o)
  <2>1. PICK o \in Adapt!Methods(provider) : Adapt!Call(o) \/ Adapt!Disabled(o)
    BY <1>1
  <2>2. said' = Absent /\ UNCHANGED <<provider, clock, refusal>> /\ (op' = op \/ op' = o)
    BY <2>1 DEF Adapt!Call, Adapt!Disabled, Adapt!mock
  <2>3. QED
    BY <2>2 DEF AnswersHold, MayRefuse, Adapt!Faithful
<1>2. CASE Adapt!RefusedLocally
  <2>1. said' = Absent /\ UNCHANGED <<provider, clock, refusal>> /\ op' = Absent
    BY <1>2 DEF Adapt!RefusedLocally, Adapt!Settle, Adapt!mock
  <2>2. QED
    BY <2>1 DEF AnswersHold, MayRefuse, Adapt!Faithful
<1>3. CASE Adapt!Receive
  <2>1. op # Absent /\ UNCHANGED <<provider, refusal, clock>>
    BY <1>3 DEF Adapt!Receive
  <2>2. PICK h \in Adapt!Handled(op) \cup Adapt!Real(op) : Adapt!Respond(h)
    BY <1>3 DEF Adapt!Receive
  <2>3. Adapt!Faithful' /\ (op' = op \/ op' = Absent)
    BY <2>1, <2>2, RespondKeeps
  <2>4. QED
    BY <2>1, <2>3 DEF AnswersHold, MayRefuse
<1>4. CASE Adapt!Control
  <2>1. UNCHANGED <<op, said, answer>>
    BY <1>4 DEF Adapt!Control, Adapt!Client
  <2>2. UNCHANGED <<provider, clock>>
    BY <1>4 DEF Adapt!Control, Adapt!Admin, Adapt!Reset, Adapt!SetFault, Adapt!SetRates,
       Adapt!SetRefusal
  <2>3. \/ refusal' = refusal \/ refusal' = 429 \/ refusal' = Adapt!DefaultRefusal(provider)
        \/ provider = "lastfm" /\ refusal' = 200
    BY <1>4 DEF Adapt!Control, Adapt!Admin, Adapt!Reset, Adapt!SetFault, Adapt!SetRates,
       Adapt!SetRefusal
  <2>4. MayRefuse'
    BY <2>2, <2>3 DEF AnswersHold, MayRefuse
  <2>5. Adapt!Faithful'
    BY <2>1, <2>2 DEF AnswersHold, Adapt!Faithful
  <2>6. QED
    BY <2>1, <2>2, <2>4, <2>5 DEF AnswersHold
<1>5. CASE Adapt!Tick
  <2>1. UNCHANGED <<provider, refusal, op, said, answer>> /\ clock' = clock + 1
    BY <1>5 DEF Adapt!Tick
  <2>2. QED
    BY <2>1 DEF AnswersHold, MayRefuse, Adapt!Faithful
<1>6. QED
  BY <1>1, <1>2, <1>3, <1>4, <1>5 DEF Adapt!Next

(***************************************************************************)
(* An answer of an adapter says what the provider said: a failure, also    *)
(* one that came with a 200, is an error and never "there is nothing", and *)
(* what is there, also a list of one, is what is returned; a response that *)
(* does not say what it means is at most nothing, and no outage; whatever  *)
(* the policy of retries and of the breaker and however long it goes on.   *)
(***************************************************************************)
THEOREM AnswersAreFaithful ==
    /\ Adapt!Spec => []Adapt!Faithful
    /\ MCSpec => []Faithful
<1>1. Adapt!Init => AnswersHold
  BY DEF Adapt!Init, Adapt!MockInit, AnswersHold, MayRefuse, Adapt!Faithful
<1>2. AnswersHold /\ Adapt!Next => AnswersHold'
  BY AnswersKept
<1>3. AnswersHold /\ UNCHANGED adapters => AnswersHold'
  BY DEF adapters, AnswersHold, MayRefuse, Adapt!Faithful
<1>4. AnswersHold => Adapt!Faithful
  BY DEF AnswersHold
<1>5. Adapt!Spec => []Adapt!Faithful
  <2>1. AnswersHold /\ [Adapt!Next]_(Adapt!vars) => AnswersHold'
    BY <1>2, <1>3 DEF Adapt!vars, Adapt!mock, adapters
  <2>2. QED
    BY <1>1, <1>4, <2>1, PTL DEF Adapt!Spec
<1>6. MCInit => AnswersHold
  BY <1>1, Zenon DEF MCInit
<1>7. AnswersHold /\ [MCNext]_<<feedAll, part, catVars, adapters, concerts, pages>> => AnswersHold'
  <2>1. MCNext => Adapt!Next \/ UNCHANGED adapters
    BY Zenon DEF MCNext
  <2>2. QED
    BY <1>2, <1>3, <2>1
<1>8. AnswersHold => Faithful
  BY <1>4 DEF Faithful
<1>9. MCSpec => []Faithful
  BY <1>6, <1>7, <1>8, PTL DEF MCSpec
<1>10. QED
  BY <1>5, <1>9

=============================================================================
