------------------------- MODULE CredentialsProofs -------------------------
(***************************************************************************)
(* Proofs about what a person holds: sessions and API tokens, for any      *)
(* number of concurrent requests, any lifetimes that satisfy               *)
(* SafeUpperBound and any cap; the link to an export; sign-in and the      *)
(* profile; and, at the end, about the job that warms the cache.           *)
(*                                                                         *)
(* Sign-out: the entry of the deny list outlasts what it denies (Denied),  *)
(* because WorkOS stops minting before the entry is written (Ended).       *)
(* Tokens: a rotation under way holds the lock on a token that is not      *)
(* revoked, and a create that has counted holds the lock on the users row  *)
(* (Held); the tokens that count against the cap are below it while a      *)
(* create is about to insert (Capped).                                     *)
(***************************************************************************)
EXTENDS MCCredentials, FiniteSetTheorems, TLAPS

Denied == signedOut => ~upstream /\ access <= deny

Ended == \A r \in Requests : stage[r] = "ended" => ~upstream

Held ==
    /\ \A r \in Requests :
          /\ stage[r] = "swapping" => /\ target[r] \in DOMAIN tokens
                                      /\ ~tokens[target[r]].revoked
          /\ stage[r] = "counted" => lock = r
    /\ \A r, s \in Requests :
          target[r] = target[s] /\ target[r] # 0 => r = s

(* A chain is named after a token that exists.                             *)
Numbered == \A t \in DOMAIN tokens : tokens[t].chain <= Len(tokens)

(* What counts against the cap.                                            *)
Fresh(rows) ==
    {t \in DOMAIN rows : /\ ~rows[t].revoked
                         /\ rows[t].left > 0
                         /\ ~rows[t].revived}

Capped ==
    /\ Cardinality(Fresh(tokens)) <= MaxPerUser
    /\ \A r \in Requests :
          stage[r] = "counted" => Cardinality(Fresh(tokens)) < MaxPerUser

Sized == tokens \in Seq(Rows) /\ Len(tokens) <= MaxTokens

IInv ==
    /\ TypeOK /\ Sized
    /\ Denied /\ Ended
    /\ Held /\ Numbered /\ OneSecretPerChain /\ Capped

-----------------------------------------------------------------------------

(* The tokens that count are finitely many.                                *)
LEMMA FreshIsFinite ==
    ASSUME NEW rows \in Seq(Rows)
    PROVE  /\ IsFiniteSet(Fresh(rows))
           /\ Cardinality(Fresh(rows)) \in Nat
<1>1. Fresh(rows) \in SUBSET (1 .. Len(rows))
  BY DEF Fresh
<1>2. IsFiniteSet(1 .. Len(rows))
  BY FS_Interval
<1>3. IsFiniteSet(Fresh(rows))
  BY <1>1, <1>2, FS_Subset
<1>4. QED
  BY <1>3, FS_CardinalityType

(* Fewer tokens count, at most as many.                                    *)
LEMMA FewerCount ==
    ASSUME NEW rows \in Seq(Rows), NEW S, S \subseteq Fresh(rows)
    PROVE  Cardinality(S) \in Nat /\ Cardinality(S) <= Cardinality(Fresh(rows))
<1>1. IsFiniteSet(Fresh(rows)) /\ Cardinality(Fresh(rows)) \in Nat
  BY FreshIsFinite
<1>2. S \in SUBSET Fresh(rows)
  OBVIOUS
<1>3. IsFiniteSet(S) /\ Cardinality(S) <= Cardinality(Fresh(rows))
  BY <1>1, <1>2, FS_Subset
<1>4. QED
  BY <1>3, FS_CardinalityType

(* A row's chain is a number.                                              *)
LEMMA ChainType ==
    ASSUME NEW x \in Rows PROVE x.chain \in Nat
<1>1. x.chain \in 1 .. MaxTokens
  BY DEF Rows
<1>2. QED
  BY <1>1, Lifetimes

(* Setting revoked_at of one row.                                          *)
LEMMA RevokedRows ==
    ASSUME NEW rows \in Seq(Rows), NEW t \in DOMAIN rows,
           NEW old, old = [rows EXCEPT ![t].revoked = TRUE]
    PROVE  /\ old \in Seq(Rows) /\ Len(old) = Len(rows)
           /\ DOMAIN old = DOMAIN rows
           /\ old[t].revoked /\ old[t].chain = rows[t].chain
           /\ \A u \in DOMAIN rows \ {t} : old[u] = rows[u]
<1> DEFINE x == [rows[t] EXCEPT !.revoked = TRUE]
<1>1. rows[t] \in Rows
  OBVIOUS
<1>2. x \in Rows /\ x.revoked /\ x.chain = rows[t].chain
  BY <1>1 DEF Rows
<1>3. old = [rows EXCEPT ![t] = x]
  OBVIOUS
<1> HIDE DEF x
<1>4. /\ DOMAIN old = DOMAIN rows /\ old[t] = x
      /\ \A u \in DOMAIN rows \ {t} : old[u] = rows[u]
  BY <1>3
<1>5. old \in Seq(Rows) /\ Len(old) = Len(rows)
  <2>1. old \in [1 .. Len(rows) -> Rows]
    <3>1. rows \in [1 .. Len(rows) -> Rows]
      OBVIOUS
    <3>2. QED
      BY <1>2, <1>3, <3>1
  <2>2. QED
    BY <2>1
<1>6. QED
  BY <1>2, <1>4, <1>5

(* What a response does to the requests.                                   *)
LEMMA AnswerFacts ==
    ASSUME TypeOK, NEW r \in Requests, Answer(r)
    PROVE  /\ stage' \in [Requests -> Stages]
           /\ target' \in [Requests -> {0} \cup DOMAIN tokens]
           /\ lock' \in Requests \cup {Nobody}
           /\ stage'[r] = "idle" /\ target'[r] = 0
           /\ \A s \in Requests \ {r} :
                 /\ stage'[s] = stage[s] /\ target'[s] = target[s]
                 /\ lock = s => lock' = s
<1>1. "idle" \in Stages
  BY DEF Stages
<1>2. QED
  BY <1>1 DEF Answer, TypeOK

(* A fresh session, no tokens.                                             *)
LEMMA InitHolds == Init => IInv
<1> SUFFICES ASSUME Init PROVE IInv
  OBVIOUS
<1>1. Sized /\ DOMAIN tokens = {} /\ Len(tokens) = 0
  BY Lifetimes DEF Init, Sized
<1>2. "idle" \in Stages
  BY DEF Stages
<1>3. TypeOK
  <2>1. access \in 0 .. AccessTTL + Tolerance /\ deny \in 0 .. DenyTTL
    BY Lifetimes DEF Init
  <2>2. /\ stage \in [Requests -> Stages]
        /\ target \in [Requests -> {0} \cup DOMAIN tokens]
    BY <1>2 DEF Init
  <2>3. upstream \in BOOLEAN /\ signedOut \in BOOLEAN
    BY DEF Init
  <2>4. QED
    BY <1>1, <2>1, <2>2, <2>3 DEF Init, TypeOK
<1>4. Denied /\ Ended /\ Held /\ Numbered /\ OneSecretPerChain
  BY <1>1 DEF Init, Denied, Ended, Held, Numbered, OneSecretPerChain
<1>5. Fresh(tokens) = {}
  BY <1>1 DEF Fresh
<1>6. Capped
  BY <1>5, FS_EmptySet, Lifetimes DEF Init, Capped
<1>7. QED
  BY <1>1, <1>3, <1>4, <1>6 DEF IInv

-----------------------------------------------------------------------------

(* A step of one request that changes no token.                            *)
LEMMA QuietKeeps ==
    ASSUME IInv, NEW r \in Requests,
           UNCHANGED tokens, TypeOK', Denied', Ended',
           \A s \in Requests \ {r} :
              /\ stage'[s] = stage[s] /\ target'[s] = target[s]
              /\ lock = s => lock' = s,
           stage'[r] = "counted" =>
              lock' = r /\ Cardinality(Fresh(tokens)) < MaxPerUser,
           stage'[r] = "swapping" =>
              target'[r] \in DOMAIN tokens /\ ~tokens[target'[r]].revoked,
           target'[r] \in {0, target[r]} \/ Unlocked(target'[r])
    PROVE  IInv'
<1>1. Sized' /\ Numbered' /\ OneSecretPerChain'
  BY DEF IInv, Sized, Numbered, OneSecretPerChain
<1>2. Held'
  <2>1. ASSUME NEW s \in Requests
        PROVE  /\ stage'[s] = "swapping" => /\ target'[s] \in DOMAIN tokens
                                            /\ ~tokens[target'[s]].revoked
               /\ stage'[s] = "counted" => lock' = s
    BY DEF IInv, Held
  <2>2. ASSUME NEW s \in Requests, NEW q \in Requests,
               target'[s] = target'[q], target'[s] # 0
        PROVE  s = q
    BY <2>2 DEF IInv, Held, Unlocked
  <2>3. QED
    BY <2>1, <2>2 DEF Held
<1>3. Capped'
  <2>1. Fresh(tokens)' = Fresh(tokens)
    BY DEF Fresh
  <2>2. QED
    BY <2>1 DEF IInv, Capped
<1>4. QED
  BY <1>1, <1>2, <1>3 DEF IInv

(* Entering a handler.                                                     *)
LEMMA EnterKeeps ==
    ASSUME IInv, NEW r \in Requests, NEW op \in Operations, Enter(r, op)
    PROVE  IInv'
<1>1. op \in Stages /\ op \notin {"counted", "swapping", "ended"}
  BY DEF Operations, Stages
<1>2. /\ stage' \in [Requests -> Stages] /\ stage'[r] = op
      /\ \A s \in Requests \ {r} : stage'[s] = stage[s]
  BY <1>1 DEF Enter, IInv, TypeOK
<1>3. UNCHANGED <<upstream, access, deny, signedOut, tokens, target, lock>>
  BY DEF Enter, session
<1>4. TypeOK' /\ Denied' /\ Ended'
  BY <1>1, <1>2, <1>3 DEF IInv, TypeOK, Denied, Ended
<1>5. QED
  BY <1>1, <1>2, <1>3, <1>4, QuietKeeps

(* Being broken off or refused.                                            *)
LEMMA AnsweredKeeps ==
    ASSUME IInv, NEW r \in Requests, Answer(r), UNCHANGED <<session, tokens>>
    PROVE  IInv'
<1>1. TypeOK /\ UNCHANGED <<upstream, access, deny, signedOut, tokens>>
  BY DEF IInv, session
<1>2. TypeOK' /\ Denied' /\ Ended'
  BY <1>1, AnswerFacts DEF IInv, TypeOK, Denied, Ended
<1>3. QED
  BY <1>1, <1>2, AnswerFacts, QuietKeeps

(* A create that goes on has found room, and keeps it by its lock.         *)
LEMMA CountKeeps ==
    ASSUME IInv, NEW r \in Requests, Count(r) PROVE IInv'
<1>1. CASE Cardinality(LiveTokens) < MaxPerUser
           /\ stage' = [stage EXCEPT ![r] = "counted"] /\ lock' = r
           /\ UNCHANGED target
  <2>1. UNCHANGED <<upstream, access, deny, signedOut, tokens>>
    BY DEF Count, session
  <2>2. "counted" \in Stages
    BY DEF Stages
  <2>3. /\ stage' \in [Requests -> Stages] /\ stage'[r] = "counted"
        /\ \A s \in Requests \ {r} : stage'[s] = stage[s]
    BY <1>1, <2>2 DEF IInv, TypeOK
  <2>4. TypeOK' /\ Denied' /\ Ended'
    BY <1>1, <2>1, <2>3 DEF IInv, TypeOK, Denied, Ended
  <2>5. lock = Nobody
    BY DEF Count
  <2>6. Cardinality(Fresh(tokens)) < MaxPerUser
    <3>1. tokens \in Seq(Rows)
      BY DEF IInv, Sized
    <3>2. LiveTokens \in SUBSET (1 .. Len(tokens)) /\ Len(tokens) \in Nat
      BY <3>1 DEF LiveTokens
    <3>3. IsFiniteSet(LiveTokens)
      <4>1. IsFiniteSet(1 .. Len(tokens))
        BY <3>2, FS_Interval
      <4>2. QED
        BY <3>2, <4>1, FS_Subset
    <3>4. Fresh(tokens) \in SUBSET LiveTokens
      BY DEF Fresh, LiveTokens, Live
    <3>5. Cardinality(Fresh(tokens)) <= Cardinality(LiveTokens)
      BY <3>3, <3>4, FS_Subset
    <3>6. Cardinality(Fresh(tokens)) \in Nat /\ Cardinality(LiveTokens) \in Nat
      BY <3>1, <3>3, FreshIsFinite, FS_CardinalityType
    <3>7. QED
      BY <1>1, <3>5, <3>6, Lifetimes
  <2>7. QED
    <3>1. \A s \in Requests \ {r} : lock = s => lock' = s
      BY <2>5, NobodyAssumption
    <3>2. /\ target'[r] \in {0, target[r]}
          /\ \A s \in Requests : target'[s] = target[s]
      BY <1>1
    <3>3. lock' = r
      BY <1>1
    <3>4. QED
      BY <2>1, <2>3, <2>4, <2>6, <3>1, <3>2, <3>3, QuietKeeps
<1>2. CASE Answer(r)
  BY <1>2, AnsweredKeeps DEF Count
<1>3. QED
  BY <1>1, <1>2 DEF Count

(* A rotation locks a token that nobody else holds.                        *)
LEMMA RotateUpdateKeeps ==
    ASSUME IInv, NEW r \in Requests, NEW t \in DOMAIN tokens, RotateUpdate(r, t)
    PROVE  IInv'
<1>1. "swapping" \in Stages
  BY DEF Stages
<1>2. /\ stage' \in [Requests -> Stages] /\ stage'[r] = "swapping"
      /\ target' \in [Requests -> {0} \cup DOMAIN tokens] /\ target'[r] = t
      /\ \A s \in Requests \ {r} : stage'[s] = stage[s] /\ target'[s] = target[s]
  BY <1>1 DEF RotateUpdate, IInv, TypeOK
<1>3. UNCHANGED <<upstream, access, deny, signedOut, tokens, lock>>
  BY DEF RotateUpdate, session
<1>4. TypeOK' /\ Denied' /\ Ended'
  BY <1>2, <1>3 DEF IInv, TypeOK, Denied, Ended
<1>5. ~tokens[t].revoked /\ Unlocked(t)
  BY DEF RotateUpdate
<1>6. QED
  BY <1>2, <1>3, <1>4, <1>5, QuietKeeps

-----------------------------------------------------------------------------

(* The last step of a request that changes the tokens.                     *)
LEMMA CommitKeeps ==
    ASSUME IInv, NEW r \in Requests, Answer(r), UNCHANGED session,
           tokens' \in Seq(Rows),
           Len(tokens) <= Len(tokens'), Len(tokens') <= MaxTokens,
           \A s \in Requests \ {r} :
              stage[s] = "swapping" => ~tokens'[target[s]].revoked,
           Numbered', OneSecretPerChain',
           Cardinality(Fresh(tokens')) <= MaxPerUser,
           \/ lock \in {Nobody, r}
           \/ Cardinality(Fresh(tokens')) <= Cardinality(Fresh(tokens))
    PROVE  IInv'
<1>1. TypeOK /\ UNCHANGED <<upstream, access, deny, signedOut>>
  BY DEF IInv, session
<1>2. Len(tokens) \in Nat /\ Len(tokens') \in Nat
      /\ DOMAIN tokens = 1 .. Len(tokens) /\ DOMAIN tokens' = 1 .. Len(tokens')
  BY DEF IInv, Sized
<1>3. DOMAIN tokens \subseteq DOMAIN tokens'
  BY <1>2
<1>4. TypeOK'
  <2>1. DOMAIN tokens' \subseteq 1 .. MaxTokens
    BY <1>2, Lifetimes
  <2>2. \A t \in DOMAIN tokens' : tokens'[t] \in Rows
    OBVIOUS
  <2>3. target' \in [Requests -> {0} \cup DOMAIN tokens']
    BY <1>1, <1>3, AnswerFacts
  <2>4. QED
    BY <1>1, <2>1, <2>2, <2>3, AnswerFacts DEF TypeOK
<1>5. Denied' /\ Ended'
  BY <1>1, AnswerFacts DEF IInv, Denied, Ended
<1>6. Held'
  <2>1. ASSUME NEW s \in Requests, stage'[s] = "swapping"
        PROVE  target'[s] \in DOMAIN tokens' /\ ~tokens'[target'[s]].revoked
    BY <1>1, <1>3, <2>1, AnswerFacts DEF IInv, Held
  <2>2. ASSUME NEW s \in Requests, stage'[s] = "counted" PROVE lock' = s
    BY <1>1, <2>2, AnswerFacts DEF IInv, Held
  <2>3. ASSUME NEW s \in Requests, NEW q \in Requests,
               target'[s] = target'[q], target'[s] # 0
        PROVE  s = q
    BY <1>1, <2>3, AnswerFacts DEF IInv, Held
  <2>4. QED
    BY <2>1, <2>2, <2>3 DEF Held
<1>7. Capped'
  <2>1. Cardinality(Fresh(tokens)) \in Nat /\ Cardinality(Fresh(tokens')) \in Nat
    BY FreshIsFinite DEF IInv, Sized
  <2>2. ASSUME NEW s \in Requests, stage'[s] = "counted"
        PROVE  Cardinality(Fresh(tokens')) < MaxPerUser
    <3>1. s # r /\ stage[s] = "counted"
      BY <1>1, <2>2, AnswerFacts
    <3>2. lock = s /\ Cardinality(Fresh(tokens)) < MaxPerUser
      BY <3>1 DEF IInv, Held, Capped
    <3>3. QED
      BY <2>1, <3>1, <3>2, NobodyAssumption, Lifetimes
  <2>3. QED
    BY <2>2 DEF Capped
<1>8. QED
  BY <1>4, <1>5, <1>6, <1>7 DEF IInv, Sized

(* A create inserts the first token of a new chain.                        *)
LEMMA InsertKeeps ==
    ASSUME IInv, NEW r \in Requests, NEW name \in AskedNames,
           NEW ttl \in TokenTTLs, Insert(r, name, ttl)
    PROVE  IInv'
<1>1. CASE Taken(name)
  BY <1>1, AnsweredKeeps DEF Insert
<1>2. CASE ~Taken(name)
  <2> DEFINE n == Len(tokens) + 1
             added == [name |-> name, left |-> ttl, revoked |-> FALSE, from |-> 0,
                     chain |-> n, revived |-> FALSE]
  <2>1. /\ tokens \in Seq(Rows) /\ Len(tokens) < MaxTokens
        /\ tokens' = Append(tokens, added)
    BY <1>2 DEF IInv, Sized, Insert
  <2>2. added \in Rows
    <3>1. n \in 1 .. MaxTokens /\ 0 \in 0 .. MaxTokens
      BY <2>1, Lifetimes
    <3>2. name \in Names /\ ttl \in Nat
      BY Lifetimes DEF AskedNames, Names
    <3>3. QED
      BY <3>1, <3>2 DEF Rows
  <2>3. added.chain = n /\ added.left = ttl /\ ~added.revoked /\ ~added.revived
    OBVIOUS
  <2> HIDE DEF added
  <2>4. /\ tokens' \in Seq(Rows) /\ Len(tokens') = n /\ n \in Nat
        /\ DOMAIN tokens' = DOMAIN tokens \cup {n}
        /\ n \notin DOMAIN tokens
        /\ tokens'[n] = added
        /\ \A t \in DOMAIN tokens : tokens'[t] = tokens[t] /\ tokens[t] \in Rows
    BY <2>1, <2>2
  <2>5. \A t \in DOMAIN tokens : tokens[t].chain \in Nat /\ tokens[t].chain < n
    <3>1. \A t \in DOMAIN tokens : tokens[t].chain \in Nat
      BY <2>4, ChainType
    <3>2. QED
      BY <2>1, <3>1 DEF IInv, Numbered
  <2>6. Numbered'
    BY <2>3, <2>4, <2>5 DEF Numbered
  <2>7. OneSecretPerChain'
    BY <2>3, <2>4, <2>5 DEF IInv, OneSecretPerChain
  <2>8. Cardinality(Fresh(tokens')) <= MaxPerUser
    <3>1. Fresh(tokens') = Fresh(tokens) \cup {n}
      BY <2>3, <2>4, Lifetimes DEF Fresh
    <3>2. n \notin Fresh(tokens)
      BY <2>4 DEF Fresh
    <3>3. IsFiniteSet(Fresh(tokens)) /\ Cardinality(Fresh(tokens)) \in Nat
      BY <2>1, FreshIsFinite
    <3>4. Cardinality(Fresh(tokens')) = Cardinality(Fresh(tokens)) + 1
      BY <3>1, <3>2, <3>3, FS_AddElement
    <3>5. Cardinality(Fresh(tokens)) < MaxPerUser
      BY DEF IInv, Capped, Insert
    <3>6. QED
      BY <3>3, <3>4, <3>5, Lifetimes
  <2>9. \A s \in Requests \ {r} :
           stage[s] = "swapping" => ~tokens'[target[s]].revoked
    BY <2>4 DEF IInv, Held
  <2>10. lock = r /\ Answer(r) /\ UNCHANGED session
    BY DEF IInv, Held, Insert
  <2>11. Len(tokens) <= Len(tokens') /\ Len(tokens') <= MaxTokens
    BY <2>1, <2>4, Lifetimes
  <2>12. QED
    BY <2>4, <2>6, <2>7, <2>8, <2>9, <2>10, <2>11, CommitKeeps
<1>3. QED
  BY <1>1, <1>2

(* One token of a chain is replaced by another.                            *)
LEMMA RotateInsertKeeps ==
    ASSUME IInv, NEW r \in Requests, RotateInsert(r)
    PROVE  IInv'
<1> DEFINE t == target[r]
<1>1. CASE Taken(Successor(t).name)
  BY <1>1, AnsweredKeeps DEF RotateInsert
<1>2. CASE ~Taken(Successor(t).name)
  <2> DEFINE n == Len(tokens) + 1
             added == Successor(t)
             old == [tokens EXCEPT ![t].revoked = TRUE]
  <2>1. /\ tokens \in Seq(Rows) /\ Len(tokens) < MaxTokens
        /\ tokens' = Append(old, added)
        /\ stage[r] = "swapping" /\ lock = Nobody /\ Answer(r) /\ UNCHANGED session
    BY <1>2 DEF IInv, Sized, RotateInsert
  <2>2. t \in DOMAIN tokens /\ ~tokens[t].revoked /\ tokens[t] \in Rows
    BY <2>1 DEF IInv, Held
  <2>3. added \in Rows
    <3>1. nextRotationName(tokens[t].name) \in Names
      BY <2>2 DEF nextRotationName, Names, Rows
    <3>2. DefaultTTL \in Nat
      BY Lifetimes
    <3>3. t \in 1 .. Len(tokens) /\ Len(tokens) \in Nat /\ MaxTokens \in Nat
      BY <2>1, <2>2, Lifetimes
    <3>4. t \in 0 .. MaxTokens
      BY <2>1, <3>3
    <3>5. (tokens[t].revived \/ tokens[t].left = 0) \in BOOLEAN
      OBVIOUS
    <3>6. tokens[t].chain \in 1 .. MaxTokens
      BY <2>2 DEF Rows
    <3>7. QED
      BY <3>1, <3>2, <3>4, <3>5, <3>6 DEF Successor, Rows
  <2>4. /\ added.chain = tokens[t].chain /\ added.left = DefaultTTL /\ ~added.revoked
        /\ added.revived <=> (tokens[t].revived \/ tokens[t].left = 0)
    BY DEF Successor
  <2>5. /\ old \in Seq(Rows) /\ Len(old) = Len(tokens)
        /\ DOMAIN old = DOMAIN tokens
        /\ old[t].revoked /\ old[t].chain = tokens[t].chain
        /\ \A u \in DOMAIN tokens \ {t} : old[u] = tokens[u]
    BY <2>1, <2>2, RevokedRows
  <2> HIDE DEF added, old
  <2>6. /\ tokens' \in Seq(Rows) /\ Len(tokens') = n /\ n \in Nat
        /\ DOMAIN tokens' = DOMAIN tokens \cup {n}
        /\ n \notin DOMAIN tokens
        /\ tokens'[n] = added
        /\ \A u \in DOMAIN tokens : tokens'[u] = old[u]
    BY <2>1, <2>3, <2>5
  <2>7. \A u \in DOMAIN tokens' \ {n} : tokens'[u].chain = tokens[u].chain
    BY <2>5, <2>6
  <2>8. Numbered'
    <3>1. \A u \in DOMAIN tokens : tokens[u].chain \in Nat
      BY <2>1, ChainType
    <3>2. \A u \in DOMAIN tokens : tokens[u].chain <= n
      BY <2>1, <3>1 DEF IInv, Numbered
    <3>3. QED
      BY <2>2, <2>4, <2>6, <2>7, <3>2 DEF Numbered
  <2>9. OneSecretPerChain'
    <3>1. ASSUME NEW u \in DOMAIN tokens, tokens[u].chain = tokens[t].chain
          PROVE  tokens'[u].revoked
      <4>1. CASE u = t
        BY <2>5, <2>6, <4>1
      <4>2. CASE u # t
        <5>1. tokens[u] \in Rows
          BY <2>1
        <5>2. tokens[u].revoked
          BY <2>2, <3>1, <4>2 DEF IInv, OneSecretPerChain
        <5>3. QED
          BY <2>5, <2>6, <4>2, <5>2
      <4>3. QED
        BY <4>1, <4>2
    <3>2. ASSUME NEW u \in DOMAIN tokens, ~tokens'[u].revoked
          PROVE  ~tokens[u].revoked
      BY <2>5, <2>6, <3>2
    <3>3. QED
      BY <2>4, <2>6, <2>7, <3>1, <3>2 DEF IInv, OneSecretPerChain
  <2>10. Cardinality(Fresh(tokens')) <= MaxPerUser
    <3>1. /\ IsFiniteSet(Fresh(tokens)) /\ Cardinality(Fresh(tokens)) \in Nat
          /\ Cardinality(Fresh(tokens)) <= MaxPerUser
      BY <2>1, FreshIsFinite DEF IInv, Capped
    <3>2. CASE t \in Fresh(tokens)
      <4>1. Fresh(tokens') = (Fresh(tokens) \ {t}) \cup {n}
        <5>1. ~added.revived /\ added.left > 0
          BY <2>2, <2>4, <3>2, Lifetimes DEF Fresh, Rows
        <5>2. QED
          BY <2>4, <2>5, <2>6, <5>1 DEF Fresh
      <4>2. n \notin Fresh(tokens) \ {t}
        BY <2>6 DEF Fresh
      <4>3. /\ IsFiniteSet(Fresh(tokens) \ {t})
            /\ Cardinality(Fresh(tokens) \ {t}) = Cardinality(Fresh(tokens)) - 1
        BY <3>1, <3>2, FS_RemoveElement
      <4>4. Cardinality(Fresh(tokens')) = Cardinality(Fresh(tokens) \ {t}) + 1
        BY <4>1, <4>2, <4>3, FS_AddElement
      <4>5. QED
        BY <3>1, <4>3, <4>4
    <3>3. CASE t \notin Fresh(tokens)
      <4>1. added.revived
        BY <2>2, <2>4, <3>3 DEF Fresh, Rows
      <4>2. Fresh(tokens') \subseteq Fresh(tokens)
        BY <2>5, <2>6, <4>1 DEF Fresh
      <4>3. QED
        BY <2>1, <3>1, <4>2, FewerCount, Lifetimes
    <3>4. QED
      BY <3>2, <3>3
  <2>11. \A s \in Requests \ {r} :
            stage[s] = "swapping" => ~tokens'[target[s]].revoked
    <3> SUFFICES ASSUME NEW s \in Requests \ {r}, stage[s] = "swapping"
                 PROVE  ~tokens'[target[s]].revoked
      OBVIOUS
    <3>1. target[s] \in DOMAIN tokens /\ ~tokens[target[s]].revoked
      BY DEF IInv, Held
    <3>2. target[s] # t
      BY <2>1, <2>2, <3>1 DEF IInv, Held
    <3>3. QED
      BY <2>5, <2>6, <3>1, <3>2
  <2>12. Len(tokens) <= Len(tokens') /\ Len(tokens') <= MaxTokens
    BY <2>1, <2>6, Lifetimes
  <2>13. QED
    BY <2>1, <2>6, <2>8, <2>9, <2>10, <2>11, <2>12, CommitKeeps
<1>3. QED
  BY <1>1, <1>2

(* A token nobody is rotating is revoked.                                  *)
LEMMA RevokeKeeps ==
    ASSUME IInv, NEW r \in Requests, NEW t \in DOMAIN tokens, Revoke(r, t)
    PROVE  IInv'
<1>1. /\ tokens \in Seq(Rows) /\ Len(tokens) <= MaxTokens
      /\ tokens' = [tokens EXCEPT ![t].revoked = TRUE]
      /\ Unlocked(t) /\ Answer(r) /\ UNCHANGED session
  BY DEF IInv, Sized, Revoke
<1>2. /\ tokens' \in Seq(Rows) /\ Len(tokens') = Len(tokens)
      /\ DOMAIN tokens' = DOMAIN tokens
      /\ tokens'[t].revoked /\ tokens'[t].chain = tokens[t].chain
      /\ \A u \in DOMAIN tokens \ {t} : tokens'[u] = tokens[u]
  <2> DEFINE old == [tokens EXCEPT ![t].revoked = TRUE]
  <2>1. /\ old \in Seq(Rows) /\ Len(old) = Len(tokens)
        /\ DOMAIN old = DOMAIN tokens
        /\ old[t].revoked /\ old[t].chain = tokens[t].chain
        /\ \A u \in DOMAIN tokens \ {t} : old[u] = tokens[u]
    BY <1>1, RevokedRows
  <2>2. tokens' = old
    BY <1>1
  <2> HIDE DEF old
  <2>3. QED
    BY <2>1, <2>2
<1>3. Numbered' /\ OneSecretPerChain'
  BY <1>2 DEF IInv, Numbered, OneSecretPerChain
<1>4. Fresh(tokens') \subseteq Fresh(tokens)
  BY <1>2 DEF Fresh
<1>5. /\ Cardinality(Fresh(tokens')) <= Cardinality(Fresh(tokens))
      /\ Cardinality(Fresh(tokens')) \in Nat /\ Cardinality(Fresh(tokens)) \in Nat
  BY <1>1, <1>4, FewerCount, FreshIsFinite
<1>6. Cardinality(Fresh(tokens')) <= MaxPerUser
  BY <1>5, Lifetimes DEF IInv, Capped
<1>7. \A s \in Requests \ {r} :
         stage[s] = "swapping" => ~tokens'[target[s]].revoked
  BY <1>1, <1>2 DEF IInv, Held, Unlocked
<1>8. Len(tokens) <= Len(tokens') /\ Len(tokens') <= MaxTokens
  BY <1>1, <1>2, Lifetimes
<1>9. QED
  BY <1>1, <1>2, <1>3, <1>5, <1>6, <1>7, <1>8, CommitKeeps

-----------------------------------------------------------------------------

(* Refreshing, signing out and signing in.  WorkOS mints nothing after it  *)
(* ended the session, and what it minted before is gone when the entry is. *)
LEMMA SessionKeeps ==
    ASSUME IInv,
           \/ Refresh \/ SignIn
           \/ \E r \in Requests :
                 EndUpstream(r) \/ EndUpstreamFails(r) \/ DenyLocally(r)
    PROVE  IInv'
<1>0. TypeOK /\ Denied /\ Ended
  BY DEF IInv
<1>1. ASSUME Refresh \/ SignIn PROVE IInv'
  <2>1. UNCHANGED <<tokens, stage, target, lock>>
    BY <1>1 DEF Refresh, SignIn
  <2>2. TypeOK'
    <3>1. access' \in 0 .. AccessTTL + Tolerance /\ deny' \in 0 .. DenyTTL
      BY <1>0, <1>1, Lifetimes DEF Refresh, SignIn, TypeOK
    <3>2. upstream' \in BOOLEAN /\ signedOut' \in BOOLEAN
      BY <1>0, <1>1 DEF Refresh, SignIn, TypeOK
    <3>3. QED
      BY <1>0, <2>1, <3>1, <3>2 DEF TypeOK
  <2>3. Denied' /\ Ended'
    BY <1>0, <1>1 DEF Refresh, SignIn, Denied, Ended
  <2>4. Fresh(tokens)' = Fresh(tokens)
    BY <2>1 DEF Fresh
  <2>5. QED
    BY <2>1, <2>2, <2>3, <2>4 DEF IInv, Sized, Held, Numbered,
       OneSecretPerChain, Capped
<1>2. ASSUME NEW r \in Requests, EndUpstream(r) \/ EndUpstreamFails(r)
      PROVE  IInv'
  <2>1. {"ended", "notEnded"} \subseteq Stages
    BY DEF Stages
  <2>2. /\ stage' \in [Requests -> Stages]
        /\ stage'[r] \in {"ended", "notEnded"}
        /\ \A s \in Requests \ {r} : stage'[s] = stage[s]
        /\ stage'[r] = "ended" => EndUpstream(r)
    BY <1>0, <1>2, <2>1 DEF EndUpstream, EndUpstreamFails, TypeOK
  <2>3. /\ stage'[r] = "ended" => ~upstream'
        /\ upstream' \in BOOLEAN /\ (~upstream => ~upstream')
    <3>1. upstream \in BOOLEAN /\ (upstream' = upstream \/ upstream' = FALSE)
      BY <1>0, <1>2 DEF EndUpstream, EndUpstreamFails, TypeOK
    <3>2. EndUpstream(r) => ~upstream'
      BY DEF EndUpstream
    <3>3. upstream' \in BOOLEAN /\ (~upstream => ~upstream')
      <4>1. CASE upstream' = upstream
        BY <3>1, <4>1
      <4>2. CASE upstream' = FALSE
        BY <4>2
      <4>3. QED
        BY <3>1, <4>1, <4>2, Zenon
    <3>4. QED
      BY <2>2, <3>2, <3>3
  <2>4. UNCHANGED <<access, deny, signedOut, tokens, target, lock>>
    BY <1>2 DEF EndUpstream, EndUpstreamFails
  <2>5. TypeOK' /\ Denied' /\ Ended'
    BY <1>0, <2>2, <2>3, <2>4 DEF TypeOK, Denied, Ended
  <2>6. QED
    BY <2>2, <2>4, <2>5, QuietKeeps
<1>3. ASSUME NEW r \in Requests, DenyLocally(r) PROVE IInv'
  <2>1. Answer(r) /\ UNCHANGED <<upstream, access, tokens>> /\ deny' = DenyTTL
    BY <1>3 DEF DenyLocally
  <2>2. signedOut' \in BOOLEAN /\ (signedOut' => ~upstream)
    BY <1>0, <1>3 DEF DenyLocally, TypeOK, Denied, Ended
  <2>3. access <= DenyTTL
    BY <1>0, Lifetimes, SafeUpperBound DEF TypeOK
  <2>4. DenyTTL \in 0 .. DenyTTL
    BY Lifetimes
  <2>5. TypeOK' /\ Denied' /\ Ended'
    BY <1>0, <2>1, <2>2, <2>3, <2>4, AnswerFacts DEF TypeOK, Denied, Ended
  <2>6. QED
    BY <1>0, <2>1, <2>5, AnswerFacts, QuietKeeps
<1>4. QED
  BY <1>1, <1>2, <1>3

(* Time takes from every lifetime alike.                                   *)
LEMMA TickKeeps ==
    ASSUME IInv, Tick PROVE IInv'
<1>1. /\ TypeOK /\ tokens \in Seq(Rows) /\ Len(tokens) <= MaxTokens
      /\ UNCHANGED <<upstream, signedOut, stage, target, lock>>
  BY DEF IInv, Sized, Tick
<1>2. \A k \in Nat : Less(k) \in Nat /\ Less(k) <= k
  BY DEF Less
<1>3. ASSUME NEW x \in Rows
      PROVE  /\ [x EXCEPT !.left = Less(@)] \in Rows
             /\ [x EXCEPT !.left = Less(@)].revoked = x.revoked
             /\ [x EXCEPT !.left = Less(@)].chain = x.chain
             /\ [x EXCEPT !.left = Less(@)].revived = x.revived
             /\ [x EXCEPT !.left = Less(@)].left > 0 => x.left > 0
  <2>1. x.left \in Nat
    BY DEF Rows
  <2>2. Less(x.left) \in Nat /\ (Less(x.left) > 0 => x.left > 0)
    BY <1>2, <2>1 DEF Less
  <2>3. QED
    BY <2>2 DEF Rows
<1>4. DOMAIN tokens = 1 .. Len(tokens) /\ Len(tokens) \in Nat
      /\ \A t \in DOMAIN tokens : tokens[t] \in Rows
  BY <1>1
<1>5. /\ DOMAIN tokens' = DOMAIN tokens
      /\ \A t \in DOMAIN tokens : tokens'[t] = [tokens[t] EXCEPT !.left = Less(@)]
  BY DEF Tick
<1>6. /\ \A t \in DOMAIN tokens : tokens'[t] \in Rows
      /\ \A t \in DOMAIN tokens : /\ tokens'[t].revoked = tokens[t].revoked
                                  /\ tokens'[t].chain = tokens[t].chain
                                  /\ tokens'[t].revived = tokens[t].revived
                                  /\ tokens'[t].left > 0 => tokens[t].left > 0
  BY <1>3, <1>4, <1>5
<1>7. tokens' \in Seq(Rows) /\ Len(tokens') = Len(tokens)
  <2>1. tokens' = [t \in 1 .. Len(tokens) |-> [tokens[t] EXCEPT !.left = Less(@)]]
    BY <1>4 DEF Tick
  <2>2. tokens' \in [1 .. Len(tokens) -> Rows]
    BY <1>3, <1>4, <2>1
  <2>3. QED
    BY <1>4, <2>2
<1>8. TypeOK' /\ Denied'
  <2>1. access' \in 0 .. AccessTTL + Tolerance /\ deny' \in 0 .. DenyTTL
    BY <1>1, Lifetimes DEF Tick, Less, TypeOK
  <2>2. access <= deny => access' <= deny'
    BY <1>1, Lifetimes DEF Tick, Less, TypeOK
  <2>3. QED
    BY <1>1, <1>5, <1>6, <2>1, <2>2 DEF IInv, TypeOK, Denied
<1>9. Ended' /\ Held' /\ Numbered' /\ OneSecretPerChain'
  BY <1>1, <1>4, <1>5, <1>6, <1>7 DEF IInv, Ended, Held, Numbered, TypeOK,
     OneSecretPerChain
<1>10. Capped'
  <2>1. Fresh(tokens') \subseteq Fresh(tokens)
    BY <1>5, <1>6 DEF Fresh
  <2>2. /\ Cardinality(Fresh(tokens')) <= Cardinality(Fresh(tokens))
        /\ Cardinality(Fresh(tokens')) \in Nat /\ Cardinality(Fresh(tokens)) \in Nat
    BY <1>1, <2>1, FewerCount, FreshIsFinite
  <2>3. QED
    BY <1>1, <2>2, Lifetimes DEF IInv, Capped
<1>11. QED
  BY <1>1, <1>7, <1>8, <1>9, <1>10 DEF IInv, Sized

(* The invariant is inductive.                                             *)
LEMMA StepKeeps == IInv /\ [Next]_vars => IInv'
<1> SUFFICES ASSUME IInv, [Next]_vars PROVE IInv'
  OBVIOUS
<1>1. CASE UNCHANGED vars
  <2>1. Fresh(tokens)' = Fresh(tokens)
    BY <1>1 DEF vars, Fresh
  <2>2. QED
    BY <1>1, <2>1 DEF vars, IInv, TypeOK, Sized, Denied, Ended, Held, Numbered,
       OneSecretPerChain, Capped
<1>2. ASSUME NEW r \in Requests, Abort(r) PROVE IInv'
  BY <1>2, AnsweredKeeps DEF Abort
<1>3. ASSUME NEW r \in Requests, NEW t \in DOMAIN tokens, NotFound(r, t)
      PROVE  IInv'
  BY <1>3, AnsweredKeeps DEF NotFound
<1>4. CASE Next
  BY <1>2, <1>3, <1>4, EnterKeeps, CountKeeps, InsertKeeps, RotateUpdateKeeps,
     RotateInsertKeeps, RevokeKeeps, SessionKeeps, TickKeeps DEF Next
<1>5. QED
  BY <1>1, <1>4

(* The invariant holds throughout.                                         *)
LEMMA Invariance == Spec => []IInv
  BY InitHolds, StepKeeps, PTL DEF Spec

-----------------------------------------------------------------------------

(* Lifetimes, rows and locks stay what they are.                           *)
THEOREM TypeCorrect == Spec => []TypeOK
<1>1. IInv => TypeOK
  BY DEF IInv
<1>2. QED
  BY <1>1, Invariance, PTL

(* After a logout that answered upstreamRevoked: true, fromSession accepts *)
(* no access token of the session, whatever refreshes ran beside it.       *)
THEOREM SignOutIsFinal == Spec => []SignedOutStaysOut
<1>1. IInv => SignedOutStaysOut
  BY Lifetimes DEF IInv, Denied, TypeOK, SignedOutStaysOut, SessionAccepted
<1>2. QED
  BY <1>1, Invariance, PTL

(* rotate leaves at most one working secret of a token, for any number of  *)
(* rotations and revocations at the same time.                             *)
THEOREM OneSecret == Spec => []OneSecretPerChain
<1>1. IInv => OneSecretPerChain
  BY DEF IInv
<1>2. QED
  BY <1>1, Invariance, PTL

(* create's cap holds for every number of concurrent creates, rotations    *)
(* and revocations; only tokens revived after expiry are beyond it.        *)
THEOREM CapIsKept == Spec => []CapHolds
<1>1. ASSUME IInv PROVE CapHolds
  <2>1. {t \in LiveTokens : ~tokens[t].revived} = Fresh(tokens)
    BY DEF LiveTokens, Live, Fresh
  <2>2. QED
    BY <1>1, <2>1 DEF IInv, Capped, CapHolds
<1>2. QED
  BY <1>1, Invariance, PTL

-----------------------------------------------------------------------------
(* Exports.  A document was built, or is being built, for a claimed ticket  *)
(* only (Claimed); as long as the link lives the key outlasts it by the     *)
(* slack, and a claim on its way arrives while the key is there (InTime).   *)
UnderWay == [at : {"claim", "build"}, ticket : Nat, user : Subjects, left : Nat]
Link == [user : Subjects, left : Int]
Document == [ticket : Nat, user : Subjects]

ExportTypes ==
    /\ tickets \in Seq(Link)
    /\ \A t \in DOMAIN tickets : tickets[t].left <= LinkTTL
    /\ claims \in Seq(Int) /\ DOMAIN claims = DOMAIN tickets
    /\ \A t \in DOMAIN claims : claims[t] >= -1
    /\ down \in [Downloads -> UnderWay \cup {NoDownload}]
    /\ built \in Seq(Document)

UsedBy(d, t) == down[d].at = "build" /\ down[d].ticket = t
Used(t) == (\E d \in Downloads : UsedBy(d, t)) \/ \E i \in DOMAIN built : built[i].ticket = t

Owned ==
    /\ \A d \in Downloads : down[d].at # "idle" =>
         /\ down[d].ticket \in DOMAIN tickets
         /\ down[d].user = tickets[down[d].ticket].user
    /\ \A i \in DOMAIN built :
         built[i].ticket \in DOMAIN tickets /\ built[i].user = tickets[built[i].ticket].user

Claimed ==
    /\ \A d, e \in Downloads, t \in DOMAIN tickets : UsedBy(d, t) /\ UsedBy(e, t) => d = e
    /\ \A d \in Downloads, i \in DOMAIN built : ~UsedBy(d, built[i].ticket)
    /\ \A i, j \in DOMAIN built : i # j => built[i].ticket # built[j].ticket

InTime ==
    /\ \A t \in DOMAIN tickets : Used(t) /\ tickets[t].left >= 0
                                    => claims[t] >= tickets[t].left + Slack
    /\ \A d \in Downloads : down[d].at = "claim" =>
         /\ down[d].left <= RedisTimeout
         /\ Used(down[d].ticket) => claims[down[d].ticket] >= down[d].left

ExportInv == ExportTypes /\ Owned /\ Claimed /\ InTime

LEMMA DownIs ==
    ASSUME ExportTypes, NEW d \in Downloads
    PROVE  /\ NoDownload.at = "idle"
           /\ down[d].at \in {"idle", "claim", "build"}
           /\ down[d].at = "idle" <=> down[d] = NoDownload
           /\ down[d].at # "idle" => down[d] \in UnderWay
  BY DEF ExportTypes, UnderWay, NoDownload

LEMMA LinkIs ==
    ASSUME ExportTypes, NEW t \in DOMAIN tickets
    PROVE  /\ tickets[t].left \in Int /\ tickets[t].left <= LinkTTL
           /\ t \in DOMAIN claims /\ claims[t] \in Int /\ claims[t] >= -1
<1>1. tickets[t] \in Link
  BY DEF ExportTypes
<1>2. tickets[t].left \in Int
  BY <1>1 DEF Link
<1>3. t \in DOMAIN claims /\ claims[t] \in Int
  BY DEF ExportTypes
<1>4. QED
  BY <1>2, <1>3 DEF ExportTypes

(* InTime of a next state, without a download's ticket inside an operator. *)
LEMMA InTimeNext ==
    ASSUME \A x \in DOMAIN tickets' : Used(x)' /\ tickets'[x].left >= 0
                                      => claims'[x] >= tickets'[x].left + Slack,
           ASSUME NEW e \in Downloads, down'[e].at = "claim", NEW x, x = down'[e].ticket
           PROVE  down'[e].left <= RedisTimeout /\ (Used(x)' => claims'[x] >= down'[e].left)
    PROVE  InTime'
<1>1. ASSUME NEW e \in Downloads, (down[e].at = "claim")'
      PROVE  (/\ down[e].left <= RedisTimeout
              /\ Used(down[e].ticket) => claims[down[e].ticket] >= down[e].left)'
  <2>1. PICK x : x = down'[e].ticket
    OBVIOUS
  <2>2. Used(down[e].ticket)' <=> Used(x)'
    BY <2>1 DEF Used, UsedBy
  <2>3. down'[e].left <= RedisTimeout /\ (Used(x)' => claims'[x] >= down'[e].left)
    BY <1>1, <2>1
  <2>4. QED
    BY <2>1, <2>2, <2>3
<1>2. QED
  BY <1>1 DEF InTime

LEMMA ExportInitHolds == ExportInit => ExportInv
<1> SUFFICES ASSUME ExportInit PROVE ExportInv
  OBVIOUS
<1>1. /\ tickets = <<>> /\ claims = <<>> /\ built = <<>>
      /\ \A d \in Downloads : down[d] = NoDownload
      /\ down \in [Downloads -> UnderWay \cup {NoDownload}]
  BY DEF ExportInit
<1>2. \A S : <<>> \in Seq(S) /\ DOMAIN <<>> = {}
  OBVIOUS
<1>3. ExportTypes
  BY <1>1, <1>2 DEF ExportTypes
<1>4. \A d \in Downloads : down[d].at = "idle"
  BY <1>1 DEF NoDownload
<1>5. QED
  BY <1>1, <1>2, <1>3, <1>4 DEF ExportInv, Owned, Claimed, InTime, UsedBy, Used

(* A new link has no claim, and nobody has come by it.                     *)
LEMMA RequestExportKeeps ==
    ASSUME ExportInv, NEW u \in Subjects, RequestExport(u)
    PROVE  ExportInv'
<1> DEFINE L == Len(tickets)
<1>1. /\ tickets' = Append(tickets, Ticket(u)) /\ claims' = Append(claims, -1)
      /\ down' = down /\ built' = built
  BY DEF RequestExport
<1>2. /\ L \in Nat /\ DOMAIN tickets = 1..L /\ DOMAIN claims = 1..L /\ Len(claims) = L
  BY DEF ExportInv, ExportTypes
<1>3. Ticket(u) \in Link /\ Ticket(u).left = LinkTTL
  BY ExportLimits DEF Ticket, Link
<1>4. /\ tickets' \in Seq(Link) /\ claims' \in Seq(Int)
      /\ DOMAIN tickets' = 1..(L + 1) /\ DOMAIN claims' = 1..(L + 1)
      /\ \A t \in 1..L : tickets'[t] = tickets[t] /\ claims'[t] = claims[t]
      /\ tickets'[L + 1] = Ticket(u) /\ claims'[L + 1] = -1
  BY <1>1, <1>2, <1>3 DEF ExportInv, ExportTypes
<1> HIDE DEF L
<1>5. ExportTypes'
  BY <1>1, <1>2, <1>3, <1>4, ExportLimits DEF ExportInv, ExportTypes
<1>6. \A t : Used(t)' <=> Used(t)
  BY <1>1 DEF Used, UsedBy
<1>7. ~Used(L + 1)
  BY <1>2, DownIs DEF ExportInv, Owned, Used, UsedBy
<1>8. Owned'
  BY <1>1, <1>2, <1>4 DEF ExportInv, Owned
<1>9. Claimed'
  <2>1. ASSUME NEW d \in Downloads, NEW e \in Downloads, NEW t, UsedBy(d, t), UsedBy(e, t)
        PROVE  d = e
    BY <2>1, DownIs DEF ExportInv, Owned, Claimed, UsedBy
  <2>2. QED
    BY <1>1, <2>1 DEF ExportInv, Claimed, UsedBy
<1>10. InTime'
  <2>1. ASSUME NEW t \in 1..(L + 1), Used(t), tickets'[t].left >= 0
        PROVE  claims'[t] >= tickets'[t].left + Slack
    <3>1. t \in 1..L
      BY <1>2, <1>7, <2>1
    <3>2. QED
      BY <1>2, <1>4, <2>1, <3>1 DEF ExportInv, InTime
  <2>2. ASSUME NEW d \in Downloads, down[d].at = "claim"
        PROVE  /\ down[d].left <= RedisTimeout
               /\ Used(down[d].ticket) => claims'[down[d].ticket] >= down[d].left
    <3>1. down[d].ticket \in 1..L
      BY <1>2, <2>2 DEF ExportInv, Owned
    <3>2. QED
      BY <1>4, <2>2, <3>1 DEF ExportInv, InTime
  <2>3. QED
    BY <1>1, <1>4, <1>6, <2>1, <2>2 DEF InTime
<1>11. QED
  BY <1>5, <1>8, <1>9, <1>10 DEF ExportInv

(* A download that begins while its link lives arrives before the key of   *)
(* an earlier one is gone.                                                 *)
LEMMA DownloadKeeps ==
    ASSUME ExportInv, NEW d \in Downloads, NEW t \in DOMAIN tickets, NEW u \in Subjects,
           Download(d, t, u)
    PROVE  ExportInv'
<1> DEFINE new == [at |-> "claim", ticket |-> t, user |-> u, left |-> RedisTimeout]
<1>1. /\ down' = [down EXCEPT ![d] = new] /\ down[d] = NoDownload
      /\ UNCHANGED <<tickets, claims, built>>
      /\ tickets[t].left >= 0 /\ tickets[t].user = u
  BY DEF Download, Accepts
<1>2. /\ new \in UnderWay /\ new.at = "claim" /\ new.ticket = t /\ new.user = u
      /\ new.left = RedisTimeout
  BY ExportLimits DEF UnderWay, ExportInv, ExportTypes
<1> HIDE DEF new
<1>3. /\ down'[d] = new /\ \A e \in Downloads \ {d} : down'[e] = down[e]
      /\ down' \in [Downloads -> UnderWay \cup {NoDownload}]
  BY <1>1, <1>2 DEF ExportInv, ExportTypes
<1>4. ExportTypes'
  BY <1>1, <1>3 DEF ExportInv, ExportTypes
<1>5. \A e \in Downloads : \A x : UsedBy(e, x)' <=> UsedBy(e, x)
  BY <1>1, <1>2, <1>3 DEF UsedBy, NoDownload
<1>6. \A x : Used(x)' <=> Used(x)
  BY <1>1, <1>5 DEF Used
<1>7. Owned'
  BY <1>1, <1>2, <1>3 DEF ExportInv, Owned
<1>8. Claimed'
  BY <1>1, <1>5 DEF ExportInv, Claimed
<1>9. InTime'
  <2>1. Used(t) => claims[t] >= RedisTimeout
    <3>1. Used(t) => claims[t] >= tickets[t].left + Slack
      BY <1>1 DEF ExportInv, InTime
    <3>2. claims[t] \in Int /\ tickets[t].left \in Int
      BY LinkIs DEF ExportInv
    <3>3. QED
      BY <1>1, <3>1, <3>2, ExportLimits
  <2>2. ASSUME NEW e \in Downloads, down'[e].at = "claim"
        PROVE  /\ down'[e].left <= RedisTimeout
               /\ Used(down'[e].ticket) => claims[down'[e].ticket] >= down'[e].left
    BY <1>2, <1>3, <2>1, <2>2, ExportLimits DEF ExportInv, InTime
  <2>3. QED
    BY <1>1, <1>6, <2>2 DEF ExportInv, InTime
<1>10. QED
  BY <1>4, <1>7, <1>8, <1>9 DEF ExportInv

(* One claim wins: the others find the key of the first.                   *)
LEMMA ClaimKeeps ==
    ASSUME ExportInv, NEW d \in Downloads, NEW answered \in BOOLEAN, Claim(d, answered)
    PROVE  ExportInv'
<1> DEFINE t == down[d].ticket
<1>1. /\ down[d].at = "claim" /\ UNCHANGED <<tickets, cool, built>>
      /\ claims' = [claims EXCEPT ![t] = IF claims[t] = -1 THEN ClaimTTL ELSE claims[t]]
      /\ \/ down' = [down EXCEPT ![d] = NoDownload]
         \/ /\ claims[t] = -1
            /\ down' = [down EXCEPT ![d] = [down[d] EXCEPT !.at = "build"]]
  BY DEF Claim
<1>2. /\ down[d] \in UnderWay /\ t \in DOMAIN tickets /\ down[d].user = tickets[t].user
      /\ DOMAIN claims = DOMAIN tickets /\ claims[t] \in Int
  BY <1>1, DownIs DEF ExportInv, ExportTypes, Owned
<1> HIDE DEF t
<1>3. /\ claims' \in Seq(Int) /\ DOMAIN claims' = DOMAIN claims
      /\ claims'[t] = IF claims[t] = -1 THEN ClaimTTL ELSE claims[t]
      /\ \A x \in DOMAIN claims \ {t} : claims'[x] = claims[x]
  <2>1. ClaimTTL \in Int
    BY ExportLimits DEF ClaimTTL
  <2>2. QED
    BY <1>1, <1>2, <2>1 DEF ExportInv, ExportTypes
<1>4. \A x \in DOMAIN claims : claims[x] \in Int /\ claims'[x] \in Int /\ claims'[x] >= claims[x]
  <2>1. ASSUME NEW x \in DOMAIN claims
        PROVE  claims[x] \in Int /\ claims'[x] \in Int
    BY <1>2, <1>3, <2>1, LinkIs DEF ExportInv
  <2>2. ClaimTTL >= -1
    BY ExportLimits DEF ClaimTTL
  <2>3. QED
    BY <1>3, <2>1, <2>2
<1>5. \A e \in Downloads \ {d} : down'[e] = down[e]
  BY <1>1 DEF ExportInv, ExportTypes
<1>6. \/ down'[d] = NoDownload
      \/ /\ claims[t] = -1 /\ down'[d] \in UnderWay /\ down'[d].at = "build"
         /\ down'[d].ticket = t /\ down'[d].user = down[d].user
  <2>1. [down[d] EXCEPT !.at = "build"] \in UnderWay
    BY <1>2 DEF UnderWay
  <2>2. /\ [down[d] EXCEPT !.at = "build"].at = "build"
        /\ [down[d] EXCEPT !.at = "build"].ticket = t
        /\ [down[d] EXCEPT !.at = "build"].user = down[d].user
    BY <1>2 DEF UnderWay, t
  <2>3. QED
    BY <1>1, <2>1, <2>2 DEF ExportInv, ExportTypes
<1>7. ExportTypes'
  <2>1. down' \in [Downloads -> UnderWay \cup {NoDownload}]
    BY <1>1, <1>5, <1>6 DEF ExportInv, ExportTypes
  <2>2. QED
    BY <1>1, <1>2, <1>3, <1>4, <2>1 DEF ExportInv, ExportTypes
<1>8. claims[t] = -1 => ~Used(t)
  <2>1. Used(t) => claims[t] >= down[d].left /\ down[d].left >= 0
    BY <1>1, <1>2 DEF ExportInv, InTime, UnderWay, t
  <2>2. down[d].left \in Int
    BY <1>2 DEF UnderWay
  <2>3. QED
    BY <1>2, <2>1, <2>2
<1>9. \A e \in Downloads : \A x : UsedBy(e, x)' =>
        UsedBy(e, x) \/ (e = d /\ x = t /\ claims[t] = -1)
  BY <1>5, <1>6 DEF UsedBy, NoDownload
<1>10. \A x : Used(x)' => Used(x) \/ (x = t /\ claims[t] = -1)
  BY <1>1, <1>9 DEF Used
<1>11. Owned'
  BY <1>1, <1>2, <1>5, <1>6 DEF ExportInv, Owned, NoDownload
<1>12. Claimed'
  <2>1. \A e, f \in Downloads, x \in DOMAIN tickets : UsedBy(e, x)' /\ UsedBy(f, x)' => e = f
    BY <1>8, <1>9 DEF ExportInv, Claimed, Used
  <2>2. \A e \in Downloads, i \in DOMAIN built : ~UsedBy(e, built[i].ticket)'
    BY <1>1, <1>8, <1>9 DEF ExportInv, Claimed, Used
  <2>3. QED
    BY <1>1, <2>1, <2>2 DEF ExportInv, Claimed, UsedBy
<1>13. InTime'
  <2>1. ASSUME NEW x \in DOMAIN tickets, Used(x)', tickets[x].left >= 0
        PROVE  claims'[x] >= tickets[x].left + Slack
    <3>1. tickets[x].left \in Int /\ tickets[x].left <= LinkTTL
      BY LinkIs DEF ExportInv
    <3>2. CASE x = t /\ claims[t] = -1
      <4>1. claims'[x] = LinkTTL + Slack
        BY <1>3, <3>2 DEF ClaimTTL
      <4>2. QED
        BY <3>1, <4>1, ExportLimits
    <3>3. CASE Used(x)
      <4>1. claims[x] >= tickets[x].left + Slack
        BY <2>1, <3>3 DEF ExportInv, InTime
      <4>2. QED
        BY <1>2, <1>4, <3>1, <4>1, ExportLimits
    <3>4. QED
      BY <1>10, <2>1, <3>2, <3>3
  <2>2. ASSUME NEW e \in Downloads, down'[e].at = "claim", NEW x, x = down'[e].ticket
        PROVE  /\ down'[e].left <= RedisTimeout
               /\ Used(x)' => claims'[x] >= down'[e].left
    <3>1. e # d /\ down'[e] = down[e]
      BY <1>5, <1>6, <2>2 DEF NoDownload
    <3>2. /\ down[e] \in UnderWay /\ x = down[e].ticket /\ x \in DOMAIN tickets
          /\ down[e].left \in Int /\ down[e].left <= RedisTimeout
      BY <2>2, <3>1, DownIs DEF ExportInv, Owned, InTime, UnderWay
    <3>3. CASE x = t /\ claims[t] = -1
      <4>1. claims'[t] = LinkTTL + Slack
        BY <1>3, <3>3 DEF ClaimTTL
      <4>2. QED
        BY <3>1, <3>2, <3>3, <4>1, ExportLimits
    <3>4. CASE Used(x)
      <4>1. claims[x] >= down[e].left
        BY <2>2, <3>1, <3>2, <3>4 DEF ExportInv, InTime
      <4>2. QED
        BY <1>2, <1>4, <3>1, <3>2, <4>1
    <3>5. QED
      BY <1>10, <3>1, <3>2, <3>3, <3>4
  <2>3. QED
    BY <1>1, <2>1, <2>2, InTimeNext
<1>14. QED
  BY <1>7, <1>11, <1>12, <1>13 DEF ExportInv

(* The document of a claimed ticket takes the place of its download.       *)
LEMMA BuildKeeps ==
    ASSUME ExportInv, NEW d \in Downloads, Build(d)
    PROVE  ExportInv'
<1> DEFINE t == down[d].ticket
           doc == [ticket |-> t, user |-> down[d].user]
           L == Len(built)
<1>1. /\ down[d].at = "build" /\ UNCHANGED <<tickets, cool, claims>>
      /\ built' = Append(built, doc)
      /\ down' = [down EXCEPT ![d] = NoDownload]
  BY DEF Build
<1>2. /\ down[d] \in UnderWay /\ t \in DOMAIN tickets /\ down[d].user = tickets[t].user
      /\ UsedBy(d, t) /\ t \in Nat /\ down[d].user \in Subjects
  BY <1>1, DownIs DEF ExportInv, Owned, UsedBy, UnderWay
<1>3. doc \in Document /\ doc.ticket = t /\ doc.user = down[d].user
  BY <1>2 DEF Document
<1> HIDE DEF doc
<1>4. /\ L \in Nat /\ DOMAIN built = 1..L
      /\ built' \in Seq(Document) /\ DOMAIN built' = 1..(L + 1)
      /\ \A i \in 1..L : built'[i] = built[i]
      /\ built'[L + 1] = doc
  BY <1>1, <1>3 DEF ExportInv, ExportTypes
<1> HIDE DEF t, L
<1>5. /\ down'[d] = NoDownload /\ \A e \in Downloads \ {d} : down'[e] = down[e]
      /\ down' \in [Downloads -> UnderWay \cup {NoDownload}]
  BY <1>1 DEF ExportInv, ExportTypes
<1>6. ExportTypes'
  BY <1>1, <1>4, <1>5 DEF ExportInv, ExportTypes
<1>7. \A e \in Downloads : \A x : UsedBy(e, x)' => UsedBy(e, x) /\ e # d
  BY <1>5 DEF UsedBy, NoDownload
<1>8. \A x : Used(x)' => Used(x)
  <2>1. ASSUME NEW i \in DOMAIN built' PROVE Used(built'[i].ticket)
    BY <1>2, <1>3, <1>4, <2>1 DEF Used
  <2>2. QED
    BY <1>7, <2>1 DEF Used
<1>9. Owned'
  <2>1. ASSUME NEW e \in Downloads, down'[e].at # "idle"
        PROVE  /\ down'[e].ticket \in DOMAIN tickets
               /\ down'[e].user = tickets[down'[e].ticket].user
    BY <1>5, <2>1 DEF ExportInv, Owned, NoDownload
  <2>2. ASSUME NEW i \in DOMAIN built'
        PROVE  built'[i].ticket \in DOMAIN tickets
               /\ built'[i].user = tickets[built'[i].ticket].user
    <3>1. CASE i \in 1..L
      BY <1>4, <3>1 DEF ExportInv, Owned
    <3>2. CASE i = L + 1
      BY <1>2, <1>3, <1>4, <3>2
    <3>3. QED
      BY <1>4, <2>2, <3>1, <3>2
  <2>3. QED
    BY <1>1, <2>1, <2>2 DEF Owned
<1>10. Claimed'
  <2>1. \A e, f \in Downloads, x \in DOMAIN tickets : UsedBy(e, x)' /\ UsedBy(f, x)' => e = f
    BY <1>7 DEF ExportInv, Claimed
  <2>2. ASSUME NEW e \in Downloads, NEW i \in DOMAIN built', NEW x, x = built'[i].ticket
        PROVE  ~UsedBy(e, x)'
    <3>1. CASE i \in 1..L
      BY <1>4, <1>7, <2>2, <3>1 DEF ExportInv, Claimed
    <3>2. CASE i = L + 1
      BY <1>2, <1>3, <1>4, <1>7, <2>2, <3>2 DEF ExportInv, Claimed
    <3>3. QED
      BY <1>4, <2>2, <3>1, <3>2
  <2>3. ASSUME NEW i \in DOMAIN built', NEW j \in DOMAIN built', i # j
        PROVE  built'[i].ticket # built'[j].ticket
    <3>1. \A k \in 1..L : built'[k].ticket # t
      BY <1>2, <1>4 DEF ExportInv, Claimed
    <3>2. \A k, m \in 1..L : k # m => built'[k].ticket # built'[m].ticket
      BY <1>4 DEF ExportInv, Claimed
    <3>3. built'[L + 1].ticket = t
      BY <1>3, <1>4
    <3>4. QED
      BY <1>4, <2>3, <3>1, <3>2, <3>3
  <2>4. \A e \in Downloads, i \in DOMAIN built' : ~(UsedBy(e, built[i].ticket)')
    <3>1. ASSUME NEW e \in Downloads, NEW i \in DOMAIN built'
          PROVE  ~(UsedBy(e, built[i].ticket)')
      <4>1. PICK x : x = built'[i].ticket
        OBVIOUS
      <4>2. ~(down'[e].at = "build" /\ down'[e].ticket = x)
        BY <2>2, <3>1, <4>1 DEF UsedBy
      <4>3. QED
        BY <4>1, <4>2 DEF UsedBy
    <3>2. QED
      BY <3>1
  <2>5. QED
    BY <1>1, <2>1, <2>3, <2>4 DEF Claimed, UsedBy
<1>11. InTime'
  <2>1. \A x \in DOMAIN tickets : Used(x)' /\ tickets[x].left >= 0
                                   => claims[x] >= tickets[x].left + Slack
    BY <1>8 DEF ExportInv, InTime
  <2>2. ASSUME NEW e \in Downloads, down'[e].at = "claim", NEW x, x = down'[e].ticket
        PROVE  down'[e].left <= RedisTimeout /\ (Used(x)' => claims[x] >= down'[e].left)
    BY <1>5, <1>8, <2>2 DEF ExportInv, InTime, NoDownload
  <2>3. QED
    BY <1>1, <2>1, <2>2, InTimeNext
<1>12. QED
  BY <1>6, <1>9, <1>10, <1>11 DEF ExportInv

(* A download that fails leaves the ticket claimed, or for another.        *)
LEMMA DownloadFailsKeeps ==
    ASSUME ExportInv, NEW d \in Downloads, DownloadFails(d)
    PROVE  ExportInv'
<1>1. /\ UNCHANGED <<tickets, cool, claims, built>>
      /\ down' = [down EXCEPT ![d] = NoDownload]
  BY DEF DownloadFails
<1>2. /\ down'[d] = NoDownload /\ \A e \in Downloads \ {d} : down'[e] = down[e]
      /\ down' \in [Downloads -> UnderWay \cup {NoDownload}]
  BY <1>1 DEF ExportInv, ExportTypes
<1>3. ExportTypes'
  BY <1>1, <1>2 DEF ExportInv, ExportTypes
<1>4. \A e \in Downloads : \A x : UsedBy(e, x)' => UsedBy(e, x)
  BY <1>2 DEF UsedBy, NoDownload
<1>5. \A x : Used(x)' => Used(x)
  BY <1>1, <1>4 DEF Used
<1>6. Owned'
  BY <1>1, <1>2 DEF ExportInv, Owned, NoDownload
<1>7. Claimed'
  BY <1>1, <1>4 DEF ExportInv, Claimed
<1>8. InTime'
  <2>1. \A x \in DOMAIN tickets : Used(x)' /\ tickets[x].left >= 0
                                   => claims[x] >= tickets[x].left + Slack
    BY <1>5 DEF ExportInv, InTime
  <2>2. ASSUME NEW e \in Downloads, down'[e].at = "claim", NEW x, x = down'[e].ticket
        PROVE  down'[e].left <= RedisTimeout /\ (Used(x)' => claims[x] >= down'[e].left)
    BY <1>2, <1>5, <2>2 DEF ExportInv, InTime, NoDownload
  <2>3. QED
    BY <1>1, <2>1, <2>2, InTimeNext
<1>9. QED
  BY <1>3, <1>6, <1>7, <1>8 DEF ExportInv

(* Links, keys and commands on their way all lose a tick.                  *)
LEMMA ExportTickKeeps ==
    ASSUME ExportInv, ExportTick
    PROVE  ExportInv'
<1>1. /\ \A d \in Downloads : down[d].at = "claim" => down[d].left > 0
      /\ tickets' = [t \in DOMAIN tickets |-> [tickets[t] EXCEPT !.left = Sooner(@)]]
      /\ claims' = [t \in DOMAIN claims |-> Sooner(claims[t])]
      /\ down' = [d \in Downloads |->
                    IF down[d].at = "claim" THEN [down[d] EXCEPT !.left = @ - 1] ELSE down[d]]
      /\ built' = built
  BY DEF ExportTick
<1>2. \A n \in Int : /\ Sooner(n) \in Int /\ Sooner(n) >= -1
                     /\ n >= 0 => Sooner(n) = n - 1
                     /\ n < 0 => Sooner(n) = -1
  BY DEF Sooner
<1> DEFINE L == Len(tickets)
<1>3. L \in Nat /\ DOMAIN tickets = 1..L /\ DOMAIN claims = 1..L /\ Len(claims) = L
  BY DEF ExportInv, ExportTypes
<1> HIDE DEF L
<1>4. \A t \in 1..L :
        /\ tickets[t] \in Link
        /\ tickets[t].left \in Int /\ tickets[t].left <= LinkTTL
        /\ claims[t] \in Int /\ claims[t] >= -1
  <2>1. ASSUME NEW t \in 1..L PROVE tickets[t] \in Link
    BY <1>3 DEF ExportInv, ExportTypes
  <2>2. QED
    BY <1>3, <2>1, LinkIs DEF ExportInv
<1>5. \A t \in 1..L :
        /\ tickets'[t] \in Link /\ tickets'[t].user = tickets[t].user
        /\ tickets'[t].left = Sooner(tickets[t].left)
        /\ claims'[t] = Sooner(claims[t])
  BY <1>1, <1>2, <1>3, <1>4 DEF Link
<1>6. /\ tickets' \in Seq(Link) /\ DOMAIN tickets' = 1..L
      /\ claims' \in Seq(Int) /\ DOMAIN claims' = 1..L
  <2>1. \A t \in 1..L : claims'[t] \in Int
    BY <1>2, <1>4, <1>5
  <2>2. tickets' = [t \in 1..L |-> tickets'[t]] /\ claims' = [t \in 1..L |-> claims'[t]]
    BY <1>1, <1>3
  <2>3. QED
    BY <1>3, <1>5, <2>1, <2>2
<1>7. \A d \in Downloads :
        /\ down'[d].at = down[d].at
        /\ down[d].at # "claim" => down'[d] = down[d]
        /\ down[d].at # "idle" => /\ down'[d] \in UnderWay
                                  /\ down'[d].ticket = down[d].ticket
                                  /\ down'[d].user = down[d].user
        /\ down[d].at = "claim" => /\ down'[d].left = down[d].left - 1
                                   /\ down[d].left \in Nat /\ down[d].left > 0
  <2>1. SUFFICES ASSUME NEW d \in Downloads, down[d].at = "claim"
        PROVE  /\ down'[d].at = down[d].at /\ down'[d] \in UnderWay
               /\ down'[d].ticket = down[d].ticket
               /\ down'[d].user = down[d].user
               /\ down'[d].left = down[d].left - 1
               /\ down[d].left \in Nat /\ down[d].left > 0
    BY <1>1, DownIs DEF ExportInv
  <2>2. down[d] \in UnderWay /\ down[d].left > 0
    BY <1>1, <2>1, DownIs DEF ExportInv
  <2>3. down'[d] = [down[d] EXCEPT !.left = down[d].left - 1]
    BY <1>1, <2>1
  <2>4. QED
    BY <2>1, <2>2, <2>3 DEF UnderWay
<1>8. ExportTypes'
  <2>1. down' \in [Downloads -> UnderWay \cup {NoDownload}]
    <3>1. \A d \in Downloads : down'[d] \in UnderWay \cup {NoDownload}
      BY <1>7, DownIs DEF ExportInv
    <3>2. QED
      BY <1>1, <3>1
  <2>2. \A t \in 1..L : tickets'[t].left <= LinkTTL /\ claims'[t] >= -1
    BY <1>2, <1>4, <1>5, ExportLimits
  <2>3. QED
    BY <1>1, <1>6, <2>1, <2>2 DEF ExportInv, ExportTypes
<1>9. \A d \in Downloads : \A x : UsedBy(d, x)' <=> UsedBy(d, x)
  BY <1>7 DEF UsedBy
<1>10. \A x : Used(x)' <=> Used(x)
  BY <1>1, <1>9 DEF Used
<1>11. Owned'
  BY <1>1, <1>3, <1>5, <1>6, <1>7 DEF ExportInv, Owned
<1>12. Claimed'
  BY <1>1, <1>3, <1>6, <1>9 DEF ExportInv, Claimed
<1>13. InTime'
  <2>1. ASSUME NEW x \in 1..L, Used(x), tickets'[x].left >= 0
        PROVE  claims'[x] >= tickets'[x].left + Slack
    <3>1. tickets[x].left >= 0 /\ tickets'[x].left = tickets[x].left - 1
      BY <1>2, <1>4, <1>5, <2>1
    <3>2. claims[x] >= tickets[x].left + Slack
      BY <1>3, <2>1, <3>1 DEF ExportInv, InTime
    <3>3. claims'[x] = claims[x] - 1
      BY <1>2, <1>4, <1>5, <3>1, <3>2, ExportLimits
    <3>4. QED
      BY <1>4, <3>1, <3>2, <3>3, ExportLimits
  <2>2. ASSUME NEW e \in Downloads, down'[e].at = "claim", NEW x, x = down'[e].ticket
        PROVE  down'[e].left <= RedisTimeout /\ (Used(x)' => claims'[x] >= down'[e].left)
    <3>1. /\ down[e].at = "claim" /\ x = down[e].ticket /\ x \in 1..L
          /\ down'[e].left = down[e].left - 1 /\ down[e].left \in Nat /\ down[e].left > 0
          /\ down[e].left <= RedisTimeout
      BY <1>3, <1>7, <2>2 DEF ExportInv, Owned, InTime
    <3>2. ASSUME Used(x) PROVE claims'[x] >= down'[e].left
      <4>1. claims[x] >= down[e].left
        BY <3>1, <3>2 DEF ExportInv, InTime
      <4>2. claims'[x] = claims[x] - 1
        BY <1>2, <1>4, <1>5, <3>1, <4>1
      <4>3. QED
        BY <1>4, <3>1, <4>1, <4>2
    <3>3. QED
      BY <1>10, <3>1, <3>2, ExportLimits
  <2>3. \A x \in DOMAIN tickets' : Used(x)' /\ tickets'[x].left >= 0
                                   => claims'[x] >= tickets'[x].left + Slack
    BY <1>6, <1>10, <2>1
  <2>4. QED
    BY <2>2, <2>3, InTimeNext
<1>14. QED
  BY <1>8, <1>11, <1>12, <1>13 DEF ExportInv

LEMMA ExportStepKeeps == ExportInv /\ [ExportNext]_exportVars => ExportInv'
<1> SUFFICES ASSUME ExportInv, [ExportNext]_exportVars PROVE ExportInv'
  OBVIOUS
<1>1. CASE UNCHANGED exportVars
  BY <1>1 DEF exportVars, ExportInv, ExportTypes, Owned, Claimed, InTime, UsedBy, Used
<1>2. CASE ExportNext
  BY <1>2, RequestExportKeeps, DownloadKeeps, BuildKeeps, DownloadFailsKeeps, ClaimKeeps,
     ExportTickKeeps DEF ExportNext
<1>3. QED
  BY <1>1, <1>2

(* consumeTicket and build: a link gives one document, to the subject it   *)
(* was issued to, for any number of links and of downloads of one link, as *)
(* long as a command of the quota Redis takes no longer than the slack.    *)
THEOREM LinksGiveOneDocument == ExportSpec => []ExportedOnce
<1>1. ExportInv => ExportedOnce
  BY DEF ExportInv, Owned, Claimed, ExportedOnce
<1>2. QED
  BY <1>1, ExportInitHolds, ExportStepKeeps, PTL DEF ExportSpec

-----------------------------------------------------------------------------
(* Sign-in.  A request under way has an account's person and a name that    *)
(* WorkOS gave out for it; NoName, which it gives to whom it does not know  *)
(* yet, counts as accepted, and the names of a row and of WorkOS's record   *)
(* were all handed over by such a request.                                  *)
SignRequests ==
    [route : {"start", "verify", "callback", "refresh", "patch"}, node : Nodes,
     who : People,
     at : {"ip", "email", "send", "exchange", "list", "upsert", "attach", "provider", "local"},
     name : Sign!Names]

Records == Sign!Names \cup {Sign!NoRecord}

SignTypes ==
    /\ req \in [Requests -> SignRequests \cup {Sign!Idle}]
    /\ identity \in [People -> Records]
    /\ row \in [People -> Records]
    /\ accepted \in [People -> SUBSET Sign!Names]
    /\ mails \in [People -> Nat]
    /\ raw \in [Nodes -> RawLists \cup {Sign!Open}]

NamesAreAccepted ==
    /\ \A p \in People : /\ Sign!NoName \in accepted[p]
                         /\ identity[p] # Sign!NoRecord => identity[p] \in accepted[p]
                         /\ row[p] # Sign!NoRecord => row[p] \in accepted[p]
    /\ \A r \in Requests :
          req[r] # Sign!Idle => req[r].name \in accepted[req[r].who]

SignInv == SignTypes /\ NamesAreAccepted

(* The steps that end or move a request, one kind at a time.               *)
LEMMA RequestIs ==
    ASSUME SignTypes, NEW r \in Requests
    PROVE  /\ req[r] = Sign!Idle \/ req[r] \in SignRequests
           /\ Sign!Idle.route = "idle"
           /\ req[r] \in SignRequests => req[r] # Sign!Idle
  BY DEF SignTypes, SignRequests, Sign!Idle

LEMMA SignNames ==
    Sign!NoName \in Sign!Names /\ Sign!NoName \in Records /\ Sign!NoRecord \in Records
  BY DEF Sign!Names, Records

LEMMA SignInitHolds ==
    ASSUME NEW before \in SUBSET People, NEW k \in Keks, Sign!SignInit(before, k)
    PROVE  SignInv
<1>1. /\ raw = [n \in Nodes |-> Sign!Open]
      /\ identity = [p \in People |-> IF p \in before THEN Sign!NoName ELSE Sign!NoRecord]
      /\ row = identity
      /\ accepted = [p \in People |-> {Sign!NoName}]
      /\ mails = [p \in People |-> 0]
      /\ req = [r \in Requests |-> Sign!Idle]
  BY DEF Sign!SignInit
<1>2. SignTypes
  BY <1>1, SignNames DEF SignTypes
<1>3. NamesAreAccepted
  BY <1>1 DEF NamesAreAccepted
<1>4. QED
  BY <1>2, <1>3 DEF SignInv

(* A step of one request that leaves the records alone.                    *)
LEMMA RequestMoves ==
    ASSUME SignInv, NEW r \in Requests, NEW new, req' = [req EXCEPT ![r] = new],
           UNCHANGED <<identity, row, accepted>>,
           mails' \in [People -> Nat], raw' \in [Nodes -> RawLists \cup {Sign!Open}],
           \/ new = Sign!Idle
           \/ new \in SignRequests /\ new.name \in accepted[new.who]
    PROVE  SignInv'
<1>1. /\ req'[r] = new /\ \A x \in Requests \ {r} : req'[x] = req[x]
      /\ req' \in [Requests -> SignRequests \cup {Sign!Idle}]
  BY DEF SignInv, SignTypes
<1>2. SignTypes'
  BY <1>1 DEF SignInv, SignTypes
<1>3. NamesAreAccepted'
  BY <1>1 DEF SignInv, NamesAreAccepted
<1>4. QED
  BY <1>2, <1>3 DEF SignInv

(* Goto and Done keep the person and the name.                             *)
LEMMA GotoOrDone ==
    ASSUME SignInv, NEW r \in Requests, req[r] # Sign!Idle,
           NEW at \in {"ip", "email", "send", "exchange", "list", "upsert", "attach"},
           Sign!Goto(r, at) \/ Sign!Done(r),
           UNCHANGED <<identity, row, accepted, raw>>, mails' \in [People -> Nat]
    PROVE  SignInv'
<1>1. raw' \in [Nodes -> RawLists \cup {Sign!Open}]
  BY DEF SignInv, SignTypes
<1>2. CASE Sign!Done(r)
  <2>1. req' = [req EXCEPT ![r] = Sign!Idle]
    BY <1>2 DEF Sign!Done
  <2>2. QED
    BY <1>1, <2>1, RequestMoves
<1>3. CASE Sign!Goto(r, at)
  <2> DEFINE new == [req[r] EXCEPT !.at = at]
  <2>1. req' = [req EXCEPT ![r] = new]
    BY <1>3 DEF Sign!Goto
  <2>2. req[r] \in SignRequests
    BY RequestIs DEF SignInv
  <2>3. new \in SignRequests /\ new.who = req[r].who /\ new.name = req[r].name
    BY <2>2 DEF SignRequests
  <2>4. new.name \in accepted[new.who]
    BY <2>3 DEF SignInv, NamesAreAccepted
  <2> HIDE DEF new
  <2>5. QED
    BY <1>1, <2>1, <2>3, <2>4, RequestMoves
<1>4. QED
  BY <1>2, <1>3

(* Requests enter without a name.                                          *)
LEMMA SignEnterKeeps ==
    ASSUME SignInv, NEW r \in Requests, NEW n \in Nodes, NEW p \in People,
           NEW route \in {"start", "verify", "callback", "refresh", "patch"},
           NEW first \in {"ip", "exchange", "provider"}, Sign!Enter(r, route, n, p, first)
    PROVE  SignInv'
<1> DEFINE new == [route |-> route, node |-> n, who |-> p, at |-> first, name |-> Sign!NoName]
<1>1. /\ req' = [req EXCEPT ![r] = new]
      /\ UNCHANGED <<identity, row, accepted, raw, mails>>
  BY DEF Sign!Enter
<1>2. new \in SignRequests /\ new.who = p /\ new.name = Sign!NoName
  BY SignNames DEF SignRequests
<1>3. new.name \in accepted[new.who]
  BY <1>2 DEF SignInv, NamesAreAccepted
<1>4. mails' \in [People -> Nat] /\ raw' \in [Nodes -> RawLists \cup {Sign!Open}]
  BY <1>1 DEF SignInv, SignTypes
<1>5. UNCHANGED <<identity, row, accepted>>
  BY <1>1
<1> HIDE DEF new
<1>6. QED
  BY <1>1, <1>2, <1>3, <1>4, <1>5, RequestMoves

(* WorkOS hands out the name it holds, or none to whom it did not know.    *)
LEMMA ExchangeKeeps ==
    ASSUME SignInv, NEW r \in Requests, Sign!Exchange(r)
    PROVE  SignInv'
<1> DEFINE p == req[r].who
           name == IF identity[p] = Sign!NoRecord THEN Sign!NoName ELSE identity[p]
           new == [req[r] EXCEPT !.at = IF req[r].route = "callback" THEN "list" ELSE "upsert",
                                 !.name = name]
<1>1. req[r] \in SignRequests /\ p \in People
  BY RequestIs DEF Sign!Exchange, SignInv, SignRequests
<1>2. /\ identity' = [identity EXCEPT ![p] = name]
      /\ UNCHANGED <<row, accepted, raw, mails>>
      /\ req' = [req EXCEPT ![r] =
                    [req[r] EXCEPT !.at = IF req[r].route = "callback" THEN "list" ELSE "upsert",
                                   !.name = identity'[p]]]
  BY DEF Sign!Exchange
<1>3. identity' \in [People -> Records] /\ identity'[p] = name
      /\ \A x \in People \ {p} : identity'[x] = identity[x]
  <2>1. identity[p] \in Records /\ name \in Records
    BY <1>1, SignNames DEF SignInv, SignTypes
  <2> HIDE DEF name, p
  <2>2. QED
    BY <1>1, <1>2, <2>1 DEF SignInv, SignTypes
<1>4. name \in accepted[p] /\ name \in Sign!Names
  BY <1>1, SignNames DEF SignInv, SignTypes, NamesAreAccepted, Records
<1>5. req' = [req EXCEPT ![r] = new]
  BY <1>2, <1>3
<1>6. new \in SignRequests /\ new.who = p /\ new.name = name
  <2> HIDE DEF name
  <2>1. QED
    BY <1>1, <1>4 DEF SignRequests, p
<1> HIDE DEF new, name, p
<1>7. /\ req'[r] = new /\ \A x \in Requests \ {r} : req'[x] = req[x]
      /\ req' \in [Requests -> SignRequests \cup {Sign!Idle}]
  BY <1>5, <1>6 DEF SignInv, SignTypes
<1>8. SignTypes'
  BY <1>2, <1>3, <1>7 DEF SignInv, SignTypes
<1>9. NamesAreAccepted'
  BY <1>2, <1>3, <1>4, <1>6, <1>7 DEF SignInv, NamesAreAccepted
<1>10. QED
  BY <1>8, <1>9 DEF SignInv

(* A row takes the name of its request, or keeps its own.                  *)
LEMMA UpsertKeeps ==
    ASSUME SignInv, NEW r \in Requests, Sign!Upsert(r)
    PROVE  SignInv'
<1> DEFINE p == req[r].who
           name == Sign!Upserted(row[p], req[r].name)
           new == [req[r] EXCEPT !.at = "attach"]
<1>1. /\ req[r] \in SignRequests /\ p \in People
      /\ req[r].name \in accepted[p] /\ req[r].name \in Sign!Names
  BY RequestIs DEF Sign!Upsert, SignInv, SignRequests, NamesAreAccepted
<1>2. /\ row' = [row EXCEPT ![p] = name] /\ req' = [req EXCEPT ![r] = new]
      /\ UNCHANGED <<identity, accepted, raw, mails>>
  BY DEF Sign!Upsert, Sign!Goto
<1>3. name \in accepted[p] /\ name \in Records
  BY <1>1 DEF Sign!Upserted, SignInv, SignTypes, NamesAreAccepted, Records
<1>4. new \in SignRequests /\ new.who = p /\ new.name = req[r].name
  BY <1>1 DEF SignRequests
<1> HIDE DEF name, new, p
<1>5. /\ row' \in [People -> Records] /\ row'[p] = name
      /\ \A x \in People \ {p} : row'[x] = row[x]
  BY <1>1, <1>2, <1>3 DEF SignInv, SignTypes
<1>6. /\ req'[r] = new /\ \A x \in Requests \ {r} : req'[x] = req[x]
      /\ req' \in [Requests -> SignRequests \cup {Sign!Idle}]
  BY <1>2, <1>4 DEF SignInv, SignTypes
<1>7. SignTypes'
  BY <1>2, <1>5, <1>6 DEF SignInv, SignTypes
<1>8. NamesAreAccepted'
  BY <1>1, <1>2, <1>3, <1>4, <1>5, <1>6 DEF SignInv, NamesAreAccepted
<1>9. QED
  BY <1>7, <1>8 DEF SignInv

(* A name WorkOS takes is accepted before the row hears of it ...          *)
LEMMA PatchProviderKeeps ==
    ASSUME SignInv, NEW r \in Requests, NEW name \in Sign!Names, Sign!PatchProvider(r, name)
    PROVE  SignInv'
<1> DEFINE p == req[r].who
           new == [req[r] EXCEPT !.at = "local", !.name = name]
<1>1. req[r] \in SignRequests /\ p \in People
  BY RequestIs DEF Sign!PatchProvider, SignInv, SignRequests
<1>2. /\ identity' = [identity EXCEPT ![p] = name]
      /\ accepted' = [accepted EXCEPT ![p] = accepted[p] \cup {name}]
      /\ req' = [req EXCEPT ![r] = new]
      /\ UNCHANGED <<row, raw, mails>>
  BY DEF Sign!PatchProvider
<1>3. new \in SignRequests /\ new.who = p /\ new.name = name
  BY <1>1 DEF SignRequests
<1> HIDE DEF new, p
<1>4. /\ identity' \in [People -> Records] /\ identity'[p] = name
      /\ \A x \in People \ {p} : identity'[x] = identity[x]
  BY <1>1, <1>2 DEF SignInv, SignTypes, Records
<1>5. /\ accepted' \in [People -> SUBSET Sign!Names] /\ name \in accepted'[p]
      /\ \A x \in People : accepted[x] \subseteq accepted'[x]
  BY <1>1, <1>2 DEF SignInv, SignTypes
<1>6. /\ req'[r] = new /\ \A x \in Requests \ {r} : req'[x] = req[x]
      /\ req' \in [Requests -> SignRequests \cup {Sign!Idle}]
  BY <1>2, <1>3 DEF SignInv, SignTypes
<1>7. SignTypes'
  BY <1>2, <1>4, <1>5, <1>6 DEF SignInv, SignTypes
<1>8. NamesAreAccepted'
  <2>1. \A x \in People : /\ Sign!NoName \in accepted'[x]
                          /\ identity'[x] # Sign!NoRecord => identity'[x] \in accepted'[x]
                          /\ row[x] # Sign!NoRecord => row[x] \in accepted'[x]
    BY <1>1, <1>4, <1>5 DEF SignInv, NamesAreAccepted
  <2>2. ASSUME NEW x \in Requests, req'[x] # Sign!Idle
        PROVE  req'[x].name \in accepted'[req'[x].who]
    <3>1. CASE x = r
      BY <1>3, <1>5, <1>6, <3>1
    <3>2. CASE x # r
      <4>1. req[x].who \in People /\ req[x].name \in accepted[req[x].who]
        BY <1>6, <2>2, <3>2, RequestIs DEF SignInv, SignRequests, NamesAreAccepted
      <4>2. QED
        BY <1>5, <1>6, <3>2, <4>1
    <3>3. QED
      BY <3>1, <3>2
  <2>3. QED
    BY <1>2, <2>1, <2>2 DEF NamesAreAccepted
<1>9. QED
  BY <1>7, <1>8 DEF SignInv

(* ... if there still is one.                                              *)
LEMMA PatchLocalKeeps ==
    ASSUME SignInv, NEW r \in Requests, Sign!PatchLocal(r)
    PROVE  SignInv'
<1> DEFINE p == req[r].who
           name == IF row[p] = Sign!NoRecord THEN row[p] ELSE req[r].name
<1>1. /\ p \in People /\ req[r].name \in accepted[p] /\ req[r].name \in Sign!Names
  BY RequestIs DEF Sign!PatchLocal, SignInv, SignRequests, NamesAreAccepted
<1>2. /\ row' = [row EXCEPT ![p] = name] /\ req' = [req EXCEPT ![r] = Sign!Idle]
      /\ UNCHANGED <<identity, accepted, raw, mails>>
  BY DEF Sign!PatchLocal, Sign!Done
<1>3. name \in Records /\ (name # Sign!NoRecord => name \in accepted[p])
  BY <1>1 DEF SignInv, SignTypes, Records
<1> HIDE DEF name, p
<1>4. /\ row' \in [People -> Records] /\ row'[p] = name
      /\ \A x \in People \ {p} : row'[x] = row[x]
  BY <1>1, <1>2, <1>3 DEF SignInv, SignTypes
<1>5. SignTypes'
  BY <1>2, <1>4 DEF SignInv, SignTypes
<1>6. NamesAreAccepted'
  BY <1>1, <1>2, <1>3, <1>4 DEF SignInv, SignTypes, NamesAreAccepted
<1>7. QED
  BY <1>5, <1>6 DEF SignInv

(* An erasure leaves no record, or WorkOS's own.                           *)
LEMMA EraseAccountKeeps ==
    ASSUME SignInv, NEW p \in People, NEW told \in BOOLEAN, Sign!EraseAccount(p, told)
    PROVE  SignInv'
<1>1. /\ row' = [row EXCEPT ![p] = Sign!NoRecord]
      /\ identity' = [identity EXCEPT ![p] = IF told THEN Sign!NoRecord ELSE identity[p]]
      /\ UNCHANGED <<accepted, raw, mails, req>>
  BY DEF Sign!EraseAccount
<1>2. /\ row' \in [People -> Records] /\ identity' \in [People -> Records]
      /\ \A x \in People : /\ row'[x] \in {row[x], Sign!NoRecord}
                            /\ identity'[x] \in {identity[x], Sign!NoRecord}
  BY <1>1, SignNames DEF SignInv, SignTypes
<1>3. SignTypes'
  BY <1>1, <1>2 DEF SignInv, SignTypes
<1>4. NamesAreAccepted'
  BY <1>1, <1>2 DEF SignInv, NamesAreAccepted
<1>5. QED
  BY <1>3, <1>4 DEF SignInv

(* Whom WorkOS did not know has no name there when it has mailed.          *)
LEMMA SendKeeps ==
    ASSUME SignInv, NEW r \in Requests, Sign!Send(r)
    PROVE  SignInv'
<1> DEFINE p == req[r].who
           name == IF identity[p] = Sign!NoRecord THEN Sign!NoName ELSE identity[p]
<1>1. p \in People
  BY RequestIs DEF Sign!Send, SignInv, SignRequests
<1>2. /\ identity' = [identity EXCEPT ![p] = name]
      /\ mails' = [mails EXCEPT ![p] = mails[p] + 1]
      /\ req' = [req EXCEPT ![r] = Sign!Idle]
      /\ UNCHANGED <<row, accepted, raw>>
  BY DEF Sign!Send, Sign!Done
<1>3. name \in Records /\ name \in accepted[p]
  BY <1>1, SignNames DEF SignInv, SignTypes, NamesAreAccepted
<1> HIDE DEF name, p
<1>4. /\ identity' \in [People -> Records] /\ identity'[p] = name
      /\ \A x \in People \ {p} : identity'[x] = identity[x]
  BY <1>1, <1>2, <1>3 DEF SignInv, SignTypes
<1>5. mails' \in [People -> Nat]
  BY <1>1, <1>2 DEF SignInv, SignTypes
<1>6. SignTypes'
  BY <1>2, <1>4, <1>5 DEF SignInv, SignTypes
<1>7. NamesAreAccepted'
  BY <1>1, <1>2, <1>3, <1>4 DEF SignInv, SignTypes, NamesAreAccepted
<1>8. QED
  BY <1>6, <1>7 DEF SignInv

LEMMA RestartKeeps ==
    ASSUME SignInv, NEW n \in Nodes, NEW list \in RawLists, NEW k, Sign!Restart(n, list, k)
    PROVE  SignInv'
<1>1. /\ raw' = [raw EXCEPT ![n] = list]
      /\ UNCHANGED <<identity, row, accepted, mails, req>>
  BY DEF Sign!Restart
<1>2. SignTypes'
  BY <1>1 DEF SignInv, SignTypes
<1>3. NamesAreAccepted'
  BY <1>1 DEF SignInv, NamesAreAccepted
<1>4. QED
  BY <1>2, <1>3 DEF SignInv

LEMMA EstablishKeeps == SignInv /\ Sign!EstablishNext => SignInv'
<1> SUFFICES ASSUME SignInv, Sign!EstablishNext PROVE SignInv'
  OBVIOUS
<1>1. PICK r \in Requests : \/ Sign!Exchange(r) \/ Sign!Upsert(r) \/ Sign!Fail(r)
                           \/ \E c \in BOOLEAN : Sign!Attach(r, c)
  BY DEF Sign!EstablishNext
<1>2. mails \in [People -> Nat]
  BY DEF SignInv, SignTypes
<1>3. CASE Sign!Fail(r)
  BY <1>2, <1>3, GotoOrDone DEF Sign!Fail
<1>4. CASE \E c \in BOOLEAN : Sign!Attach(r, c)
  <2>1. /\ req[r] # Sign!Idle /\ Sign!Done(r)
        /\ UNCHANGED <<identity, row, accepted, raw>> /\ mails' = mails
    BY <1>4, RequestIs DEF Sign!Attach, SignInv
  <2>2. QED
    BY <1>2, <2>1, GotoOrDone
<1>5. QED
  BY <1>1, <1>3, <1>4, ExchangeKeeps, UpsertKeeps

LEMMA GatesKeep == SignInv /\ Sign!GatesNext => SignInv'
<1> SUFFICES ASSUME SignInv, Sign!GatesNext PROVE SignInv'
  OBVIOUS
<1>1. mails \in [People -> Nat]
  BY DEF SignInv, SignTypes
<1>2. ASSUME NEW r \in Requests, NEW n \in Nodes, NEW p \in People,
             \/ Sign!Start(r, n, p) \/ Sign!Verify(r, n, p)
             \/ Sign!Callback(r, n, p) \/ Sign!Refresh(r, n, p)
      PROVE  SignInv'
  BY <1>2, SignEnterKeeps DEF Sign!Start, Sign!Verify, Sign!Callback, Sign!Refresh
<1>3. ASSUME NEW r \in Requests, Sign!Consume(r)
      PROVE  SignInv'
  <2>1. /\ req[r] # Sign!Idle
        /\ UNCHANGED <<identity, row, accepted, raw>> /\ mails' = mails
    BY <1>3, RequestIs DEF Sign!Consume, SignInv
  <2>2. Sign!Following(req[r]) \in {"email", "send", "exchange"}
    BY DEF Sign!Following
  <2>3. Sign!Done(r) \/ Sign!Goto(r, Sign!Following(req[r]))
    BY <1>3 DEF Sign!Consume
  <2>4. QED
    BY <1>1, <2>1, <2>2, <2>3, GotoOrDone
<1>4. ASSUME NEW r \in Requests, Sign!CallbackListed(r)
      PROVE  SignInv'
  <2>1. /\ req[r] # Sign!Idle
        /\ UNCHANGED <<identity, row, accepted, raw>> /\ mails' = mails
        /\ Sign!Done(r) \/ Sign!Goto(r, "upsert")
    BY <1>4, RequestIs DEF Sign!CallbackListed, SignInv
  <2>2. QED
    BY <1>1, <2>1, GotoOrDone
<1>5. ASSUME UNCHANGED <<identity, row, accepted, mails, raw, req>>
      PROVE  SignInv'
  BY <1>5 DEF SignInv, SignTypes, NamesAreAccepted
<1>6. ASSUME NEW k \in Sign!Keys, Sign!WindowEnds(k)
      PROVE  SignInv'
  BY <1>5, <1>6 DEF Sign!WindowEnds
<1>7. ASSUME NEW p \in People, Sign!EndSession(p)
      PROVE  SignInv'
  BY <1>5, <1>7 DEF Sign!EndSession
<1>8. QED
  BY <1>2, <1>3, <1>4, <1>6, <1>7, EstablishKeeps, SendKeeps, EraseAccountKeeps, RestartKeeps
     DEF Sign!GatesNext

LEMMA ProfileKeeps == SignInv /\ Sign!ProfileNext => SignInv'
<1> SUFFICES ASSUME SignInv, Sign!ProfileNext PROVE SignInv'
  OBVIOUS
<1>1. ASSUME NEW r \in Requests, NEW n \in Nodes, NEW p \in People,
             Sign!Refresh(r, n, p) \/ Sign!Patch(r, n, p)
      PROVE  SignInv'
  BY <1>1, SignEnterKeeps DEF Sign!Refresh, Sign!Patch
<1>2. QED
  BY <1>1, EstablishKeeps, PatchLocalKeeps, PatchProviderKeeps, EraseAccountKeeps
     DEF Sign!ProfileNext

LEMMA SignStepKeeps ==
    SignInv /\ [Sign!GatesNext \/ Sign!ProfileNext]_(Sign!signVars) => SignInv'
<1>1. SignInv /\ UNCHANGED Sign!signVars => SignInv'
  BY DEF Sign!signVars, SignInv, SignTypes, NamesAreAccepted
<1>2. QED
  BY <1>1, GatesKeep, ProfileKeeps

LEMMA SignInvariance == Sign!SignSpec => []SignInv
<1>1. (\E before \in SUBSET People, k \in Keks : Sign!SignInit(before, k)) => SignInv
  BY SignInitHolds
<1>2. QED
  BY <1>1, SignStepKeeps, PTL DEF Sign!SignSpec

(* What MCCredentials does to the sign-in is what SignSpec allows.         *)
LEMMA SignsIn ==
    MCInit => \E before \in SUBSET People, k \in Keks : Sign!SignInit(before, k)
  BY PeopleAssumption DEF MCInit

LEMMA MCSignStep ==
    [MCNext]_<<part, personVars, warmVars>>
      => [Sign!GatesNext \/ Sign!ProfileNext]_(Sign!signVars)
  BY DEF MCNext, personVars, signVars, Sign!signVars

(* The account screen shows a name WorkOS accepted, for any number of      *)
(* nodes, people and requests of all routes beside each other, with sign-  *)
(* ins, PATCHes, erasures, restarts and failures in any order; alone and   *)
(* beside the rest of the credentials.                                     *)
THEOREM AcceptedNamesAreShown ==
    /\ Sign!SignSpec => []Sign!ShownNameWasAccepted
    /\ MCSpec => []ShownNameWasAccepted
<1>1. SignInv => Sign!ShownNameWasAccepted
  BY DEF SignInv, NamesAreAccepted, Sign!ShownNameWasAccepted
<1>2. Sign!SignSpec => []Sign!ShownNameWasAccepted
  BY <1>1, SignInvariance, PTL
<1>3. MCSpec => []SignInv
  <2>1. MCInit => SignInv
    BY SignsIn, SignInitHolds
  <2>2. QED
    BY <2>1, SignStepKeeps, MCSignStep, PTL DEF MCSpec
<1>4. MCSpec => []ShownNameWasAccepted
  BY <1>1, <1>3, PTL DEF ShownNameWasAccepted
<1>5. QED
  BY <1>2, <1>4

-----------------------------------------------------------------------------
(* The gates.  A request that a gate let in stays admitted, because a node *)
(* keeps its list while it serves one (Admitted); a list that is set names *)
(* somebody, because one that does not is a problem (ListsName).           *)
GeoServed(p) == ~(Enforced /\ Home[p] \in Restricted \cup Undetermined)

LooksAtList(q) ==
    \/ q.route \in {"start", "verify"}
    \/ q.route = "callback" /\ q.at \in {"upsert", "attach"}

Admitted(q) ==
    /\ q.route \in {"start", "verify", "callback"} => GeoServed(q.who)
    /\ LooksAtList(q) => Sign!OnList(q.node, q.who)

AllAdmitted == \A r \in Requests : req[r] # Sign!Idle => Admitted(req[r])

ListsName == \A n \in Nodes : raw[n] # Sign!Open => Sign!Listed(raw[n]) # {}

GateInv == SignInv /\ AllAdmitted /\ ListsName

LEMMA GeoAdmitted ==
    ASSUME NEW p \in People,
           NEW route, NEW n, Sign!MayEnter(route, n, p)
    PROVE  GeoServed(p)
<1>1. CASE ~Enforced
  BY <1>1 DEF GeoServed
<1>2. CASE Enforced
  <2>1. Sign!GeoAdmits(TRUE, <<Home[p]>>)
    BY <1>2 DEF Sign!MayEnter, Sign!GeoAdmits
  <2>2. LET c == Sign!normaliseCountry(<<Home[p]>>)
        IN  c \notin Restricted \cup Undetermined \cup {Sign!NoRecord}
    BY <1>2, <2>1 DEF Sign!GeoAdmits
  <2>3. Len(<<Home[p]>>) = 1 /\ <<Home[p]>>[1] = Home[p]
    OBVIOUS
  <2>4. Sign!normaliseCountry(<<Home[p]>>) \in {Home[p], Sign!NoRecord}
    BY <2>3, PeopleAssumption DEF Sign!normaliseCountry, EdgeInCapitals
  <2>5. QED
    BY <2>2, <2>4 DEF GeoServed
<1>3. QED
  BY <1>1, <1>2

(* A step of one request that leaves the lists alone.                      *)
LEMMA AdmittedMoves ==
    ASSUME GateInv, NEW r \in Requests, NEW new, req' = [req EXCEPT ![r] = new], raw' = raw,
           new = Sign!Idle \/ Admitted(new)
    PROVE  AllAdmitted' /\ ListsName'
<1>1. req'[r] = new /\ \A x \in Requests \ {r} : req'[x] = req[x]
  BY DEF GateInv, SignInv, SignTypes
<1>2. \A q : Admitted(q)' <=> Admitted(q)
  BY DEF Admitted, LooksAtList, Sign!OnList
<1>3. ASSUME NEW x \in Requests, NEW q, q = req'[x], q # Sign!Idle
      PROVE  Admitted(q)
  BY <1>1, <1>3 DEF GateInv, AllAdmitted
<1>4. AllAdmitted'
  <2>1. ASSUME NEW x \in Requests, (req[x] # Sign!Idle)'
        PROVE  Admitted(req[x])'
    <3>1. PICK q : q = req'[x]
      OBVIOUS
    <3>2. Admitted(q) /\ (Admitted(req[x])' <=> Admitted(q)')
      BY <1>3, <2>1, <3>1 DEF Admitted, LooksAtList, Sign!OnList
    <3>3. QED
      BY <1>2, <3>2
  <2>2. QED
    BY <2>1 DEF AllAdmitted
<1>5. ListsName'
  BY DEF GateInv, ListsName, Sign!Listed
<1>6. QED
  BY <1>4, <1>5

LEMMA SignEnterAdmits ==
    ASSUME GateInv, NEW r \in Requests, NEW n \in Nodes, NEW p \in People,
           \/ Sign!Start(r, n, p) \/ Sign!Verify(r, n, p) \/ Sign!Callback(r, n, p)
           \/ Sign!Refresh(r, n, p) \/ Sign!Patch(r, n, p)
    PROVE  AllAdmitted' /\ ListsName'
<1>1. ASSUME NEW route, NEW first, Sign!Enter(r, route, n, p, first),
             route \in {"start", "verify", "callback"} => GeoServed(p),
             route \in {"start", "verify"} => Sign!OnList(n, p),
             first \notin {"upsert", "attach"}
      PROVE  AllAdmitted' /\ ListsName'
  <2> DEFINE new == [route |-> route, node |-> n, who |-> p, at |-> first,
                     name |-> Sign!NoName]
  <2>1. req' = [req EXCEPT ![r] = new] /\ raw' = raw
    BY <1>1 DEF Sign!Enter
  <2>2. Admitted(new)
    BY <1>1 DEF Admitted, LooksAtList
  <2> HIDE DEF new
  <2>3. QED
    BY <2>1, <2>2, AdmittedMoves
<1>2. CASE Sign!Start(r, n, p)
  <2>1. Sign!MayEnter("start", n, p) /\ Sign!Enter(r, "start", n, p, "ip")
    BY <1>2 DEF Sign!Start
  <2>2. Sign!OnList(n, p)
    BY <2>1 DEF Sign!MayEnter, Sign!ListAdmits
  <2>3. QED
    BY <1>1, <2>1, <2>2, GeoAdmitted
<1>3. CASE Sign!Verify(r, n, p)
  <2>1. Sign!MayEnter("verify", n, p) /\ Sign!Enter(r, "verify", n, p, "ip")
    BY <1>3 DEF Sign!Verify
  <2>2. Sign!OnList(n, p)
    BY <2>1 DEF Sign!MayEnter, Sign!ListAdmits
  <2>3. QED
    BY <1>1, <2>1, <2>2, GeoAdmitted
<1>4. CASE Sign!Callback(r, n, p)
  BY <1>1, <1>4, GeoAdmitted DEF Sign!Callback
<1>5. CASE Sign!Refresh(r, n, p)
  BY <1>1, <1>5 DEF Sign!Refresh
<1>6. CASE Sign!Patch(r, n, p)
  BY <1>1, <1>6 DEF Sign!Patch
<1>7. QED
  BY <1>2, <1>3, <1>4, <1>5, <1>6

LEMMA MovedOnAdmits ==
    ASSUME GateInv, NEW r \in Requests, req[r] \in SignRequests,
           NEW at \in {"ip", "email", "send", "exchange", "list", "upsert", "attach", "local"},
           NEW name, raw' = raw,
           req' = [req EXCEPT ![r] = [req[r] EXCEPT !.at = at, !.name = name]],
           req[r].route = "callback" /\ at \in {"upsert", "attach"}
              => Sign!OnList(req[r].node, req[r].who)
    PROVE  AllAdmitted' /\ ListsName'
<1> DEFINE new == [req[r] EXCEPT !.at = at, !.name = name]
<1>1. /\ new.route = req[r].route /\ new.node = req[r].node /\ new.who = req[r].who
      /\ new.at = at
  BY DEF SignRequests
<1> HIDE DEF new
<1>2. Admitted(req[r])
  BY RequestIs DEF GateInv, SignInv, AllAdmitted
<1>3. Admitted(new)
  BY <1>1, <1>2 DEF Admitted, LooksAtList
<1>4. req' = [req EXCEPT ![r] = new]
  BY DEF new
<1>5. QED
  BY <1>3, <1>4, AdmittedMoves

LEMMA DoneAdmits ==
    ASSUME GateInv, NEW r \in Requests, Sign!Done(r), raw' = raw
    PROVE  AllAdmitted' /\ ListsName'
<1>1. req' = [req EXCEPT ![r] = Sign!Idle]
  BY DEF Sign!Done
<1>2. QED
  BY <1>1, AdmittedMoves

LEMMA GotoAdmits ==
    ASSUME GateInv, NEW r \in Requests, req[r] \in SignRequests, raw' = raw,
           NEW at \in {"ip", "email", "send", "exchange", "list", "upsert", "attach"},
           Sign!Goto(r, at),
           req[r].route = "callback" /\ at \in {"upsert", "attach"}
              => Sign!OnList(req[r].node, req[r].who)
    PROVE  AllAdmitted' /\ ListsName'
<1> DEFINE new == [req[r] EXCEPT !.at = at]
<1>1. /\ new.route = req[r].route /\ new.node = req[r].node /\ new.who = req[r].who
      /\ new.at = at
  BY DEF SignRequests
<1>2. req' = [req EXCEPT ![r] = new]
  BY DEF Sign!Goto
<1> HIDE DEF new
<1>3. Admitted(req[r])
  BY RequestIs DEF GateInv, SignInv, AllAdmitted
<1>4. Admitted(new)
  BY <1>1, <1>3 DEF Admitted, LooksAtList
<1>5. QED
  BY <1>2, <1>4, AdmittedMoves

(* Only a node that serves nobody takes another list.                      *)
LEMMA RestartAdmits ==
    ASSUME GateInv, NEW n \in Nodes, NEW list \in RawLists, NEW k, Sign!Restart(n, list, k)
    PROVE  AllAdmitted' /\ ListsName'
<1>1. /\ \A r \in Requests : req[r] # Sign!Idle => req[r].node # n
      /\ raw' = [raw EXCEPT ![n] = list] /\ req' = req
      /\ list # Sign!Open => Sign!Listed(list) # {}
  BY DEF Sign!Restart, Sign!Problems
<1>2. raw'[n] = list /\ \A m \in Nodes \ {n} : raw'[m] = raw[m]
  BY <1>1 DEF GateInv, SignInv, SignTypes
<1>3. ASSUME NEW q, q.node \in Nodes \ {n}
      PROVE  Admitted(q)' <=> Admitted(q)
  BY <1>2, <1>3 DEF Admitted, LooksAtList, Sign!OnList
<1>4. AllAdmitted'
  <2>1. ASSUME NEW r \in Requests, req[r] # Sign!Idle
        PROVE  Admitted(req[r])'
    <3>1. PICK q : q = req[r]
      OBVIOUS
    <3>2. Admitted(q) /\ q.node \in Nodes \ {n}
      BY <1>1, <2>1, <3>1, RequestIs DEF GateInv, SignInv, AllAdmitted, SignRequests
    <3>3. Admitted(q)' /\ q = req'[r]
      BY <1>1, <1>3, <3>1, <3>2
    <3>4. QED
      BY <3>3 DEF Admitted, LooksAtList, Sign!OnList
  <2>2. QED
    BY <1>1, <2>1 DEF AllAdmitted
<1>5. ListsName'
  <2>1. ASSUME NEW m \in Nodes, raw'[m] # Sign!Open
        PROVE  Sign!Listed(raw'[m]) # {}
    BY <1>1, <1>2, <2>1 DEF GateInv, ListsName
  <2>2. QED
    BY <2>1 DEF ListsName, Sign!Listed
<1>6. QED
  BY <1>4, <1>5

LEMMA EstablishAdmits == GateInv /\ Sign!EstablishNext => AllAdmitted' /\ ListsName'
<1> SUFFICES ASSUME GateInv, Sign!EstablishNext PROVE AllAdmitted' /\ ListsName'
  OBVIOUS
<1>1. PICK r \in Requests : \/ Sign!Exchange(r) \/ Sign!Upsert(r) \/ Sign!Fail(r)
                           \/ \E c \in BOOLEAN : Sign!Attach(r, c)
  BY DEF Sign!EstablishNext
<1>2. CASE Sign!Exchange(r)
  <2> DEFINE at == IF req[r].route = "callback" THEN "list" ELSE "upsert"
             name == identity'[req[r].who]
  <2>1. /\ req[r].route # "idle" /\ raw' = raw
        /\ req' = [req EXCEPT ![r] = [req[r] EXCEPT !.at = at, !.name = name]]
    BY <1>2 DEF Sign!Exchange
  <2>2. req[r] \in SignRequests
    BY <2>1, RequestIs DEF GateInv, SignInv
  <2>3. at \in {"list", "upsert"} /\ (req[r].route = "callback" => at = "list")
    OBVIOUS
  <2> HIDE DEF at, name
  <2>4. PICK a, nm : a = at /\ nm = name
    OBVIOUS
  <2>5. QED
    BY <2>1, <2>2, <2>3, <2>4, MovedOnAdmits
<1>3. CASE Sign!Upsert(r)
  <2>1. /\ req[r] \in SignRequests /\ raw' = raw /\ Sign!Goto(r, "attach")
        /\ req[r].at = "upsert"
    BY <1>3, RequestIs DEF Sign!Upsert, GateInv, SignInv
  <2>2. req[r].route = "callback" => Sign!OnList(req[r].node, req[r].who)
    BY <2>1, RequestIs DEF GateInv, SignInv, AllAdmitted, Admitted, LooksAtList
  <2>3. QED
    BY <2>1, <2>2, GotoAdmits
<1>4. CASE Sign!Fail(r)
  BY <1>4, DoneAdmits DEF Sign!Fail
<1>5. CASE \E c \in BOOLEAN : Sign!Attach(r, c)
  BY <1>5, DoneAdmits DEF Sign!Attach
<1>6. QED
  BY <1>1, <1>2, <1>3, <1>4, <1>5

LEMMA GatesAdmit ==
    ASSUME GateInv, Sign!GatesNext
    PROVE  AllAdmitted' /\ ListsName'
<1>1. ASSUME NEW r \in Requests, Sign!Consume(r)
      PROVE  AllAdmitted' /\ ListsName'
  <2>1. /\ req[r] \in SignRequests /\ raw' = raw /\ req[r].route \in {"start", "verify"}
        /\ Sign!Done(r) \/ Sign!Goto(r, Sign!Following(req[r]))
    BY <1>1, RequestIs DEF Sign!Consume, GateInv, SignInv
  <2>2. Sign!Following(req[r]) \in {"email", "send", "exchange"}
    BY DEF Sign!Following
  <2>3. PICK at : at = Sign!Following(req[r])
    OBVIOUS
  <2>4. CASE Sign!Done(r)
    BY <2>1, <2>4, DoneAdmits
  <2>5. CASE Sign!Goto(r, at)
    BY <2>1, <2>2, <2>3, <2>5, GotoAdmits
  <2>6. QED
    BY <2>1, <2>3, <2>4, <2>5
<1>2. ASSUME NEW r \in Requests, Sign!Send(r)
      PROVE  AllAdmitted' /\ ListsName'
  BY <1>2, DoneAdmits DEF Sign!Send
<1>3. ASSUME NEW r \in Requests, Sign!CallbackListed(r)
      PROVE  AllAdmitted' /\ ListsName'
  <2>1. /\ req[r] \in SignRequests /\ raw' = raw
        /\ \/ Sign!Done(r)
           \/ Sign!OnList(req[r].node, req[r].who) /\ Sign!Goto(r, "upsert")
    BY <1>3, RequestIs DEF Sign!CallbackListed, GateInv, SignInv
  <2>2. QED
    BY <2>1, DoneAdmits, GotoAdmits
<1>4. ASSUME UNCHANGED <<raw, req>>
      PROVE  AllAdmitted' /\ ListsName'
  BY <1>4 DEF GateInv, AllAdmitted, Admitted, LooksAtList, ListsName, Sign!OnList, Sign!Listed
<1>5. ASSUME NEW k \in Sign!Keys, Sign!WindowEnds(k)
      PROVE  AllAdmitted' /\ ListsName'
  BY <1>4, <1>5 DEF Sign!WindowEnds
<1>6. ASSUME NEW p \in People, Sign!EndSession(p) \/ \E t \in BOOLEAN : Sign!EraseAccount(p, t)
      PROVE  AllAdmitted' /\ ListsName'
  BY <1>4, <1>6 DEF Sign!EndSession, Sign!EraseAccount
<1>7. QED
  BY <1>1, <1>2, <1>3, <1>5, <1>6, EstablishAdmits, SignEnterAdmits, RestartAdmits
     DEF Sign!GatesNext

LEMMA ProfileAdmits ==
    ASSUME GateInv, Sign!ProfileNext
    PROVE  AllAdmitted' /\ ListsName'
<1>1. ASSUME NEW r \in Requests, Sign!PatchLocal(r)
      PROVE  AllAdmitted' /\ ListsName'
  BY <1>1, DoneAdmits DEF Sign!PatchLocal
<1>2. ASSUME NEW r \in Requests, NEW nm \in Sign!Names, Sign!PatchProvider(r, nm)
      PROVE  AllAdmitted' /\ ListsName'
  <2>1. /\ req[r] \in SignRequests /\ raw' = raw
        /\ req' = [req EXCEPT ![r] = [req[r] EXCEPT !.at = "local", !.name = nm]]
    BY <1>2, RequestIs DEF Sign!PatchProvider, GateInv, SignInv
  <2>2. QED
    BY <2>1, MovedOnAdmits
<1>3. ASSUME NEW p \in People, NEW t \in BOOLEAN, Sign!EraseAccount(p, t)
      PROVE  AllAdmitted' /\ ListsName'
  BY <1>3 DEF Sign!EraseAccount, GateInv, AllAdmitted, Admitted, LooksAtList, ListsName,
              Sign!OnList, Sign!Listed
<1>4. QED
  BY <1>1, <1>2, <1>3, EstablishAdmits, SignEnterAdmits DEF Sign!ProfileNext

(* Whom the gates refuse: no admitted request of theirs is under way.      *)
LEMMA UnservedIsRefused ==
    ASSUME GateInv, NEW r \in Requests, req[r] \in SignRequests,
           NEW p \in People, p = req[r].who, Sign!Unserved(p),
           req[r].route \in {"start", "verify", "callback"}, LooksAtList(req[r])
    PROVE  FALSE
<1>1. Admitted(req[r]) /\ req[r].node \in Nodes
  BY RequestIs DEF GateInv, SignInv, AllAdmitted, SignRequests
<1>2. PICK n \in Nodes : n = req[r].node
  BY <1>1
<1>3. GeoServed(p) /\ Sign!OnList(n, p)
  BY <1>1, <1>2 DEF Admitted
<1>4. raw[n] # Sign!Open /\ p \notin Sign!Listed(raw[n])
  BY <1>3 DEF Sign!Unserved, GeoServed
<1>5. Sign!Listed(raw[n]) # {}
  BY <1>4 DEF GateInv, ListsName
<1>6. QED
  BY <1>3, <1>4, <1>5 DEF Sign!OnList

NoTrace ==
    \A p \in People : Sign!Unserved(p) =>
        /\ mails'[p] = mails[p]
        /\ row[p] = Sign!NoRecord /\ row'[p] # Sign!NoRecord =>
              \E r \in Requests : /\ req[r] # Sign!Idle /\ req[r].route = "refresh"
                                  /\ req[r].who = p /\ req[r].at = "upsert"

LEMMA SendLeavesNone ==
    ASSUME GateInv, NEW r \in Requests, Sign!Send(r)
    PROVE  NoTrace
<1>1. /\ req[r] \in SignRequests /\ req[r].route = "start"
      /\ mails' = [mails EXCEPT ![req[r].who] = mails[req[r].who] + 1] /\ row' = row
  BY RequestIs DEF Sign!Send, GateInv, SignInv
<1>2. req[r].who \in People
  BY <1>1 DEF SignRequests
<1>3. ASSUME NEW p \in People, Sign!Unserved(p)
      PROVE  mails'[p] = mails[p]
  <2>1. p # req[r].who
    BY <1>1, <1>3, UnservedIsRefused DEF LooksAtList
  <2>2. QED
    BY <1>1, <1>2, <2>1 DEF GateInv, SignInv, SignTypes
<1>4. QED
  BY <1>1, <1>3 DEF NoTrace

LEMMA UpsertLeavesNone ==
    ASSUME GateInv, NEW r \in Requests, Sign!Upsert(r)
    PROVE  NoTrace
<1>1. /\ req[r] \in SignRequests /\ req[r] # Sign!Idle
      /\ req[r].route \in {"verify", "callback", "refresh"} /\ req[r].at = "upsert"
      /\ mails' = mails
      /\ row' = [row EXCEPT ![req[r].who] = Sign!Upserted(row[req[r].who], req[r].name)]
  BY RequestIs DEF Sign!Upsert, GateInv, SignInv
<1>2. req[r].who \in People
  BY <1>1 DEF SignRequests
<1>3. ASSUME NEW p \in People, Sign!Unserved(p), row[p] = Sign!NoRecord,
             row'[p] # Sign!NoRecord
      PROVE  req[r].route = "refresh" /\ req[r].who = p
  <2>1. p = req[r].who
    BY <1>1, <1>2, <1>3 DEF GateInv, SignInv, SignTypes
  <2>2. req[r].route = "refresh"
    BY <1>1, <1>3, <2>1, UnservedIsRefused DEF LooksAtList
  <2>3. QED
    BY <2>1, <2>2
<1>4. QED
  BY <1>1, <1>3 DEF NoTrace

(* No other step mails anybody or opens an account.                        *)
LEMMA OthersLeaveNone ==
    ASSUME GateInv, mails' = mails,
           \A p \in People : row[p] = Sign!NoRecord => row'[p] = Sign!NoRecord
    PROVE  NoTrace
  BY DEF NoTrace

LEMMA EstablishLeavesNone == GateInv /\ Sign!EstablishNext => NoTrace
<1> SUFFICES ASSUME GateInv, Sign!EstablishNext PROVE NoTrace
  OBVIOUS
<1>1. PICK r \in Requests : \/ Sign!Exchange(r) \/ Sign!Upsert(r) \/ Sign!Fail(r)
                           \/ \E c \in BOOLEAN : Sign!Attach(r, c)
  BY DEF Sign!EstablishNext
<1>2. CASE Sign!Exchange(r)
  BY <1>2, OthersLeaveNone DEF Sign!Exchange
<1>3. CASE Sign!Fail(r)
  BY <1>3, OthersLeaveNone DEF Sign!Fail
<1>4. CASE \E c \in BOOLEAN : Sign!Attach(r, c)
  BY <1>4, OthersLeaveNone DEF Sign!Attach
<1>5. QED
  BY <1>1, <1>2, <1>3, <1>4, UpsertLeavesNone

LEMMA EraseLeavesNone ==
    ASSUME GateInv, NEW p \in People, NEW t \in BOOLEAN, Sign!EraseAccount(p, t)
    PROVE  NoTrace
<1>1. mails' = mails /\ row' = [row EXCEPT ![p] = Sign!NoRecord]
  BY DEF Sign!EraseAccount
<1>2. \A x \in People : row[x] = Sign!NoRecord => row'[x] = Sign!NoRecord
  BY <1>1 DEF GateInv, SignInv, SignTypes
<1>3. QED
  BY <1>1, <1>2, OthersLeaveNone

LEMMA StepLeavesNone ==
    ASSUME GateInv, Sign!GatesNext \/ Sign!ProfileNext
    PROVE  NoTrace
<1>1. ASSUME UNCHANGED <<mails, row>>
      PROVE  NoTrace
  BY <1>1, OthersLeaveNone
<1>2. ASSUME NEW r \in Requests, NEW n \in Nodes, NEW p \in People,
             \/ Sign!Start(r, n, p) \/ Sign!Verify(r, n, p) \/ Sign!Callback(r, n, p)
             \/ Sign!Refresh(r, n, p) \/ Sign!Patch(r, n, p)
      PROVE  NoTrace
  BY <1>1, <1>2 DEF Sign!Start, Sign!Verify, Sign!Callback, Sign!Refresh, Sign!Patch, Sign!Enter
<1>3. ASSUME NEW r \in Requests, Sign!Consume(r) \/ Sign!CallbackListed(r)
      PROVE  NoTrace
  BY <1>1, <1>3 DEF Sign!Consume, Sign!CallbackListed
<1>4. ASSUME NEW r \in Requests, Sign!PatchLocal(r)
      PROVE  NoTrace
  <2>1. /\ mails' = mails
        /\ row' = [row EXCEPT ![req[r].who] = IF row[req[r].who] = Sign!NoRecord
                                               THEN row[req[r].who] ELSE req[r].name]
    BY <1>4 DEF Sign!PatchLocal
  <2>2. \A x \in People : row[x] = Sign!NoRecord => row'[x] = Sign!NoRecord
    BY <2>1 DEF GateInv, SignInv, SignTypes
  <2>3. QED
    BY <2>1, <2>2, OthersLeaveNone
<1>5. ASSUME NEW r \in Requests, NEW nm \in Sign!Names, Sign!PatchProvider(r, nm)
      PROVE  NoTrace
  BY <1>1, <1>5 DEF Sign!PatchProvider
<1>6. ASSUME NEW k \in Sign!Keys, Sign!WindowEnds(k)
      PROVE  NoTrace
  BY <1>1, <1>6 DEF Sign!WindowEnds
<1>7. ASSUME NEW p \in People, Sign!EndSession(p)
      PROVE  NoTrace
  BY <1>1, <1>7 DEF Sign!EndSession
<1>8. ASSUME NEW n \in Nodes, NEW l \in RawLists, NEW k \in Keks, Sign!Restart(n, l, k)
      PROVE  NoTrace
  BY <1>1, <1>8 DEF Sign!Restart
<1>9. CASE Sign!GatesNext
  BY <1>2, <1>3, <1>6, <1>7, <1>8, <1>9, EstablishLeavesNone, SendLeavesNone, EraseLeavesNone
     DEF Sign!GatesNext
<1>10. CASE Sign!ProfileNext
  BY <1>2, <1>4, <1>5, <1>10, EstablishLeavesNone, EraseLeavesNone DEF Sign!ProfileNext
<1>11. QED
  BY <1>9, <1>10

(* The two gates: nobody they refuse is mailed or gets an account, for any *)
(* number of nodes, people and requests, any lists and countries and any   *)
(* restarts; EdgeInCapitals is what it needs of the edge.                  *)
THEOREM RefusalsLeaveNoTrace ==
    /\ Sign!SignSpec => Sign!RefusedLeaveNoTrace
    /\ MCSpec => RefusedLeaveNoTrace
<1>1. ASSUME NEW before \in SUBSET People, NEW k \in Keks, Sign!SignInit(before, k)
      PROVE  GateInv
  <2>1. raw = [n \in Nodes |-> Sign!Open] /\ req = [r \in Requests |-> Sign!Idle]
    BY <1>1 DEF Sign!SignInit
  <2>2. QED
    BY <1>1, <2>1, SignInitHolds DEF GateInv, AllAdmitted, ListsName
<1>2. GateInv /\ [Sign!GatesNext \/ Sign!ProfileNext]_(Sign!signVars) => GateInv'
  <2>1. GateInv /\ (Sign!GatesNext \/ Sign!ProfileNext) => GateInv'
    BY GatesKeep, ProfileKeeps, GatesAdmit, ProfileAdmits DEF GateInv
  <2>2. GateInv /\ UNCHANGED Sign!signVars => GateInv'
    <3>1. SignInv /\ UNCHANGED Sign!signVars => SignInv'
      BY DEF Sign!signVars, SignInv, SignTypes, NamesAreAccepted
    <3>2. AllAdmitted /\ UNCHANGED Sign!signVars => AllAdmitted'
      BY DEF Sign!signVars, AllAdmitted, Admitted, LooksAtList, Sign!OnList
    <3>3. ListsName /\ UNCHANGED Sign!signVars => ListsName'
      BY DEF Sign!signVars, ListsName, Sign!Listed
    <3>4. QED
      BY <3>1, <3>2, <3>3 DEF GateInv
  <2>3. QED
    BY <2>1, <2>2
<1>3. GateInv /\ [Sign!GatesNext \/ Sign!ProfileNext]_(Sign!signVars)
         => [NoTrace]_(Sign!signVars)
  BY StepLeavesNone
<1>4. (\E before \in SUBSET People, k \in Keks : Sign!SignInit(before, k)) => GateInv
  BY <1>1
<1>5. Sign!SignSpec => [][NoTrace]_(Sign!signVars)
  BY <1>2, <1>3, <1>4, PTL DEF Sign!SignSpec
<1>6. Sign!SignSpec => Sign!RefusedLeaveNoTrace
  BY <1>5 DEF NoTrace, Sign!RefusedLeaveNoTrace
<1>7. MCSpec => [][NoTrace]_(Sign!signVars)
  BY <1>2, <1>3, <1>4, SignsIn, MCSignStep, PTL DEF MCSpec
<1>8. MCSpec => RefusedLeaveNoTrace
  BY <1>7 DEF NoTrace, RefusedLeaveNoTrace, Sign!RefusedLeaveNoTrace
<1>9. QED
  BY <1>6, <1>8

-----------------------------------------------------------------------------
(* The warmer.  What has gone by since the deadline is told by the stage:  *)
(* before a stage that was entered with the deadline ahead, only the time  *)
(* of that stage (Timely).                                                 *)

Timely(r) ==
    /\ phase[r] = "idle" => warming[r] = "query"
    /\ phase[r] = "musicbrainz" /\ warming[r] = "query" =>
           waited[r] <= DbTime /\ elapsed[r] <= DbTime + waited[r]
    /\ phase[r] = "musicbrainz" /\ warming[r] = "loop" => elapsed[r] < RunDeadline + Warm!Slip
    /\ phase[r] \in {"musicbrainz", "itunes"} /\ warming[r] = "pace" =>
           /\ elapsed[r] < RunDeadline + waited[r]
           /\ waited[r] <= since[r] /\ waited[r] <= Warm!Longest
    /\ phase[r] \in {"musicbrainz", "itunes"} /\ warming[r] = "call" =>
           elapsed[r] < RunDeadline + waited[r] /\ waited[r] <= CallTime
    /\ phase[r] = "itunes" /\ warming[r] = "query" =>
           /\ waited[r] <= DbTime
           /\ elapsed[r] < RunDeadline + Warm!Slip + waited[r]
    /\ phase[r] = "itunes" /\ warming[r] = "loop" =>
           elapsed[r] < RunDeadline + Warm!Slip + DbTime
    /\ phase[r] = "unlock" =>
           /\ warming[r] = "query" /\ waited[r] <= DbTime
           /\ elapsed[r] < RunDeadline + Warm!Slip + DbTime + waited[r]

WarmTypes ==
    /\ phase \in [Runs -> {"idle", "musicbrainz", "itunes", "unlock"}]
    /\ warming \in [Runs -> {"query", "loop", "pace", "call"}]
    /\ elapsed \in [Runs -> Nat] /\ waited \in [Runs -> Nat] /\ since \in [Runs -> Nat]

WarmInv == WarmTypes /\ \A r \in Runs : Timely(r)

LEMMA TimesAreNumbers ==
    /\ MbInterval \in Nat /\ ItInterval \in Nat /\ RunDeadline \in Nat
    /\ CallTime \in Nat /\ DbTime \in Nat
    /\ 2 * DbTime < RunDeadline
    /\ Warm!Longest \in Nat /\ Warm!Slip \in Nat
    /\ Warm!Longest <= Warm!Slip /\ CallTime <= Warm!Slip
    /\ \A p : Warm!Interval(p) \in Nat /\ Warm!Interval(p) <= Warm!Longest
  BY TimesAssumption
  DEF TimesAssumption, Warm!Times, Warm!Longest, Warm!Slip, Warm!Interval

(* A phase that ends leaves the deadline behind by one slip at most, or by *)
(* a statement more when it was the second.                                *)
LEMMA PhaseEndKeeps ==
    ASSUME WarmInv, NEW r \in Runs, NEW p \in {"idle", "itunes", "unlock"},
           Warm!Reset(r, p), elapsed' = elapsed,
           \/ p = "idle"
           \/ elapsed[r] < RunDeadline + Warm!Slip
           \/ p = "unlock" /\ elapsed[r] < RunDeadline + Warm!Slip + DbTime
    PROVE  WarmInv'
<1>1. /\ phase' = [phase EXCEPT ![r] = p] /\ warming' = [warming EXCEPT ![r] = "query"]
      /\ waited' = [waited EXCEPT ![r] = 0] /\ since' = [since EXCEPT ![r] = Warm!Longest]
  BY DEF Warm!Reset, Warm!Enter, Warm!Set
<1>2. WarmTypes'
  BY <1>1, TimesAreNumbers DEF WarmInv, WarmTypes
<1>3. ASSUME NEW q \in Runs PROVE Timely(q)'
  <2>1. CASE q = r
    BY <1>1, <2>1, TimesAreNumbers DEF WarmInv, WarmTypes, Timely
  <2>2. CASE q # r
    BY <1>1, <2>2 DEF WarmInv, WarmTypes, Timely
  <2>3. QED
    BY <2>1, <2>2
<1>4. QED
  BY <1>2, <1>3 DEF WarmInv

(* A step that moves run r to another stage.                               *)
LEMMA StageKeeps ==
    ASSUME WarmInv, NEW r \in Runs, NEW st \in {"query", "loop", "pace", "call"},
           Warm!Enter(r, st), NEW p \in {"idle", "musicbrainz", "itunes", "unlock"},
           phase' = [phase EXCEPT ![r] = p],
           NEW e \in Nat, elapsed' = [elapsed EXCEPT ![r] = e],
           since' = since \/ since' = [since EXCEPT ![r] = 0],
           p \in {"idle", "unlock"} => st = "query",
           \/ p = "idle"
           \/ p = "musicbrainz" /\ st = "query" /\ e <= DbTime
           \/ st \in {"pace", "call"} /\ e < RunDeadline
           \/ st = "loop" /\ e < RunDeadline + Warm!Slip
           \/ st = "loop" /\ p = "itunes" /\ e < RunDeadline + Warm!Slip + DbTime
           \/ p = "unlock" /\ e < RunDeadline + Warm!Slip + DbTime
    PROVE  WarmInv'
<1>1. /\ warming' = [warming EXCEPT ![r] = st]
      /\ waited' = [waited EXCEPT ![r] = 0]
  BY DEF Warm!Enter, Warm!Set
<1>2. WarmTypes'
  BY <1>1 DEF WarmInv, WarmTypes
<1>3. ASSUME NEW q \in Runs PROVE Timely(q)'
  <2>1. CASE q = r
    <3>1. /\ phase'[q] = p /\ warming'[q] = st /\ waited'[q] = 0 /\ elapsed'[q] = e
          /\ since'[q] \in Nat
      BY <1>1, <1>2, <2>1 DEF WarmInv, WarmTypes
    <3>2. QED
      BY <3>1, TimesAreNumbers DEF Timely
  <2>2. CASE q # r
    BY <1>1, <2>2 DEF WarmInv, WarmTypes, Timely
  <2>3. QED
    BY <2>1, <2>2
<1>4. QED
  BY <1>2, <1>3 DEF WarmInv

LEMMA WaitKeeps ==
    ASSUME WarmInv, Warm!Tick
    PROVE  WarmInv'
<1>1. WarmTypes'
  BY TimesAreNumbers DEF WarmInv, WarmTypes, Warm!Tick, Warm!Up
<1>2. ASSUME NEW r \in Runs PROVE Timely(r)'
  <2>1. Timely(r) /\ Warm!Patient(r) /\ phase' = phase /\ warming' = warming
    BY DEF WarmInv, Warm!Tick
  <2>2. CASE phase[r] = "idle"
    BY <2>1, <2>2 DEF Timely
  <2>3. CASE phase[r] # "idle"
    <3>1. /\ elapsed'[r] = elapsed[r] + 1 /\ waited'[r] = waited[r] + 1
          /\ since'[r] = IF since[r] < Warm!Longest THEN since[r] + 1 ELSE since[r]
      BY <2>3 DEF WarmInv, WarmTypes, Warm!Tick, Warm!Up
    <3>2. elapsed[r] \in Nat /\ waited[r] \in Nat /\ since[r] \in Nat
      BY DEF WarmInv, WarmTypes
    <3>3. CASE warming[r] = "query"
      <4>1. waited[r] < DbTime
        BY <2>1, <2>3, <3>3 DEF Warm!Patient
      <4>2. QED
        BY <2>1, <2>3, <3>1, <3>2, <3>3, <4>1, TimesAreNumbers DEF Timely
    <3>4. CASE warming[r] = "pace"
      <4>1. since[r] < Warm!Interval(phase[r])
        BY <2>1, <2>3, <3>4 DEF Warm!Patient
      <4>2. since[r] < Warm!Longest
        BY <3>2, <4>1, TimesAreNumbers
      <4>3. QED
        BY <2>1, <2>3, <3>1, <3>2, <3>4, <4>2, TimesAreNumbers DEF Timely
    <3>5. CASE warming[r] = "call"
      <4>1. waited[r] < CallTime
        BY <2>1, <2>3, <3>5 DEF Warm!Patient
      <4>2. QED
        BY <2>1, <2>3, <3>1, <3>2, <3>5, <4>1, TimesAreNumbers DEF Timely
    <3>6. QED
      BY <2>1, <2>3, <3>3, <3>4, <3>5 DEF Warm!Patient
  <2>4. QED
    BY <2>2, <2>3
<1>3. QED
  BY <1>1, <1>2 DEF WarmInv

LEMMA CallReturns ==
    ASSUME WarmInv, NEW r \in Runs, Warm!Returns(r)
    PROVE  WarmInv'
<1>1. warming[r] = "call" /\ elapsed' = elapsed
  BY DEF Warm!Returns, Warm!Answered, Warm!Failed, Warm!Contention, Warm!Defect,
         Warm!Resolved, Warm!Settle
<1>2. phase[r] \in {"musicbrainz", "itunes"} /\ elapsed[r] \in Nat
  BY <1>1 DEF WarmInv, WarmTypes, Timely
<1>3. elapsed[r] < RunDeadline + Warm!Slip
  BY <1>1, <1>2, TimesAreNumbers DEF WarmInv, WarmTypes, Timely
<1>4. CASE Warm!Reset(r, "unlock")
  BY <1>1, <1>3, <1>4, PhaseEndKeeps
<1>5. CASE Warm!Enter(r, "loop") /\ UNCHANGED <<phase, since>>
  <2>1. /\ phase' = [phase EXCEPT ![r] = phase[r]]
        /\ elapsed' = [elapsed EXCEPT ![r] = elapsed[r]]
    BY <1>1, <1>5 DEF WarmInv, WarmTypes
  <2>2. QED
    BY <1>2, <1>3, <1>5, <2>1, StageKeeps
<1>6. QED
  BY <1>4, <1>5
  DEF Warm!Returns, Warm!Answered, Warm!Failed, Warm!Contention, Warm!Defect,
      Warm!Resolved, Warm!Settle

LEMMA PhaseEnds ==
    ASSUME WarmInv, NEW r \in Runs, Warm!EndPhase(r), elapsed' = elapsed,
           warming[r] \in {"loop", "pace"}
    PROVE  WarmInv'
<1>1. /\ phase[r] \in {"musicbrainz", "itunes"}
      /\ elapsed[r] \in Nat /\ waited[r] \in Nat
  BY DEF WarmInv, WarmTypes, Timely
<1>2. CASE phase[r] = "musicbrainz"
  <2>1. elapsed[r] < RunDeadline + Warm!Slip
    BY <1>1, <1>2, TimesAreNumbers DEF WarmInv, Timely
  <2>2. Warm!Reset(r, "itunes")
    BY <1>2 DEF Warm!EndPhase, Warm!Reset, Warm!Set
  <2>3. QED
    BY <2>1, <2>2, PhaseEndKeeps
<1>3. CASE phase[r] = "itunes"
  <2>1. elapsed[r] < RunDeadline + Warm!Slip + DbTime
    BY <1>1, <1>3, TimesAreNumbers DEF WarmInv, Timely
  <2>2. Warm!Reset(r, "unlock")
    BY <1>3 DEF Warm!EndPhase, Warm!Reset, Warm!Set
  <2>3. QED
    BY <2>1, <2>2, PhaseEndKeeps
<1>4. QED
  BY <1>1, <1>2, <1>3

LEMMA RunSteps ==
    ASSUME WarmInv, NEW r \in Runs, Warm!Step(r)
    PROVE  WarmInv'
<1>1. elapsed[r] \in Nat /\ waited[r] \in Nat
  BY DEF WarmInv, WarmTypes
<1>2. ASSUME Warm!Begin(r) PROVE WarmInv'
  <2>1. PICK w \in 0 .. DbTime : elapsed' = [elapsed EXCEPT ![r] = w]
    BY <1>2 DEF Warm!Begin, Warm!Set
  <2>2. w \in Nat /\ w <= DbTime
    BY TimesAreNumbers
  <2>3. /\ Warm!Enter(r, "query") /\ phase' = [phase EXCEPT ![r] = "musicbrainz"]
        /\ since' = since
    BY <1>2 DEF Warm!Begin, Warm!Set
  <2>4. QED
    BY <2>1, <2>2, <2>3, StageKeeps
<1>3. ASSUME Warm!Query(r) PROVE WarmInv'
  <2>1. /\ Warm!Enter(r, "loop") /\ phase' = [phase EXCEPT ![r] = phase[r]]
        /\ elapsed' = [elapsed EXCEPT ![r] = elapsed[r]] /\ since' = since
        /\ phase[r] \in {"musicbrainz", "itunes"} /\ warming[r] = "query"
    BY <1>3 DEF Warm!Query, WarmInv, WarmTypes
  <2>2. \/ elapsed[r] < RunDeadline + Warm!Slip
        \/ phase[r] = "itunes" /\ elapsed[r] < RunDeadline + Warm!Slip + DbTime
    BY <1>1, <2>1, TimesAreNumbers DEF WarmInv, Timely
  <2>3. QED
    BY <1>1, <2>1, <2>2, StageKeeps
<1>4. ASSUME Warm!QueryFails(r) PROVE WarmInv'
  <2>1. /\ Warm!Enter(r, "query") /\ phase' = [phase EXCEPT ![r] = "unlock"]
        /\ elapsed' = [elapsed EXCEPT ![r] = elapsed[r]] /\ since' = since
        /\ phase[r] \in {"musicbrainz", "itunes"} /\ warming[r] = "query"
    BY <1>4 DEF Warm!QueryFails, Warm!progress, Warm!Set, WarmInv, WarmTypes
  <2>2. elapsed[r] < RunDeadline + Warm!Slip + DbTime
    BY <1>1, <2>1, TimesAreNumbers DEF WarmInv, Timely
  <2>3. QED
    BY <1>1, <2>1, <2>2, StageKeeps
<1>5. ASSUME Warm!Loop(r) PROVE WarmInv'
  <2>1. CASE Warm!EndPhase(r) /\ UNCHANGED elapsed
    BY <1>5, <2>1, PhaseEnds DEF Warm!Loop
  <2>2. CASE ~(Warm!EndPhase(r) /\ UNCHANGED elapsed)
    <3>1. /\ Warm!Enter(r, "pace") /\ phase' = [phase EXCEPT ![r] = phase[r]]
          /\ elapsed' = [elapsed EXCEPT ![r] = elapsed[r]] /\ since' = since
          /\ elapsed[r] < RunDeadline /\ warming[r] = "loop"
      BY <1>5, <2>2
      DEF Warm!Loop, Warm!progress, Warm!MayContinue, WarmInv, WarmTypes
    <3>2. phase[r] \in {"musicbrainz", "itunes"}
      BY <3>1 DEF WarmInv, WarmTypes, Timely
    <3>3. QED
      BY <1>1, <3>1, <3>2, StageKeeps
  <2>3. QED
    BY <2>1, <2>2
<1>6. ASSUME Warm!Dispatch(r) PROVE WarmInv'
  <2>1. warming[r] = "pace" /\ elapsed' = elapsed
    BY <1>6 DEF Warm!Dispatch
  <2>2. CASE Warm!MayContinue(r)
    <3>1. /\ Warm!Enter(r, "call") /\ phase' = [phase EXCEPT ![r] = phase[r]]
          /\ elapsed' = [elapsed EXCEPT ![r] = elapsed[r]]
          /\ since' = [since EXCEPT ![r] = 0] /\ elapsed[r] < RunDeadline
      BY <1>6, <2>2
      DEF Warm!Dispatch, Warm!Send, Warm!Set, Warm!MayContinue, WarmInv, WarmTypes
    <3>2. phase[r] \in {"musicbrainz", "itunes"}
      BY <2>1 DEF WarmInv, WarmTypes, Timely
    <3>3. QED
      BY <1>1, <3>1, <3>2, StageKeeps
  <2>3. CASE ~Warm!MayContinue(r)
    BY <1>6, <2>1, <2>3, PhaseEnds DEF Warm!Dispatch
  <2>4. QED
    BY <2>2, <2>3
<1>7. ASSUME Warm!Finish(r) PROVE WarmInv'
  <2>1. /\ Warm!Enter(r, "query") /\ phase' = [phase EXCEPT ![r] = "idle"]
        /\ elapsed' = [elapsed EXCEPT ![r] = elapsed[r]] /\ since' = since
    BY <1>7 DEF Warm!Finish, Warm!progress, Warm!Set, WarmInv, WarmTypes
  <2>2. QED
    BY <1>1, <2>1, StageKeeps
<1>8. ASSUME Warm!Die(r) PROVE WarmInv'
  BY <1>8, PhaseEndKeeps DEF Warm!Die
<1>9. QED
  BY <1>2, <1>3, <1>4, <1>5, <1>6, <1>7, <1>8, CallReturns DEF Warm!Step

(* Whatever a run of cache-warmer.ts waits for, it is over one wait or one *)
(* call, and two waits for the database, after its deadline at the latest, *)
(* for any pace, ceilings, number of runs and longest waits.               *)
THEOREM WarmerStopsInTime ==
    /\ Warm!Spec => []Warm!EndsInTime
    /\ MCSpec => []EndsInTime
<1>1. Warm!Init => WarmInv
  BY TimesAreNumbers DEF Warm!Init, WarmInv, WarmTypes, Timely
<1>2. WarmInv /\ [Warm!Next]_(Warm!vars) => WarmInv'
  <2>1. ASSUME WarmInv, UNCHANGED <<phase, warming, waited, elapsed, since>> PROVE WarmInv'
    BY <2>1 DEF WarmInv, WarmTypes, Timely
  <2>2. ASSUME WarmInv, Warm!Next PROVE WarmInv'
    <3>1. ASSUME NEW s \in Servers, Warm!Recycle(s) PROVE WarmInv'
      BY <2>1, <2>2, <3>1 DEF Warm!Recycle, Warm!progress
    <3>2. ASSUME NEW i \in Warm!Mbids, Warm!Expire(i) PROVE WarmInv'
      BY <2>1, <2>2, <3>2 DEF Warm!Expire, Warm!progress
    <3>3. QED
      BY <2>2, <3>1, <3>2, RunSteps, WaitKeeps DEF Warm!Next
  <2>3. QED
    BY <2>1, <2>2 DEF Warm!vars
<1>3. WarmInv => Warm!EndsInTime
  <2>1. ASSUME WarmInv, NEW r \in Runs, phase[r] # "idle"
        PROVE  elapsed[r] < RunDeadline + Warm!Slip + 2 * DbTime
    <3>1. /\ elapsed[r] \in Nat /\ waited[r] \in Nat
          /\ phase[r] \in {"musicbrainz", "itunes", "unlock"}
          /\ warming[r] \in {"query", "loop", "pace", "call"}
      BY <2>1 DEF WarmInv, WarmTypes
    <3>2. Timely(r)
      BY <2>1 DEF WarmInv
    <3>3. CASE warming[r] \in {"pace", "call"}
      BY <3>1, <3>2, <3>3, TimesAreNumbers DEF Timely
    <3>4. CASE warming[r] = "query"
      BY <3>1, <3>2, <3>4, TimesAreNumbers DEF Timely
    <3>5. CASE warming[r] = "loop"
      BY <3>1, <3>2, <3>5, TimesAreNumbers DEF Timely
    <3>6. QED
      BY <3>1, <3>3, <3>4, <3>5
  <2>2. QED
    BY <2>1 DEF Warm!EndsInTime
<1>4. Warm!Spec => []Warm!EndsInTime
  BY <1>1, <1>2, <1>3, PTL DEF Warm!Spec
<1>5. MCInit => WarmInv
  BY <1>1 DEF MCInit
<1>6. [MCNext]_<<part, personVars, warmVars>> => [Warm!Next]_(Warm!vars)
  BY DEF MCNext, warmVars, Warm!vars
<1>7. MCSpec => []EndsInTime
  BY <1>2, <1>3, <1>5, <1>6, PTL DEF MCSpec, EndsInTime
<1>8. QED
  BY <1>4, <1>7

=============================================================================
