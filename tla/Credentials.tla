---------------------------- MODULE Credentials ----------------------------
(***************************************************************************)
(* The two credentials of one user: the WorkOS session (plugins/auth.ts,   *)
(* routes/v1/auth.ts) and the personal API tokens (services/tokens.ts,     *)
(* routes/v1/tokens.ts), which only a session may create, rotate or        *)
(* revoke.                                                                 *)
(*                                                                         *)
(* A request authenticates in one step and acts in later ones, one per     *)
(* statement or remote call.  A transaction's writes appear when it        *)
(* commits; until then it holds the rows it locked.  Lifetimes are what is *)
(* left of them, in ticks.  Scopes, rate limits and the transport of the   *)
(* session (header or sealed cookie) do not matter to what is said here;   *)
(* the deletion of the user is the subject of module Erasure.              *)
(***************************************************************************)
EXTENDS Integers, Sequences, FiniteSets

CONSTANTS
    Requests,       \* requests under way at the same time
    AccessTTL,      \* lifetime of an access token, set at WorkOS
    Tolerance,      \* clockTolerance of jwtVerify
    DenyTTL,        \* lifetime of a deny-list entry (3600 s)
    MaxPerUser,     \* cap on live API tokens
    TokenTTLs,      \* lifetimes a user may ask for
    DefaultTTL,     \* lifetime of a rotated token
    Bases,          \* token names, without the suffix of rotations
    LongBases,      \* those too long for a suffix
    MaxTokens       \* bound: token rows ever inserted

ASSUME Lifetimes ==
    /\ AccessTTL \in Nat \ {0} /\ Tolerance \in Nat /\ DenyTTL \in Nat \ {0}
    /\ TokenTTLs \subseteq Nat \ {0} /\ DefaultTTL \in TokenTTLs
    /\ MaxPerUser \in Nat \ {0} /\ MaxTokens \in Nat
    /\ LongBases \subseteq Bases

(* "an hour is a safe upper bound": WorkOS is configured so that an access *)
(* token, tolerance included, does not outlive a deny-list entry.          *)
ASSUME SafeUpperBound == AccessTTL + Tolerance <= DenyTTL

VARIABLES
    upstream,   \* WorkOS still refreshes the session
    access,     \* left of the session's newest access token, with tolerance
    deny,       \* left of its entry in the deny list
    signedOut,  \* history: a logout answered upstreamRevoked: true
    tokens,     \* rows of api_tokens, in order of insertion
    stage,      \* each request's next statement
    target,     \* the token row each request has locked, or 0
    lock        \* the request that holds the users row

session == <<upstream, access, deny, signedOut>>
vars == <<upstream, access, deny, signedOut, tokens, stage, target, lock>>

Nobody == "nobody"

ASSUME NobodyAssumption == Nobody \notin Requests

Operations == {"create", "rotate", "revoke", "logout"}

Stages == Operations \cup {"idle", "counted", "swapping", "ended", "notEnded"}

Names == Bases \X Nat

(* Names a user asks for, the suffix of a first rotation included.         *)
AskedNames == Bases \X {0, 1}

(* chain: the first token of the rotation chain (rotated_from_id).         *)
(* revived (history): comes from rotating a token that had expired.        *)
Rows == [name    : Names,
         left    : Nat,
         revoked : BOOLEAN,
         from    : 0 .. MaxTokens,
         chain   : 1 .. MaxTokens,
         revived : BOOLEAN]

TypeOK ==
    /\ upstream \in BOOLEAN
    /\ access \in 0 .. AccessTTL + Tolerance
    /\ deny \in 0 .. DenyTTL
    /\ signedOut \in BOOLEAN
    /\ DOMAIN tokens \subseteq 1 .. MaxTokens
    /\ \A t \in DOMAIN tokens : tokens[t] \in Rows
    /\ stage \in [Requests -> Stages]
    /\ target \in [Requests -> {0} \cup DOMAIN tokens]
    /\ lock \in Requests \cup {Nobody}

Init ==
    /\ upstream = TRUE
    /\ access = AccessTTL + Tolerance
    /\ deny = 0
    /\ signedOut = FALSE
    /\ tokens = <<>>
    /\ stage = [r \in Requests |-> "idle"]
    /\ target = [r \in Requests |-> 0]
    /\ lock = Nobody

-----------------------------------------------------------------------------

(* fromSession: the signature's lifetime, then the deny list.              *)
SessionAccepted == access > 0 /\ deny = 0

(* TokenService.authenticate.                                              *)
Live(t) == ~tokens[t].revoked /\ tokens[t].left > 0

LiveTokens == {t \in DOMAIN tokens : Live(t)}

Unlocked(t) == \A r \in Requests : target[r] # t

(* nextRotationName: the next suffix, until the name is cut at 64          *)
(* characters; a cut name carries no suffix, and is cut to itself again.   *)
nextRotationName(name) ==
    IF name[1] \in LongBases THEN <<name[1], 1>> ELSE <<name[1], name[2] + 1>>

(* UNIQUE (user_id, name), revoked rows included.                          *)
Taken(name) == \E t \in DOMAIN tokens : tokens[t].name = name

(* requireAuth: the request's handler is entered.                          *)
Enter(r, op) ==
    /\ stage[r] = "idle"
    /\ SessionAccepted
    /\ stage' = [stage EXCEPT ![r] = op]
    /\ UNCHANGED <<session, tokens, target, lock>>

(* The response: a transaction's locks are gone.                           *)
Answer(r) ==
    /\ stage' = [stage EXCEPT ![r] = "idle"]
    /\ target' = [target EXCEPT ![r] = 0]
    /\ lock' = IF lock = r THEN Nobody ELSE lock

(* A failure anywhere rolls back: the node dies, the connection is lost,   *)
(* Redis does not answer, Postgres picks it as the victim of a deadlock.   *)
Abort(r) ==
    /\ stage[r] # "idle"
    /\ Answer(r)
    /\ UNCHANGED <<session, tokens>>

-----------------------------------------------------------------------------

(* create: the users row is locked and the live tokens counted.  (now() is *)
(* the start of the transaction, so the code may also count a token that   *)
(* expired since, and refuse where this does not.)                         *)
Count(r) ==
    /\ stage[r] = "create"
    /\ lock = Nobody
    /\ \/ /\ Cardinality(LiveTokens) < MaxPerUser
          /\ stage' = [stage EXCEPT ![r] = "counted"]
          /\ lock' = r
          /\ UNCHANGED target
       \/ /\ Cardinality(LiveTokens) >= MaxPerUser
          /\ Answer(r)
    /\ UNCHANGED <<session, tokens>>

(* The INSERT and the commit, or a conflict of names.                      *)
Insert(r, name, ttl) ==
    /\ stage[r] = "counted"
    /\ Len(tokens) < MaxTokens
    /\ tokens' = IF Taken(name) THEN tokens
                 ELSE Append(tokens, [name |-> name, left |-> ttl,
                                      revoked |-> FALSE, from |-> 0,
                                      chain |-> Len(tokens) + 1,
                                      revived |-> FALSE])
    /\ Answer(r)
    /\ UNCHANGED session

(* rotate: the old row is updated, which locks it; its expiry is not       *)
(* looked at.                                                              *)
RotateUpdate(r, t) ==
    /\ stage[r] = "rotate"
    /\ Unlocked(t)
    /\ ~tokens[t].revoked
    /\ stage' = [stage EXCEPT ![r] = "swapping"]
    /\ target' = [target EXCEPT ![r] = t]
    /\ UNCHANGED <<session, tokens, lock>>

(* The row that replaces token t.                                          *)
Successor(t) ==
    [name    |-> nextRotationName(tokens[t].name),
     left    |-> DefaultTTL,
     revoked |-> FALSE,
     from    |-> t,
     chain   |-> tokens[t].chain,
     revived |-> tokens[t].revived \/ tokens[t].left = 0]

(* Mutant: the replaced token is left as it is.                            *)
RotateInsertKeepsOld(r) ==
    /\ stage[r] = "swapping"
    /\ lock = Nobody
    /\ Len(tokens) < MaxTokens
    /\ tokens' = IF Taken(Successor(target[r]).name) THEN tokens
                 ELSE Append(tokens, Successor(target[r]))
    /\ Answer(r)
    /\ UNCHANGED session

(* The INSERT (its foreign key waits for a lock on the users row) and the  *)
(* commit; or a conflict of names, which undoes the update.                *)
RotateInsert(r) ==
    LET t == target[r]
    IN  /\ stage[r] = "swapping"
        /\ lock = Nobody
        /\ Len(tokens) < MaxTokens
        /\ tokens' = IF Taken(Successor(t).name) THEN tokens
                     ELSE Append([tokens EXCEPT ![t].revoked = TRUE],
                                 Successor(t))
        /\ Answer(r)
        /\ UNCHANGED session

(* revoke: one statement.                                                  *)
Revoke(r, t) ==
    /\ stage[r] = "revoke"
    /\ Unlocked(t)
    /\ ~tokens[t].revoked
    /\ tokens' = [tokens EXCEPT ![t].revoked = TRUE]
    /\ Answer(r)
    /\ UNCHANGED session

(* rotate or revoke: no such token.                                        *)
NotFound(r, t) ==
    /\ stage[r] \in {"rotate", "revoke"}
    /\ Unlocked(t)
    /\ tokens[t].revoked
    /\ Answer(r)
    /\ UNCHANGED <<session, tokens>>

-----------------------------------------------------------------------------

(* POST /auth/refresh: asks WorkOS only, not the deny list.                *)
Refresh ==
    /\ upstream
    /\ access' = AccessTTL + Tolerance
    /\ UNCHANGED <<upstream, deny, signedOut, tokens, stage, target, lock>>

(* logout: WorkOS is told first.                                           *)
EndUpstream(r) ==
    /\ stage[r] = "logout"
    /\ upstream' = FALSE
    /\ stage' = [stage EXCEPT ![r] = "ended"]
    /\ UNCHANGED <<access, deny, signedOut, tokens, target, lock>>

(* WorkOS refuses or does not answer, and may have done it all the same.   *)
EndUpstreamFails(r) ==
    /\ stage[r] = "logout"
    /\ upstream' \in {upstream, FALSE}
    /\ stage' = [stage EXCEPT ![r] = "notEnded"]
    /\ UNCHANGED <<access, deny, signedOut, tokens, target, lock>>

(* Mutant: the entry lives as long as an access token.                     *)
DenyLocallyForAccess(r) ==
    /\ stage[r] \in {"ended", "notEnded"}
    /\ deny' = AccessTTL
    /\ signedOut' \in {signedOut, signedOut \/ stage[r] = "ended"}
    /\ Answer(r)
    /\ UNCHANGED <<upstream, access, tokens>>

(* revokeSessionLocally, and the answer unless the node dies before it.    *)
DenyLocally(r) ==
    /\ stage[r] \in {"ended", "notEnded"}
    /\ deny' = DenyTTL
    /\ signedOut' \in {signedOut, signedOut \/ stage[r] = "ended"}
    /\ Answer(r)
    /\ UNCHANGED <<upstream, access, tokens>>

(* The next session, once this one is over.                                *)
SignIn ==
    /\ ~upstream /\ access = 0
    /\ \A r \in Requests : stage[r] \notin {"logout", "ended", "notEnded"}
    /\ upstream' = TRUE
    /\ access' = AccessTTL + Tolerance
    /\ deny' = 0
    /\ signedOut' = FALSE
    /\ UNCHANGED <<tokens, stage, target, lock>>

Less(n) == IF n > 0 THEN n - 1 ELSE 0

Tick ==
    /\ access' = Less(access)
    /\ deny' = Less(deny)
    /\ tokens' = [t \in DOMAIN tokens |->
                    [tokens[t] EXCEPT !.left = Less(@)]]
    /\ UNCHANGED <<upstream, signedOut, stage, target, lock>>

Next ==
    \/ \E r \in Requests :
          \/ \E op \in Operations : Enter(r, op)
          \/ Abort(r) \/ Count(r) \/ RotateInsert(r)
          \/ \E name \in AskedNames, ttl \in TokenTTLs : Insert(r, name, ttl)
          \/ \E t \in DOMAIN tokens :
                RotateUpdate(r, t) \/ Revoke(r, t) \/ NotFound(r, t)
          \/ EndUpstream(r) \/ EndUpstreamFails(r) \/ DenyLocally(r)
    \/ Refresh \/ SignIn \/ Tick

Spec == Init /\ [][Next]_vars

-----------------------------------------------------------------------------

(* Sign-out is revocation: once logout has answered that WorkOS ended the  *)
(* session, no access token of it is accepted again, also none minted by a *)
(* refresh that ran beside the logout, and also not when the deny-list     *)
(* entry has expired.                                                      *)
SignedOutStaysOut == signedOut => ~SessionAccepted

(* tokens.ts, create: "two concurrent creates cannot both observe          *)
(* count = max - 1".  The cap holds with rotations running beside creates, *)
(* except for what comes from rotating a token that had expired.           *)
CapHolds ==
    Cardinality({t \in LiveTokens : ~tokens[t].revived}) <= MaxPerUser

(* rotate: "never a moment where both secrets work": a rotation chain has  *)
(* at most one token that is not revoked, however rotations interleave.    *)
OneSecretPerChain ==
    \A t, u \in DOMAIN tokens :
       /\ tokens[t].chain = tokens[u].chain
       /\ ~tokens[t].revoked /\ ~tokens[u].revoked
       => t = u

=============================================================================
