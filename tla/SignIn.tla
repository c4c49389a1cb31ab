------------------------------- MODULE SignIn -------------------------------
(***************************************************************************)
(* Sign-in and the profile: routes/v1/auth.ts with the two gates in front  *)
(* of it (lib/registration-geo.ts, lib/registration-allowlist.ts), the     *)
(* budgets of services/magic-auth.ts, the sealed cookie of                 *)
(* lib/session-cookie.ts, and PATCH /me.                                   *)
(*                                                                         *)
(* A person has one mailbox and signs in for it, through the edge, which   *)
(* states the country they are in, or straight to the origin with any      *)
(* header.  Nodes read their configuration when they start.  A request     *)
(* that a gate refuses changes nothing and is no step.                     *)
(***************************************************************************)
EXTENDS Naturals, Sequences, FiniteSets

CONSTANTS
    Nodes,
    People,       \* who may try to sign in, by address
    Requests,     \* requests under way at the same time
    Home,         \* the country the edge finds each of them in
    Upper,        \* [spellings of two letters -> the code in capitals]
    Headers,      \* values of cf-ipcountry, as sequences: it may be repeated
    Restricted,   \* RESTRICTED_COUNTRIES
    Undetermined, \* UNDETERMINED_CODES
    Enforced,     \* DEPLOY_ENV is not local
    RawLists,     \* values of AUTH_REGISTRATION_ALLOWLIST, split at commas
    Keks,         \* root keys a deployment may be given
    PerIpMax, PerEmailMax, VerifyMax,
    MaxEnds,      \* bound: windows that end
    MaxDeploys    \* bound: restarts of a node

VARIABLES
    raw,       \* each node's AUTH_REGISTRATION_ALLOWLIST
    kek,       \* each node's root key
    identity,  \* WorkOS: the name it holds for each person, or NoRecord
    code,      \* people with a code that WorkOS would exchange
    row,       \* users: the display name of each row, or NoRecord
    session,   \* how each person's client holds its session, or NoSession
    spent,     \* the counters of the quota Redis
    ends,      \* windows that have ended
    mails,     \* sign-in mails sent so far
    accepted,  \* history: the names WorkOS has accepted for each person
    req,       \* the requests under way
    deploys

signVars == <<raw, kek, identity, code, row, session, spent, ends, mails,
              accepted, req, deploys>>

NoRecord == "none"
NoSession == [key |-> "lost"]
Blank == ""
NoName == Blank
Names == {"n1", "n2", NoName}
Idle == [route |-> "idle"]
Open == <<Blank>>

\* An address stands for its own budget keys; the request's ip is that of its
\* sender.
Keys == {"start", "verify"} \X {"ip", "email"} \X People

\* Every node starts with the same key and without a list; the people in before
\* have signed in.
SignInit(before, root) ==
    /\ raw = [n \in Nodes |-> Open]
    /\ kek = [n \in Nodes |-> root]
    /\ identity = [p \in People |-> IF p \in before THEN NoName ELSE NoRecord]
    /\ row = identity
    /\ session = [p \in People |-> IF p \in before THEN [key |-> NoRecord] ELSE NoSession]
    /\ code = {}
    /\ spent = [k \in Keys |-> 0]
    /\ ends = 0
    /\ mails = [p \in People |-> 0]
    /\ accepted = [p \in People |-> {NoName}]
    /\ req = [r \in Requests |-> Idle]
    /\ deploys = 0

-----------------------------------------------------------------------------
(* The gates.                                                              *)

normaliseCountry(header) ==
    IF Len(header) = 1 /\ header[1] \in DOMAIN Upper THEN Upper[header[1]] ELSE NoRecord

\* decideRegistrationGeo: a header counts only when the edge set it; locally it
\* can only refuse.
GeoAdmits(edge, header) == LET c == normaliseCountry(header) IN
    IF Enforced THEN edge /\ c \notin Restricted \cup Undetermined \cup {NoRecord}
    ELSE c \notin Restricted

\* parseRegistrationAllowlist: anything that is neither blank nor an address is
\* a problem, and so is a list that is set and names nobody.
Listed(list) == {list[i] : i \in DOMAIN list} \cap People
Problems(list) == \/ \E i \in DOMAIN list : list[i] \notin People \cup {Blank}
                  \/ list # Open /\ Listed(list) = {}

\* decideRegistrationAllowlist
OnList(n, p) == Listed(raw[n]) = {} \/ p \in Listed(raw[n])

\* MUTANT: the list is read at the first step only.
ListAtStart(route, n, p) == route = "start" => OnList(n, p)

\* refuseUnlistedAddress is a hook of two of the routes; the callback learns the
\* address only from WorkOS.
ListAdmits(route, n, p) == route \in {"start", "verify"} => OnList(n, p)

\* The routes behind the gates, asked directly or through the edge.
MayEnter(route, n, p) ==
    /\ \/ GeoAdmits(TRUE, <<Home[p]>>)
       \/ \E h \in Headers : GeoAdmits(FALSE, h)
    /\ ListAdmits(route, n, p)

\* The request carries a token in its body or a cookie of the session's name.
Carried(p) == session[p] # NoSession

\* SessionCookieCipher.open: only the node's own root key opens a cookie, and
\* every failure is the same null.
Opens(n, p) == Carried(p) /\ session[p].key \in {NoRecord, kek[n]}

Enter(r, route, n, p, first) ==
    /\ req[r] = Idle
    /\ req' = [req EXCEPT ![r] = [route |-> route, node |-> n, who |-> p,
                                  at |-> first, name |-> NoName]]
    /\ UNCHANGED <<raw, kek, identity, code, row, session, spent, ends, mails,
                   accepted, deploys>>

Start(r, n, p) == MayEnter("start", n, p) /\ Enter(r, "start", n, p, "ip")
Verify(r, n, p) == MayEnter("verify", n, p) /\ Enter(r, "verify", n, p, "ip")
Callback(r, n, p) == MayEnter("callback", n, p) /\ Enter(r, "callback", n, p, "exchange")

\* Neither gate: only the refresh token of the body, or of a cookie that opens.
Refresh(r, n, p) == Opens(n, p) /\ Enter(r, "refresh", n, p, "exchange")

\* requireAuth finds the row of the session's subject.
Patch(r, n, p) ==
    Opens(n, p) /\ row[p] # NoRecord /\ Enter(r, "patch", n, p, "provider")

-----------------------------------------------------------------------------
(* MagicAuthService.                                                       *)

Limit(route, kind) ==
    IF route = "verify" THEN VerifyMax ELSE IF kind = "ip" THEN PerIpMax ELSE PerEmailMax

Goto(r, at) == req' = [req EXCEPT ![r].at = at]
Done(r) == req' = [req EXCEPT ![r] = Idle]

\* requestCode, verifyCode: the ip's budget before the address's.
Following(q) == IF q.at = "ip" THEN "email" ELSE IF q.route = "start" THEN "send" ELSE "exchange"

\* #consume: INCR with the expiry of a window that opens.  A refused request has
\* counted too.
Consume(r) ==
    LET q == req[r]
        k == <<q.route, q.at, q.who>>
    IN  /\ q.route \in {"start", "verify"} /\ q.at \in {"ip", "email"}
        /\ spent' = [spent EXCEPT ![k] =
                       IF @ > Limit(q.route, q.at) THEN @ ELSE @ + 1]
        /\ IF spent[k] + 1 > Limit(q.route, q.at) THEN Done(r)
           ELSE Goto(r, Following(q))
        /\ UNCHANGED <<raw, kek, identity, code, row, session, ends, mails, accepted, deploys>>

\* A window of the quota Redis ends.
WindowEnds(k) ==
    /\ spent[k] > 0 /\ ends < MaxEnds
    /\ spent' = [spent EXCEPT ![k] = 0]
    /\ ends' = ends + 1
    /\ UNCHANGED <<raw, kek, identity, code, row, session, mails, accepted, req, deploys>>

\* sendMagicAuthCode: WorkOS creates the person it does not know, and mails; the
\* answer is the same whatever came of it.
Send(r) ==
    LET p == req[r].who
    IN  /\ req[r].route = "start" /\ req[r].at = "send"
        /\ identity' = [identity EXCEPT ![p] = IF @ = NoRecord THEN NoName ELSE @]
        /\ code' = code \cup {p}
        /\ mails' = [mails EXCEPT ![p] = @ + 1]
        /\ Done(r)
        /\ UNCHANGED <<raw, kek, row, session, spent, ends, accepted, deploys>>

-----------------------------------------------------------------------------
(* Establishing a session.                                                 *)

\* WorkOS exchanges a code it sent, one its hosted page gave out, or a refresh
\* token of somebody it still knows.
Exchanges(q) == CASE q.route = "verify"   -> q.who \in code
                  [] q.route = "callback" -> TRUE
                  [] OTHER                -> identity[q.who] # NoRecord /\ Carried(q.who)

\* The answer carries the name WorkOS holds.  The hosted page has made its own
\* record.
Exchange(r) ==
    LET q == req[r]
    IN  /\ q.route \in {"verify", "callback", "refresh"} /\ q.at = "exchange"
        /\ Exchanges(q)
        /\ code' = IF q.route = "verify" THEN code \ {q.who} ELSE code
        /\ identity' = [identity EXCEPT ![q.who] = IF @ = NoRecord THEN NoName ELSE @]
        /\ req' = [req EXCEPT ![r] =
                      [@ EXCEPT !.at = IF q.route = "callback" THEN "list" ELSE "upsert",
                                !.name = identity'[q.who]]]
        /\ UNCHANGED <<raw, kek, row, session, spent, ends, mails, accepted, deploys>>

\* The callback's own look at the list, or a refusal.
CallbackListed(r) ==
    /\ req[r].route = "callback" /\ req[r].at = "list"
    /\ IF OnList(req[r].node, req[r].who) THEN Goto(r, "upsert") ELSE Done(r)
    /\ UNCHANGED <<raw, kek, identity, code, row, session, spent, ends, mails, accepted, deploys>>

\* UserService.upsert: a name WorkOS does not have leaves the one there is.  The
\* times that recordAuthentication then writes are only shown to the user.
Upserted(old, name) ==
    IF old # NoRecord /\ name = NoName THEN old ELSE name

Upsert(r) ==
    LET q == req[r]
    IN  /\ q.route \in {"verify", "callback", "refresh"} /\ q.at = "upsert"
        /\ row' = [row EXCEPT ![q.who] = Upserted(@, q.name)]
        /\ Goto(r, "attach")
        /\ UNCHANGED <<raw, kek, identity, code, session, spent, ends, mails, accepted, deploys>>

\* The answer: tokens in the body, or sealed with this node's key in a cookie;
\* a refresh keeps the transport it came by, the callback has the one.
Attach(r, cookie) ==
    LET q == req[r]
    IN  /\ q.route \in {"verify", "callback", "refresh"} /\ q.at = "attach"
        /\ q.route = "refresh" =>
              cookie = (Carried(q.who) /\ session[q.who].key # NoRecord)
        /\ q.route = "callback" => ~cookie
        /\ session' = [session EXCEPT ![q.who] =
                         [key |-> IF cookie THEN kek[q.node] ELSE NoRecord]]
        /\ Done(r)
        /\ UNCHANGED <<raw, kek, identity, code, row, spent, ends, mails, accepted, deploys>>

\* MUTANT: the row first.
PatchLocalFirst(r, name) ==
    LET p == req[r].who
    IN  /\ req[r].route = "patch" /\ req[r].at = "provider"
        /\ row' = [row EXCEPT ![p] = IF @ = NoRecord THEN @ ELSE name]
        /\ req' = [req EXCEPT ![r] = [@ EXCEPT !.at = "local", !.name = name]]
        /\ UNCHANGED <<raw, kek, identity, code, session, spent, ends, mails, accepted, deploys>>

\* PATCH /me writes the name at WorkOS first ...
PatchProvider(r, name) ==
    LET p == req[r].who
    IN  /\ req[r].route = "patch" /\ req[r].at = "provider"
        /\ identity[p] # NoRecord
        /\ identity' = [identity EXCEPT ![p] = name]
        /\ accepted' = [accepted EXCEPT ![p] = @ \cup {name}]
        /\ req' = [req EXCEPT ![r] = [@ EXCEPT !.at = "local", !.name = name]]
        /\ UNCHANGED <<raw, kek, code, row, session, spent, ends, mails, deploys>>

\* ... and then in the row, or answers 404.
PatchLocal(r) ==
    LET p == req[r].who
    IN  /\ req[r].route = "patch" /\ req[r].at = "local"
        /\ row' = [row EXCEPT ![p] = IF @ = NoRecord THEN @ ELSE req[r].name]
        /\ Done(r)
        /\ UNCHANGED <<raw, kek, identity, code, session, spent, ends, mails, accepted, deploys>>

-----------------------------------------------------------------------------
(* Faults and the rest of the world.                                       *)

\* A budget's Redis, WorkOS or Postgres fails, or WorkOS declines: nothing more
\* of the request happens.
Fail(r) ==
    /\ req[r] # Idle
    /\ Done(r)
    /\ UNCHANGED <<raw, kek, identity, code, row, session, spent, ends, mails, accepted, deploys>>

\* The cookie is cleared by logout, or the client loses its session.
EndSession(p) ==
    /\ session[p] # NoSession
    /\ session' = [session EXCEPT ![p] = NoSession]
    /\ UNCHANGED <<raw, kek, identity, code, row, spent, ends, mails, accepted, req, deploys>>

\* DELETE /me (module Erasure); WorkOS may fail to hear of it.
EraseAccount(p, told) ==
    /\ row[p] # NoRecord
    /\ row' = [row EXCEPT ![p] = NoRecord]
    /\ identity' = [identity EXCEPT ![p] = IF told THEN NoRecord ELSE @]
    /\ code' = IF told THEN code \ {p} ELSE code
    /\ UNCHANGED <<raw, kek, session, spent, ends, mails, accepted, req, deploys>>

\* A node is drained and starts again with another configuration; one that does
\* not parse is refused and the old process stays.
Restart(n, list, k) ==
    /\ deploys < MaxDeploys
    /\ \A r \in Requests : req[r] # Idle => req[r].node # n
    /\ ~Problems(list)
    /\ raw' = [raw EXCEPT ![n] = list]
    /\ kek' = [kek EXCEPT ![n] = k]
    /\ deploys' = deploys + 1
    /\ UNCHANGED <<identity, code, row, session, spent, ends, mails, accepted, req>>

EstablishNext ==
    \E r \in Requests :
       Exchange(r) \/ Upsert(r) \/ Fail(r) \/ (\E c \in BOOLEAN : Attach(r, c))

\* People come and go through the gates ...
GatesNext ==
    \/ EstablishNext
    \/ \E r \in Requests, n \in Nodes, p \in People :
          Start(r, n, p) \/ Verify(r, n, p) \/ Callback(r, n, p) \/ Refresh(r, n, p)
    \/ \E r \in Requests : Consume(r) \/ Send(r) \/ CallbackListed(r)
    \/ \E k \in Keys : WindowEnds(k)
    \/ \E p \in People : EndSession(p) \/ (\E t \in BOOLEAN : EraseAccount(p, t))
    \/ \E n \in Nodes, l \in RawLists, k \in Keks : Restart(n, l, k)

\* ... and, once they have an account, change its name.
ProfileNext ==
    \/ EstablishNext
    \/ \E r \in Requests, n \in Nodes, p \in People : Refresh(r, n, p) \/ Patch(r, n, p)
    \/ \E r \in Requests :
          PatchLocal(r) \/ (\E nm \in Names : PatchProvider(r, nm))
    \/ \E p \in People, t \in BOOLEAN : EraseAccount(p, t)

SignSpec ==
    /\ \E before \in SUBSET People, k \in Keks : SignInit(before, k)
    /\ [][GatesNext \/ ProfileNext]_signVars

-----------------------------------------------------------------------------

\* Somebody Pull.fm does not serve: in a restricted region, or left out of a
\* list that every running process was given.
Unserved(p) == \/ Enforced /\ Home[p] \in Restricted \cup Undetermined
               \/ \A n \in Nodes : raw[n] # Open /\ p \notin Listed(raw[n])

(* Nobody who is refused leaves a trace: no mail is sent to them and no     *)
(* account opened (the orphan identity of routes/v1/auth.ts), also not with *)
(* a code from before their removal, through the hosted flow, past the      *)
(* edge, or under a list that names nobody.  Only a session from before     *)
(* goes on, which is what /auth/refresh is left open for.                   *)
RefusedLeaveNoTrace ==
    [][\A p \in People : Unserved(p) =>
          /\ mails'[p] = mails[p]
          /\ row[p] = NoRecord /\ row'[p] # NoRecord =>
                \E r \in Requests : /\ req[r] # Idle /\ req[r].route = "refresh"
                                    /\ req[r].who = p /\ req[r].at = "upsert"]_signVars

(* What the account screen shows is a name the identity provider accepted, *)
(* whichever step of a PATCH, a sign-in or an erasure fails or comes late. *)
ShownNameWasAccepted ==
    \A p \in People : row[p] # NoRecord => row[p] \in accepted[p]
=============================================================================
