------------------------------ MODULE Exports ------------------------------
(***************************************************************************)
(* The portable copy of an account: services/export.ts, its two routes in  *)
(* routes/v1/me.ts, and claimOnce and incrementWindow of lib/redis.ts.     *)
(*                                                                         *)
(* A ticket is a signed link to the document; anybody may come by it, and  *)
(* a download is a request of some subject with some ticket.  Lifetimes    *)
(* are what is left of them, in ticks; a lifetime of 0 ends at the next    *)
(* tick.  A signature that does not verify changes nothing.                *)
(***************************************************************************)
EXTENDS Integers, Sequences

CONSTANTS
    Subjects,
    Downloads,   \* downloads under way at the same time
    LinkTTL,     \* EXPORT_LINK_TTL_S
    Slack,       \* what a claim lives longer than a link (60 s)
    Cooldown,    \* EXPORT_COOLDOWN_S
    RedisTimeout, \* the longest a command of the quota Redis may take
    MaxTickets   \* bound: tickets issued

(* What the slack is for: a claim that was on its way when its link ran    *)
(* out still finds the key of the one before it.                           *)
ASSUME ExportLimits ==
    /\ LinkTTL \in Nat /\ Slack \in Nat /\ Cooldown \in Nat /\ RedisTimeout \in Nat
    /\ RedisTimeout <= Slack

VARIABLES
    tickets,   \* [user, left], in order of issue
    cool,      \* left of each subject's cooldown
    claims,    \* left of export:ticket:<jti>, or -1 without the key
    down,      \* each download under way
    built      \* history: [ticket, user] of the documents built, in order

exportVars == <<tickets, cool, claims, down, built>>

NoDownload == [at |-> "idle"]

ExportInit ==
    /\ tickets = <<>>
    /\ cool = [u \in Subjects |-> 0]
    /\ claims = <<>>
    /\ down = [d \in Downloads |-> NoDownload]
    /\ built = <<>>

(* requestExport: one request in a cooldown, counted as it is made ...     *)
Cooled(u) == cool[u] = 0

(* ... and a link that is signed for the subject.                          *)
Ticket(u) == [user |-> u, left |-> LinkTTL]

RequestExport(u) ==
    /\ Cooled(u)
    /\ Len(tickets) < MaxTickets
    /\ cool' = [cool EXCEPT ![u] = Cooldown]
    /\ tickets' = Append(tickets, Ticket(u))
    /\ claims' = Append(claims, -1)
    /\ UNCHANGED <<down, built>>

(* consumeTicket, before it asks Redis: not expired, and the caller's own. *)
Accepts(t, u) == tickets[t].left >= 0 /\ tickets[t].user = u

Download(d, t, u) ==
    /\ down[d] = NoDownload
    /\ Accepts(t, u)
    /\ down' = [down EXCEPT ![d] = [at |-> "claim", ticket |-> t, user |-> u,
                                    left |-> RedisTimeout]]
    /\ UNCHANGED <<tickets, cool, claims, built>>

(* MUTANT: a claim that lives as long as its link.                         *)
ClaimAsLink == LinkTTL

ClaimTTL == LinkTTL + Slack

(* claimOnce: SET NX with its expiry.  The answer may be lost, which is    *)
(* 503 and leaves the ticket claimed.                                      *)
Claim(d, answered) ==
    LET t == down[d].ticket
    IN  /\ down[d].at = "claim"
        /\ claims' = [claims EXCEPT ![t] = IF @ = -1 THEN ClaimTTL ELSE @]
        /\ down' = [down EXCEPT ![d] =
                      IF claims[t] = -1 /\ answered THEN [@ EXCEPT !.at = "build"]
                      ELSE NoDownload]
        /\ UNCHANGED <<tickets, cool, built>>

(* build, every query with the subject's id, and the answer.               *)
Build(d) ==
    /\ down[d].at = "build"
    /\ built' = Append(built, [ticket |-> down[d].ticket, user |-> down[d].user])
    /\ down' = [down EXCEPT ![d] = NoDownload]
    /\ UNCHANGED <<tickets, cool, claims>>

(* A query fails, or the command before it reached Redis.                  *)
DownloadFails(d) ==
    /\ down[d] # NoDownload
    /\ down' = [down EXCEPT ![d] = NoDownload]
    /\ UNCHANGED <<tickets, cool, claims, built>>

Sooner(n) == IF n > -1 THEN n - 1 ELSE -1

(* A command not answered in time has failed before the clock goes on.     *)
ExportTick ==
    /\ \A d \in Downloads : down[d].at = "claim" => down[d].left > 0
    /\ tickets' = [t \in DOMAIN tickets |-> [tickets[t] EXCEPT !.left = Sooner(@)]]
    /\ claims' = [t \in DOMAIN claims |-> Sooner(claims[t])]
    /\ cool' = [u \in Subjects |-> IF cool[u] > 0 THEN cool[u] - 1 ELSE 0]
    /\ down' = [d \in Downloads |->
                  IF down[d].at = "claim" THEN [down[d] EXCEPT !.left = @ - 1] ELSE down[d]]
    /\ UNCHANGED built

ExportNext ==
    \/ \E u \in Subjects : RequestExport(u)
    \/ \E d \in Downloads, t \in DOMAIN tickets, u \in Subjects : Download(d, t, u)
    \/ \E d \in Downloads : Build(d) \/ DownloadFails(d) \/ (\E a \in BOOLEAN : Claim(d, a))
    \/ ExportTick

ExportSpec == ExportInit /\ [][ExportNext]_exportVars

(* A link gives one document, and only to the subject it was issued to:    *)
(* also when two downloads race for it, when the first one's claim has     *)
(* expired, and when a download began at the link's last moment.           *)
ExportedOnce ==
    /\ \A i, j \in DOMAIN built : i # j => built[i].ticket # built[j].ticket
    /\ \A i \in DOMAIN built : built[i].user = tickets[built[i].ticket].user
=============================================================================
