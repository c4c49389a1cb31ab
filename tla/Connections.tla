---------------------------- MODULE Connections ----------------------------
(***************************************************************************)
(* The provider connections of the users: services/connections.ts with its *)
(* adapters and routes, and the sealing of the stored tokens under the     *)
(* configured key encryption keys.                                         *)
(*                                                                         *)
(* ListenBrainz takes a pasted token; Last.fm answers a redirect flow whose *)
(* callback any browser may be led to follow.  A token stands for the       *)
(* provider account it opens.                                              *)
(***************************************************************************)
EXTENDS Naturals, FiniteSets

CONSTANTS
    Users,
    Accounts,      \* accounts at a provider
    MaxFlows,      \* bound: redirect flows started
    MaxLinks,      \* bound: tokens pasted
    MaxRotations   \* bound: changes of the key encryption key

VARIABLES
    rows,      \* user_connections: [user, provider, account, kek]
    states,    \* connect_states: at most one per user and provider
    task,      \* the connect request of each user
    returned,  \* callbacks the provider sent a browser to: [state, account]
    flows,     \* number of redirect flows started; a flow's number is its state
    starter,   \* history: who started which flow
    completed, \* history: the connections stored by a callback
    links,
    kek        \* the configured key; every deployment has exactly one

connVars == <<rows, states, task, returned, flows, starter, completed, links, kek>>

Free == [at |-> "free", state |-> 0, provider |-> "none", account |-> "none"]

ConnStart(stored) ==
    /\ rows = stored
    /\ states = {} /\ returned = {} /\ completed = {}
    /\ task = [u \in Users |-> Free]
    /\ flows = 0 /\ links = 0 /\ kek = 1
    /\ starter = <<>>

----------------------------------------------------------------------------
(* The redirect flow.                                                      *)

\* startConnect: a second flow of the user replaces the state of the first.
StartConnect(u) ==
    /\ flows < MaxFlows
    /\ flows' = flows + 1
    /\ states' = {s \in states : s.user # u} \cup {[state |-> flows + 1, user |-> u]}
    /\ starter' = [i \in 1..(flows + 1) |-> IF i = flows + 1 THEN u ELSE starter[i]]
    /\ UNCHANGED <<rows, task, returned, completed, links, kek>>

\* The sweep, or the lapse of ten minutes.
ExpireState == \E s \in states :
    /\ states' = states \ {s}
    /\ UNCHANGED <<rows, task, returned, flows, starter, completed, links, kek>>

\* Somebody grants access at the provider, which sends the browser back.
Authorize(i, a) ==
    /\ i \in 1..flows
    /\ returned' = returned \cup {[state |-> i, account |-> a]}
    /\ returned' # returned
    /\ UNCHANGED <<rows, states, task, flows, starter, completed, links, kek>>

\* MUTANT: the state is looked up without its owner.
ConsumableByAnyone(u, i) == {s \in states : s.state = i}

\* consumeState: DELETE ... WHERE state AND provider AND user_id RETURNING
Consumable(u, i) == {s \in states : s.state = i /\ s.user = u}

\* GET /connections/:service/callback in the browser of u, up to the exchange.
Callback(u) == \E r \in returned :
    /\ task[u] = Free /\ Consumable(u, r.state) # {}
    /\ states' = states \ Consumable(u, r.state)
    /\ task' = [task EXCEPT ![u] = [at |-> "exchange", state |-> r.state,
                                    provider |-> "lastfm", account |-> r.account]]
    /\ UNCHANGED <<rows, returned, flows, starter, completed, links, kek>>

\* completeCallback, verifyDirect: the provider confirms or the request fails.
Exchange(u) ==
    /\ task[u].at = "exchange"
    /\ task' \in {[task EXCEPT ![u].at = "store"], [task EXCEPT ![u] = Free]}
    /\ UNCHANGED <<rows, states, returned, flows, starter, completed, links, kek>>

----------------------------------------------------------------------------

\* POST /connections/listenbrainz with a token
Paste(u, a) ==
    /\ task[u] = Free /\ links < MaxLinks
    /\ links' = links + 1
    /\ task' = [task EXCEPT ![u] = [at |-> "exchange", state |-> 0,
                                    provider |-> "listenbrainz", account |-> a]]
    /\ UNCHANGED <<rows, states, returned, flows, starter, completed, kek>>

\* store: the upsert is per (user, provider, account), so another account of the
\* same provider becomes a second row.
Stored(u) == [user |-> u, provider |-> task[u].provider, account |-> task[u].account]

Store(u) ==
    /\ task[u].at = "store"
    /\ rows' = {r \in rows : [user |-> r.user, provider |-> r.provider,
                              account |-> r.account] # Stored(u)}
               \cup {[user |-> u, provider |-> task[u].provider,
                      account |-> task[u].account, kek |-> kek]}
    /\ completed' = IF task[u].state = 0 THEN completed
                    ELSE completed \cup {[state |-> task[u].state, user |-> u,
                                          account |-> task[u].account]}
    /\ task' = [task EXCEPT ![u] = Free]
    /\ UNCHANGED <<states, returned, flows, starter, links, kek>>

\* DELETE /connections/:service: every account of the provider
Disconnect(u, p) ==
    /\ \E r \in rows : r.user = u /\ r.provider = p
    /\ rows' = {r \in rows : ~(r.user = u /\ r.provider = p)}
    /\ UNCHANGED <<states, task, returned, flows, starter, completed, links, kek>>

\* A deployment with another key.  The rendered environment names one key
\* (pullfm_render_staging_secrets), so rows sealed under the old one stay behind.
Rotate ==
    /\ kek <= MaxRotations
    /\ kek' = kek + 1
    /\ UNCHANGED <<rows, states, task, returned, flows, starter, completed, links>>

\* openCredential: SELECT without an order, so any row of the user
Openable(u, p) == {r \in rows : r.user = u /\ r.provider = p}

\* #kek: a row sealed under a key the process does not know cannot be opened.
Opens(r) == r.kek = kek

LinkNext(u) ==
    \/ Exchange(u) \/ Store(u)
    \/ \E a \in Accounts : Paste(u, a)
    \/ \E p \in {"listenbrainz", "lastfm"} : Disconnect(u, p)

ConnNext ==
    \/ ExpireState \/ Rotate
    \/ \E u \in Users : LinkNext(u) \/ StartConnect(u) \/ Callback(u)
    \/ \E i \in 1..MaxFlows, a \in Accounts : Authorize(i, a)

ConnSpec(stored) == ConnStart(stored) /\ [][ConnNext]_connVars

(* A callback stores a connection only for the user who started the flow,  *)
(* and at most once per flow: no order of restarted flows, callbacks       *)
(* followed in another person's browser and repeated callbacks binds an    *)
(* account to a user who did not ask for it.                               *)
FlowsBindTheirStarter ==
    /\ \A c \in completed : starter[c.state] = c.user
    /\ \A c, d \in completed : c.state = d.state => c = d

=============================================================================
