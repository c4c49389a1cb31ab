# Verification of Pull.fm's backend

TLA+ modules for the parts of Pull.fm in which several requests, nodes, jobs,
operators or outside services meet, TLC configurations that check them on small
instances, and TLAPS proofs of the safety properties for every value of the
constants. Sources are named relative to `src/`; `B` stands for
`apps/bff/src`, `U` for `packages/upstream/src`, `D` for
`packages/discovery/src`.

`PROJECT.json` lists the components with their status, the runs with their
properties, for every definition the lines it translates, for every property a
plausible bug that breaks it, the hazards with the properties that watch them,
and the theorems.

## The system

Pull.fm is a Fastify backend in front of music providers (Last.fm,
ListenBrainz, MusicBrainz, Deezer, iTunes, SeatGeek, ReccoBeats). It keeps its
own state in Postgres and Redis, leaves sign-in to WorkOS and records erasures
in an R2 bucket. Several nodes run the same code behind an edge and a load
balancer; scheduled jobs run beside them; a staging environment is built and
destroyed by script.

| Component | State | Operations | Interacts with | What makes it hard |
|---|---|---|---|---|
| Provider client (`U/provider-client.ts`, `circuit-breaker.ts`, `quota.ts`, `rate-limiter.ts`) | breaker record, sliding window of spends, waiting queue, attempts of each call | `#execute` and its retries, `tryAcquire`, `recordSuccess`, `recordFailure`, `tryConsume`, `acquire`, `#drain` | called by the cache; asks the kill switch | any number of calls between two awaits; late answers; refusals after a slot was taken; clocks |
| Kill switch (`U/kill-switch.ts`) | disabled providers | polling of files and environment | read once per call | read before awaits, acted on after them |
| Response cache (`U/cache/cache-first.ts`, `single-flight.ts`, `cache/pg-store.ts`, `cache/governor.ts`) | rows in Postgres, map of fills in flight | `fetch`, `#fill`, eviction, probe | provider client, breaker, Postgres | shared fills, rows that change between read and write, stale fallback, a breaker nobody calls |
| Provider adapters (`U/*/client.ts`) | none of their own | one request per method, its accepted statuses, its parser | provider client, the providers | errors inside a 200, lists of one, what "nothing" looks like |
| Crosswalk, search, previews (`U/crosswalk`, `U/musicbrainz/local-first.ts`, `U/preview/resolver.ts`) | names to MBIDs with confidences, preview rows | resolve, learn, search the dump, refresh a preview | cache, adapters, the local dump | keys that run together, signed URLs that lapse |
| Discovery (`B/services/discovery.ts`, `D/blend.ts`, `D/merge.ts`, `B/services/artist-lookup-gate.ts`) | nothing stored | feed, recommendations, stations, neighbours, catalogue pages | connections, cache, crosswalk | any subset of the calls fails; order of arrival; HTTP caches |
| Live events (`B/services/events.ts`, `U/seatgeek`) | performer ids and listings in the cache | `GET /artists/:mbid/events` | SeatGeek | two caches filled by different places and names |
| Idempotency and wishlist (`B/lib/idempotency.ts`, `B/services/wishlist.ts`) | `idempotency_keys`, wishlist items | `claim`, `complete`, `release`, sweep; add, remove, page | Postgres transactions | two transactions per request, lost acknowledgements, a cap counted without a lock, cursors of milliseconds |
| Upstream budget (`B/lib/upstream-budget.ts`, `B/plugins/upstream-budget.ts`) | Redis counters with TTL, one account per request | `reserve`, `chargeUpstreamCall`, `settle` | hooks around every request | the limit under concurrency, settles after the window, lost settles |
| Erasure (`B/services/deletion.ts`, `erasure-ledger.ts`, `B/routes/v1/webhooks.ts`, `infra/backup/*.sh`) | users, `deletion_log`, R2 ledger, WorkOS identity | deletion in steps, webhook, restore, export, replay | Postgres, R2, WorkOS | a crash between any two steps, restore to an older point, redelivery |
| Directory (`B/services/directory-reaper.ts`, `magic-auth.ts`) | WorkOS identities, users rows, advisory lock | code request, verification, `establish`, reaper | WorkOS, Postgres | a job that decides on a page it read earlier |
| Sign-in and gates (`B/routes/v1/auth.ts`, `B/lib/registration-*.ts`, `B/routes/v1/me.ts`) | allowlist and countries of each node, budgets in Redis, codes | start, verify, callback, refresh; change of the profile | WorkOS, the edge | requests in flight while a list changes; two writes of a name |
| Sessions, API tokens (`B/plugins/auth.ts`, `B/lib/session-cookie.ts`, `B/services/tokens.ts`) | deny list in Redis, `api_tokens` | authenticate, refresh, logout; create, rotate, revoke | WorkOS, Redis, Postgres | lifetimes of denials, caps under concurrency |
| Exports (`B/services/export.ts`, `B/lib/redis.ts`) | cooldown, signed links, one-time claims | request, download | Redis | a claim whose key and whose link end at different times |
| Connections (`B/services/connections.ts`, `packages/crypto/src/envelope.ts`) | connections, `connect_states`, sealed tokens | paste, redirect flow, callback, disconnect, rotation | Last.fm, ListenBrainz | a callback followed by somebody else, or twice |
| Consent (`B/services/legal-consent.ts`, `B/lib/legal-documents.ts`, `B/routes/v1/legal.ts`) | revisions, consents, memo of each process | publish, handshake, gate, public pages | Postgres triggers, HTTP caches | nodes with differing registries; a trigger without a lock |
| Jobs (`B/services/audit-retention.ts`, `cache-warmer.ts`, `expiry-sweeper.ts`, `mb-canonical-refresh.ts`, `infra/mb-loader`) | advisory locks, batches, staging tables | sweeps, warming, load and swap | Postgres through a pooler, child processes | overlapping runs, deaths, a lock that is not one |
| Process (`B/index.ts`, `config.ts`, `server.ts`, `routes/health.ts`, `lib/maintenance.ts`) | settings, clients, window of the limiter, flag | start, listen, serve, drain, close | everything | the order of shutdown |
| Deployment (`infra/staging/app/pullfm-deploy`, `packages/db/scripts/migrate.mjs`, `infra/staging-env.sh`) | channel, pin, containers, schema; cloud resources | pull, migrate, pin, swap; up, converge, down | docker, Postgres, Terraform | a kill between any two steps; a destroy that stops half-way |
| Restore drill (`infra/backup/restore-drill.sh`, `pullfm-restore.sh`) | tree of database branches | twelve phases, restore points, pruning | the branch API, production's restore points | branches with children can be neither reset nor deleted |
| Risk register gate (`security/scripts/check-accepted-risks.mjs`) | the register | parse, validate, exit code | authors | a lenient parser |
| Load tooling (`load/mock-upstreams`) | faults, windows of the mocks | answer as the provider would | adapters | used as the provider the adapters are checked against |

## Modules

Components that share no state are composed by an MC module whose behaviours
each exercise one of them (the variable `part`); a run then explores the
components one after the other, and what is proved of a component is proved of
the composed specification too.

### Provider client: `CircuitBreaker`, `Limiters`, `ProviderClient`

The first two translate the methods of the three classes to operators on a
record (`RecordSuccess(b)`, `Spend(q, n)`, `Enqueue(l, r)`); `ProviderClient` is
the state machine of `#execute`, one action per stretch of code between two
awaits: `Call`/`CallRefused` (kill switch, breaker, then quota and limiter),
`Dispatch` (`#drain` wakes up), `Answered`, `FailedRetry`, `FailedForGood`,
`Retry`/`RetryRefused`, and `ReadState` for the state getter, which changes the
state. A 4xx is an answer (`recordSuccess`), as in the code. Clocks are
relative: time until the next trial, age of each spend (saturated at the
window), time since the last dispatch. `pass` is a history variable: under
which kind of admission a call runs. The kill switch may change at any time.

### Response cache: `CacheFirst`

`fetch` for several callers and keys over one breaker. A row is absent, fresh,
expired, poisoned (does not parse) or both. `Lookup` is the query; `Hit`,
`Probe`, `Miss`, `Poisoned`, `Evicted` are its continuations; `Join` is
`SingleFlight.run`; `Loaded`, `Malformed`, `LoadFails`, `Stored`, `StoreFails`
are the turns of `#fill`, the last of which settles its promise. That promise
leaves the map in a later turn (`Remove`), and each waiter goes on in one of its
own (`Resume`), so that a lookup may join a fill that has settled. A call of the
provider client is one interval here; the provider answers, fails, or is
switched off, in which case the breaker hears nothing of the call. The governor
is present by its effect: a row may disappear at any time, and `StoreFails` may
leave the row written, since the governor runs after the write.

### Budget and local catalogue: `UpstreamBudget`, `Allowance`, `CanonicalRefresh`, `MCUpstream`

`UpstreamBudget` is one subject: `Taken` and `Settled` are the two Lua scripts,
`Tick` lets keys expire, `ReserveUnanswered` is a script that ran although the
client got an error. A request computes its key before it sends the script, and
up to `Timeout` may pass until the script runs: a reservation may be counted
under a window that is over. `Allowance` is what it promises, without counters,
expiry or lost answers; `KeepsAllowance` is the refinement. `CanonicalRefresh`
is the job, the loader as a child process that may outlive it (`Stage`, `Copy`,
`Verify`, `Index`, `Swap`, `Record`), the store that goes quiet, and a restore
of a backup without the schema.

### One process: `Idempotency`, `Wishlist`, `Service`, `MCService`

`Idempotency`: one key of one user. `Insert` and the outcomes of the following
SELECT are `claim`; `Commit` is the transaction with `create` and `complete`;
`ReplyLost` is a commit whose acknowledgement does not arrive; `Crash` may
happen everywhere. The item has no recording MBID: with one, the insert's ON
CONFLICT would hide duplicates. `Wishlist`: `Count` and `Insert` are one
transaction under READ COMMITTED; time runs in microseconds and the cursor in
milliseconds. `Service`: `Configure` is the validation of settings and legal
texts, `Build`, `Listen`, `Sigterm`, `Drained`, `Closed`, `Forced` the life of
the process, `Arrive`, `Limit`, `Handle`, `Healthz`, `Readyz` that of a request.

### Erasure and jobs: `Erasure`, `SessionLocks`, `AuditRetention`

`Erasure` has one id per row ever created (`<<account, n>>`), so that a
returning person is not the one erased. `RequestDeletion`, `Record`, `Erase`,
`TellWorkOs`, `Finish` are the steps of `deleteAccount`, `Abandon` interrupts it
anywhere; `Webhook` and `WebhookUnmatched` the route; `Snapshot`/`Restore` a
restore to any earlier point; `Export` and `Replay` the ledger. `SessionLocks`
gives session advisory locks behind a transaction pooler, where they belong to
whichever server session executed the statement. `AuditRetention` is the audit
log's job statement by statement; two runs may overlap, since the lock is one of
`SessionLocks`.

### People: `Directory`, `Credentials`, `SignIn`, `Exports`, `CacheWarmer`, `MCCredentials`

`Directory` keeps identities in order of creation, which is the order of the
listing. `Begin` (lock and cutoff), `List`, `Check`, `Delete`, `Continue`,
`Finish`, `Crash` are one sweep; `RequestCode`, `Verify`, `Establish` the
sign-in beside it. The lock is one of `SessionLocks`: it may be left behind on a
server session until the pooler recycles it, and two runs may sweep together.

`Credentials` is one user's session and API tokens. `Enter` is `requireAuth`;
`Count`/`Insert` are `create`, `RotateUpdate`/`RotateInsert` are `rotate`, each
statement of a transaction a step, with the row locks it holds and its writes
visible at the commit; `Abort` rolls back anywhere. `access` is what is left of
the newest access token, since all of a session's tokens share one deny entry.
Names matter only for collisions of `nextRotationName`.

`SignIn` is the four routes of sign-in behind the two gates, their budgets, the
cookie under node keys, and the two writes of `PATCH /me`. People come through
the edge or straight to the origin with any header. `Restart` gives a node
another list or key. `Exports` is the cooldown, the signed link and the claim,
whose key outlives the link by a slack. `CacheWarmer` is both phases of the
warming job: lock, pacing, ceilings, deadline, contention, repeated failures,
deaths, with the time that each wait and each call may take. In `MCCredentials`
a behaviour exercises one of five parts: sessions and tokens, the gates, the
profile, exports, the warmer.

### Legal documents: `Consent`, `LegalPages`, `MCConsent`

`Consent`: each node publishes its registry lazily (`Publish`: trigger check,
insert, memo), a device goes through the handshake against any node
(`Handshake`), may use a copy bundled with the app, and may give up; `Deploy`
gives a node another build; `Erase` ends the account. `LegalPages` adds the
public routes over the same nodes and table, behind an HTTP cache that
revalidates the list and the current text and keeps versions for good.

### Discovery: `Connections`, `Merge`, `Feed`, `Catalogue`, `Payloads`, `Adapters`, `Events`, `Pages`, `MCFeed`

`Connections` is pasting, the redirect flow, callbacks in any browser,
disconnecting and rotation of the key. `Merge` holds the pure functions of
`merge.ts` with their reference definition (`IsMergeOf`). `Feed` is the personal
routes: any combination of a request's calls may fail, and a call that finds a
cached row does not. `Catalogue` is the crosswalk and its resolver, the search
that asks the dump first, and the gate before the shared budget; names are
sequences of letters, because the dump concatenates them and the crosswalk joins
artist and title with a space before it normalises them. `Payloads` says what a
response is and how fields are read; `Adapters` has the methods of the seven
clients and the mocks of `load/mock-upstreams` that answer them, with their
faults, beside what the clients' comments say of the real providers, and what
they do not rule out: a 400 or 403 of Last.fm without an error code, a "no data"
of Deezer. A response means an answer, a failure, or neither clearly. `Events`
is the concerts shelf with its two cached lookups: names are compared by their
trigrams, and a place is its country, state and
normalised city. `Pages` is the catalogue routes with previews, behind an HTTP
cache.

### From outside: `Deploy`, `Staging`, `RestoreDrill`, `RiskRegister`, `MCDeploy`

`Deploy` is the agent of each node (pull, migrate under a lock, pin, swap,
probe) against one database, with jobs started from the pin, kills, and edited or
failing migrations. `Staging` is an operator's `up`, `converge`, `down` and
maintenance of an environment whose node runs that agent; every step of it is a
step of `Deploy` or leaves its variables alone. `RestoreDrill` is the drill
phase by phase on the tree of branches, beside an operator who takes restore
points of any branch and prunes them; a look-up of a branch by name may miss it.
`RiskRegister` is an author who slips, the parser that takes the lines as they
come (an entry may begin with any of its fields), and the gate on any later day.

### Proofs

`ProviderClientProofs` (client, cache), `UpstreamProofs` (budget, refinement,
canonical dump), `ErasureProofs` (erasure, audit log), `ServiceProofs`
(idempotency, process, wishlist), `FeedProofs` (reaper, connect flows, blends,
merge, crosswalk, previews, concerts), `CredentialsProofs` (sessions, tokens,
exports, profile, gates, warmer), `AnswerProofs` (consent gate, public pages,
adapters), `DeployProofs` (agent, refinement, restore drill, risk register).

## Runs

| Run | What it asks | Instance |
|---|---|---|
| `client` | Do trial slots survive late answers, refusals and reopenings (`NoSlotLeak`); does every call end (`CallsSettle`)? | 3 calls, 2 attempts, quota 2 per tick, queue of 1, thresholds 2 and 2 |
| `cache` | Is there one fill per key with nobody waiting on none (`SingleFlight`); does an outage cost a caller the row it found (`OutageNeverCostsARow`); does a warm cache keep the circuit open (`ProbesRecover`)? | 2 callers, 2 keys, opens on 1 failure, closes on 2 successes |
| `service` | Is there one item and one answer per key while no create fails (`OneOriginal`), and is a stored answer kept (`ResponseSurvives`); do concurrent adds pass the cap by no more than themselves (`CapNearlyHolds`); is a request ever served by closed clients (`NoDeadPool`)? | 3 requests, 2 bodies; 2 writers, 3 ids, cap 2, 2 µs per ms; 2 connections, limit 1, ten settings |
| `upstream` | Is the allowance kept (`KeepsAllowance`), is no counter without expiry (`CountersExpire`); is a partial dump never served (`NeverPartial`) and the newest one in the end (`CatchesUp`)? | 3 requests, limit 1, 2 calls each, windows of 2 ticks, scripts up to 1 tick late, 4 instants; 2 runs, 2 dumps, 1 restore |
| `erasure` | Is no erased row served again (`NoResurrection`), its evidence in the log (`EvidenceSurvives`), and does a restore come back to serving (`RestoreCompletes`)? | 1 account, 3 rows, 2 workers |
| `consent` | Does whoever passes the gate have accepted the newest material text (`MaterialChangeNeedsAssent`), does the handshake lock nobody out (`MCHandshakeCompletes`); do the public pages hand out what was asked (`LegalTextIsTheOneAsked`)? | 2 nodes, 1 device, 5 builds, 3 documents of which 2 are required, 2 deploys, 1 fault, 3 reads |
| `jobs` | Does no row lose its identifiers early (`EvidenceKept`), and does every window end (`WindowsEnd`)? | 2 runs, 2 server sessions, 2 rows, batches of 1, windows 0, 1, 2 |
| `directory` | Does a run delete nothing that it had listed as verified (`ListedVerifiedSurvives`); is what nobody verifies deleted in the end (`Reaped`)? | 2 addresses, 2 identities of which WorkOS refuses one, 2 runs, 2 server sessions, pages of 1, 2 pages, 1 deletion per sweep, 1 broken-off sweep |
| `credentials` | Does a signed-out session stay out (`SignedOutStaysOut`), does a rotation leave one secret (`OneSecretPerChain`), was every shown name accepted (`ShownNameWasAccepted`), does a link give one document (`ExportedOnce`), does a refused person leave a trace (`RefusedLeaveNoTrace`), is the warmer over soon after its deadline (`EndsInTime`)? | 2 requests, 3 token rows, cap 1; 2 people, 1 node, 3 lists, 2 keys; 2 links; 2 warm MBIDs, deadline 3, calls of 2, database waits of 1 |
| `deploy` | Does no build run without its migrations (`SchemaFirst`); does an environment that is to go, go (`MCDownEmpties`); does the drill leave the tree as it was (`CleanedUp`); does the gate let an expired risk pass (`NothingExpiredPasses`)? | 2 nodes, 4 builds, 1 push, 1 fault; 2 operator changes; 2 drills, 1 restore point; 2 entries, 2 slips, 5 days |
| `feed` | Is a flow bound to its starter (`FlowsBindTheirStarter`); is a shelf that lacks something marked (`DegradationIsHonest`); is the merge right (`MergeIsRight`); is no wrong hit recorded (`NoFalseMerge`); is a failure never taken for an answer (`Faithful`); is a shelf the one asked for (`ShelfIsTheOneAsked`); does every preview play (`PreviewsPlay`)? | 2 people, 2 accounts, 2 flows, lists of up to 3 candidates, 2 requests of the feed or of the pages |
| `wishlist_pages` (violation) | Is no row of the wishlist skipped (`NoneSkipped`)? | as `service` |

### Bounds, and why they are enough

* Three calls are the fewest with which one holds a trial slot, one is a
  leftover of the previous half-open episode and one is new; two attempts let a
  retry meet every state of the breaker.
* Two callers and two keys let a flight be shared while another key's flight
  uses the same breaker; two successes are what a warm cache without probes
  would never collect.
* Three requests on one key are an owner, a loser and the next claimant. Two
  writers count together; three ids and two microseconds per millisecond put a
  page boundary inside a millisecond.
* Four instants and windows of two let settles and late reservations land in
  their window, after it, and after the key is gone. With a limit of one, three
  requests meet both the limit and twice the limit. Two loaders are one that
  outlived its job and the next one.
* Three rows of an account are one erased before the restored point, one after
  it, and one that comes back.
* Five builds are the ones a document's history can hold: a first without its
  text, a correction, a material change, a correction of that, and one that
  redefines it. Two deploys give two nodes any two of them.
* Two identities in pages of one put the stubborn one in front of the other, and
  two runs let a page that one of them listed grow old beside the other's.
* Two requests and a cap of one let two creates, or a rotation and a create or a
  revocation, meet at the limit. `Slack` and the Redis timeout are one tick
  each; in the code they are 60 s and the `commandTimeout` of 1 s.
* `deploy`: four builds are a base, one more migration, an edited one and a
  failing one. The drill has its limit of branches as in the script and one
  fault, because its clean-up tolerates one.
* `feed`: one person's connections change while requests run; payloads are fixed
  per key, and one account has no recommendations; up to two calls of a request
  fail in `Feed` (the theorem has no such bound); an adapter has one call at a
  time against one artist, recording and release, with limits scaled down and
  one setting of the mock changed between resets; concerts are three artists, of
  which one is a tribute band whose name passes for the original's and one is
  named like a postal code, two performers, two venues, three places, two limits
  and two requests; pages have two listeners, two requests, one change of the
  environment, and an HTTP cache with room for one response.

`client`, `cache`, `jobs` and `directory` check deadlock. The other
configurations switch it off because their clocks, supplies or faults are
bounded and a behaviour may use them up.

### Fairness

* `ProviderClient`: time passes; the drain loop and sleeping retries wake up
  (timers); an attempt ends, because the abort timer bounds the wait for the
  headers and, since it is cleared before the body is read
  (`U/provider-client.ts:518-520`), the HTTP client's own body timeout the rest.
  Callers keep coming.
* `CacheFirst`: continuations of awaits run, fills end, time passes, and lookups
  keep coming (strong, because a caller is not always idle). `ProbesRecover`
  assumes in its own statement that the provider stays up.
* `CanonicalRefresh`: the timer starts the job (strong, because it may find the
  lock taken), jobs go on, dumps are published, the schema is migrated, lookups
  come, time passes; a loader may fail at any step, but each of its steps goes
  through now and then, and the download is sound now and then.
* `Erasure`: WorkOS redelivers an unacknowledged event; a started handler goes
  on; the ledger and the transaction do not fail every time they are tried; the
  export timer fires; an operator runs the replay. Sign-ins and deletions by
  request are never required to happen.
* `Consent`: a node that is asked goes on publishing, a device goes on with the
  handshake; deploys and faults are bounded and never required.
* `AuditRetention`: the timer starts runs, a statement does not fail for ever
  (strong), runs go on, and the pooler recycles its sessions.
* `Directory`: the timer starts sweeps, a sweep that is not broken off goes on,
  the pooler recycles its sessions, and WorkOS does not refuse for ever to
  delete an identity that is not stubborn.
* `Staging`: the operator repeats a command that failed, hosts boot, the agent's
  timer fires.

## Findings

`wishlist_pages` ends in a violation of what the repository says of itself: the
cursor of the wishlist carries milliseconds and the column microseconds, so of
two rows of one millisecond with a page boundary between them the second is on
no page. `PROJECT.json` quotes the line.

### Observations

What was met while modelling and has no run of its own. The models contain the
behaviour; a comment, a document or an expectation says otherwise.

*Provider client and cache.* The kill switch is read once, before the first
attempt: a call that waits in the limiter or sleeps before a retry is sent after
the switch was thrown. `kill-switch.ts`'s header promises a warning on every
poll and gives one; removing the directory leaves providers disabled. A local
quota refusal counts as a successful trial and can close a half-open circuit.
Taking the rest of the provider's window for its length (`#adaptQuota`) makes
the local quota optimistic. A probe whose payload does not parse, or whose write
fails, throws although the caller had a fresh row. Failures of Last.fm and
Deezer inside a 200 are recorded as successes of the breaker.

*Adapters and catalogue.* A 500 of labs is an empty answer, so its breaker never
hears of it and stale neighbours are overwritten by none (`discovery.ts:995`). A
400 or 403 of Last.fm whose body is blank or has no error code is read as an
empty list or as nothing, and kept (`U/lastfm/client.ts:120-123`, `227`). The
crosswalk keys a recording by artist and title joined with a space
(`U/crosswalk/resolver.ts:120`), so "a b" with "c" and "a" with "b c" are one
key: the MBID recorded for the one answers for the other, which `NoFalseMerge`,
a property of the dump's hits, does not exclude. `#listenBrainzPort` documents
an empty answer and rejects. The crosswalk's "(0.95)" is false at a score of
100; `merge.ts` says a boost of about 1.58 and 2 for two and three sources and
computes 2 and 2.58; `learn()` records under another key than `resolveRecording`
reads; `resolveArtist` and `resolveRecording` have no callers. `similarArtists`
counts two rows of one name from one source as agreement. The claim of
`artist-lookup-gate.ts` does not hold for shelves made from connections, for
homonyms, nor when the probe fails while `load_state` is remembered: then an
artist the dump holds is declined. iTunes' empty answers are not stored, so a
candidate without preview is asked for in every run; the warmer does not stop at
iTunes contention (`preview/resolver.ts:346` against `cache-warmer.ts:76`). The
mock's header names `*_BASE_URL` settings the backend does not have.

*Live events.* Cached rows are parsed again by the vendor's parser and lose
their dates (`seatgeek-provider.ts:255`; dates are outside the model). The cache
key omits the limit, so a response may hold more or fewer concerts than were
asked for. The threshold is there to keep "Radiohead Tribute" from "Radiohead"
(`seatgeek-provider.ts:102-107`), and lets the tribute band of a longer name pass
when the band is not listed ("Red Hot Chili Peppers Tribute", 0.73). A 403 with an
unknown code is kept as "unknown artist" for a week. The pattern of postal codes
lacks the UK's shape; `PersonalDataRejectedError` is no upstream error, so a
place, or an artist's name, that looks like personal data gives a 500. Catalogue
routes send cache-control with their 404s.

*Idempotency, budget.* `POST /wishlist` claims and creates in two transactions,
so a crash between them leaves a claim nobody completes, although the comment
says they share one; a retry that lost the INSERT to a create that failed can
run without a claim. A lost settle of a request with several calls leaves one
unit charged. A reservation whose script runs after its window is granted against
that window's key, recreating it if it has gone; this stays within the "at-most-2x
burst" of `B/lib/upstream-budget.ts:297`, as proved. A script that the Redis
client sends again after a lost connection is outside the model.

*Erasure, directory.* An identity whose deletion failed at WorkOS is not swept
later. `/auth/refresh` is not gated and its upsert writes the row again if the
identity is still there; a late upsert can write the row of an identity whose
event was acknowledged. `Reaped` fails when `MaxPages` pages do not hold the
directory: every sweep begins with the oldest identity, so older verified ones
hide younger unverified ones. The reaper can delete an identity that was
verified after its page was listed.

*Sessions, tokens, profile.* Rotating an expired token adds a live one beyond
the cap, which `CapHolds` leaves out as `revived`; a name cut at 64 characters is
its own rotation name and cannot be rotated again. `me.ts:112` calls a name
"briefly stale, which the next sign-in repairs": not when it was cleared.

*Connections.* `ConnectionService.store` seals a refresh token under a key it
does not keep (unreachable: no adapter has one); the rewrap has no callers and
staging renders one KEK, so a rotation orphans rows although it is called
non-breaking. Two accounts at one provider become two active rows.

*Consent.* The epoch trigger takes no lock, so a correction of the older epoch
can be published after the next material revision; this is harmless to the gate,
as proved. A database that never saw epoch 1 of a document can never publish a
later one. The gate does not ask for `ensureRevisions`.

*Jobs and data.* Session locks are taken through a pooler (`cache-warmer.ts:88`
against `config.ts:168-183`), so they exclude nothing. "What is reported is what
is actually being served" (`mb-canonical-refresh.ts`) fails after a swap whose
record failed. Row counts of a dump are taken outside its snapshot.

*Process and infrastructure.* `/healthz` is limited, and refused when the quota's
Redis is down (`health.ts:6` against `server.ts:230`); shutdown closes before
`/readyz` was ever false; the maintenance hook runs before the limiter; the
trigger `eventsCredentialPresent` can never fail. The pin and the running build
may differ (`pullfm-job:8-13`); an unhealthy build is not rolled back; `converge`
restarts what it did not change. A rotated Redis password is not picked up;
shrinking the shape leaves the backend dialling a Redis that is gone; `down`
with a failing `terraform state list` says there is nothing to destroy; a
"single use" key is minted reusable. The drill's abort leaves a branch
(`restore-drill.sh:128`); resetting the target's lineage copies production's
data; kept branches pin a later drill's; a preserved branch that the look-up does
not return is never tracked, and the drill reports its branches "confirmed gone"
(`restore-drill.sh:384`, `509`, `679`); pruning stops at the first pinned restore
point; two dumps of one second share a key.

*Risk register.* Entries under another top-level key, or with quoted ids after a
stray fence, are counted and never validated. `NothingExpiredPasses` names these
two as its exceptions.

## Proofs

Every theorem is proved for every value of the constants that the named
ASSUMEs allow. The inductive invariants were checked by TLC on the runs'
instances before they were proved. Where a run checks an MC module, the theorem
states the property for the component's own specification and for the composed
one, so that it speaks of exactly what the run checks.

| Theorem | Property | Invariant and argument |
|---|---|---|
| `ProviderClientProofs!TypeCorrect`, `SlotsNeverLeak` | `NoSlotLeak` | `TypeOK`, `SleepersMayRetry` and `NoSlotLeak` itself: the breaker counts no more trials than live calls hold. One lemma per breaker method and per turn of `#execute`. |
| `NobodyIsLost` | `QueueIntegrity` | Inductive given the above: a step leaves the queue alone, puts a call at its end, or takes its head. |
| `FillsAreShared` | `SingleFlight` | `OneCall` ties the count of calls to the flight, `Waited` says who is there for it. |
| `RowsOutliveOutages` | `OutageNeverCostsARow` | An action property; each way a lookup can end in an error is one the statement names. |
| `UpstreamProofs!SpendIsBounded`, `NoImmortalCounter` | `CountersExpire` | `Covered` (a counter covers its window's spenders while it exists), `Outlives` (it does not expire before its window ends, so a window never starts afresh with its spenders forgotten), `Begun` (nobody reserves in a window that has not begun) and `SpendersBounded`: `Limit` requests in a window, twice as many with those whose script ran after its end. |
| `Implements` | `KeepsAllowance` | Refinement: each request's unit is read off its stage; a Lua script is the abstract grant or refusal, crashes and lost answers are stutters or losses. |
| `DumpsAreWhole` | `NeverPartial` | `Staged`: a loader past its verification has a whole staging table. |
| `ErasureProofs!TypeCorrect`, `ErasedStaysErased`, `EvidenceIsRebuilt` | `NoResurrection`, `EvidenceSurvives` | `Ordered` (what is erased is in the ledger; request row and ledger object precede the DELETE) and `Numbered` (ids are never given twice). |
| `WindowsAreKept` | `EvidenceKept` | A batch takes its rows from the set its own statement selects, so no lock is needed: the theorem holds for a lock that works and for one that does not. |
| `ServiceProofs!CreatesOnce`, `ResponsesAreKept` | `OneOriginal`, `ResponseSurvives` | `Exclusive`: while nothing failed or expired, the one executing request inserted the row. |
| `PoolsOutliveRequests` | `NoDeadPool` | `Serving`: when in the life of the process a request can be there. |
| `CapIsNearlyKept` | `CapNearlyHolds` | `Counted`: every add under way counted below the cap. |
| `FeedProofs!TypeCorrect`, `VerifiedAreKept` | `ListedVerifiedSurvives` | `Chosen` (what a run is about to delete it listed itself as old and unverified) and `Staged`. No lock is needed, and the lock of the code is not one. |
| `FlowsEndWithTheirStarter` | `FlowsBindTheirStarter` | A flow is in one place: waiting, taken by a callback, or stored (`Waiting`, `Taken`, `BoundOnce`). |
| `MergesLoseNothing` | `MergeIsRight` | `Stand`: after each candidate the entries stand for those read so far, for lists of any length; then every place of the ranking is taken by one entry (`EveryPlaceTaken`). |
| `BlendsAreHonest` | `DegradationIsHonest` | See below. |
| `NamesAreNotMixed` | `NoFalseMerge` | `Asked` (only an answer of the dump counts as local) and, for the dump itself, that a key of folded names can be cut in one way once the artist is known. |
| `PreviewsAlwaysPlay` | `PreviewsPlay` | `Turns` (only requests for a preview come to Deezer, and a resolution under way has somebody who waits for it) and that no response an HTTP cache may keep holds a signed URL. |
| `ShelvesAreTheOnesAsked` | `ShelfIsTheOneAsked` | `PerformerRows`: a remembered performer passes for the artist, and none that SeatGeek had when it was looked up was closer. `ShelfRows`: a kept shelf suits every place that has its key, by `OneKeyOnePlace`. `Underway`: which performer a request goes on with. |
| `CredentialsProofs!TypeCorrect`, `SignOutIsFinal` | `SignedOutStaysOut` | `Ended` and `Denied`: WorkOS stops minting before the entry is written, so the entry outlasts every token. |
| `OneSecret`, `CapIsKept` | `OneSecretPerChain`, `CapHolds` | `Held` (who holds which row lock) and `Capped` (below the cap while a create is about to insert). |
| `LinksGiveOneDocument` | `ExportedOnce` | `Claimed` and `InTime`: the claim's key outlives the link by the slack, and a claim on its way arrives before the key goes. |
| `AcceptedNamesAreShown` | `ShownNameWasAccepted` | `NamesAreAccepted`: also of the names that requests under way carry. |
| `RefusalsLeaveNoTrace` | `RefusedLeaveNoTrace` | `AllAdmitted` (who was let in stays admitted, since a node keeps its list while it serves him) and `ListsName` (a list that names nobody is a problem and not a list). |
| `WarmerStopsInTime` | `EndsInTime` | `Timely` bounds the clock at each stage of a run by what the stages before it may take; it rests on the second look at the clock after the pacing wait. |
| `AnswerProofs!ConsentIsToTheMaterialText` | `MaterialChangeNeedsAssent` | See below. |
| `PublicTextIsTheOneAsked` | `LegalTextIsTheOneAsked` | The same invariant, `Kept` (a kept version has a published text) and `Told` (what a list named is in the table). |
| `AnswersAreFaithful` | `Faithful` | `Says`: what each response a provider can send is taken for. See below. |
| `DeployProofs!SchemaIsFirst` | `SchemaFirst` | `NodeFits`: what is pinned, running, or about to be, has its migrations applied. |
| `StagingImplementsNodes`, `StagingSchemaIsFirst` | | Refinement of `Deploy` by `Staging`, and what follows for a staging environment. |
| `NoExpiredRiskPasses` | `NothingExpiredPasses` | `Open` and `Paired` map the entries the author wrote to those the parser has read so far, of which the last may still grow; `Counted` bounds them. |
| `DrillsCleanUp` | `CleanedUp` | See below. |

Some of them deserve a word.

**The blends.** `Remembered` says that the cache holds what was answered to a
load under its key, for the account in that key; `Held` and `Carried`, that the
accounts in the rows and in the requests are ones the provider has. The rest is
about the operators: a builder none of whose calls is blamed reads what it would
have read with no failure (`UnblamedIsWhole`), and one that lost a call shows no
shelf it would not have shown (`NothingAdded`), which needs that a merge shows
something exactly if it was offered something with a name.

**The restore drill.** While the drill is alone (no operator's branch, no branch
of an earlier drill and no preserved branch it could not look up hangs on the
target or on its own branches), its branches and the target form a chain, and
each phase knows which of them can exist (`Phases`). A pass of the clean-up
takes the deepest branch unless it is refused. `ScratchGoes` and `ChainGoes`
count what is left against the passes and the refusals: with at most one refusal
the passes suffice, with two they do not, and the property says so.

**The adapters.** `Says` relates one response to the method that reads it: a
response that means a failure is an error of some kind, one that means an answer
is accepted and read as the names it holds, and one that says neither clearly
holds no names and is no reason to try again. It is shown provider by provider
(`ListenBrainzSays`, `LastfmSays`, `DeezerSays`, ...) from what each parser
returns on each document, and for the refusals, which for Last.fm and Deezer may
come with a 200. After that `ExchangeKeeps` is the only step left: whatever the
retries and the breaker do, an answer is an error or the reading of a response.
The documents are a finite set; the policies, the clock and the length of a
behaviour are any.

**Recursion.** Folds over lists (`Entries`, `Filtered`, `Parsed`) are recursive
functions of the position. That they exist and what they return is shown by the
least position at which it would fail (`Least`), since the induction theorems of
the library take an operator that the provers cannot instantiate.

**Consent.** The gate compares epochs, the property is about the order of the
published rows. `EpochsFollow` ties them: a row of an epoch stands behind the
material rows of all epochs up to its own. The trigger that checks it reads
without a lock, so the invariant also keeps what a passed trigger saw
(`TriggerHeld`), what a node that has finished knows (`PublishedHere`), and that
acceptances and the requests on their way name published rows. It rests on
`RegistryAssumption`: builds come from one line of history, so two material
entries of one epoch are one version, and epochs start at 1 (the CHECK of
migration 0008). Without it the claim is false: two divergent material builds
that race past the trigger let a person write who accepted only one of them.

**Deployment.** The proof of `SchemaIsFirst` nowhere uses the advisory lock of
the migration runner: a runner trusts only rows it read or wrote, and an applied
migration stays as it is.

**The audit log** likewise needs no lock, which is good, because through the
pooler there is none.

**Sign-out** needs `SafeUpperBound`: the lifetime of access tokens is configured
at WorkOS and not in this repository, and the comment "an hour is a safe upper
bound" is an assumption about it.

### Assumptions

| ASSUME | Why the code justifies it |
|---|---|
| `BreakerPolicy`, `QuotaHorizon`, `LimiterPolicy`, `ClientConfig` | positive thresholds, timeouts, windows and attempts; a finite set of calls |
| `RequestsAssumption`, `LimitAssumption`, `LengthAssumption`, `CallsAssumption`, `TimeAssumption` | finitely many requests, positive limit and window |
| `TimeoutAssumption` | a script runs within the client's `commandTimeout` of being sent, which is less than a window (1 s against 60 s by default) |
| `TimesAssumption` | the warmer's times are natural numbers, and its deadline (minutes) leaves room for a connection and a first statement (seconds) |
| `RowsAssumption`, `ModeAssumption`, `BodiesAssumption`, `NobodyAssumption` | ids start at 1; a mode is on or off; a value that stands for "none" is not a real one |
| `WishlistAssumption` | somebody adds, and only finitely many at once |
| `SweepPolicy` | positive page size, page limit and cap |
| `Lifetimes`, `SafeUpperBound` | positive lifetimes and caps; see above |
| `ExportLimits` | a Redis command is given up (`commandTimeout`, 1 s in `lib/redis.ts`) within the slack (60 s) |
| `PeopleAssumption` | the edge writes country codes in capitals (`EdgeInCapitals`); the root key is one of the keys |
| `RegistryAssumption` | see above |
| `ProviderData` | ListenBrainz and Last.fm answer with lists of ranked items; an MBID of 0 is a missing one |
| `IdsAssumption` | SeatGeek numbers performers from 1; 0 is kept for "none" |
| `Folded` | names and titles reach the dump folded by `canonical-key.ts`, as sequences of characters |
| `KnownAccounts`, `SomebodyConnects` | the accounts of the first state exist, and somebody is there to connect |
| `AbsentAssumption`, `UndefinedAssumption` | what is missing is not a provider, nor a value, a name or a record that a parser reads |
| `Decimal`, `PreviewAssumption` | numbers are written in decimal; a preview is signed for some seconds |
| `BranchNames`, `DrillAssumption` | branches of production, of the drills and of the operator have names of their own; counts are natural |
| `AppAssumption`, `DeployAssumption` | the application host is a node; builds name migrations, whose files hold something |

`CacheFirst`, `Connections` and `AuditRetention` are proved about without
assumptions of their own.

### What only TLC checks

* Liveness: `CallsSettle`, `ProbesRecover`, `CatchesUp`, `RestoreCompletes`,
  `MCHandshakeCompletes`, `WindowsEnd`, `Reaped`, `MCDownEmpties`. The prover has
  no rule for fairness and ENABLED.

## Not modelled

Text of messages, logging, metrics, HTTP statuses no property tells apart and
audit rows are left out everywhere. Beyond that:

* client: retuning of the quota from response headers; polling behind the kill
  switch; byte accounting of the cache governor;
* data: `--max-rows` and dry runs of the loader, the other tables of the expiry
  sweeper, encryption and signing of dumps, R2 signing and probing, lifecycle
  rules (`retention-apply`, `retention-check`), loading from 1Password;
* people: `last_used_at`, scopes and the rate limit per token, bytes of the
  cookie, `recordAuthentication` times, `EXPIRE_TOKEN_IPS`, padding of responses;
* consent: the evidence bundle, the receipts, `copyCurrentAt`;
* discovery: the ReccoBeats composite, expiry checks inside the Deezer client,
  latency and statistics of the mocks;
* process: the verdict `/readyz` computes, signal details, wiring of the
  upstream, the documents it serves;
* infrastructure: Terraform, provisioning, device selection and purging of the
  tailnet, cost and status commands, pruning of images, alert rules, job alerts;
* tooling: load journeys, the other lint scripts (job schedule, migration
  verification, query ceilings, public identifiers, observatory grade), the
  route matrix.

## Plan

Done: every component above modelled, wholly or in part; twelve runs; every
safety property of the runs proved. Left: the parts listed under "Not modelled"
whose state outlives a request, the cache governor's byte accounting and the
retuning of the quota.
