# The LLMaaS broker in TLA+

This directory specifies the broker (`src/broker/app`), the FastAPI service that
issues API keys, authenticates and rate limits inference requests, relays them to
an upstream model server and records what they used. The modules model the code
between its awaits, TLC checks them on small instances, and TLAPS proves every safety
property of the runs for every instance.

## 1. Inventory

Several broker processes serve one Postgres and one redis. A process is a single
asyncio loop: a handler runs without interruption from one `await` to the next,
and anything may happen at an await, in the same process, in another one, or in
the databases. There is no lock and, outside `upsert_conversation`, no
transaction of more than one statement.

| component | source | state | operations | interacts with |
|---|---|---|---|---|
| API keys | `routers/keys.py`, `db/init.sql` | tables `users`, `api_keys` | create, list, revoke | reaper and authentication, through the table |
| key authentication | `security.py` `require_key` | none; reads `api_keys` | look up, decide | guards every `/v1` route |
| reaper | `reaper.py` | one task per process | sweep, start, stop | updates `api_keys`; started by the lifespan |
| rate limiter | `ratelimit.py`, `cache.py` | redis counters, or a dict | `check` | called by the `/v1` routes after `require_key` |
| chat relay | `routers/chat.py`, `upstream.py` | per request: buffer, usage sink | post, relay a stream, stop | upstream server, caller, metering |
| metering, usage | `metering.py`, `routers/usage.py` | table `usage` | `record`, sum up | `api_keys`, by foreign key with cascade |
| conversations | `routers/conversations.py` | tables `conversations`, `messages` | list, get, upsert, delete | `users` |
| control-plane auth | `security.py` `require_user` | cached JWKS client | decide who calls | guards keys, usage and conversations |
| lifecycle | `main.py`, `db.py`, `cache.py` | pool, clients, reaper task | start up, shut down | all of the above |
| registry, config | `registry.py`, `config.py` | constant after startup | load, get | chat relay |
| health | `routers/health.py` | none | two reads | Postgres, redis |

Outside `src/`, modelled from how the broker uses them: Postgres (a statement
works on one snapshot and commits atomically), redis (a command is atomic, a key
past its deadline is gone), the upstream (a stream of lines, cut into chunks
anywhere), uvicorn and Starlette (the task of a stream is cancelled when its
caller goes away, the task of a plain handler is not), and the clocks.

What is hard in this code, with lines, is the list `hazards` in `PROJECT.json`.
In short:

* A request reads its key, awaits, and then decides; the key may be revoked,
  expire or be swept meanwhile. Correct means: a dead key is not admitted, a live
  one is not refused.
* Each process has a reaper that updates the same rows as revocations do, on a
  snapshot, and that may fail or die. Correct means: it revokes only what has
  expired, never takes a bill away, and gets round to every expired key.
* `create_key` is two statements without a transaction; the key exists before
  its caller has it.
* The limiter reads the clock, INCRs, and EXPIREs in three steps, with faults and
  time in between. Correct means: the quota of a window holds and refusals are
  earned.
* A stream is yielded before it is parsed, cut anywhere, and abandoned at any
  await, after which the usage row is still to be written.
* A save is a transaction of four statements, a read two statements without one,
  and several tabs save, retry, read and delete at once. Correct means: a
  conversation is one save of its owner, whole, and who reads, lists or is told
  404 is told something that was true.
* Startup checks the configuration and acquires four things one after the other,
  and releases them only if it got to the end; settings come from three places
  and are read by two readers. Correct means: nothing is open before the
  configuration is known to be right, nothing is used before it is open or after
  it is closed, and both readers see what the operator meant.
* Signing keys are fetched in worker threads, cached in two caches, rotated and
  retired. Correct means: a token is accepted only if it was valid when it was
  accepted, and a good one is not refused because keys have changed.
* Tenants share the prefix cache of one vLLM. Correct means: no tenant's request
  is served from what another has sent.

## 2. Modules

| module | what it is |
|---|---|
| `ApiKeys` | the life of a key: the three key routes, `require_key`, metering's row, the reaper, stops and starts |
| `MCApiKeys` | its instances for TLC |
| `ApiKeysProofs` | its theorems |
| `RateLimit` | `ratelimit.check` with the redis backend |
| `WindowQuota` | what a limiter promises, without saying how |
| `Division` | lemmas about division with remainder, for windows and lines |
| `RateLimitProofs` | theorems about `RateLimit`, its refinement of `WindowQuota` among them |
| `MCRateLimit` | instances of `RateLimit` |
| `ChatRelay` | `chat_completions` from the upstream call to the usage row |
| `ChatRelayProofs` | its theorems: the sniffer by induction over the lines, and what is billed |
| `MCChatRelay` | instances of `ChatRelay` |
| `Conversations` | the four routes of the chat history over `users`, `conversations`, `messages` |
| `HistoryStore` | what the chat history promises: a store of whole documents |
| `ConversationsProofs` | theorems about `Conversations`, its refinement of `HistoryStore` among them |
| `MCConversations` | its instance |
| `Lifespan` | a process from its environment to its last close: `main.py`, `config.py`, `registry.py`, `health.py`, the connects |
| `LifespanProofs` | its theorems |
| `MCLifespan` | its instance: the deployments considered |
| `ControlAuth` | `require_user`, with the key caches of PyJWT and an identity provider that rotates keys |
| `ControlAuthProofs` | its theorems |
| `MCControlAuth` | its instance |
| `DataPlane` | a `/v1` request from its key to vLLM: the in-memory limiter, the body, the routes, the prefix cache |
| `DataPlaneProofs` | its theorems, its refinement of `WindowQuota` among them |
| `MCDataPlane` | its instance |

They meet at the interfaces of the code. `require_key` (ApiKeys) lets a request
into the limiter (RateLimit, or DataPlane for the memory backend), which lets it
into the payload (DataPlane) and the relay (ChatRelay), which writes a usage row
(ApiKeys). `require_user` (ControlAuth) yields the subject that the routes of keys
and conversations take as their user. `Lifespan` opens what all of them use, and
its registry is the `Routes` of DataPlane.

### ApiKeys

`apikeys`, `users` and `usage` are the tables; a key, its hash and its id are one
model value, since `secrets.token_urlsafe` never repeats and the hash identifies
the key. `call[c]` and `req[r]` hold what a handler has in its local variables
between two awaits; `sweep[b]` is the reaper task of process `b`. Each statement
sent to Postgres is one action, except the reaper's UPDATE, which is two
(`BeginSweep` takes the snapshot and the time, `CommitSweep` applies it): it may
touch many rows and take long, and everything else may commit in between.
`now` is the clock of the database, which alone decides expiry in `require_key`
and in the reaper. The brokers' clocks, which `create_key` and `list_keys` use,
are any value within `MaxSkew` of it at each reading.

`Stop` is a crash and a shutdown in one: the handlers of the process vanish where
they stand, what was committed stays. A statement in flight at that moment may
still commit in Postgres; that is the behaviour in which the action happens just
before the stop.

`was` (in `req`) and `gone` (in `call`) are history: how the key stood when the
request arrived. No action reads them; properties do.

### RateLimit and WindowQuota

`bucket[k, w]` is the redis key `rl:k:w`. `Begin` reads the broker's clock,
`Incr` and `Expire` are the redis commands, `Admit` and `Refuse` the outcome, and
`Fail` an error or a crash in between; what redis has executed stays executed.
Time is true time; `Ahead[b]` is by how much the clock of process `b` leads, and
`MaxDelay` is an assumption on the environment: how long an INCR may be under
way. `TimelyIncr`, `WindowTime + MaxAhead + MaxDelay <= TTL`, is the condition
under which the quota holds; in the code it says that an INCR takes less than 30 s
(90 - 60), clock differences included. The code does not enforce it: see the
second finding. Redis losing its counters in a restart is not modelled; it would
reset the windows under way.

`WindowQuota` grants requests one at a time, each once, while its window has
room. `RateLimit` implements it under the mapping that takes the admitted
requests as granted (`ImplementsQuota`), which TLC checks and TLAPS proves.

### ChatRelay

A streamed body is a sequence of lines; a line is content or a usage report and
travels as two symbols and a newline. `Chunk` takes any non-empty piece of what
is left, so frames are split and joined in every way. `Resume` is the code after
the `yield`: the chunk has been sent, and only now is it parsed. `HangUp` cancels
a stream at any await; the finally block then runs `metering.record`, which may
itself be cancelled again (`RecordCancelled`), since `CancelledError` is not an
`Exception`. A plain handler is not cancelled. Bodies end with a newline, as SSE
frames do; a last line without one is never parsed by the code. `Sniff` reads one more
symbol of a text, and a text is read by folding it (`Sniffed`); `Reported` says, without
buffer or fold, what a list of lines reports: its last usage line.

### Conversations and HistoryStore

`conversations` and `messages` are the committed tables; what a transaction has
written and not committed is in `work[r]`, where nobody else sees it. Statements
run READ COMMITTED: `UpsertHead` waits for a transaction that has written the same
row (`RowTaken`), `EnsureUser` for one that has inserted the same user, and a
DELETE that had to wait looks at the row again (`StillThere`): a row that was
updated is still deleted, one that was deleted is not there, even if another of
the same key has come since. `ReplaceMessages` is the DELETE and the inserts of
`executemany` in one action: both act on rows that only the holder of the row lock
writes, and nobody sees the inserts before `Commit`. `PoolSize` connections are
shared by the requests of a process; a handler holds one from its first statement
to its last (`Holding`). `Fail` is a statement that fails, a process that dies or
a client that goes away, with its rollback; `LoseAnswer` is an answer that is lost
after the commit. A retry is another request with the same body.

`seen` is history: for a save, what had committed when it began; for a request
that reads or deletes, the versions of its conversation since it first looked.
`by` in a row says which save wrote it, `born` which save inserted it.

`HistoryStore` fixes what a request may do when it arrives: a save puts the document
it brought, a delete deletes, each under the user who asked and the id that was asked
for, at most once, and nothing else ever changes the store. `Conversations` implements
it: the document of a conversation is its title and the set of positions with their
contents, a request asks when its handler starts (`Asked`), and takes effect when its
transaction commits. A statement that left the user out of its predicate would put or
delete what nobody asked for. Reads are not atomic, and are not claimed to be:
`ReadsAreOfVersions` says what they are, a title of one version and the messages
of that one or of another committed while the read ran.

Two things the model shows that a reader may not expect, and that no document
denies. Saves that overlap may be stamped in the other order than they commit, so
`updated_at` of a conversation may go back. And a reader may return a new
conversation's title with the messages of the next save, or none at all.

### Lifespan

One process after another of one deployment, chosen at the start: what the
environment sets, what `.env` sets, and the registry file. `StartOrder` and
`StopOrder` are the order of the statements in `lifespan`; each is an action that
goes on or raises. An exception before the `yield` ends the process with what it
has opened (`Die`), one after it skips the remaining closes (`CloseFails`).
Requests are of two kinds: `GET /ready`, statement by statement, and any other,
which uses whatever is open. `AskStop` is SIGTERM: uvicorn takes no more requests,
waits for those in flight, then lets the lifespan close. `wasUp` and `wasDown` are
history, for `ReadyIsTrue`.

Noted while modelling: `RATE_LIMIT_BACKEND` is checked after the database has
been opened, later than the rest of the configuration, and `OpensOnlyIfConfigured` says
so: a wrong one may leave the pool open, and nothing more; a credential of white space
only passes the registry's check for empty variables and is then not sent at all;
`GET /ready` answers 200 also when it says "degraded".

### ControlAuth

In `oidc` mode the key of a token is looked for in a cache of keys (`keyCache`,
never out of date, bounded), then in the last key set (`setCache`, with a lifetime),
then at the provider, twice if need be; a fetch that fails empties the key set.
The cache, the refetch and the threads are PyJWT's, modelled from the version that
`requirements.txt` pins and marked external; that they are used by several threads
at once, and that an answer may be stored after a newer one, is how
`security.py` uses them. Signatures are ideal: a token names a key (`kid`) and is
signed by one (`by`). `known` and `calm` are history: which keys were published,
and whether the provider answered, all through a request; `barren` is history too:
until when the last empty key set that arrived may be in use.

Two behaviours of PyJWT decide what may be claimed. An empty key set is stored before
it is refused, and as long as it is in use every lookup of a key that is not remembered
raises without fetching: for up to 300 s after the provider has published nothing
good tokens get a 503. And `_decode_options` leaves the checks of `nbf` and `iat` on,
without leeway: a token from a clock that is ahead is a 401 until ours catches up
(`nbf` in the model is the later of the two). `GoodTokensAreAccepted` therefore speaks
of tokens in force when they are decoded, and excuses an empty key set.

Keys found once are trusted for the life of the process, retired or not
(`KeysWerePublished` says so); a restart ends that.

### DataPlane

`counters[b]` is the dict of process `b`; `Check` is one action because the memory
backend has no await between the clock and the decision. `ReadBody` builds the
payload; `prefixes` are the prefix caches of the upstreams, which reuse a prefix of
the same model, text and salt. A tenant's salt is another one for every user
(`Salt`; in the code the first half of a SHA-256 digest), and no secret: a caller may
send one of another tenant, and it reaches an upstream over a route that is not a
vLLM's. So `TenantsShareNoPrefix` is about upstreams that only vLLM routes lead to
(`OnlyVllm`), which is how the registries of `serving/` are written. The registry does
not enforce it: with a vLLM that is listed under both kinds the callers of the second
kind could choose the salt. `life[b]` counts the starts of a process, since its counters end with
it: `ImplementsQuotaPerLife` maps each life of each process to a limiter of its own
that implements `WindowQuota`, which is what `config.py:52` and `main.py:45` warn
of. The clock of one machine is assumed not to go back; were it to, a window whose
counters had been dropped would start again.

## 3. Runs

All runs check deadlock, except where requests are made once or time ends
(all but `keys_*` and `lifecycle`), and the system just stops.

| run | expects | instance | shows |
|---|---|---|---|
| `keys_requests` | pass | 1 key, 2 users, 1 process, 1 call, 2 requests, times 0..3, 1 fault | dead keys are not admitted, live ones not refused, no usage row is lost |
| `keys_control` | pass | 2 keys, 2 users, 2 calls, clocks off by 1, times 0..2, 1 fault | listings tell the truth, dead keys stay dead, only owners revoke live keys |
| `keys_liveness` | pass | 1 key, 2 processes with reapers, 2 faults, times 0..3 | every expiring key ends up revoked |
| `quota` | pass | 2 processes a tick apart, 3 requests, limit 1, window 2, lifetime 4, delay 1, 1 fault | quota, earned refusals, Retry-After, leaks, refinement of `WindowQuota` |
| `quota_late` | violation | one clock, INCR up to 4 ticks under way, lifetime 3 | the quota fails when an INCR outlives its bucket |
| `bucket_leak` | violation | 1 fault | a bucket without a time to live |
| `relay_billing` | pass | 2 requests, 3 kinds of stream, 1 fault | complete streams are billed once and correctly, what is billed was sent, lost rows are explained |
| `relay_partial` | violation | 1 request, 1 stream | an abandoned stream is billed zero |
| `history` | pass | 2 users, 1 id, 3 requests of any kind, 2 connections, times 0..1, 1 fault | whole conversations, truthful reads, lists and 404s, order of time stamps, refinement of `HistoryStore`, everyone is answered |
| `lifecycle` | pass | 8 environments x 8 `.env` x 5 registry files, 1 request, 2 faults | only sound configurations serve, unsound ones open no more than they must, order of opening and closing, `/ready`, sound ones end up serving |
| `control_auth` | pass | 2 keys, 4 tokens (one from a clock ahead), 3 modes, 2 requests, 1 cached key, times 0..2, 1 fault | callers are vouched for, keys were published, rotation keeps nobody out |
| `data_plane` | pass | 2 tenants, 3 requests, 2 public names of a vLLM and a model elsewhere, limit 1, window 2, 2 lives | quota per life, bounded burst, no shared prefixes |

Why the bounds are enough. The properties of `keys_requests` are about one key
and one request at a time, and interference comes through the one row of the
key: one control-plane call, one reaper and a second request produce every kind
of step on it (create, revoke by its owner or by another, expire, sweep, use,
restart), and the three ticks let a key be created, live, expire and be swept.
`keys_control` has a second key so that a statement can hit the wrong row, and a
second call so that two creators, or a lister and a revoker, overlap. The
theorems of section 4 remove these bounds, here and for `quota`. `quota` takes 3 requests for a limit of 1:
one within, one over, one to interfere; the windows 2 : 4 stand for 60 : 90 with a
clock difference and a delay that exhaust the slack. `relay_billing` cuts at
every symbol, so the boundary inside a frame, at a newline and between frames all
occur; bodies of up to four lines hold a report in the middle, at the end, twice, or
not at all. Two requests share nothing but the fault, so a third would add nothing.

In `history` three requests of any kind on one conversation are a save, another
save or a delete that waits for it, and a reader of both; the users differ in
whether their row exists. Two connections for three requests make one wait for the
pool while another waits for a lock. With a single id the rail is never longer than
`MaxList`; that `LIMIT` keeps the newest is by its definition (`Newest`). The
settings of `lifecycle` hold every way a variable can be given: in the environment,
in `.env`, in both, nowhere, empty or blank. In `control_auth` one cached key for two
keys makes the cache evict, and a lifetime of 1 in three instants lets the key set
run out between and during requests; a start before any key is published gives an empty
one. In `data_plane` three requests within a limit
of 1 and two windows are a burst over the turn of a window, with one to spare.
All four leave a property out of reach for no case but a larger number of the same.

Each property is shown to depend on the code by a mutant (`mutants` in
`PROJECT.json`; the mutated operators stand beside the originals, marked MUTANT):
with it, TLC finds the property violated.

Fairness is assumed in three runs, always weak. In `keys_liveness` time passes; the loop of
the reaper wakes after its sleep (`asyncio.sleep` returns) and its statement ends,
with success or with an exception; and a process that stopped is started again
(`restart: unless-stopped` in `docker-compose.yml`). A sweep may fail whenever it runs; what makes the property true is that faults are
finitely many (`MaxFaults`), that is, that the database does not fail for ever.
In `history` each handler is resumed when its statement need not wait: Postgres
answers, and asyncio runs what is ready. Requests are finitely many, so nobody is
overtaken for ever at the pool or at a lock; that locks are granted in some order
is all that is needed. In `lifecycle` startup and shutdown go on, requests and
sweeps end, and outages end; a process that died is started again. That users stop
it, or that it crashes, is not assumed.

## 4. Proofs

### API keys

`ApiKeysProofs` proves, for any sets of keys, users, processes, calls and
requests and any bounds, from the assumptions named in `ApiKeys` (lifetimes are
positive, `NoExpiry` is no time, `NoRow` is no row, the bounds are naturals):

* `TypeCorrect`: types, foreign keys, and that a stopped process runs nothing;
* `DeadKeysAreNeverAdmitted` and `RefusalsAreAlwaysJust`, about requests;
* `ListsAreTruthful`, about listings;
* `DeadKeysStayDead`, `BillsNeverShrink`, `OnlyOwnersRevoke`, about steps.

They rest on `Invariance`, that `InductiveInv` holds in every reachable state.
None of the state properties is inductive by itself, because each is about what a
handler read some awaits ago. The invariant adds

* `CreatorsHoldFreshKeys`: a key about to be inserted has no row, and no other
  creator has it. Without it an INSERT could overwrite a revoked row.
* `SweepsFindExpired`: what a sweep found still has expired when it commits.
  Without it a late commit could revoke a live key.
* `ListingsAreRows`: a fetched row differs from the table at most by a
  revocation since.
* `RequestsKnow`: what a request's history says of its key is still true, and the
  row it looked up agrees with it.

The argument is monotonicity: `RowsEndure` (no step drops a row, changes its owner
or expiry, or clears `revoked`) and `ClockStep` give `DeadEndures`, and what is
remembered of a key is only ever a fact that endures. `TableSteps` reduces the
actions to the three ways the table can change.

### Rate limiter

`RateLimitProofs` proves, for any sets of keys, processes and finitely many
requests, any limit, window, lifetime and clocks up to `MaxAhead` apart, and any
number of faults:

* `LimiterTypeCorrect`, `RetryAfterIsEnough`, `RefusalsAreAlwaysEarned` and
  `LeaksAreOnlyFaults`, however late an INCR is;
* `QuotaIsKept` and `QuotaIsImplemented`, assuming `TimelyIncr`: the quota, and the
  refinement of `WindowQuota`.

The assumption is stated in the theorems themselves, since without it they are
false: `quota_late` is the counterexample.

The first four rest on `CountingInvariance`. Its invariant `CountingInv` says that
tickets (the replies of INCR) are dense: whatever number a bucket has reached, or a
request has drawn, every smaller one was drawn by somebody. So a refused request
has more than `Limit` others below it. That survives even a bucket that is dropped
too early: the count goes back, but tickets do not. `ExpirersWait` is in it
because an EXPIRE sent to a missing key would be a step redis does not make;
whoever is about to send one is the only one, and the bucket waits for it.
`LeaksAreOnlyFaults` adds that a counter without a time to live has somebody about to
give it one, unless the EXPIRE failed, which is a fault of its own (`LeakSteps`).

`QuotaIsKept` rests on `TimelyInvariance`, that tickets of one window also differ
(`TicketsDiffer`), so those admitted are distinct numbers from 1 to `Limit`. That is
inductive only together with the bucket's life: `BucketsLast` says that a bucket of
window `w` expires no earlier than `Earliest(w)`, because it got its time to live
after `w` had begun on somebody's clock; `IncrsArePunctual` and `TimelyIncr` say
that an INCR for `w` is executed before `Earliest(w)` (`PunctualCount`); and
`TicketsAreCounted` that until then the bucket has forgotten no ticket, so the next
one is above them all. In `QuotaIsImplemented` an admission maps to a grant and
every other step to a stutter; that the grant finds room is the quota of the state
after it.

### Chat history

`ConversationsProofs` proves, for any users, ids, bodies, requests, connections
and faults, every safety property that `history` checks:

* `TypeCorrect`, `ConversationsAreWhole`, `RailsAreWhole` and `LaterStampsAreNewer`,
  about the tables and the rail;
* `ReadsSeeVersions` and `NotFoundIsTrue`, about what requests are told;
* `HistoryImplemented`, the refinement of `HistoryStore`.

The assumptions are those named in `Conversations`: bodies are bodies, and `NoRow`
is none of the values that a row, a request or a document may have.

All rest on `StoreIsInvariant`. That a conversation is one save
(`MessagesOfOneSave`) is not inductive: a commit replaces the messages that its
DELETE found some statements earlier, so one has to know that they are still those
of the conversation (`SavesHold`), which holds because nobody else can have written
them: two transactions never hold the same row (`LocksExclude`), and a delete waits
as well. `AskedInv` ties where a request stands to what it asked for, and
`VersionsCommitted` says that whoever wrote a version has committed, so that its
body is settled (`AsksAreSettled`). `CommitReplaces` and `DeleteClears` say what
the only two writing actions do to each conversation; `TablesStay` that there are
no others.

On top of it, `LookInv` says that a request has seen the version it holds and the
one that is there now. Its heart is `RowStaysOrGoes`: the row that a waiting delete
has found stays the same row through any number of saves, or the conversation is
seen gone; so a 404 is never an accident of the wait. `StampInv` says that a
transaction began no earlier than all that had committed before it, because the
clock does not go back (`ClockRuns`) and what has committed stays as it is
(`CommittedStays`). In the refinement a handler's start is an `Arrive` that fixes what the
request asks for (`ArriveAsks`, `AskedOfStore`), a commit is the `Put` of exactly that
(`AskedToSave`, `RowsSayTheBody`), a delete that finds its row the `Delete` of exactly
that (`AskedToDelete`), and every other step stutters.

### Control-plane authentication

`ControlAuthProofs` proves, for any keys, tokens, settings, requests, size of the key
cache and lifetime of the key set, and any number of outages and restarts, all that
`control_auth` checks: `AuthTypeCorrect`, `CallersAreAlwaysVouchedFor`,
`GoodTokensAreAlwaysAccepted` and `KeysAlwaysWerePublished`. The assumptions are those
named in `ControlAuth`: signatures are ideal, and the names for nothing differ from
everything else.

They rest on `AuthInvariance`. Neither property of a verdict is inductive, because
a request carries what it found some awaits ago. `UnderWay` says what that is still
worth: a key set that was fetched holds every key published from the request's
arrival on, however old it has become; a key that was found has been published
since the process started; and who remembers a calm provider faces one. `BarrenFits`
says that an empty key set in use is one that `barren` knows of, so that a lookup which
fails on it is excused.

### Data plane

`DataPlaneProofs` proves, for any keys, processes, routes, bodies, limit and window,
all that `data_plane` checks. `PlaneInvariance` gives `PlaneTypeCorrect` and
`TenantsNeverShareAPrefix`: in the cache of an upstream to which only vLLM routes lead,
everything is under the salt of who sent it (`PrefixesFit`), because on a vLLM route `build_payload` puts it there whatever the
caller sent (`PayloadFits`). Nothing is assumed of what callers put into `cache_salt`;
the condition `OnlyVllm` on the upstream is in the property. That salts of two users
differ is a fact of the model, since the digest is ideal there.

`CountInvariance` gives `BurstsAreBounded` and `QuotaPerLifeIsImplemented`. The counters
drop older windows, so they bound admissions only from the window now on
(`AdmissionsAreCounted`); the quota of the windows before is kept beside it
(`QuotaKept`), and a clock that does not go back never returns to them. A request that
waits to be counted is of a life that goes on (`Fits`), so it is counted where its
life's admissions are; a life that has not begun has none (`FutureIsEmpty`). A burst
lies in two windows, hence twice the limit.

### Chat relay

`ChatRelayProofs` proves, for any streams, totals, requests and faults, and for every
way to cut a stream into chunks, all that `relay_billing` checks:

* `RelayTypeCorrect`;
* `CompleteStreamsAlwaysBilled` and `BillsWereAlwaysSent`, about what a row is worth;
* `LostRowsAreAlwaysExplained`, about the rows that are missing.

The assumptions are those named in `ChatRelay`: bodies are sequences of lines, totals
are positive, and no usage is no number.

They rest on `CutsDoNotMatter` and `RelayInvariance`. What is in the buffer and the sink
of a request is determined by how much of the wire has been parsed, however it was cut:
the buffer is what follows the last whole line (`Rest`), the sink the last usage report
of the lines before it (`SinkFits`). `CutsDoNotMatter` says that parsing one more chunk,
of any length, keeps it so; there the newlines of buffer and chunk together are found on
the wire (`NewlineAt`), and the lines up to the last of them are read by the fold one
after the other (`SniffedLines`). In the invariant (`RelayInv`) a stream has parsed what
its caller was sent, no more (`Fits`): while a chunk is being yielded the sink is behind
what has arrived, and that is what makes `BillsWereSent` true of a stream abandoned at
any await. A row is worth such a sink (`Worth`). `LostRowsAreExplained` is inductive
beside the types: of all steps only `RecordFails` adds to `Lost`, and it is a fault.

The wire and the sniffer are recursions over data, and the library's rules of induction
take an operator as parameter, which the provers cannot instantiate. The induction is
done over sets of numbers instead: `AllNumbers`, from a least counterexample
(`LeastNumber`), which comes from the library's fact that `<` on the naturals is well
founded. With it `FoldExists` and `FlatExists` show that the recursive functions behind
`FoldLeft` and `FlattenSeq` exist, so that their equations may be used.

### Process lifecycle

`LifespanProofs` proves, for any deployments, requests and faults, all safety properties
of `lifecycle`: `LifeTypeCorrect`, `AlwaysServesAsConfigured`,
`OpensNoMoreThanConfigured`, `UsedOnlyWhileOpen` and `ReadyIsAlwaysTrue`. Of a deployment
`DeploymentsAssumption` says that variables have values or are absent, and that the key
of a route is one of the references its file expands (`registry.py` expands the file as
a whole).

All rest on `LifeInvariance`: what is open follows from the number of the step that the
startup or the shutdown is at (`OpenFits`), and what has been checked or read at earlier
steps still holds (`ConfigFits`), since a deployment does not change under a process. A
process in service has passed every step, which gives the first two properties; that the
reaper is closed first and the others after it, and that uvicorn waits for requests
before the first close, gives the third. `ChecksFit` says what a `/ready` half way
through has witnessed of the two dependencies; without it the answer of the second await
would say nothing of the first.

`SoundStartsAreNeverRefused` is the safe half of `SoundDeploymentsServe`: the startup of
a deployment that is `Sound` ends only by a crash, or at the step that opens a dependency
that is down. None of the checks refuses it (`SoundPasses`), so that what liveness has
left to say is that outages end and docker starts the process again.

### What is only model-checked

The liveness properties: `ExpiringKeysAreSwept`, `RequestsEnd` and
`SoundDeploymentsServe`, of which `SoundStartsAreNeverRefused` proves what needs no
fairness. The prover does not reason about fairness and ENABLED. The
findings of section 5 are counterexamples of runs.

## 5. Findings

* `bucket_leak`: a fault between INCR and EXPIRE leaves a counter that redis
  keeps for ever, against "so the key always cleans itself up" (`ratelimit.py:43`).
  `LeaksAreFaults`, which is checked and proved, says that nothing else leaks, one
  bucket per fault.
* `quota_late`: an INCR delayed beyond its bucket's life is counted from 1
  again, against "the limit holds across every broker process"
  (`ratelimit.py:4-5`). Under `TimelyIncr` `QuotaHolds` is checked and proved.
* `relay_partial`: an abandoned stream leaves a row of zero tokens, against "so
  partial generations still get billed" (`routers/chat.py:74-75`); `docs/WORKFLOW.md:379`
  knows of it.

## 6. Not modelled, and why

* The wording of errors (`describe_error`, the details of 4xx answers), the names
  and defaults of settings that only tune (`key_prefix`, timeouts, URLs), labels and
  display prefixes: data that no property tells apart. That a streamed upstream
  error is passed to the caller as it is, while a plain one is summarised, is a
  difference of wording.
* Parsing of `.env`, YAML and JSON: the models start from what the parsers return. In
  `Lifespan` a `${VAR}` stands for the value itself; YAML, which reads the text after the
  expansion, would take digits for a number, `null` for nothing and ` #` for a comment.
* The sums of `GET /usage`: which rows count is in `ApiKeys` (`UsageOf`), adding
  them up is SQL's.
* `POST /v1/completions` (always 501) and `GET /health` (always ok): no state.
* The migration in `db/migrations`: run once by hand, before the code that needs it.
* `serving/mock/server.py`: a test double; its answers are among the bodies that
  `ChatRelay` ranges over. `scripts/` and `contracts/`: checks that people and CI run
  against a deployment; no part of the running system.
* The gateway, the frontend and vLLM: not code of this repository, and present only as
  what the broker sees of them.

## 7. Plan

1. `Broker`: a request through authentication, limiter and relay in one state, for
   who is counted and who is billed.
2. A larger `history` with two ids, so that the rail is cut at `MaxList`.
