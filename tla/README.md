# A verification project for go-backend-practice

TLA+ models of the concurrent and failure-prone parts of the repository, the TLC
runs that check them on small instances, and TLAPS proofs that hold for every
value of the constants.

The repository is a 40-day course. Days 7 to 35 build one product, a notes API, in
snapshots; **Day 35 (`src/Day_35_hardened_notes_api`) is the finished one and the
one modelled here** (paths below are relative to it). Days 1 to 6 are HTTP basics, with
users in a map from Day 3 on, Days 36 to 38 are small concurrency programs, Days 39 and
40 measure things.

## 1. Inventory

### The system

A request to a replica passes RequestID, Logger, CORS, the global rate limit,
Recover; then `/auth/*` (with a stricter limit), or RequireAuth, the idempotency
guard, and the notes or audit handlers (`main.go:120-140`). Any number of
replicas share one Postgres and one Redis; nothing else is shared between them.
Within a replica requests share the singleflight group, the in-memory limiters and
the connection pools.

| Component | State | Operations | Interacts with |
|---|---|---|---|
| Idempotency guard (`internal/idempotency`) | Redis record per scoped key: pending (lease TTL) or done (TTL), with body hash and response | `Middleware`, `Reserve`, `Save`, replay | any mutating handler; Recover outside it; Redis expiry |
| Refresh tokens (`internal/auth`) | rows of `refresh_tokens`: user, expiry, `revoked_at`, `replaced_by_id` | `Login`, `Refresh`, `Logout`, `RevokeFamilyDescendants` | `users` (foreign key, cascade) |
| Notes service and cache (`internal/notes`, `internal/cache`) | note rows, JSON entry per note in Redis, singleflight flights | `Get`, `List`, `Create`, `Update`, `Patch`, `Delete` | transactor, audit |
| Transactor (`internal/dbtx`) | open transaction in the context | `InTx`, `RunnerFor` | notes and audit repositories |
| Audit (`internal/audit`) | `audit_logs` rows | `Log`, `List`, and three listings joined with notes | notes |
| Distributed limiter (`internal/ratelimit/redis.go`) | sorted set of timestamps per client, key expiry | the Lua script, `Allow` | middleware (headers, 429) |
| In-memory limiter (`internal/ratelimit/ratelimit.go`) | token bucket and last-seen time per client | `Allow`, `cleanup`, `Stop` | middleware |
| Users and access tokens | `users` rows, signed tokens | `Register`, `Login`, `GET /me` | unique index; refresh tokens |
| Server (`main.go`) | pools, deferred calls, signal context, listener, in-flight requests | start, serve, `Shutdown` with a deadline | all |
| Handlers, validation, JSON, logging, config, OpenAPI, generated queries | none of their own | decode, validate, encode | - |
| User and to-do stores of the early days | maps behind a mutex; a table | create, read, update, patch, delete, list | - |
| Concurrency exercises (Days 36-38), benches (39, 40) | channels, wait groups, mutexes, contexts | pools, fan-in, errgroup, semaphore, leak demo | - |

### What is hard about it

* **Idempotency.** A lease that expires under a running handler; a late Save; a
  Redis error on which the guard fails open; hang-ups that cancel the Save; panics
  and crashes that leave a pending record. Correct means: at most one write per key
  while its record lives, replays that are genuine and final, no key blocked for ever.
* **Refresh tokens.** No transaction: each call is three or four statements, any of
  which may be the last, and calls of one client overlap. Correct means: sound
  chains, old tokens retired, at most one usable token per session, no effect on
  other sessions.
* **Cache.** Cache-aside with invalidation after the commit, on several replicas,
  with joined queries and lost commands. Correct means: staleness has only known
  causes and ends, answers are fresh, and the audit trail is never apart from the note.
* **Rate limit.** Timestamps from many clocks, lost replies, resent scripts, key
  expiry. Correct means: the limit, bounded memory, a delay that suffices.
* **In-memory limiter.** A request uses its bucket after it let go of the mutex, while
  `cleanup` evicts idle visitors. Correct means: burst and rate hold although buckets
  are forgotten and made anew, and the map does not grow for ever.
* **Listings.** A client walks pages while notes come, go, and begin or cease to match
  its search, and while transactions with older ids are still to commit; the trail is read
  with its notes in one statement or in several. Correct means: pages in order without
  repeats, nothing missed that was there when its place was passed, no note shown in a
  state that is older than the entry beside it.
* **Shutdown.** A signal at any time, also before the server listens; handlers that are
  still running at the deadline, while the deferred calls close their pools. Correct
  means: pools outlive handlers unless the shutdown was forced, a clean one cuts off no
  request and no reservation, and a signal always ends the process.
* **Accounts.** Two registrations of one email, in two spellings; an INSERT whose
  acknowledgement is lost. Correct means: one account for an email, that its owner, and
  nobody else, can log in to.
* **Exercises and stores.** Channels on which everyone waits for everyone, counters and
  peaks, goroutines that outlive their caller; a PUT that takes its mutex twice; two
  hand-written repositories that must behave alike.

`PROJECT.json` lists every hazard at its line with the properties that cover it.

## 2. Modules

| Module | Models | Theorems |
|---|---|---|
| `RetrySafeWrites` | abstract: what an Idempotency-Key promises | |
| `Idempotency`, `MCIdempotency` | the guard, its store, the handler behind it, faults | `Idempotency_proofs` |
| `RefreshTokens`, `MCRefreshTokens` | the token table and the three calls | `RefreshTokens_proofs` |
| `AuditedNote` | abstract: a note and its trail change together | |
| `NotesCache`, `MCNotesCache` | one note: row, trail, Redis entry, flights, calls on replicas | `NotesCache_proofs` |
| `SlidingWindow`, `MCSlidingWindow` | one bucket of the Redis limiter | `SlidingWindow_proofs` |
| `IdealBucket` | abstract: a token bucket that is always there | |
| `TokenBucket`, `MCTokenBucket` | one client of the in-memory limiter, and its cleanup | `TokenBucket_proofs` |
| `NotesTable` | the notes of a user and their trail, as transactions write them | |
| `Listings`, `MCListings` | extends `NotesTable`: a walk through the pages, or a listing of the trail | `Listings_proofs` |
| `ServerLifecycle`, `MCServerLifecycle` | one replica from start to exit, with requests in flight | `ServerLifecycle_proofs` |
| `Stream` | abstract: what a pipeline of channels delivers | |
| `FanIn` | generator, workers, relays, Merge and main of Day 37 | `Exercises_proofs` |
| `Groups`, `Bounded`, `Leaks`, `Counters` | errgroup and its limit; worker pool and semaphore; the leaks of Day 38; counters and Once | `Exercises_proofs` |
| `Maps` | assignment to a Go map or to a table with a key, and deletion | |
| `Users`, `Todos` | the user stores of Days 3 to 6; the two to-do repositories of Day 16 | `Exercises_proofs` |
| `Accounts` | registration, login and `GET /me` of Day 35 | `Exercises_proofs` |
| `MCExercises` | the programs from `FanIn` to `Accounts`, one after the fan-in per behaviour | `Exercises_proofs` |

What is composed: `Listings` runs its readers on `NotesTable`; `ServerLifecycle` puts rate
limit, guard and handler of one route behind the server; `RefreshTokens` takes over where
the login of `Accounts` inserts its row.

Conventions: `pc[c]` is where a call or attempt is, an action is the code between
two points at which others may interleave (a Redis command, an SQL statement, a
singleflight rendezvous, a response), and *history* variables are read by
properties only. Operators named `X_Something` before the definition `X` are
plausible mistakes in the code `X` translates; each is caught by the property it is
listed with in `PROJECT.json`.

### Idempotency

`pc` follows an attempt through `Middleware` (middleware.go:21-85): `new` (checks
before the store), `reserve` (SETNX), `lookup` (GET and the switch on `Reserve`'s
error), `leased` or `open` (handler, recorded or not), `reply`, `save`. `redis[k]`
is the record. The handler commits at most one transaction (`CommitWrite`) at any
time while it runs, since its request context may be cancelled (`HangUp`) and it
may panic or die before or after. `Faults` names what may go wrong: leases and TTLs
that pass, panics, crashes, hang-ups, Redis commands that fail applied or not, and a
SETNX resent by the client library. `disturbed` collects the keys whose record
expired or for which Reserve failed: outside it the guard's promise is unconditional.

### RefreshTokens

The table is `owner`, `revoked`, `replacedBy`, `expired` over an identity sequence;
a call is one of the places between its statements. `Family` is the recursive query:
the least set that contains the start and is closed under `replaced_by_id`.
`session` and `parent` are history: which login a token descends from, and which
token it was obtained with. `contended` collects sessions in which two calls
overlapped. Any call may end at any point (`CallEnds`: error, cancelled context,
crash), users may be deleted (`ON DELETE CASCADE`), tokens expire.

### NotesCache

The contents of a note are abstracted to `version`, the number of its committed
writes; a cached entry is the version it holds. `Get` goes `do` (singleflight: lead
or join), `query`, `read`/`absent`, `fill`; a write goes `change`, `log`, `commit`,
`invalidate`. Joined callers each SET the entry, as in service.go:51. `excused`
collects the versions a commit overlapped (a Get held them) or an invalidation
missed (failed DEL, crash, lost commit acknowledgement); `late` collects what was
answered to a Get that began after a newer version had been answered.

### SlidingWindow

`Script` is the Lua script; a request's timestamp is read before it and may be up to
`Skew` behind the clock of Redis when the script runs, which also stands for the
delay of a resend. A request may be lost before or after the script ran; the client
library resends it with the same member and timestamp (`waiting`), or gives up, in
which case the code denies it. `Tick` is the Redis clock with key expiry.

### TokenBucket

`visitor` and `lastSeen` are the client's entry in the map, `level[l]` what the bucket
of limiter `l` holds, in ticks (`Period` ticks make a token). A request is `Get` (under
the mutex) and then `Allow` on the limiter it holds; `Sweep` is one turn of `cleanup`,
for a tick that fired earlier (`tick` is the ticker's channel of capacity one, `Fires`
drops a tick when it is full). `Stop` may come at any time, and again, which changes
nothing. `Delay` bounds how long a goroutine that can run is kept waiting, by a guard of
`Tick`; without such a bound a request could hold an evicted bucket. The stretch of time
that `WithinRate` watches begins at `from`, which is arbitrary.

### NotesTable and Listings

A transaction begins (`created_at` is that time), changes its note, takes the id of its
entry, and commits or rolls back; ids come from sequences, which do not roll back. The
walk is `decodeCursor`, one SELECT of `limit + 1` rows, and `encodeCursor`, in either order,
with or without a search; `late` collects the ids of which there was nothing to list when
the walk passed them. A listing of the trail reads entries and notes in one statement
(`join`), in two (`in_batch`) or in one per entry (`naive`), and writes may come between.

### ServerLifecycle

`main` goes through `main.go` statement by statement: each pool is opened and its `Close`
deferred, the migration may fail, the serving goroutine may return an error, a signal makes
the context done, `Shutdown` waits for the handlers (`Drained`) or for its deadline
(`Deadline`), and `Return` pops the deferred calls in their order. The requests carry one
Idempotency-Key and are anywhere in limit, guard, handler and Save while that happens; the
guard is the one of `Idempotency` without bodies (`SetNX`, `Lookup`, `ReserveFails`,
`SetNXResent`, `Save`, `SaveFails`). A command on a closed pool fails: the Redis limiter then
denies, the guard fails open, the handler fails. The same happens to a request whose client
hung up (`gone`), and a Redis command may fail at any time, applied or not; a handler may
panic (Recover answers) before or after its write, and the record may expire.

Two histories say what of this a shutdown is not to blame for. `left` collects the requests
whose reservation nobody will save: the handler panicked, Save failed, or the answer to
SETNX was lost; `holder` is who made the pending record. `disturbed` is set when the record
expires and when Reserve fails although Redis is open and the client there: the guard's own
exceptions, as in `Idempotency`. A reply that comes after the server's WriteTimeout is lost
like one to a client that is gone.

### Accounts

A registration is normalise, hash, INSERT; a login is SELECT, compare with the copy of the
row, sign, INSERT the refresh token. bcrypt has two limits of 72 bytes: `HashPassword`
refuses a longer password (which the validator lets through when it has at most 72
characters), `CheckPassword` compares the first 72 bytes only, and a login may send any
length. `First72` is what is compared; passwords with zero bytes, which bcrypt pads with, are
left out. `asked` and `welcome` remember who registered what and who was told so.

### The small programs

A send on an unbuffered channel is a step of both sides. `FanIn` has the four kinds of
goroutines of `cmd/fanout_fanin`; its mapping to `Stream` counts what main has received.
`Counters` reads in steps, so that two goroutines may read the same value. `Users` has both
forms of PUT: the one of Day 3 reads, then writes under a second lock, the one of Day 6
does both under one. `Todos` gives every request to both repositories and compares the
answers; `twin` relates an item to its row, because a create that is refused uses up an id
of the table, but none of the map. `MCExercises` runs the fan-in and then one of the other
programs, chosen at the start, so that their state spaces add up.

## 3. Runs

| Run | Instance | Shows |
|---|---|---|
| `idem_retry` | 3 attempts at one key (one with another body), all faults | AtMostOneWrite, ReplayIsGenuine, SavedResponseIsFinal, and refinement of `RetrySafeWrites` |
| `idem_progress` | 4 attempts, one without key, one too large; leases, panics, crashes, hang-ups, Redis failures and resends | Progress: attempts end, pending keys are resolved |
| `refresh_tokens` | 1 user who may be deleted, 2 calls, 4 tokens, one of which may expire | ChainsAreSound, RefreshRetiresOld, StepsAreSound; HoldsOneToken and EndedStaysEnded for sessions without overlapping calls |
| `refresh_reuse` | 1 user, 2 calls | violation, see section 6 |
| `cache` | 3 calls, 2 replicas, 2 writes, all faults, with fairness | StaleHasCause, FreshAnswers, refinement of `AuditedNote`, CacheSettles: the entry is right from some time on, and Gets end |
| `cache_overlap` | 3 calls, 2 replicas, no faults | violation |
| `window_limit` | window 3, limit 2, skew 1, a second of 3 ticks, 4 requests, 6 ticks | WithinLimit, BoundedMemory, DelayIsRight |
| `token_bucket` | burst 2, 2 ticks per token, ttl 5, ticker 2, delay 1, 2 requests at a time, 13 ticks | WithinRate, IdleIsForgotten, and refinement of `IdealBucket` |
| `listings` | 2 writers, 1 note at the start, 3 ids, 3 transactions, limits 1 and 2, every reader | PagesInOrder, MissesOnlyLate, NoteFitsEntry, OneStatePerNote, NewestFirst |
| `shutdown` | 2 attempts at one write, both limiters, hang-ups, panics, Redis failures, expiry | PoolsOutliveHandlers, CleanMeansComplete, WritesOnce, SignalEndsProcess |
| `exercises` | 4 values and 3 workers in the fan-in, then one of ten programs | refinement of `Stream`, ResultsAreRight, Interchangeable, ExercisesEnd |
| `users_put` | 2 clients, 3 users, 4 requests | violation |

**Bounds.** Two calls (or attempts) overlap in every way, a third one meets what
they left behind; in the cache runs two calls share a replica (and its flights) and
the third is served by the other (`Serves`); a fourth token is the first that can be obtained from a token whose
parent was already reused; three versions give a Get something old, something
current and something newer; two windows of time fit into `MaxTime`, so entries are
admitted, expire and are replaced; the ttl of the token bucket is exactly the time it
takes to fill plus the delay, the least for which nothing is lost, the ticker is half of
the ttl as in the code, and 13 ticks are enough for two evictions (three limiters). In `listings` two transactions overlap, so that ids are
taken in one order and committed in another, and three notes fill a page of two and one
more; the seconds of `window_limit` are as long as the window, so that the header is
rounded both ways. In `shutdown` one attempt holds the key, or has left it behind, while
the other meets it or is late; a third would find no more in the record than the second
does. Two overlapping updates of a note that exists would need a fourth version in `cache`:
that case is left to the theorem `TrailKept`. Three requests to `Accounts` are a registration, the same again in another
spelling, and a login. Calls are interchangeable where a
`.cfg` states symmetry, and no liveness property is checked under symmetry.
`CHECK_DEADLOCK FALSE` appears where a bound (`MaxTokens`, `MaxTime`, `MaxWrites`) stops the
model, not the program, and where the program ends. The proofs below do not depend on any
of these numbers.

**Fairness.** `Idempotency`: a goroutine that can run does, Redis expires a lease that is
due, and a handler eventually returns. The last is an assumption: the server's WriteTimeout
cuts the response off but does not stop the handler, so it rests on Postgres and Redis
answering or failing. Nothing is assumed of a dead replica, of clients or of
the TTL of done records. `NotesCache`: a call that runs takes its next step (every
Redis and SQL command is bounded by a timeout or its context), and an entry set with
an expiry expires. `ServerLifecycle`:
main takes the step out of its wait for a signal, `Shutdown` returns when the handlers are
done or when its context's deadline passes, and deferred calls run; nothing is assumed of
handlers or clients, which is the point of the deadline. `MCExercises`: some goroutine that
can run does (weak fairness of `Next`); every run of these programs is finite, so nothing
more is needed. No fairness is assumed of new requests or of faults.

## 4. Proofs

All theorems are `Spec => ...` for every value of the constants, from the named
assumptions in the modules only (a bound is a natural number, a null value is none of
the others, `Calls` is finite). Every safety invariant, every action property and every
refinement that a passing run checks is a theorem. An invariant is proved inductive one
named part at a time, with a case for each action.

* **Idempotency_proofs.** `Invariance` strengthens the checked invariants with what
  ties the attempt to the record: an undisturbed key has at most one attempt at or past
  `leased`, it holds the pending record or has saved it, and a done record carries the
  result of an attempt of its key and body. From it: `OneWritePerKey`,
  `GenuineReplays`, `FinalResponses`; and `ImplementsPromise`, by mapping every step
  to a step or stutter of `RetrySafeWrites`.
* **RefreshTokens_proofs.** The rows in use are exactly `1..inserted`, the row a call
  created is younger than the one it was presented, has it as parent and its session,
  and is the call's alone until it is linked; a token that was issued and has a parent
  left a call behind that revoked the parent. From it `SoundChains` and
  `OldTokenRetired`, and `SoundSteps`, which needs that `Family` stays in the session: the
  set of tokens of the session is closed, and the family is the least such set.
  `SessionInvariance` adds what holds of a session without overlapping calls: the token its
  client may use is not from a session that ended, and every other one that was handed out
  is revoked and links to one that was, or to it (`HeadIsLast`). That it is reached from all
  of them follows from the greatest one that is reached (`Reached`), since links go to
  younger tokens: no induction over the length of a chain is needed. From it `OneToken` and
  `EndedSessions`.
* **NotesCache_proofs.** The invariant relates what is older than the row to who
  may still write it: a call that holds an old version either is excused or a writer of
  a newer version has not yet invalidated; the leader of a flight is unique per
  replica; and exactly one transaction is between its row lock and its commit, which
  is why `Commit` adds one version and one audit entry. From it
  `StaleOnlyWithCause`, `FreshReads` and the refinement `TrailKept`.
* **SlidingWindow_proofs.** `ScriptRun` states what one run of the script does.
  The invariant says that the set remembers every admitted request whose window is
  not over (`Remembered`), which needs that no entry outlives its key (`KeyOK`). An
  interval as long as the window less the skew that a newly admitted request falls
  into is then contained in the set, whose size is at most the limit. From it
  `LimitHolds`, `MemoryBounded`, `RightDelay` (after the delay there is room, before it
  there is none, and the header is at most half a second short: `Quotient`,
  `RoundedDelay`).
* **TokenBucket_proofs.** A bucket that has not been used for `d` ticks holds at least
  `d` less the delay, or is full (`Refilled`); a visitor is evicted more than `Ttl` after
  it was last seen, so when `Capacity + Delay <= Ttl` what is evicted is a full bucket,
  which is what the client gets next (`HeldChanges`). What was spent and what is held
  are together at most the burst and the time that passed (`Covered`). From it `RateHolds`
  and `ImplementsBucket`; `OneBucket` needs only `Delay <= Ttl`, and `IdleForgotten` that
  no tick is dropped, `Delay < Interval`. These are hypotheses of the theorems: the code
  does not check that `RATE_LIMIT_TTL` is at least burst/rate. The defaults (five minutes
  against seconds) satisfy it, and "No correctness loss" of
  `src/Day_27_rate_limit_cors/README.md:56` holds in this sense.

* **Listings_proofs.** `WalkInv`: what is on a page is behind the cursor (`Behind`), and
  every id behind it is on a page or in `late` (`NothingPassed`), whatever the writers do
  to the table. From it `StablePages` and `CompleteWalk`. `TableInv`: ids that the sequence has
  not given are not in use (`Numbered`), a note is at least as new as each of its entries
  (`Recorded`), a transaction that created a note is the only one that knows of it and any
  other changes a note that is there (`Changing`), two do not change one note
  (`Exclusive`), and the entries of a note are in the order of their commits
  (`InCommitOrder`). From it `FittingNotes`, `OneState` and `NewestByStart`, the last of
  which says what a listing ordered by start times may get wrong.
* **ServerLifecycle_proofs.** A pool is open exactly while its `Close` is among the deferred
  calls (`Stack`), and these are run only after the handlers are done or the shutdown was
  forced (`Phases`). A pending record is of a request that is still to save it or has left
  it behind (`Owned`); until the key is excused one request reserves it, and whoever else
  is in a handler has no client and commits nothing (`Guard`). From it `PoolsStayOpen`,
  `CleanShutdown` and `OneWrite`, for any number of requests.
* **Exercises_proofs.** A part for each small program, then all of them together.
  * Fan-in (`FanInv`): every value is in exactly one place between the generator and main
    (`Kept`, `Single`), and a stage ends only after the one that feeds it (`Order`). From it
    `FanDelivers`, the refinement of `Stream`, and `FanLeavesNothing`. That there is a worker
    (`FanInAssumption`) is needed: without one Merge would close at once.
  * errgroup (`FetchInv`): nobody is cancelled before the first error is set. With a limit
    (`LimitInv`): the counter counts who is inside, and no more are active than there are
    slots (`Slots`); the peak lags behind the highest value only while a job that has seen
    that value is still in its compare-and-swap loop (`Recorded`), so it is exact when all
    are over. A plain store breaks `Recorded`.
  * Leaks (`LeaksInv`): the channel is empty until the goroutine has ended.
  * Counters (`CountInv`): the counter and the increments that are still owed never exceed
    the total, and equal it with a mutex or with atomics; a goroutine that holds the mutex
    has read what is still there (`Readers`). `Owed` is the size of a set of increments,
    since a sum over goroutines would need an induction; `OneLess` takes one away.
    Once (`OnceInv`): at most one goroutine is in the initialiser.
  * Worker pool (`PoolInv`): a job that was offered is with one worker, or was processed
    once. Semaphore (`SemInv`): the tokens that are out are a set of pairs of a job and a
    number (`Spent`), which together with those of the semaphore make the budget (`Ledger`);
    a job that costs all of it leaves none for another, which is why it runs alone.
  * Users (`UsersInv`): under an id is the user with that id, or one that was deleted under
    a PUT of Day 3. A PUT that has read writes to an id that was given, or to id 0, and to
    that only after a deletion (`Filed`).
  * Accounts (`AccountsInv`): one row for a normalised email (`AccountRows`); what a login
    carries from SELECT to the signature is of the account that was registered with its
    email and with what bcrypt sees of its password (`CallsCarry`), as are tokens and answers.
  * To-dos (`TodosInv`): the items and the rows are the same under ids that grow together
    (`Twins`), and the last answers are (`Alike`). The check under the mutex and the unique
    index refuse the same titles (`NewTitle`, `TakenIsNotUnique`). A listing is an order by
    rank: a function that grows keeps ranks (`SameRank`), so sorting the items and cutting
    the result gives what ORDER BY and LIMIT give (`ListBoth`).
  * Together (`ExercisesInv`): a step of `MCExercises` is a step of one program and leaves
    the variables of the others alone (`OneAtATime`), so the invariants hold side by side.
    From them `ExercisesAreRight`, `RepositoriesAreTwins` and `ExercisesDeliver`.

  The assumptions are that there are finitely many jobs and goroutines
  (`GroupsAssumption`, `CountersAssumption`), that each job of the semaphore costs
  something (`BoundedAssumption`; no relation to the budget is assumed), that normalising
  an email twice is normalising it once, and that bcrypt compares the whole of a password
  that is not too long for it (`AccountsAssumption`).

**Only model-checked.** Liveness under fairness (`Progress`, `CacheSettles`,
`SignalEndsProcess`, `ExercisesEnd`) is out of the prover's reach.

## 5. Not modelled, and assumptions

* Contents: titles, bodies, hashes and headers are values or versions; two bodies with
  one hash do not occur. Tokens are unique (256 random bits).
* A statement of Postgres is atomic at its snapshot; a transaction holds its row lock
  until it ends. A Redis command or script is atomic.
* Operators may delete users (there is no endpoint for it); nobody edits rows by hand.
* `Store.Release` is never called. bcrypt, JWT signatures and the random numbers are
  libraries that work; decoding, validation and encoding of a single request are sequential
  and have no state.
* The rest of the pipeline (CORS, request ids, logging) handles headers; authentication only
  refuses. Configuration, OpenAPI and the generated queries have no behaviour of their own.
* Days 7 to 34 are the product on its way to Day 35. Each folder is a copy of the one before
  with one thing added, so a model of them would repeat the ones here; they are most of the
  repository's lines. What they add that is not in Day 35 any more, the two repositories of
  Day 16, is `Todos`.
* Of Days 36 to 39, demonstrations whose outcome is fixed by sleeps or by the runtime are
  left out (among them `select/main.go`, which receives its runner-up from `b` and would
  wait for ever had `b` won), as are `sync.Pool` and measurement code.
* Everything marked `partly` or `not_modelled` in `PROJECT.json` has its reason there.

## 6. Where the code and its documents differ

Each is a run that ends in a counterexample; `PROJECT.json` quotes the lines.

| Run | What the document says | What happens |
|---|---|---|
| `refresh_reuse` | reuse detection kills the family | not the token an overlapping refresh created |
| `cache_overlap` | staleness lasts milliseconds | an overlapping Get refills the old value, until the TTL |
| `users_put` | PUT of Day 3 returns the updated user | it returns the user as it was before |

More that the models show without a run of their own:

* A retry re-runs the handler once the lease has expired under a slow one, although
  `src/Day_33_*/README.md:167` says a retry does not; `AtMostOneWrite` is stated for keys
  that are not `disturbed`. A handler that panics leaves its key pending until the lease
  expires, which line 209 documents (`Progress` shows that it ends).
* Two overlapping refreshes of one token give two usable tokens
  (`src/Day_20_*/README.md:45` promises one); `HoldsOneToken` is stated for sessions that
  are not `contended`.
* Retry-After is rounded to the nearest second and may be half a second short of the delay
  (`DelayIsRight`), against README.md:137.
* The sliding log is called exact, and the same across replicas. Timestamps are read before
  the script runs, so the limit holds for the window less the skew (`WithinLimit`).
* The deferred closes take Redis before Postgres. After a forced shutdown a late attempt
  whose Reserve fails runs unguarded and can still write; `WritesOnce` says so.
* "shutdown clean" does not mean that no key is pending: one that lost its reservation before
  the signal, to a panic or a hang-up, stays so until its lease is over (`CleanMeansComplete`).
* PUT of Day 3 on a user that is deleted meanwhile puts it back, with id 0; `UsersAreRight`
  allows that, for Day 3 only.
* The two repositories of Day 16 give different ids after a refused create, and a search
  with LIKE's wildcards matches differently; `Interchangeable` is stated up to both.
* `src/Day_17_*/README.md:52` says that what is beyond 72 bytes of a password is silently
  ignored. A login does so: a password of 72 bytes is matched by any longer one that begins
  with it. A registration does not: bcrypt refuses more than 72 bytes, and as the validator
  counts characters, a long password in another script is a 500, with no account left behind.
* `src/Day_37_*/README.md:59` says that `SetLimit(0)` means unlimited. In errgroup only a
  negative limit does, and with 0 `Go` blocks for ever, as `GoJob` does with `Limit` 0; the
  program sets 4, and no run or property is about the other values.
* An overlapping refresh survives a logout, and a Get that joins a query begun before a write
  is answered with the old note: `EndedStaysEnded` and `FreshAnswers` except both.
* A registration whose acknowledgement was lost is answered with a 500, and its retry with
  a 409; the account is there and its owner can log in (`AccountsAreRight`).

## 7. What is left

The models cover the parts of Day 35 that keep state or run concurrently, and the
exercises. What could be added: one composition of authentication, limit, guard, Recover and
handler with many keys and users (today `ServerLifecycle` has one key, `Idempotency` any
number of them but no limiter); the in-memory limiter with several clients in one map; and
the cache with several notes of one user.
