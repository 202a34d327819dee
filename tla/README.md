# A formal model of ZaaS

ZaaS ("Zufall as a Service") is a Go HTTP service that hands out random values. Its own logic -
what is not a library call or a page of HTML - is the life of an API key (register,
verify by e-mail, reissue, use, revoke), the limits on the rate of requests, and the
start, shutdown and backup of the service. This directory holds TLA+ modules
translated from that code, the instances TLC checks, and theorems TLAPS proves.

    tlc -config AuthSafety.cfg MCAuthFlow        # or any other .cfg with its MC module
    tlapm AuthFlowProofs.tla                     # or any other module with proofs

Paths below are relative to the repository's root; `auth.go` alone is
`api/internal/handler/auth.go`.

## The system and its parts

| Component | State it keeps | Operations | Talks to | Hard about it |
|---|---|---|---|---|
| Client store, `api/internal/store` | tables `clients`, `verification_tokens` | `CreateClient`, `GetClientByEmail`, `GetClientByAPIKeyHash`, `MarkClientVerified`, `RevokeClient`, `CreateToken`, `ConsumeToken`; an administrator's SQL | handlers, middleware | every call is one autocommitted statement; handlers are sequences of them and interleave |
| Auth handlers, `auth.go` | none of their own | `AuthRegister`, `AuthVerify`, `AuthReissue` | store, e-mail | errors, lost answers and crashes between statements; decisions on rows read earlier |
| API key middleware, `api/internal/middleware/auth.go` | none | `Auth` | store | rows read and used later; errors read as bad keys |
| E-mail sender, `api/internal/email` | none | `SendVerification`, `SendReissue` | SMTP | fails or loses the message, the answer is 202 all the same |
| In-memory limiter, `api/internal/ratelimiter/memory.go` | timestamps by key, a cleanup goroutine | `Allow`, `AllowN`, `Close` | rate limit middleware | clock read before the mutex; cleanup in between |
| Redis limiter, `api/internal/ratelimiter/redis.go` | sorted set by key in Redis | `Allow`, `AllowN`, `Close` | rate limit middleware | several replicas and clocks, time-outs after the script ran, key expiry |
| Request pipeline, `api/internal/handler/router.go`, `api/internal/middleware` | what a request's context carries | routes, `RateLimit`, `AdminAuth`, `CORS`, `Logger` | limiters, handlers | order of the gates; fail-open and fail-closed |
| Server lifecycle, `api/cmd/server/main.go`, `config` | what is open, what is deferred, two channels | `Load`, `run`, `serve`, signals, deferred closers | all of the above | start-up that fails half-way; shutdown against requests in flight |
| Telemetry, `api/internal/telemetry` | three providers | `Init`, shutdown | lifecycle | one of three failing |
| Random generators, `api/internal/service`, `server.go`, `respond.go` | none | one per endpoint | handlers | boundaries of parameters, defaults, the echoed meta |
| Backups, `deploy/scripts` | archives by directory and day, a stopped service, a metrics file | dump, check, promote, rotate, metrics, pull | Docker, systemd, Prometheus | runs cut short anywhere |
| Redeploy webhook, `deploy/webhook` | none | pull and restart | Docker | - |
| Web pages, `web/src` | page state | verify page, tool runner | API | answers after the next click |
| Generated code, infrastructure | - | - | - | no logic of their own |

What makes each part correct:

- **Keys**: a link is honoured once; an address gets at most one key, and only by a
  link mailed to it; a key that was handed out stays valid until it is revoked; a
  revocation stands until the administrator lifts it; who follows a good link ends up
  with a key.
- **Limiters**: no interval sees more admitted calls than the limit; a refusal is owed
  to calls that were admitted; the promised reset time is kept; memory is bounded.
- **Pipeline**: an owner - a client by its row, an address apart from the clients behind
  it - has the budget it was given and pays for nobody else; an outage opens or closes the
  routes it should; a key that was revoked serves nothing.
- **Lifecycle**: what was opened is closed, in the reverse order, and after the last
  user; each provider is shut down whatever the others do; a clean exit has answered all;
  a signal ends the process.
- **Generators**: what is accepted and what is blamed is what the contract says; draws
  reach both ends of their range; the echo repeats the answer's parameters.
- **Backups**: a file with a final name is complete; a stopped service is started
  again; a failed run is reported, and never as the last good one.

## The modules

| Module | Models |
|---|---|
| `ClientStore` | the two tables, every statement of `postgres.go` as one operator, the runbook's SQL |
| `AuthFlow` | the handlers and the key check as concurrent processes over `ClientStore`; the properties |
| `KeyRegistry` | the abstract specification: what the key service promises |
| `MCAuthFlow` | symmetry for TLC |
| `AuthFlowProofs` | the inductive invariant of `AuthFlow` and the safety theorems |
| `AuthFlowRefinement` | the action properties and the refinement of `KeyRegistry`, proved |
| `SlidingWindow` | the abstract specification of a limiter: one that forgets nothing |
| `MemoryLimiter` | the in-memory limiter; its properties |
| `MCMemoryLimiter` | limits and symmetry for TLC |
| `RedisLimiter` | the limiter replicas share through Redis; its properties |
| `MCRedisLimiter` | clocks, limits and symmetry for TLC |
| `MemoryLimiterProofs` | the inductive invariant of `MemoryLimiter`, its safety theorems and the refinement of `SlidingWindow` |
| `RedisProofs` | the inductive invariant of `RedisLimiter` and all its properties, proved |
| `RequestPipeline` | the routes and their gates, over two abstract limiters (`SlidingWindow`), while the table is edited and services fail; its properties |
| `MCRequestPipeline` | what the three requests of the instance ask for |
| `PipelineProofs` | the inductive invariant of `RequestPipeline` and its safety theorems |
| `Generators` | the random endpoints: bind, default, validate, draw, shape |
| `MCGenerators` | the values tried for each parameter |
| `GeneratorsProofs` | the properties of `Generators` for all values, one lemma per endpoint |
| `Lifecycle` | one life of the process: configuration, start, server, signals, shutdown |
| `MCLifecycle` | the environments and the requests of the instance |
| `LifecycleProofs` | the inductive invariant of `Lifecycle` and its safety theorems |
| `Backup` | the nightly script command by command, with its metrics and its calendar |
| `MCBackup` | the volumes of the instance |
| `BackupProofs` | the inductive invariant of `Backup` and its theorems |

`AuthFlow` composes `ClientStore` with the handlers; `RequestPipeline` composes the gates
with `SlidingWindow`, which `MemoryLimiter` is shown to implement; what a request meets
behind the gates is `AuthFlow` for the auth routes and `Generators` for the others, and
`Lifecycle` is about all of them while what they use is being closed.

### ClientStore and AuthFlow

`clients` is the table by address (`email` is UNIQUE) and `tokens` the table by
token hash. A row keeps what statements test: `verified_at` and `revoked_at` become
Booleans, `used_at` and `expires_at` the status of the token. `RowsAffected() == 0`, which
the Go code turns into an error, is the guard of the operator being false; the
handler's error branch is the disjunct with the negated guard.

A request of `AuthFlow` is a process. `pc[r]` names the call it makes next, and a step is
that call with everything the handler does up to the following one, so the steps of
two requests interleave exactly where the processes can: at calls to the database. `req[r]`
holds the decoded request and, once `ConsumeToken` returned a row, the address on it;
`code[r]` is the status sent. A request draws at most one secret, so the secret
is named by the request, and `HashKey` is injective. Bodies that do not decode,
addresses that do not validate and tokens nobody was mailed are one action, `Refuse`.

Every call can fail in three ways, all drawn from one budget, `MaxFaults`: the statement
did not run; it ran and its answer was lost; the process crashed (`Crash`), which takes
every request in flight with it and leaves the tables. The 200 response that carries
the key can be lost as well (`VerifyReply`). The loss of an e-mail is not a fault: it is
always possible (`MailLink`).

The environment lets tokens expire, revokes, reinstates and purges at any time. Reading
the SQL of the runbook, `Revoke` and `Reinstate` change `revoked_at` alone.

### KeyRegistry

Accounts that are none, pending or active, the key of an active account, the addresses
that are barred, the address each link was minted for and the links presented. An
account becomes active once, with a fresh key, after a link minted for it was
presented. `AuthFlow` implements it under the mapping `Account`, `Key`, `Barred`, `Minted`,
`Shown`: columns of the tables, and for `Shown` the requests whose
`ConsumeToken` returned a row. Lost answers are where the mapping earns its keep: a
link consumed by a statement whose answer was lost is spent but never presented.

### SlidingWindow and MemoryLimiter

`SlidingWindow` has one variable, the answers given so far. A call is admitted if fewer
calls than its limit were admitted in the window that ends with its timestamp, where
admissions that a window of another timestamp already seen has left behind no longer count. It
knows no entries, no eviction and no cleanup; `MemoryLimiter` implements it under `Answers`.

`AllowN` is two steps, as it is in the code: `ReadClock` takes the timestamp, `Decide` is
the critical section. Between the two other calls and the cleanup goroutine may run, so
a call may decide on an entry that later timestamps have already trimmed. `Cleanup` is the
ticker and the body of `cleanup`; after `Close` the goroutine may still serve one tick,
because `select` chooses among ready cases at random. A caller passes the limit, as
`RateLimit` does with the client's column, so the limit of a key may change between calls.
The slice of timestamps of an entry is the set of the calls that appended them: `valid` is
appended to and filtered, so its order is that of `turn`, and `First` is its first element.
`MaxHold`, the longest wait for the mutex, is a premise about the scheduler and
not code: without one nothing can be said about intervals of real time.

### RedisLimiter

`now` is the clock of Redis, by which keys expire; replica `r` stamps its calls with
`now + Skew[r]`. `Send` is `AllowN` up to `script.Run`, `Script` one run of the Lua script
(Redis runs scripts one at a time, so it is one step), `Answer` what `AllowN` does with
the reply. `zset` is the sorted set, whose members carry the call that drew them, and
`expires` what PEXPIRE set: an expired key reads as empty (`Stored`). ZADD of a member that
is already there adds nothing, while the script's `count` is incremented all the same.

When a connection breaks (`Breaks`), the client library sends the script again (`Resend`)
with the same member, or `AllowN` returns an error (`Fail`), as it does when its context of two
seconds ends. A script that had left may still arrive: it is in `strays` and runs at any
later time (`StrayRuns`), unheard. `charged` and `charges` are history, for
the properties. `MaxDelay` bounds the time from reading the clock to the last run of
the script. For the call itself the context of `redis.go:115` sees to it; that no stray
runs later is a premise about the network.

This limiter does not implement `SlidingWindow`. PEXPIRE counts from the clock of Redis and
timestamps from that of a replica, and only an admission renews it, so a key may
vanish under a timestamp that a slow call would still have to count. What it
promises is weaker. `WindowBound`: no more charged calls than the limit in a window
less `Slack`, the delay plus the largest difference between two clocks. With one tick
less of slack the property is violated, so the bound is tight. `RefusalIsEarned`: a refusal
is owed to that many charged calls still inside the window. A call whose first run was
admitted and never heard may be refused by its own timestamp; that is the price of
resending, and it takes one slot and not two. `ResetAtIsHonoured`: a client that waits
until ResetAt, by the clock of the replica it meets, gets in.

A restart of Redis, which may lose the last minute of writes (`--save 60 1`), is left out:
no bound on the rate but twice the limit would survive it.

### RequestPipeline

A request is a process and `pc[r]` the gate it stands in front of: `auth` is
`middleware.Auth`, `limit` is `middleware.RateLimit`, `token` is `AdminAuth`, `handler` the end of
the chain. `FirstGate` and `NextGate` are the groups of `router.go:42-84`: the main routes pass
`Auth` and the limiter of the backend, the auth routes a limiter in memory of their own, the
admin routes that limiter and then the token, probes and metrics nothing; CORS answers every
OPTIONS request itself. `/api/v1` is a router of its own, so an unknown path below it passes
the gates as well (`"unknown"`). `client[r]` is the `ClientInfo` in the context, read from the
row once, at the `auth` gate; what happens to the row afterwards (`SetRPM`, `Revoke`, `Verify`)
does not reach the request any more.

A key is named by the row it belongs to; `stale` stands for every other header (a scheme that
is not Bearer, a key of nobody). `Addresses` is what `extractIP` returns.
Both limiters are the abstract one: `Decide` is an answer of
`SlidingWindow` for `Budget(r)` under `Limit(r)`, `LimiterFails` the error path with its two
flags, `Outage` and `Recovery` take Redis or PostgreSQL away and give them back. A
limit that is not positive never reaches Redis, so it refuses in an outage too.
`Limiter`, `FailClosed`, `Budget` and `RetryAfter` are one line each in the code, and each
of them wrong breaks a property. `Owner`, by which the properties count, is
defined by what the client sent, and `Budget` by what the middleware made of it.

### Generators

`Bind` is the generated wrapper (the first parameter, in its order, that does not parse or
is given twice), followed per endpoint by the defaults of `server.go`, the
validation of the service and `respond.go`. A draw is represented by its least
and greatest value, computed as the code computes them (`hi-lo+1` draws from `lo`), so "both
ends are reached" is a statement about the code's arithmetic. A text is a value with a length
in bytes, for the code tests `len`.
One action per endpoint; `request` is the query, `response` what was answered.

### Lifecycle

`at` is where `main` is, `deferred` the stack of deferred functions, `open` what is open,
`result` what `run()` returned. Each part of `run()` that can fail is two actions, and
`Return` is `return err` with the defers it leaves to run. `server` is the goroutine of
`ListenAndServe`, `serverErr` and `quit` the channels (each with room for one), and a request uses
the limiter, the database and the mail server in the order `Uses` gives. Before
`signal.Notify` a signal kills the process; after it, it waits in the channel, or is lost if
one waits already. `pool.Close` is two steps, because it refuses new connections at once
and then waits for those handed out. The thirty seconds of `Shutdown` and the ten of
the telemetry are the choice between `ShutdownDone` and `ShutdownExpires`, and the outcome `hung`, after which
the providers that follow are `cut`. `Kill` is SIGKILL at any point.

### Backup

A step is a command of `backup-volumes.sh`; `backup-postgres.sh` is the case of one archive and no
service. `set -e` is `Break`, the EXIT trap `Cleanup`, `asked` the variable
`STOPPED_SERVICE`. Redirections create a file before the command writes to it and `cp` truncates its target, so
`Dump` and `Copy` first leave a file that is not whole. A file is its volume, its
date and whether it is whole; a date is both the name and the age. Sunday and the first Sunday of
a month are arithmetic on `day`. Faults are a command that fails or writes half its output without
saying so (`Break`, `Dumped`), `compose stop` that fails after it stopped (`StopFails`), `compose start` that fails
(ignored by the script), SIGKILL, a reboot and metrics that cannot be written.

## What is checked

Every run of `AuthFlow` switches deadlock checking off because the requests of an
instance are finite: a state in which all are served has no successor. The same
holds for the calls of `MemoryLimiter` and `RedisLimiter`, for their clocks, for the requests
of `RequestPipeline`, for the process of `Lifecycle`, which ends, and for the answer of
`Generators`. `backup` checks for deadlock: there is always another run of the day.

| Run | Instance | Shows |
|---|---|---|
| `auth_safety` | 4 requests, 2 addresses, 1 fault; 789,449 states | `TypeOK`, `TokenSpentOnce`, `HandedKeyStillStored`, `MailedLinkIsStored`, `VainLinkMeansKeyExists`; `NoHandlerReinstates`, `RevocationHasCause`, `IssuedKeyHonoured`; `ImplementsRegistry` |
| `auth_liveness` | 4 requests, 1 address, no fault, weak fairness | `LinkLeadsToKey` |
| `auth_reissue` | as before, no fairness | violates `ReissueIssuesNewKey` |
| `auth_register_race` | as before | violates `RegisterAlwaysAccepted` |
| `limiter_safety` | 3 calls, 2 keys, limits 1 and 2 on one of them and 0 on the other; window 3, entry TTL 4, cleanup interval 2, wait 1, clock to 9; 899,734 states | `TypeOK`, `WindowBound`, `ResetAtIsHonoured`, `IdleEntriesAreDropped`; `ImplementsSlidingWindow` |
| `redis_safety` | 3 calls, 2 replicas a tick apart, 1 key, limits 0 to 2; window 4, delay 1, 1 broken connection, clock to 7; 4,497,582 states | `TypeOK`; `WindowBound`, `RefusalIsEarned`, `ResetAtIsHonoured` |
| `limiter_continuous` | 4 calls, fixed limits | violates `BoundedContinuously` |
| `pipeline_safety` | 3 requests, 1 client behind 2 addresses, window of 5 ticks, 2 ticks to the second, limits 1 and 2, 1 edit or outage, clock to 6; 6,777,204 states | `TypeOK`, `OwnerBudget`, `RefusalIsDeserved`, `AuthWorkIsBounded`, `RevokedKeyStops`, `OutageOpensMainOnly`; `RetryAfterPlusOne` |
| `generators` | every endpoint, every parameter left out, repeated and on both sides of each limit; 41,530 states | `AnswersMatchContract`, `ShapeFollowsCount`, `NumbersReachBothEnds`, `EchoIsReproducible`, `HueMatchesOrder` |
| `generators_defaults` | as before | violates `OmittedMeansDefault` |
| `lifecycle` | 5 environments, 2 requests (one looks up a key, one registers and mails), 2 signals, fairness; 115,281 states | `TypeOK`, `ClosedAfterUse`, `NothingLeftOpen`, `ProvidersAreFlushed`, `CleanExitAnswersAll`; `SignalEnds` |
| `backup` | 2 volumes, one with a service; 2 faults; 6 days, weeks of 2 and months of 4 days, archives kept 1, 3 and 5 days; 2,522,878 states | `ArchivesAreWhole`, `DownForTheCopyOnly`, `MetricsTellTheTruth` |

Why the bounds are enough. Four requests are what the longest story of one address needs
(register, verify, reissue, verify) and what two links verified at once need (register,
register, verify, verify); the second address lets links and keys cross
accounts. One fault reaches every error branch; the proofs below cover more. Three
calls are enough to overfill a window whose limit changes from 2 to 1 and back; two calls fill a
window of limit 2, a third is refused and a fourth retries; with a limit of 1, three calls
tell that story too, so `ResetAtIsHonoured` is in the same run. The clock runs past
a window, an idle entry's TTL, a cleanup interval and the wait together (4 + 2 + 1 < 9).
The scale of the limiter's constants is not the code's (60 s, 10 min, 5 min): what the
properties need is the order among them, which `LimiterAssumption` states
and the code's constants satisfy. For Redis, a window of 4 is the smallest in
which the slack (delay 1 and skew 1) leaves an interval of more than one tick, and the
clock runs a window and the slack past the first call. Three calls and one
broken connection are what a resent script, its stray twin and a competitor need.

Three requests fill a budget, are refused and retry; one client that calls
from two addresses, and once without its key, is what tells a budget by row from one by address;
one edit or outage falls between any two of the gates. A window of five ticks at two ticks to the second makes
the fraction that Retry-After drops visible. The parameters of `generators` are tried at each bound, one below and
one above it, so that every comparison of the code is true and false somewhere. The five
environments of `lifecycle` are production, development, values that do not parse, and
two that must be refused; between them every constructor is reached and fails. Two faults in a
backup are a failure and a second one while the first is being repaired, and six days see
two weeks' ends, a month's first Sunday and archives of each directory
old enough to go. The invariants of the proofs below need none of these bounds.

Fairness. `FairSpec` assumes that a request that is not sending mail eventually takes its next
step. Go runs each handler in a goroutine of its own, and a statement that PostgreSQL
does not answer fails with its connection. It assumes nothing of the mail steps, since `smtp.SendMail`
(`email.go:100`) has no deadline, and nothing of clients, expiry or
administrators. `FairSpec` of `Lifecycle` assumes that `main` goes on while it can (`Start`, `Stop`) and
that a request takes its next step unless that is sending mail. Of a choice that is always
open, such as the one between `ShutdownDone` and `ShutdownExpires`, it assumes only that one of them is made:
the thirty seconds pass. Nobody has to send a signal. `SignalEnds` needs the expiry: with a hung mail and no
deadline it fails.

### Where the code disagrees with what is said of it

1. **A reissue never issues a key** (`auth_reissue`). `MarkClientVerified` updates rows
   `WHERE verified_at IS NULL` (`postgres.go:63`), which a client that asks for a
   reissue never is. `AuthVerify` consumes the link, revokes the client, then fails with 500;
   the client is left revoked, and registering again mints links that fail the same
   way. `docs/reference/architecture.md:168` and `:178` promise a new key. The store of
   the handler tests (`auth_test.go:79-90`) has no such clause.
2. **Registration does not always answer 202** (`auth_register_race`). Two first
   registrations of one address race for the INSERT; the loser answers 500.
   `docs/reference/architecture.md:172`: "always returns 202".
3. **The window is not continuous** (`limiter_continuous`). A call that read the clock
   earlier may decide after a call that read it later has evicted what the first would
   have counted: three timestamps in a window of limit 2.
   `docs/explanation/design-decisions.md:105`: "Sliding windows bound the rate continuously".
   `WindowBound` says how far off it can be.

4. **An RSA key whose size is left out has 2048 bits** (`generators_defaults`):
   `server.go:191`. `docs/reference/openapi.yaml:486` gives the parameter a default of 4096.

Met while modelling, and stated by no run:

- Retry-After is rounded down (`ratelimit.go:98-103`), so a client that waits exactly that long may be
  refused once more; `docs/reference/errors/rate-limited.md:25-26` says to wait that long.
  `RetryAfterPlusOne` is what does hold.
- The runbook (`runbook.md:1595`) has `/auth/*` answer 503 while Redis is out. These routes have a limiter in
  memory of their own (`router.go:43`), so they go on, and `fail closed` is never used.
- Rotation compares whole days of age with `-mtime +N`, so eight or nine daily and five weekly archives are
  kept where seven and four are announced.
- `cp` into `weekly/` and `monthly/` is not atomic (`backup-volumes.sh:128,133`): a run cut short there leaves a truncated
  archive under a final name until a run of the same day succeeds. `ArchivesAreWhole` says exactly that.
- `compose start || true` that fails is a successful run with Grafana down; a `compose stop` that fails
  or is interrupted before `STOPPED_SERVICE` is set leaves it down as well.
- A SIGTERM before `signal.Notify` ends the process without flushing telemetry. The Redis client of a failed
  ping is never closed (`redis.go:86-88`), while the pool of a failed migration is. The error of the
  telemetry shutdown is logged through the provider that was just shut down. Docker's ten seconds of grace are shorter than the
  thirty of `Shutdown`. `goose.Up` takes no lock when replicas start together (`store.go:108`).
- Limits on the length of texts count bytes where the messages say characters; a `sentences` of zero
  or less is read as left out; every error of a service is a 400; floats check no bounds.

Not stated as properties either, since no text of the repository claims otherwise: a lost 200
response, or a failure after `ConsumeToken`, leaves an address with a key nobody has or a spent link,
and for the former only an administrator's SQL helps; a revoked client that registers again gets
a link whose key, if it never had one, is refused; while the database fails the middleware answers 401 to good keys.

## What is proved

In every module the argument is the same: an invariant `IInv` that implies the checked
one, holds initially and is kept by each action (one lemma per action or group of actions);
TLC checked each `IInv` on the instance of its run before it was proved.

The theorems about keys rest on `StoreAssumption` (NULL is none of the values) and `AuthAssumption` (secrets
are named by requests; the number of faults is natural), and hold for any sets of requests and
addresses, finite or not, and any number of faults.

`AuthFlowProofs` proves `Spec => []IInv`. `IInv` is the type invariant with the conjuncts
of `Inv`. The checked invariants are not inductive alone:

- `TokenSpentOnce` needs to know that a consumed token is used or purged
  (`ConsumedTokens`), so that `ConsumeToken` cannot match it again;
- `HandedKeyStillStored` needs that between `MarkClientVerified` and the response the
  digest in the row is the one of the request about to answer (`KeysInFlight`), and
  that a digest is stored only by the request that drew its key (`StoredKeys`);
- `MailedLinkIsStored` needs that a request at its mail step has inserted its
  row, and that a request about to mint has not (`DrawnTokens`, `TokenRows`), for a client that exists;
- all need what a request looks like at each step (`RequestShape`);
- `VainLinkMeansKeyExists` looks back from a response to the statement that decided it. It is inductive with
  `Unanswered` (no status before the response) over `IInv`: without a fault the only 500 after `ConsumeToken` is
  the one for a client row that was verified already (`VainAnswer`), no statement takes `verified_at` back
  (`VerifiedForGood`), and faults are only ever added (`FaultsAccumulate`).

The theorems `TypeCorrect`, `TokensAreSpentOnce`, `HandedKeysStayStored`,
`MailedLinksAreStored`, `VainLinksMeanKeys` follow. `AuthFlowRefinement` proves from `IInv` what no step may do:
`RevocationsStand`, `RevocationsHaveACause`, `IssuedKeysAreHonoured`, and, one lemma per group of actions,
`AuthFlowImplementsRegistry`: initial states map to initial states and every step to a step of `KeyRegistry` or a stutter.

The limiter's theorems rest on `LimiterAssumption`: finitely many calls, a wait for the mutex
shorter than the window and the cleanup interval, and an entry TTL of at least a window and two waits. With
the code's constants (60 s, 5 min, 10 min) that is any wait below a minute. They hold for any keys,
limits (negative ones too) and clock.

`MemoryLimiterProofs` proves `Spec => []IInv`. `WindowBound` counts the admissions in an
interval, the code counts an entry, and entries forget. The invariant says they forget nothing that matters:

- `ForgottenAreStale`: an admission that is not in its entry is a window older than some decided
  timestamp of the key, or than any timestamp a waiting or later call can have; for cleanup this needs
  `LastSeenCovers`, that an entry's last use is not older, up to the wait, than its
  timestamps;
- `EntriesAreFresh`: what is in an entry is in the window of every decided call, which makes
  the counted set equal to the one `SlidingWindow` counts (`ValidIsRecent`), so that no lemma about
  cardinalities of different sets is needed there;
- `WaitingCalls` and `DoneCalls` bound the distance between a timestamp and its decision;
- `FirstExists` says that calls that returned have a first, for `ResetAt`;
- `TicksAreServed` bounds the age of an entry the goroutine has not looked at.

The theorems `TypeCorrect`, `WindowsAreBounded`, `IdleEntriesGo` and
`LimiterImplementsSlidingWindow` follow. `ResetAtIsHonoured` has an invariant of its own on top, `ResetInv`: an entry
holds no more timestamps than some limit allowed (`EntriesFit`), and as long as nobody takes the slot of a refused
call, the timestamps that still count at its ResetAt are fewer than a limit (`RefusalsTell`), so a retry under the same limit is
admitted (`RetryIsAdmitted`). TLC checked it on the instance of `limiter_safety`. `ResetAtIsKept` is the theorem.

`RedisProofs` rests on `RedisAssumption`: clocks off by some amount, of which there is a largest,
finitely many calls, limits that are integers. It proves all four properties of the run, for any
skew, delay, window and number of broken connections.

- `CallsAreTimely`: scripts run, and calls are charged, within `MaxDelay` of the clock they read;
- `SetsHoldCharged`: what is in a set was put there by a charged call of its key, under its own
  timestamp, so that counting members is counting calls (`EntriesAreCalls`) and a script that runs twice
  counts once;
- `ExpiryCovers` and `ForgottenAreOld`: a key outlives a window after any charge, and what a set
  has lost, by eviction under a fast clock or by expiry, was charged a window less `Slack` ago. Together
  they put every recent charge into the set the script counts, which is `WindowBound`;
- `SetsFit` and `RefusalsLast`: a set is no larger than some limit of its key, and as long as
  nobody is charged after a refusal, what is later than the oldest timestamp it saw leaves room, which
  is `ResetAtIsHonoured`.

`PipelineProofs` rests on `PipelineAssumption` (finitely many requests; clients are neither addresses nor
the two other credentials; a window and AuthRPM of at least one). `OwnersAreKeys` says that the owner of a decided request,
read off what was sent, and the key it was counted under determine each other, even
while rows change; `WindowsFit` that any set of admitted requests of one key within a window has one
among them whose limit covers it, which survives limits that change between two requests.
`OwnerBudget`, `RefusalIsDeserved` and `AuthWorkIsBounded` follow from the two, `RevokedKeyStops` and
`OutageOpensMainOnly` from what a request carries at each gate.
`RetryAfterSuffices` needs one invariant more: every 429 that counted somebody names, with one second more than it
says, a moment when one of the admitted requests it counted is out of the window (`RefusalsTell`). Rounding down loses less than a second
(`WholeSeconds`), so whoever waits that long finds fewer than the limit (`PatientRetry`).

`GeneratorsProofs` rests on `GeneratorsAssumption` (numbers are integers, flags Booleans, a channel a byte), and on
no bound: where TLC tries the values around each limit, and six of the 256 values of a channel, the theorems hold for all. An
answer depends on its request alone, so the invariant (`AnswerGiven`) only says that
it is one of `Answers`, and the content is in what holds of an answer (`Kept`), one lemma
per endpoint over what all share:

- the first failing check is one that fails (`FirstFailingIs`), binding refuses a
  repeated parameter and nothing else (`BindIs`), and the echo can always be bound (`EchoBinds`);
- an endpoint whose checks fail exactly for the faults of the contract keeps it (`HandlerKeeps`): `Blames` says for each
  endpoint that code and OpenAPI document agree, limit by limit;
- `HSLInSixth` is the arithmetic of the hue: the six orders of the channels bound it (`HueBounds`), and
  truncation of floats moves a bound by at most one (`TruncatedBounds`).

All five properties of its passing run follow: `ContractIsKept`, `CountIsKept`, `BothEndsAreReached`, `EchoIsKept`, `HueIsInOrder`.

`LifecycleProofs` (from `LifecycleAssumption`, which only types the constants) says for each value of `at` what is deferred, what is open and
how far the providers are. It proves the five invariants for any requests, environments and signals.

`BackupProofs` (from `BackupAssumption`: a sequence of at least one volume; weeks, months and retention of at least a
day) says what the run still has to do at each command for the day to be good (`ToCopy`,
`Moved`): the copies that were cut short by an earlier run of the day are those still to be
copied, and the archive of a reported day outlives a rotation that follows a newer one. It proves the three invariants for any
volumes, calendar, retention and number of faults.

Only model-checked: `LinkLeadsToKey` and `SignalEnds`, since liveness under fairness is out of TLAPS's
reach here, and the four violations, which are counterexamples. Every other property of a passing run is a theorem.

## Plan

Done: every module of the table, checked; every safety property of a passing run, proved. What remains:

1. Replicas that start together: two `Lifecycle`s over one schema, for the migrations.
2. The safety half of the two liveness properties: that a consumed link is never left waiting for a request that cannot move, and
   that a signal is never forgotten.

## Not modelled, and why

- Formatting of e-mails, JSON and logs; SHA-256 and `crypto/rand` (an injective function, values that
  never repeat); SMTP and PostgreSQL themselves (what the code can observe of them is modelled).
- The redeploy webhook: four commands in a row that stop at the first error, with no state between two deliveries. Web pages: they
  call the API once per click, and keep nothing. `pull-backups.sh`: one rsync that deletes
  nothing. The sizes in the backup metrics.
- Generated code but for the binding of parameters; Caddy, Compose, OpenTofu and the
  observability stack, which are configuration of other programs.
- What a failed `telemetry.Init` had opened: the process ends with it.

Two hazards of recovery have no property, because the code has no answer to them and no text promises one. A process that dies, or a connection that breaks,
between `MarkClientVerified` and the response (`auth.go:158`) leaves an address with a key nobody
has: the step is in `AuthFlow` and nothing in the code repairs it. A restart
of Redis (`docker-compose.yaml:115`) gives clients their budget a second time.
