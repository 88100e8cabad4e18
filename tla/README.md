# Verification of runnix

TLA+ models of runnix, TLC runs that check them on small instances, and TLAPS
proofs of all their safety properties for every size.

## The system

A client submits code to the **gateway** (`POST /executions`). The gateway
inserts a `queued` row in Postgres and publishes a reference to it on a NATS
JetStream stream. A **dispatcher** has `EXEC_WORKERS` workers that pull the
stream. A worker claims the row (`queued -> running`), runs the code in a Docker
container, writes the result, publishes it, calls the webhook and acks. Each
dispatcher has a **reaper** that fails rows stuck in `running` or `queued`.
Around this path the gateway has per-tenant **quotas**, **sessions** (rotating
refresh tokens), **accounts** with their tenants, and **access** by token or API
key through a tenant middleware. Gateways and dispatchers apply the **migrations**
they embed when they start.

The parts talk through Postgres rows, stream messages and containers only. What
makes them hard to get right is that every one of those calls can fail, take
effect and lose its reply, be repeated, or be interrupted by a crash, a SIGTERM
or a client that hangs up.

### Inventory

| Part | Source | Module | State |
|---|---|---|---|
| Execution rows (guarded SQL) | `internal/store/storedb/executions.sql.go` | `ExecutionRows`, `ExecutionLifecycle` | modelled |
| Submit handler | `internal/http/handlers/executions.go` | `Dispatch`, `Quota`, `Access` | modelled |
| Submit stream, consumer and client | `internal/nats/client.go`, `publish.go` | `Dispatch`, `Deadlines`, `Startup` | modelled |
| Workers | `internal/dispatcher/dispatcher.go` | `Dispatch`, `Deadlines` | modelled |
| Sandbox runner | `internal/dispatcher/sandbox.go` | `Dispatch` | modelled |
| Reaper | `internal/dispatcher/reaper.go` | `Dispatch`, `Deadlines` | modelled |
| Webhook delivery | `internal/webhooks/deliver.go` | `Dispatch`, `Deadlines` | modelled |
| Dispatcher process | `cmd/dispatcher/main.go` | `Dispatch`, `Startup` | modelled |
| Gateway process, router, readiness | `cmd/gateway/main.go`, `internal/http/router.go`, `handlers/health.go` | `Startup` | modelled |
| Migrations | `internal/store/migrate.go` | `Startup` | modelled |
| Quotas | `internal/quotas/quota.go` | `Quota` | modelled |
| Sessions | `handlers/auth.go`, `internal/auth/auth.go` | `Sessions`, `Access` | modelled |
| Accounts, tenants | `handlers/auth.go` (Register), `handlers/tenants.go` | `Accounts` | modelled |
| API keys, tenant middleware | `handlers/apikeys.go`, `middleware/tenant.go` | `Access` | modelled |
| Webhook URL check, users handler, configuration, store plumbing | | | not modelled: no state of their own |

## Modules

**`ExecutionRows`** holds the statements on `executions.status` as functions from
table to table, one per query, with the status each `UPDATE` expects in its
`WHERE` clause. A statement that matches no row returns the table unchanged.

**`ExecutionLifecycle`** is the abstract promise: an execution is submitted once,
its code runs at most once, a row returns to the queue only while its code has
not run, `succeeded` is only said of code that ran, and a terminal status is
final. It knows no queue, worker, container or clock.

**`Dispatch`** is the path of an execution through gateway, stream, workers,
sandbox and reapers. There is one action per call that another process can
observe, in the order of the code:

| Code | Actions |
|---|---|
| `ExecutionsHandler.Create` | `Insert`, `PublishSubmit`, `FailSubmit`; `ClientGone` and `GatewayCrash` in between |
| stream, consumer | `Store`, `Fetch`, `AckWaitExpires`, `Redeliver`, `PublishPoison` |
| `worker` | `NextMsg`, `Ack`, `Nak`, `WorkerExits`, `WorkerReturns` |
| `handle` | `Claim`, `Requeue`, `Finish`, `PublishResult`, `DeliverWebhook` |
| `dockerRunner.Run`, `wait`, `readLogs` | `Create`, `Start`, `Send`, `Wait`, `Logs`, `Remove`; `ProgramExits` is the program |
| `reapOnce`, `reapStaleQueued` | `ReapRunning`, `ReapList`, `ReapMark` |
| `main`, `Sweep`, SIGTERM | `Boot`, `Stop`, `Crash` |

A call fails in two ways. `CallErr` has no effect; `CallLost` has its effect and
returns an error. After SIGTERM the run context is cancelled, so every call made
with it fails, which costs nothing; calls on a background context (the removal of
the container, the kill) still work. `runs` counts how often the source reached a
container, `exit` remembers how the program really ended: no code reads them,
the properties do.

Time is abstract. `aged` and `old` are the rows that have passed `StaleAfter`
and `StaleQueuedAfter`. With `LateWork = TRUE` a row may pass them at any time,
also under a worker that is still busy: every race of a reaper with live work
is a behaviour. With `LateWork = FALSE` the thresholds do what
`reaper.go` asks of them and only abandoned rows pass them; which settings make
that true is the subject of `Deadlines`.

Dispatchers share one Docker daemon, so the boot sweep of one can remove the
containers of another. JetStream is modelled from its configuration: limits
retention with a message bound that drops the oldest message, explicit acks,
at most `MaxDeliver` deliveries, prefetch into the iterator of a busy worker. The
iterator (`inbox`) is a bag: a delivery that times out in the buffer is followed by
another one of the same message, to the same worker or to a different one, and the
worker handles both. `WorkerReturns` is a worker whose iterator cannot be made or is
closed because the NATS client gave up: the process and its reaper go on without it,
and its messages are never taken. `config.Load` refuses a `StaleQueuedAfter` of zero or
less, so the branch of `reapStaleQueued` that skips a disabled sweep is never taken by the
program and is left out.

**`DispatchClaims`** and **`AccessClaims`** state what comments and documents say and the
code does not do.

**`Quota`** is `CheckAndCreate` (transaction, advisory lock with timeout, counts,
decision, insert, commit) and the fail-open branch of the handler. `now` counts
ticks; a row's `created_at` is the start of its transaction, while the window of
the count ends when the lock has been granted. A session may hang with the
lock. Rows record whether they were admitted under the lock or by failing open.
The `Retry-After` hint is left out.

**`Sessions`** is the table `refresh_tokens` under READ COMMITTED: `Refresh` as a
transaction that locks the presented row (`Refresh`) and later commits or rolls
back (`RefreshCommit`, also when the user is gone: 401), `Logout`, `LogoutAll` (which selects its rows at the start
and then waits for their locks), `Login`/`writeSession` and expiry. `parent`,
`login`, `ended` and `before` are history for the properties.

**`Deadlines`** is one execution on a clock: deliveries with `AckWait`, NAK delay and
`MaxDeliver` (`Deliver`, `AckWaitExpires`, `Nak`, `Ack`), the stages of `handle` with
their longest durations (`Claim`, `RunReturns`, `Requeue`, `Finish`), the POSTs of the
webhook (`StartDeliver`, `PostReturns`, `PostAgain`), a worker that dies (`Die`) and
the sweeps (`Sweep`), whose thresholds are cut to whole seconds as `reapOnce` cuts
them. A stage may end at any time up to its limit; `Tick` waits for whatever is due. `Finish`
writes the row or not, and goes on to the webhook or NAKs, in all four combinations:
the attempts may be used up by lost replies with the row written.
A sweep is atomic here: the race of its SELECT with its UPDATE is in `Dispatch`.

**`Startup`** is the start of several processes at once. A process connects, finds or
creates `schema_migrations` (two steps: `IF NOT EXISTS` is not atomic with the
creation), and for each version it embeds claims it, runs the script and commits
(`Claim`, `RunScript`, `Commit`, `CommitLost`); a claim waits for the open transaction
that inserted the same version. Then it connects to NATS, makes the streams
(`EnsureStreams`) and serves. A dispatcher exits when any of this fails. A gateway goes on
and keeps the handlers that `NewRouter` chose (`Answer` gives the answer of each kind of
route, among them a `Logout` that answers 200 whatever the store says): without Postgres
they are stubs for good, and without a client, or with a stream that does not exist,
submits are answered 502. A client whose reconnect attempts run out during an outage is
closed for good (`ClientGivesUp`); no process notices. Processes embed different prefixes
of the migrations, as in a rolling upgrade. `ready` is history: the gateways that have
answered `/readyz` with 200 since they started.

**`Accounts`** is the transaction of `Register` and of tenant `Create`: `InsertEmail`,
`InsertName`, `TryCreateTenant` (the savepoint retries of a taken slug),
`AddMembership`, `Commit`, `WriteSession`. An insert waits for the open transaction
that holds the same key of a unique index. `Fail` is any failing call, a
disconnect or a crash.

**`Access`** has one step per query of the middleware and of the handlers behind it:
reading memberships and signing a token, parsing it, looking up a key, checking
the membership of its owner, and then `Submit`, `Get`, `List`, `ListKeys`, `Mint`,
`Delete` with `RevokeAPIKey`. Memberships come and go between the steps and time
passes. `was` and `dead` are history for the properties.

**`DispatchProofs`**, **`DispatchSafety`**, **`DeadlinesProofs`**, **`QuotaProofs`**,
**`StartupProofs`**, **`SessionsProofs`**, **`AccountsProofs`** and **`AccessProofs`** hold the
proofs. **`MCDispatch`**, **`MCQuota`**, **`MCSessions`**, **`MCStartup`**, **`MCAccounts`** and
**`MCAccess`** give the constants their values; `Deadlines` needs no such module.

## Runs

| Run | Checks | Instance |
|---|---|---|
| `dispatch_safety` | `TypeOK`, `ClaimExclusive`, `CodeRunsAtMostOnce`, `QueuedNeverRan`, `SuccessIsGenuine`, `OneVerdict`, `ResultOrReaped`, `TerminalIsFinal`, `LifecycleSpec` | 1 execution, 2 dispatchers, any 2 faults, `LateWork` |
| `dispatch_live` | `ResultMatchesRow`, `EventuallySettled`, `ShutdownCompletes` | 1 execution, 1 malformed message, 1 worker, a stream of 1 message, 1 fault, without `LateWork` |
| `execution_clocks` | `TypeOK`, `LiveWorkKept`, `RetryKept`, `PostsBounded`, `SettledInTime` | 3 deliveries, 2 webhook retries, half-second ticks, a clock of 33 |
| `quota_submits` | `TypeOK`, `ActiveCapped`, `HourlyCapped`, `RowsAccounted`, `EveryoneAnswered` | 3 submits of one tenant, 1 fault |
| `session_tokens` | `TypeOK`, `NoDoubleMint`, `SessionTokens`, `OutlivesByRotation` | 2 users, 4 requests, 1 fault |
| `startup` | `AppliedInOrder`, `ServesMigrated`, `ReadyIsWired`, `EventuallyUp` | a gateway and a migrator with 2 migrations, a dispatcher with 1, any 3 faults |
| `signup` | `AccountsWhole`, `KeysUnique`, `ErrorsHaveCauses`, `EveryoneAnswered` | 3 requests, 2 emails, 2 names with one slug, 1 suffix, 2 faults |
| `tenant_access` | `TypeOK`, `KeyAccessIsLive`, `StaleClaimsBounded`, `RowsAttributed`, `TenantScoped`, `DeleteSticks` | 3 requests, 1 user, 2 tenants, 1 key, 1 change of membership, 1 fault |

All of these pass. What they show:

- One worker at a time holds an execution, and its code reaches a container at
  most once, under redelivery, lost replies, requeue, crash, restart and sweep.
  The claim guard is enough because no row with a holder is ever `queued`.
- A terminal status is final and `succeeded` is genuine, although `FinishExecution`
  is repeated, runs late, and the zero `RunResult` looks like exit code 0.
- A published result contradicts the row only when the row was failed first, and
  never as long as live work stays within the thresholds.
- Every inserted row is settled in the end, whichever message was dropped, used
  up by prefetching, or lost with its worker, also when all workers have returned and
  the process lives on: the two sweeps leave no gap.
- Live work is never reaped if `REAP_STALE_AFTER`, in whole seconds, covers the
  longest run and its result write (`RunMargin`). A message that will still be
  delivered keeps its row if `STALE_QUEUED_AFTER`, in whole seconds, covers
  `MaxDeliver` times the wait in the stream, `AckWait` and the NAK delay
  (`QueuedMargin`). With the values of the code (600 s, five deliveries of 95 s)
  that leaves about 24 s of waiting per delivery: "must exceed AckWait (90s) x
  MaxDeliver (5) plus margin" (`config.go:32`) is met by the default and not enough
  when the workers have a longer backlog. Settings below
  a second are cut to zero.
- A row is settled, and gives back its slot of the active quota, by `SettleBy`,
  although every claim restarts its age. A receiver sees one round of POSTs, no
  matter how often the message is redelivered. (A 60 s run with the retries of its
  webhook outlasts `AckWait`, contrary to `dispatcher.go:23`; the claim
  guard makes the redelivery harmless.)
- What is admitted under the tenant lock keeps the active limit always, and the
  hourly limit in every window shorter than an hour by the lock timeout. A submit
  that could not be checked is admitted unchecked: the handler fails open on
  purpose, and a second row for one submit needs a lost commit (`RowsAccounted`).
- A refresh token is exchanged once. A session keeps exactly one valid token
  until a logout reaches it, whatever fails during a rotation. A session outlives a
  `LogoutAll` that answered 200 only if it was refreshed while `LogoutAll` ran.
- Replicas that start together apply each migration once and in order, none goes
  on before the schema it needs is committed, and gateways and dispatchers come up,
  also past the open transaction of a migrator that nobody runs again.
- A gateway that started without Postgres or NATS never reports ready, also after the
  dependency is back. One that has reported ready serves everything but submits
  whenever Postgres answers. Submits are promised less: `/readyz` flushes the
  connection and does not look at the stream, so a ready gateway whose `EnsureStreams`
  failed answers 502 until a dispatcher has made the stream. A dispatcher has no
  probe: one whose client gave up stays up with its reaper and without workers.
- Accounts are whole after every failure, and requests that wait for each other's
  unique keys are all answered: the inserts come in one order (email, username,
  slug), so that no two transactions wait for each other.
- A key serves no request sent after its revocation or after its owner was
  removed. A token serves a removed member for at most its lifetime and the time its
  signing took: its claims are accepted without a look at the store.

### Claims the code does not keep

Each of these runs ends with a counterexample.

| Run | Claim | What happens |
|---|---|---|
| `ghost_queued` | `NoGhostQueued` (`executions.go:211`) | the client hangs up during the publish; the compensating `UPDATE` uses the cancelled context and the row stays `queued` |
| `webhook_missing` | `WebhookOnEveryEnd` (`docs/webhooks.md:3`) | rows failed by a reaper get no webhook |
| `logout_all_midflight` | `LogoutAllEndsSessions` (`auth.go:298`, `auth.go:177`) | the successor inserted by an open `Refresh` is not revoked |
| `membership_rechecked` | `MembershipRechecked` (the repository's `README.md:146`) | a member removed after signing in is served by the claims of the access token; only API keys are re-checked |

Three more comments are not what the code does, with no run of their own:

- `dispatcher.go:232`, "Postgres already holds the full output": `FinishExecution` reports no
  row count, so a row that the reaper failed meanwhile keeps its empty output while the
  result is published. `ResultOrReaped` says exactly when that happens.
- `dispatcher.go:23` and `config.go:32`, on `AckWait`: see the margins above.
- `sandbox.go:93`, which treats a name conflict of `ContainerCreate` as "already running":
  `Run` (`sandbox.go:196`) removes the container that has the name and creates its own.
  `Create` models the code. Under the claim guard the container that is removed is an
  abandoned one (`CodeRunsAtMostOnce`).

### Bounds and why they suffice

Executions share nothing but the stream and the workers, and every property but
those about the full stream is about one execution, so one execution with two
workers has the races. `MaxDeliver = 2` and `FinishAttempts = 2` give one retry and
one exhaustion. Two faults allow a failure and a failure of its repair (a lost
claim and a crash, a failed start and a failed requeue).
`Deadlines` has three deliveries, so that one is first, one in between and one the
last; a second has two ticks and both thresholds are odd, so that cutting them
matters; the margins hold with equality or by one tick; the clock runs past
`SettleBy`. The clock of `Quota` covers a window and a lock timeout; three
submits exceed both limits. Four requests of `Sessions` are a login and three
concurrent uses of its token, or two users and a logout. Three processes have a
winner, a loser and a late starter for each claim; three faults are a crash of
each, or a lost commit, a crash and an outage, or a gateway whose streams fail and an
outage in which its client gives up. Three requests of `Accounts` have
one transaction that holds a key and two that wait for it; one suffix and one
retry let every attempt collide. `Access` has one session, one request that uses
its token or mints a key and one that uses or revokes the key; a lifetime of 1 and a
clock of 2 let a token expire before and after it is used. The proofs remove these
bounds for the safety properties they cover.

Workers and executions, tokens, users, keys, tenants and requests are symmetric;
the runs with liveness properties use no symmetry. Deadlock is checked in the runs
of `Dispatch`, `Deadlines`, `Startup` and `Accounts`; `Quota`, `Sessions` and `Access` stop
when every request has been answered and the clock has run out.

### Fairness

`Dispatch`: a handler and a worker go on (Go schedules every goroutine and every
call has an outcome), the ack timer fires, a ready message is fetched by some
worker, rows grow old, the reaper's ticker ticks and a stopped dispatcher is started again
(`restart: unless-stopped` in `deploy/compose.prod.yaml`). Nothing is assumed of clients
or of submitted programs: the timeout of `Wait` ends those. `Quota`: every call
returns and the clock advances; nothing is assumed of hung sessions or of the
completion of executions. `Startup`: a process that has started takes its next step,
Postgres and NATS come back, and a gateway or a dispatcher is started again after it
exits (the same setting; the local `deploy/compose.yaml` has none). A migrator is run by hand
(`just migrate-up`): nothing makes it start, and `EventuallyUp` does not speak of it. `Accounts`:
every request that does not wait for another one's key takes its next step.
`Deadlines` needs no fairness: what must happen by a time is a deadline of `Tick`,
and `SettledInTime` is an invariant.

## Proofs

TLAPS proves the theorems below for every value of the constants, from the named
assumption of each module alone: that ids and `None` are distinct, that the
constants have their types, and that limits which the code has as positive
constants are positive.

| Module | Theorem | Statement |
|---|---|---|
| `DispatchProofs` | `TypeCorrect` | `Spec => []TypeOK` |
| `DispatchSafety` | `Safety` | `Spec => [](TypeInv /\ SafetyInv)` |
| | `ClaimIsExclusive` | `Spec => []ClaimExclusive` |
| | `AtMostOnce` | `Spec => []CodeRunsAtMostOnce` |
| | `QueuedIsFresh` | `Spec => []QueuedNeverRan` |
| | `SuccessGenuine` | `Spec => []SuccessIsGenuine` |
| | `SingleVerdict` | `Spec => []OneVerdict` |
| | `ResultBehindRow` | `Spec => []ResultOrReaped` |
| | `ImplementsLifecycle` | `Spec => LifecycleSpec` |
| | `TerminalFinal` | `Spec => TerminalIsFinal` |
| | `ResultsMatch` | `Spec => [](~LateWork => ResultMatchesRow)` |
| `DeadlinesProofs` | `WorkKept` | `Spec => []LiveWorkKept` |
| | `RetriesKept` | `Spec => []RetryKept` |
| | `PostsKept` | `Spec => []PostsBounded` |
| | `RowsSettled` | `Spec => []SettledInTime` |
| | `DeadlinesTypes` | `Spec => []TypeOK` |
| `QuotaProofs` | `QuotaInv` | `Spec => []Inv` |
| | `QuotaTypes` | `Spec => []TypeOK` |
| | `ActiveLimit` | `Spec => []ActiveCapped` |
| | `HourlyLimit` | `Spec => []HourlyCapped` |
| | `RowsPaid` | `Spec => []RowsAccounted` |
| `StartupProofs` | `MigratedOnce` | `Spec => []AppliedInOrder` |
| | `Served` | `Spec => []ServesMigrated` |
| | `ReadyWired` | `Spec => []ReadyIsWired` |
| `SessionsProofs` | `MintedOnce` | `Spec => []NoDoubleMint` |
| | `OneTokenEach` | `Spec => []SessionTokens` |
| | `LogoutAllMisses` | `Spec => []OutlivesByRotation` |
| | `SessionsTypes` | `Spec => []TypeOK` |
| `AccountsProofs` | `Whole` | `Spec => []AccountsWhole` |
| | `Unique` | `Spec => []KeysUnique` |
| | `Causes` | `Spec => []ErrorsHaveCauses` |
| `AccessProofs` | `KeyAccess` | `Spec => []KeyAccessIsLive` |
| | `StaleClaims` | `Spec => []StaleClaimsBounded` |
| | `Attribution` | `Spec => []RowsAttributed` |
| | `Scoped` | `Spec => []TenantScoped` |
| | `Deleted` | `Spec => []DeleteSticks` |
| | `AccessTypes` | `Spec => []TypeOK` |

Each of the last six modules proves `Spec => []Inv` for its inductive
invariant `Inv`, which was checked with TLC on the instance of the run first. None of
the properties is inductive by itself.

**`Dispatch`**, for any executions, workers, dispatchers, placement of workers and
faults, and both values of `LateWork`. That code runs at most once depends on
who holds the claim; the claim depends on the status of the row;
and the row may be failed under its holder. `TypeInv` adds to the types
when the two counters (deliveries of a message, attempts of `finish`) may still
grow, and that no submit message exists before its publish. `SafetyInv` then says, at each call of `handle`,

- `Exclusive`: one worker per execution, up to the end of `handle`, longer than
  `ClaimExclusive` asks;
- `RowInv`: a row that is absent or `queued` has not run and nothing has been
  said about it; code that has not run has not ended;
- `ClaimInv`: from claim to finish the row is `running` or was failed, never
  `queued`, so that nobody else can claim it;
- `SaidInv`, `StartInv`, `EndInv`: what has been published, that nothing ran when
  `Run` returns `errNotStarted`, and that a result that classifies as `succeeded`
  comes from exit code 0.

Steps fall into two kinds. A step of anything but a worker in `handle` is
*framed* (`Frame`): it may fail a row or end a container but moves nothing else of
an execution. `FrameStep` shows that framed steps keep the invariant; `OtherSteps`
that they are framed. A step of `handle` changes one execution and one worker;
`WorkStep` reduces it to that pair, and `HandleSteps` does one proof step per call.
The refinement follows by mapping `ran` to the executions with `runs > 0`: each
statement is a lifecycle step or a stutter (`Statements`, `LifecycleStep`), where
`SafetyInv` supplies that a row given back has not run and a success has.

`ResultMatchesRow` does not hold when live work may be reaped (a late result finds its row failed),
so `ResultsMatch` assumes that it is not: `LateWork` is `FALSE`, for any number of
crashes, lost replies and redeliveries. That the settings make it so is `WorkKept`
of `Deadlines`, about the same sweep. `MatchInv` adds to the property what a worker
relies on at each call (`Prompt`): the row it holds is `running` and too young for the
sweep, so that the guard of `FinishExecution` lets its status in; after that the row
says what the worker is about to publish, or is still `running` under a failure
that could not be written. The proof uses `SafetyInv` for the rest: a row that a reaper
or the gateway fails while queued has no worker and nothing said about it. A step is
`Calm` for the executions it is not about and `Onward` for the other workers.

**`Deadlines`**, for all settings. `OnTime` says that nothing is overdue, because
`Tick` waits. `Claimed` counts the limits of a run from the claim, which set
`updated_at`, so `RunMargin` keeps the row too young for the sweep. `Queued` bounds the
time by which a message is delivered or comes back by a budget: the publish, a wait and
an `AckWait` per delivery, and a NAK delay per NAKed delivery, of which there are
no more than deliveries. While a delivery is left the budget is within
`QueuedMargin`, and the row too young. `Sole` says that one delivery works on the row,
and that a row is never given back once a POST was made.

`SettledInTime` needs no margin, since the sweeps themselves bound the age of a row.
`SettleInv` counts the deliveries taken so far: `Young` says that a row claimed by the
nth was claimed by `ClaimBy(n)`, one `RunMax` and one sweep later for each delivery
before it, and that the last sweep saw it no older than the age it reaps at;
`SweptInTime`, that the next sweep is not overdue. No more than `MaxDeliver` are ever
taken, which gives `SettleBy`. The invariant was also checked with `RunMax` above
`StaleAfter`, where the sweep of running rows and not the run ends the row.

**`Quota`**, for any submits, tenants, tiers, limits and times, with the lock timeout
within the window. `Granted` says that a transaction between its lock and its
commit has the advisory lock of its tenant, and that it began at most the lock
timeout ago. `Room` is what the count it made is still worth when it inserts: under
both limits there is room for one more row, for the hourly limit in every span of
`SubmitWindow` less the lock timeout that holds the time the transaction began, which
is the time of its row. `Admit` shows that a check which passes leaves that room: the
window it counts back from now covers every such span. `SparingStep` shows that the
room survives every step that admits no row of the tenant under the lock, and `OwnLock`
that no step takes the lock from a transaction that has it; so only the insert of that
transaction uses the room (`InsertStep`). `Lost` are the requests whose commit went through without its reply;
`Paid` says that there are no more of them than faults, and they are the only ones that
can come back as a second row through the path without the lock.

**`Startup`**, for any processes and releases. `Stands` says that a process inside a
migration applies the version after the last committed one, and that one about
to claim is at most there; `Alone`, that one process is inside a migration. Together
they make `schema` the sequence 1, 2, ..., since only the next version can commit. For
`ReadyIsWired` the invariant adds that a gateway in `ready` serves with a pool, and that
the stream exists once a dispatcher serves.

**`Sessions`**, for any users, tokens and requests. `Holding` says that a rotation
holds the lock of its row and that a locked row is live, so what it commits is the
first exchange of the token; `Parents`, that a token with a successor is revoked;
`OneLive`, that a session has one live token unless it ended; `Chains`, that ids
not yet drawn belong to no session. Four lemmas show that the table keeps these under
each kind of statement (none, insert, rotation, revocation), and one per
handler that it makes such a statement under the lock it needs.

The run `logout_all_midflight` refutes that `LogoutAll` ends every session of its caller.
`LogoutAllMisses` states what it does end, for any number of requests
(`OutlivesByRotation`): the rows it selected are revoked, and a
session that was live when the request came and outlives the answer has a selected row
that was exchanged, so it was refreshed while `LogoutAll` waited for that row. `AllInv`
says that a revoked token of a session that goes on was exchanged (`Exchanged`), that
a session has one user (`Owned`), and, from arrival to answer, that each session asked
for has ended or has a selected row (`Asked`, `Selected`, `Answered`).

**`Accounts`**, for any requests, names and retries. `Stands` gives what a transaction
has inserted at each of its steps; `Apart` says that two requests never own
the same key of a unique index, committed or in an open transaction, which is what
waiting for the other transaction achieves; `Paid`, that failed answers are no more
than faults, with the library's theorems on cardinalities.

**`Access`**, for any users, tenants, keys and requests. The invariant says of every
request what its credential, its checks and its effects have to do with each
other (`GoodSession`, `GoodToken`, `GoodKey`, `GoodEffect`). It survives the steps of
others because keys keep their owner and tenant and stay revoked
(`KeysKept`), a membership that ends leaves its time behind (`MembersKept`), and a signed
token does not change.

**Only model-checked**: all liveness (`EventuallySettled`, `ShutdownCompletes`,
`EveryoneAnswered`, `EventuallyUp`: the prover has no rule for fairness and `ENABLED`).
The refutations of comments and documents are counterexamples of TLC. Every
invariant, action property and refinement of a passing run is proved.

## Not modelled

Validation and encoding of requests, the contents of source, output and webhook
payloads, hashes and signatures (taken as unforgeable), the `Retry-After` hint,
resource limits of the container and the shape of lists (among them `pageParams`,
which narrows an offset to 32 bits after checking only its sign,
`executions.go:344`). `webhooks/urlsafety.go` is a stateless predicate over addresses
and DNS answers; `handlers/users.go` reads one row; `config.go` reads the environment
once (it rejects `STALE_QUEUED_AFTER=0`, which the changelog gives as the way to disable
the sweep); `store.go`, `pgconv.go` and the generated models have no behaviour of
their own. Routes on a gateway without a pool are the stubs of `Startup`, not of
`Access`. The insert of `Dispatch` is a single statement; its form with quotas,
where a lost commit can leave a second row, is in `Quota`. Postgres is taken to
be durable, its isolation to be READ COMMITTED as the code leaves it.
