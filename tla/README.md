# A TLA+ model of gopher-bonus

gopher-bonus (`gophermart`) is the loyalty service of SPECIFICATION.md. Users
register, upload order numbers and spend bonuses. An external calculator
decides what an order is worth. The service polls the calculator, stores the
verdicts in PostgreSQL and credits the bonuses.

This directory holds TLA+ modules of the parts where several goroutines,
requests or processes meet, the TLC configurations that check them, and TLAPS
proofs of what holds for every value of the constants. Line numbers refer to
the files under `src/`. `PROJECT.json` lists, for every definition, the lines
it stands for.

## 1. Inventory

```
 users --HTTP--> handlers --calls--> repositories --SQL--> PostgreSQL
                                          ^
                     tick goroutines      | UpdateAccrualStatus
   Watcher.Run ----------+----------------+
       ^                 | ordersCh (unbuffered)
       | responsesCh     v
       +------------- workers 1..n <--- semaphore, requestsCh, rateDataCh ---> Agent.Run
                         |                                        (request watcher)
                         v HTTP
                     calculator (cmd/accrual, a binary)
```

| component | state | operations | what is hard | what makes it correct |
|---|---|---|---|---|
| agent (`service/agent/agent.go`) | rate limit, timer, generation of workers | start, receive a rate limit, pause, restart, stop | waits for workers while it is the only receiver of their reports; replaces the semaphore | nothing is requested during Retry-After; one generation at a time; channels closed behind the last sender; comes back from a pause |
| worker pool (`workerpool.go`) | order and answer of each worker, shared cancel function | take, acquire, count, request, release, report, cancel on 429 | two workers meeting a 429 together; blocking sends with a token in hand | every order taken is answered exactly once, for that order; every token comes back |
| semaphore (`utils/semaphore`) | channel of tokens, `activeCount`, `blockAcquire` | acquire with timeout, release, change the limit | timeout racing a free token; unsigned counter | tokens = holders <= limit; changing the limit terminates |
| request watcher (`requestwatcher.go`) | counter, start and stop time, the channel `stop`, its goroutine; no lock | start, stop, drain, measure | fields shared by two goroutines; `Start` replaces the channel the goroutine is to be stopped by; must be draining whenever a worker may count | one goroutine at a time; the rate measured is that of the paused generation; no worker blocks for good on `requestsCh` |
| accrual HTTP client (`httpclient.go`) | none | ask, classify the answer | 204, 429 with unreadable headers, timeouts, cancelled context | an answer is the calculator's or a failure |
| watcher (`service/watcher/watcher.go`) | ticker, one goroutine per tick, the answer in hand | poll, hand over, mark, store, stop | mark after hand-over races with the answer; overlapping ticks; stop with goroutines alive | no money without a verdict; decided orders are settled; final statuses stay; stopping does not panic |
| order repository (`repo/order_repo.go`) | `accrued_orders`, `withdrawn_orders` | insert, update, select, withdraw, balance | read-check-insert transactions at READ COMMITTED | no overdraft; a number is paid for once; a balance is answered |
| transactions and retries (`repo/repo.go`) | attempt counter | `WithTX`, `WithRetry` | running again what was committed with an unknown outcome | a retried call has the effect of one call |
| amounts (`model/amount.go`) | none | parse, print, convert to `numeric` | overflow, sign of -0.x | what is booked and shown is what was asked for and what is there |
| user repository (`repo/user_repo.go`) | `user_hashes`, `password_hashes` | create, exists, find | two rows in one transaction; errors swallowed or passed on unmapped | one account per login; an unknown user is told apart from a failure |
| HTTP handlers (`api/handlers`) | the request being served | the routes of SPECIFICATION.md | find-then-create and exists-then-create | the status codes of SPECIFICATION.md under races |
| authentication (`utils/auth`, middlewares) | none | issue and check tokens | - | only the owner acts for a user |
| database manager (`service/dbmanager`) | pool, first error `m.err` (no lock); version and dirty mark in the database | connect, migrate, ping | a chain that goes on after a failure; death within a migration; health checks that share `m.err` | nothing is served without a pool and a complete schema; a healthy answer is true |
| service wiring (`service/service.go`, `cmd/gophermart`) | channels, root context | start, serve, die | the process ends right after `cancel` (service.go:97) | orders in flight are found again |
| router, configuration, logging, test support | - | - | - | - |

The hazards, each at its line and with the properties that watch it, are in
`PROJECT.json` under `hazards`.

## 2. Modules

| module | kind | models |
|---|---|---|
| `Broker` | abstract | what the agent promises: an order taken from `ordersCh` stays on a desk until exactly one answer for it leaves. Also the calculator, modelled from SPECIFICATION.md:339-367 and from what `httpclient.go` accepts |
| `Agent` | detailed | `Agent.Run`, workers, semaphore, request counting; implements `Broker` |
| `OrderTable` | operators | a row of `accrued_orders` and the queries on it |
| `Watcher` | detailed, composed with `Broker` | `Watcher.Run`, tick goroutines, table, crashes |
| `Amount` | operators | sums of money as the code reads, stores and prints them, in integers of a given width |
| `Account` | abstract | what balances and withdrawals promise: an account is looked at in one instant and drawn on in one step |
| `Ledger` | detailed | `Withdraw` and `GetBalance`, from the request to the status code, as transactions; implements `Account` for one call per user |
| `Registry` | abstract | what registering, logging in and uploading promise: one step per request, on the tables as they are at that step |
| `Handlers` | detailed | `Register`, `Login` and `PostOrder` as sequences of repository calls; implements `Registry` |
| `Service` | detailed, extends `Handlers` | the process around the handlers: start-up with the database manager, `/ping`, death and restart |
| `RequestWatcher` | detailed | the request watcher with its unsynchronised fields, driven by `Agent.Run`, on a clock |
| `AgentProofs`, `WatcherProofs`, `LedgerProofs`, `AccountProofs`, `AmountProofs`, `HandlersProofs`, `ServiceProofs`, `RequestWatcherProofs` | proofs | see section 5 |
| `MCAgent`, `MCWatcher`, `MCLedger`, `MCHandlers`, `MCService`, `MCRequestWatcher` | instances | constants for TLC |

`Watcher` extends `Broker`: its environment is the contract that `Agent` is
shown, and proved, to keep. So the two halves are checked separately and still
belong together. Two things are stated at the seam only. `AgentStops` closes
`responsesCh` after the service was told to stop, which `Agent` does because
`StopRequested` needs `ctxDone`. And `Broker` promises no progress: the fairness
of `Watcher` assumes that orders are taken as long as no request has been answered
with 429. That workers come back for the next order until then is
`WorkersComeBack` of `Agent`; that they need not do so afterwards is what the
runs `agent_resume` and `agent_waits` show.

### Agent

A goroutine is a `pc`. A goroutine blocked in a channel operation, `wg.Wait` or
`cond.Wait` is a `pc` whose action is not enabled. A send on an unbuffered
channel and its receive are one step. The wait group is the set of workers
whose `pc` is not `off`.

| action | code |
|---|---|
| `TakeJob`, `Quit` | the select of `worker`, workerpool.go:79-91 |
| `AcquireGate`, `AcquireSlot`, `AcquireTimeout` | `AcquireWithTimeout`, semaphore.go:26-43, and the answer of workerpool.go:92-102 |
| `CountRequest`, `DrainRequest` | workerpool.go:103 and requestwatcher.go:44-52 |
| `SendRequest`, `GetAnswer`, `GetError` | `GetOrderInfo`, httpclient.go:33-122 |
| `Release` | semaphore.go:45-54, with the width of `activeCount` |
| `Report`, `Check`, `CancelAll`, `ReceiveRate` | workerpool.go:109-131 and agent.go:81 |
| `Pause`, `TimerFires`, `Restart` | agent.go:82-103 and semaphore.go:56-66 |
| `StopRequested`, `CloseChannels` | agent.go:73-80 |

`Check` and `CancelAll` are two steps because workerpool.go:119 and :126 are
two statements and another worker may stand between them. That is what the
run `agent_waits` is about. `AcquireGate` has the branch of
a blocked semaphore for the sake of the code; while the limit is being changed
no worker exists (`QuietWhilePaused`), so the branch has no effect in this
program.

### Watcher

| action | code |
|---|---|
| `TickFire`, `TickQuery`, `TickQueryFails` | watcher.go:50-60 |
| `TickSend`, `TickPanic` | `w.ordersCh <- o`, watcher.go:62 |
| `TickMark`, `TickMarkUnknown`, `TickMarkFails` | watcher.go:63-74 through `UpdateAccrualStatus` and `WithRetry` |
| `MainReceive`, `MainApply`, `MainApplyUnknown`, `MainApplyFails` | watcher.go:78-122 |
| `MainDone`, `MainStop` | watcher.go:46-49 and :79-84 |
| `AgentLearns`, `AgentFails` | what a worker makes of an order, workerpool.go:92-117: `Learn` and `Fail` of `Broker` |
| `AgentLimited` | a request answered with 429, workerpool.go:109-131: `Fail`, and the agent is about to pause (`limited`) |
| `AgentStops` | `Close` of `Broker`, agent.go:73-80 |
| `PostOrder`, `Cancel`, `Restart` | handler, signal, end of the process and a new one |

An update whose outcome is unknown is applied and then applied again
(`isRetryableError` knows 08006 and 08007). The four attempts of `WithRetry`
are not counted here: any number of repetitions covers them.

`limited` is a history variable: it remembers until the next restart that this
process has met a 429. No action is guarded by it, so the safety properties hold of
an agent that resumes too; the fairness and `Settles` depend on it.

### Ledger

A call is an HTTP request that is being served; a transaction is a sequence of
statements, each of which reads what is committed when it starts. PostgreSQL is
modelled as the code uses it: default isolation level, `unique_withdrawn_no`
makes an insert wait for an open transaction with the same number, the column
refuses what it cannot hold, and so does the cast of the two sums
(orders.sql.go:75 and :89).

| action | code |
|---|---|
| `Call`, `CallFails` | `retrieveUserID` and `FromString`, handlers.go:90-106 and :399-439 |
| `ReadAccrued`, `ReadWithdrawn` | `getBalanceTX`, order_repo.go:238-268, and the comparison of order_repo.go:54 |
| `CreateWithdrawal`, `InsertRefused` | order_repo.go:59-66 and the constraints of 00001_init.up.sql |
| `Commit`, `StatementFails`, `CommitUnknown` | `WithTX`, `WithRetry`, repo.go:31-100 |
| `Codes`, `Status` | what the handlers write, handlers.go:372-397 and :449-472, and the first `WriteHeader`, which is what the client gets |
| `Upload`, `Update` | the environment: orders come and are updated |

A sum enters as it stands in the request, `FromString` makes an amount of it,
and from there on every sum is an int64 that wraps, so the
comparison of order_repo.go:54 is that of the code and not of arithmetic. An
INVALID order is left out because to these queries it is a PROCESSED one without
money. Credits stand in `Ledger`; where the service takes one back, see
`FinalIsFinal`.

`Account` has five variables and one step for everything a client can tell apart:
`Look`, the instant of which a balance or a 402 is true; `Withdraw`, the row, together
with the 200, with a 500, or with no answer yet; `ShowBalance`, `Insufficient`, `Fail`;
and `StartOver`, which forgets what was seen. `ImplementsAccount` is its `Spec` under
this mapping:

| `Account` | `Ledger` |
|---|---|
| `credited` | `Granted`: the sums of the accruals, user by user |
| `withdrawals`, `reply` | the committed rows, the status code |
| `ask` | `Asking`: the request, a withdrawal with its kopecks as they will be stored |
| `seen` | `Looking`: after `ReadAccrued`, what was read less what has been withdrawn; of a balance after `ReadWithdrawn`, what will be printed |

So the look is at `ReadAccrued`, the draw at `Commit` or `CommitUnknown`, and
`ReadWithdrawn` shows nothing new. A withdrawal that was committed with an unknown outcome
is a `Withdraw` without an answer; the attempt that follows finds the number taken or
the account too small, and its 500 or 402 is one of `Account` too. A call for which no
such instant exists would be a violation: the run has a mutant that refuses a
withdrawal of all there is.

### Handlers

The same database and the same idea of a call, for the requests that create
users and orders.

| action | code |
|---|---|
| `CallRegister`, `Exists` | handlers.go:107-138, user_repo.go:60-77 |
| `InsertUser`, `InsertPasswordHash`, `Commit` | user_repo.go:26-58 inside `WithTX`; `Commit` also is the cookie and the 200 of handlers.go:155-161 |
| `CallLogin`, `FindByLogin` | handlers.go:164-235, user_repo.go:80-99 |
| `CallPostOrder`, `FindByID` | authentication.go:38-43, handlers.go:90-106 and :269-279 |
| `FindUserIDByAccrualID`, `CreateOrder` | handlers.go:281-316, order_repo.go:32-46 and :81-96 |
| `ExistsFails`, `StatementFails`, `CommitUnknown`, `CreateOrderUnknown` | `WithRetry`, repo.go:66-100, and what each caller does about the error |

Three errors take ways of their own and are modelled as they go: `Exists` turns
an error into "nobody there" (user_repo.go:70), `FindUserIDByAccrualID` turns
every error into "not found" (order_repo.go:88), and `findWrapper` turns "not
found" into an error nobody knows (user_repo.go:131). The first two are harmless
because of the constraints of the tables, which is what `OneAccountPerLogin`
and `UploadAnswersTrue` are about; the third is the run `handlers_500`.

`owner` is the part of `accrued_orders` that `PostOrder` reads and writes.
`Watcher` has the other part: nothing there changes an owner, and nothing here
changes a status.

`Crash` ends the process between any two steps: transactions are rolled back,
cookies are tokens and stay valid.

`Registry` is the specification a client would like to read. A registration is
one step that adds an account and answers 200, or finds the login taken and
answers 409; likewise for the others. A request may fail, and then has taken
effect once or not at all (`Unconfirmed`, `Fails`, `Dies`). `ImplementsRegistry`
says that `Handlers` does nothing else, with the identity on `accounts`, `owner`,
`sessions`, `req`, `me` and `reply` as mapping: open transactions, retries and
counters of attempts are not seen from outside.

### Service

| action | code |
|---|---|
| `Start`, `Connect`, `ConnectFails`, `Ping`, `PingFails`, `Skip` | the chain of service.go:32-35; a method that finds `m.err` set returns at once, db_manager.go:57, :96, :151 |
| `MigrationBegins`, `MigrationEnds`, `MigrationFails`, `MigrationRefused`, `MigrationsDone` | `migrations.Up()`, db_manager.go:124-148. golang-migrate, which is not in the repository, marks a version dirty, runs its file and clears the mark |
| `Listen` | service.go:36-53 and :87-97 |
| `Serves` | a step of `Handlers`, possible only while the process listens |
| `Probe`, `ProbePasses`, `ProbeFails`, `ProbeAnswered`, `ProbeLeaves` | `GET /ping`, handlers.go:525-531 and db_manager.go:150-169 |
| `Dies` | the end of the process at any step, service.go:97-112 |

The context of a ping is that of its request, so `ProbeFails` also stands for a
client that has gone. `m.err` is never cleared: after one such ping `/ping`
answers 500 until the process is restarted, while requests are served. Nothing
in the repository says that it should be otherwise.

### RequestWatcher

| action | code |
|---|---|
| `EnterSelect`, `TakeStop`, `TakeRequest`, `AddRequest`, `TakeClosed` | the goroutine, requestwatcher.go:42-57. `requestCount++` is a read and a write |
| `Request` | workerpool.go:103 |
| `Pause` | agent.go:81-88 with `Stop` |
| `Measure` | agent.go:89-94 with `GetRPM` |
| `StartClock`, `StartCount`, `StartChannel`, `Start` | `Start` of the request watcher: start time, counter, channel, and the `go` with which agent.go:96-98 continue. Steps of their own, because the old goroutine may run between them |
| `Close` | agent.go:73-80 |
| `Tick` | 0.001 minutes, the tolerance of `GetRPM`; not while a goroutine can run |

The goroutine evaluates `w.stop` for every `select` anew. In `stale` it waits
with the channel of a generation that has been replaced; from `loop` it enters
the `select` of the new generation and never learns that it was stopped.
`Agent.Run` is what agent.go:44-103 says but for the wait inside
`ChangeMaxRequests`, which is the matter of `agent_resume`: the second
generation of this module is the one that follows once that wait ends.

## 3. Runs

| run | question | result |
|---|---|---|
| `agent_contract` | do types, the pauses, the semaphore, the generations and the shutdown hold together, does `Agent` implement `Broker`, is every order a worker takes answered, and does the worker come back for the next one unless its generation is cancelled? | holds |
| `agent_resume` | does the agent go on after Retry-After? | violated: `activeCount` wraps on the first release, the wait of semaphore.go:61 never ends |
| `agent_waits` | do the waits of agent.go:75 and :82 for the workers end? | violated: two workers with a 429, the second blocks on `rateDataCh` while `Agent.Run`, which alone receives from it, waits for it - before the pause, or before the shutdown |
| `rate_measured` | with fields that nothing synchronises: does one goroutine count at a time, is the measured rate that of the paused generation, does the goroutine end? | holds for pauses of at least a tick; that the goroutine ends holds for all |
| `watcher_contract` | with two desks on one order, lost updates, failures and a restart: is money only what was granted, and is a decided order settled in a process that is not told to stop and meets no 429? | holds |
| `watcher_final` | do final statuses stay? | violated: the mark of the tick overwrites a stored verdict |
| `watcher_credit` | does every grant arrive? | violated: a 204 is stored as PROCESSED and never asked about again |
| `ledger_one_call_each` | with one request per user in flight: no overdraft, one payment per number, the sum booked that was asked for, the answer given that is true, a balance that promises nothing that is not there, every request one step of `Account`, every call answered, no deadlock? | holds |
| `ledger_overdraft` | no overdraft with two requests of one user? | violated |
| `ledger_balance` | is a balance answered while the database works? | violated: the sum of only NULLs |
| `handlers_safety` | with requests and health checks racing, the database failing and the process dying anywhere: one account per login, cookies only for accounts that are there, true answers to uploads, every request one atomic step of `Registry`, nothing served on half a schema, healthy only if healthy? | holds |
| `handlers_500` | is 500 the answer only when something has failed? | violated: a login that nobody has is answered with 500 instead of 401 |

`NoOverdraft` holds in one run and is violated in another. The difference is
the constant `Caller`: the check before the insert is enough as long as a user
waits for each answer, and only then.

`Settles` says that a decided order becomes final *at some time*, unless the process
is told to stop or a request of it is answered with 429. The second exception is not
the property's choice: after a 429 the agent may never take an order again
(`agent_resume`, `agent_waits`), and then every order waits for the next restart, with
which `limited` is false again. `watcher_credit` leaves both cases out as well, so its
counterexample does not rest on them. That a settled order may
leave that status again is `watcher_final`, that it may be final without its
money is `watcher_credit`.

The process ends shortly after `cancel` (service.go:97), so that of the two
hangs of `agent_waits` the one before a shutdown matters little; the one before
a pause stops the polling of a healthy process. The wrap of `agent_resume`
needs no race: one request and one 429 are enough.

`Watcher` also shows (action `TickPanic`) that a tick goroutine which still holds
orders when `ordersCh` is closed (watcher.go:81) panics on its send. It needs the
workers and the watcher to finish before the process does, so it is recorded as a
hazard and no run is spent on it.

A commit or an insert whose outcome is unknown is run again if the database said so
(08007, repo.go:94), and answered with 500 at once if the error is no `PgError`, as when
the connection breaks or the context is cancelled. The one that is run again meets what
it did itself: the withdrawal is refused with 402 or 500, the
registration and the upload end in 500, although they were made. The safety
properties hold in spite of these steps, and the exception is written down:
`AnsweredAsDone` allows it for `made = "unknown"` only, and `Registry` in
`Unconfirmed`. The loser of a race of two registrations or two uploads is
answered with 500 instead of 409 or 200 (`Fails`).

`Withdraw` writes a 500 after the 200 of a withdrawal that succeeded
(handlers.go:449-471 does not return). `AnsweredAsDone` holds because net/http
keeps the first status; the client gets the text of an error with its 200.

What `Ledger` shows beyond its properties: a sum of -0.5 is read as 0.50
(amount.go:66), and a sum whose kopecks do not fit into 64 bits is booked as what is
left of it; `WithdrawnAsAsked` is about sums that fit (`Fits`). The overflow of
the sum in order_repo.go:54 lets the comparison pass, and the row is refused by the
precision of the column. With two requests of one user in flight the two
statements of a balance may disagree so that the difference is negative, which
`String` prints as something that is no number (`NotPrinted`), and the answer is
500.

`OneDrainer` and `MeasuredTrue` have the condition `~rushed`. With a Retry-After of
0, which httpclient.go:97 accepts, `Stop`, `GetRPM` and `Start` may follow each
other before the goroutine has seen the closed channel; then two goroutines drain
and count, and the rate is that of another generation, or 0, or taken from the
`stopTime` of an earlier pause. The agent needs only
that somebody drains (`SomebodyCounts`), and any rate is in `MeasuredRPMs`.

`GetRPM` rounds down so as "не переборщим с количеством запросов"
(requestwatcher.go:77). The result is a divisor (agent.go:93): rounding it down
raises the new limit.

### Bounds

* `Workers`: two, so that they can meet everywhere. `RequestBuffer` and
  `MaxRequestCount` are 1, so that both are full with two workers.
* `CounterModulus` = 2 stands for 2^64. With the true width `Restart` is
  reached only before the first release or after 2^64 of them; scaled down, the
  runs explore later generations too. The proofs hold for every modulus.
* `RateLimits` and `MeasuredRPMs` let the new limit be 0, 1 and 2: none, one and
  both workers get a token.
* `Orders`: one. Orders do not interact but through workers, and a second worker
  or tick competes for everything else. That answers are not mixed up between
  orders is `Implements` and `NoMoneyFromNowhere` for every number of them.
* `Desks`: two, so that two answers for one order overtake each other. `Ticks`:
  one, which fires again and again; two ticks on the same orders are beyond what
  TLC finishes together with liveness, and are covered by the proofs, which hold
  for any number.
* `MaxCrashes` = 1, also for liveness: the state after a restart depends only
  on the table.
* `Ledger`, `Handlers` and `Service`: `MaxRetries` = 1 (3 in the code) and
  `MaxFaults` = 2: a first attempt, a retry and an exhausted retry are all
  reached, and one fault more for something else.
* `MaxInt` = 511 stands for 2^63-1 and `MaxNumeric` = 255 for a DECIMAL(12, 2), so
  that sums of a few digits overflow the one or the other; as in the code, an int64
  holds two of the largest numerics. What was withdrawn never comes near the cast (it
  is covered by accruals that have passed it), and the accruals of one order do not
  either; the proofs go through both. The four sums are 0.4,
  which the credit of 45 kopecks covers once; 256, of which the width keeps 0;
  5.05, which overflows when it is added to 0.4; and 0.005, which is refused with
  400. The proofs hold for every width.
* `Ledger` has one order in `ledger_one_call_each`, so that one user has bonuses and
  the other has none, and both ask for the same numbers.
* `RequestWatcher`: two goroutines, so that two generations can overlap; pauses of 0
  and 1 tick, so that the condition of `OneDrainer` is met and not met; a buffer of
  one and three requests let a request wait in the buffer over a pause. `MaxTime` =
  3 ticks hold three generations. `CounterModulus` is the width of the uint64 that
  a negative float is converted to; only rushed pauses get there.
* `Service`: two migrations as in the code, two calls and two health checks.
* `Calls`: two under `Service`, which race for a login or a number, and three in
  `handlers_500`; two logins, passwords and ids tell a stranger from the
  owner, and one number is the one they compete for.
* Symmetry is used only in runs without liveness properties; `ImplementsRegistry`
  is a safety property and says nothing that tells two users, numbers or calls
  apart.

`CHECK_DEADLOCK FALSE` is set for `Agent` and `Watcher`, which stop when they
are told to (and, in the violated runs, hang; those are temporal properties).
`RequestWatcher` stops with the bound on its clock. `Ledger`, `Handlers` and `Service`
never stop and deadlock is checked there: two inserts that wait for each other
would be found.

### Fairness

* `Agent`: goroutines that can run do run, timers fire, an HTTP request ends by
  its own timeout. `CountRequest` is strongly fair because Go serves the
  senders blocked on a channel in order of arrival, so a worker is not
  overtaken for ever. Nothing obliges anyone to hand in an order, to cancel or
  to calculate.
* `Watcher`, the process itself: the ticker ticks (weakly fair: it does not wait for
  anybody). `MainReceive` is strongly fair because `select` picks at random among the
  ready branches and the senders blocked on `responsesCh` are served in order of arrival.
* `Watcher`, the agent: a tick goroutine that offers an order again and again while a
  worker is free hands it over (`TickSend`). This is required only while `~limited`;
  after a 429 nothing obliges the agent to do anything. Until then it is the
  conclusion of `WorkersComeBack`, checked under the fairness of `Agent`, together
  with Go serving blocked senders in order.
* `Watcher`, the environment: neither database nor calculator is out of order for ever.
  An order that is asked about again and again gets an answer some time (`Asks`, also only
  while `~limited`): requests do not fail for ever, and the semaphore, which has 100500
  tokens before the first 429 (constants.go:7, service.go:71), does not time out for ever.
  This clause is an assumption; `Settles` cannot hold without it.
* `Ledger`: a call that can take a step takes one; nothing obliges anyone to
  call. Failures are bounded by `MaxFaults`, and in the code by the attempts of
  `WithRetry`.
* `RequestWatcher`: a goroutine that can run does. Neither the clock nor
  `Agent.Run` has to go on.

## 4. Findings

Seven of the runs above are expected to find a violation; each states what a
document, a log line or a test says, and `PROJECT.json` quotes the line next to
what the code does.

## 5. Proofs

All theorems hold for every value of the constants under the named assumptions
(`AgentAssumption`, `BrokerAssumption`, `WatcherAssumption`, `NullAssumption`,
`AmountAssumption`, `LedgerAssumption`, `HandlersAssumption`,
`ServiceAssumption`, `RequestWatcherAssumption`), which TLC evaluates in the runs.

**AgentProofs.** The invariant is `TypeOK /\ Phases`. None of `QuietWhilePaused`,
`CleanShutdown` and `SomebodyCounts` is inductive alone: that no worker exists
while the limit is changed follows from the pause having waited for them, and
that nobody starts one in the meantime from the timer not running in that
phase; `Phases` is their conjunction with that fact. A worker step is analysed
once, for its own locals (`WorkerStepLocals`) and for what it shares
(`WorkerStepShared`). From the invariant follow `TypeCorrect`, `Quiet`,
`ClosedCleanly`, `Counted` and `OneGeneration`.
`Limited` adds `LimitRespected`: only Acquire and Release move a worker over the
edge of `Holders` (`WorkerStepHolders`), and `Restart`, which resets the channel,
happens when there is no holder.
`Implements` shows that every step of `Agent` is a step of `Broker` or leaves its
variables alone, with `Desks <- Workers` and `closed <- (apc = "stopped")`; it
needs the invariant at `Close`, where every desk must be clear, and at `Take`,
because an idle worker exists only while the agent has not stopped.

**WatcherProofs.** `SettledAsCalculated` is not inductive: an answer may be old
when it is stored. It is together with `AnswersKnown`: an answer that says
INVALID or PROCESSED agrees with the calculator, because the calculator never
changes a final verdict. So delays, repetitions and the order in which answers
are stored do not matter for `NoMoneyFromNowhere`.

**AmountProofs.** `ReadExactly`: a number without a sign whose kopecks fit into the
width is read as what it means. It rests on `WrapInside` (what fits is left as it
is) and `QuoRem` (Go's truncating division). `StoredExactly` is the way through the
database, for negative sums too. `PrintedExactly` and `NotPrinted` say of which
differences `GetBalance` can make a JSON number: of all that are not negative,
and of no negative one with kopecks.

The second half is about sums over finite sets, as `SELECT sum(...)` computes them.
`SumFunction` of the community modules is a fold, a recursive function on the subsets of
a set; that there is one, that it does not depend on the order of the elements
(`SumWithout`), and what one element more or less changes (`SumChanges`) has to be proved.
The provers cannot instantiate the induction theorems of the library, whose
hypothesis is an operator, so `PickInduction` is stated in first-order terms: a set `G` of
subsets stands for the predicate, and a smallest set outside of `G` is the
counterexample that cannot be (`SmallestSet`, from the strict subset ordering being
well-founded).

**LedgerProofs.** `PaidOnce` is stated over committed and pending rows together. An
insert waits until no other transaction holds the number and fails if it is
committed, so the union never has two rows with one number
(`InsertKeeps`), and a commit moves a row within the union
(`CommitKeeps`). For `AnswersTrue` and `WithdrawsExactly` the invariant
says of each call what it has inserted and what it has been answered: a
transaction that is about to commit holds exactly the row `RowOf(c)`, whatever
attempt it is, and a 200 leaves that row among the committed ones. With
`ReadExactly` and `StoredExactly` the row has the sum that was asked for.

`LedgerTypes` needs that sums of rows are natural numbers, and that whatever is
computed from them is wrapped into an int64 again.

**AccountProofs.** About users who wait for an answer before they ask again: the hypothesis
`OneCallPerUser`, on the constant `Caller`. That it cannot be dropped is the run
`ledger_overdraft`.

`NobodyOverdraws` and `BalancesTrue` have the invariant `MoneyInv`. `NoOverdraft` is not
inductive, because the check and the insert are separate statements. What a
transaction has read is old by the time it inserts, in both directions: the accruals
may have grown, the withdrawals too, if there were other transactions of that user.
`Covered` says what is left of the check at each statement: after the first, the
accruals that were read are at most those that are there and at least what was
withdrawn (`Sound`); between the comparison and the commit, the accruals pay for the row
as well (`Paid`). Credits keep both, since they only add (`CreditAdds`, from
`CreditsStand`: an order is credited once). Withdrawals keep both only if no other
transaction of the same user adds a row, which is the hypothesis. A commit of unknown
outcome leaves its row and starts over from the first statement, where nothing is
promised.

The comparison of order_repo.go:54 is one of numbers only while its sum does not
overflow (`Comparison`). That is not a hypothesis: the cast to `decimal(12,2)` bounds the
accruals that were read, `Sound` keeps that, what was withdrawn is below them, and
a sum asked for that is larger than the column holds is refused by the insert, whatever
the comparison said. What is assumed is that an int64 holds two numerics
(`LedgerAssumption`), which are 10^12 kopecks each.

`Implements` is the step simulation of `Account`. Three facts carry it. A step of a call
writes nothing another call is seen by (`Footprint`, `Viewed`): the slot of another
user's call shows the sum of that user's rows, which only that user's call changes.
`Rest`: a call has an answer exactly when it is done (`Settled`), and the number of a row
that is about to be committed is not taken (`Fresh`), because the insert has waited for
everybody who held it and failed where one was committed. And `MoneyInv`, at the commit:
`Withdraw` asks for enough in the account at that step, not at the check, which is
`Paid`. The 402 is true of the look even where the sum of the comparison wraps, for a sum
that wraps is smaller than what it stands for (`WrapBelow`, `TooLittle`). A balance is
printed from an integer that was subtracted and split into roubles and kopecks anew;
`Rebuilt` says that this loses nothing.

**HandlersProofs.** `OneAccountPerLogin` follows from two facts that have to be
carried along. `PendingOK`: a transaction has inserted exactly the rows of the
statements it has executed. `LoginsHeld`: a login is held by one committed row or
by one open transaction, because an insert waits for open transactions and fails
on committed rows; a commit hands the login over within that union. `Genuine`
needs the same, for `Commit` is the only step that issues a cookie together with
a row. For `UploadsAnswered` the point is that an answer is given in one step
and read later: an owner changes once, from nobody to somebody, so what was true
when the answer was computed stays true, and `accepted` counts the step that
makes this change.

The second half is `Implements`. Every step of `Handlers` is one of `Registry` for the same call, or
is not seen (`Atomic`). It needs the whole invariant: at `Commit`
and `CommitUnknown`, that the open transaction has both rows and that no committed
account has the login (`CommitsMine`); at a failure, that the call has not been
answered yet (`WaitsWhileServed`). The interesting case is the insert that failed
without failing: `CommitUnknown` and `CreateOrderUnknown` are steps that take
effect, and the attempt that follows them is one that fails.

**ServiceProofs.** A chain of methods that run on after a failure is safe because of
one thing, `Reached`: as long as `dbErr` is not set, what the phases before had to do is
done. `Probed` says the same of a health check: one that waits for its answer
with `dbErr` not set has passed its own ping, since nobody ever clears the error.
`ServedCorrectly` and `ServiceImplements` carry the theorems of `Handlers` over to
the process: a step of `Service` is a step of `Handlers` or concerns no request
(`ServiceStep`).

**RequestWatcherProofs.** The order of events is in `Ordered`, one conjunct for each
phase of `Agent.Run`: `Running`, one goroutine whose count, hand and buffer together are
the requests of this generation and those left over from the one before;
`Pausing`, until that goroutine has seen the closed channel no tick has passed,
and afterwards `stopTime` is the time of `Stop`; `Measured`. That a pause of a tick
suffices is the step from `Pausing` to `Measured`. `TypeCorrect` holds without the
condition.

Only model-checked: the liveness properties (`EveryJobAnswered`, `WorkersComeBack`, `Settles`,
`CallsReturn`, `DrainersEnd`), which are beyond the prover. Every invariant and
every action property of the passing runs is stated by a theorem; the three of `Ledger` that
hold for one call per user only (`NoOverdraft`, `BalanceTrue`, `ImplementsAccount`) have
that as a hypothesis.

## 6. Not modelled

* `GetOrders` and `GetWithdrawals`: one SELECT each, which changes nothing, and a
  status code that says whether it found something.
* Input that is refused before anything is read (400, 422, and 401 for an
  invalid login): no state is involved. `Withdraw` does not test its number as
  `PostOrder` does, although SPECIFICATION.md:266 has a 422 for it.
* Cryptography and the expiry of cookies, router, configuration, logging, the query
  tracer: no state that changes concurrently.
* The characters of an amount: a number is its sign, roubles, digits and fraction. An
  exponent is a letter that `ParseInt` refuses, like any other, and left out.
* Columns and constraints other than those named in the modules: the checks for
  empty names cannot fail for what the handlers let through.
* Delays: a timeout may always fire, a retry may follow at once. `RequestWatcher` has
  a clock because there it matters.
* `DBManager.Close`: only tests call it.

## 7. Plan

Done: `Broker`, `Agent`, `OrderTable`, `Watcher`, `Amount`, `Account`, `Ledger`, `Registry`,
`Handlers`, `Service`, `RequestWatcher` and their proofs.

Left, in this order:

1. `Pipeline`: `Watcher` over `Agent` instead of `Broker`, on a very small instance, as a
   check of the seam.
2. `OrderLife`: an abstract life cycle of an order as seen by the user, which
   `Watcher` implements as far as the findings allow.
3. The listings, should they ever read more than one statement.
