# A formal model of the order engine

The order engine accepts market orders over HTTP, queues them, executes each
on the better of two DEXes and streams its progress over WebSockets. This
directory holds TLA+ models of it, the TLC configurations that check them and
TLAPS proofs of their safety. Paths below are relative to the repository.

Nothing in the program is hard to follow line by line. What is hard is that
almost every line is an `await`: between any two of them another request,
another worker, a timer, a failing call or a crash may come. The models
therefore take the code between two awaits as one step, and let every awaited
call succeed, reject without effect, or reject *after* its effect.

Running them:

    tlc -workers 2 -config ExecutionFaults.cfg OrderExecutionMC
    tlapm OrderExecutionProofs.tla

## 1. The system

| component | code | state | operations |
|---|---|---|---|
| Order repository | `src/models/order.ts`, the migration | table `orders` | one INSERT, four UPDATEs, one SELECT |
| Order service | `src/services/orderService.ts` | none of its own | `submitOrder`, `processOrder`, `failOrder`, `withTimeout` |
| Queue and worker | `src/lib/queue/{producer,consumer}.ts` | BullMQ's keys in Redis; the calls a worker has under way | `enqueueOrder`, `getQueueHealth`, `isQueueOverloaded`, the processor with its catch block |
| HTTP submission | `src/routes/orders.ts`, `src/controllers`, `src/middleware`, `src/schemas` | `idempotency:<key>` in Redis; requests in flight | `POST /api/orders/execute`: limiter, backpressure, idempotency, validation, handler |
| Rate limiter | `src/middleware/rateLimit.ts` | `ratelimit:<ip>` (a sorted set) | one MULTI per request |
| WebSocket sessions | `src/services/webSocketService.ts` | `ws:connections:<order>:<ip>` in Redis; three maps of live sockets; one subscriber connection | open, backfill, subscribe, heartbeat, close |
| DEX router | `src/lib/dex` | a seeded generator | quotes, selection, swap, slippage check |
| Process lifecycle | `src/app.ts`, `src/worker.ts`, `src/config/{redis,database}.ts` | connections | start, shutdown |
| Configuration, logging, metrics, health | `src/config/index.ts`, `src/utils`, `src/services/metricsService.ts`, `src/routes/health.ts` | counters nobody reads | |

**Interactions.** The API process serves HTTP and WebSockets *and* runs a
worker (`app.ts:109`); `worker.ts` runs a second one. A request creates a row,
adds a job and answers. Some worker slot takes the job, drives the order
through `pending -> routing -> building -> submitted -> confirmed` in the
database and publishes a few of those statuses on `order:status:<id>`. When an
attempt throws, the catch block of the processor publishes `pending` and
rethrows, so that BullMQ retries, or on the last attempt marks the order
`failed` and says so. A WebSocket session reads the row once and then forwards
what is published.

**What makes each part correct, and hard.**

- *Execution*: an order is traded no more often than retries and stalls allow;
  `confirmed` stands for a real, in-tolerance swap; `failed` comes only from
  the last attempt and is final; no message runs ahead of the database; every
  job, and without outages every order, settles. Hard because of retries,
  `withTimeout` (which cancels nothing), lost locks (two live processors of one
  order), crashes between a swap and its record, and PUBLISHes inside the `try`.
- *Submission*: an answer 200 names a row and a job of the same request body; a
  refusal creates nothing; a key that is retried gives one job; the queue does
  not grow past its threshold unchecked. Hard because key and queue depth are
  read several awaits before they are written.
- *WebSocket sessions*: the counter covers the live sessions; the shared
  channel is kept while anyone needs it and dropped after; a closed socket
  leaves nothing behind; a client learns of the end. Hard because the set-up of
  a session is four awaits during which nobody listens for its close.
- *Rate limiter*: at most `RATE_LIMIT` requests pass in a window, and nobody is
  refused who was promised a request or paused. Hard at the edge of the window
  and because refused requests count.
- *Heartbeat*: who answers is kept and who is silent is dropped. Hard because
  each ping starts a timer and only the last one is noted.
- *DEX router*: the venue with the higher price after fees, within the
  tolerance. Hard because of rounding, and because all calls draw from one
  generator.
- *Lifecycle*: a shutdown closes nothing under its users and ends. Hard because
  signals come twice, and during start.

`PROJECT.json` lists the hazards, each at its line, with the properties that
watch it.

## 2. The modules

    OrderStore            the orders table and its statements
    OrderLifecycle        abstract: what the execution of an order promises
      OrderExecution      submitOrder, queue, worker, processor; implements it
        OrderExecutionMC      fault sets and symmetry for TLC
        OrderExecutionProofs            rows, jobs, starts, swaps
          OrderExecutionSafetyProofs      and what they say of each other
            OrderExecutionRefinementProofs  it implements OrderLifecycle
    OrderSubmission       the HTTP request, several at a time
      OrderSubmissionMC
      OrderSubmissionProofs
    WebSocketSessions     the sessions of one API process
      WebSocketSessionsMC
      WebSocketSessionsProofs
    RateLimiter           the sliding window of one address
    Heartbeat             the ping and pong timers of one session
      ApiTimers           both, on one clock
        ApiTimersProofs
    ProcessLifecycle      start and shutdown of app.ts and worker.ts
      ProcessLifecycleMC
      ProcessLifecycleProofs
    DexRouter             quotes, selection, swap, slippage check
      DexRouterProofs

The modules about calls that fail have a variable `faults`, chosen from
`Scenarios` at the start and never changed: the kinds of failure this behaviour
may meet. A fault *may*
happen and never must, so that a large set covers its subsets. A property that
some fault defeats says so: `Without({"stall"}) => ...`. That is part of the
statement, not of the run: the proofs are about the same formulas.

Definitions whose comment begins with "Mutant:" are plausible bugs. No
specification uses them; each is substituted for the definition it follows to
see that a property notices.

### OrderStore

A table is a function from ids to rows, a statement an operator from table to
table. A row keeps its status, its DEX, its transaction hash (as the number of
the swap it names) and the terminal stages of `logs`. `UpdateWhere` does
nothing for a missing row, as the SQL does; the code ignores the `null` that
results. Prices, amounts, reasons and times are left out.

### OrderExecution

| variable | in the code |
|---|---|
| `submission[o]` | where `submitOrder` is for order `o` |
| `db` | the table |
| `pub[o]` | the last status published for `o` |
| `job[o]` | BullMQ's job: state, `attemptsMade`, `attemptsStarted`, stalled counter, and whose token holds the lock |
| `run[w]` | what slot `w` (process, 1..`QUEUE_CONCURRENCY`) is executing: the await it is at, its order, the number of this start, the `attemptsMade` it read, the chosen venue |
| `late` | swaps that `withTimeout` gave up on and nobody cancelled |
| `swaps[o]` | what the DEX executed for `o` |

`InsertOrder` and `EnqueueOrder` are `submitOrder`. `PublishRouting`,
`SetRouting`, `GetQuotes`, `SetDex`, `SetBuilding`, `ExecuteSwap`,
`SetSubmitted`, `SetConfirmed`, `PublishConfirmed` are the `try` of the
consumer and the service it calls, in order. Any of them may throw to
`Catch(w)`, which is `FailOrder` then `PublishFailed` on the final attempt and
`PublishRetry` otherwise; these end in `Reject`, the rethrow. An error in the
catch block replaces the first and also leads there. `Complete` and `Reject`
are what BullMQ makes of the processor's promise.

BullMQ itself is external and modelled as far as the code relies on it: only
the holder of a lock can finish its job; a job without a lock is put back by
the stalled check, or failed *without calling the processor* once
`maxStalledCount` is exceeded; the attempt counter grows when a processor
settles, the start counter when it begins. Choices worth knowing:

- A crash takes the slots of a process and the requests it serves, and lets
  its locks run out (the wait for that is not modelled as time). A stall takes
  the lock only, and the processor goes on beside its successor.
- A Redis error while BullMQ finishes a job has the effect of a lost lock, so
  it is the fault `stall`, not `redis`.
- Newer BullMQ versions fail an over-stalled job in two steps; here it is one.
- The limiter of 100 jobs a minute only delays `TakeJob`, which is already
  free to wait.
- The bundled simulators answer within 3 s and never reach the limits of 5 s
  and 10 s. The fault `dex` stands for a slower `IDexProvider`.
- `executedPrice` is drawn within the tolerance and then rounded to nine
  digits, so that it can fall outside only for a tiny tolerance: the fault
  `slippage`.
- `amountOut` has no upper bound and `amount_out` is `DECIMAL(18,9)`. Orders in
  `Oversized` can be swapped and never recorded: `SetConfirmed` always throws.

### OrderLifecycle, and the refinement

The abstract specification knows an order by its record (open, confirmed or
failed, the trade it names, the ends it has seen), the attempts begun, those
under way, those whose trade is still pending, the trades, whether it is
closed, and the last news. It forgets slots, processes, queue states, locks,
statements and statuses in between. What it promises is in its guards: an
attempt trades once; only an attempt under way writes or speaks; it confirms by
a good trade of its own; an end is announced after it was recorded; what is
closed is attempted no more, and there are `Budget` attempts.

`OrderExecution` implements it with `Budget = MaxRetries + MaxStalledCount` by
this mapping:

| abstract | concrete |
|---|---|
| `record[o]` | `RecordOf(db[o])`: status by `Outcome`, `tx`, `log` |
| `attempts[o]` | `job[o].starts` |
| `live[o]` | the start numbers in `run` for `o` |
| `pending[o]` | the start numbers in `late` for `o` |
| `trades[o]` | `swaps[o]` without the venue |
| `closed[o]` | `job[o].state` is completed or failed |
| `news[o]` | `Outcome(pub[o])` |

`InsertOrder` maps to `Create`, `TakeJob` to `Begin`, `ExecuteSwap` to `Trade`
or `Abandon`, `LateSwap` to `Trade`, `SetConfirmed` to `Confirm`, `FailOrder`
to `Fail`, the other UPDATEs to `Reopen`, the PUBLISHes to `Announce`,
`Complete` and `Reject` to `Finish`, `MoveStalled` to `GiveUp` when it fails the
job, `Crash` to `Vanish`; each may stutter, as a call that rejects without
effect does, and so do `EnqueueOrder`, `Promote`, `LockExpires`. A stalled
processor beside its successor is two live attempts. `Reopen` after `Confirm`
is allowed, since the code does it (`ConfirmedIsFinal` below). Liveness is not
part of it: `OrderExecution` states its own.

### OrderSubmission

| variable | in the code |
|---|---|
| `req[r]` | a request: where it is, its `Idempotency-Key` and body, whether the middleware left key and hash for the handler, its answer with or without `Retry-After` |
| `cache[k]` | `idempotency:<k>` |
| `rows`, `jobs`, `taken`, `waiting` | rows, jobs ever added, jobs ever taken, jobs on the wait list |

`RateLimit`, `QueueDepth`, `QueueHealth`, `Idempotency` are the `preHandler`
chain. Each catches the errors of Redis and lets the request through. One that
has sent an answer ends the chain: Fastify checks `reply.sent`, and no `onSend`
hook delays the sending. What is not caught is `hashBody` of a body that is
`Missing`: a request that has a key and no body is answered 500. The 503 of an
overloaded queue carries `Retry-After`, the 503 of the handler does not.
`CreateOrder`, `EnqueueOrder` and `StoreResult` are the handler; validation
precedes its first await and belongs to the step before (`Handled`). An order
is named by its request, since its uuid is fresh. Bodies are compared by hash,
so they are model values; `Invalid` ones fail the schema (a missing body,
without a key, does too) and `Unstorable` ones pass it and are refused by the
INSERT (`DECIMAL(18,9)` again). Whether the window of the rate limiter is full
is a free choice here.

### WebSocketSessions

| variable | in the code |
|---|---|
| `count[<<o, ip>>]` | `ws:connections:<o>:<ip>` with its TTL: absent, lasting, aging |
| `sock[s]` | a socket: where `handleConnection` or `handleClose` is, its order and address, open or not, the last status the client was sent |
| `subs[s]` | `this.subscriptions` |
| `attached` | sockets whose message handler, heartbeat and close handler are installed |
| `commands` | SUBSCRIBE and UNSUBSCRIBE calls not yet executed; one connection, so FIFO |
| `channels` | what that connection is subscribed to |
| `row[o]`, `sent` | what a SELECT finds; whose end was published |

`CheckLimit`, `Increment`, `SetExpiry`, `Backfill`, `Subscribed` are
`handleConnection`; `Close` (with `Detach`), `Unsubscribed`, `Release` are
`handleClose`. A socket that closes before `Subscribed` is heard by nobody:
fault `early`. That fault covers the client that leaves and also the closing
handshake after "Order not found", when it is over before SUBSCRIBE is
answered. `handleClose` is called by an event and nobody catches what it
throws, so a rejection in it ends the process (`Die`). The map `connections`
is written and never read and is left out. The ping and pong timers are in
Heartbeat; a reconnecting subscriber connection is not modelled.

### RateLimiter, Heartbeat, ApiTimers

| variable | in the code |
|---|---|
| `stored` | the members of `ratelimit:<ip>`: the age of the request and a number for the random part of its name; those that left the window have age `Window` until a request or EXPIRE drops them |
| `remaining`, `missed` | the last `X-RateLimit-Remaining`; whether the last answer came without it |
| `admitted`, `idle`, `verdict` | observed: the requests in the window that passed the check, ticks since the last request, the last verdict |
| `pongTimeout` | `PONG_TIMEOUT`, chosen at the start |
| `nextPing` | ticks until the ping interval fires |
| `timers`, `tracked` | the pong timers that run; the one noted in `pongTimeouts` |
| `unanswered`, `overdue`, `silence` | observed: pings not yet answered, whether one ran out of time, ticks since the last pong |

`Check` is one MULTI with the verdict on its count: Redis executes it at once,
and addresses have keys of their own, so one address is enough. Two members of
one tick differ in their numbers as two names do in `Math.random()`; once out
of the window they are no longer told apart, as nothing counts them there.
`FailOpen` is the catch block. `Ping`, `PongTimeout` are the callbacks of the
two timers, `HandlePong` the pong event, `ClearTimers` the timer part of
`handleClose`. A pong answers the oldest open ping, or none (a client may send
one unasked). A timer that is due fires before the clock goes on. The two parts
share the clock only; `ApiTimers` lets a tick pass in both.

### ProcessLifecycle

One process, `role` app or worker. `stage` is the await `start` is at,
`shutdown[s]` the await of the run of `shutdown` that signal `s` began; `http`,
`worker`, `queue`, `pool`, `redis` are what they open and close; `jobs` and
`requests` count work under way. `app.ts` listens for signals only once it is
up, so an earlier one kills it. `worker.ts` listens from the beginning, and an
earlier one (fault `early`) finds no worker to close. `worker.close` takes no
more jobs and waits for the active ones, and a second call waits for the first;
`pool.end` rejects the second time, which `disconnectDatabase` catches, so that
a second shutdown overtakes nothing but may exit first. With `early`, the start
goes on beside the shutdown.

### DexRouter

`seed` is the generator both simulators share, `call[c]` an attempt from
`getQuotes` to `checkSlippage`. Prices are counts of their last digit, so that
`toFixed(9)` is exact integer rounding (`Rounded`), and a random number is a
fraction with a small denominator. Both sleeps of a call are drawn when it
begins; the price of a venue is drawn when its sleep ends. Raydium's begins
first and ends first on a tie. Node reads the clock when it starts a timer, so
that meteora's sleep may count from the next millisecond, and raydium's may end
first also when it is one longer (`EndsFirst`). Sleeps of different calls
interleave freely. The
swap draws from `Math.random`, which no seed governs.

## 3. The runs

All cfgs but `Timers.cfg` set `CHECK_DEADLOCK FALSE`: once every order, request,
socket or process has been dealt with, the system stops.

| run | question | instance | distinct states |
|---|---|---|---|
| `execution_faults` | safety of executing one order, whatever fails | 1 order, 2 processes with 1 slot each, 2 venues, 2 attempts, 1 stall | 1 054 601 |
| `execution_settles` | does every job and every order end? | 2 orders, one oversized, 1 slot, 2 attempts | 209 853 |
| `confirmed_reopened` | is confirmed final? | as the first, 1 venue | violated |
| `failure_unrecorded` | does a failed job leave a terminal order? | as the first, 1 venue | violated |
| `submission` | what does an answer promise? | 3 requests, 2 in flight, 2 keys, 5 bodies (one missing, one invalid, one too large), threshold 0 | 2 499 800 |
| `duplicate_order` | does a repeated key create no new job? | 2 requests, 1 key | violated |
| `sessions` | counting, sharing, cleaning up | 3 sockets, 2 opening at a time, 2 orders (one unknown), 2 addresses, limit 1 | 633 463 |
| `missed_end` | does the client learn of the end? | 2 sockets, no fault | violated |
| `seat_leak` | are only extra connections refused? | 2 sockets, limit 1 | violated |
| `dex` | which price does a client get, what does a seed determine? | 2 calls, generator modulo 16 from every seed, sleeps of 4 lengths, prices of 970 to 1030 units, 3 tolerances | 96 082 |
| `lifecycle` | does shutdown close things in order, and end? | 2 signals, 2 jobs, 2 requests, both programs | 949 |
| `timers` | the limiter's window and the heartbeat, tick by tick | limit 2 in 3 ticks, 4 members; a ping every 2 ticks, pong timeouts 1, 2, 3, 5 | 202 566 |

**Why these bounds are enough.** Two attempts give a first one that is retried
and a last one; one stall gives a requeue and an over-stalled job; together
they allow three starts, so that up to three processors and swaps of one order
overlap in every order. Two processes are needed for a stalled processor
beside its successor. Orders share nothing but slots, which is why safety is
checked with one order and liveness with two that compete for one slot. Two
requests in flight are the smallest overlap, and the third comes after it and
finds what it left. A threshold of 0 puts the wait list at its limit with one
job. With a limit of 1 and two sockets opening, the counter is overshot; the
third socket shares the channel or meets what leaked. In `dex` the tolerances
are none, about one unit and about three, so that rounding decides some checks
and not others; four lengths of sleep give ties; the small generator stands for
9301 x + 49297 modulo 233280, whose products exceed TLC's integers. Two signals
are SIGTERM and SIGINT, and a second of the same kind does what the other does.
Four members are a full window and two refused requests; the pong timeouts are
shorter than, equal to and longer than the interval, the last with three timers
at once. `RequestSymmetry`,
`SessionSymmetry` and `DexSymmetry` permute constants the specifications treat
alike, in runs without liveness properties.

**Properties that hold.**

- `SwapBudget`: at most `MaxRetries + MaxStalledCount` starts of an order trade,
  each once. The bound is tight: the code does not promise that an order is
  traded only once, and it is not.
- `ConfirmedTrade`, `CompletedConfirmed`: what `confirmed` and a completed job
  stand for. With stalls the recorded venue can be that of another processor,
  which is why its last conjunct bars them.
- `NoPrematureNews`: a subscriber never hears of an end that the log of the row
  does not contain.
- `FailedMeansExhausted`, `FailedIsFinal`: the code's own count of attempts,
  from zero, agrees with BullMQ's.
- `SoleProcessor`: without lost locks, one processor per order and it holds the lock.
- `JobSettles`, `OrderSettles`: see fairness. The run lets processors die and
  lose their jobs, or Redis, the DEX and the tolerance fail, or the database;
  the first and the last together are too many states.
- `AnswerIsBacked`, `ConflictIsReal`: an answer 200 names an order of the same
  body that has a row and a job, a 409 is deserved, under every fault.
- `RefusalCreatesNothing`: what is refused before it is executed (429, the 503
  of an overloaded queue, 409, 400, 500), or answered with an earlier order,
  creates no row and no job. A 503 of the handler promises nothing: the order
  may be on its way.
- `OneJobPerKey`: of two jobs of a key that is repeated only after an answer, a
  failing Redis has made one be forgotten: the request passed without a note of
  its key, or was told 503 after its job was added. `NoOrphanRow`: a row
  without a job is about to get it, or its client was not told of success.
- `QueueOvershoot`: new jobs exceed the threshold by no more than the requests
  served at once.
- `ImplementsLifecycle`: the refinement above, under every fault.
- `CoverLostByExpiry`, `CounterExact`, `LimitOvershoot`, `CounterAges`: the
  counter covers its sessions until it expires under them, and nothing else
  ever takes it further below; without faults it is exact; a socket passes the
  check only while fewer sessions than the limit are counted, so that only
  sockets that overlap between check and INCR exceed it, by `MaxOpening - 1` at
  most; what leaks has a TTL.
- `ChannelKept`, `NoIdleChannel`, `NothingLeft`: sharing one subscriber
  connection is safe although `handleClose` counts, awaits, then forgets. It is
  so because both commands wait in one FIFO.

- `BestExecution`: a fill is as good as the best quote after fees, less the
  tolerance and half a unit. `SlippageFailsOnlyByRounding`: a swap that is
  refused missed the tolerance by half a unit at most. `SeededWhenAlone`: a
  seed determines the quotes of a call that no other overlaps (and only those),
  but for the venue that answers first when both sleeps may end together.
- `NothingBroken`, `CleanExit`, `ShutdownEnds`: no job or request finds a
  connection closed, exit 0 drops no work, every shutdown ends, with two at
  once. The first two bar `early`.
- `WindowLimit`: at most `RATE_LIMIT` requests pass the check in any window,
  also when Redis fails in between. `RefusalsEarned`: a refused client had no
  request left by its last header, or never got that header, and did not pause.
- `AnsweringKept`: for `PONG_TIMEOUT <= PING_INTERVAL`, as by default, a client
  that answers in time is never terminated. `SilentDropped`: for any setting a
  silent one is gone after an interval and a timeout.

**What the documents say and the code does not do** (the violated runs).

1. `ConfirmedIsFinal` (`docs/WEBSOCKET_GUIDE.md:95`). The PUBLISH of the
   confirmation is inside the `try` (`consumer.ts:46`): when it rejects, the
   confirmed order goes back to `routing`, trades again and can end `failed`.
2. `FailureIsRecorded` (`README.md:203`, `docs/WEBSOCKET_GUIDE.md:205`). A job
   that stalls more than once is failed by BullMQ; `failOrder` is never called.
3. `SameKeyNoNewJob` (`docs/architecture_diagram.md:125`). Overlapping requests
   with one key create an order each.
4. `EndReachesClient` (`docs/architecture_diagram.md:149`). The backfill is read
   before the SUBSCRIBE; an end between the two is never seen.
5. `OnlyExtrasRefused` (`docs/architecture_diagram.md:151`). A socket that closes
   while its session is set up keeps its seat until the counter expires.

Differences noticed while modelling that no run is spent on: "At most 3
concurrent WebSocket connections" per order and address
(`docs/architecture_diagram.md:151`) is exceeded, with no fault at all, by
connections that pass `checkConnectionLimit` before any of them is counted;
`LimitOvershoot` says by how many and that nothing else exceeds it before a
counter expires, which is not what the document promises; a request with a key
and no body is answered 500 and not 400; a signal that
reaches `worker.ts` during its start is not graceful
(`docs/architecture_diagram.md:138`; the fault `early`); one missed pong ends a
session, not two (`:147`); `MOCK_SEED` repeats nothing once orders are quoted
side by side, nor the order of two draws whose sleeps end in one millisecond
(`:166`); there is no job timeout or deadline (`:135`); the limiter
is a sliding window that counts refused requests, not a token bucket, and
`retryAfter` is always 0 (`:128`).

## 4. Fairness

`OrderExecution` and `ProcessLifecycle` have liveness properties. In
`OrderExecution`:

- `WF(SlotStep(w))`: an awaited call settles. A query is answered or its
  connection breaks (getting one times out after 5 s), Redis commands have a
  retry limit, quotes and swaps `withTimeout`.
- `WF(Promote(o))`, `WF(MoveStalled(o))`: BullMQ's backoff timers and its
  stalled check, which every running worker performs. A crashed process is
  restarted (`restart: unless-stopped` in `docker-compose.yml`).
- `SF(TakeJob)` for each order: the wait list is FIFO, so a waiting job is not
  passed over for ever, although the slots that could take it are busy in
  between. Weak fairness would not do: a slot taken by another order disables
  the action again and again.

Nothing is assumed of clients, of faults (they may recur for ever), of
`LateSwap` or of crashes. `JobSettles` needs no more: attempts and stalls are
bounded. `OrderSettles` bars `db` (a failing UPDATE in `failOrder`), `crash`
and `stall` (finding 2).

In `ProcessLifecycle`, `WF(FinishJob)` and `WF(Respond)`: the awaits of a job
or a request have limits, as above. `WF(Shutdown(s))`: what shutdown awaits
resolves once the work it waits for is over. Nothing is assumed of the start,
of signals or of faults. `ApiTimers` needs no fairness: its properties are about
time that has passed, and no tick passes over a timer that is due.

## 5. What is proved

Every safety and action property of the passing runs, and the refinement, is a
theorem: for every value of the constants that the module's assumption admits,
and for every set of faults. The assumptions ask for little: limits, intervals
and sizes are naturals, positive where zero would mean no slot, no attempt or
no time; the "no such thing" values are not things; `Scenarios` are sets of the
faults there are. Requests and sockets are finitely many, since sets of them
are counted; orders, processes and keys need not be.

    for m in *Proofs.tla; do tlapm $m; done

| module | theorem | states |
|---|---|---|
| `OrderExecutionProofs` | `StartsInvariance` | `[]StartsInv` |
| | `TypeCorrect` | `[]TypeOK` |
| | `JobsHaveRows` | `[]JobHasRow` |
| | `SwapsWithinBudget` | `[]SwapBudget` |
| `OrderExecutionSafetyProofs` | `Invariance` | `[]IInv` |
| | `OneProcessorAtATime` | `[]SoleProcessor` |
| | `NewsIsRecorded` | `[]NoPrematureNews` |
| | `FailedIsLastAttempt` | `[]FailedMeansExhausted` |
| | `ConfirmedHasTrade` | `[]ConfirmedTrade` |
| | `CompletedIsConfirmed` | `[]CompletedConfirmed` |
| | `FailedForGood` | `FailedIsFinal`, an action property |
| `OrderExecutionRefinementProofs` | `Implementation` | `ImplementsLifecycle`, the refinement |
| `OrderSubmissionProofs` | `Invariance`, `TypeCorrect` | `[]IInv`, `[]TypeOK` |
| | `AnswersAreBacked` | `[]AnswerIsBacked` |
| | `ConflictsAreReal` | `[]ConflictIsReal` |
| | `RefusalsCreateNothing` | `[]RefusalCreatesNothing` |
| | `KeysMakeOneJob` | `[]OneJobPerKey` |
| | `OvershootIsBounded` | `[]QueueOvershoot` |
| | `RowsAreProcessed` | `[]NoOrphanRow` |
| `WebSocketSessionsProofs` | `Invariance`, `TypeCorrect` | `[]IInv`, `[]TypeOK` |
| | `CountingIsExact` | `[]CounterExact` |
| | `OvershootIsBounded` | `LimitOvershoot`: an invariant and an action property |
| | `LeaksAge` | `[]CounterAges` |
| | `ListenersKeepChannel` | `[]ChannelKept` |
| | `ChannelsAreNoted` | `[]NoIdleChannel` |
| | `ClosedLeaveNothing` | `[]NothingLeft` |
| | `CoverOutlastsRaces` | `CoverLostByExpiry`, an action property |
| `ApiTimersProofs` | `HeartbeatInvariance`, `LimiterInvariance`, `TypeCorrect` | `[]HeartbeatInv`, `[]LimiterInv`, `[]TypeOK` |
| | `AnsweringClientsStay` | `[]AnsweringKept` |
| | `SilentClientsGo` | `[]SilentDropped` |
| | `WindowsAreLimited` | `[]WindowLimit` |
| | `RefusalsAreEarned` | `RefusalsEarned`, an action property |
| `ProcessLifecycleProofs` | `Invariance`, `TypeCorrect` | `[]IInv`, `[]TypeOK` |
| | `NothingIsBroken` | `[]NothingBroken` |
| | `ExitIsClean` | `[]CleanExit` |
| `DexRouterProofs` | `Invariance` | `[]IInv` |
| | `SeedRepeats` | `[]SeededWhenAlone` |
| | `FillsAreBest` | `[]BestExecution` |
| | `RefusedForRounding` | `[]SlippageFailsOnlyByRounding` |

Each rests on an inductive invariant that the module defines next to its
properties, part by part. TLC has checked these too, on the instances of
section 3: `execution_faults` has `IInv` among its properties, and the others
are checked by adding them to the cfg of their module.

**Execution, rows and starts.** `SwapBudget` counts swaps, yet nothing in the
state bounds them directly. `StartsInv` ties each to something that is bounded.
`Ledger`: `starts = made + stalls + (1 if active)`, and a job waits or runs only
within both limits, so there are at most `MaxRetries + MaxStalledCount` starts.
`RunsAreStarts`: a processor call has the number of a start, no two calls of
an order share one. `SwapsAreStarts`, `LateAreStarts`, `AsksOnce`: a swap, and
a swap that is late, has the number of the start that asked for it; a call
before its swap has asked for none, and a late swap has not executed. Hence
the starts that traded inject into `1..budget`. `RowThenJob` does for
`JobHasRow` what `submission` guarantees, and `DexChosen` is needed for types.
None is inductive alone: `AsksOnce` without `RunsAreStarts` is lost when
another call of the same number swaps, `RunsAreStarts` without `Ledger` when a
job is taken.

**Execution, safety.** `IInv` adds what row, channel and job say of each other.
Most of it is local to a call: `CallsKnow` says what a call must already have
done to be where it is (it has swapped before it confirms, logged an end before
it announces it, and is the last attempt if it fails its order), and this holds
also for a stalled call beside its successor. What a second writer can undo is
kept apart, in `CallsAlone` and `SoleProcessor`, under `Without({"stall"})`;
`FailedSettled` says why nobody writes after `failed`: the attempt was the last,
so the job has no call left but one past its end. The eleven steps of a call
have five effects between them (quiet, speaks, reopens, confirms, fails its
row); `EffectOf` shows that once and `LocalInv` what such a step has to answer
for, which is little, since it touches nothing of another order or call.

**The refinement.** One lemma per action shows the abstract step it is, or that
it changes nothing the mapping shows (`StutterMaps`). `IInv` supplies the
abstract guards: `AsksOnce` and `SwapsAreStarts` that an attempt trades once,
`CallsKnow` that it confirms by its own good swap and announces what was
recorded, `Ledger` that there are attempts left, `RunsAreStarts` that a stalled
processor and its successor are two.

**Submission.** `Sequenced` ties how far a request has come to what it has
created, `EntriesBacked` what a key names to a job of that key and body; from
the two every answer is backed, under every fault, overlap included.
`OneJobPerKey` needs `KeysHeld`, which holds only under its own premise: one
request per key in flight, a key's job stored under it before the next is read
unless Redis made it be forgotten (`Forgotten`), and nothing stored under the
key of a request that has a note of it. `QueueOvershoot` is inductive only
because it counts the requests between check and add together with the new
jobs; an add then moves one from one side to the other.

**Sessions.** `ChannelKept` is the hard one. When `handleClose` counts one
subscriber it calls UNSUBSCRIBE, and by the time that is executed others may
have noted the channel. `SubscribeFollows`: each of those has its SUBSCRIBE
behind it in the queue; `Awaited`: a session has one command at most, so that
it is not `ready` while its SUBSCRIBE waits. Together a session that listens
cannot be cut off. `Covered` says when a counter covers its sessions;
`CounterExact` and `SeatsBounded` follow step by step from the effect on one
address (`CounterStep`); `Covered` also says that a count below the limit means
fewer sessions than the limit, the other half of `LimitOvershoot`; and
`CoverLostByExpiry` is the same fact about any two states.

**Limiter and heartbeat.** A member of the window that passed the check is in
the set (`AdmittedStored`), so that the count that lets a request pass bounds
them all. `HeaderKept`: the set holds no more than the last header told, and
time only takes from it; `PausedSince`: nobody in the set is younger than the
silence. `TimersAnswered`: while the client answers in time and before the next
ping, the one timer that runs is the one that is noted. `SilenceTimed`: with
whatever timers, some ping or some timer that no pong has cleared comes in time.

**Lifecycle.** `ClosedInOrder` and `ClosedIsIdle`: a run of shutdown that is
past a step has closed what the step closes, and what is closed has no work.
`StartedFirst` is what a signal during the start of `worker.ts` breaks.

**DEX router.** `DrawsInOrder` follows a call that is quoted alone through its
four draws, the last two in an order its sleeps allow. The rest is arithmetic:
`ExecutedWithin` bounds a rounded price from below, and the choice of the venue
does the rest.

*Model-checked only.* `JobSettles`, `OrderSettles` and `ShutdownEnds`: liveness
under fairness is beyond the prover. The five violated runs show what does not
hold and have nothing to prove. `TLC` also checks what a proof takes for
granted: that the assumptions hold of some constants, and that the definitions
mean what they should.

## 6. What is not modelled, and the plan

Not modelled for good: logging, metrics, configuration, `/health` (nothing in
the program reads what they keep), `getOrder` (reads only), what the migration
creates (it runs before any request), prices and amounts in an order's row
beyond "fits the column", `Retry-After`.

Not modelled so far: the sessions' clean-up during shutdown (`handleClose` is
not awaited and may find Redis closed), and a subscriber connection that
reconnects.

Next:

1. Where a proof repeats an argument of another module (a set of sizes moved by
   one element, a record that is rewritten), one lemma for both.
2. A joint model of shutdown and sessions: what a `handleClose` that is not
   awaited leaves in Redis.
3. The theorems about what the code lacks, for the fixes a team may choose: with
   the PUBLISH of the confirmation outside the `try`, `ConfirmedIsFinal`; with
   the SUBSCRIBE before the SELECT, `EndReachesClient`; with the key claimed
   before the order is created, `SameKeyNoNewJob`.
