# Krystaline in TLA+

Krystaline is a demonstration crypto exchange: a Node.js server (`server/`), an
order matcher behind RabbitMQ (`payment-processor/`), PostgreSQL, price feeds,
and an observability stack that watches all of it. This project models the part
that moves money and decides at which price (wallets, market orders, limit
orders, the request to the matcher, the circuit breaker around it, the price
feed), the part that decides whose money it is (registration, sessions, the
second factor), what the requests share (the connection pool and the wallet
cache), and the stateful part of the monitor (the queue in front of the language
model and the page it feeds, the baselines, the chaos controller). TLC checks
the models on small instances; TLAPS proves every safety property of the runs for
instances of every size.

Contents: [the system](#the-system) · [modules](#modules) ·
[runs and bounds](#runs-and-bounds) · [fairness](#fairness) ·
[proofs](#proofs) · [what the models found](#what-the-models-found) ·
[what is left out](#what-is-left-out) · [what could come next](#what-could-come-next) · [running it](#running-it)

## The system

Everything in a server process runs on one thread and gives way only at an
`await`, a timer or a callback. Several requests are in progress at once, several
replicas share one database and one broker, and each of them may die at any time.
The models therefore have one action per piece of code between two such points.

| Component | State it keeps | Operations | Talks to |
|---|---|---|---|
| Wallet service (`server/wallet/wallet-service.ts`) | `wallets` rows: balance, available, locked | transfer, credit, debit, lockFunds, unlockFunds, updateBalance, createDefaultWallets, getWallets | database transactions, Redis cache |
| Trade service (`server/trade/trade-service.ts`) | `orders` rows of type limit and convert | executeConvert, placeLimitOrder, cancelOrder | wallet service, prices |
| Order service (`server/core/order-service.ts`) | `orders` rows of type market | submitOrder with updateUserWallet, processTransfer | wallet service, PostgreSQL storage (transfers), RabbitMQ client, prices, proofs |
| RabbitMQ client (`server/services/rabbitmq-client.ts`) | connection, `pendingResponses`, timers, reply queue | connect, startConsumer, publishOrderAndWait, handleMessage, disconnect | broker, circuit breaker |
| Order matcher (`payment-processor/index.ts`) | none but the unacknowledged messages | one consumer: match, reply, ack or nack | broker |
| Circuit breaker (`server/lib/circuit-breaker.ts`) | state, failures, successes, lastFailureTime | execute, onSuccess, onFailure, reset | the function it protects |
| Price feed manager and its two providers (`price-feed-manager.ts`, `binance-feed.ts`, `coingecko-feed.ts`) | tick times, escalation stage, sockets, timers | start, stop, reconnect, health check, watchdog, poll | price service, liveness probe |
| Price service (`price-service.ts`) | cache per symbol, connection status | updatePrice, getPrice, setConnected | orders, conversions |
| Registration and sessions (`server/auth/`, `server/api/auth-routes.ts`) | `users`, `verification_codes`, `sessions`; access tokens outside | register, resend, verifyEmail, login, refreshToken, logout, revoke, clearAllSessions | wallet service, e-mail |
| Two-factor authentication (`server/api/2fa-routes.ts`) | flag, secret and backup codes in the `users` row | setup, verify, disable, backup-codes, verify-backup, login-verify | sessions |
| Database pool (`server/db/index.ts`) and shutdown (`server/index.ts`) | connections handed out, waiting requests | query, transaction, end | PostgreSQL, every service |
| Wallet cache (`server/lib/redis.ts`) | `wallet:<user>` for ten seconds | cacheGet, cacheSet, cacheDel | getWallets and the writers of wallets |
| Stream analyzer (`server/monitor/stream-analyzer.ts`) | buffer, batch timer, busy flag | enqueue, processBatch | anomaly detector, language model, monitor feed |
| Monitor feed (`server/monitor/ws-server.ts`, `client/src/pages/monitor.tsx`) | open sockets; what the page shows | broadcast; connect, reconnect, receive, leave | stream analyzer, `POST /api/monitor/analyze` |
| Baseline calculator (`baseline-calculator.ts`, `history-store.ts`, `routes.ts`) | watermarks, `time_baselines`, `span_baselines` | recalculate, merge, reset | Jaeger |
| Chaos controller and trace profiler (`chaos-controller.ts`, `middleware/chaos.ts`, `trace-profiler.ts`) | what runs, two timers, the frozen flag, baselines | start, stop, escalate, expire; collect | every request, Jaeger |
| Proofs, transparency, health, gateway, MCP servers, Bayesian service, the rest of the client | caches and reports | read and report | all of the above |

What is hard, and what makes each component correct:

* **Wallets.** Concurrent transactions over the same rows in opposite orders, a
  check and a debit in different statements, lost connections and answers. Correct means: a
  balance is the available plus the locked part, nothing is lost or applied by
  half, and transactions that deadlock all end.
* **Market orders.** A settlement is two absolute UPDATEs outside any
  transaction, computed from an unlocked read, between two status updates, with
  a remote call in the middle. Correct means: what the caller is told, what the
  record says and what the balances say agree.
* **Limit orders.** Check, lock and insert are three statements, and the one
  that locks may silently do nothing. Correct means: open orders are backed.
* **The matcher request.** Timeouts race with answers, orders are redelivered
  and answered twice, replicas and connections come and go. Correct means: a call
  is answered at most once, with a run of its own order, and always ends.
* **The breaker.** Results of calls admitted in one state are counted in another.
  Correct means: counters agree with the state, and a breaker closes again.
* **The price feed.** Five kinds of timers and sockets that outlive the reference
  to them. Correct means: every stage of the ladder acts, the primary is never
  abandoned, and prices come back.

* **Accounts.** A verification is two transactions after an unlocked check, and
  every two-factor route writes back columns it read before an `await`. Correct
  means: one welcome per account, nobody signed in without wallets, and the factor
  asked for at login is the one the user proved to have.
* **Pool and cache.** Transactions that hold a connection ask for a second one;
  readers fill a cache that writers empty, in any order. Correct means: every request
  ends, no connection is lost, and a cached wallet is the committed one but for
  races that can be named.
* **The live analysis.** A busy flag, a timer field that loses timers, a socket that
  comes and goes, and analyses on demand beside the batches. Correct means: no anomaly
  waits for ever, and the page shows an analysis that runs.
* **Baselines.** Watermarks move before rows are stored, several services share one
  maximum, fetches fail. Correct means: each trace is counted once for each time it
  was read, and none is skipped.
* **Chaos.** Starts and stops over each other's timers, collections that look at the
  frozen flag and then wait. Correct means: chaos ends, and does not become the
  baseline it is measured against.

`PROJECT.json` lists each such hazard at its line, with the properties that
watch it or the reason none does.

## Modules

A definition keeps the code's name where it has one. A definition called
`Name_something`, marked as a mutant, is a plausible bug put in the place of
`Name`: each property is shown to fail for one of them.

**`WalletRows`**: a row of the `wallets` table and what each UPDATE statement does
to it (`Credited`, `Debited`, `FundsLocked`, `FundsUnlocked`, `Overwritten`), with
the table's CHECK constraints (`Legal`). Shared by the three wallet models.
Amounts are whole units, since the database's DECIMAL arithmetic is exact.

**`WalletLedger`** implements **`Ledger`**. `WalletLedger` runs transfer, credit,
debit, lockFunds, unlockFunds and executeConvert through `db.transaction`, one
action per statement: `Begin`, `ConvertCheck` (which reads on another connection,
without a lock), `LockFrom` and `LockTo` (`SELECT ... FOR UPDATE` or UPDATE),
`Commit`. PostgreSQL's row locks make uncommitted changes invisible and
unchangeable, so they are applied at COMMIT; its deadlock detector aborts a
transaction on a cycle (`DeadlockVictim`), and a lost connection rolls back
(`ConnectionLost`). A COMMIT or an UPDATE that took effect may be reported as failed
(`Commit` and the two lock statements end in either way), so `Applied` is what counts
towards the rows, whatever the caller was told. The routes' operations are one record each: what is taken
from one wallet and what is put into another. `Ledger` is the promise: each
operation happens at once, against a row that affords it.

**`OrderService`** is submitOrder and processTransfer by concurrent calls, with
one action per awaited statement, a failing query at every await (`QueryFails`,
`TransferQueryFails`), a write that took effect although its answer is lost (`AnswerLost`,
`MoveFunds`) and the death of the process (`Crash`). Storage is PostgreSQL, which the
server starts with: there `createTransfer` finds no user and writes nothing for a
transfer between user ids, and `updateTransfer` is always an error (`UpdateTransfer`).
The price an order is made with is any of `Prices`, since `getPrice` falls back on a
default. The matcher request is one step, fill or failure,
and walletService.transfer is one step: `MatcherRpc` and `WalletLedger` are the
models that justify each. Fills differ from the quote by a slippage, against the
user as in the matcher. Three history variables record which legs were written
(`moved`), which transfers paid (`paid`) and where a stale write buried another
(`lost`); only properties read them.

**`LimitOrders`** is placeLimitOrder and cancelOrder on one wallet beside
withdrawals, statement by statement, with failures in between. `raced` is a
history variable that says which of the three ways to spoil the books happened.

**`MatcherRpc`** implements **`AnsweredOnce`**. Instances (server processes; a
restart is another instance) connect, consume, lose connections, disconnect and
crash; calls publish, meet a full buffer or a closed channel, time out or resolve;
the broker loses, delivers and redelivers; the matcher replies, acknowledges, fails
or crashes. A reply is named by the run that computed it, since each run draws its
own price. `AnsweredOnce` is the promise to the caller: one outcome, which never
changes.

**`CircuitBreaker`** has callers suspended inside the protected function, so that
results are counted in whatever state the breaker has by then. Counters are kept
up to what the code compares them with.

**`PriceFeed`** is the manager, both providers and the connection status. Time runs
in units of the health check's five seconds; a one-second delay ends in the unit it
began in; every other timer and all socket events come at any time. Sockets the
feed dropped but that still live are counted (`orphans`): their `close` and their
messages still reach the handlers, as in the code.

**`Registration`** is the account of one e-mail address, one action per statement,
with any number of requests in progress that may die between two (`RequestDies`).
Codes and sessions are numbered slots that are used again once nobody knows them.
An access token is a stateless proof: `access` says that a token is in use which some
replica accepts, whatever became of its session. `verifyToken` looks at nothing but the
signature and the time, so the token a login hands out before the second factor
(`PendingLogin`) and a refresh token are as good as an access token. `Bypass` is the
code 000000 that a build outside production takes from test addresses. **`TwoFactor`** is the second factor
on the same row: each route reads (`Read`) and later writes, and the history
variable `stale` says that one wrote after what it had read was changed. **`Accounts`**
composes them: login opens a session when the factor is off, login-verify when it
is on and has a secret, and the two-factor routes want any token.

**`StreamAnalyzer`** is the queue. `batchTimer` is one field, but the end of a batch
overwrites it without clearing it and a timer that fires in vain stays in it, so
armed timers that the field no longer holds are counted (`strays`). **`MonitorFeed`**
is the broadcast socket and one browser's page: each visit starts a connection that
reconnects three seconds after it closes, also when it closes because the page
was left. **`Analysis`** composes them: starting, streaming and ending a batch each
broadcast in the same step, and so do the starts and ends of `POST /api/monitor/analyze`
(`AskStarts`, `AskEnds`), which run beside the batches and beside one another.

**`Recalculation`** is the baseline calculator of one replica over Jaeger, one action
per query. A baseline is an average weighted by its samples, so a row is modelled by
how often it counts each trace; the merge adds (`Merged`). Histories record what was
gathered since the tables were last emptied, and by which of the code's gaps a trace
may be missing.

**`ChaosController`** is the controller, the middleware that injects delays and the
profiler. Starts are numbered and an armed timer carries the number of the start that
armed it, so that a timer of an earlier start is told from the current one.

**`ConnectionPool`** and **`WalletCache`** are shared by **`WalletRequests`**: requests
about one user's wallets (a read, a transaction, a transaction that needs a second
connection, a conversion, the creation of the wallets, a single statement) with a change of the rows as a new
version number. The amounts are in `WalletLedger`; here it is the order of change,
deletion of the cached rows and release of the connection that counts.

Each `MCX` holds the values TLC needs. `X_proofs` holds the theorems about `X`, except
that three modules are about several neighbours: `MatcherClient_proofs` about MatcherRpc
and CircuitBreaker, `WalletService_proofs` about LimitOrders and WalletRequests,
`Monitor_proofs` about Recalculation, ChaosController and Analysis. `Sums` proves what
they need of a sum over a finite set.

## Runs and bounds

| Run | Properties | What it shows |
|---|---|---|
| `breaker` | CountersMatchState, Recovers | late results never leave counters and state at odds, and the breaker closes for good once the service is back |
| `wallets` | RowsCoherent, ChecksStayTrue, Accounting, ImplementsLedger, EveryRequestEnds | transactions are atomic, lose nothing, and all end in spite of opposite lock orders |
| `orders` | TypeOK, AnswerAgreesWithRecord, FilledHasBothLegs, OnlyStaleWritesLose, LockedUnlessSettled, FinalStatus, OrdersSettle | answers, records and balances agree except where a settlement overwrote a change; only settlements make locked funds spendable; orders settle unless the process died, the rejection could not be stored or the answer to the INSERT was lost |
| `rpc` | PendingAreWaiting, AnswersComeFromRuns, EveryCallEnds, RepliesAreConsumed, ImplementsAnsweredOnce | one outcome per call, no leaked entry or timer, no pile of late replies |
| `limit_orders` | BackedUnlessRaced | what is locked is what open orders need, but for three named ways to spoil it |
| `price_feed` | StageFollowsAge, EveryStageActs, PrimaryNeverAbandoned, PricesResume | the ladder, the watchdog and overlapping reconnects do what they are for |
| `accounts` | TypeOK, SignedInHasWallets, WelcomedOnce, FactorIsTheProvenOne | races over codes end in one welcome; whoever is signed in has wallets unless a verification died half way; the factor is the proven one unless a route wrote over a change |
| `wallet_requests` | RequestsTypeOK, FreshUnlessRaced, EveryRequestEnds | connections are conserved, all requests end although transactions wait for each other's connections, cached wallets are old only for six recorded causes |
| `analysis` | AnalysisTypeOK, PageShowsTheAnalysis, EveryAnomalyIsHandled | no accepted anomaly is stuck behind a lost timer; a page that missed nothing shows only what is analysed, and nothing only when nothing is or one analysis ended beside another |
| `baselines` | NothingSkipped, TablesCountWhatWasGathered | watermarks skip nothing, and both tables count what was gathered, but for the named gaps |
| `chaos` | FrozenWhileScenarioRuns, OnlyStragglersChangeFrozen, ChaosEnds | timers of earlier starts have no effect; baselines are frozen exactly during scenarios, save for collections begun before; chaos ends |
| `price_feed_failover` | SecondaryComesBack (violated) | failing over stops the secondary |

The instances, and why they are large enough for what can happen:

* `breaker`: three callers, the client's thresholds (3 failures, 2 successes;
  `rabbitmq-client.ts:58`), a timeout of two ticks. Three callers suffice to
  have one call in flight from each state. 749 states.
* `wallets`: three requests on two wallets that cannot afford all of them, amounts
  of 1, conversions that put 2. Two transactions make a cycle of locks and the third
  interferes with their end. 417 thousand states.
* `orders`: two orders and one transfer of two users, where a fill above the quote
  exceeds the opening balance and half of each user's BTC is locked by limit orders.
  Two settlements of one user, or a settlement beside a transfer, are the pairs that
  can interfere. Users and orders are interchangeable, so one user is named the sender,
  who places an order too (`MCInit`); a sender without orders is left out. 925
  thousand states.
* `rpc`: two replicas, two calls, each order run up to twice (`MaxDeliveries`): a
  duplicate and a late reply of the same call, beside another replica's. 331
  thousand states.
* `limit_orders`: three orders and three cancels with amounts 1 and 2 from 3. Two
  overlapping cancels need a third order whose lock they release. Orders and
  cancels are symmetric; this run has no liveness property. 283 thousand states.
* `price_feed`: the code's thresholds of 15, 30, 45 and 60 s, its cooldown of 10 s
  and its 45 s staleness, in units of 5 s. At most two dropped sockets are counted
  and two reconnects overlap (`MaxOrphans`, `MaxRestarts`): one is what the code
  expects, two is the race. 292 thousand states.
* `accounts`: two requests and two two-factor calls, at most two of the four in
  progress at a time (`InFlight`), two codes and sessions, three secrets and batches of
  backup codes (one in the row and one in each call). Every race here is between
  two requests. After a stale write the factor's properties say nothing, so the
  run stops there (`NothingOverwritten`). The test bypass is on (`Bypass`), which
  allows more than production does. 466 thousand states.
* `wallet_requests`: two connections and two transactions that each need both, the
  least that can wait for each other, beside the creation of the wallets, a reader and
  a single statement that race over the cache. 283 thousand states.
* `analysis`: four anomalies, batches and a queue of two: a full batch, one that fills
  up during it, and one that is dropped. Two requests on demand, which may be made again:
  two analyses and a batch begin and end in every order, and one request names an anomaly
  a batch may hold. Anomalies are interchangeable but for that one, so they are detected
  in a fixed order (`InOrder`). One visit that is left; one message on the wire, since the
  socket keeps their order and the property is about a page that has read them all.
  364 thousand states.
* `baselines`: two services, three traces of which two begin together and two belong
  to both services, fetches of at most two (`Limit`), two calculations (`MaxRuns`) with
  a reset anywhere: a boundary trace is read twice, a fetch is cut, one service gets
  the other's watermark. 1.9 million states.
* `chaos`: three starts, so that a timer of the first could still fire at the third; two
  overlapping collections of two fetches. 446 thousand states.

Deadlock is checked in `breaker`, `price_feed`, `price_feed_failover`, `accounts`,
`baselines` and `chaos`. The requests, orders, calls and anomalies of the other
models are finitely many and end.

## Fairness

* Statements of a request (`WF` on each call's steps in `WalletLedger` and
  `OrderService`): an awaited query returns or fails, and the database grants free
  locks and breaks deadlocks. Requests need not start; nothing need fail.
* Timers fire: `Timeout` in `MatcherRpc`; the health check, watchdog, retry and
  restart timers in `PriceFeed`; the clock in `CircuitBreaker`.
* The broker delivers replies to a consumer, and `index.ts` connects and then starts
  the consumer. Nothing is assumed of the matcher: `EveryCallEnds` holds without it.
* In `CircuitBreaker` a call in flight ends (it has a timer of its own) and callers
  keep calling; that the service recovers is the property's premise.
* In `PriceFeed` a handshake with a reachable exchange succeeds and an open socket
  delivers a ticker, both strongly fair, since watchdog and reconnects may replace
  sockets again and again. Nothing is assumed of CoinGecko, administrators or
  Kubernetes, so `PricesResume` does not rest on a pod restart.
* `WalletRequests`: each request's next step and its pool timeout are weakly fair,
  and so is the exit after a shutdown. Nobody is assumed to release a connection
  early: a request that waits for one ends by the pool's timeout.
* `Analysis`: an armed timer fires and a request to the language model ends, both
  strongly fair since other events come in between; open sockets deliver. The code
  sets no timeout on the request, so a hang there is outside `EveryAnomalyIsHandled`.
* `ChaosController`: the clock moves on and the expiry timer fires; requests, which end
  chaos sooner, need not come. `Accounts` and `Recalculation` have no liveness
  property: a request or a calculation that dies is simply not resumed.

## Proofs

All theorems follow one plan: an invariant `IInv` with `Init => IInv`,
`IInv /\ [Next]_vars => IInv'` (one step per action) and `IInv =>` each property.

| Module | Theorems | What had to be added to make it inductive |
|---|---|---|
| `WalletLedger_proofs` | TypeCorrect, RowsStayCoherent, ChecksHoldAtCommit, TransactionsAreAtomic | the checks themselves: COMMIT debits without looking, and rows stay non-negative only because the lock kept the checked balance true (`ChecksStayTrue`); one-row operations name their row twice |
| | AccountsBalance | an operation that locks or unlocks funds is one statement, which is committed as soon as it is there (`LocksAreOneStatement`); a commit adds one term to the sum, also when its answer is lost |
| `OrderService_proofs` | TypeCorrect, LockedFundsAreKept, AnswersAgree, FilledOrdersSettled, StatusIsFinal | how far a call is tells which legs were written and what its record can say, a fill taken for a failure included (`OrderProgress`, `TransferProgress`); rows stay legal because what is available is at most the balance, which needs LockedUnlessSettled (`LockedInv`) |
| | BooksBalance | the USD leg is written after the BTC leg and by nobody else, so each adds one term that was not in the sum (`LegsInOrder`) |
| `WalletService_proofs` | TypeCorrect | the row is coherent: balance = available + locked |
| | OpenOrdersAreBacked | a recorded order has been placed, so its amount is locked once (`RecordedWasPlaced`); while nothing raced, a cancel that has found its order is the only one that has, and the order is still open (`CancelsAreAlone`) |
| | RequestsTypeCorrect, CacheIsFreshUnlessRaced | how many connections belong to the place a request has reached (`Placed`), with the sum of them over the requests; whoever is in the queue waits and is there once; an entry filled between a transaction's deletion and its commit is on record before the commit makes it old (`RowsInv`) |
| `MatcherClient_proofs` | TypeCorrect, PendingCorrect, AnswersCorrect, RequestsAreAnsweredOnce | an order at the matcher has been run (`Started`); the refinement needs that only waiting calls have entries or timers |
| | BreakerTypeCorrect, CountersCorrect | nothing: the two imply each other's steps |
| `PriceFeed_proofs` | TypeCorrect, StageCorrect, LadderActs, PrimaryIsKept | where the age, the stage and the time since the last action stand to each other between two checks: a check meets at most one new threshold, and by then the cooldown is over |
| `Accounts_proofs` | TypeCorrect, OneWelcome, SignedInUsersHaveWallets, FactorSound | the wallets exist before any welcome, so only one request can be on its way to it (`WelcomeInv`); whoever holds a session, or is about to, is verified (`VerifiedInv`); what a waiting two-factor route has read is what its guard saw, and no accepted backup code is still in the row (`ReadInv`) |
| `Monitor_proofs` | TypeCorrect, Accounting, Watermarks | in the middle of a merge a row counts what was gathered or lacks exactly this calculation's share, and the rows still to be written are as they were read; the time a fetch starts from, and the maximum so far, cover the service like its watermark |
| | FrozenExactly, OnlyStragglers | every collection under way began before the scenario that froze the baselines was started (`Stragglers`); the timers follow from the property itself |
| | WaitingIsWatched, PageIsRight | `batchTimer` is set only while something waits, and spent only while a batch runs (`TimerInv`); the last message on the wire that starts or ends an analysis agrees with what is running, and a page that is not connected shows nothing or has missed something (`Shows`) |

`Sums` proves, for the folds of the community modules, that a sum over a finite set
unfolds at any of its elements, changes by what one term changes, and is at least
each of its natural terms. Induction is over the set of numbers for which a claim holds
(`Induction`, from the well-foundedness of `<`), so no theorem with an operator as a
parameter is needed.

The theorems hold for any number of callers, requests, wallets, orders, replicas
and redeliveries, accounts' requests, codes and secrets, services, traces and
limits, and any amounts. They rest on the named assumptions of the
modules and on no others: amounts are positive naturals and the opening rows are
coherent (`LedgerAssumption`, `OrderAssumption`, `LimitAssumption`), thresholds are
positive (`ThresholdsAssumption`), `MaxDeliveries` is a natural
(`DeliveryAssumption`), requests, orders and transfers are finitely many (`PoolAssumption`
and the three above; a sum over an infinite set means nothing), the queue and
a batch hold at least one anomaly (`QueueAssumption`), the bounds of the feed and of the
chaos model are naturals (`WireAssumption`, `ChaosAssumption`), requests are of the kinds
the service has (`KindAssumption`), a null code or secret is no code or secret
(`NoCodeAssumption`, `NoSecretAssumption`), traces have a start and a service (`TracesAssumption`,
`ServicesAssumption`, `RunsAssumption`), and the stages of the ladder are further
apart than its cooldown (`FeedAssumption`; in the code 15 s against 10 s). The last one is what
`LadderActs` is about: with closer stages an action would be skipped for good.

Every invariant, action property and refinement a run checks is proved. Only
model-checked: everything under fairness (Recovers, EveryRequestEnds, OrdersSettle,
EveryCallEnds, RepliesAreConsumed, PricesResume, EveryAnomalyIsHandled, ChaosEnds), which
the prover does not cover. The violation of SecondaryComesBack is a counterexample TLC
finds.

## What the models found

One disagreement between the code and what the repository says of it is a run:

* **Failing over stops the secondary provider** (`coingecko-feed.ts:70`): its
  restart asks for a callback its own `stop()` erased (`price_feed_failover`).

The others are the exceptions the passing properties had to be given, each of them
recorded by a history variable of its model:

* **A settlement overwrites concurrent changes** (`order-service.ts:469`, `lost` in
  OrderService). It writes absolute balances computed from an unlocked read. The
  comment at line 412 describes this very defect as repaired for transfers.
* **A rejected order may keep one leg** (`order-service.ts:469`, `moved`). The two legs
  are two statements; a fill above the quote passes the first and breaks the table's
  constraint in the second.
* **A paid transfer is answered FAILED** (`order-service.ts:418`, `UpdateTransfer` in
  OrderService): with the PostgreSQL storage `updateTransfer` compares a UUID column with
  an id `TXN-...`, after the funds have moved, and the catch at line 437 answers. The test
  of `updateTransfer` (`tests/db/postgres-storage.test.ts:497`) mocks the pool, which takes
  any id. Hence AnswerAgreesWithRecord speaks of orders only; the transfers' money is in
  OnlyStaleWritesLose (`paid`).
* **A lost answer is taken for a failure** (`db/index.ts:63`, `db/index.ts:86`). An order
  whose INSERT was committed is refused and stays pending (the exception `refused` of
  OrdersSettle); a filled order is turned to cancelled, both legs written (`AnswerLost`);
  a wallet operation that took effect is reported as failed (`Applied` in WalletLedger).
* **Open limit orders need not be backed** (`trade-service.ts:205`, `raced` in
  LimitOrders): `lockFunds` updates no row and reports nothing when the funds are
  gone. Two cancels of one order both unlock its amount (line 248).
* **RabbitMQ is never reconnected** (`rabbitmq-client.ts:69`), and `isConnected`
  keeps saying yes, against `docs/operations/05_PRODUCTION_READINESS_ASSESSMENT.md:173`.
* **A verification that dies between its transactions** (`auth-service.ts:170`, `cut`
  in Registration) leaves a verified user without wallets and without a way to get
  them: the code is used up and a new one is only sent to pending users.
* **Two-factor routes write over each other** (`2fa-routes.ts:427`, `stale` in
  TwoFactor): two requests with two backup codes put one of the codes back, and
  verify beside disable can leave the factor on without a secret.
* **The cached wallets can be old** for up to ten seconds (`cause` in WalletCache):
  filled from rows read before a commit, filled between the deletion and COMMIT
  (`wallet-service.ts:336`), a deletion Redis did not get or the process did not live to
  send, a statement whose answer was lost and which throws before its deletion (line 356),
  or a conversion or the creation of the wallets (line 95), which delete nothing.
* **An incremental calculation can lose traces** (`baseline-calculator.ts`): a service
  whose fetch failed is given the watermark of the services before it (line 344), a
  fetch is cut at 5000 traces (line 78), and watermarks move before the rows are
  stored (line 345; `misread`, `cutOff`, `dropped` in Recalculation). It also counts
  traces more than once: the start of a fetch is inclusive, a trace is read once for
  each of its services, and a full recalculation clears the watermarks but not
  the tables it adds to.
* **Frozen baselines still change** (`trace-profiler.ts:98`): a collection that looked
  at the flag before the scenario began writes its result during it, spans of the
  chaos included.
* **The page can show an analysis that is over** (`monitor.tsx:884`, `missed` in
  MonitorFeed) until the next one starts or ends. Its reconnect timer also survives
  the page, which then keeps a connection nobody looks at.
* **Analyses silence one another** (`monitor/routes.ts:145`, `silenced` in Analysis):
  the page takes the end of any analysis for the end of the one it shows, and a batch and
  an analysis on demand, or two of these, overlap.
* **A token before the second factor is a token** (`auth-service.ts:293`, `PendingLogin`
  in Accounts): `authenticate` accepts the five-minute token of a login that still waits
  for its code, and seven-day refresh tokens, whatever became of their session.
* **A settlement frees locked funds** (`wallet-service.ts:590`): it makes the whole
  balance available, what open limit orders have locked included (the exception of
  LockedUnlessSettled).

Seen on the way and not modelled: an order without a fresh price goes through at
30000 (`order-service.ts:27`), so that the refusal at line 130 is never reached; the connection status stays down when the same
provider resumes (`price-feed-manager.ts:196`); a Binance restart cannot be cancelled
by `stop()` (`binance-feed.ts:91`); resend-verification wants a token that a pending
user cannot have (`server/api/auth-routes.ts:216`); forgot-password stores a token of
64 characters in a column of six (`db/init.sql:31`), so that it always fails;
revoke-all compares with a header no client sends (`server/api/auth-routes.ts:323`)
and deletes nothing; the Redis client stops reconnecting after five attempts
(`server/lib/redis.ts`); resolved alerts are promised at
`server/monitor/alertmanager-notifier.ts:13` and never sent; custom chaos does not
freeze the baselines; a trace first seen incomplete is never looked at again
(`anomaly-detector.ts`).

## What is left out

* In the modelled files: logging, metrics, tracing, address generation, the
  `transactions` audit table, reads that change nothing, and in OrderService the
  branches for users without wallets (registration creates all five). One symbol is
  traded. Floating-point rounding is not modelled.
* A query that took effect but whose answer was lost is modelled where money or the
  cache depends on it (OrderService, WalletLedger, WalletRequests), not in LimitOrders,
  Registration, TwoFactor and Recalculation, where a statement that fails did nothing.
* The in-memory storage, which serves tests and a server that is told to do without
  PostgreSQL: there transfers are records of the process.
* The health check is assumed to run once in every five seconds. A process that
  stalls for longer may skip a stage: that is outside `EveryStageActs`.
* In `Registration`: changing and resetting the password, the profile, mail delivery.
  In `TwoFactor` a TOTP code is right when it is of the secret in the row; codes that
  are wrong change nothing.
* In `MonitorFeed`: the P0 alerts and heartbeats on the same socket. In `Recalculation`:
  the averages and thresholds themselves, and a second replica, which would have
  timers and a busy flag of its own over the same tables.
* In `ChaosController`: which routes are targets, which faults they get, and what is
  computed from the spans. In `WalletRequests`: other users' requests, which differ
  only in the row they lock.
* Statistics (anomaly scores, Bayesian inference), proofs from the zero-knowledge
  library, read-only reports, the rest of the web client, deployment and tooling
  have no protocol of their own for TLA+ to check. Auto-remediation has one effect,
  `priceFeedManager.reconnect`, which is an action of PriceFeed. Most of the
  repository's lines are of this kind, so the map covers the stateful core and
  not the whole. Each part is listed in `PROJECT.json` with its reason.

## What could come next

1. OrderService with LimitOrders on one row: a cancel after a settlement that freed
   what it unlocks. OrderService over MatcherRpc and the breaker: the timed-out order
   that the matcher fills.
2. Prices per symbol with the cache's expiry: one symbol that stops behind another
   that ticks.
3. Proofs: the parts of the liveness properties that are safety, such as what each step
   towards the end of a request leaves true.

## Running it

    tlc -workers 2 -config MCWalletLedger.cfg MCWalletLedger
    tlapm WalletLedger_proofs.tla

Every `MCX.cfg` belongs to `MCX.tla`; `MCPriceFeed_failover.cfg` is the violation run of
`MCPriceFeed`. `PROJECT.json` maps every definition to the lines it stands for.
