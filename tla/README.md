# Verification of nest-exchange

`nest-exchange` is the backend of a decentralised exchange. Orders live in an
order controller contract on a chain; the backend keeps a copy of them in
PostgreSQL, so that the front end can ask for the order book and for matching
candidates, and it logs users in with signed nonces. This directory holds TLA+
models of the backend, TLC configurations that check them on small instances,
and TLAPS proofs for instances of any size.

Paths below are relative to the repository.

## 1. Inventory

| Component | State | Operations | Talks to |
|---|---|---|---|
| Order controller contract (external; ABI in `src/infrastructure/config/contracts/`) | list of order ids, filled amounts, cancellations | create, match, cancel; answers `getOrderIdLength`, `getOrderId`, `getOrderInfo`; emits `OrderCreated`, `OrderMatched`, `OrderCancelled` | the two indexers below |
| Live order indexer (`BlockchainService`, `src/utils/orders-handlers/`) | the subscriptions; each running handler's locals | one listener per event, `handleOrder{Created,Matched,Cancelled}Event` | contract, token service, `OrdersUseCase` |
| Tables (`OrdersUseCase`, `OrdersService`, `UsersService`, `prisma/schema.prisma`) | `users`, `orders` | `getOrCreate`, `createOrder`, `updateOrder`, `cancelOrder`, queries | PostgreSQL |
| History restore (`BlockchainUseCase`) | locals of `restoreOrdersHistory` | one pass per boot | contract, tables |
| Token decimals cache (`BlockchainTokenService`) | `decimalsCache` | `getTokenDecimals` | ERC-20 contracts |
| Order book and matching queries (`OrdersController`, `OrdersUseCase`) | none | `getOrderBook`, `getMatchingOrders` | tables |
| Authentication (`AuthUseCase`, `MessageSigningService`, `TokensService`) | nonces in Redis with an expiry | request nonce, verify signature, logout | Redis, tables |
| Refresh sessions (`RefreshTokenUseCase`, `RefreshTokenService`) | `refresh_tokens` | create, verify, delete | tables, JWT |
| Guards, strategy, rate limiter | points per address in Redis | admit or refuse a request | Redis |
| Validation, DTOs, cookies, decorators, users controller | none | | |
| Wiring and bootstrap (`main.ts`, modules) | none | runs the init hooks, then listens | everything |

**What is hard.** ethers calls a listener for each event and awaits none, so the
handlers of all events run at once and interleave at every `await`; there are no
transactions and no locks. `createOrder`, `getOrCreate`, `updateOrder` and
`cancelOrder` each read and then write. The three handlers of one order may all
end up creating it, and each reacts in its own way to losing that race. A call
that rejects ends the handler with a log line and no retry. Events that come
while the process is down, or while it boots, reach nobody; the restore, which
overlaps with the live handlers, is to make up for that, from data that ages
while it works. A login or logout awaits Redis, PostgreSQL and the JWT library
in turn and can be interleaved with others of the same user.

**What makes each component correct.**

- Tables and both indexers: no row shows what did not happen on the chain; what
  a handler reported as done stays visible; a late insert never reopens an
  order; handlers end; a row that fell behind recovers; between them the
  listeners and the restore miss no order silently; the restore ends.
- Queries: a table that lags hides nothing that could be matched, and offers
  what cannot be only while an event of the order is waiting or was lost; the
  best price comes first.
- Authentication and sessions: a session needs the live nonce of its account,
  which is spent with it; what an account had before a logout is of no use
  after it; access is granted only while a session is open; every request is
  answered.
- Rate limiter: at most two budgets in a window's length, a written block
  stands, nobody is refused without a reason, who was over the limit stays out
  for the rest of the window although Redis fails.
- Decimals cache: it holds answers only, and a failure of one caller does not
  reach the others.

`PROJECT.json` lists the hazards one by one, at their lines.

## 2. Modules

| Module | What it is |
|---|---|
| `OrderContract` | the contract as the backend sees it (external) |
| `OrderView` | abstract specification: what the `orders` table promises |
| `OrderIndex` | the live indexer: contract, listeners, handlers, use case, services, tables, faults, deaths |
| `OrderIndexProofs` | theorems about `OrderIndex` |
| `OrderRestore` | `OrderIndex` composed with `restoreOrdersHistory` and reboots |
| `OrderRestoreProofs` | theorems about that composition |
| `OrderBook` | both queries as operators over rows with amounts, and a coarser table that lags behind the contract in every way `OrderIndex` and `OrderRestore` allow |
| `OrderBookProofs` | theorems about `OrderBook` |
| `AuthLedger` | abstract specification: nonces, sessions and grants of access |
| `AuthSession` | browsers, nonce, login, refresh and logout requests, Redis and the two tables, faults, expiries |
| `AuthSessionProofs` | theorems about `AuthSession` |
| `RateLimit` | the limiter's service and guard with the library's key in Redis, faults, a clock |
| `RateLimitProofs` | theorems about `RateLimit` |
| `TokenDecimals` | the decimals cache and its concurrent callers |
| `TokenDecimalsProofs` | theorems about `TokenDecimals` |
| `MC_*` | instances for TLC |

`OrderContract` and `OrderView` stand below `OrderIndex`, which `OrderRestore`
extends; `AuthSession` meets the indexer in the `users` table
(`IndexerRegisters`); `OrderBook` takes from `OrderIndex` and `OrderRestore` what
can become of an event. The others are independent.

### OrderContract

`made`, `filled` and `cancelled` are the contract's list of ids, the filled
amount of each order in whole units `0..Amount`, and the cancelled orders. Only
what the code relies on is kept: the list only grows, an order that is
cancelled or full does not change any more, a fill only grows.

One assumption is the code's, and it cannot be checked here because the contract
is not in the repository: the amounts of an `OrderMatched` event are *totals*.
`handle-order-matched.util.ts:38-43` stores them as such. The paid and the
received side are one number.

### OrderView

A state machine with the contract's variables and `orders` only. A row may start
or change to show anything its order's history supports (`Backed`), but once it
reports a match or a cancellation it never goes back to an untouched order, and
it never disappears. It may be late, miss orders, and fall back to an earlier
fill: that is what the code really guarantees under every interleaving, so that
is what it is shown to implement.

### OrderIndex

A handler is identified with its event. `pc[e]` names the call it awaits:

| `pc` | Call |
|---|---|
| `getOrderInfo`, `getTokenDecimals` | the RPC calls of the matched and cancelled handler; of all |
| `getUser`, `createUser` | `UsersService.getOrCreate`, lookup and insert |
| `getOrder`, `createOrder` | `OrdersUseCase.createOrder`, lookup and insert |
| `updateOrder`, `writeUpdate` | `OrdersUseCase.updateOrder`, lookup and write, with `attempt` for the loop around it |
| `cancelOrder`, `writeCancel` | `OrdersUseCase.cancelOrder`, lookup and write |
| `done`, `skipped`, `failed`, `gaveUp`, `killed`, `missed` | ended: succeeded, knew the order exists, logged an error, out of attempts, process died, no listener |

The action of a call runs the handler up to its next `await`. `CreateReturns`
holds what differs between the handlers: the matched one updates again whether
it created the order or found it, the created one only knows `P2002` on the order
id, the cancelled one takes every error for a failure. `CallRejects` lets any
awaited call reject; `Crash` ends the process; `Listen` is the end of
`BlockchainService.onModuleInit`. Addresses are compared case-insensitively, as
`getOrCreate` lower-cases them. The Slip definitions are faulty variants of the
definition that follows them, to see that the properties notice them.

### OrderRestore

`stage` names the call `restoreOrdersHistory` awaits; `known`, `existing`,
`missing`, `fetched`, `snap`, `ready` and `logs` are its local variables. The
stages in `RetriedStages` start over when one of their calls has used up its own
attempts (`StageFails`); the last failure, or a failure of a query that is not
retried, ends the process (`BootFails`), and the next boot starts at once. A
failure inside a loop costs the item (`ItemFails`). `skipped` are the orders the
log reports as not restored. Nest awaits the init hooks of a module together, so
`Listen` and all handlers interleave with the restore.

### OrderBook

A row has the tokens, the owner as spelled, the amounts and filled amounts of
both sides, and the status; an order may have an `amountA` of 0, as market
orders do. `Place`, `Match` and `Cancel` are the contract's. A handler is one step
here, but its event may wait, be overtaken by a later one, be lost (`Lose`), or be
handled halfway (`MatchNotRecorded`: the order is created and the update rejected),
and the restore inserts what it fetched some time ago (`FetchOrderInfo`,
`InsertOrder`) or applies a cancellation (`RestoreCancelled`). `GetOrderBook` and
`GetMatchingOrders` are operators: `Suits` is the `WHERE` of the two matching
queries, `Cheaper` their `ORDER BY`, and an answer is any order of the candidates
the `ORDER BY` allows. Prices are compared by multiplying across, where the SQL
divides.

### AuthLedger and AuthSession

`AuthLedger` is a register of entries: nonces issued and live, logins admitted
with a live nonce, sessions opened and open, grants of access. It says what may
follow what, and knows nothing of requests, cookies, Redis or PostgreSQL.

In `AuthSession` a request is a serial number, and `at[r]` names the call its
handler awaits:

| `at` | Call |
|---|---|
| `setex` | `generateNonce`: the nonce goes to Redis |
| `get`, `del` | `verifySignature`: the nonce is read, checked against the signature, deleted |
| `getUser`, `createUser` | `UsersService.getOrCreate` |
| `findUser`, `insert` | `createRefreshToken` |
| `findSession` | `refreshAccessToken` with `verifyRefreshToken` |
| `delNonce`, `deleteMany` | `logout` |
| `ok`, `invalid`, `noUser`, `failed` | answered |

A nonce is named by the request that stored it and a session by the login that
opened it. `held`, `access` and `session` are a browser's nonce and cookies,
which change when it receives an answer (`Receive`), in whatever order answers
arrive. `Expiry` lets the nonce, the row, its token or a cookie expire, one
independently of the other. `req[r].before` is history, the requests of the
account that had succeeded when `r` was sent. The refinement mapping reads a
live nonce from Redis, an admitted login from `at`, an open session from the rows
that a refresh would accept.

### RateLimit

The limiter keeps one key per address in Redis. `Consume` is the library's script
(count, create the key if it has gone), `Block` its second call, made by the
request that is the first over the limit; time passes in between (`Tick`).
`CallRejects` is any error of Redis, which the service turns into 'Too Many
Requests'. The library is external, modelled from the options the service gives
it.

### TokenDecimals

Callers with one attempt (handlers) or several (`retry` of the restore) look at
`decimalsCache`, ask the contract when the token is not there, and store the
answer; all of them may be waiting for the same token at once.

## 3. Runs

| Run | Instance | Shows |
|---|---|---|
| `index_one` | 1 order, 3 units, 1 fault, 1 death, fair | `IInv`, `NeverGivesUp`, `HandlersEnd`, `OrderListed`, refinement `ViewSpec` |
| `index_two` | 2 orders of one new owner, 2 units, 1 fault, one order `Paced` | `FillHasWriter`, `SelfHealing`, `IInv` |
| `restore_one` | 1 order, 2 units, new owner, 1 fault, 1 death, fair | `MatchRecorded`, `CancelKept`, `Covered`, `RestoreInv`, `ViewSpec` of the composition, `RestoreEnds` |
| `restore_two` | 2 orders, 2 units, one with id 0, both `Paced` | `CatchUpInv`, `CancelsApplied`, `RestoredNotBehind` |
| `auth_faults` | 1 browser, 4 requests, 1 fault, 1 expiry, the indexer registers the account | `AuthInv`, `NonceSpent`, `CookieBacked`, `UserAlwaysFound`, refinement `LedgerSpec` |
| `auth_browsers` | 2 browsers of one account, 6 requests, `OneAtATime`, fair | `LogoutStands`, `LoginWorks`, `RequestsEnd` |
| `book` | 2 orders of one pair, amounts up to 2, one order overtaken | `BookInv`, `NothingHidden`, `OffersGood`, `BestPriceFirst`, `BookShowsOpen`, `RestoredLikeLive` |
| `limit` | 4 requests, 1 point, window 2, block 3, 1 fault | `LimitInv`, `BlockStands`, `TwoBudgetsAtMost`, `OverLimitBlocks`, `RefusedForReason`, `ShutOutLasts` |
| `decimals` | 4 callers, 2 tokens in 2 spellings, 4 faults, fair | `CacheInv`, `SavedByOthers`, `CallersEnd` |
| `index_duplicate` | 1 order, 1 unit | violation of `DuplicateIsSkipped` |
| `index_lost_cancel` | 1 order, 1 unit | violation of `CancelIsRecorded` |
| `restore_up_to_date` | 2 orders, 1 unit | violation of `UpToDateIsTrue` |

**Bounds of the order modules.** `MaxFaults` and `MaxCrashes` bound rejected calls
and process deaths; everything else is finite by itself, as an order has one
created event, one cancelled event and a match event per unit. Handlers of
different orders share the `users` table only, so one order with all its
handlers, and two orders of one new owner, have all the races. Three units give
two partial fills and a full one, in any order. One fault reaches every single
failure at every `await`. `StageRetries` is 2 instead of 3; `RetryLimit` is the
code's 3. Two boots let a first boot leave half its work to a second. With one fault
`restore_one` reaches a retried stage but none that has used up its retries; of
those only the theorems speak, which are for any number of faults. `book` has
amounts up to 2 on each side, which is enough for two prices, a partial fill
and a market order; `MaxOvertaken` bounds the orders with an event that is lost
or handled out of turn, and `Pairs` the pairs orders are placed for: orders of
other pairs are never candidates for one request. Its orders are
interchangeable, and it is checked up to their permutations.

**Bounds of the others.** Four requests are a nonce, two logins with it and a
logout or a refresh, in every interleaving, with one failure and one expiry
anywhere; six on two browsers are two logins, a logout on one, and what the
other can still do. In `limit`, four requests against one point overflow a
window, write a block and meet it; the clock runs to twice the block, and the
window is shorter than the block. The fault may fall on the call that would write
the block, and the clock leaves room for the next window after it. Four faults let the restore run out of
attempts for one token while a handler fails too.

Deadlock is not checked: chain and browsers owe the backend nothing, and clock
and serial numbers are bounded, so the systems may stop.

**Fairness.** Weak fairness for each handler, each request and the restore:
Node's event loop resumes them, and every awaited call is answered or rejected
(the RPC, Redis and database clients have timeouts). Nothing is assumed of the
contract, browsers, faults, deaths, boots, expiries or the clock. For
`TokenDecimals` the rejection is an answer too, so the fair action includes it.

**`Paced`.** The set of orders that the chain leaves alone while a handler works on
them, the usual situation when blocks are slower than the handlers. Only
`SelfHealing` and `RestoredNotBehind` are about these orders: of the others both
are false, for two match handlers of one order write in any order.

**`OneAtATime`.** Whether an account's browsers wait for an answer before they send
the next request; only `LoginWorks` needs it (a second nonce request replaces the
nonce, by design), and `auth_faults` checks the rest without it.

**Block and window.** `RateLimitAssumption` says that a block is not shorter than
the window, as in the README's example (600 and 60 seconds). With a shorter
block the library replaces the key's expiry by an earlier one, which ends the
window early. `NoMoreThanTwoBudgets` and `ShutOutsLast`, among others, rest on it.

## 4. What the violations say

1. `index_duplicate`: the created handler's message "Order ... already exists,
   skipping creation" belongs to `P2002`, but `createOrder` reports an existing
   order by a `BadRequestException`, so the usual duplicate is logged as an
   error.
2. `index_lost_cancel`: "Order ... not found, creating it as cancelled..." and
   then the created handler is faster. The cancellation is dropped, and the order
   stays open in the order book.
3. `restore_up_to_date`: "All orders from blockchain already exist in DB ...",
   although an order the restore was told of is missing: it compares sizes, and
   a live handler inserted another order in between.

Met while modelling, and not given runs of their own:

- `refresh-token.use-case.ts:73` throws 'Refresh token expired' inside the `try`
  whose `catch` (80-81) replaces it, so nobody is ever told that.
- `rate-limiter.service.ts:30-31` makes 'Too Many Requests' of every rejection of
  the library, also of a lost connection to Redis, and the guard answers 'Rate
  limit exceeded'.
- `README.md:93-94` promises at most `RL_POINTS` requests per `RL_DURATION`; windows
  are fixed, so it is twice that where two of them meet (`TwoBudgetsAtMost`).
- `blockchain-token.service.ts:17` returns the cached `bigint` where a `number` is
  declared; only the caller that filled the cache gets `Number(...)` (29).
- `blockchain.use-case.ts:468` restores an untouched order with an `amountA` of 0 as
  `FILLED`, which the handlers insert as `ACTIVE`; `OffersGood` says when a request
  can see the difference.

## 5. Proofs

`OrderIndexProofs` proves, for every `Orders`, `Amount`, `Users`, `Owner`,
`RetryLimit`, number of faults and deaths that satisfy `ContractAssumption` and
`IndexAssumption`:

- `Invariance`: `Spec => []IInv`;
- `TypesHold`, `NoPhantoms`, `MatchesRecorded`, `CancelsKept`,
  `FillsHaveWriters`, `RetriesSuffice`: the conjuncts of `IInv` a reader cares
  about;
- `PacedOrdersHeal`: `Spec => []SelfHealing`;
- `Refinement`: `Spec => ViewSpec`, the live indexer implements `OrderView`.

None of the properties is inductive by itself. A row is backed because the event
its handler writes for has happened (`HasHappened`), which needs to know that
only match handlers get to update and cancel handlers to cancel (`HandlerKind`).
A cancellation stays because an insert never hits an existing row, and a match
handler that overwrites it is recorded as done. The retry loop has one round of
creation (`CreatesOnce`), after which the row exists for good. The lemmas follow
the actions: handlers that only move on (`HandlerMoves`, `AttemptMoves`), the
three writes (`InsertKeeps`, `UpdateKeeps`, `CancelKeeps`), the contract, deaths
and boots; `StepKeeps` puts them together. The refinement maps `CreateOrder`,
`WriteUpdate` and `WriteCancel` to `Show`, the contract's steps to `ChainStep`,
and all others to stuttering; that the written row is backed comes from `IInv`
after the step.

`IInv` has four parts. `LiveInv` is what the handlers keep *whoever else writes the
tables*; `FillHasWriter` holds only as long as nobody else does, for a row that
the restore inserts has a fill and no handler. `PacedInv` drops the guard `~Busy`
of `SelfHealing`: as the chain waits, a running match handler is always the one of
the latest match, and no other handler touches what has healed before its own
event is done. `ListedInv` follows the users: whoever was registered from the
beginning is never inserted again, so no handler of his orders fails for it.

`OrderRestoreProofs` proves about `RestoreSpec`, the restore and the handlers
together, for the same constants, every `ZeroId` and `StageRetries`, and any number
of boots, under `RestoreAssumption`:

- `RestoreInvariance`: `RestoreSpec => []RestoreInv`;
- `RestoreHasNoPhantoms`, `RestoreKeepsMatches`, `RestoreKeepsCancels`: what
  `LiveInv` says of the tables survives the restore;
- `NothingForgotten` (`Covered`) and `LogsApplied` (`CancelsApplied`);
- `RestoreRefines`: `RestoreSpec => ViewSpec`.

The argument has two parts. First the tables (`TablesKept`): a write from outside
the handlers does no harm if the chain supports its row and it either is the
first of its order or a cancellation (`WriteKeeps`). The restore's insert is one
because the fill it fetched cannot be more than the chain's by now, and its
cancellation because the log was read from the chain (`RestoredRowBacked`,
`CancelledRowBacked`). So nothing is ever lost: the chain's history, rows, users
and successes only grow. Then the restore: what each stage read was true when it
was read, and stays true because nothing is lost (`Believed`); each order a loop
is done with has a row or a report (`LoopDone`), each cancellation is shown
(`LogsDone`). `Covered` follows for the orders the restore knew of from `LoopDone`,
and for the others from `HandlersKnow`: a handler that ended well, or skipped,
did so in front of a row.

`AuthSessionProofs` proves, for every `Users`, `Browsers`, `Account`, `Requests`,
`Traders` and number of faults and expiries, with and without `OneAtATime`:

- `AuthInvariance`: `Spec => []AuthInv`;
- `AuthTypesHold`, `LogoutsStand`, `NoncesSpent`, `CookiesBacked`, `UsersFound`;
- `LedgerImplemented`: `Spec => LedgerSpec`.

A login that comes after a logout, or after another login with its nonce, must
be stopped at its first call (`LateLoginsFail`), because no later step looks at
the nonce again; it is, because a deleted nonce is never stored a second time
(`DeletedIsGone`, from `Provenance`: a stored nonce is the serial number of the
request that stored it, so a new one is not an old one). A session whose row is
gone met a logout (`ClosedByLogout`), which gives `CookieBacked`. `IssuedNonces`,
`OpenedSessions` and the other sets of the mapping change in one entry per step;
the lemmas of the second half say which step of the ledger each action is, a
refresh being a `Grant`, which needs the open session that `RefreshTokenValid`
found, and a `DeleteNonce` a `Revoke` of whatever nonce is live by then.

`OrderRestoreProofs` also proves `CatchUpInvariance` (`RestoreSpec => []CatchUpInv`)
and from it `RestoreIsNotBehind`, `RestoreSpec => []RestoredNotBehind` for
`RetryLimit > 1`. A row that appeared after the restore asked for the existing
orders was inserted by the restore, with the fill it had fetched, or by a
handler of this process. On a `Paced` order that is the created handler, before
anything was filled, or the match handler of the latest fill, which goes on to
write it; and as the process listens since then, it hears every later match
(`CaughtUp`). The restore fetches only orders that had no row when it asked, so
what it fetched is covered by one or the other. With a single attempt the theorem
is false, and TLC finds it so: a match handler that has created the order gives up
before it writes the fill. `handleOrderMatchedEvent` makes three
(`handle-order-matched.util.ts:15`).

`OrderBookProofs` proves, for all orders, amounts, tokens, owners, requests and
spellings, and any number of orders overtaken, under the assumptions of
`OrderBook`:

- `BookInvariance`: `Spec => []BookInv`, with `BookTyped`;
- `NothingIsHidden`, `OffersAreGood`, `BestPriceIsFirst`: what a request for
  matching orders gets;
- `BookShowsWhatIsOpen`: what the order book shows;
- `LiveAgreesWithRestore`: `RestoredLikeLive`.

The properties speak of a table that has caught up with an order, so `BookInv` says
order by order how far a row can lag: a row, or what the restore fetched for one,
has what was ordered, fills the contract has reached, and the status of those
fills (`RowsLag`); a waiting event tells what the contract did by then
(`EventsTell`); and as long as no event of the order was lost or overtaken, what the
row does not show yet is in the last event, which is waiting (`InTurn`). From there
a row of which nothing is waiting shows what the contract has, and the first two
properties are arithmetic on the amounts of one order and one request. `BestPriceFirst` needs an
argument about the whole answer: it has as many places as there are candidates
and no two hold the same one, so each candidate has a place (the pigeonhole
theorem of `FiniteSetTheorems`), and the `ORDER BY` lets none stand behind a dearer
first one. That the candidates are finite is part of the invariant and
is not assumed of `Orders`.

`RateLimitProofs` proves, for every number of points, requests and faults and all
durations of `RateLimitAssumption`, `LimitInvariance` (`Spec => []LimitInv`) and from
it

- `BlocksStand`: while a block lasts the key exists and counts more than the points
  (`BlockCounts`), and `Consume` admits nobody on such a key. The assumption is
  used in `BlockKeeps`, where one block overwrites another;
- `NoMoreThanTwoBudgets`: those admitted since the key was created are at most its
  count and the budget, and so are those admitted in the window's length before it
  (`WindowBudget`), because the key lives as long as a window (`KeyLasts`); a
  stretch of a window's length meets only these two;
- `RefusalsHaveReasons`: the key's count is that of the requests counted since it
  was created, or of a block (`KeyCounts`), so a request over the limit has a reason
  that lasts as long as the key (`KeyShuts`); each rejected call adds one to the
  requests refused without having been counted, and nothing else does;
- `ShutOutsLast`: as long as that reason lasts, the key is there and over the limit
  (`KeyShuts`), so who is admitted later comes after its end. This needs no block and
  holds when the call that would write it is rejected;
- `GoingOverBlocks`: the request that is the first over the limit is on its way to
  the block, has written it, or was rejected (`BlockComes`).

The first attempt at `RefusalsHaveReasons` failed for a good reason: `CountedIn`
counted requests that had never been counted, when the stretch of time it looked
at reached back to the beginning. It now counts those that Redis counted.

`TokenDecimalsProofs` proves for all callers, tokens, spellings, attempts and faults
`CacheInvariance` (`Spec => []CacheInv`), `CacheHasAnswersOnly` (what the cache holds was
answered by the contract), and the halves of two liveness properties that are about
safety: `SavedAtOnce`, a caller about to ask for a token for which anybody was
answered is answered in its next step, out of the cache, and
`RejectedAfterAllAttempts`, nobody is rejected before all attempts have failed.

**Towards the liveness properties.** Fairness and ENABLED are out of the prover's
reach, but most of what makes a liveness property true is not: that nothing goes
round in a circle, and that what was under way is not thrown off. These halves
are proved as action properties.

- `HandlersMoveOn`: each call a handler is answered lowers `CallsLeft`, eight calls for
  each attempt left and its place in the attempt; a rejection or a death ends it, and
  nothing else moves it. Each way back to `updateOrder` costs an attempt.
  `HandlersMoveOnBeside` says the same beside the restore.
- `EventsAreListed`: a handler that ended by itself did so in front of a row, or met a
  fault or a new owner (`ListedInv`, a part of `IInv`). With `HandlersMoveOn` this is
  `OrderListed`, and for the matched and the cancelled handler too.
  `EventsAreListedBeside` says it beside the restore and across reboots.
- `RestoreMovesOn`: each step of the restore, and each failure that it survives, brings
  it to a later stage, a later attempt, fewer items, or the second call for an item; the items are finitely many.
  It needs `WorkLeft`, a part of `RestoreInv`: no stage or loop is entered, or gone on
  with, when nothing is left to do in it, for a loop over nothing awaits no call.
- `RequestsMoveOn`: a request makes six calls at most and is answered once.
- `LoginsStayOnCourse`: as its account's browsers wait (`InTurn`, an invariant of its
  own: of two requests of an account one has been received), nobody replaces the nonce
  of a login or registers its user in between. A user in the table is found
  again, and one who is not a trader is registered by nobody else.

`RateLimit` has no liveness property: a request makes two calls there, one after the
other, and awaits nobody else's. `SavedAtOnce` and `RejectedAfterAllAttempts` are the halves of
`SavedByOthers` and `CallersEnd`.

Every safety property that a run checks is proved. Only model-checked are the
liveness properties themselves (`HandlersEnd`, `OrderListed`, `RestoreEnds`,
`LoginWorks`, `RequestsEnd`, `SavedByOthers`, `CallersEnd`): that a
fair handler whose call is awaited takes its step at all.

## 6. Not modelled

- The order controller contract beyond what the backend reads of it, and the
  numbers of a match: an event is taken to report totals, as the code does.
- The conversion of amounts with a token's decimals, and the rounding of
  PostgreSQL's `numeric(36,18)` for tokens with more than 18 decimals; amounts are
  counted in units that the table can hold.
- A call that is rejected although its write took effect (a lost answer of the
  database or Redis). The code treats it as a failure like any other.
- Signing and verifying JWTs and signatures: synchronous work that lets no other
  handler in. A signature is good exactly for the nonce that was signed.
- Validation, DTOs, cookie options, decorators and the users controller:
  stateless. Of the JWT guard and strategy only that a logout needs a good
  access token; key files and passport are left out.
- Nest's wiring, except that the init hooks of a module run together and a
  rejected hook ends the process; logging; HTTP.
- Operations nothing calls: `updateOne`, `deleteOne`, `getAll` and
  `getOrderByOrderId` of `OrdersUseCase`, `getOneById`, `getOneByToken`, `getAll`
  and `update` of the refresh token service.

## 7. Plan

1. Done: `OrderContract`, `OrderView`, `OrderIndex`, `OrderRestore`, the
   invariants and the refinement of `OrderIndex`.
2. Done: `AuthLedger`, `AuthSession` with its invariant and refinement proved;
   `OrderBook`; `RateLimit` with its invariant proved; `TokenDecimals`.
3. Done: the invariant and the refinement of `OrderRestore` proved; `SelfHealing`.
4. Done: the invariants of `OrderBook`, `RateLimit` and `TokenDecimals`, and all
   their safety properties proved; `RestoredNotBehind` with its invariant.
5. Done: the halves of the liveness properties that are about safety.
6. Left: `OrderListed` as a property of a run of the composition, and the conversion
   of amounts with a token's decimals, which no module has.
