# Coinova: models, checks and proofs

A verification project for the Coinova backend (Node.js, Express, PostgreSQL,
Redis): TLA+ modules translated from the source, TLC configurations that check
them on small instances, and TLAPS proofs of what matters most for every instance.
Source paths are relative to the repository (`src/services/...`).

1. Inventory of the system
2. The modules
3. What the runs check, and their bounds
4. What the code does otherwise than it says
5. Fairness
6. What is proved
7. What is not modelled, and why
8. Plan

## 1. Inventory of the system

One Node.js process serves HTTP and a WebSocket, polls CoinGecko for prices and
three blockchains for deposits, and keeps its state in PostgreSQL (through a pool
of ten connections) and the latest prices in Redis. JavaScript runs one callback
at a time, but every `await` lets other requests and polls in, so **every
database transaction, and every single query outside of one, interleaves with all
others**. Nothing supervises work in flight: when the process dies, what a
handler carried in memory is lost. A graceful shutdown waits for the connections of
clients and of the pool, not for handlers.

| Component | State | Operations | Interacts with |
|---|---|---|---|
| Order engine (`services/orderEngine.js`, `routes/orders.js`) | `orders`, `trades`, `wallets.balance`, `wallets.locked_balance` | `placeOrder`, `cancelOrder`, `processTick`, `settleFill` | reads the Redis price; is called by requests and by the price feed |
| Price feed (`services/priceFeed.js`) | the chain of polls, `price:<symbol>` in Redis | `poll`, `fetchAndBroadcast` | calls `processTick` per symbol, broadcasts to sockets |
| Wallet routes (`routes/wallet.js`) | `wallets`, `wallet_transactions`, `simulated_transactions` | deposit, withdraw, simulated-send | share `wallets` with everything below |
| Admin routes (`routes/admin.js`) | the same, `users.tier`, `users.is_suspended`, tickets | adjust a balance, resolve a send, tier, suspend | settle what wallet routes began |
| Staking (`services/stakingService.js`) | `stakes`, `stake_withdrawals`, `wallets` | `stake`, `withdrawStake` | tier from the admin routes |
| On-chain withdrawals (`services/{tron,eth,btc}WithdrawalService.js`, `routes/deposit.js`) | `wallets`; memory of the handler; the chain | `withdrawTronUsdt`, `withdrawEth`, `withdrawBtc` | nodes of three chains |
| Deposit addresses and pollers (`services/depositAddressService.js`, `services/{btc,tron,eth}DepositPoller.js`) | `deposit_addresses`, `onchain_deposits`, `wallets`; `lastCheckedBlock` in memory | `getOrCreateDepositAddress`, `poll...Deposits`, `creditDeposit` | APIs of three chains |
| Sessions (`routes/auth.js`, `routes/account.js`, `middleware/auth.js`) | `users`, `refresh_tokens`, `password_resets` | login, refresh, logout, forgot, reset, change, delete | suspension in the admin routes |
| Start and shutdown, pool, WebSocket server (`index.js`, `config/db.js`, `services/wsServer.js`) | the stage of the process, open sockets, connections in use | start, `shutdown`, `closeAll` | end whatever handlers, polls and ticks are at |
| Order book, trade history, support, migrations, scripts | — | reads, single-row writes | — |

What makes each of them correct, and what is hard about it:

* **Order engine.** `locked_balance` is one number for all open orders, and the
  amount to release is computed again whenever an order ends. An order ends once,
  though a tick fills from rows it read earlier while users cancel, fills fail and
  the process restarts. Money is conserved, to the rounding of the columns.
* **Price feed.** Polls run one after the other, a failed tick does not stop the
  others, and an order whose price comes is filled in the end.
* **Wallet and admin routes.** Racing requests never overspend; a pending send is
  settled once; orders and sends share `locked_balance` without touching each
  other's part of it.
* **Staking.** A stake is paid once, after its term, with interest for the days
  served; the two clocks that stamp it are read at different times.
* **On-chain withdrawals.** Two ledgers without a common transaction: what is
  refunded must not have been sent, what is reported as sent must be paid for.
* **Pollers.** Overlapping polls, answers that are old when they are used,
  failures and restarts: each deposit is credited once, and at some time.
* **BTC custody.** The wallet row and the outputs at the user's address are two
  books: fees, change, rounding to satoshi and deposits that vanish must be the only
  differences between them.
* **Start and shutdown.** A graceful exit ends nothing that a client waits for, and
  ends by itself; ticks of the feed never take the whole pool.
* **Sessions.** Handlers of several queries without a transaction, with bcrypt
  between them: a new password or a suspension ends the sessions from before it,
  a reset link works once.

`PROJECT.json` lists the hazards one by one, each at its line.

## 2. The modules

| Module | Models | Extends / instantiates |
|---|---|---|
| `Ledger` | amounts and `NUMERIC(30,10)` columns with their rounding | |
| `OrderEscrow` | abstract: one escrow per open order | |
| `OrderEngine` | order engine and price feed, a transaction a step; refines `OrderEscrow` | `Ledger`, `OrderEscrow` |
| `OrderTx` | the same transactions statement by statement, on row locks; refines `OrderEngine` | `OrderEngine` |
| `OrderAudit` | sums over orders and trades for the properties of the engine | `OrderEngine` |
| `WalletRoutes` | wallet routes and the admin's side of them | `Ledger` |
| `Staking` | staking and account tiers | `Ledger` |
| `Exchange` | order engine, wallet and admin routes and staking on one `wallets` table | `OrderAudit`, `WalletRoutes`, `Staking` |
| `OnchainWithdrawal` | the three withdrawal services and the chain | |
| `Server` | start, shutdown, sockets and pool around the withdrawals; refines `OnchainWithdrawal` | `OnchainWithdrawal` |
| `CoinSelection` | inputs, fee and change of a BTC withdrawal, as operators | |
| `Deposits` | addresses and `creditDeposit` | |
| `Custody` | BTC wallet rows and the outputs behind them: deposits, withdrawals, change | `Deposits`, `CoinSelection` |
| `AddressPoller` | BTC and TRON pollers | `Deposits` |
| `EthPoller` | ETH poller with its cursor | `Deposits` |
| `Sessions` | sessions of one account | |
| `...Proofs` | theorems about the module they are named for | |
| `MC...` | instances for TLC: symbols, symmetry, properties that sum or enumerate | each its component |

How state and actions correspond to the code:

* **A transaction is one step** where its first statement (a guarded `UPDATE` or
  `SELECT ... FOR UPDATE`) decides it: nothing it reads can change until it
  commits. A transaction that rolls back changes nothing and is no step, unless
  something in memory ends with it. A handler that awaits between transactions or
  single queries has a step for each, and its memory is a variable (`request`,
  `feed`, `staking`, `withdrawal`, `poll`, `call`).
* **OrderEngine.** `request` is an order on its way from reading the price
  (`ReadLatestPrice`) to its transaction (`PlaceMarket`, `PlaceResting`, or
  `RejectOrder`). `feed` is the poll: `FetchQuotes`, then for each symbol
  `CachePrice`, `SelectPending`, and for each selected row `FillOrder`, `PassOver`
  or `FillFails`, then `EndTick`; `AbortTick` is an error of the pool. The rows
  keep their ids only: the columns a fill uses are never updated.
* **OrderTx.** `txn[p]` is the transaction a handler or the tick has open: the order's
  row it locked or inserts (`id`, `row`), the wallet rows it has locked with what it
  has written there (`rows`), and the `UPDATE`s still to come (`todo`), in the order of
  `lockFunds`, `unlockFunds` and `settleFill`. `UpdateWallet` waits for a row's lock and
  then sees what is committed; `UpdatesNothing` is the `WHERE` clause that finds too
  little; `DeadlockVictim` is PostgreSQL's choice; `Commit` publishes all rows.
* **Ledger.** Amounts are integers in units of `1/(Scale*Scale)` of a product;
  `Grid` and `Scale` say how coarse inputs and columns are. With both 1 all columns
  are exact; with `Scale = 2` products do not fit and the columns round half away
  from zero, as PostgreSQL does.
* **WalletRoutes**, **Staking**: an action for each handler. `adjusted` is history
  for the properties, because no table records an admin's corrections. `clock`
  ticks while requests wait for a connection, for `connectionTimeoutMillis` at most.
* **OnchainWithdrawal.** `withdrawal[w].pc` is where the handler is, `held` whether
  its amount is missing from the wallet, `tx` what the chain knows. `Faults` says
  what may go wrong; `unheard` marks a handler that went on without the chain's answer
  (history for the properties). The three services differ in one thing the properties tell
  apart: ETH waits to be mined.
* **Server.** `stage` is where the process is between start and exit, `feed` counts the
  ticks by the connections they hold and want (`processTick` takes a second one for
  each order it fills), `hungUp` are the withdrawals whose client has closed his
  connection: `httpServer.close` waits for connections, not for handlers. Every end
  of the process is `HandlersDie` for the withdrawals; `POST /refresh` is one of the
  ways to it, as a query that fails in its unawaited callback is an unhandled rejection.
* **Custody.** `chain` is the part of the chain that concerns the addresses: each
  transaction with what it spends (`ins`) and its two outputs (`out`): the payee's, and the
  change. The payee is any address, as for `isValidBtcAddress`: that of a user, the sender
  included, or one outside; the poller credits whatever pays a user's address. (A payment
  from outside pays one of them.) A broadcast whose answer is lost has sent the transaction
  and goes on to the refund. A handler lists the outputs in whatever order the API has them
  (`Listings`), selects, and broadcasts later; the node refuses a transaction whose
  inputs are spent (no replacement by fee: the handler's `Psbt` leaves it disabled).
* **AddressPoller**, **EthPoller**: `poll` is what each poll under way still has to
  do. The chain is external: its transactions confirm or vanish at any time. `lost` are
  the ETH transfers whose turn ended in an error the poll swallowed (history).
* **Sessions.** `passwords` is who wrote the password hash, in order; a session
  notes how many password writes and suspensions came before its `INSERT`. The reset's
  transaction is three steps: `BeginReset` locks the link, `WriteReset` makes the updates
  that nobody else sees yet, `CommitReset` publishes them; other updates of the user's row
  wait in between, a login's `INSERT` does not. `spared` are the sessions that a failed
  revocation left or that such a login inserted (history for the properties). Accounts
  share no row, so one stands for all.

## 3. What the runs check, and their bounds

| Run | Question | Bounds, and why they are enough |
|---|---|---|
| `orders` | Do orders, trades and wallets agree in every interleaving, is the engine an escrow, and do triggered orders end? | one market, two orders, two prices, a request in flight: two orders share one lock, a tick can select one while the other is cancelled, and prices lie on both sides of a trigger |
| `order_tx` | Is what the statements commit what `OrderEngine` allows, who deadlocks, does every transaction end, how far does rounding drift? | two handlers and the tick, one user, one market, two orders of three units at one price, columns half as fine as products, so every product falls on a half: every pair of transactions meets on both wallets, and all three at once |
| `exchange` | Do the books of these services balance with orders, sends, deposits, withdrawals, stakes and corrections? | one of each, all for the same amount, on a wallet that starts empty as a new account does: two ways to be funded, and any two services compete for what came in; the clock jumps over the stake's term |
| `staking` | Is a stake paid once, after its term? | seven days of two ticks, two requests, two stakes of different brackets; a wait of one tick, shorter than a day as 5 s are |
| `withdrawals` | Is what is refunded not sent, what succeeds paid for, does a deduction end, and what does a shutdown do to all of it? | two withdrawals of one user who can afford one, on ETH or BTC (TRON's handler has the same steps as BTC's), every fault, a client who hangs up, one socket, a pool of three: a tick holds one and wants one, and one is left |
| `custody` | Does a withdrawal pay what it should with inputs it needs, and how far do wallets and coins drift apart? | two users and three transactions: two deposits and a withdrawal, for whose outputs two requests may compete, or a deposit and two withdrawals, the second spending what the first paid or kept; paid is the sender, the other user or somebody outside; at 10 sat/vByte a deposit of 2500 satoshi leaves dust, one of 5000 change, and what a withdrawal has paid needs a second input; an amount of 1000 and three quarters, which rounds up; outputs listed oldest or newest first |
| `deposits` | Is every deposit credited at most once, only when confirmed, and in the end? | two polls, two users, two transactions that may pay both |
| `eth_polls` | Is anything credited twice, and does the cursor pass anything by? | two polls, two transfers, three blocks: a fast poll can overtake a slow one by a block, and a restart looks back at one |
| `sessions` | Do sessions from before end, does a link work once? | three requests at once, two of a kind and one to interfere; two sessions, two links, three passwords, two suspensions: a second reset or suspension meets what the first one left |

All of these pass. Users, tokens, polls and transactions are symmetric where a run
says `SYMMETRY` (they are only compared for equality; no liveness run uses it).
`CHECK_DEADLOCK FALSE` stands where the system may really stop: all withdrawals
or requests of the run over, all sessions of a deleted account ended. Each property has a mutant: a
plausible slip in one definition, kept beside it, with which TLC finds the
property violated. Several users and several markets are left to the proofs of
section 6, which hold for any number of them.

## 4. What the code does otherwise than it says

Three runs end in a violation. Each checks a sentence of the code or its comments;
`PROJECT.json` quotes it.

* `stop_buy`: a STOP_LOSS BUY locks quantity × stop and fills at the tick's higher
  price; nothing collects the difference. (`WalletsMatchTrades` leaves those out,
  `WalletsCoverTrades` states what is left with them.)
* `refund_after_send`: a broadcast whose answer is lost is refunded although it is on
  its way. (`HeardRefundsAreUnsent`: that is the only way to it.)
* `eth_lost_window`: the cursor moves past a window that failed for one address.
  (`OnlyErrorsPass`: that is the only way, for the blocks a process has begun to
  watch.)

Other disagreements met while modelling. They have no run of their own; the
properties are stated so that they say what is left:

* Placing and cancelling an order whose worth has more than ten decimals changes the
  wallet, where `tests/orders.test.js:161` has cancelling release "exactly the locked
  funds": lock and release are two roundings of two columns. `RoundingStaysSmall`
  bounds by how much.
* A stake withdrawn as soon as it has matured may be paid one day short:
  `matures_at` is stamped before the wait for a connection, `staked_at` after
  (`stakingService.js:173`). `TermServed`: never more than one.
* The coin selection never leaves an output out again and may refuse what a smaller
  set would pay (`btcWithdrawalService.js:87-99`); `GoesAheadSoundly` speaks of the
  withdrawals that go ahead.
* `onchain_deposits` is unique in (chain, transaction, asset): of one transaction that
  pays two users, only the first is credited. And a poller sees what the API's page
  lists (20 transfers for TRON): what is pushed off it between two polls is never
  credited. `DepositsGetCredited` promises the rest.
* The ETH cursor is in memory and a first run starts ten blocks behind the tip: a
  longer downtime is skipped.
* A client who hangs up during a withdrawal is not waited for at a shutdown: the process
  may exit between its deduction and its transfer, or the ended pool refuse its refund,
  although `index.js:45-49` means to wind requests down. `GracefulLosesNothing` says it
  of clients who wait.
* `settleFill` takes a user's two wallets in the order of the side: a purchase and a sale
  that fill at once may deadlock, and one of them fails. `DeadlocksAreOpposite`: nothing
  else does.
* The change of a BTC withdrawal is credited to its sender as a deposit
  (`btcDepositPoller.js:54`), and the network fee is charged to no wallet.
  `BooksMatchChain` states both as differences between the books, and as a third what is
  refunded although it was sent, as in `refund_after_send`.
* A BTC withdrawal to a deposit address is another user's deposit, and its change one of
  the sender's. They are one transaction, and `onchain_deposits` has one row for it: the
  user whose address is polled first is credited, the other one never.
  `BooksMatchChain` counts the payment as one that awaits its credit.
* A password change whose second query fails leaves the old sessions live, with the
  new password in force (`account.js:53-58`). `OldPasswordsSessionsEnd` excepts
  exactly those.
* A session that a login inserts between a reset's `UPDATE` of `refresh_tokens` and its
  `COMMIT` (`auth.js:311-313`) stays live, where `tests/auth.test.js:329` has a reset
  revoke "every existing refresh token": no lock of the reset keeps a login waiting.
  `OldPasswordsSessionsEnd` excepts it, with what a failed revocation leaves.
* A login that has read `is_suspended` before a suspension inserts its session after it,
  although `admin.js:72-73` means to "kill any active sessions immediately, not just block
  future logins". `SuspensionEndsSessions` speaks of the sessions from before; refresh
  refuses the other one while the suspension lasts.
* `README.md:50` and `tests/orders.test.js:38` seed a new account with 10,000 USDT
  where `STARTING_BALANCES` (`routes/auth.js:20-24`) is zero, and
  `tests/staking.test.js` expects a rate of 0.75% a day that `DURATION_PLANS` no
  longer has.

## 5. Fairness

* **Orders.** `FairSpec` is weak fairness of `FeedProgress`: the interval queues
  polls, promises are chained (`priceFeed.js:57-65`) and the event loop runs what
  is ready. Users and failures owe nothing. `TriggeredOrdersEnd` further assumes
  that failures stop at some time and that a triggering price comes again and
  again; a `fetch` that never returns is excluded, as the fetch is one step.
* **Transactions.** `FairTxSpec` is strong fairness of each open transaction: a row's
  lock is handed on in the order of the queue, so who waits again and again for a lock
  that is free again and again gets it, and PostgreSQL looks for deadlocks
  (`deadlock_timeout`). Beginning a transaction and failing owe nothing.
* **Withdrawals and the process.** Handlers, ticks, closing sockets and the shutdown
  go on while the process lives, and the chain decides about what it has accepted. Nothing
  is assumed about signals, clients, kills, restarts and the ten seconds' timer:
  `WithdrawalsSettle` names the other ends, and `ShutdownNeedsNoTimer` holds without it.
* **Pollers.** The interval starts polls and a poll goes on; `DepositsGetCredited`
  speaks of behaviours in which failures and restarts stop at some time.

## 6. What is proved

All theorems hold for any values of the constants that satisfy the named assumptions
of the modules: any number of users, markets, orders, requests, polls, and so on. Each
rests on one inductive invariant, proved initial and kept action by action; the safety
property is a part or a consequence of it. A theorem whose property needs columns that
round nothing says so (`ASSUME ExactColumns`: `Scale = 1`, `Grid = 1`).

**Sums** (`LedgerProofs`). Most of what keeps the books is a sum over the rows of a table. The
prover's induction theorems cannot be used, so the lemmas about `SumFunctionOnSet` (one
element more, one summand changed, a sum that grows with its summands, ...) are proved by
the smallest counterexample: a set of least cardinality for which the fact fails, which
one element less would not be. The same module has the arithmetic of the columns:
rounding is monotone, idempotent, and at most half a unit off.

**Order engine** (`OrderEngineProofs`): any rounding, unless stated.

* `TypeCorrect`, `Invariance`: the inductive invariant is `IInv`, types and `OpenOrdersRest`.
  Types alone are not inductive: that a fill's lock is an amount needs that the rows a
  tick has selected have a trigger, and that an order found PENDING is a resting one of
  that symbol. No free balance is ever negative.
* `OneTradePerFillHolds`: with `IInv`, the property is itself inductive; the case
  that matters is `FillOrder`, where `StillPending` makes the trades empty.
* `EndedOrdersStayHolds`: the action property, by cases of `Next` on one row. It speaks of
  the time while the owner's account exists, as `Next` does (section 7).
* `FillPriceHolds`: needs that a selected row is triggered when it fills and that
  rounding of the price columns is monotone.
* `LocksMatch`, `WalletsMatch`, `WalletsCover` (exact columns) and `RoundingBounded` (any
  `Scale`, `Grid = 1`) share the invariant `DriftIInv`. A step of the tables inserts, cancels or
  fills one row, and changes one wallet by what that row moves; each step may drift from
  the exact books by one unit of the column for each of the two things that can happen to an
  order (it is placed, it ends), so a user's drift is within `Budget`, the count of both.
  With exact columns the unit is nothing, and the same argument gives equality.
* `EngineImplementsEscrow`: the refinement, for exact columns; every step of the engine
  is a step of one escrow or a stutter.

**Transactions** (`OrderTxProofs`). The invariant `TxInv` says of each open transaction that it
is a `Run` of the statements of its order: for some k, the first k updates are done, each
on what the one before left, starting from the tables as they are *now*; the rest is what
is to do. That the tables are still what the transaction has read is what the row locks are
for: no two transactions have a wallet's row (`RowsApart`) or an order (`OrdersApart`), an order
that is being ended is PENDING, a placement has an id left (`IdsLeft`).

* `TxImplementsEngine`: what the statements commit is a step of `OrderEngine`, and all else
  leaves its variables alone. So all that is proved of the engine holds of the statements.
* `TxTypesHold`: types, also of what is only read and written back later.
* `DeadlocksAreOppositeHolds`: under `OneQuote` (the feed's markets are all quoted in USDT).
  Who waits has one wallet and wants another; of one user there are base wallets and one
  quote wallet, so a circle of waiting transactions, of any length, passes through the quote
  wallet, and the one that has it and the one that waits for it wait for each other.

**Composed wallets** (`ExchangeProofs`): orders, wallet and admin routes, and staking, without
on-chain withdrawals and the pollers (section 7). `ExchangeInv` has for every wallet that
what is locked is what PENDING orders and sends hold, that its total is what trades,
history, sends, stakes and corrections explain, and that the free part is not below what
admins took back. Each
action of each service is shown to change the tables' sums by what it changes in the
wallet. `LocksMatchHolds`, `BooksKept`, `OverdrawnOnlyByAdmins`, `ExchangeTypes` (exact columns);
`SettledSendsStayHolds`.

**Staking** (`StakingProofs`). The invariant adds to the two properties what ties the two
readings of the clock: a request is at most `MaxWait` old, so a row's `matures_at` and
`staked_at` are. `WholeDays` is the arithmetic: who comes at his maturity has all whole days
but one at most. `StakesPaidOnce`, `TermsServed`; `StakingBooks` (exact columns): wallets, active
stakes and interest add up.

**Withdrawals and the process** (`ServerProofs`). `WithdrawalInv` says for each place of a
handler what the chain may know and whether the amount is held. `ServerImplementsWithdrawals`
shows that every step of `Server` is one of `OnchainWithdrawal` or none; from it and the
counts of the feed's ticks follow `SuccessIsSent`, `HeardRefundsUnsent`, `FeedLeavesOne` and
the action property `GracefulLosesNone`. `WalletsMatch`: a wallet lacks what its withdrawals
hold, a sum that each step changes by one summand.

**Sessions** (`SessionsProofs`), any number of handlers. The invariant is the types, that a
link is held by one reset at most and has set no password before it is used (`LinkInv`), and
the two properties about old sessions, which are inductive with it: whatever writes a
password or suspends leaves no session live that is neither `spared` nor awaited by a second
query. `LinksSetOnce`, `OldSessionsEnd`, `SuspendedSessionsEnd`.

**Deposits** (`DepositsProofs`), any number of polls, users and transactions. `CreditsInv`: one
row for a transaction, and as many units in a wallet as rows. A poll's list holds only what
the chain has confirmed, and confirmed transactions stay, so old answers do no harm:
`ConfirmedBacked` (for BTC), `EthBacked`. `ErrorsAlonePass` needs for each poll that what lies
before its window is done and that what lies in it is done, listed or of an address still
to come; a poll that ends has nothing of the last two.

**BTC custody** (`DepositsProofs`), any numbers of users, withdrawals and transactions, any
amounts and fee rates, any order of the outputs. `WithdrawalAddsUp` is about the selection
alone: for every list of outputs, what goes ahead spends what it sends, keeps and pays. The
invariant `CustodyInv` carries that over to the chain: a transaction that a handler has
sent is what its plan says of the outputs it listed, whatever has happened to them since;
only withdrawals spend; no two valid transactions spend one output; a transaction spends
older ones, so that one which vanishes takes no confirmed one with it (the oldest would have
spent one older still); and a wallet is what was credited to it less what its withdrawals hold.
`GoesAheadHolds` and `NoNeedlessHolds` follow at once; `BooksMatchHolds` by adding up: what an
address ever got is unspent or spent, what is spent is a union of disjoint sets of inputs, one
for each withdrawal that pays, and each of them is what it sends, keeps and pays. Whom a
withdrawal pays makes no difference to its sender's side; on the payee's it is a payment
like any other. What separates the books is named in the property: payments without a
credit, withdrawals without a transaction that are not refunded, fees, change credited
again, refunds of what was sent, and the rounding to satoshi.
`CustodyTypeCorrect` has the types.

Only model-checked: liveness (`TriggeredOrdersEnd`, `TransactionsEnd`, `WithdrawalsSettle`,
`ShutdownNeedsNoTimer`, `DepositsGetCredited`), which is beyond the prover.

## 7. What is not modelled, and why

* Reads without effect (order book, histories, summaries), support tickets, the email
  and avatar: one statement each, nothing to go wrong between.
* Signup: one transaction on rows no other handler knows yet. Refresh writes no row, and
  access tokens are stateless, valid until they expire.
* The deletion of an account outside of `Sessions`: `DELETE FROM users` takes the user's
  wallets, orders, trades, stakes and tokens with it (`account.js:123-126`, `ON DELETE
  CASCADE`). The other modules follow accounts that stay: that ended orders stay, and that
  only settlements deadlock (the cascade may, with a placement that has locked a wallet and
  needs the user's row), is said of those. Users share no row, so what is said of the
  others' rows does not depend on it.
* On-chain withdrawals and the pollers' credits in `Exchange`. They use the same
  `wallets.balance`; a withdrawal leaves no row in any table, a credit one in
  `onchain_deposits`. `BooksBalance` therefore speaks of what the services composed there make
  of a wallet; what the other two do to it is `WalletsMatchWithdrawals`,
  `NoUnbackedCredit`, `NoUnbackedEthCredit` and `BooksMatchChain`.
* What the WebSocket sends; logging, rate limits, input parsing, key derivation.
* A `fetch` of prices that never returns: the feed then stands still, and nothing in the
  code promises otherwise.
* Wallet rows that do not exist yet: `ensureWallet` creates them with zero, and the
  models start with all of them.
* Replacement of BTC transactions by fee, beyond a deposit's own sender; forks of a
  chain: what an API calls confirmed stays so. What TronGrid lists, and when, is outside
  of the code: `NoUnbackedCredit` is checked for the poller that looks at confirmations.
* Migrations and command-line helpers: one-off programs beside the server.
* Bounds of `NUMERIC(30,10)`: twenty digits before the point are out of reach.

## 8. Plan

Done, in this order: `Ledger`, `OrderEscrow`, `OrderEngine` with its proofs,
`WalletRoutes`, `Staking`, `Exchange`, `OnchainWithdrawal`, `CoinSelection`,
`Deposits`, `AddressPoller`, `EthPoller`, `Sessions`; then `OrderTx`, `Custody`, `Server` and
the proofs of staking, withdrawals and the process, sessions and pollers; then the sums
over tables, `Exchange`, `OrderTx` and `Custody`. To come:

1. Signup and refresh, if a bound of `sessions` can be found that leaves room for them.
