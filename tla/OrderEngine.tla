---------------------------- MODULE OrderEngine ----------------------------
(***************************************************************************)
(* The order engine: placing, cancelling and filling orders against the     *)
(* wallets (src/services/orderEngine.js), driven by HTTP requests           *)
(* (src/routes/orders.js) and by the price feed (src/services/priceFeed.js).*)
(*                                                                          *)
(* Every database transaction is one step: each starts by taking the row    *)
(* lock or by the guarded UPDATE that decides it, and takes effect at its   *)
(* COMMIT.  What the code awaits between transactions is a step of its own: *)
(* a request reads the cached price and places its order later; a tick      *)
(* caches the price, then reads the pending orders, then fills them one     *)
(* transaction at a time.                                                   *)
(***************************************************************************)
EXTENDS Ledger, FiniteSets, Sequences

CONSTANTS
    Users, Assets, Symbols,
    Base, Quote,      \* splitSymbol: the assets of a symbol
    Quantities,       \* quantities a request may ask for
    Prices,           \* prices a request or the feed may name
    OrderIds,         \* ids the orders table may hand out (bounds the runs)
    Handlers,         \* order requests in flight at once
    InitialBalance,   \* what every wallet holds at the start
    Nil               \* no price, no order, no request

ASSUME OrderEngineAssumption ==
    /\ Base \in [Symbols -> Assets] /\ Quote \in [Symbols -> Assets]
    /\ \A s \in Symbols : Base[s] # Quote[s]
    /\ Quantities \subseteq Nat \ {0} /\ Prices \subseteq Nat \ {0}
    /\ InitialBalance \in Nat
    /\ Nil \notin Nat

VARIABLES
    balance,   \* wallets.balance,        [Users -> [Assets -> amount]]
    locked,    \* wallets.locked_balance, [Users -> [Assets -> amount]]
    orders,    \* the orders table, Nil for an id not yet given out
    trades,    \* the trades table: the rows of each order, oldest first
    price,     \* the price cached in Redis for each symbol
    request,   \* the order each handler carries between its two steps
    feed       \* the poll in progress

dbVars == <<balance, locked, orders, trades>>
vars   == <<balance, locked, orders, trades, price, request, feed>>

Sides == {"BUY", "SELL"}
Types == {"MARKET", "LIMIT", "STOP_LOSS"}

\* The body of POST /api/orders, as the route and placeOrder accept it.
OrderArgs ==
    {a \in [user : Users, symbol : Symbols, side : Sides, type : Types,
            quantity : Quantities, trigger : Prices \cup {Nil}] :
        (a.trigger = Nil) <=> (a.type = "MARKET")}

Status == {"PENDING", "FILLED", "CANCELLED"}

StoredQuantities == {StoredInput(q) : q \in Quantities}
StoredPrices     == {StoredInput(p) : p \in Prices}

\* A row of the orders table; `trigger` is price or stop_price, by type.
OrderRows ==
    {o \in [user : Users, symbol : Symbols, side : Sides, type : Types,
            quantity : StoredQuantities, trigger : StoredPrices \cup {Nil},
            status : Status, filled_price : StoredPrices \cup {Nil}] :
        (o.trigger = Nil) <=> (o.type = "MARKET")}

\* Nil is no row, and nothing else that is told apart from it.
ASSUME NilAssumption ==
    /\ Nil \notin OrderRows
    /\ Nil \notin [owner : Users, asset : Assets, amount : Nat]

NoPoll == [pc |-> "idle", quotes |-> [s \in Symbols |-> Nil],
           symbol |-> Nil, price |-> Nil, rows |-> {}]

TypeOK ==
    /\ balance \in [Users -> [Assets -> Nat]]
    /\ locked \in [Users -> [Assets -> Int]]
    /\ orders \in [OrderIds -> OrderRows \cup {Nil}]
    /\ trades \in [OrderIds -> Seq([quantity : StoredQuantities, price : StoredPrices])]
    /\ price \in [Symbols -> Prices \cup {Nil}]
    /\ request \in [Handlers -> [args : OrderArgs, latest : Prices] \cup {Nil}]
    /\ feed \in [pc : {"idle", "cache", "select", "fill"},
                 quotes : [Symbols -> Prices \cup {Nil}],
                 symbol : Symbols \cup {Nil}, price : Prices \cup {Nil},
                 rows : SUBSET OrderIds]
    /\ feed.pc \in {"select", "fill"} => feed.symbol \in Symbols /\ feed.price \in Prices

Init ==
    /\ balance = [u \in Users |-> [a \in Assets |-> InitialBalance]]
    /\ locked = [u \in Users |-> [a \in Assets |-> 0]]
    /\ orders = [id \in OrderIds |-> Nil]
    /\ trades = [id \in OrderIds |-> <<>>]
    /\ price = [s \in Symbols |-> Nil]
    /\ request = [h \in Handlers |-> Nil]
    /\ feed = NoPoll

-----------------------------------------------------------------------------
(* Funds an order holds, and what settling it does to the wallets.          *)

LockAsset(o) == IF o.side = "BUY" THEN Quote[o.symbol] ELSE Base[o.symbol]

\* What is locked for an order of this side, quantity and reference price.
LockAmount(o, at) ==
    IF o.side = "BUY" THEN QuoteAmount(o.quantity, at) ELSE BaseAmount(o.quantity)

\* lockFunds' guard.  (Mutant: a lockFunds that trusts an earlier check.)
CanLockUnchecked(u, a, amount) == TRUE

CanLock(u, a, amount) == balance[u][a] >= amount

\* Mutants of settleFill: a SELL paid at the order's own price instead of the
\* fill's, and a BUY that gives the difference back and forgets the purchase.
BalanceAtOwnPrice(from, o, lock, at) ==
    IF o.side = "BUY"
    THEN Add(from, o.user, Base[o.symbol], BaseAmount(o.quantity))
    ELSE Add(from, o.user, Quote[o.symbol],
             QuoteAmount(o.quantity, IF o.trigger = Nil THEN at ELSE o.trigger))
BalanceUncredited(from, o, lock, at) ==
    IF o.side = "BUY"
    THEN Add(from, o.user, Quote[o.symbol], lock - QuoteAmount(o.quantity, at))
    ELSE Add(from, o.user, Quote[o.symbol], QuoteAmount(o.quantity, at))

\* The balances after settleFill: `lock` is what the order had locked.  A
\* BUY gets back what the lock exceeds the fill by, if anything.
BalanceAfterFill(from, o, lock, at) ==
    LET worth  == QuoteAmount(o.quantity, at)
        refund == lock - worth
        repaid == IF refund > 0 THEN Add(from, o.user, Quote[o.symbol], refund) ELSE from
    IN  IF o.side = "BUY"
        THEN Add(repaid, o.user, Base[o.symbol], BaseAmount(o.quantity))
        ELSE Add(from, o.user, Quote[o.symbol], worth)

\* Mutant: a settled SELL keeps its base asset locked.
LockedBySide(from, o, lock) ==
    IF o.side = "BUY" THEN Add(from, o.user, Quote[o.symbol], -lock) ELSE from

LockedAfterFill(from, o, lock) ==
    IF o.side = "BUY" THEN Add(from, o.user, Quote[o.symbol], -lock)
                      ELSE Add(from, o.user, Base[o.symbol], -BaseAmount(o.quantity))

\* settleFill on top of the given columns, for the order row `o` of id `id`.
Settle(fromBalance, fromLocked, id, o, lock, at) ==
    /\ balance' = BalanceAfterFill(fromBalance, o, lock, at)
    /\ locked' = LockedAfterFill(fromLocked, o, lock)
    /\ orders' = [orders EXCEPT ![id] =
                    [o EXCEPT !.status = "FILLED", !.filled_price = StoredInput(at)]]
    /\ trades' = [trades EXCEPT ![id] =
                    Append(@, [quantity |-> o.quantity, price |-> StoredInput(at)])]

-----------------------------------------------------------------------------
(* HTTP requests.                                                           *)

FreshIds == {id \in OrderIds : orders[id] = Nil}
NextId   == CHOOSE id \in FreshIds : TRUE

\* The row INSERT INTO orders ... RETURNING * gives back for a request.
InsertedRow(a) ==
    [user |-> a.user, symbol |-> a.symbol, side |-> a.side, type |-> a.type,
     quantity |-> StoredInput(a.quantity),
     trigger |-> IF a.type = "MARKET" THEN Nil ELSE StoredInput(a.trigger),
     status |-> "PENDING", filled_price |-> Nil]

\* placeOrder up to pool.connect(): the request is valid and a price is cached.
ReadLatestPrice(h) ==
    /\ request[h] = Nil
    /\ \E a \in OrderArgs :
          /\ price[a.symbol] # Nil
          /\ request' = [request EXCEPT ![h] = [args |-> a, latest |-> price[a.symbol]]]
    /\ UNCHANGED <<dbVars, price, feed>>

\* placeOrder's transaction for MARKET: lock at the price read, then settle.
PlaceMarket(h) ==
    /\ request[h] # Nil
    /\ FreshIds # {}
    /\ LET a     == request[h].args
           at    == request[h].latest
           lock  == LockAmount(a, at)
           asset == LockAsset(a)
       IN  /\ a.type = "MARKET"
           /\ CanLock(a.user, asset, lock)
           /\ Settle(Add(balance, a.user, asset, -lock), Add(locked, a.user, asset, lock),
                     NextId, InsertedRow(a), lock, at)
    /\ request' = [request EXCEPT ![h] = Nil]
    /\ UNCHANGED <<price, feed>>

\* placeOrder's transaction for LIMIT and STOP_LOSS: lock and leave PENDING.
PlaceResting(h) ==
    /\ request[h] # Nil
    /\ FreshIds # {}
    /\ LET a     == request[h].args
           lock  == LockAmount(a, a.trigger)
           asset == LockAsset(a)
       IN  /\ a.type # "MARKET"
           /\ CanLock(a.user, asset, lock)
           /\ balance' = Add(balance, a.user, asset, -lock)
           /\ locked' = Add(locked, a.user, asset, lock)
           /\ orders' = [orders EXCEPT ![NextId] = InsertedRow(a)]
    /\ request' = [request EXCEPT ![h] = Nil]
    /\ UNCHANGED <<trades, price, feed>>

\* ROLLBACK: insufficient funds, no connection, or chosen as deadlock victim.
RejectOrder(h) ==
    /\ request[h] # Nil
    /\ request' = [request EXCEPT ![h] = Nil]
    /\ UNCHANGED <<dbVars, price, feed>>

\* cancelOrder's checks under the row lock: the owner's, and still PENDING.
\* (Mutant: only a second cancel is refused.)
MayCancelTwiceOnly(u, id) ==
    orders[id].user = u /\ orders[id].type # "MARKET" /\ orders[id].status # "CANCELLED"

MayCancel(u, id) == orders[id].user = u /\ orders[id].status = "PENDING"

\* cancelOrder: the amount to release is computed again, from the stored columns.
CancelOrder(u, id) ==
    /\ orders[id] # Nil
    /\ MayCancel(u, id)
    /\ LET o    == orders[id]
           lock == LockAmount(o, o.trigger)
       IN  /\ balance' = Add(balance, u, LockAsset(o), lock)
           /\ locked' = Add(locked, u, LockAsset(o), -lock)
    /\ orders' = [orders EXCEPT ![id].status = "CANCELLED"]
    /\ UNCHANGED <<trades, price, request, feed>>

-----------------------------------------------------------------------------
(* The price feed and processTick.                                          *)

\* A poll got an answer from CoinGecko; a coin may be missing from it.
FetchQuotes ==
    /\ feed.pc = "idle"
    /\ \E quotes \in [Symbols -> Prices \cup {Nil}] :
          feed' = [NoPoll EXCEPT !.pc = "cache", !.quotes = quotes]
    /\ UNCHANGED <<dbVars, price, request>>

\* redis.set for the next symbol of the poll.
CachePrice(s) ==
    /\ feed.pc = "cache"
    /\ feed.quotes[s] # Nil
    /\ price' = [price EXCEPT ![s] = feed.quotes[s]]
    /\ feed' = [feed EXCEPT !.pc = "select", !.quotes[s] = Nil,
                            !.symbol = s, !.price = feed.quotes[s]]
    /\ UNCHANGED <<dbVars, request>>

\* The WHERE clause of processTick's SELECT.  (Mutant: stops are forgotten.)
SelectedLimits(id) ==
    /\ orders[id] # Nil
    /\ orders[id].symbol = feed.symbol /\ orders[id].status = "PENDING"
    /\ orders[id].type = "LIMIT"

Selected(id) ==
    /\ orders[id] # Nil
    /\ orders[id].symbol = feed.symbol /\ orders[id].status = "PENDING"
    /\ orders[id].type \in {"LIMIT", "STOP_LOSS"}

SelectPending ==
    /\ feed.pc = "select"
    /\ feed' = [feed EXCEPT !.pc = "fill", !.rows = {id \in OrderIds : Selected(id)}]
    /\ UNCHANGED <<dbVars, price, request>>

\* Mutant: stops trigger on the same side as limits.
TriggersLikeLimit(o, at) == IF o.side = "BUY" THEN at <= o.trigger ELSE at >= o.trigger

\* The trigger condition: a LIMIT fills at its price or better, a STOP_LOSS
\* once the price has moved to or past the stop.
Triggers(o, at) ==
    IF (o.type = "LIMIT") = (o.side = "BUY") THEN at <= o.trigger ELSE at >= o.trigger

FillPrice(o, at) == IF o.type = "LIMIT" THEN o.trigger ELSE at

\* The status read again under the row lock.  (Mutant: the selected row is trusted.)
SelectedRowTrusted(id) == TRUE

StillPending(id) == orders[id].status = "PENDING"

\* One order of the tick: re-check the status under the row lock and settle.
FillOrder(id) ==
    /\ feed.pc = "fill"
    /\ id \in feed.rows
    /\ LET o == orders[id]
       IN  /\ Triggers(o, feed.price)
           /\ StillPending(id)
           /\ Settle(balance, locked, id, o, LockAmount(o, o.trigger), FillPrice(o, feed.price))
    /\ feed' = [feed EXCEPT !.rows = @ \ {id}]
    /\ UNCHANGED <<price, request>>

\* Not triggered, or no longer PENDING: go on with the next order.
PassOver(id) ==
    /\ feed.pc = "fill"
    /\ id \in feed.rows
    /\ ~ (Triggers(orders[id], feed.price) /\ StillPending(id))
    /\ feed' = [feed EXCEPT !.rows = @ \ {id}]
    /\ UNCHANGED <<dbVars, price, request>>

\* The fill's transaction failed and was rolled back: the order stays PENDING.
FillFails(id) ==
    /\ feed.pc = "fill"
    /\ id \in feed.rows
    /\ Triggers(orders[id], feed.price) /\ StillPending(id)
    /\ feed' = [feed EXCEPT !.rows = @ \ {id}]
    /\ UNCHANGED <<dbVars, price, request>>

\* The symbol's orders are all handled.
EndTick ==
    /\ feed.pc = "fill"
    /\ feed.rows = {}
    /\ feed' = [feed EXCEPT !.pc = "cache", !.symbol = Nil, !.price = Nil]
    /\ UNCHANGED <<dbVars, price, request>>

\* No connection for the SELECT or for a fill: the error ends this symbol's
\* tick, whatever is left of it, and the poll goes on with the next symbol.
AbortTick ==
    /\ feed.pc = "select" \/ (feed.pc = "fill" /\ feed.rows # {})
    /\ feed' = [feed EXCEPT !.pc = "cache", !.symbol = Nil, !.price = Nil, !.rows = {}]
    /\ UNCHANGED <<dbVars, price, request>>

EndPoll ==
    /\ feed.pc = "cache"
    /\ \A s \in Symbols : feed.quotes[s] = Nil
    /\ feed' = NoPoll
    /\ UNCHANGED <<dbVars, price, request>>

\* The process dies and comes back: requests and the poll are lost, the
\* database and the Redis cache are not.
Restart ==
    /\ request' = [h \in Handlers |-> Nil]
    /\ feed' = NoPoll
    /\ UNCHANGED <<dbVars, price>>

-----------------------------------------------------------------------------
Requests ==
    \/ \E h \in Handlers :
          ReadLatestPrice(h) \/ PlaceMarket(h) \/ PlaceResting(h) \/ RejectOrder(h)
    \/ \E u \in Users, id \in OrderIds : CancelOrder(u, id)

\* What the feed does as long as nothing fails.
FeedProgress ==
    \/ FetchQuotes
    \/ \E s \in Symbols : CachePrice(s)
    \/ SelectPending
    \/ \E id \in OrderIds : FillOrder(id) \/ PassOver(id)
    \/ EndTick \/ EndPoll

FeedFailure == AbortTick \/ \E id \in OrderIds : FillFails(id)

\* The deletion of an account is not among the steps: it takes the user's wallets, orders
\* and trades with it (ON DELETE CASCADE) and touches nobody else's.
Next == Requests \/ FeedProgress \/ FeedFailure \/ Restart

Spec == Init /\ [][Next]_vars

\* The polls are chained promises: once one is queued, the event loop runs it
\* to its end, and the interval queues the next.  Users owe nothing.
FairSpec == Spec /\ WF_vars(FeedProgress)

-----------------------------------------------------------------------------
(* Properties.  (The ones that add up over orders are in OrderAudit.)       *)

Placed(id)  == orders[id] # Nil
Pending(id) == Placed(id) /\ orders[id].status = "PENDING"
Filled(id)  == Placed(id) /\ orders[id].status = "FILLED"

\* An order has its one trade exactly when it is FILLED, and the trade says
\* what the row says; a cancelled or a pending order has none.  A fill racing a
\* cancel, a second fill of the same selection, or a tick after a restart could
\* each leave two trades, or a trade of a cancelled order (settleFill writes
\* the row and the trade, processTick re-checks the status under the lock).
OneTradePerFill ==
    \A id \in OrderIds :
        trades[id] = IF Filled(id)
                     THEN <<[quantity |-> orders[id].quantity, price |-> orders[id].filled_price]>>
                     ELSE <<>>

\* No filled order is worse for its owner than its type allows: a LIMIT fills
\* at its own price; a STOP_LOSS only once the price has reached the stop, from
\* the side the order waits for (processTick's trigger and fill price).
FillPriceRespectsTrigger ==
    \A id \in OrderIds : Filled(id) =>
        LET o == orders[id]
        IN  /\ o.type = "LIMIT" => o.filled_price = o.trigger
            /\ o.type = "STOP_LOSS" /\ o.side = "BUY"  => o.filled_price >= o.trigger
            /\ o.type = "STOP_LOSS" /\ o.side = "SELL" => o.filled_price <= o.trigger

\* As long as its owner's account exists, an order's row and trades neither change
\* nor go once it is FILLED or CANCELLED, and a PENDING row changes only by ending:
\* whatever cancels, ticks and restarts do in between.  (DELETE /api/account,
\* account.js:123-126, deletes the rows of all orders and trades of its user; see Next.)
OrdersStay ==
    \A id \in OrderIds : Placed(id) =>
        \/ UNCHANGED <<orders[id], trades[id]>>
        \/ /\ Pending(id)
           /\ orders'[id].status \in {"FILLED", "CANCELLED"}
           /\ orders'[id] = [orders[id] EXCEPT !.status = orders'[id].status,
                                               !.filled_price = orders'[id].filled_price]

EndedOrdersStay == [][OrdersStay]_vars

\* Every amount an order may hold or bring in.
Amounts == {QuoteAmount(q, p) : q \in Quantities, p \in Prices}
             \cup {BaseAmount(q) : q \in Quantities}

\* The wallets as a set of escrows, one for each PENDING order: see OrderEscrow.
Escrows ==
    [id \in OrderIds |->
        IF Pending(id)
        THEN [owner  |-> orders[id].user, asset |-> LockAsset(orders[id]),
              amount |-> LockAmount(orders[id], orders[id].trigger)]
        ELSE Nil]
Ended == {id \in OrderIds : Placed(id) /\ ~Pending(id)}

Escrow == INSTANCE OrderEscrow WITH free <- balance, escrow <- Escrows, ended <- Ended

\* With exact columns the engine implements the escrow: an order takes its funds
\* from its owner's free balance alone, holds all of them until it ends, and ends
\* once, giving all of them back or exchanging them for the other asset.
ImplementsEscrow == Escrow!Spec

\* A tick has come whose price triggers the pending order id.
TickTriggers(id) ==
    /\ feed.pc = "select"
    /\ Pending(id) /\ orders[id].symbol = feed.symbol
    /\ Triggers(orders[id], feed.price)

\* A step in which the feed loses work: a failed fill, an aborted tick, a crash.
Interruption == FeedFailure \/ (feed' = NoPoll /\ feed # NoPoll /\ ~EndPoll)

\* An order cannot be passed over for ever: if from some point on nothing fails
\* and prices that trigger it keep coming, it ends, filled or cancelled, though
\* orders are placed and cancelled between the tick's steps all the time.
TriggeredOrdersEnd ==
    \A id \in OrderIds :
        <>[][~Interruption]_vars => ([]<>TickTriggers(id) => <>(Placed(id) /\ ~Pending(id)))
=============================================================================
