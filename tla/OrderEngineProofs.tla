------------------------- MODULE OrderEngineProofs -------------------------
(***************************************************************************)
(* Proofs about the order engine, for every set of users, assets, symbols,  *)
(* orders, quantities and prices and every rounding of the columns.         *)
(***************************************************************************)
EXTENDS OrderAudit, LedgerProofs, TLAPS

Columns(S) == [Users -> [Assets -> S]]

\* A wallet update keeps the type of its table.
LEMMA AddInt ==
    ASSUME NEW c \in Columns(Int), NEW u \in Users, NEW a \in Assets, NEW x \in Int
    PROVE  Add(c, u, a, x) \in Columns(Int)
<1>1. StoredAmount(c[u][a] + x) \in Int
  BY c[u][a] + x \in Int, StoredAmountInt DEF Columns
<1> QED
  BY <1>1 DEF Add, Columns

\* A wallet column that takes in nothing negative stays non-negative.
LEMMA AddNat ==
    ASSUME NEW c \in Columns(Nat), NEW u \in Users, NEW a \in Assets, NEW x \in Int,
           c[u][a] + x >= 0
    PROVE  Add(c, u, a, x) \in Columns(Nat)
<1>1. StoredAmount(c[u][a] + x) \in Nat
  BY c[u][a] + x \in Nat, StoredAmountNat DEF Columns
<1> QED
  BY <1>1 DEF Add, Columns

\* What a credit adds to a non-negative column leaves it non-negative.
LEMMA AddGain ==
    ASSUME NEW c \in Columns(Nat), NEW u \in Users, NEW a \in Assets, NEW x \in Nat
    PROVE  Add(c, u, a, x) \in Columns(Nat)
<1>1. c[u][a] \in Nat
  BY DEF Columns
<1>2. c[u][a] + x >= 0
  BY <1>1
<1> QED
  BY <1>2, AddNat

\* The orders table holds natural numbers: rounding an input keeps it one.
LEMMA StoredSets ==
    StoredQuantities \subseteq Nat /\ StoredPrices \subseteq Nat
BY OrderEngineAssumption, StoredInputNat DEF StoredQuantities, StoredPrices

\* The amounts an order moves are natural numbers.
LEMMA AmountsNat ==
    ASSUME NEW o, o.symbol \in Symbols, o.side \in Sides, o.quantity \in Nat, NEW at \in Nat
    PROVE  /\ QuoteAmount(o.quantity, at) \in Nat
           /\ BaseAmount(o.quantity) \in Nat
           /\ LockAmount(o, at) \in Nat
           /\ LockAsset(o) \in Assets
BY ScaleAssumption, OrderEngineAssumption, TimesNat
   DEF QuoteAmount, BaseAmount, LockAmount, LockAsset

\* settleFill keeps both wallet columns of the right type.
LEMMA SettleTypes ==
    ASSUME NEW b \in Columns(Nat), NEW l \in Columns(Int), NEW o \in OrderRows,
           NEW lock \in Int, NEW at \in Nat
    PROVE  /\ BalanceAfterFill(b, o, lock, at) \in Columns(Nat)
           /\ LockedAfterFill(l, o, lock) \in Columns(Int)
<1> DEFINE worth  == QuoteAmount(o.quantity, at)
           refund == lock - worth
           repaid == IF refund > 0 THEN Add(b, o.user, Quote[o.symbol], refund) ELSE b
<1>1. /\ o.user \in Users /\ o.symbol \in Symbols /\ o.quantity \in Nat /\ o.side \in Sides
      /\ Quote[o.symbol] \in Assets /\ Base[o.symbol] \in Assets
  BY StoredSets, OrderEngineAssumption DEF OrderRows
<1>2. worth \in Nat /\ BaseAmount(o.quantity) \in Nat
  BY <1>1, AmountsNat
<1> HIDE DEF worth
<1>3. repaid \in Columns(Nat)
  <2>1. refund > 0 => refund \in Nat
    BY <1>2
  <2> HIDE DEF refund
  <2> QED
    BY <1>1, <2>1, AddGain
<1> HIDE DEF repaid
<1>4. Add(repaid, o.user, Base[o.symbol], BaseAmount(o.quantity)) \in Columns(Nat)
  BY <1>1, <1>2, <1>3, AddGain
<1>5. Add(b, o.user, Quote[o.symbol], worth) \in Columns(Nat)
  BY <1>1, <1>2, AddGain
<1>6. BalanceAfterFill(b, o, lock, at) \in Columns(Nat)
  BY <1>4, <1>5 DEF BalanceAfterFill, repaid, worth
<1>7. LockedAfterFill(l, o, lock) \in Columns(Int)
  BY <1>1, <1>2, AddInt, -lock \in Int, -BaseAmount(o.quantity) \in Int DEF LockedAfterFill
<1> QED
  BY <1>6, <1>7

-----------------------------------------------------------------------------
(* The inductive invariant.  TypeOK alone is not inductive: cancelling or   *)
(* filling a MARKET order would compute with a missing price, and filling a *)
(* row that does not exist with a missing row.  What excludes both is that  *)
(* a MARKET order is never left PENDING and that a tick only selects resting*)
(* orders, which no action deletes.                                         *)
(*                                                                          *)
(* What the engine has to itself, EngineInv, is kept apart from what it     *)
(* shares with other services, the two columns of the wallets: Exchange     *)
(* keeps EngineInv too, though its wallets may be overdrawn.                *)

Resting(id) == Placed(id) /\ orders[id].type # "MARKET"

OpenOrdersRest ==
    \A id \in OrderIds : Pending(id) \/ id \in feed.rows => Resting(id)

TradeRows == [quantity : StoredQuantities, price : StoredPrices]

ColumnsOK == balance \in Columns(Nat) /\ locked \in Columns(Int)

TablesOK ==
    /\ orders \in [OrderIds -> OrderRows \cup {Nil}]
    /\ trades \in [OrderIds -> Seq(TradeRows)]

MemoryOK ==
    /\ price \in [Symbols -> Prices \cup {Nil}]
    /\ request \in [Handlers -> [args : OrderArgs, latest : Prices] \cup {Nil}]
    /\ feed \in [pc : {"idle", "cache", "select", "fill"},
                 quotes : [Symbols -> Prices \cup {Nil}],
                 symbol : Symbols \cup {Nil}, price : Prices \cup {Nil},
                 rows : SUBSET OrderIds]
    /\ feed.pc \in {"select", "fill"} => feed.symbol \in Symbols /\ feed.price \in Prices

EngineInv == TablesOK /\ MemoryOK /\ OpenOrdersRest
IInv      == ColumnsOK /\ EngineInv

LEMMA TypeParts == TypeOK <=> ColumnsOK /\ TablesOK /\ MemoryOK
BY DEF TypeOK, ColumnsOK, TablesOK, MemoryOK, Columns, TradeRows

\* A request's order, and the row inserted for it.
LEMMA InsertedRowType ==
    ASSUME NEW a \in OrderArgs
    PROVE  /\ InsertedRow(a) \in OrderRows
           /\ InsertedRow(a).type = a.type
           /\ InsertedRow(a).trigger = (IF a.type = "MARKET" THEN Nil ELSE StoredInput(a.trigger))
           /\ a.symbol \in Symbols /\ a.side \in Sides /\ a.user \in Users
           /\ a.quantity \in Nat
           /\ a.type # "MARKET" => a.trigger \in Prices
<1>1. /\ a.symbol \in Symbols /\ a.side \in Sides /\ a.user \in Users /\ a.type \in Types
      /\ a.quantity \in Quantities /\ a.trigger \in Prices \cup {Nil}
      /\ (a.trigger = Nil) <=> (a.type = "MARKET")
  BY DEF OrderArgs
<1>2. StoredInput(a.quantity) \in StoredQuantities
  BY <1>1 DEF StoredQuantities
<1>3. a.type # "MARKET" => StoredInput(a.trigger) \in StoredPrices /\ StoredInput(a.trigger) # Nil
  BY <1>1, StoredSets, OrderEngineAssumption DEF StoredPrices
<1> QED
  BY <1>1, <1>2, <1>3, OrderEngineAssumption DEF InsertedRow, OrderRows, Status

\* Locking: the guard keeps the balance from going negative, whatever rounding does.
LEMMA LockTypes ==
    ASSUME ColumnsOK, NEW u \in Users, NEW a \in Assets, NEW amount \in Nat, CanLock(u, a, amount)
    PROVE  /\ Add(balance, u, a, -amount) \in Columns(Nat)
           /\ Add(locked, u, a, amount) \in Columns(Int)
<1>1. balance[u][a] \in Nat /\ balance[u][a] >= amount
  BY DEF ColumnsOK, Columns, CanLock
<1>2. -amount \in Int /\ balance[u][a] + (-amount) >= 0
  BY <1>1
<1> QED
  BY <1>2, AddNat, AddInt DEF ColumnsOK

\* A row of the table, for an order that is placed.
LEMMA RowType ==
    ASSUME TablesOK, NEW id \in OrderIds, Placed(id)
    PROVE  /\ orders[id] \in OrderRows
           /\ orders[id].user \in Users /\ orders[id].symbol \in Symbols
           /\ orders[id].side \in Sides /\ orders[id].quantity \in Nat
           /\ Resting(id) => orders[id].trigger \in StoredPrices /\ orders[id].trigger \in Nat
<1>1. orders[id] \in OrderRows
  BY DEF TablesOK, Placed
<1> QED
  BY <1>1, StoredSets DEF OrderRows, Resting

\* The invariant holds when the service is first started.
LEMMA InitEngine == Init => TablesOK /\ MemoryOK /\ OpenOrdersRest
BY DEF Init, TablesOK, MemoryOK, NoPoll, OpenOrdersRest, Pending, Placed

LEMMA InitInv == Init => IInv
BY InitEngine, OrderEngineAssumption DEF Init, IInv, EngineInv, ColumnsOK, Columns

\* settleFill keeps the type of the two tables it writes.
LEMMA SettleTables ==
    ASSUME TablesOK, NEW b, NEW l, NEW id \in OrderIds, NEW o \in OrderRows, NEW lock,
           NEW at, StoredInput(at) \in StoredPrices, Settle(b, l, id, o, lock, at)
    PROVE  TablesOK'
<1>1. [o EXCEPT !.status = "FILLED", !.filled_price = StoredInput(at)] \in OrderRows
  BY DEF OrderRows, Status
<1>2. orders' \in [OrderIds -> OrderRows \cup {Nil}]
  BY <1>1 DEF Settle, TablesOK
<1>3. [quantity |-> o.quantity, price |-> StoredInput(at)] \in TradeRows
  BY DEF OrderRows, TradeRows
<1>4. trades' \in [OrderIds -> Seq(TradeRows)]
  BY <1>3 DEF Settle, TablesOK
<1> QED
  BY <1>2, <1>4 DEF TablesOK

\* The id the orders table hands out next.
LEMMA NextIdFresh ==
    ASSUME FreshIds # {}
    PROVE  NextId \in OrderIds /\ orders[NextId] = Nil /\ ~Placed(NextId)
BY DEF FreshIds, NextId, Placed

\* A request in flight carries a valid body and the price it read.
LEMMA RequestType ==
    ASSUME MemoryOK, NEW h \in Handlers, request[h] # Nil
    PROVE  request[h].args \in OrderArgs /\ request[h].latest \in Prices
BY DEF MemoryOK

\* A reference price is a price, whether requested or read from the cache.
LEMMA PriceTypes ==
    ASSUME NEW p \in Prices
    PROVE  p \in Nat /\ StoredInput(p) \in StoredPrices
BY OrderEngineAssumption DEF StoredPrices

\* placeOrder for a MARKET order.
LEMMA PlaceMarketTypes ==
    ASSUME EngineInv, NEW h \in Handlers, PlaceMarket(h)
    PROVE  TablesOK' /\ MemoryOK' /\ (ColumnsOK => ColumnsOK')
<1> DEFINE a     == request[h].args
           at    == request[h].latest
           lock  == LockAmount(a, at)
           asset == LockAsset(a)
<1>1. a \in OrderArgs /\ at \in Nat /\ StoredInput(at) \in StoredPrices /\ NextId \in OrderIds
  BY RequestType, PriceTypes, NextIdFresh DEF PlaceMarket, EngineInv
<1>2. CanLock(a.user, asset, lock)
      /\ Settle(Add(balance, a.user, asset, -lock), Add(locked, a.user, asset, lock),
                NextId, InsertedRow(a), lock, at)
  BY DEF PlaceMarket
<1> HIDE DEF a, at
<1>3. lock \in Nat /\ asset \in Assets /\ a.user \in Users /\ InsertedRow(a) \in OrderRows
  BY <1>1, InsertedRowType, AmountsNat
<1> HIDE DEF lock, asset
<1>4. TablesOK'
  BY <1>1, <1>2, <1>3, SettleTables DEF EngineInv
<1>5. MemoryOK'
  BY DEF PlaceMarket, EngineInv, MemoryOK
<1>6. ASSUME ColumnsOK PROVE ColumnsOK'
  <2>1. Add(balance, a.user, asset, -lock) \in Columns(Nat)
        /\ Add(locked, a.user, asset, lock) \in Columns(Int)
    BY <1>2, <1>3, <1>6, LockTypes
  <2> QED
    BY <1>1, <1>2, <1>3, <2>1, SettleTypes DEF Settle, ColumnsOK
<1> QED
  BY <1>4, <1>5, <1>6

\* placeOrder for a LIMIT or STOP_LOSS order.
LEMMA PlaceRestingTypes ==
    ASSUME EngineInv, NEW h \in Handlers, PlaceResting(h)
    PROVE  TablesOK' /\ MemoryOK' /\ (ColumnsOK => ColumnsOK')
<1> DEFINE a     == request[h].args
           lock  == LockAmount(a, a.trigger)
           asset == LockAsset(a)
<1>1. a \in OrderArgs /\ NextId \in OrderIds /\ a.type # "MARKET"
  BY RequestType, NextIdFresh DEF PlaceResting, EngineInv
<1>2. /\ CanLock(a.user, asset, lock)
      /\ balance' = Add(balance, a.user, asset, -lock)
      /\ locked' = Add(locked, a.user, asset, lock)
      /\ orders' = [orders EXCEPT ![NextId] = InsertedRow(a)]
      /\ trades' = trades
  BY DEF PlaceResting
<1> HIDE DEF a
<1>3. lock \in Nat /\ asset \in Assets /\ a.user \in Users /\ InsertedRow(a) \in OrderRows
  BY <1>1, InsertedRowType, AmountsNat, PriceTypes
<1> HIDE DEF lock, asset
<1>4. TablesOK'
  BY <1>1, <1>2, <1>3 DEF TablesOK, EngineInv
<1>5. MemoryOK'
  BY DEF PlaceResting, EngineInv, MemoryOK
<1>6. ColumnsOK => ColumnsOK'
  BY <1>2, <1>3, LockTypes DEF ColumnsOK
<1> QED
  BY <1>4, <1>5, <1>6

\* cancelOrder: what it releases is not negative.
LEMMA CancelOrderTypes ==
    ASSUME EngineInv, NEW u \in Users, NEW id \in OrderIds, CancelOrder(u, id)
    PROVE  TablesOK' /\ MemoryOK' /\ (ColumnsOK => ColumnsOK')
<1> DEFINE o     == orders[id]
           lock  == LockAmount(o, o.trigger)
           asset == LockAsset(o)
<1>1. o \in OrderRows /\ lock \in Nat /\ asset \in Assets
  <2>1. TablesOK /\ Placed(id) /\ Resting(id)
    BY DEF EngineInv, OpenOrdersRest, CancelOrder, MayCancel, Pending, Placed
  <2> QED
    BY <2>1, RowType, AmountsNat
<1>2. /\ balance' = Add(balance, u, asset, lock)
      /\ locked' = Add(locked, u, asset, -lock)
      /\ orders' = [orders EXCEPT ![id].status = "CANCELLED"]
      /\ trades' = trades
  BY DEF CancelOrder, MayCancel
<1>3. [o EXCEPT !.status = "CANCELLED"] \in OrderRows
  BY <1>1 DEF OrderRows, Status
<1> HIDE DEF lock, asset
<1>4. TablesOK'
  BY <1>2, <1>3 DEF TablesOK, EngineInv
<1>5. MemoryOK'
  BY DEF CancelOrder, MayCancel, EngineInv, MemoryOK
<1>6. ColumnsOK => ColumnsOK'
  BY <1>1, <1>2, AddGain, AddInt, -lock \in Int DEF ColumnsOK
<1> QED
  BY <1>4, <1>5, <1>6

\* The row a tick fills, and the price it fills it at.
LEMMA FilledRowType ==
    ASSUME EngineInv, NEW id \in OrderIds, FillOrder(id)
    PROVE  /\ Placed(id) /\ Resting(id)
           /\ orders[id] \in OrderRows /\ orders[id].trigger \in StoredPrices
           /\ LockAmount(orders[id], orders[id].trigger) \in Nat
           /\ FillPrice(orders[id], feed.price) \in Nat
           /\ StoredInput(FillPrice(orders[id], feed.price)) \in StoredPrices
<1>1. TablesOK /\ Placed(id) /\ Resting(id) /\ feed.price \in Prices
  BY DEF EngineInv, OpenOrdersRest, FillOrder, StillPending, Resting, MemoryOK
<1>2. orders[id] \in OrderRows /\ LockAmount(orders[id], orders[id].trigger) \in Nat
      /\ orders[id].trigger \in StoredPrices /\ orders[id].trigger \in Nat
  BY <1>1, RowType, AmountsNat
<1>3. StoredInput(orders[id].trigger) \in StoredPrices
  BY <1>2, StoredInputNat, OrderEngineAssumption DEF StoredPrices
<1> QED
  BY <1>1, <1>2, <1>3, PriceTypes DEF FillPrice

\* One fill of processTick.
LEMMA FillOrderTypes ==
    ASSUME EngineInv, NEW id \in OrderIds, FillOrder(id)
    PROVE  TablesOK' /\ MemoryOK' /\ (ColumnsOK => ColumnsOK')
<1>1. Settle(balance, locked, id, orders[id], LockAmount(orders[id], orders[id].trigger),
             FillPrice(orders[id], feed.price))
  BY DEF FillOrder, StillPending
<1>2. TablesOK'
  BY <1>1, FilledRowType, SettleTables DEF EngineInv
<1>3. MemoryOK'
  BY DEF FillOrder, StillPending, EngineInv, MemoryOK
<1>4. ColumnsOK => ColumnsOK'
  BY <1>1, FilledRowType, SettleTypes DEF Settle, ColumnsOK
<1> QED
  BY <1>2, <1>3, <1>4

\* Every step keeps the types.
LEMMA NextTypes ==
    ASSUME EngineInv, [Next]_vars
    PROVE  TablesOK' /\ MemoryOK' /\ (ColumnsOK => ColumnsOK')
<1> DEFINE Kept == TablesOK' /\ MemoryOK' /\ (ColumnsOK => ColumnsOK')
<1>0. ASSUME UNCHANGED dbVars, MemoryOK' PROVE Kept
  BY <1>0 DEF dbVars, EngineInv, TablesOK, ColumnsOK
<1> USE DEF EngineInv, MemoryOK
<1>1. ASSUME NEW h \in Handlers, ReadLatestPrice(h) PROVE Kept
  <2>1. PICK a \in OrderArgs :
           /\ price[a.symbol] # Nil
           /\ request' = [request EXCEPT ![h] = [args |-> a, latest |-> price[a.symbol]]]
    BY <1>1 DEF ReadLatestPrice
  <2>2. price[a.symbol] \in Prices
    BY <2>1, InsertedRowType
  <2>3. [args |-> a, latest |-> price[a.symbol]] \in [args : OrderArgs, latest : Prices]
    BY <2>2
  <2>4. UNCHANGED <<dbVars, price, feed>>
    BY <1>1 DEF ReadLatestPrice
  <2>5. MemoryOK'
    BY <2>1, <2>3, <2>4
  <2> QED
    BY <1>0, <2>4, <2>5
<1>2. ASSUME NEW h \in Handlers, RejectOrder(h) PROVE Kept
  BY <1>0, <1>2 DEF RejectOrder
<1>3. CASE FetchQuotes
  BY <1>0, <1>3 DEF FetchQuotes, NoPoll
<1>4. ASSUME NEW s \in Symbols, CachePrice(s) PROVE Kept
  <2>1. feed.quotes[s] \in Prices
    BY <1>4 DEF CachePrice
  <2> QED
    BY <1>0, <1>4, <2>1 DEF CachePrice
<1>5. CASE SelectPending
  BY <1>0, <1>5 DEF SelectPending
<1>6. ASSUME NEW id \in OrderIds, PassOver(id) \/ FillFails(id) PROVE Kept
  BY <1>0, <1>6 DEF PassOver, FillFails
<1>7. CASE EndTick \/ AbortTick
  <2>1. CASE EndTick
    BY <1>0, <2>1 DEF EndTick
  <2>2. CASE AbortTick
    BY <1>0, <2>2 DEF AbortTick
  <2> QED
    BY <1>7, <2>1, <2>2
<1>8. CASE EndPoll
  BY <1>0, <1>8 DEF EndPoll, NoPoll
<1>9. CASE Restart
  BY <1>0, <1>9 DEF Restart, NoPoll
<1>10. CASE UNCHANGED vars
  BY <1>0, <1>10 DEF vars, dbVars
<1> HIDE DEF EngineInv, MemoryOK, Kept
<1> QED
  BY <1>1, <1>2, <1>3, <1>4, <1>5, <1>6, <1>7, <1>8, <1>9, <1>10,
     PlaceMarketTypes, PlaceRestingTypes, CancelOrderTypes, FillOrderTypes
  DEF Next, Requests, FeedProgress, FeedFailure, Kept

\* What a step does to the orders table: one row is inserted, cancelled or
\* filled, or nothing changes.  Everything below argues by these four cases.
RowInserted(id) ==
    /\ ~Placed(id)
    /\ orders' = [orders EXCEPT ![id] = orders'[id]] /\ orders'[id] \in OrderRows
    /\ orders'[id].status = "PENDING" /\ orders'[id].type # "MARKET"
    /\ trades' = trades

RowCancelled(id) ==
    /\ Pending(id)
    /\ orders' = [orders EXCEPT ![id] = orders'[id]] /\ orders'[id] \in OrderRows
    /\ orders'[id] = [orders[id] EXCEPT !.status = "CANCELLED"]
    /\ trades' = trades

\* o is the row as it is when it is filled: a new one, or a pending one.
RowFilled(id, o, at) ==
    /\ o \in OrderRows /\ o.status = "PENDING" /\ StoredInput(at) \in StoredPrices
    /\ orders' = [orders EXCEPT ![id] =
                    [o EXCEPT !.status = "FILLED", !.filled_price = StoredInput(at)]]
    /\ trades' = [trades EXCEPT ![id] =
                    Append(@, [quantity |-> o.quantity, price |-> StoredInput(at)])]

MarketFill(id) ==
    /\ ~Placed(id)
    /\ \E o \in OrderRows, at \in Prices :
          o.type = "MARKET" /\ o.trigger = Nil /\ RowFilled(id, o, at)

TickFill(id) ==
    /\ Pending(id) /\ Resting(id)
    /\ feed.price \in Prices
    /\ Triggers(orders[id], feed.price)
    /\ RowFilled(id, orders[id], FillPrice(orders[id], feed.price))

\* What placeOrder, cancelOrder and processTick do to the one row they are about.
LEMMA MarketRow ==
    ASSUME EngineInv, NEW h \in Handlers, PlaceMarket(h)
    PROVE  LET o == InsertedRow(request[h].args)
           IN  /\ NextId \in OrderIds /\ ~Placed(NextId) /\ request[h].latest \in Prices
               /\ o \in OrderRows /\ o.type = "MARKET" /\ o.trigger = Nil
               /\ RowFilled(NextId, o, request[h].latest)
<1> DEFINE a == request[h].args
           o == InsertedRow(a)
<1>1. a \in OrderArgs /\ request[h].latest \in Prices /\ NextId \in OrderIds
      /\ ~Placed(NextId) /\ a.type = "MARKET"
  BY RequestType, NextIdFresh DEF PlaceMarket, EngineInv
<1>2. o \in OrderRows /\ o.type = "MARKET" /\ o.trigger = Nil
  BY <1>1, InsertedRowType
<1>3. o.status = "PENDING"
  BY DEF InsertedRow
<1>4. RowFilled(NextId, o, request[h].latest)
  BY <1>1, <1>2, <1>3, PriceTypes DEF PlaceMarket, Settle, RowFilled
<1> QED
  BY <1>1, <1>2, <1>4

LEMMA RestingRow ==
    ASSUME EngineInv, NEW h \in Handlers, PlaceResting(h)
    PROVE  /\ NextId \in OrderIds /\ RowInserted(NextId)
           /\ orders'[NextId] = InsertedRow(request[h].args)
<1> DEFINE a == request[h].args
           o == InsertedRow(a)
<1>1. a \in OrderArgs /\ NextId \in OrderIds /\ ~Placed(NextId) /\ a.type # "MARKET"
  BY RequestType, NextIdFresh DEF PlaceResting, EngineInv
<1>2. o \in OrderRows /\ o.type # "MARKET" /\ o.status = "PENDING"
  BY <1>1, InsertedRowType DEF InsertedRow
<1>3. orders' = [orders EXCEPT ![NextId] = o] /\ trades' = trades
  BY DEF PlaceResting
<1>4. orders'[NextId] = o
  BY <1>1, <1>3 DEF EngineInv, TablesOK
<1>5. RowInserted(NextId)
  BY <1>1, <1>2, <1>3, <1>4 DEF RowInserted
<1> QED
  BY <1>1, <1>4, <1>5

LEMMA CancelledRow ==
    ASSUME EngineInv, NEW u \in Users, NEW id \in OrderIds, CancelOrder(u, id)
    PROVE  RowCancelled(id) /\ orders[id].user = u
<1>0. orders \in [OrderIds -> OrderRows \cup {Nil}]
  BY DEF EngineInv, TablesOK
<1>1. orders' = [orders EXCEPT ![id].status = "CANCELLED"] /\ trades' = trades /\ Pending(id)
      /\ orders[id].user = u
  BY DEF CancelOrder, MayCancel, Pending, Placed
<1>2. orders'[id] = [orders[id] EXCEPT !.status = "CANCELLED"]
  BY <1>0, <1>1
<1>3. orders'[id] \in OrderRows
  BY <1>0, <1>1, <1>2 DEF OrderRows, Pending, Placed, Status
<1> QED
  BY <1>0, <1>1, <1>2, <1>3 DEF RowCancelled

LEMMA TickRow ==
    ASSUME EngineInv, NEW id \in OrderIds, FillOrder(id)
    PROVE  TickFill(id)
<1>1. Placed(id) /\ Resting(id) /\ orders[id] \in OrderRows
      /\ StoredInput(FillPrice(orders[id], feed.price)) \in StoredPrices
  BY FilledRowType
<1>2. feed.price \in Prices
  BY DEF FillOrder, StillPending, EngineInv, MemoryOK
<1> QED
  BY <1>1, <1>2 DEF FillOrder, StillPending, Settle, TickFill, RowFilled, Pending

\* What a step can do to the orders table and to the trades.
LEMMA RowCases ==
    ASSUME EngineInv, [Next]_vars
    PROVE  \/ \E id \in OrderIds : RowInserted(id) \/ RowCancelled(id) \/ MarketFill(id)
                                      \/ TickFill(id)
           \/ UNCHANGED <<orders, trades>>
<1> DEFINE Cases == \/ \E id \in OrderIds : RowInserted(id) \/ RowCancelled(id)
                                               \/ MarketFill(id) \/ TickFill(id)
                    \/ UNCHANGED <<orders, trades>>
<1>1. ASSUME NEW h \in Handlers, PlaceMarket(h) PROVE Cases
  BY <1>1, MarketRow DEF MarketFill
<1>2. ASSUME NEW h \in Handlers, PlaceResting(h) PROVE Cases
  BY <1>2, RestingRow
<1>3. ASSUME NEW u \in Users, NEW id \in OrderIds, CancelOrder(u, id) PROVE Cases
  BY <1>3, CancelledRow
<1>4. ASSUME NEW id \in OrderIds, FillOrder(id) PROVE Cases
  BY <1>4, TickRow
<1>5. CASE UNCHANGED vars
  BY <1>5 DEF vars, dbVars
<1> QED
  BY <1>1, <1>2, <1>3, <1>4, <1>5
  DEF Next, Requests, FeedProgress, FeedFailure, ReadLatestPrice, RejectOrder, FetchQuotes,
      CachePrice, SelectPending, Selected, PassOver, FillFails, EndTick, AbortTick, EndPoll, Restart, dbVars

\* What a tick holds selected, it selected as resting orders.
LEMMA SelectedRest ==
    ASSUME EngineInv, [Next]_vars, NEW id \in OrderIds, id \in feed'.rows
    PROVE  Resting(id)
<1> USE DEF EngineInv, MemoryOK, OpenOrdersRest
<1>1. CASE SelectPending
  BY <1>1 DEF SelectPending, Selected, Resting, Placed
<1>2. CASE id \in feed.rows
  BY <1>2
<1>3. CASE ~SelectPending
  <2>0. feed = [pc |-> feed.pc, quotes |-> feed.quotes, symbol |-> feed.symbol,
                price |-> feed.price, rows |-> feed.rows]
    OBVIOUS
  <2>1. CASE FetchQuotes \/ EndPoll \/ Restart
    <3>1. CASE FetchQuotes
      <4>1. PICK q \in [Symbols -> Prices \cup {Nil}] :
               feed' = [NoPoll EXCEPT !.pc = "cache", !.quotes = q]
        BY <3>1 DEF FetchQuotes
      <4> QED
        BY <4>1 DEF NoPoll
    <3>2. CASE EndPoll \/ Restart
      BY <3>2 DEF EndPoll, Restart, NoPoll
    <3> QED
      BY <2>1, <3>1, <3>2
  <2>2. ASSUME NEW s \in Symbols, CachePrice(s) PROVE Resting(id)
    BY <2>0, <2>2 DEF CachePrice
  <2>3. ASSUME NEW j \in OrderIds, FillOrder(j) \/ PassOver(j) \/ FillFails(j)
        PROVE Resting(id)
    BY <2>0, <2>3 DEF FillOrder, StillPending, PassOver, FillFails
  <2>4. CASE EndTick \/ AbortTick
    BY <2>0, <2>4 DEF EndTick, AbortTick
  <2>5. CASE feed' = feed
    BY <2>5
  <2> QED
    BY <1>3, <2>1, <2>2, <2>3, <2>4, <2>5
    DEF Next, Requests, FeedProgress, FeedFailure, ReadLatestPrice, PlaceMarket, PlaceResting,
        RejectOrder, CancelOrder, MayCancel, vars
<1> QED
  BY <1>1, <1>2, <1>3

\* Every step keeps a pending order a resting one without trades.
LEMMA NextOpenOrdersRest ==
    ASSUME EngineInv, [Next]_vars
    PROVE  OpenOrdersRest'
<1> SUFFICES ASSUME NEW i \in OrderIds, Pending(i)' \/ i \in feed'.rows
             PROVE  Resting(i)'
  BY DEF OpenOrdersRest
<1>0. orders \in [OrderIds -> OrderRows \cup {Nil}] /\ (Pending(i) => Resting(i))
  BY DEF EngineInv, TablesOK, OpenOrdersRest
<1>1. i \in feed'.rows => Resting(i)
  BY SelectedRest
<1>3. CASE UNCHANGED <<orders, trades>>
  BY <1>0, <1>1, <1>3 DEF Resting, Placed, Pending
<1>4. ASSUME NEW id \in OrderIds, RowInserted(id) PROVE Resting(i)'
  <2>1. orders'[id] # Nil
    BY <1>4, NilAssumption DEF RowInserted
  <2> QED
    BY <1>0, <1>1, <1>4, <2>1 DEF RowInserted, Resting, Placed, Pending
<1>5. ASSUME NEW id \in OrderIds, RowCancelled(id) PROVE Resting(i)'
  <2>1. orders'[id] # Nil /\ orders[id] \in OrderRows
    BY <1>0, <1>5, NilAssumption DEF RowCancelled, Pending, Placed
  <2>2. orders'[id].type = orders[id].type /\ orders'[id].status = "CANCELLED"
    BY <2>1, <1>5 DEF RowCancelled, OrderRows
  <2> QED
    BY <1>0, <1>1, <1>5, <2>1, <2>2 DEF RowCancelled, Resting, Placed, Pending
<1>6. ASSUME NEW id \in OrderIds, MarketFill(id) PROVE Resting(i)'
  <2>1. i # id => orders'[i] = orders[i]
    BY <1>0, <1>6 DEF MarketFill, RowFilled
  <2>2. orders'[id].status = "FILLED" /\ ~Resting(id)
    BY <1>0, <1>6 DEF MarketFill, RowFilled, Resting, OrderRows
  <2> QED
    BY <1>0, <1>1, <2>1, <2>2 DEF Resting, Placed, Pending
<1>7. ASSUME NEW id \in OrderIds, TickFill(id) PROVE Resting(i)'
  <2>1. i # id => orders'[i] = orders[i]
    BY <1>0, <1>7 DEF TickFill, RowFilled
  <2>2. orders[id].type # "MARKET"
    BY <1>7 DEF TickFill, Resting
  <2>3. orders'[id] \in OrderRows /\ orders'[id].type = orders[id].type
    BY <1>0, <1>7 DEF TickFill, RowFilled, OrderRows, Status
  <2> QED
    BY <1>0, <1>1, <2>1, <2>2, <2>3, NilAssumption DEF Resting, Placed, Pending
<1> QED
  BY <1>3, <1>4, <1>5, <1>6, <1>7, RowCases

\* The invariant is inductive.
LEMMA NextEngine == EngineInv /\ [Next]_vars => EngineInv'
BY NextTypes, NextOpenOrdersRest DEF EngineInv

LEMMA NextInv == IInv /\ [Next]_vars => IInv'
BY NextTypes, NextEngine DEF IInv

\* The inductive invariant holds in every reachable state, for every instance:
\* the tables stay well-formed, and only resting orders are PENDING and they have
\* no trade yet.
THEOREM Invariance == Spec => []IInv
BY InitInv, NextInv, PTL DEF Spec

\* Every table and every variable of the process keeps its type.  With it goes
\* that no wallet's free balance is ever overdrawn, however placing, cancelling,
\* filling and restarting interleave and however the columns round
\* (lockFunds' guarded UPDATE).
THEOREM TypeCorrect == Spec => []TypeOK
<1>1. IInv => TypeOK
  BY TypeParts DEF IInv, EngineInv
<1> QED
  BY <1>1, Invariance, PTL
-----------------------------------------------------------------------------
(* The orders and their trades.                                             *)

\* The rows other than the one a step is about are left alone; the one it is
\* about is filled from a row that had no trade, and gets one.
LEMMA NextOneTrade ==
    ASSUME EngineInv, OneTradePerFill, [Next]_vars
    PROVE  OneTradePerFill'
<1> DEFINE Right(i) == trades[i] = IF Filled(i)
                          THEN <<[quantity |-> orders[i].quantity, price |-> orders[i].filled_price]>>
                          ELSE <<>>
<1> SUFFICES ASSUME NEW i \in OrderIds PROVE Right(i)'
  BY DEF OneTradePerFill, Filled, Placed
<1>0. /\ orders \in [OrderIds -> OrderRows \cup {Nil}]
      /\ trades \in [OrderIds -> Seq(TradeRows)]
      /\ Right(i)
  BY DEF EngineInv, TablesOK, OneTradePerFill
<1>1. CASE UNCHANGED <<orders, trades>>
  BY <1>0, <1>1 DEF Filled, Placed
<1>2. ASSUME NEW id \in OrderIds, RowInserted(id) PROVE Right(i)'
  BY <1>0, <1>2 DEF RowInserted, Filled, Placed
<1>3. ASSUME NEW id \in OrderIds, RowCancelled(id) PROVE Right(i)'
  <2>1. orders'[id].status = "CANCELLED"
    BY <1>0, <1>3 DEF RowCancelled, Pending, Placed, OrderRows
  <2> QED
    BY <1>0, <1>3, <2>1 DEF RowCancelled, Filled, Pending, Placed
<1>4. ASSUME NEW id \in OrderIds, NEW o, NEW at, RowFilled(id, o, at), ~Filled(id)
      PROVE Right(i)'
  <2> DEFINE r == [quantity |-> o.quantity, price |-> StoredInput(at)]
  <2>1. i # id => orders'[i] = orders[i] /\ trades'[i] = trades[i]
    BY <1>0, <1>4 DEF RowFilled
  <2>2. /\ orders'[id] \in OrderRows /\ orders'[id].status = "FILLED"
        /\ orders'[id].quantity = o.quantity /\ orders'[id].filled_price = StoredInput(at)
    BY <1>0, <1>4 DEF RowFilled, OrderRows, Status
  <2>3. i = id => trades[id] = <<>>
    BY <1>0, <1>4
  <2>4. i = id => trades'[id] = <<r>>
    BY <1>0, <1>4, <2>3 DEF RowFilled
  <2> QED
    BY <1>0, <2>1, <2>2, <2>4, NilAssumption DEF Filled, Placed
<1>5. ASSUME NEW id \in OrderIds, MarketFill(id) PROVE Right(i)'
  BY <1>4, <1>5 DEF MarketFill, Filled
<1>6. ASSUME NEW id \in OrderIds, TickFill(id) PROVE Right(i)'
  BY <1>4, <1>6 DEF TickFill, Filled, Pending
<1> QED
  BY <1>1, <1>2, <1>3, <1>5, <1>6, RowCases

\* An order has its one trade exactly when it is FILLED.  The proof shows why the
\* re-check under the row lock is what matters: a fill starts from a row that is
\* still PENDING, and a PENDING row has no trade.
THEOREM OneTradePerFillHolds == Spec => []OneTradePerFill
<1>1. Init => OneTradePerFill
  BY DEF Init, OneTradePerFill, Filled, Placed
<1>2. IInv /\ OneTradePerFill /\ [Next]_vars => OneTradePerFill'
  BY NextOneTrade DEF IInv
<1> QED
  BY <1>1, <1>2, Invariance, PTL DEF Spec

\* What is over stays as it is while its owner's account exists: no placement, cancel,
\* tick or restart touches a FILLED or CANCELLED row or its trades again.  Only the
\* deletion of the account does, which is no step of the engine.
THEOREM EndedOrdersStayHolds == Spec => EndedOrdersStay
<1> DEFINE Stays(i) ==
          \/ UNCHANGED <<orders[i], trades[i]>>
          \/ /\ Pending(i)
             /\ orders'[i].status \in {"FILLED", "CANCELLED"}
             /\ orders'[i] = [orders[i] EXCEPT !.status = orders'[i].status,
                                               !.filled_price = orders'[i].filled_price]
<1>1. ASSUME EngineInv, [Next]_vars
      PROVE  OrdersStay
  <2> SUFFICES ASSUME NEW i \in OrderIds, Placed(i) PROVE Stays(i)
    BY DEF OrdersStay
  <2>0. /\ orders \in [OrderIds -> OrderRows \cup {Nil}]
        /\ trades \in [OrderIds -> Seq(TradeRows)]
        /\ orders[i] \in OrderRows
    BY <1>1 DEF EngineInv, TablesOK, Placed
  <2>1. CASE UNCHANGED <<orders, trades>>
    BY <2>1
  <2>2. ASSUME NEW id \in OrderIds, RowInserted(id) \/ MarketFill(id) PROVE Stays(i)
    BY <2>0, <2>2 DEF RowInserted, MarketFill, RowFilled
  <2>3. ASSUME NEW id \in OrderIds, RowCancelled(id) PROVE Stays(i)
    <3>1. CASE i # id
      BY <2>0, <2>3, <3>1 DEF RowCancelled
    <3>2. CASE i = id
      <4>1. orders'[i] = [orders[i] EXCEPT !.status = "CANCELLED"] /\ Pending(i)
        BY <2>3, <3>2 DEF RowCancelled
      <4>2. orders'[i].status = "CANCELLED" /\ orders'[i].filled_price = orders[i].filled_price
        BY <2>0, <4>1 DEF OrderRows
      <4> QED
        BY <2>0, <4>1, <4>2 DEF OrderRows
    <3> QED
      BY <3>1, <3>2
  <2>4. ASSUME NEW id \in OrderIds, TickFill(id) PROVE Stays(i)
    <3>1. CASE i # id
      BY <2>0, <2>4, <3>1 DEF TickFill, RowFilled
    <3>2. CASE i = id
      <4> DEFINE p == StoredInput(FillPrice(orders[i], feed.price))
      <4>1. orders'[i] = [orders[i] EXCEPT !.status = "FILLED", !.filled_price = p] /\ Pending(i)
        BY <2>0, <2>4, <3>2 DEF TickFill, RowFilled
      <4> HIDE DEF p
      <4>2. orders'[i].status = "FILLED" /\ orders'[i].filled_price = p
        BY <2>0, <4>1 DEF OrderRows
      <4> QED
        BY <2>0, <4>1, <4>2 DEF OrderRows
    <3> QED
      BY <3>1, <3>2
  <2> QED
    BY <1>1, <2>1, <2>2, <2>3, <2>4, RowCases
<1> QED
  <2>1. IInv /\ [Next]_vars => [OrdersStay]_vars
    BY <1>1 DEF IInv
  <2> QED
    BY <2>1, Invariance, PTL DEF Spec, EndedOrdersStay
-----------------------------------------------------------------------------
(* Fill prices.                                                             *)

\* The row a tick's fill leaves respects its trigger: rounding the fill price
\* to its column keeps it on the trigger's side, the trigger being on a column
\* already.
LEMMA TriggeredFill ==
    ASSUME NEW o \in OrderRows, o.type # "MARKET", NEW at \in Prices, Triggers(o, at)
    PROVE  LET p == StoredInput(FillPrice(o, at))
           IN  /\ o.type = "LIMIT" => p = o.trigger
               /\ o.type = "STOP_LOSS" /\ o.side = "BUY"  => p >= o.trigger
               /\ o.type = "STOP_LOSS" /\ o.side = "SELL" => p <= o.trigger
<1>1. o.trigger \in StoredPrices /\ o.side \in Sides /\ o.type \in Types
  BY DEF OrderRows
<1>2. PICK q \in Prices : o.trigger = StoredInput(q)
  BY <1>1 DEF StoredPrices
<1>3. o.trigger \in Nat /\ StoredInput(o.trigger) = o.trigger /\ at \in Nat
  BY <1>2, StoredInputNat, PriceTypes
<1>4. CASE o.type = "LIMIT"
  BY <1>3, <1>4 DEF FillPrice
<1>5. CASE o.type = "STOP_LOSS" /\ o.side = "BUY"
  <2>1. o.trigger <= at
    BY <1>3, <1>5 DEF Triggers
  <2>2. StoredInput(o.trigger) <= StoredInput(at)
    BY <1>3, <2>1, StoredInputMonotone
  <2>3. StoredInput(at) \in Nat
    BY <1>3, StoredInputNat
  <2> QED
    BY <1>3, <1>5, <2>2, <2>3 DEF FillPrice
<1>6. CASE o.type = "STOP_LOSS" /\ o.side = "SELL"
  <2>1. at <= o.trigger
    BY <1>3, <1>6 DEF Triggers
  <2>2. StoredInput(at) <= StoredInput(o.trigger)
    BY <1>3, <2>1, StoredInputMonotone
  <2> QED
    BY <1>3, <1>6, <2>2 DEF FillPrice
<1> QED
  BY <1>1, <1>4, <1>5, <1>6 DEF Types, Sides

\* Every step keeps the fill prices within what the triggers allow.
LEMMA NextFillPrice ==
    ASSUME EngineInv, FillPriceRespectsTrigger, [Next]_vars
    PROVE  FillPriceRespectsTrigger'
<1> DEFINE Respects(o) ==
              /\ o.type = "LIMIT" => o.filled_price = o.trigger
              /\ o.type = "STOP_LOSS" /\ o.side = "BUY"  => o.filled_price >= o.trigger
              /\ o.type = "STOP_LOSS" /\ o.side = "SELL" => o.filled_price <= o.trigger
<1> SUFFICES ASSUME NEW i \in OrderIds, Filled(i)' PROVE Respects(orders'[i])
  BY DEF FillPriceRespectsTrigger
<1>0. /\ orders \in [OrderIds -> OrderRows \cup {Nil}]
      /\ Filled(i) => Respects(orders[i])
  BY DEF EngineInv, TablesOK, FillPriceRespectsTrigger
<1>1. CASE orders'[i] = orders[i]
  BY <1>0, <1>1 DEF Filled, Placed
<1>2. ASSUME NEW id \in OrderIds, RowInserted(id) \/ RowCancelled(id) PROVE Respects(orders'[i])
  <2>1. i = id => orders'[i].status \in {"PENDING", "CANCELLED"}
    BY <1>0, <1>2 DEF RowInserted, RowCancelled, OrderRows, Pending, Placed
  <2> QED
    BY <1>0, <1>1, <1>2, <2>1 DEF RowInserted, RowCancelled, Filled
<1>3. ASSUME NEW id \in OrderIds, MarketFill(id) PROVE Respects(orders'[i])
  <2>1. i = id => orders'[i].type = "MARKET"
    BY <1>0, <1>3 DEF MarketFill, RowFilled, OrderRows
  <2> QED
    BY <1>0, <1>1, <1>3, <2>1 DEF MarketFill, RowFilled
<1>4. ASSUME NEW id \in OrderIds, TickFill(id) PROVE Respects(orders'[i])
  <2> DEFINE o == orders[id]
             p == StoredInput(FillPrice(o, feed.price))
  <2>1. o \in OrderRows /\ o.type # "MARKET" /\ feed.price \in Prices /\ Triggers(o, feed.price)
    BY <1>4 DEF TickFill, RowFilled, Resting
  <2>2. orders' = [orders EXCEPT ![id] = [o EXCEPT !.status = "FILLED", !.filled_price = p]]
    BY <1>4 DEF TickFill, RowFilled
  <2>3. /\ o.type = "LIMIT" => p = o.trigger
        /\ o.type = "STOP_LOSS" /\ o.side = "BUY"  => p >= o.trigger
        /\ o.type = "STOP_LOSS" /\ o.side = "SELL" => p <= o.trigger
    BY <2>1, TriggeredFill
  <2> HIDE DEF p
  <2>4. i = id => /\ orders'[i].type = o.type /\ orders'[i].side = o.side
                  /\ orders'[i].trigger = o.trigger /\ orders'[i].filled_price = p
    BY <1>0, <2>1, <2>2 DEF OrderRows
  <2> QED
    BY <1>0, <1>1, <2>2, <2>3, <2>4
<1>5. CASE UNCHANGED <<orders, trades>>
  BY <1>1, <1>5
<1> QED
  BY <1>2, <1>3, <1>4, <1>5, RowCases

\* No tick fills a resting order at a price worse than its type allows, for
\* every rounding of the price columns.
THEOREM FillPriceHolds == Spec => []FillPriceRespectsTrigger
<1>1. Init => FillPriceRespectsTrigger
  BY DEF Init, FillPriceRespectsTrigger, Filled, Placed
<1>2. IInv /\ FillPriceRespectsTrigger /\ [Next]_vars => FillPriceRespectsTrigger'
  BY NextFillPrice DEF IInv
<1> QED
  BY <1>1, <1>2, Invariance, PTL DEF Spec
-----------------------------------------------------------------------------
(* The engine implements the escrow, as long as nothing is rounded.         *)

\* What a filled order brings its owner.
Received(o) == IF o.side = "BUY" THEN Base[o.symbol] ELSE Quote[o.symbol]
Gain(o, at) == IF o.side = "BUY" THEN BaseAmount(o.quantity) ELSE QuoteAmount(o.quantity, at)

\* A column that rounds nothing adds exactly.
LEMMA ExactAdd ==
    ASSUME ExactColumns, NEW c \in Columns(Int), NEW u \in Users, NEW a \in Assets, NEW x \in Int
    PROVE  Add(c, u, a, x) = [c EXCEPT ![u][a] = @ + x]
<1>1. c[u][a] + x \in Int
  BY DEF Columns
<1> QED
  BY <1>1, ExactStored DEF Add

\* With exact columns the stored inputs are the inputs.
LEMMA ExactSets ==
    ASSUME ExactColumns
    PROVE  StoredQuantities = Quantities /\ StoredPrices = Prices
<1>1. \A n \in Quantities \cup Prices : StoredInput(n) = n
  BY ExactStored, OrderEngineAssumption
<1> QED
  BY <1>1 DEF StoredQuantities, StoredPrices

\* Nothing comes back from the lock when an order fills at its lock price or above.
LEMMA ExactFill ==
    ASSUME ExactColumns, NEW b \in Columns(Nat), NEW o, NEW at \in Nat, NEW lock \in Int,
           o.user \in Users, o.symbol \in Symbols, o.side \in Sides, o.quantity \in Nat,
           o.side = "BUY" => lock <= QuoteAmount(o.quantity, at)
    PROVE  BalanceAfterFill(b, o, lock, at) = [b EXCEPT ![o.user][Received(o)] = @ + Gain(o, at)]
<1>1. /\ QuoteAmount(o.quantity, at) \in Nat /\ BaseAmount(o.quantity) \in Nat
      /\ Quote[o.symbol] \in Assets /\ Base[o.symbol] \in Assets
  BY AmountsNat, OrderEngineAssumption
<1>2. b \in Columns(Int)
  BY DEF Columns
<1>3. CASE o.side = "BUY"
  <2>1. ~(lock - QuoteAmount(o.quantity, at) > 0)
    BY <1>1, <1>3
  <2>2. BalanceAfterFill(b, o, lock, at)
            = Add(b, o.user, Base[o.symbol], BaseAmount(o.quantity))
    BY <1>3, <2>1 DEF BalanceAfterFill
  <2>3. Add(b, o.user, Base[o.symbol], BaseAmount(o.quantity))
            = [b EXCEPT ![o.user][Base[o.symbol]] = @ + BaseAmount(o.quantity)]
    <3> DEFINE u == o.user
               a == Base[o.symbol]
               x == BaseAmount(o.quantity)
    <3>1. u \in Users /\ a \in Assets /\ x \in Int
      BY <1>1
    <3> HIDE DEF u, a, x
    <3>2. Add(b, u, a, x) = [b EXCEPT ![u][a] = @ + x]
      BY <1>2, <3>1, ExactAdd
    <3> QED
      BY <3>2 DEF u, a, x
  <2> QED
    BY <1>3, <2>2, <2>3 DEF Received, Gain
<1>4. CASE o.side = "SELL"
  <2>1. BalanceAfterFill(b, o, lock, at)
            = Add(b, o.user, Quote[o.symbol], QuoteAmount(o.quantity, at))
    BY <1>4 DEF BalanceAfterFill
  <2>2. Add(b, o.user, Quote[o.symbol], QuoteAmount(o.quantity, at))
            = [b EXCEPT ![o.user][Quote[o.symbol]] = @ + QuoteAmount(o.quantity, at)]
    <3> DEFINE u == o.user
               a == Quote[o.symbol]
               x == QuoteAmount(o.quantity, at)
    <3>1. u \in Users /\ a \in Assets /\ x \in Int
      BY <1>1
    <3> HIDE DEF u, a, x
    <3>2. Add(b, u, a, x) = [b EXCEPT ![u][a] = @ + x]
      BY <1>2, <3>1, ExactAdd
    <3> QED
      BY <3>2 DEF u, a, x
  <2> QED
    BY <1>4, <2>1, <2>2 DEF Received, Gain
<1> QED
  BY <1>3, <1>4 DEF Sides

\* What a resting order holds is one of the escrow's amounts.
LEMMA AmountOfOrder ==
    ASSUME NEW o, o.quantity \in Quantities, o.side \in Sides, NEW at \in Prices
    PROVE  LockAmount(o, at) \in Amounts /\ Gain(o, at) \in Amounts
BY DEF LockAmount, Gain, Amounts

\* The asset an order brings in is not the one it holds.
LEMMA ReceivedOther ==
    ASSUME NEW o, o.symbol \in Symbols, o.side \in Sides
    PROVE  Received(o) \in Assets /\ Received(o) # LockAsset(o)
BY OrderEngineAssumption DEF Received, LockAsset, Sides

\* The escrow of one order after a step that changes no other order's row.
LEMMA EscrowsAfter ==
    ASSUME NEW id \in OrderIds, orders' = [orders EXCEPT ![id] = orders'[id]],
           orders \in [OrderIds -> OrderRows \cup {Nil}]
    PROVE  /\ Escrows' = [Escrows EXCEPT ![id] = Escrows'[id]]
           /\ \A i \in OrderIds \ {id} : i \in Ended' <=> i \in Ended
<1>1. \A i \in OrderIds \ {id} : orders'[i] = orders[i]
  OBVIOUS
<1>2. \A i \in OrderIds \ {id} : Escrows'[i] = Escrows[i] /\ (i \in Ended' <=> i \in Ended)
  BY <1>1 DEF Escrows, Ended, Pending, Placed, LockAsset, LockAmount
<1>3. Escrows = [i \in OrderIds |-> Escrows[i]] /\ Escrows' = [i \in OrderIds |-> Escrows'[i]]
  BY DEF Escrows
<1> QED
  BY <1>2, <1>3

\* cancelOrder is the release of one escrow.
LEMMA CancelReleases ==
    ASSUME ExactColumns, IInv, NEW u \in Users, NEW id \in OrderIds, CancelOrder(u, id)
    PROVE  Escrow!Release(id)
<1> DEFINE o     == orders[id]
           lock  == LockAmount(o, o.trigger)
           asset == LockAsset(o)
<1>1. /\ orders \in [OrderIds -> OrderRows \cup {Nil}] /\ balance \in Columns(Int)
      /\ Pending(id) /\ Resting(id) /\ TablesOK /\ o.user = u
  <2>1. TablesOK /\ OpenOrdersRest /\ ColumnsOK
    BY DEF IInv, EngineInv
  <2>2. Pending(id) /\ o.user = u
    BY DEF CancelOrder, MayCancel, Pending, Placed
  <2>3. orders \in [OrderIds -> OrderRows \cup {Nil}] /\ balance \in Columns(Int)
    BY <2>1 DEF TablesOK, ColumnsOK, Columns
  <2> QED
    BY <2>1, <2>2, <2>3 DEF OpenOrdersRest
<1>2. o \in OrderRows /\ lock \in Nat /\ asset \in Assets
  BY <1>1, RowType, AmountsNat DEF Pending
<1>3. Escrows[id] = [owner |-> u, asset |-> asset, amount |-> lock] /\ Escrows[id] # Nil
  <2>1. Escrows[id] = [owner |-> u, asset |-> asset, amount |-> lock]
    BY <1>1 DEF Escrows
  <2>2. [owner |-> u, asset |-> asset, amount |-> lock]
            \in [owner : Users, asset : Assets, amount : Nat]
    BY <1>2
  <2> QED
    BY <2>1, <2>2, NilAssumption
<1>4. balance' = Add(balance, u, asset, lock)
      /\ orders' = [orders EXCEPT ![id].status = "CANCELLED"]
  BY DEF CancelOrder, MayCancel
<1>5. orders' = [orders EXCEPT ![id] = orders'[id]] /\ orders'[id] \in OrderRows
      /\ orders'[id].status = "CANCELLED"
  BY <1>1, <1>2, <1>4 DEF OrderRows, Status
<1>6. ~Pending(id)' /\ Placed(id)'
  BY <1>5, NilAssumption DEF Pending, Placed
<1>7. Escrows' = [Escrows EXCEPT ![id] = Nil]
  BY <1>1, <1>5, <1>6, EscrowsAfter DEF Escrows
<1>8. Ended' = Ended \cup {id}
  BY <1>1, <1>5, <1>6, EscrowsAfter DEF Ended
<1> HIDE DEF lock, asset
<1>9. balance' = [balance EXCEPT ![u][asset] = @ + lock]
  BY <1>1, <1>2, <1>4, ExactAdd
<1>10. balance' = [balance EXCEPT ![Escrows[id].owner][Escrows[id].asset] = @ + Escrows[id].amount]
  BY <1>3, <1>9
<1> QED
  BY <1>3, <1>7, <1>8, <1>10 DEF Escrow!Release

\* Placing a LIMIT or STOP_LOSS order opens one escrow.
LEMMA RestingOpens ==
    ASSUME ExactColumns, IInv, NEW h \in Handlers, PlaceResting(h),
           NEW id, id = NextId
    PROVE  id \in OrderIds /\ \E u \in Users, a \in Assets, amount \in Amounts : Escrow!Open(id, u, a, amount)
<1> DEFINE a     == request[h].args
           lock  == LockAmount(a, a.trigger)
           asset == LockAsset(a)
           row   == InsertedRow(a)
<1>1. /\ a \in OrderArgs /\ id \in OrderIds /\ ~Placed(id) /\ a.type # "MARKET"
      /\ orders \in [OrderIds -> OrderRows \cup {Nil}] /\ balance \in Columns(Nat)
      /\ balance \in Columns(Int)
  BY RequestType, NextIdFresh DEF PlaceResting, IInv, EngineInv, TablesOK, ColumnsOK, Columns
<1>2. /\ CanLock(a.user, asset, lock)
      /\ balance' = Add(balance, a.user, asset, -lock)
      /\ orders' = [orders EXCEPT ![id] = row]
  BY DEF PlaceResting
<1> HIDE DEF a
<1>3. /\ lock \in Amounts /\ lock \in Nat /\ asset \in Assets /\ a.user \in Users
      /\ row \in OrderRows /\ row.type = a.type
  <2>1. a.quantity \in Quantities
    BY <1>1 DEF OrderArgs
  <2> QED
    BY <1>1, <2>1, InsertedRowType, AmountsNat, PriceTypes, AmountOfOrder
<1>4. /\ row.user = a.user /\ row.side = a.side /\ row.symbol = a.symbol
      /\ row.quantity = a.quantity /\ row.trigger = a.trigger /\ row.status = "PENDING"
  <2>1. a.quantity \in Int /\ a.trigger \in Int
    BY <1>1, InsertedRowType, PriceTypes
  <2> QED
    BY <1>1, <2>1, ExactStored DEF InsertedRow
<1> HIDE DEF row
<1>5. orders'[id] = row /\ orders' = [orders EXCEPT ![id] = orders'[id]]
  BY <1>1, <1>2
<1>6. Pending(id)'
  BY <1>3, <1>4, <1>5, NilAssumption DEF Pending, Placed
<1>7. Escrows' = [Escrows EXCEPT ![id] = [owner |-> a.user, asset |-> asset, amount |-> lock]]
  <2>1. LockAsset(row) = asset /\ LockAmount(row, row.trigger) = lock
    BY <1>4 DEF LockAsset, LockAmount
  <2>2. Escrows'[id] = [owner |-> row.user, asset |-> LockAsset(row),
                            amount |-> LockAmount(row, row.trigger)]
    BY <1>1, <1>5, <1>6 DEF Escrows, LockAsset, LockAmount
  <2> QED
    BY <1>1, <1>4, <1>5, <2>1, <2>2, EscrowsAfter
<1>8. Ended' = Ended /\ Escrows[id] = Nil /\ id \notin Ended
  <2>1. Escrows[id] = Nil /\ id \notin Ended /\ id \notin Ended'
    BY <1>1, <1>6 DEF Ended, Escrows, Pending
  <2>2. Ended \subseteq OrderIds /\ Ended' \subseteq OrderIds
    BY DEF Ended
  <2> QED
    BY <1>1, <1>5, <2>1, <2>2, EscrowsAfter
<1> HIDE DEF lock, asset
<1>9. balance' = [balance EXCEPT ![a.user][asset] = @ - lock]
  <2>1. Add(balance, a.user, asset, -lock) = [balance EXCEPT ![a.user][asset] = @ + (-lock)]
    BY <1>1, <1>3, ExactAdd, -lock \in Int
  <2>2. balance[a.user][asset] + (-lock) = balance[a.user][asset] - lock
    BY <1>1, <1>3 DEF Columns
  <2> QED
    BY <1>2, <2>1, <2>2
<1>10. Escrow!Open(id, a.user, asset, lock)
  BY <1>2, <1>7, <1>8, <1>9 DEF Escrow!Open, Escrow!New, CanLock
<1> QED
  BY <1>1, <1>3, <1>10
\* The mapping after a step that leaves order id FILLED: its escrow is gone.
LEMMA FilledEnds ==
    ASSUME NEW id \in OrderIds, orders \in [OrderIds -> OrderRows \cup {Nil}],
           orders' = [orders EXCEPT ![id] = orders'[id]],
           orders'[id] \in OrderRows, orders'[id].status = "FILLED"
    PROVE  Escrows' = [Escrows EXCEPT ![id] = Nil] /\ Ended' = Ended \cup {id}
<1>1. ~Pending(id)' /\ Placed(id)'
  BY NilAssumption DEF Pending, Placed
<1>2. Escrows'[id] = Nil /\ id \in Ended'
  BY <1>1 DEF Escrows, Ended
<1>3. Ended \subseteq OrderIds /\ Ended' \subseteq OrderIds
  BY DEF Ended
<1> QED
  BY <1>2, <1>3, EscrowsAfter

\* A MARKET order opens an escrow and exchanges it in one step.
LEMMA MarketExchanges ==
    ASSUME ExactColumns, IInv, NEW h \in Handlers, PlaceMarket(h), NEW id, id = NextId
    PROVE  id \in OrderIds /\ \E u \in Users, a \in Assets, amount \in Amounts :
              \E r \in Assets, gain \in Amounts : Escrow!ExchangeNow(id, u, a, amount, r, gain)
<1> DEFINE a     == request[h].args
           at    == request[h].latest
           lock  == LockAmount(a, at)
           asset == LockAsset(a)
           row   == InsertedRow(a)
           other == Received(a)
           gain  == Gain(a, at)
           u     == a.user
<1>1. /\ a \in OrderArgs /\ at \in Prices /\ at \in Nat /\ id \in OrderIds /\ ~Placed(id)
      /\ orders \in [OrderIds -> OrderRows \cup {Nil}] /\ balance \in Columns(Nat)
      /\ balance \in Columns(Int)
  BY RequestType, PriceTypes, NextIdFresh
     DEF PlaceMarket, IInv, EngineInv, TablesOK, ColumnsOK, Columns
<1>2. /\ CanLock(u, asset, lock)
      /\ Settle(Add(balance, u, asset, -lock), Add(locked, u, asset, lock), id, row, lock, at)
  BY DEF PlaceMarket
<1> HIDE DEF a, at
<1>3. /\ a.quantity \in Quantities /\ a.side \in Sides /\ a.symbol \in Symbols /\ a.user \in Users
      /\ a.quantity \in Nat
  BY <1>1, InsertedRowType DEF OrderArgs
<1>4. /\ lock \in Amounts /\ gain \in Amounts /\ asset \in Assets /\ other \in Assets
      /\ other # asset /\ lock \in Nat
  BY <1>1, <1>3, AmountsNat, AmountOfOrder, ReceivedOther
<1>5. row \in OrderRows /\ row.user = u /\ row.side = a.side /\ row.symbol = a.symbol
      /\ row.quantity = a.quantity
  <2>1. a.quantity \in Int
    BY <1>3
  <2> QED
    BY <1>1, <2>1, ExactStored, InsertedRowType DEF InsertedRow
<1> HIDE DEF row
<1>6. orders' = [orders EXCEPT ![id] = orders'[id]] /\ orders'[id] \in OrderRows
      /\ orders'[id].status = "FILLED"
  <2> DEFINE filled == [row EXCEPT !.status = "FILLED", !.filled_price = StoredInput(at)]
  <2>1. orders' = [orders EXCEPT ![id] = filled]
    BY <1>2 DEF Settle
  <2>2. filled \in OrderRows /\ filled.status = "FILLED"
    BY <1>1, <1>5, PriceTypes DEF OrderRows, Status
  <2> QED
    BY <1>1, <2>1, <2>2
<1>7. Escrows[id] = Nil /\ id \notin Ended /\ Escrows' = Escrows /\ Ended' = Ended \cup {id}
  <2>1. Escrows[id] = Nil /\ id \notin Ended
    BY <1>1 DEF Escrows, Ended, Pending
  <2>2. Escrows' = [Escrows EXCEPT ![id] = Nil] /\ Ended' = Ended \cup {id}
    BY <1>1, <1>6, FilledEnds
  <2>3. Escrows = [i \in OrderIds |-> Escrows[i]]
    BY DEF Escrows
  <2> QED
    BY <1>1, <2>1, <2>2, <2>3
<1>8. Add(balance, u, asset, -lock) = [balance EXCEPT ![u][asset] = @ - lock]
      /\ Add(balance, u, asset, -lock) \in Columns(Nat)
  <2> HIDE DEF lock, asset, u
  <2>0. u \in Users /\ -lock \in Int
    BY <1>3, <1>4 DEF u
  <2>1. Add(balance, u, asset, -lock) = [balance EXCEPT ![u][asset] = @ + (-lock)]
    BY <1>1, <1>4, <2>0, ExactAdd
  <2>2. /\ balance[u][asset] + (-lock) = balance[u][asset] - lock
        /\ balance[u][asset] + (-lock) >= 0
    BY <1>1, <1>2, <1>4, <2>0 DEF Columns, CanLock
  <2>3. Add(balance, u, asset, -lock) \in Columns(Nat)
    BY <1>1, <1>4, <2>0, <2>2, AddNat
  <2> QED
    BY <2>1, <2>2, <2>3
<1>9. balance' = [Add(balance, u, asset, -lock) EXCEPT ![u][other] = @ + gain]
  <2> DEFINE locking == Add(balance, u, asset, -lock)
  <2>1. balance' = BalanceAfterFill(locking, row, lock, at)
    BY <1>2 DEF Settle
  <2>2. row.side = "BUY" => lock <= QuoteAmount(row.quantity, at)
    BY <1>1, <1>3, <1>5, AmountsNat DEF LockAmount
  <2>3. Received(row) = other /\ Gain(row, at) = gain
    BY <1>5 DEF Received, Gain
  <2>4. locking \in Columns(Nat) /\ lock \in Int
    BY <1>4, <1>8
  <2> HIDE DEF locking, lock, other, gain
  <2>5. BalanceAfterFill(locking, row, lock, at)
            = [locking EXCEPT ![row.user][Received(row)] = @ + Gain(row, at)]
    <3>1. /\ ExactColumns /\ at \in Nat
          /\ row.user \in Users /\ row.symbol \in Symbols /\ row.side \in Sides /\ row.quantity \in Nat
      BY <1>1, <1>3, <1>5
    <3> QED
      BY ONLY <2>2, <2>4, <3>1, ExactFill
  <2> QED
    BY <1>5, <2>1, <2>3, <2>5 DEF locking
<1> HIDE DEF lock, asset, other, gain, u
<1>10. balance' = [balance EXCEPT ![u][asset] = @ - lock, ![u][other] = @ + gain]
  <2>1. balance' = [[balance EXCEPT ![u][asset] = @ - lock] EXCEPT ![u][other] = @ + gain]
    BY <1>8, <1>9
  <2>2. asset # other
    BY <1>4
  <2> QED
    BY <2>1, <2>2, Zenon
<1>11. Escrow!ExchangeNow(id, u, asset, lock, other, gain)
  BY <1>2, <1>4, <1>7, <1>10 DEF Escrow!ExchangeNow, Escrow!New, CanLock
<1> QED
  BY <1>1, <1>3, <1>4, <1>11 DEF u
\* A resting order never fills below its lock price on the BUY side, so nothing
\* of the lock comes back and the whole of it is exchanged.
LEMMA LockCoversNoMore ==
    ASSUME NEW o \in OrderRows, o.type # "MARKET", o.side = "BUY",
           NEW at \in Prices, Triggers(o, at)
    PROVE  LockAmount(o, o.trigger) <= QuoteAmount(o.quantity, FillPrice(o, at))
<1> DEFINE q == o.quantity
           t == o.trigger
           p == FillPrice(o, at)
<1>1. q \in Nat /\ t \in Nat /\ at \in Nat /\ o.type \in Types
  BY StoredSets, PriceTypes DEF OrderRows
<1>2. p \in Nat /\ t <= p
  BY <1>1 DEF FillPrice, Triggers, Types
<1>3. LockAmount(o, t) = q * t /\ QuoteAmount(q, p) = q * p
  BY DEF LockAmount, QuoteAmount
<1> HIDE DEF q, t, p
<1>4. PICK e \in Nat : p = t + e
  BY <1>1, <1>2, p - t \in Nat
<1>5. q * p = q * t + q * e /\ q * e \in Nat /\ q * t \in Nat
  BY <1>1, <1>4, TimesNat
<1>6. LockAmount(o, t) <= QuoteAmount(q, p)
  BY <1>3, <1>5
<1> QED
  BY <1>6 DEF q, t, p

\* A fill of processTick exchanges one escrow.
LEMMA FillExchanges ==
    ASSUME ExactColumns, IInv, NEW id \in OrderIds, FillOrder(id)
    PROVE  \E r \in Assets, gain \in Amounts : Escrow!Exchange(id, r, gain)
<1> DEFINE o     == orders[id]
           at    == FillPrice(o, feed.price)
           lock  == LockAmount(o, o.trigger)
           other == Received(o)
           gain  == Gain(o, at)
<1>1. /\ TablesOK /\ orders \in [OrderIds -> OrderRows \cup {Nil}] /\ balance \in Columns(Nat)
      /\ feed.price \in Prices
  BY DEF IInv, EngineInv, TablesOK, MemoryOK, ColumnsOK, FillOrder, StillPending
<1>2. /\ Placed(id) /\ Resting(id) /\ Pending(id) /\ o \in OrderRows /\ lock \in Nat
      /\ at \in Nat /\ StoredInput(at) \in StoredPrices /\ Triggers(o, feed.price)
      /\ Settle(balance, locked, id, o, lock, at)
  BY FilledRowType DEF IInv, FillOrder, StillPending, Pending
<1>3. /\ o.user \in Users /\ o.symbol \in Symbols /\ o.side \in Sides /\ o.quantity \in Nat
      /\ o.quantity \in Quantities /\ o.trigger \in Prices /\ at \in Prices
  <2>1. o.trigger \in Prices
    BY <1>1, <1>2, RowType, ExactSets
  <2>2. at \in Prices
    BY <1>1, <2>1 DEF FillPrice
  <2> QED
    BY <1>1, <1>2, <2>1, <2>2, RowType, ExactSets DEF OrderRows
<1>4. other \in Assets /\ other # LockAsset(o) /\ gain \in Amounts /\ LockAsset(o) \in Assets
  <2>1. other \in Assets /\ other # LockAsset(o)
    BY <1>3, ReceivedOther
  <2>2. gain \in Amounts
    BY <1>3, AmountOfOrder
  <2>3. LockAsset(o) \in Assets
    BY <1>3, OrderEngineAssumption DEF LockAsset
  <2> QED
    BY <2>1, <2>2, <2>3
<1>5. Escrows[id] = [owner |-> o.user, asset |-> LockAsset(o), amount |-> lock]
      /\ Escrows[id] # Nil
  <2>1. Escrows[id] = [owner |-> o.user, asset |-> LockAsset(o), amount |-> lock]
    BY <1>2 DEF Escrows
  <2>2. [owner |-> o.user, asset |-> LockAsset(o), amount |-> lock]
            \in [owner : Users, asset : Assets, amount : Nat]
    BY <1>2, <1>3, AmountsNat
  <2> QED
    BY <2>1, <2>2, NilAssumption
<1>6. orders' = [orders EXCEPT ![id] = orders'[id]] /\ orders'[id] \in OrderRows
      /\ orders'[id].status = "FILLED"
  <2> DEFINE filled == [o EXCEPT !.status = "FILLED", !.filled_price = StoredInput(at)]
  <2>1. orders' = [orders EXCEPT ![id] = filled]
    BY <1>2 DEF Settle
  <2>2. filled \in OrderRows /\ filled.status = "FILLED"
    BY <1>2 DEF OrderRows, Status
  <2> QED
    BY <1>1, <2>1, <2>2
<1>7. Escrows' = [Escrows EXCEPT ![id] = Nil] /\ Ended' = Ended \cup {id}
  BY <1>1, <1>6, FilledEnds
<1>8. balance' = [balance EXCEPT ![o.user][other] = @ + gain]
  <2>1. o.side = "BUY" => lock <= QuoteAmount(o.quantity, at)
    BY <1>1, <1>2, LockCoversNoMore DEF Resting
  <2>2. balance' = BalanceAfterFill(balance, o, lock, at)
    BY <1>2 DEF Settle
  <2>3. lock \in Int
    BY <1>2
  <2> HIDE DEF o, at, lock
  <2>4. BalanceAfterFill(balance, o, lock, at)
            = [balance EXCEPT ![o.user][Received(o)] = @ + Gain(o, at)]
    BY <1>1, <1>2, <1>3, <2>1, <2>3, ExactFill
  <2> QED
    BY <2>2, <2>4
<1>9. Escrow!Exchange(id, other, gain)
  <2> HIDE DEF o, lock, other, gain
  <2>1. balance' = [balance EXCEPT ![Escrows[id].owner][other] = @ + gain]
    BY <1>5, <1>8
  <2>2. Escrows[id].asset = LockAsset(o)
    BY <1>5
  <2> QED
    BY <1>4, <1>5, <1>7, <2>1, <2>2 DEF Escrow!Exchange
<1> QED
  BY <1>4, <1>9

\* The initial states map to the initial state of the escrow.
LEMMA EscrowInit == Init => Escrow!Init
BY DEF Init, Escrow!Init, Escrows, Ended, Pending, Placed

\* Every step maps to a step of the escrow or to a stutter.
LEMMA EscrowNext ==
    ASSUME ExactColumns, IInv, [Next]_vars
    PROVE  [Escrow!Next]_(Escrow!vars)
<1>1. ASSUME NEW h \in Handlers, PlaceMarket(h) PROVE Escrow!Next
  <2>1. PICK id : id = NextId
    OBVIOUS
  <2> QED
    BY <1>1, <2>1, MarketExchanges DEF Escrow!Next
<1>2. ASSUME NEW h \in Handlers, PlaceResting(h) PROVE Escrow!Next
  <2>1. PICK id : id = NextId
    OBVIOUS
  <2> QED
    BY <1>2, <2>1, RestingOpens DEF Escrow!Next
<1>3. ASSUME NEW u \in Users, NEW id \in OrderIds, CancelOrder(u, id) PROVE Escrow!Next
  BY <1>3, CancelReleases DEF Escrow!Next
<1>4. ASSUME NEW id \in OrderIds, FillOrder(id) PROVE Escrow!Next
  BY <1>4, FillExchanges DEF Escrow!Next
<1>5. CASE UNCHANGED <<balance, orders>>
  BY <1>5 DEF Escrow!vars, Escrows, Ended, Pending, Placed, LockAsset, LockAmount
<1> QED
  BY <1>1, <1>2, <1>3, <1>4, <1>5
  DEF Next, Requests, FeedProgress, FeedFailure, ReadLatestPrice, RejectOrder, FetchQuotes,
      CachePrice, SelectPending, Selected, PassOver, FillFails, EndTick, AbortTick, EndPoll, Restart,
      dbVars, vars

\* As long as every value fits its column, the engine is an escrow: an order holds
\* exactly what its owner's free balance gave up for it, and ends exactly once,
\* giving back all of it or exchanging all of it, whatever happens concurrently.
THEOREM EngineImplementsEscrow ==
    ASSUME ExactColumns
    PROVE  Spec => ImplementsEscrow
<1>1. Init => Escrow!Init
  BY EscrowInit
<1>2. IInv /\ [Next]_vars => [Escrow!Next]_(Escrow!vars)
  BY EscrowNext
<1> QED
  BY <1>1, <1>2, Invariance, PTL DEF Spec, ImplementsEscrow, Escrow!Spec
-----------------------------------------------------------------------------
(* What a step does to the wallets, along with the row it is about, when    *)
(* every input fits its column (Grid = 1).                                  *)

\* What a resting order holds.
LockOf(o) == LockAmount(o, o.trigger)

Locks(o, lock) ==
    /\ balance[o.user][LockAsset(o)] >= lock
    /\ balance' = Add(balance, o.user, LockAsset(o), -lock)
    /\ locked' = Add(locked, o.user, LockAsset(o), lock)

Unlocks(o, lock) ==
    /\ balance' = Add(balance, o.user, LockAsset(o), lock)
    /\ locked' = Add(locked, o.user, LockAsset(o), -lock)

Settles(o, lock, at) ==
    /\ balance' = Add(balance, o.user, Received(o), Gain(o, at))
    /\ locked' = Add(locked, o.user, LockAsset(o), -lock)

LocksAndSettles(o, lock, at) ==
    /\ balance[o.user][LockAsset(o)] >= lock
    /\ balance' = Add(Add(balance, o.user, LockAsset(o), -lock), o.user, Received(o), Gain(o, at))
    /\ locked' = Add(Add(locked, o.user, LockAsset(o), lock), o.user, LockAsset(o), -lock)

Rests(id)      == RowInserted(id) /\ Locks(orders'[id], LockOf(orders'[id]))
IsReleased(id) == RowCancelled(id) /\ Unlocks(orders[id], LockOf(orders[id]))
MarketFills(id) ==
    /\ ~Placed(id)
    /\ \E o \in OrderRows, at \in Prices :
          o.type = "MARKET" /\ RowFilled(id, o, at) /\ LocksAndSettles(o, LockAmount(o, at), at)
TickFills(id) ==
    /\ TickFill(id)
    /\ Settles(orders[id], LockOf(orders[id]), FillPrice(orders[id], feed.price))

\* settleFill gives nothing back of a lock that the fill uses up.
LEMMA NoRefund ==
    ASSUME NEW b, NEW o, o.side \in Sides, NEW at, NEW lock \in Int, QuoteAmount(o.quantity, at) \in Int,
           o.side = "BUY" => lock <= QuoteAmount(o.quantity, at)
    PROVE  BalanceAfterFill(b, o, lock, at) = Add(b, o.user, Received(o), Gain(o, at))
<1>1. o.side = "BUY" => ~(lock - QuoteAmount(o.quantity, at) > 0)
  OBVIOUS
<1> QED
  BY <1>1 DEF BalanceAfterFill, Received, Gain, Sides

\* What settleFill releases is what the order has locked.
LEMMA LockedFill ==
    ASSUME NEW l, NEW o, o.side \in Sides, NEW p
    PROVE  LockedAfterFill(l, o, LockAmount(o, p))
             = Add(l, o.user, LockAsset(o), -LockAmount(o, p))
BY DEF LockedAfterFill, LockAmount, LockAsset, Sides

\* The row inserted for a request, when its numbers fit.
LEMMA GridRow ==
    ASSUME Grid = 1, NEW a \in OrderArgs
    PROVE  LET o == InsertedRow(a)
           IN  /\ o \in OrderRows /\ o.user = a.user /\ o.side = a.side /\ o.symbol = a.symbol
               /\ o.side \in Sides /\ o.symbol \in Symbols /\ o.quantity \in Nat /\ o.user \in Users
               /\ LockAsset(o) = LockAsset(a)
               /\ \A at : LockAmount(o, at) = LockAmount(a, at)
               /\ a.type # "MARKET" => o.trigger = a.trigger
<1> DEFINE o == InsertedRow(a)
<1>1. /\ o.user = a.user /\ o.side = a.side /\ o.symbol = a.symbol
      /\ o.quantity = StoredInput(a.quantity)
      /\ a.type # "MARKET" => o.trigger = StoredInput(a.trigger)
  BY DEF InsertedRow
<1>2. a.quantity \in Nat /\ (a.type # "MARKET" => a.trigger \in Nat)
  BY InsertedRowType, PriceTypes
<1>3. o.quantity = a.quantity /\ (a.type # "MARKET" => o.trigger = a.trigger)
  BY <1>1, <1>2, GridStored
<1>4. o \in OrderRows /\ a.user \in Users /\ a.side \in Sides /\ a.symbol \in Symbols
  BY InsertedRowType
<1> HIDE DEF o
<1>5. LockAsset(o) = LockAsset(a) /\ \A at : LockAmount(o, at) = LockAmount(a, at)
  BY ONLY <1>1, <1>3 DEF LockAsset, LockAmount
<1>6. /\ o.side \in Sides /\ o.symbol \in Symbols /\ o.user \in Users
      /\ o.quantity \in Nat
  BY ONLY <1>1, <1>2, <1>3, <1>4
<1> QED
  BY ONLY <1>1, <1>3, <1>4, <1>5, <1>6, Zenon DEF o

LEMMA WalletCases ==
    ASSUME Grid = 1, EngineInv, [Next]_vars
    PROVE  \/ \E id \in OrderIds : Rests(id) \/ IsReleased(id) \/ MarketFills(id) \/ TickFills(id)
           \/ UNCHANGED dbVars
<1> DEFINE Cases == \/ \E id \in OrderIds : Rests(id) \/ IsReleased(id) \/ MarketFills(id)
                                               \/ TickFills(id)
                    \/ UNCHANGED dbVars
<1>1. ASSUME NEW h \in Handlers, PlaceMarket(h) PROVE Cases
  <2>1. PICK a, o, at, id : a = request[h].args /\ o = InsertedRow(a) /\ at = request[h].latest
                            /\ id = NextId
    OBVIOUS
  <2>2. /\ id \in OrderIds /\ ~Placed(id) /\ at \in Prices /\ o \in OrderRows /\ o.type = "MARKET"
        /\ RowFilled(id, o, at) /\ a \in OrderArgs
    BY <1>1, <2>1, MarketRow, RequestType DEF EngineInv, PlaceMarket
  <2>3. /\ o.user = a.user /\ LockAsset(o) = LockAsset(a) /\ LockAmount(o, at) = LockAmount(a, at)
        /\ o.side \in Sides /\ o.symbol \in Symbols /\ o.quantity \in Nat /\ at \in Nat
    BY <2>1, <2>2, GridRow, PriceTypes
  <2>4. PICK u, asset, lock : u = o.user /\ asset = LockAsset(o) /\ lock = LockAmount(o, at)
    OBVIOUS
  <2>5. /\ CanLock(u, asset, lock)
        /\ Settle(Add(balance, u, asset, -lock), Add(locked, u, asset, lock), id, o, lock, at)
    BY <1>1, <2>1, <2>3, <2>4 DEF PlaceMarket
  <2>6. /\ balance' = BalanceAfterFill(Add(balance, u, asset, -lock), o, lock, at)
        /\ locked' = LockedAfterFill(Add(locked, u, asset, lock), o, lock)
    BY <2>5 DEF Settle
  <2>7. balance' = Add(Add(balance, u, asset, -lock), u, Received(o), Gain(o, at))
    <3>1. QuoteAmount(o.quantity, at) \in Nat /\ lock \in Nat
      BY <2>3, <2>4, AmountsNat
    <3>2. o.side = "BUY" => lock <= QuoteAmount(o.quantity, at)
      BY <2>4, <3>1 DEF LockAmount
    <3> QED
      BY <2>3, <2>4, <2>6, <3>1, <3>2, NoRefund
  <2>8. locked' = Add(Add(locked, u, asset, lock), u, asset, -lock)
    BY <2>3, <2>4, <2>6, LockedFill
  <2>9. LocksAndSettles(o, LockAmount(o, at), at)
    BY <2>4, <2>5, <2>7, <2>8 DEF LocksAndSettles, CanLock
  <2> QED
    BY <2>2, <2>9 DEF MarketFills
<1>2. ASSUME NEW h \in Handlers, PlaceResting(h) PROVE Cases
  <2>1. PICK a, o, id : a = request[h].args /\ o = InsertedRow(a) /\ id = NextId
    OBVIOUS
  <2>2. /\ id \in OrderIds /\ RowInserted(id) /\ orders'[id] = o /\ a \in OrderArgs
        /\ a.type # "MARKET"
    BY <1>2, <2>1, RestingRow, RequestType DEF EngineInv, PlaceResting
  <2>3. o.user = a.user /\ LockAsset(o) = LockAsset(a) /\ LockOf(o) = LockAmount(a, a.trigger)
    BY <2>1, <2>2, GridRow DEF LockOf
  <2>4. Locks(o, LockOf(o))
    BY <1>2, <2>1, <2>3 DEF PlaceResting, Locks, CanLock
  <2> QED
    BY <2>2, <2>4 DEF Rests
<1>3. ASSUME NEW u \in Users, NEW id \in OrderIds, CancelOrder(u, id) PROVE Cases
  BY <1>3, CancelledRow DEF CancelOrder, MayCancel, IsReleased, Unlocks, LockOf
<1>4. ASSUME NEW id \in OrderIds, FillOrder(id) PROVE Cases
  <2>1. TickFill(id)
    BY <1>4, TickRow
  <2>2. PICK o, at, lock : o = orders[id] /\ at = FillPrice(o, feed.price) /\ lock = LockOf(o)
    OBVIOUS
  <2>3. o \in OrderRows /\ Resting(id) /\ lock \in Nat /\ at \in Nat /\ o.type # "MARKET"
    BY <1>4, <2>2, FilledRowType DEF LockOf, Resting
  <2>4. o.side \in Sides /\ o.symbol \in Symbols /\ o.quantity \in Nat /\ feed.price \in Prices
        /\ Triggers(o, feed.price)
    BY <2>1, <2>2, <2>3, StoredSets DEF OrderRows, TickFill
  <2>5. balance' = BalanceAfterFill(balance, o, lock, at) /\ locked' = LockedAfterFill(locked, o, lock)
    BY <1>4, <2>2 DEF FillOrder, StillPending, Settle, LockOf
  <2>6. QuoteAmount(o.quantity, at) \in Nat
    BY <2>3, <2>4, AmountsNat
  <2>7. o.side = "BUY" => lock <= QuoteAmount(o.quantity, at)
    BY <2>2, <2>3, <2>4, LockCoversNoMore DEF LockOf
  <2>8. balance' = Add(balance, o.user, Received(o), Gain(o, at))
    BY <2>3, <2>4, <2>5, <2>6, <2>7, NoRefund
  <2>9. locked' = Add(locked, o.user, LockAsset(o), -lock)
    BY <2>2, <2>4, <2>5, LockedFill DEF LockOf
  <2>10. Settles(orders[id], LockOf(orders[id]), FillPrice(orders[id], feed.price))
    BY <2>2, <2>8, <2>9 DEF Settles
  <2> QED
    BY <2>1, <2>10 DEF TickFills
<1>5. CASE UNCHANGED vars
  BY <1>5 DEF vars, dbVars
<1> QED
  BY <1>1, <1>2, <1>3, <1>4, <1>5
  DEF Next, Requests, FeedProgress, FeedFailure, ReadLatestPrice, RejectOrder, FetchQuotes,
      CachePrice, SelectPending, PassOver, FillFails, EndTick, AbortTick, EndPoll, Restart

-----------------------------------------------------------------------------
(* Cells of the columns, and what an auditor adds up of one order.          *)

\* An UPDATE changes one cell, off by half a unit at most.
LEMMA AddCell ==
    ASSUME NEW c \in Columns(Int), NEW u \in Users, NEW a \in Assets, NEW x \in Int,
           NEW v \in Users, NEW b \in Assets
    PROVE  /\ Add(c, u, a, x) \in Columns(Int)
           /\ c[v][b] \in Int /\ Add(c, u, a, x)[v][b] \in Int /\ Unit \in Nat
           /\ ~(v = u /\ b = a) => Add(c, u, a, x)[v][b] = c[v][b]
           /\ v = u /\ b = a =>
                 LET off == 2 * (Add(c, u, a, x)[v][b] - c[v][b] - x)
                 IN  -Unit <= off /\ off <= Unit
<1>1. Add(c, u, a, x) \in Columns(Int) /\ c[v][b] \in Int /\ c[u][a] \in Int
  BY AddInt DEF Columns
<1>2. Add(c, u, a, x)[v][b] = IF v = u /\ b = a THEN StoredAmount(c[u][a] + x) ELSE c[v][b]
  BY DEF Add, Columns
<1>3. PICK y, s : y = c[u][a] + x /\ s = StoredAmount(y)
  OBVIOUS
<1>4. /\ Unit \in Nat /\ s \in Int /\ y \in Int
      /\ -Unit <= 2 * (s - y) /\ 2 * (s - y) <= Unit
  BY <1>1, <1>3, RoundingOff
<1> QED
  BY <1>1, <1>2, <1>3, <1>4

\* What a pending order holds, and what a filled one has moved, by its row.
HoldsOf(o, u, a) ==
    IF o # Nil /\ o.status = "PENDING" /\ o.user = u /\ LockAsset(o) = a THEN LockOf(o) ELSE 0

MovesOf(o, u, a) ==
    IF o # Nil /\ o.status = "FILLED" /\ o.user = u
    THEN MovedBy(o, [quantity |-> o.quantity, price |-> o.filled_price], a) ELSE 0

\* A fill moves the two assets of its symbol.
LEMMA MovedIs ==
    ASSUME NEW o, o.symbol \in Symbols, o.side \in Sides, o.quantity \in Nat, NEW at \in Nat,
           NEW a
    PROVE  /\ MovedBy(o, [quantity |-> o.quantity, price |-> at], a)
                = IF a = Received(o) THEN Gain(o, at)
                  ELSE IF a = LockAsset(o) THEN -LockAmount(o, at) ELSE 0
           /\ MovedBy(o, [quantity |-> o.quantity, price |-> at], a) \in Int
<1> DEFINE t == [quantity |-> o.quantity, price |-> at]
<1>1. t.quantity = o.quantity /\ t.price = at
  OBVIOUS
<1> HIDE DEF t
<1>2. PICK x, y : x = BaseAmount(o.quantity) /\ y = QuoteAmount(o.quantity, at)
  OBVIOUS
<1>3. x \in Nat /\ y \in Nat /\ Base[o.symbol] # Quote[o.symbol]
  BY <1>2, AmountsNat, OrderEngineAssumption
<1>4. MovedBy(o, t, a)
        = IF a = Received(o) THEN Gain(o, at)
          ELSE IF a = LockAsset(o) THEN -LockAmount(o, at) ELSE 0
  <2>1. CASE o.side = "BUY"
    BY <1>1, <1>2, <1>3, <2>1 DEF MovedBy, Received, Gain, LockAsset, LockAmount
  <2>2. CASE o.side = "SELL"
    BY <1>1, <1>2, <1>3, <2>2 DEF MovedBy, Received, Gain, LockAsset, LockAmount
  <2> QED
    BY <2>1, <2>2 DEF Sides
<1>5. Gain(o, at) \in Int /\ -LockAmount(o, at) \in Int
  BY <1>2, <1>3 DEF Gain, LockAmount
<1> QED
  BY <1>4, <1>5 DEF t

\* An order row, and what of it the sums below need.
LEMMA HoldsOfNat ==
    ASSUME NEW o \in OrderRows, o.status = "PENDING" => o.type # "MARKET", NEW u, NEW a
    PROVE  HoldsOf(o, u, a) \in Nat
<1>1. CASE o.status = "PENDING"
  <2>1. o.trigger \in Nat /\ o.symbol \in Symbols /\ o.side \in Sides /\ o.quantity \in Nat
    BY <1>1, StoredSets DEF OrderRows
  <2>2. LockOf(o) \in Nat
    BY <2>1, AmountsNat DEF LockOf
  <2> QED
    BY <2>2 DEF HoldsOf
<1>2. CASE o.status # "PENDING"
  BY <1>2 DEF HoldsOf
<1> QED
  BY <1>1, <1>2

\* A FILLED row has a price.
PricedFill(o) == o # Nil /\ o.status = "FILLED" => o.filled_price \in Nat

LEMMA MovesInt ==
    ASSUME NEW o, o \in OrderRows \cup {Nil}, PricedFill(o), NEW u, NEW a
    PROVE  MovesOf(o, u, a) \in Int
<1>1. CASE o # Nil /\ o.status = "FILLED" /\ o.user = u
  <2>1. o.symbol \in Symbols /\ o.side \in Sides /\ o.quantity \in Nat /\ o.filled_price \in Nat
    BY <1>1, StoredSets DEF OrderRows, PricedFill
  <2> QED
    BY <1>1, <2>1, MovedIs DEF MovesOf
<1>2. CASE ~(o # Nil /\ o.status = "FILLED" /\ o.user = u)
  BY <1>2 DEF MovesOf
<1> QED
  BY <1>1, <1>2

\* What the audit needs of the tables: a row's trades are known from the row.
AuditInv == EngineInv /\ OneTradePerFill /\ \A id \in OrderIds : PricedFill(orders[id])

LEMMA TradesOfRow ==
    ASSUME NEW o, o \in OrderRows \cup {Nil}, PricedFill(o), NEW ts, NEW u, NEW a,
           ts = IF o # Nil /\ o.status = "FILLED"
                THEN <<[quantity |-> o.quantity, price |-> o.filled_price]>> ELSE <<>>
    PROVE  (IF o # Nil /\ o.user = u THEN SumFunction([i \in DOMAIN ts |-> MovedBy(o, ts[i], a)]) ELSE 0)
             = MovesOf(o, u, a)
<1> DEFINE f == [i \in DOMAIN ts |-> MovedBy(o, ts[i], a)]
<1>1. SumFunction(f) = SumFunctionOnSet(f, DOMAIN ts)
  BY DEF SumFunction
<1>2. CASE o # Nil /\ o.user = u /\ o.status = "FILLED"
  <2> DEFINE t == [quantity |-> o.quantity, price |-> o.filled_price]
  <2>1. MovedBy(o, t, a) = MovesOf(o, u, a) /\ MovesOf(o, u, a) \in Int
    BY <1>2, MovesInt DEF MovesOf
  <2> HIDE DEF t
  <2>2. ts = <<t>>
    BY <1>2 DEF t
  <2>3. DOMAIN ts = {1} /\ ts[1] = t
    BY <2>2
  <2>4. f[1] = MovedBy(o, t, a)
    BY <2>3
  <2> HIDE DEF f
  <2>5. SumFunctionOnSet(f, {1}) = f[1]
    BY <2>1, <2>4, SumOne
  <2>6. SumFunction(f) = MovesOf(o, u, a)
    BY <1>1, <2>1, <2>3, <2>4, <2>5
  <2> QED
    BY <1>2, <2>6 DEF f
<1>3. CASE o # Nil /\ o.user = u /\ o.status # "FILLED"
  <2>1. DOMAIN ts = {}
    BY <1>3
  <2> HIDE DEF f
  <2> QED
    BY <1>1, <1>3, <2>1, SumEmpty DEF MovesOf, f
<1>4. CASE ~(o # Nil /\ o.user = u)
  BY <1>4 DEF MovesOf
<1> QED
  BY <1>2, <1>3, <1>4

\* The two sums over the orders, after a step that is about one of them.
OnlyRow(id) == \A i \in OrderIds \ {id} : orders'[i] = orders[i] /\ trades'[i] = trades[i]

LEMMA TradedInt ==
    ASSUME AuditInv, NEW u, NEW a
    PROVE  TradedBy(u, a) \in Int /\ \A i \in OrderIds : Moved(i, u, a) = MovesOf(orders[i], u, a)
<1>1. \A i \in OrderIds : Moved(i, u, a) = MovesOf(orders[i], u, a) /\ MovesOf(orders[i], u, a) \in Int
  BY TradesOfRow, MovesInt
     DEF AuditInv, EngineInv, TablesOK, OneTradePerFill, Filled, Placed, Moved
<1> DEFINE f == [i \in OrderIds |-> Moved(i, u, a)]
<1>2. DOMAIN f = OrderIds /\ \A i \in OrderIds : f[i] \in Int
  BY <1>1
<1> HIDE DEF f
<1>3. SumFunctionOnSet(f, OrderIds) \in Int
  BY <1>2, SumInt, AuditAssumption
<1> QED
  BY <1>1, <1>2, <1>3 DEF TradedBy, SumFunction, f

LEMMA TradedChange ==
    ASSUME AuditInv, AuditInv', NEW id \in OrderIds, OnlyRow(id), NEW u, NEW a
    PROVE  TradedBy(u, a)' = TradedBy(u, a) + (MovesOf(orders'[id], u, a) - MovesOf(orders[id], u, a))
<1>1. \A i \in OrderIds : Moved(i, u, a) = MovesOf(orders[i], u, a) /\ MovesOf(orders[i], u, a) \in Int
  BY TradesOfRow, MovesInt
     DEF AuditInv, EngineInv, TablesOK, OneTradePerFill, Filled, Placed, Moved
<1>2. ASSUME NEW i \in OrderIds
      PROVE  Moved(i, u, a)' = MovesOf(orders'[i], u, a) /\ MovesOf(orders'[i], u, a) \in Int
  <2>1. PICK o, ts : o = orders'[i] /\ ts = trades'[i]
    OBVIOUS
  <2>2. /\ o \in OrderRows \cup {Nil} /\ PricedFill(o)
        /\ ts = IF o # Nil /\ o.status = "FILLED"
                THEN <<[quantity |-> o.quantity, price |-> o.filled_price]>> ELSE <<>>
    BY <2>1 DEF AuditInv, EngineInv, TablesOK, OneTradePerFill, Filled, Placed, PricedFill
  <2>3. Moved(i, u, a)' = IF o # Nil /\ o.user = u
                          THEN SumFunction([j \in DOMAIN ts |-> MovedBy(o, ts[j], a)]) ELSE 0
    BY <2>1 DEF Moved, Placed
  <2>4. (IF o # Nil /\ o.user = u
         THEN SumFunction([j \in DOMAIN ts |-> MovedBy(o, ts[j], a)]) ELSE 0) = MovesOf(o, u, a)
    BY <2>2, TradesOfRow
  <2>5. MovesOf(o, u, a) \in Int
    BY <2>2, MovesInt
  <2> QED
    BY <2>1, <2>3, <2>4, <2>5
<1> DEFINE f == [i \in OrderIds |-> Moved(i, u, a)]
           g == [i \in OrderIds |-> Moved(i, u, a)']
<1>3. /\ DOMAIN f = OrderIds /\ DOMAIN g = OrderIds
      /\ \A i \in OrderIds : f[i] \in Int /\ g[i] \in Int
      /\ \A i \in OrderIds \ {id} : g[i] = f[i]
      /\ f[id] = MovesOf(orders[id], u, a) /\ g[id] = MovesOf(orders'[id], u, a)
  BY <1>1, <1>2 DEF OnlyRow
<1>4. TradedBy(u, a) = SumFunction(f) /\ TradedBy(u, a)' = SumFunction(g)
  BY DEF TradedBy
<1> HIDE DEF f, g
<1>5. SumFunctionOnSet(g, OrderIds) = SumFunctionOnSet(f, OrderIds) + (g[id] - f[id])
  BY <1>3, SumChange, AuditAssumption
<1> QED
  BY <1>3, <1>4, <1>5 DEF SumFunction

LEMMA HeldIs ==
    ASSUME AuditInv, NEW u, NEW a
    PROVE  /\ HeldByOrders(u, a) \in Int
           /\ \A i \in OrderIds : /\ HeldBy(i, u, a) = HoldsOf(orders[i], u, a)
                                  /\ HoldsOf(orders[i], u, a) \in Int
<1>1. \A i \in OrderIds : /\ HeldBy(i, u, a) = HoldsOf(orders[i], u, a)
                          /\ HoldsOf(orders[i], u, a) \in Int
  <2>1. \A i \in OrderIds : HeldBy(i, u, a) = HoldsOf(orders[i], u, a)
    BY DEF HeldBy, HoldsOf, LockOf, Pending, Placed
  <2>2. ASSUME NEW i \in OrderIds, Placed(i) PROVE HoldsOf(orders[i], u, a) \in Int
    BY <2>2, HoldsOfNat DEF AuditInv, EngineInv, TablesOK, OpenOrdersRest, Pending, Resting, Placed
  <2>3. ASSUME NEW i \in OrderIds, ~Placed(i) PROVE HoldsOf(orders[i], u, a) \in Int
    BY <2>3 DEF HoldsOf, Placed
  <2> QED
    BY <2>1, <2>2, <2>3
<1> DEFINE f == [i \in OrderIds |-> HeldBy(i, u, a)]
<1>2. DOMAIN f = OrderIds /\ \A i \in OrderIds : f[i] \in Int
  BY <1>1
<1> HIDE DEF f
<1>3. SumFunctionOnSet(f, OrderIds) \in Int
  BY <1>2, SumInt, AuditAssumption
<1> QED
  BY <1>1, <1>2, <1>3 DEF HeldByOrders, SumFunction, f

LEMMA HeldChange ==
    ASSUME AuditInv, AuditInv', NEW id \in OrderIds, OnlyRow(id), NEW u, NEW a
    PROVE  HeldByOrders(u, a)'
             = HeldByOrders(u, a) + (HoldsOf(orders'[id], u, a) - HoldsOf(orders[id], u, a))
<1>1. \A i \in OrderIds : HeldBy(i, u, a) = HoldsOf(orders[i], u, a) /\ HoldsOf(orders[i], u, a) \in Int
  BY HeldIs
<1>2. \A i \in OrderIds : HeldBy(i, u, a)' = HoldsOf(orders'[i], u, a) /\ HoldsOf(orders'[i], u, a) \in Int
  <2>1. \A i \in OrderIds : HeldBy(i, u, a)' = HoldsOf(orders'[i], u, a)
    BY DEF HeldBy, HoldsOf, LockOf, Pending, Placed
  <2>2. ASSUME NEW i \in OrderIds, orders'[i] # Nil PROVE HoldsOf(orders'[i], u, a) \in Int
    <3>1. orders'[i] \in OrderRows /\ (orders'[i].status = "PENDING" => orders'[i].type # "MARKET")
      BY <2>2 DEF AuditInv, EngineInv, TablesOK, OpenOrdersRest, Pending, Resting, Placed
    <3> QED
      BY ONLY <3>1, HoldsOfNat
  <2>3. ASSUME NEW i \in OrderIds, orders'[i] = Nil PROVE HoldsOf(orders'[i], u, a) \in Int
    BY <2>3 DEF HoldsOf
  <2> QED
    BY <2>1, <2>2, <2>3
<1> DEFINE f == [i \in OrderIds |-> HeldBy(i, u, a)]
           g == [i \in OrderIds |-> HeldBy(i, u, a)']
<1>3. /\ DOMAIN f = OrderIds /\ DOMAIN g = OrderIds
      /\ \A i \in OrderIds : f[i] \in Int /\ g[i] \in Int
      /\ \A i \in OrderIds \ {id} : g[i] = f[i]
      /\ f[id] = HoldsOf(orders[id], u, a) /\ g[id] = HoldsOf(orders'[id], u, a)
  BY <1>1, <1>2 DEF OnlyRow
<1>4. HeldByOrders(u, a) = SumFunction(f) /\ HeldByOrders(u, a)' = SumFunction(g)
  BY DEF HeldByOrders
<1> HIDE DEF f, g
<1>5. SumFunctionOnSet(g, OrderIds) = SumFunctionOnSet(f, OrderIds) + (g[id] - f[id])
  BY <1>3, SumChange, AuditAssumption
<1> QED
  BY <1>3, <1>4, <1>5 DEF SumFunction

LEMMA AuditInit == Init => AuditInv
BY InitInv DEF Init, IInv, AuditInv, OneTradePerFill, Filled, Placed, PricedFill

LEMMA AuditNext == AuditInv /\ [Next]_vars => AuditInv'
<1> SUFFICES ASSUME AuditInv, [Next]_vars PROVE AuditInv'
  OBVIOUS
<1>1. EngineInv' /\ OneTradePerFill'
  BY NextEngine, NextOneTrade DEF AuditInv
<1>2. ASSUME NEW i \in OrderIds PROVE PricedFill(orders'[i])
  <2>0. orders \in [OrderIds -> OrderRows \cup {Nil}] /\ PricedFill(orders[i]) /\ EngineInv
    BY DEF AuditInv, EngineInv, TablesOK
  <2>1. CASE orders'[i] = orders[i]
    BY <2>0, <2>1
  <2>2. ASSUME NEW id \in OrderIds, RowInserted(id) \/ RowCancelled(id) PROVE PricedFill(orders'[i])
    <3>1. i = id => orders'[i].status \in {"PENDING", "CANCELLED"}
      BY <2>0, <2>2 DEF RowInserted, RowCancelled, OrderRows, Pending, Placed
    <3> QED
      BY <2>0, <2>1, <2>2, <3>1 DEF RowInserted, RowCancelled, PricedFill
  <2>3. ASSUME NEW id \in OrderIds, NEW o, NEW at, RowFilled(id, o, at) PROVE PricedFill(orders'[i])
    <3>1. i = id => orders'[i].filled_price = StoredInput(at) /\ StoredInput(at) \in Nat
      BY <2>0, <2>3, StoredSets DEF RowFilled, OrderRows
    <3> QED
      BY <2>0, <2>1, <2>3, <3>1 DEF RowFilled, PricedFill
  <2>4. CASE UNCHANGED <<orders, trades>>
    BY <2>1, <2>4
  <2> QED
    BY <2>0, <2>2, <2>3, <2>4, RowCases DEF MarketFill, TickFill
<1> QED
  BY <1>1, <1>2 DEF AuditInv

-----------------------------------------------------------------------------
(* The wallets against the trades.  Rounding may add up, but an order makes *)
(* no more than four UPDATEs of an asset's two columns: what they may be off*)
(* by is accounted for as a budget, a unit when an order is placed and      *)
(* another one when it ends.  A filled STOP_LOSS BUY leaves its owner with  *)
(* more than he paid for.                                                   *)

NoStopBuys(u) == \A id \in OrderIds : IsStopBuy(id) => orders[id].user # u

Drift(u, a) == balance[u][a] + locked[u][a] - InitialBalance - TradedBy(u, a)

PlacedBy(u) == {id \in OrderIds : Placed(id) /\ orders[id].user = u}
EndedFor(u) == {id \in OrderIds : Placed(id) /\ orders[id].user = u /\ orders[id].status # "PENDING"}
Budget(u)   == Cardinality(PlacedBy(u)) + Cardinality(EndedFor(u))

\* What a step does to one wallet, k being what it adds to the budget.
Drifts(u, a) ==
    \E k \in {0, 1, 2}, d \in Int :
        /\ Budget(u)' = Budget(u) + k
        /\ TradedBy(u, a)' \in Int /\ Drift(u, a)' = Drift(u, a) + d
        /\ -(k * Unit) <= d
        /\ NoStopBuys(u)' => NoStopBuys(u) /\ d <= k * Unit

\* What a step does to what is locked in one wallet, when nothing is rounded.
LocksAgree(u, a) ==
    HeldByOrders(u, a)' = HeldByOrders(u, a) + (locked'[u][a] - locked[u][a])

LEMMA BudgetNat ==
    ASSUME NEW u
    PROVE  /\ IsFiniteSet(PlacedBy(u)) /\ IsFiniteSet(EndedFor(u)) /\ Budget(u) \in Nat
           /\ Budget(u) <= 2 * Cardinality(PlacedBy(u)) /\ Cardinality(PlacedBy(u)) \in Nat
<1>1. PlacedBy(u) \subseteq OrderIds /\ EndedFor(u) \subseteq PlacedBy(u)
  BY DEF PlacedBy, EndedFor
<1>2. IsFiniteSet(PlacedBy(u)) /\ IsFiniteSet(EndedFor(u))
      /\ Cardinality(EndedFor(u)) <= Cardinality(PlacedBy(u))
  BY <1>1, AuditAssumption, FS_Subset
<1>3. Cardinality(PlacedBy(u)) \in Nat /\ Cardinality(EndedFor(u)) \in Nat
  BY <1>2, FS_CardinalityType
<1> QED
  BY <1>2, <1>3 DEF Budget

\* The budget after a step about one order, which is placed, or ends, or both.
LEMMA BudgetChange ==
    ASSUME NEW id \in OrderIds, OnlyRow(id), Placed(id)', NEW u, NEW k \in {0, 1, 2},
           Placed(id) => orders'[id].user = orders[id].user /\ Pending(id) /\ ~Pending(id)',
           k = IF orders'[id].user # u THEN 0
               ELSE (IF Placed(id) THEN 0 ELSE 1) + (IF Pending(id)' THEN 0 ELSE 1)
    PROVE  Budget(u)' = Budget(u) + k
<1>1. IsFiniteSet(PlacedBy(u)) /\ IsFiniteSet(EndedFor(u))
      /\ Cardinality(PlacedBy(u)) \in Nat /\ Cardinality(EndedFor(u)) \in Nat
  BY BudgetNat, FS_CardinalityType
<1>2. PICK p, e, pp, ee : p = PlacedBy(u) /\ e = EndedFor(u) /\ pp = PlacedBy(u)' /\ ee = EndedFor(u)'
  OBVIOUS
<1>3. Budget(u) = Cardinality(p) + Cardinality(e) /\ Budget(u)' = Cardinality(pp) + Cardinality(ee)
  BY <1>2 DEF Budget
<1>4. CASE orders'[id].user # u
  <2>1. pp = p /\ ee = e
    BY <1>2, <1>4 DEF OnlyRow, PlacedBy, EndedFor, Placed
  <2> QED
    BY <1>1, <1>2, <1>3, <1>4, <2>1
<1>5. CASE orders'[id].user = u
  <2>1. pp = p \cup {id} /\ (id \in p <=> Placed(id))
    BY <1>2, <1>5 DEF OnlyRow, PlacedBy, Placed
  <2>2. ee = (IF Pending(id)' THEN e ELSE e \cup {id}) /\ id \notin e
    BY <1>2, <1>5 DEF OnlyRow, EndedFor, Placed, Pending
  <2>3. Cardinality(pp) = Cardinality(p) + (IF Placed(id) THEN 0 ELSE 1)
    <3>1. CASE Placed(id)
      BY <1>1, <1>2, <2>1, <3>1, p \cup {id} = p
    <3>2. CASE ~Placed(id)
      BY <1>1, <1>2, <2>1, <3>2, FS_AddElement
    <3> QED
      BY <3>1, <3>2
  <2>4. Cardinality(ee) = Cardinality(e) + (IF Pending(id)' THEN 0 ELSE 1)
    <3>1. CASE Pending(id)'
      BY <1>1, <1>2, <2>2, <3>1
    <3>2. CASE ~Pending(id)'
      BY <1>1, <1>2, <2>2, <3>2, FS_AddElement
    <3> QED
      BY <3>1, <3>2
  <2> QED
    BY <1>1, <1>2, <1>3, <1>5, <2>3, <2>4
<1> QED
  BY <1>4, <1>5

\* The row a fill leaves, and what it has moved.
LEMMA FillMoves ==
    ASSUME Grid = 1, TablesOK, NEW id \in OrderIds, NEW o, NEW at \in Nat, RowFilled(id, o, at)
    PROVE  LET r == orders'[id]
           IN  /\ OnlyRow(id) /\ r \in OrderRows /\ r # Nil /\ r.status = "FILLED"
               /\ r.user = o.user /\ r.type = o.type /\ r.side = o.side
               /\ \A u, a : MovesOf(r, u, a) =
                     IF u # o.user THEN 0
                     ELSE IF a = Received(o) THEN Gain(o, at)
                     ELSE IF a = LockAsset(o) THEN -LockAmount(o, at) ELSE 0
               /\ \A u, a : HoldsOf(r, u, a) = 0
<1>1. PICK r : r = orders'[id]
  OBVIOUS
<1>2. /\ r = [o EXCEPT !.status = "FILLED", !.filled_price = StoredInput(at)]
      /\ o \in OrderRows /\ StoredInput(at) \in StoredPrices /\ OnlyRow(id)
  BY <1>1 DEF RowFilled, TablesOK, OnlyRow
<1>3. StoredInput(at) = at
  BY GridStored
<1>4. /\ r \in OrderRows /\ r.status = "FILLED" /\ r.user = o.user /\ r.type = o.type
      /\ r.side = o.side /\ r.symbol = o.symbol /\ r.quantity = o.quantity /\ r.filled_price = at
  BY <1>2, <1>3 DEF OrderRows, Status
<1>5. r # Nil
  BY <1>4, NilAssumption
<1>6. r.symbol \in Symbols /\ r.side \in Sides /\ r.quantity \in Nat
  BY <1>4, StoredSets DEF OrderRows
<1>7. Received(r) = Received(o) /\ LockAsset(r) = LockAsset(o) /\ Gain(r, at) = Gain(o, at)
      /\ LockAmount(r, at) = LockAmount(o, at)
  BY <1>4 DEF Received, LockAsset, Gain, LockAmount
<1>8. ASSUME NEW u, NEW a
      PROVE  MovesOf(r, u, a) =
                     IF u # o.user THEN 0
                     ELSE IF a = Received(o) THEN Gain(o, at)
                     ELSE IF a = LockAsset(o) THEN -LockAmount(o, at) ELSE 0
  <2>1. MovedBy(r, [quantity |-> r.quantity, price |-> at], a)
          = IF a = Received(r) THEN Gain(r, at)
            ELSE IF a = LockAsset(r) THEN -LockAmount(r, at) ELSE 0
    BY <1>6, MovedIs
  <2> QED
    BY <1>4, <1>5, <1>7, <2>1 DEF MovesOf
<1>9. \A u, a : HoldsOf(r, u, a) = 0
  BY <1>4 DEF HoldsOf
<1> QED
  BY <1>1, <1>2, <1>4, <1>5, <1>8, <1>9

\* What a row has moved before it is filled.
LEMMA NothingMoved ==
    ASSUME NEW o, o = Nil \/ o.status # "FILLED", NEW u, NEW a
    PROVE  MovesOf(o, u, a) = 0
BY DEF MovesOf

\* The drift after a step, from what it does to one cell of each column and to the
\* row it is about.
LEMMA DriftsBy ==
    ASSUME AuditInv, AuditInv', NEW id \in OrderIds, OnlyRow(id), Placed(id)', ~Filled(id),
           Placed(id) => orders'[id].user = orders[id].user /\ Pending(id) /\ ~Pending(id)',
           NEW u \in Users, NEW a \in Assets, NEW k \in {0, 1, 2},
           k = IF orders'[id].user # u THEN 0
               ELSE (IF Placed(id) THEN 0 ELSE 1) + (IF Pending(id)' THEN 0 ELSE 1),
           NEW m \in Int, MovesOf(orders'[id], u, a) = m,
           NEW b \in Int, NEW l \in Int, balance[u][a] \in Int, locked[u][a] \in Int,
           balance'[u][a] = balance[u][a] + b, locked'[u][a] = locked[u][a] + l,
           -(k * Unit) <= b + l - m, NoStopBuys(u)' => b + l - m <= k * Unit
    PROVE  Drifts(u, a)
<1>1. Budget(u)' = Budget(u) + k
  BY BudgetChange
<1>2. MovesOf(orders[id], u, a) = 0
  BY NothingMoved DEF Filled, Placed
<1>3. TradedBy(u, a) \in Int /\ TradedBy(u, a)' = TradedBy(u, a) + (m - 0)
  BY <1>2, TradedInt, TradedChange
<1>4. /\ Drift(u, a)' = Drift(u, a) + (b + l - m) /\ b + l - m \in Int
      /\ TradedBy(u, a)' \in Int
  BY <1>3, OrderEngineAssumption DEF Drift
<1>5. NoStopBuys(u)' => NoStopBuys(u)
  <2> SUFFICES ASSUME NoStopBuys(u)', NEW i \in OrderIds, IsStopBuy(i) PROVE orders[i].user # u
    BY DEF NoStopBuys
  <2>1. i # id
    BY DEF IsStopBuy
  <2> QED
    BY <2>1 DEF NoStopBuys, IsStopBuy, OnlyRow, Filled, Placed
<1> HIDE DEF Drift, NoStopBuys, Budget
<1> QED
  BY <1>1, <1>4, <1>5 DEF Drifts

LEMMA RestDrifts ==
    ASSUME Grid = 1, AuditInv, AuditInv', balance \in Columns(Int), locked \in Columns(Int),
           NEW id \in OrderIds, Rests(id), NEW u \in Users, NEW a \in Assets
    PROVE  Drifts(u, a) /\ (ExactColumns => LocksAgree(u, a))
<1>1. PICK o, lock, asset, v : o = orders'[id] /\ lock = LockOf(o) /\ asset = LockAsset(o) /\ v = o.user
  OBVIOUS
<1>2. /\ o \in OrderRows /\ OnlyRow(id) /\ ~Placed(id) /\ o.status = "PENDING" /\ o.type # "MARKET"
      /\ Locks(o, lock)
  BY <1>1 DEF Rests, RowInserted, OnlyRow, AuditInv, EngineInv, TablesOK
<1>3. o.trigger \in Nat /\ o.symbol \in Symbols /\ o.side \in Sides /\ o.quantity \in Nat /\ v \in Users
  BY <1>1, <1>2, StoredSets DEF OrderRows
<1>4. lock \in Nat /\ -lock \in Int /\ asset \in Assets
  BY <1>1, <1>3, AmountsNat DEF LockOf
<1>5. Placed(id)' /\ Pending(id)' /\ ~Filled(id)
  BY <1>1, <1>2, NilAssumption DEF Placed, Pending, Filled
<1>6. balance' = Add(balance, v, asset, -lock) /\ locked' = Add(locked, v, asset, lock)
  BY <1>1, <1>2 DEF Locks
<1>7. MovesOf(o, u, a) = 0
  BY <1>2, NothingMoved
<1>8. PICK b, l : b = balance'[u][a] - balance[u][a] /\ l = locked'[u][a] - locked[u][a]
  OBVIOUS
<1>9. /\ balance[u][a] \in Int /\ balance'[u][a] \in Int /\ Unit \in Nat
      /\ ~(u = v /\ a = asset) => balance'[u][a] = balance[u][a]
      /\ u = v /\ a = asset => LET off == 2 * (balance'[u][a] - balance[u][a] - (-lock))
                               IN  -Unit <= off /\ off <= Unit
  BY <1>3, <1>4, <1>6, AddCell
<1>10. /\ locked[u][a] \in Int /\ locked'[u][a] \in Int
       /\ ~(u = v /\ a = asset) => locked'[u][a] = locked[u][a]
       /\ u = v /\ a = asset => LET off == 2 * (locked'[u][a] - locked[u][a] - lock)
                                IN  -Unit <= off /\ off <= Unit
  BY <1>3, <1>4, <1>6, AddCell
<1>11. Drifts(u, a)
  <2>1. PICK k \in {0, 1, 2} : k = IF o.user # u THEN 0 ELSE 1
    OBVIOUS
  <2>2. -(k * Unit) <= b + l - 0 /\ b + l - 0 <= k * Unit
    BY <1>1, <1>4, <1>8, <1>9, <1>10, <2>1
  <2>3. balance'[u][a] = balance[u][a] + b /\ locked'[u][a] = locked[u][a] + l /\ b \in Int /\ l \in Int
    BY <1>8, <1>9, <1>10
  <2> QED
    BY <1>1, <1>2, <1>5, <1>7, <1>9, <1>10, <2>1, <2>2, <2>3, DriftsBy
<1>12. ASSUME ExactColumns PROVE LocksAgree(u, a)
  <2>1. l = IF u = v /\ a = asset THEN lock ELSE 0
    BY <1>4, <1>8, <1>10, <1>12 DEF Unit
  <2>2. HoldsOf(orders[id], u, a) = 0 /\ HoldsOf(orders'[id], u, a) = l
    BY <1>1, <1>2, <1>5, <2>1 DEF HoldsOf, Placed
  <2>3. HeldByOrders(u, a) \in Int /\ HeldByOrders(u, a)' = HeldByOrders(u, a) + (l - 0)
    BY <1>2, <2>2, HeldIs, HeldChange
  <2> QED
    BY <1>8, <1>10, <2>3 DEF LocksAgree
<1> QED
  BY <1>11, <1>12

LEMMA ReleaseDrifts ==
    ASSUME Grid = 1, AuditInv, AuditInv', balance \in Columns(Int), locked \in Columns(Int),
           NEW id \in OrderIds, IsReleased(id), NEW u \in Users, NEW a \in Assets
    PROVE  Drifts(u, a) /\ (ExactColumns => LocksAgree(u, a))
<1>1. PICK o, r, lock, asset, v : o = orders[id] /\ r = orders'[id] /\ lock = LockOf(o)
                                  /\ asset = LockAsset(o) /\ v = o.user
  OBVIOUS
<1>2. /\ o \in OrderRows /\ r \in OrderRows /\ r = [o EXCEPT !.status = "CANCELLED"]
      /\ OnlyRow(id) /\ Pending(id) /\ Placed(id) /\ Resting(id) /\ Unlocks(o, lock)
  BY <1>1 DEF IsReleased, RowCancelled, OnlyRow, AuditInv, EngineInv, TablesOK, OpenOrdersRest,
              Pending, Placed
<1>3. o.trigger \in Nat /\ o.symbol \in Symbols /\ o.side \in Sides /\ o.quantity \in Nat /\ v \in Users
  BY <1>1, <1>2, RowType DEF AuditInv, EngineInv
<1>4. lock \in Nat /\ -lock \in Int /\ asset \in Assets
  BY <1>1, <1>3, AmountsNat DEF LockOf
<1>5. r.status = "CANCELLED" /\ r.user = v
  BY <1>1, <1>2 DEF OrderRows
<1>6. Placed(id)' /\ ~Pending(id)' /\ ~Filled(id)
  BY <1>1, <1>2, <1>5, NilAssumption DEF Placed, Pending, Filled
<1>7. balance' = Add(balance, v, asset, lock) /\ locked' = Add(locked, v, asset, -lock)
  BY <1>1, <1>2 DEF Unlocks
<1>8. MovesOf(r, u, a) = 0
  BY <1>5, NothingMoved
<1>9. PICK b, l : b = balance'[u][a] - balance[u][a] /\ l = locked'[u][a] - locked[u][a]
  OBVIOUS
<1>10. /\ balance[u][a] \in Int /\ balance'[u][a] \in Int /\ Unit \in Nat
       /\ ~(u = v /\ a = asset) => balance'[u][a] = balance[u][a]
       /\ u = v /\ a = asset => LET off == 2 * (balance'[u][a] - balance[u][a] - lock)
                                IN  -Unit <= off /\ off <= Unit
  BY <1>3, <1>4, <1>7, AddCell
<1>11. /\ locked[u][a] \in Int /\ locked'[u][a] \in Int
       /\ ~(u = v /\ a = asset) => locked'[u][a] = locked[u][a]
       /\ u = v /\ a = asset => LET off == 2 * (locked'[u][a] - locked[u][a] - (-lock))
                                IN  -Unit <= off /\ off <= Unit
  BY <1>3, <1>4, <1>7, AddCell
<1>12. Drifts(u, a)
  <2>1. PICK k \in {0, 1, 2} : k = IF r.user # u THEN 0 ELSE 1
    OBVIOUS
  <2>2. -(k * Unit) <= b + l - 0 /\ b + l - 0 <= k * Unit
    BY <1>4, <1>5, <1>9, <1>10, <1>11, <2>1
  <2>3. balance'[u][a] = balance[u][a] + b /\ locked'[u][a] = locked[u][a] + l /\ b \in Int /\ l \in Int
    BY <1>9, <1>10, <1>11
  <2> QED
    <3>1. /\ Placed(id) => orders'[id].user = orders[id].user /\ Pending(id) /\ ~Pending(id)'
          /\ MovesOf(orders'[id], u, a) = 0 /\ 0 \in Int /\ OnlyRow(id) /\ Placed(id)' /\ ~Filled(id)
          /\ k = IF orders'[id].user # u THEN 0
                 ELSE (IF Placed(id) THEN 0 ELSE 1) + (IF Pending(id)' THEN 0 ELSE 1)
      BY <1>1, <1>2, <1>5, <1>6, <1>8, <2>1
    <3> QED
      BY <1>10, <1>11, <2>2, <2>3, <3>1, DriftsBy
<1>13. ASSUME ExactColumns PROVE LocksAgree(u, a)
  <2>1. l = IF u = v /\ a = asset THEN -lock ELSE 0
    BY <1>4, <1>9, <1>11, <1>13 DEF Unit
  <2>2. HoldsOf(orders'[id], u, a) = 0 /\ HoldsOf(orders[id], u, a) = -l
    BY <1>1, <1>2, <1>4, <1>5, <2>1 DEF HoldsOf, Placed, Pending
  <2>3. HeldByOrders(u, a) \in Int /\ HeldByOrders(u, a)' = HeldByOrders(u, a) + (0 - (-l))
    BY <1>2, <2>2, HeldIs, HeldChange
  <2> QED
    BY <1>9, <1>11, <2>3 DEF LocksAgree
<1> QED
  BY <1>12, <1>13

LEMMA MarketDrifts ==
    ASSUME Grid = 1, AuditInv, AuditInv', balance \in Columns(Int), locked \in Columns(Int),
           NEW id \in OrderIds, MarketFills(id), NEW u \in Users, NEW a \in Assets
    PROVE  Drifts(u, a) /\ (ExactColumns => LocksAgree(u, a))
<1>1. PICK o \in OrderRows, at \in Prices :
          o.type = "MARKET" /\ RowFilled(id, o, at) /\ LocksAndSettles(o, LockAmount(o, at), at)
  BY DEF MarketFills
<1>2. PICK v, lock, asset, rec, gain : v = o.user /\ lock = LockAmount(o, at) /\ asset = LockAsset(o)
                                       /\ rec = Received(o) /\ gain = Gain(o, at)
  OBVIOUS
<1>3. /\ v \in Users /\ o.symbol \in Symbols /\ o.side \in Sides /\ o.quantity \in Nat /\ at \in Nat
  BY <1>2, StoredSets, PriceTypes DEF OrderRows
<1>4. lock \in Nat /\ -lock \in Int /\ asset \in Assets /\ gain \in Nat /\ rec \in Assets /\ rec # asset
  BY <1>2, <1>3, AmountsNat, ReceivedOther DEF Gain
<1>5. /\ ~Placed(id) /\ ~Pending(id) /\ ~Filled(id) /\ TablesOK
  BY DEF MarketFills, Pending, Filled, Placed, AuditInv, EngineInv
<1>6. /\ OnlyRow(id) /\ orders'[id] # Nil /\ orders'[id].status = "FILLED" /\ orders'[id].user = v
      /\ MovesOf(orders'[id], u, a) = IF u # v THEN 0 ELSE IF a = rec THEN gain
                                      ELSE IF a = asset THEN -lock ELSE 0
      /\ HoldsOf(orders'[id], u, a) = 0
  BY <1>1, <1>2, <1>3, <1>5, FillMoves
<1>7. PICK c, d : c = Add(balance, v, asset, -lock) /\ d = Add(locked, v, asset, lock)
  OBVIOUS
<1>8. balance' = Add(c, v, rec, gain) /\ locked' = Add(d, v, asset, -lock)
  BY <1>1, <1>2, <1>7 DEF LocksAndSettles
<1>9. /\ c \in Columns(Int) /\ balance[u][a] \in Int /\ c[u][a] \in Int /\ Unit \in Nat
      /\ ~(u = v /\ a = asset) => c[u][a] = balance[u][a]
      /\ u = v /\ a = asset => LET off == 2 * (c[u][a] - balance[u][a] - (-lock))
                               IN  -Unit <= off /\ off <= Unit
  BY <1>3, <1>4, <1>7, AddCell
<1>10. /\ d \in Columns(Int) /\ locked[u][a] \in Int /\ d[u][a] \in Int
       /\ ~(u = v /\ a = asset) => d[u][a] = locked[u][a]
       /\ u = v /\ a = asset => LET off == 2 * (d[u][a] - locked[u][a] - lock)
                                IN  -Unit <= off /\ off <= Unit
  BY <1>3, <1>4, <1>7, AddCell
<1>11. /\ balance'[u][a] \in Int
       /\ ~(u = v /\ a = rec) => balance'[u][a] = c[u][a]
       /\ u = v /\ a = rec => LET off == 2 * (balance'[u][a] - c[u][a] - gain)
                              IN  -Unit <= off /\ off <= Unit
  BY <1>3, <1>4, <1>8, <1>9, AddCell
<1>12. /\ locked'[u][a] \in Int
       /\ ~(u = v /\ a = asset) => locked'[u][a] = d[u][a]
       /\ u = v /\ a = asset => LET off == 2 * (locked'[u][a] - d[u][a] - (-lock))
                                IN  -Unit <= off /\ off <= Unit
  BY <1>3, <1>4, <1>8, <1>10, AddCell
<1>13. PICK b, l, m : b = balance'[u][a] - balance[u][a] /\ l = locked'[u][a] - locked[u][a]
                      /\ m = MovesOf(orders'[id], u, a)
  OBVIOUS
<1>14. b \in Int /\ l \in Int /\ m \in Int
  BY <1>4, <1>6, <1>9, <1>10, <1>11, <1>12, <1>13
<1>15. Drifts(u, a)
  <2>1. PICK k \in {0, 1, 2} : k = IF v # u THEN 0 ELSE 2
    OBVIOUS
  <2>2. -(k * Unit) <= b + l - m /\ b + l - m <= k * Unit
    <3>1. CASE u # v
      BY <1>6, <1>9, <1>10, <1>11, <1>12, <1>13, <2>1, <3>1
    <3>2. CASE u = v /\ a = rec
      BY <1>4, <1>6, <1>9, <1>10, <1>11, <1>12, <1>13, <2>1, <3>2
    <3>3. CASE u = v /\ a = asset
      BY <1>4, <1>6, <1>9, <1>10, <1>11, <1>12, <1>13, <2>1, <3>3
    <3>4. CASE u = v /\ a # rec /\ a # asset
      BY <1>6, <1>9, <1>10, <1>11, <1>12, <1>13, <2>1, <3>4
    <3> QED
      BY <3>1, <3>2, <3>3, <3>4
  <2>3. balance'[u][a] = balance[u][a] + b /\ locked'[u][a] = locked[u][a] + l
    BY <1>9, <1>10, <1>11, <1>12, <1>13
  <2>4. /\ OnlyRow(id) /\ Placed(id)' /\ ~Filled(id) /\ ~Placed(id) /\ MovesOf(orders'[id], u, a) = m
        /\ k = IF orders'[id].user # u THEN 0
               ELSE (IF Placed(id) THEN 0 ELSE 1) + (IF Pending(id)' THEN 0 ELSE 1)
    BY <1>5, <1>6, <1>13, <2>1 DEF Placed, Pending
  <2> QED
    BY <1>9, <1>10, <1>14, <2>2, <2>3, <2>4, DriftsBy
<1>16. ASSUME ExactColumns PROVE LocksAgree(u, a)
  <2>1. l = 0
    BY <1>4, <1>10, <1>12, <1>13, <1>16 DEF Unit
  <2>2. HoldsOf(orders[id], u, a) = 0
    BY <1>5 DEF HoldsOf, Placed
  <2>3. HeldByOrders(u, a) \in Int /\ HeldByOrders(u, a)' = HeldByOrders(u, a) + (0 - 0)
    BY <1>6, <2>2, HeldIs, HeldChange
  <2> QED
    BY <1>13, <2>1, <2>3 DEF LocksAgree
<1> QED
  BY <1>15, <1>16

\* A tick fills an order at the price its lock was for, or gives its owner, for a
\* STOP_LOSS BUY, more than he had locked the price of.
LEMMA TickLock ==
    ASSUME NEW o \in OrderRows, o.type # "MARKET", NEW p \in Prices, Triggers(o, p)
    PROVE  LET at == FillPrice(o, p)
           IN  /\ LockOf(o) \in Nat /\ LockAmount(o, at) \in Nat /\ at \in Nat
               /\ LockOf(o) <= LockAmount(o, at)
               /\ ~(o.type = "STOP_LOSS" /\ o.side = "BUY") => LockOf(o) = LockAmount(o, at)
<1> DEFINE at == FillPrice(o, p)
<1>1. o.trigger \in Nat /\ p \in Nat /\ o.side \in Sides /\ o.symbol \in Symbols /\ o.quantity \in Nat
      /\ o.type \in Types
  BY StoredSets, PriceTypes DEF OrderRows
<1>2. at \in Nat
  BY <1>1 DEF FillPrice
<1>3. LockOf(o) \in Nat /\ LockAmount(o, at) \in Nat
  BY <1>1, <1>2, AmountsNat DEF LockOf
<1>4. CASE o.side = "BUY"
  <2>1. LockOf(o) <= LockAmount(o, at)
    BY <1>4, LockCoversNoMore DEF LockOf, LockAmount
  <2>2. o.type = "LIMIT" => at = o.trigger
    BY DEF FillPrice
  <2> QED
    BY <1>1, <1>2, <1>3, <1>4, <2>1, <2>2 DEF LockOf, Types
<1>5. CASE o.side = "SELL"
  <2>1. LockOf(o) = LockAmount(o, at)
    BY <1>5 DEF LockOf, LockAmount
  <2> QED
    BY <1>2, <1>3, <1>5, <2>1
<1> QED
  BY <1>1, <1>4, <1>5 DEF Sides

LEMMA TickDrifts ==
    ASSUME Grid = 1, AuditInv, AuditInv', balance \in Columns(Int), locked \in Columns(Int),
           NEW id \in OrderIds, TickFills(id), NEW u \in Users, NEW a \in Assets
    PROVE  Drifts(u, a) /\ (ExactColumns => LocksAgree(u, a))
<1>1. PICK o, at, v, lock, asset, rec, gain, worth :
          /\ o = orders[id] /\ at = FillPrice(o, feed.price) /\ v = o.user /\ lock = LockOf(o)
          /\ asset = LockAsset(o) /\ rec = Received(o) /\ gain = Gain(o, at)
          /\ worth = LockAmount(o, at)
  OBVIOUS
<1>2. /\ Pending(id) /\ Placed(id) /\ ~Filled(id) /\ TablesOK /\ o \in OrderRows /\ o.type # "MARKET"
      /\ feed.price \in Prices /\ Triggers(o, feed.price) /\ RowFilled(id, o, at)
      /\ Settles(o, lock, at)
  BY <1>1 DEF TickFills, TickFill, RowFilled, Resting, Pending, Filled, Placed, AuditInv, EngineInv
<1>3. /\ v \in Users /\ o.symbol \in Symbols /\ o.side \in Sides /\ o.quantity \in Nat
  BY <1>1, <1>2, StoredSets DEF OrderRows
<1>4. /\ lock \in Nat /\ worth \in Nat /\ at \in Nat /\ lock <= worth
      /\ ~(o.type = "STOP_LOSS" /\ o.side = "BUY") => lock = worth
  BY <1>1, <1>2, TickLock
<1>5. -lock \in Int /\ asset \in Assets /\ gain \in Nat /\ gain \in Int /\ rec \in Assets
      /\ rec # asset
  BY <1>1, <1>3, <1>4, AmountsNat, ReceivedOther DEF Gain
<1>6. /\ OnlyRow(id) /\ orders'[id] # Nil /\ orders'[id].status = "FILLED" /\ orders'[id].user = v
      /\ orders'[id].type = o.type /\ orders'[id].side = o.side
      /\ MovesOf(orders'[id], u, a) = IF u # v THEN 0 ELSE IF a = rec THEN gain
                                      ELSE IF a = asset THEN -worth ELSE 0
      /\ HoldsOf(orders'[id], u, a) = 0
  BY <1>1, <1>2, <1>3, <1>4, FillMoves
<1>7. balance' = Add(balance, v, rec, gain) /\ locked' = Add(locked, v, asset, -lock)
  BY <1>1, <1>2 DEF Settles
<1>8. /\ balance[u][a] \in Int /\ balance'[u][a] \in Int /\ Unit \in Nat
      /\ ~(u = v /\ a = rec) => balance'[u][a] = balance[u][a]
      /\ u = v /\ a = rec => LET off == 2 * (balance'[u][a] - balance[u][a] - gain)
                             IN  -Unit <= off /\ off <= Unit
  <2>1. PICK c : c = Add(balance, v, rec, gain)
    OBVIOUS
  <2>2. /\ balance[u][a] \in Int /\ c[u][a] \in Int /\ Unit \in Nat
        /\ ~(u = v /\ a = rec) => c[u][a] = balance[u][a]
        /\ u = v /\ a = rec => LET off == 2 * (c[u][a] - balance[u][a] - gain)
                               IN  -Unit <= off /\ off <= Unit
    <3>1. balance \in Columns(Int) /\ u \in Users /\ a \in Assets
      OBVIOUS
    <3> QED
      BY ONLY <1>3, <1>5, <2>1, <3>1, AddCell
  <2> QED
    BY <1>7, <2>1, <2>2
<1>9. /\ locked[u][a] \in Int /\ locked'[u][a] \in Int
      /\ ~(u = v /\ a = asset) => locked'[u][a] = locked[u][a]
      /\ u = v /\ a = asset => LET off == 2 * (locked'[u][a] - locked[u][a] - (-lock))
                               IN  -Unit <= off /\ off <= Unit
  BY <1>3, <1>5, <1>7, AddCell
<1>10. PICK b, l, m : b = balance'[u][a] - balance[u][a] /\ l = locked'[u][a] - locked[u][a]
                      /\ m = MovesOf(orders'[id], u, a)
  OBVIOUS
<1>11. b \in Int /\ l \in Int /\ m \in Int
  BY <1>4, <1>5, <1>6, <1>8, <1>9, <1>10
<1>12. Drifts(u, a)
  <2>1. PICK k \in {0, 1, 2} : k = IF v # u THEN 0 ELSE 1
    OBVIOUS
  <2>2. -(k * Unit) <= b + l - m
        /\ (u # v \/ ~(o.type = "STOP_LOSS" /\ o.side = "BUY") => b + l - m <= k * Unit)
    <3>1. CASE u # v
      BY <1>6, <1>8, <1>9, <1>10, <2>1, <3>1
    <3>2. CASE u = v /\ a = rec
      BY <1>5, <1>6, <1>8, <1>9, <1>10, <2>1, <3>2
    <3>3. CASE u = v /\ a = asset
      BY <1>4, <1>5, <1>6, <1>8, <1>9, <1>10, <2>1, <3>3
    <3>4. CASE u = v /\ a # rec /\ a # asset
      BY <1>6, <1>8, <1>9, <1>10, <2>1, <3>4
    <3> QED
      BY <3>1, <3>2, <3>3, <3>4
  <2>3. NoStopBuys(u)' => u # v \/ ~(o.type = "STOP_LOSS" /\ o.side = "BUY")
    BY <1>6 DEF NoStopBuys, IsStopBuy, Filled, Placed
  <2>4. balance'[u][a] = balance[u][a] + b /\ locked'[u][a] = locked[u][a] + l
    BY <1>8, <1>9, <1>10
  <2>5. /\ OnlyRow(id) /\ Placed(id)' /\ ~Filled(id) /\ MovesOf(orders'[id], u, a) = m
        /\ Placed(id) => orders'[id].user = orders[id].user /\ Pending(id) /\ ~Pending(id)'
        /\ k = IF orders'[id].user # u THEN 0
               ELSE (IF Placed(id) THEN 0 ELSE 1) + (IF Pending(id)' THEN 0 ELSE 1)
    BY <1>1, <1>2, <1>6, <1>10, <2>1 DEF Placed, Pending
  <2> QED
    BY <1>8, <1>9, <1>11, <2>2, <2>3, <2>4, <2>5, DriftsBy
<1>13. ASSUME ExactColumns PROVE LocksAgree(u, a)
  <2>1. l = IF u = v /\ a = asset THEN -lock ELSE 0
    BY <1>4, <1>9, <1>10, <1>13 DEF Unit
  <2>2. HoldsOf(orders[id], u, a) = -l
    BY <1>1, <1>2, <1>4, <2>1 DEF HoldsOf, Placed, Pending
  <2>3. HeldByOrders(u, a) \in Int /\ HeldByOrders(u, a)' = HeldByOrders(u, a) + (0 - (-l))
    BY <1>6, <2>2, HeldIs, HeldChange
  <2> QED
    BY <1>10, <1>9, <1>11, <2>3 DEF LocksAgree
<1> QED
  BY <1>12, <1>13

\* What any step does to any wallet.
LEMMA StepDrifts ==
    ASSUME Grid = 1, AuditInv, balance \in Columns(Int), locked \in Columns(Int), [Next]_vars,
           NEW u \in Users, NEW a \in Assets
    PROVE  Drifts(u, a) /\ (ExactColumns => LocksAgree(u, a))
<1>1. AuditInv' /\ EngineInv
  BY AuditNext DEF AuditInv
<1>2. CASE UNCHANGED dbVars
  <2>1. UNCHANGED <<balance, locked, orders, trades>>
    BY <1>2 DEF dbVars
  <2>2. /\ Budget(u)' = Budget(u) /\ HeldByOrders(u, a)' = HeldByOrders(u, a)
        /\ TradedBy(u, a)' = TradedBy(u, a) /\ (NoStopBuys(u)' => NoStopBuys(u))
    BY <2>1 DEF Budget, PlacedBy, EndedFor, Placed, HeldByOrders, HeldBy, Pending, TradedBy, Moved,
                NoStopBuys, IsStopBuy, Filled
  <2>3. /\ Drift(u, a) \in Int /\ HeldByOrders(u, a) \in Int /\ locked[u][a] \in Int
        /\ TradedBy(u, a) \in Int
    BY TradedInt, HeldIs, OrderEngineAssumption DEF Drift, Columns
  <2>4. Drift(u, a)' = Drift(u, a)
    BY <2>1, <2>2 DEF Drift
  <2>5. Unit \in Nat
    BY ScaleAssumption DEF Unit
  <2>6. Budget(u) \in Nat
    BY BudgetNat
  <2>7. PICK k \in {0, 1, 2} : k = 0
    OBVIOUS
  <2>8. Drifts(u, a)
    <3> HIDE DEF Drift, Budget, NoStopBuys
    <3> QED
      BY <2>2, <2>3, <2>4, <2>5, <2>6, <2>7 DEF Drifts
  <2> QED
    BY <2>1, <2>2, <2>3, <2>8 DEF LocksAgree
<1>3. CASE \E id \in OrderIds : Rests(id) \/ IsReleased(id) \/ MarketFills(id) \/ TickFills(id)
  BY <1>1, <1>3, RestDrifts, ReleaseDrifts, MarketDrifts, TickDrifts
<1> QED
  BY <1>1, <1>2, <1>3, WalletCases

\* How far the wallets may have drifted from the trades by now.
WithinBudget ==
    \A u \in Users, a \in Assets :
        /\ -(Budget(u) * Unit) <= Drift(u, a)
        /\ NoStopBuys(u) => Drift(u, a) <= Budget(u) * Unit

DriftInv == WithinBudget /\ (ExactColumns => LockedMatchesOpenOrders)

LEMMA DriftInit == Init => DriftInv
<1> SUFFICES ASSUME Init PROVE DriftInv
  OBVIOUS
<1>1. ASSUME NEW u \in Users, NEW a \in Assets
      PROVE  HeldByOrders(u, a) = 0 /\ TradedBy(u, a) = 0 /\ balance[u][a] = InitialBalance /\ locked[u][a] = 0
  <2> DEFINE f == [id \in OrderIds |-> HeldBy(id, u, a)]
             g == [id \in OrderIds |-> Moved(id, u, a)]
  <2>1. /\ DOMAIN f = OrderIds /\ DOMAIN g = OrderIds
        /\ \A id \in OrderIds : f[id] = 0 /\ g[id] = 0
    BY DEF Init, HeldBy, Moved, Pending, Placed
  <2>2. HeldByOrders(u, a) = SumFunction(f) /\ TradedBy(u, a) = SumFunction(g)
    BY DEF HeldByOrders, TradedBy
  <2> HIDE DEF f, g
  <2>3. SumFunctionOnSet(f, OrderIds) = 0 /\ SumFunctionOnSet(g, OrderIds) = 0
    BY <2>1, SumZero, AuditAssumption
  <2> QED
    BY <2>1, <2>2, <2>3 DEF SumFunction, Init
<1>2. ASSUME NEW u \in Users PROVE Budget(u) * Unit \in Nat
  BY BudgetNat, ScaleAssumption DEF Unit
<1>3. ASSUME NEW u \in Users, NEW a \in Assets PROVE Drift(u, a) = 0
  BY <1>1, OrderEngineAssumption DEF Drift
<1>4. WithinBudget
  <2> HIDE DEF Drift, Budget, NoStopBuys
  <2> QED
    BY <1>2, <1>3 DEF WithinBudget
<1> QED
  BY <1>1, <1>4 DEF DriftInv, LockedMatchesOpenOrders

LEMMA DriftNext ==
    ASSUME Grid = 1, AuditInv, balance \in Columns(Int), locked \in Columns(Int),
           locked' \in Columns(Int), DriftInv, [Next]_vars
    PROVE  DriftInv'
<1>1. ASSUME NEW u \in Users, NEW a \in Assets
      PROVE  /\ -(Budget(u)' * Unit) <= Drift(u, a)'
             /\ NoStopBuys(u)' => Drift(u, a)' <= Budget(u)' * Unit
  <2>1. PICK k \in {0, 1, 2}, d \in Int :
          /\ Budget(u)' = Budget(u) + k
          /\ Drift(u, a)' = Drift(u, a) + d
          /\ -(k * Unit) <= d
          /\ NoStopBuys(u)' => NoStopBuys(u) /\ d <= k * Unit
    BY StepDrifts DEF Drifts
  <2>2. /\ -(Budget(u) * Unit) <= Drift(u, a)
        /\ NoStopBuys(u) => Drift(u, a) <= Budget(u) * Unit
    BY DEF DriftInv, WithinBudget
  <2>3. Drift(u, a) \in Int
    BY TradedInt, OrderEngineAssumption DEF Drift, Columns
  <2>4. Budget(u) \in Nat /\ Unit \in Nat
    BY BudgetNat, ScaleAssumption DEF Unit
  <2>5. PICK n, w, x : n = Budget(u) /\ w = Unit /\ x = Drift(u, a)
    OBVIOUS
  <2>6. (n + k) * w = n * w + k * w /\ n * w \in Int /\ k * w \in Int
    BY <2>4, <2>5
  <2> HIDE DEF Drift, Budget, NoStopBuys, Unit
  <2> QED
    BY <2>1, <2>2, <2>3, <2>4, <2>5, <2>6
<1>2. ASSUME ExactColumns PROVE LockedMatchesOpenOrders'
  <2>1. LockedMatchesOpenOrders
    BY <1>2 DEF DriftInv
  <2>2. ASSUME NEW u \in Users, NEW a \in Assets PROVE locked'[u][a] = HeldByOrders(u, a)'
    <3>1. HeldByOrders(u, a)' = HeldByOrders(u, a) + (locked'[u][a] - locked[u][a])
      BY <1>2, StepDrifts DEF LocksAgree
    <3>2. locked[u][a] = HeldByOrders(u, a) /\ locked[u][a] \in Int /\ locked'[u][a] \in Int
      BY <2>1 DEF LockedMatchesOpenOrders, Columns
    <3> QED
      BY <3>1, <3>2
  <2> QED
    BY <2>2 DEF LockedMatchesOpenOrders
<1> QED
  BY <1>1, <1>2 DEF DriftInv, WithinBudget
\* DriftInv with what it rests on, inductive.
DriftIInv == IInv /\ AuditInv /\ DriftInv

LEMMA DriftInvariance ==
    ASSUME Grid = 1
    PROVE  Spec => []DriftIInv
<1>1. Init => DriftIInv
  BY InitInv, AuditInit, DriftInit DEF DriftIInv
<1>2. ASSUME DriftIInv, [Next]_vars PROVE DriftIInv'
  <2>1. IInv' /\ AuditInv'
    BY <1>2, NextInv, AuditNext DEF DriftIInv
  <2>2. /\ balance \in Columns(Int) /\ locked \in Columns(Int) /\ locked' \in Columns(Int)
        /\ AuditInv /\ DriftInv
    BY <1>2, <2>1 DEF DriftIInv, IInv, ColumnsOK, Columns
  <2> QED
    BY <1>2, <2>1, <2>2, DriftNext DEF DriftIInv
<1> QED
  BY <1>1, <1>2, PTL DEF Spec

\* With exact columns, lockFunds, unlockFunds and settleFill agree on what an order
\* holds: locked_balance is at all times what the PENDING orders hold, to the unit.
THEOREM LocksMatch ==
    ASSUME ExactColumns
    PROVE  Spec => []LockedMatchesOpenOrders
<1>1. DriftIInv => LockedMatchesOpenOrders
  BY DEF DriftIInv, DriftInv
<1>2. Grid = 1
  BY DEF ExactColumns
<1> QED
  BY <1>1, <1>2, DriftInvariance, PTL

\* With exact columns, the trade history explains every wallet of a user who had no
\* STOP_LOSS BUY filled: lockFunds, unlockFunds and settleFill lose and make nothing.
\* (Only orders change wallets here; with other services at work, see Exchange.)
THEOREM WalletsMatch ==
    ASSUME ExactColumns
    PROVE  Spec => []WalletsMatchTrades
<1>1. ASSUME DriftIInv, NEW u \in Users, NEW a \in Assets, NoStopBuys(u)
      PROVE  balance[u][a] + locked[u][a] = InitialBalance + TradedBy(u, a)
  <2>1. balance[u][a] \in Int /\ locked[u][a] \in Int /\ TradedBy(u, a) \in Int
    BY <1>1, TradedInt DEF DriftIInv, IInv, ColumnsOK, Columns
  <2>2. Budget(u) * Unit = 0
    BY BudgetNat DEF Unit
  <2>3. -(Budget(u) * Unit) <= Drift(u, a) /\ Drift(u, a) <= Budget(u) * Unit
    BY <1>1 DEF DriftIInv, DriftInv, WithinBudget
  <2>4. -0 <= Drift(u, a) /\ Drift(u, a) <= 0
    BY <2>2, <2>3
  <2> QED
    BY <2>1, <2>4, OrderEngineAssumption DEF Drift
<1>2. DriftIInv => WalletsMatchTrades
  BY <1>1 DEF WalletsMatchTrades, NoStopBuys
<1>3. Grid = 1
  BY DEF ExactColumns
<1> QED
  BY <1>2, <1>3, DriftInvariance, PTL

\* With exact columns nobody ever owns less than the trade history says, STOP_LOSS
\* BUYs included, whatever price settleFill filled them at.
THEOREM WalletsCover ==
    ASSUME ExactColumns
    PROVE  Spec => []WalletsCoverTrades
<1>1. ASSUME DriftIInv, NEW u \in Users, NEW a \in Assets
      PROVE  balance[u][a] + locked[u][a] >= InitialBalance + TradedBy(u, a)
  <2>1. balance[u][a] \in Int /\ locked[u][a] \in Int /\ TradedBy(u, a) \in Int
    BY <1>1, TradedInt DEF DriftIInv, IInv, ColumnsOK, Columns
  <2>2. Budget(u) * Unit = 0
    BY BudgetNat DEF Unit
  <2>3. -(Budget(u) * Unit) <= Drift(u, a)
    BY <1>1 DEF DriftIInv, DriftInv, WithinBudget
  <2>4. -0 <= Drift(u, a)
    BY <2>2, <2>3
  <2> QED
    BY <2>1, <2>4, OrderEngineAssumption DEF Drift
<1>2. DriftIInv => WalletsCoverTrades
  BY <1>1 DEF WalletsCoverTrades
<1>3. Grid = 1
  BY DEF ExactColumns
<1> QED
  BY <1>2, <1>3, DriftInvariance, PTL

LEMMA ProductGrows ==
    ASSUME NEW x \in Nat, NEW y \in Nat, NEW v \in Nat, NEW w \in Nat, x <= y, v <= w
    PROVE  x * v <= y * w
<1>1. x * v <= y * v /\ x * v \in Nat /\ y * v \in Nat /\ y * w \in Nat
  BY Z3
<1>2. y * v <= y * w
  BY Z3
<1> QED
  BY <1>1, <1>2

\* However coarse the columns are next to the products the engine computes, what
\* PostgreSQL rounds never adds up to more than two units of the column per order.
THEOREM RoundingBounded ==
    ASSUME Grid = 1
    PROVE  Spec => []RoundingStaysSmall
<1>1. ASSUME DriftIInv, NEW u \in Users, NEW a \in Assets, NoStopBuys(u)
      PROVE  LET drift == balance[u][a] + locked[u][a] - InitialBalance - TradedBy(u, a)
                 slack == 2 * Scale * Grid * Cardinality(PlacedBy(u))
             IN  -slack <= drift /\ drift <= slack
  <2>1. PICK n, c, w : n = Budget(u) /\ c = Cardinality(PlacedBy(u)) /\ w = Unit
    OBVIOUS
  <2>2. n \in Nat /\ c \in Nat /\ n <= 2 * c
    BY <2>1, BudgetNat
  <2>3. Scale \in Nat /\ w \in Nat /\ w <= Scale
    BY <2>1, ScaleAssumption DEF Unit
  <2>4. Drift(u, a) \in Int
    BY <1>1, TradedInt, OrderEngineAssumption DEF Drift, DriftIInv, IInv, ColumnsOK, Columns
  <2>5. -(n * w) <= Drift(u, a) /\ Drift(u, a) <= n * w
    BY <1>1, <2>1 DEF DriftIInv, DriftInv, WithinBudget
  <2>6. n * w <= (2 * c) * Scale
    BY <2>2, <2>3, ProductGrows
  <2>7. 2 * Scale * Grid * c = (2 * c) * Scale /\ n * w \in Int /\ (2 * c) * Scale \in Int
    BY <2>2, <2>3
  <2>8. PICK d, x, y : d = Drift(u, a) /\ x = n * w /\ y = (2 * c) * Scale
    OBVIOUS
  <2>9. -y <= d /\ d <= y
    BY <2>4, <2>5, <2>6, <2>7, <2>8
  <2> QED
    BY <2>1, <2>7, <2>8, <2>9 DEF Drift
<1>2. DriftIInv => RoundingStaysSmall
  BY <1>1 DEF RoundingStaysSmall, NoStopBuys, PlacedBy
<1> QED
  BY <1>2, DriftInvariance, PTL
=============================================================================
