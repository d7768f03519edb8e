----------------------------- MODULE OrderAudit -----------------------------
(***************************************************************************)
(* What an auditor of the database would add up: the wallets against the    *)
(* orders and trades tables.  The sums need every column to be exact.       *)
(***************************************************************************)
EXTENDS OrderEngine, Functions

\* An auditor adds up the rows of a table, and a table is finite.
ASSUME AuditAssumption == IsFiniteSet(OrderIds)

\* What order id holds of u's asset a.
HeldBy(id, u, a) ==
    IF Pending(id) /\ orders[id].user = u /\ LockAsset(orders[id]) = a
    THEN LockAmount(orders[id], orders[id].trigger) ELSE 0

HeldByOrders(u, a) == SumFunction([id \in OrderIds |-> HeldBy(id, u, a)])

\* locked_balance is exactly what the user's PENDING orders hold, so it is never
\* negative and no funds stay locked for an order that is over.  lockFunds,
\* unlockFunds and settleFill each move it by an amount computed on its own.
LockedMatchesOpenOrders ==
    \A u \in Users, a \in Assets : locked[u][a] = HeldByOrders(u, a)

\* What the trade t of the order row o moved of asset a for the order's owner.
MovedBy(o, t, a) ==
    LET sign == IF o.side = "BUY" THEN 1 ELSE -1
    IN  IF a = Base[o.symbol] THEN sign * BaseAmount(t.quantity)
        ELSE IF a = Quote[o.symbol] THEN -sign * QuoteAmount(t.quantity, t.price)
        ELSE 0

\* What the trades of order id moved of u's asset a.
Moved(id, u, a) ==
    IF Placed(id) /\ orders[id].user = u
    THEN SumFunction([i \in DOMAIN trades[id] |-> MovedBy(orders[id], trades[id][i], a)])
    ELSE 0

TradedBy(u, a) == SumFunction([id \in OrderIds |-> Moved(id, u, a)])

IsStopBuy(id) ==
    Filled(id) /\ orders[id].type = "STOP_LOSS" /\ orders[id].side = "BUY"

\* The trade history explains what the engine makes of every wallet: what a user
\* owns of an asset, free and locked, is what he started with and what his trades
\* moved.  (A filled STOP_LOSS BUY is left out here: see WalletsMatchAllTrades.)
WalletsMatchTrades ==
    \A u \in Users, a \in Assets :
        (\A id \in OrderIds : IsStopBuy(id) => orders[id].user # u)
            => balance[u][a] + locked[u][a] = InitialBalance + TradedBy(u, a)

\* Nobody ever owns less than the trade history says, STOP_LOSS BUYs included.
WalletsCoverTrades ==
    \A u \in Users, a \in Assets :
        balance[u][a] + locked[u][a] >= InitialBalance + TradedBy(u, a)

\* The same with no exception, as settleFill's comment has it: the lock is an
\* estimate, and the difference to what was actually spent is settled.
WalletsMatchAllTrades ==
    \A u \in Users, a \in Assets :
        balance[u][a] + locked[u][a] = InitialBalance + TradedBy(u, a)

\* Rounding never adds up to more than two units of the column per order placed:
\* an order touches each asset's two columns at most four times, and each
\* rounding is off by half a unit.  (Inputs that fit their columns: Grid = 1.)
RoundingStaysSmall ==
    \A u \in Users, a \in Assets :
        (\A id \in OrderIds : IsStopBuy(id) => orders[id].user # u)
            => LET drift == balance[u][a] + locked[u][a] - InitialBalance - TradedBy(u, a)
                   slack == 2 * Scale * Grid
                              * Cardinality({id \in OrderIds : Placed(id) /\ orders[id].user = u})
               IN  -slack <= drift /\ drift <= slack
=============================================================================
