------------------------------ MODULE OrderTx ------------------------------
(***************************************************************************)
(* The order engine's transactions, statement by statement, on the row      *)
(* locks of PostgreSQL (src/services/orderEngine.js).  An UPDATE or a       *)
(* SELECT ... FOR UPDATE takes its row's lock, waiting for whoever has it,  *)
(* reads what is committed then, and keeps the lock up to COMMIT or         *)
(* ROLLBACK.  OrderEngine has every transaction as a single step: this      *)
(* module implements it, and adds what one step hides, who waits for whom.  *)
(*                                                                          *)
(* Wallet rows exist (ensureWallet finds them).  The statements after the   *)
(* last wallet, and COMMIT, concern rows the transaction has already and    *)
(* are one step; an order's id is only seen from then on.  The deletion of  *)
(* an account, whose cascade locks the same rows, is left out.              *)
(***************************************************************************)
EXTENDS OrderEngine

VARIABLE txn  \* the transaction each handler, and the tick, has open

txVars == <<vars, txn>>

Tick  == "tick"
Procs == Handlers \cup {Tick}

Wallets == Users \X Assets

\* The tick is no request, and an order's id is never missing.  A wallet starts with
\* what its column can hold.
ASSUME TxAssumption ==
    /\ Tick \notin Handlers /\ IsFiniteSet(Handlers)
    /\ Nil \notin OrderIds
    /\ StoredAmount(InitialBalance) = InitialBalance

\* UPDATE wallets: what it adds to the two columns, and the free balance its
\* WHERE clause asks for.
Updates == [wallet : Wallets, free : Int, held : Int, needs : Nat \cup {Nil}]

\* What is to do, and what the rows locked so far hold now.
TxTypeOK ==
    /\ TypeOK
    /\ \A p \in Procs : txn[p] # Nil =>
          /\ txn[p].id \in OrderIds \cup {Nil}
          /\ txn[p].row \in OrderRows
          /\ txn[p].todo \in Seq(Updates)
          /\ DOMAIN txn[p].rows \subseteq Wallets

TxInit == Init /\ txn = [p \in Procs |-> Nil]

-----------------------------------------------------------------------------
(* The statements of a transaction, in the order of the code.               *)

Update(o, asset, free, held) ==
    [wallet |-> <<o.user, asset>>, free |-> free, held |-> held, needs |-> Nil]

\* lockFunds, unlockFunds.  (Mutants: an UPDATE without its WHERE clause on the
\* balance; a cancel that leaves locked_balance alone.)
LockFundsUnchecked(o, lock)    == Update(o, LockAsset(o), -lock, lock)
LockFunds(o, lock)             == [Update(o, LockAsset(o), -lock, lock) EXCEPT !.needs = lock]
UnlockFundsFreeOnly(o, lock)   == Update(o, LockAsset(o), lock, 0)
UnlockFunds(o, lock)           == Update(o, LockAsset(o), lock, -lock)

\* Mutant of settleFill: what is received first.
SettlementReceiptFirst(o, lock, at) ==
    IF o.side = "BUY"
    THEN <<Update(o, Base[o.symbol], BaseAmount(o.quantity), 0),
           Update(o, Quote[o.symbol], 0, -lock)>>
    ELSE <<Update(o, Quote[o.symbol], QuoteAmount(o.quantity, at), 0),
           Update(o, Base[o.symbol], 0, -BaseAmount(o.quantity))>>

\* settleFill: what is spent first, then what is received.
Settlement(o, lock, at) ==
    LET worth  == QuoteAmount(o.quantity, at)
        refund == lock - worth
    IN  IF o.side = "BUY"
        THEN LET spent  == Update(o, Quote[o.symbol], 0, -lock)
                 bought == Update(o, Base[o.symbol], BaseAmount(o.quantity), 0)
             IN  IF refund > 0 THEN <<spent, Update(o, Quote[o.symbol], refund, 0), bought>>
                               ELSE <<spent, bought>>
        ELSE <<Update(o, Base[o.symbol], 0, -BaseAmount(o.quantity)),
               Update(o, Quote[o.symbol], worth, 0)>>

\* The row as settleFill leaves it.
FilledRow(o, at) == [o EXCEPT !.status = "FILLED", !.filled_price = StoredInput(at)]

\* placeOrder's transaction, and the row it leaves.
Placement(a, at) ==
    IF a.type = "MARKET"
    THEN <<LockFunds(a, LockAmount(a, at))>> \o Settlement(InsertedRow(a), LockAmount(a, at), at)
    ELSE <<LockFunds(a, LockAmount(a, a.trigger))>>

PlacedRow(a, at) ==
    IF a.type = "MARKET" THEN FilledRow(InsertedRow(a), at) ELSE InsertedRow(a)

\* A transaction on the order `id`, which becomes `row`.
Open(kind, id, row, todo) ==
    [kind |-> kind, id |-> id, row |-> row, todo |-> todo, rows |-> <<>>]

-----------------------------------------------------------------------------
(* Row locks.                                                               *)

HasOrder(q, id) == txn[q] # Nil /\ txn[q].id = id
HasWallet(q, w) == txn[q] # Nil /\ w \in DOMAIN txn[q].rows

OrderIsFree(id)     == \A q \in Procs : ~HasOrder(q, id)
WalletIsFree(p, w)  == \A q \in Procs \ {p} : ~HasWallet(q, w)

\* What a statement of p sees in a wallet's row.
Sees(p, w) ==
    IF HasWallet(p, w) THEN txn[p].rows[w]
    ELSE [free |-> balance[w[1]][w[2]], held |-> locked[w[1]][w[2]]]

\* The two columns as they are once p's updates so far are committed.
SeenFree(p) == [u \in Users |-> [a \in Assets |-> Sees(p, <<u, a>>).free]]
SeenHeld(p) == [u \in Users |-> [a \in Assets |-> Sees(p, <<u, a>>).held]]

Passes(p, s) == s.needs # Nil => Sees(p, s.wallet).free >= s.needs

-----------------------------------------------------------------------------
(* Steps of a transaction.                                                  *)

\* BEGIN: from here on placeOrder has its amounts in memory.
BeginPlace(h) ==
    /\ request[h] # Nil /\ txn[h] = Nil
    /\ Cardinality(FreshIds) > Cardinality({q \in Handlers : HasOrder(q, Nil)})
    /\ LET a  == request[h].args
           at == request[h].latest
       IN  txn' = [txn EXCEPT ![h] = Open("place", Nil, PlacedRow(a, at), Placement(a, at))]
    /\ UNCHANGED vars

\* cancelOrder's SELECT ... FOR UPDATE has its row, which is the user's and PENDING.
BeginCancel(h, u, id) ==
    /\ request[h] = Nil /\ txn[h] = Nil
    /\ orders[id] # Nil /\ OrderIsFree(id)
    /\ MayCancel(u, id)
    /\ LET o == orders[id]
       IN  txn' = [txn EXCEPT ![h] =
                Open("cancel", id, [o EXCEPT !.status = "CANCELLED"],
                     <<UnlockFunds(o, LockAmount(o, o.trigger))>>)]
    /\ UNCHANGED vars

\* The re-check of processTick waits for the order's row.  (Mutant: a SELECT
\* without FOR UPDATE does not.)
FillSelectsOnly(id) == TRUE
FillMayRead(id)     == OrderIsFree(id)

BeginFill(id) ==
    /\ feed.pc = "fill" /\ id \in feed.rows /\ txn[Tick] = Nil
    /\ FillMayRead(id)
    /\ Triggers(orders[id], feed.price)
    /\ StillPending(id)
    /\ LET o  == orders[id]
           at == FillPrice(o, feed.price)
       IN  txn' = [txn EXCEPT ![Tick] =
                Open("fill", id, FilledRow(o, at), Settlement(o, LockAmount(o, o.trigger), at))]
    /\ UNCHANGED vars

\* The next order of the tick: this one does not trigger, or has ended (ROLLBACK).
SkipOrder(id) ==
    /\ txn[Tick] = Nil
    /\ PassOver(id)
    /\ Triggers(orders[id], feed.price) => FillMayRead(id)
    /\ UNCHANGED txn

\* An UPDATE has its row's lock.  (Mutant: a balance that is read and written back
\* without one.)
MayUpdateUnlocked(p, w) == TRUE
MayUpdate(p, w)         == WalletIsFree(p, w)

\* The next UPDATE: it has the row's lock, and its WHERE clause holds of the row.
UpdateWallet(p) ==
    /\ txn[p] # Nil /\ txn[p].todo # <<>>
    /\ LET s   == Head(txn[p].todo)
           old == Sees(p, s.wallet)
           new == [free |-> StoredAmount(old.free + s.free), held |-> StoredAmount(old.held + s.held)]
       IN  /\ MayUpdate(p, s.wallet)
           /\ Passes(p, s)
           /\ txn' = [txn EXCEPT ![p].todo = Tail(@),
                                 ![p].rows = [w \in DOMAIN @ \cup {s.wallet} |->
                                                 IF w = s.wallet THEN new ELSE @[w]]]
    /\ UNCHANGED vars

\* What a rollback leaves.  (Mutant: the error goes past the ROLLBACK.)
AbandonedTx(p)  == txn
RolledBackTx(p) == [txn EXCEPT ![p] = Nil]

\* The catch of each of the three: ROLLBACK.  A request is refused, a tick goes on.
RollBack(p) ==
    /\ txn' = RolledBackTx(p)
    /\ CASE txn[p].kind = "place"  -> RejectOrder(p)
         [] txn[p].kind = "cancel" -> UNCHANGED vars
         [] txn[p].kind = "fill"   -> FillFails(txn[p].id)

\* No row for lockFunds' UPDATE: insufficient funds.
UpdatesNothing(p) ==
    /\ txn[p] # Nil /\ txn[p].todo # <<>>
    /\ LET s == Head(txn[p].todo) IN MayUpdate(p, s.wallet) /\ ~Passes(p, s)
    /\ RollBack(p)

\* Any statement may fail.
StatementFails(p) == txn[p] # Nil /\ RollBack(p)

Commit(p) ==
    /\ txn[p] # Nil /\ txn[p].todo = <<>>
    /\ LET t  == txn[p]
           id == IF t.id = Nil THEN NextId ELSE t.id
       IN  /\ balance' = SeenFree(p)
           /\ locked' = SeenHeld(p)
           /\ orders' = [orders EXCEPT ![id] = t.row]
           /\ trades' = IF t.row.status # "FILLED" THEN trades
                        ELSE [trades EXCEPT ![id] =
                          Append(@, [quantity |-> t.row.quantity, price |-> t.row.filled_price])]
           /\ request' = IF t.kind = "place" THEN [request EXCEPT ![p] = Nil] ELSE request
           /\ feed' = IF t.kind = "fill" THEN [feed EXCEPT !.rows = @ \ {id}] ELSE feed
    /\ txn' = [txn EXCEPT ![p] = Nil]
    /\ UNCHANGED price

-----------------------------------------------------------------------------
(* Deadlocks.                                                               *)

\* The next statement of p needs a row that q has.
WaitsFor(p, q) ==
    /\ p # q
    /\ txn[p] # Nil /\ txn[p].todo # <<>>
    /\ HasWallet(q, Head(txn[p].todo).wallet)

\* PostgreSQL ends one of two transactions that wait for each other with an error
\* (deadlock_timeout).  There are no wider circles: see DeadlocksAreOpposite.
DeadlockVictim(p) ==
    /\ \E q \in Procs : WaitsFor(p, q) /\ WaitsFor(q, p)
    /\ RollBack(p)

-----------------------------------------------------------------------------
\* The steps of OrderEngine that are no transaction of the three.
Others ==
    /\ \/ \E h \in Handlers : txn[h] = Nil /\ (ReadLatestPrice(h) \/ RejectOrder(h))
       \/ FetchQuotes \/ (\E s \in Symbols : CachePrice(s)) \/ SelectPending
       \/ (txn[Tick] = Nil /\ (EndTick \/ AbortTick)) \/ EndPoll
    /\ UNCHANGED txn

Crash == Restart /\ txn' = [p \in Procs |-> Nil]

\* What an open transaction does.
GoesOn(p) == UpdateWallet(p) \/ UpdatesNothing(p) \/ Commit(p) \/ DeadlockVictim(p)

TxNext ==
    \/ \E h \in Handlers :
          BeginPlace(h) \/ \E u \in Users, id \in OrderIds : BeginCancel(h, u, id)
    \/ \E id \in OrderIds : BeginFill(id) \/ SkipOrder(id)
    \/ \E p \in Procs : GoesOn(p) \/ StatementFails(p)
    \/ Others
    \/ Crash

TxSpec == TxInit /\ [][TxNext]_txVars

\* A row's lock goes to those who wait in their order, and PostgreSQL looks for
\* deadlocks: nobody's statement waits for ever.
FairTxSpec == TxSpec /\ \A p \in Procs : SF_txVars(GoesOn(p))

-----------------------------------------------------------------------------
(* Properties.                                                              *)

\* All that is traded is quoted in one asset, once each: the price feed's SYMBOLS.
OneQuote ==
    \A s \in Symbols, t \in Symbols : Quote[s] = Quote[t] /\ (Base[s] = Base[t] => s = t)

\* What the tables show is what OrderEngine allows, which has each transaction as
\* one step: no interleaving of statements loses an update, fills an order that is
\* being cancelled, or locks funds that another order is taking.
ImplementsEngine == Spec

\* Whenever transactions of the engine wait for one another, two of them settle a purchase and a
\* sale of the same symbol for the same user: settleFill takes his two wallets in
\* opposite orders.  A cancel, or an order that is left PENDING, never causes it, nor
\* do orders of one side, nor is there a wider circle without such a pair.
DeadlocksAreOpposite ==
    \A ps \in (SUBSET Procs) \ {{}} :
        (\A p \in ps : \E q \in ps : WaitsFor(p, q)) =>
            \E p, q \in ps :
                /\ WaitsFor(p, q) /\ WaitsFor(q, p)
                /\ txn[p].row.side = "BUY" /\ txn[q].row.side = "SELL"
                /\ \A r \in {p, q} :
                      /\ txn[r].row.status = "FILLED"
                      /\ txn[r].row.user = txn[p].row.user
                      /\ txn[r].row.symbol = txn[p].row.symbol

\* Every transaction ends, whatever the others do: no request hangs on a lock, and
\* no lock is left behind.
TransactionsEnd == \A p \in Procs : txn[p] # Nil ~> txn[p] = Nil
=============================================================================
