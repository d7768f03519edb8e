------------------------------ MODULE Exchange ------------------------------
(***************************************************************************)
(* Services that share the `wallets` table, together: the order engine, the *)
(* wallet and admin routes, and staking.  None of them knows the others;    *)
(* each moves the two columns of a wallet by amounts of its own.            *)
(*                                                                          *)
(* Three more write the table and are not composed here: the on-chain       *)
(* withdrawals, which keep no table of what they take (OnchainWithdrawal);  *)
(* the pollers, which add what onchain_deposits says (Deposits); and the    *)
(* deletion of an account, which takes all the rows of its user.            *)
(***************************************************************************)
EXTENDS OrderAudit

CONSTANTS
    MovedAmounts, MaxDeposit, SendIds, MaxHistory, MaxAdjustments,
    Tiers, StakeAmounts, StakeTerms, StakeIds, StakeHandlers, Day, ClockSteps, MaxWait, MaxTime

VARIABLES history, sends, adjusted, tier, stakes, payouts, staking, clock

Wallet == INSTANCE WalletRoutes
Stake  == INSTANCE Staking

ASSUME WalletAssumption == Wallet!WalletConstants
ASSUME StakeAssumption ==
    /\ "USDT" \in Assets /\ 1 \in Tiers
    /\ StakeAmounts \subseteq Nat /\ StakeTerms \subseteq Nat
    /\ Day \in Nat \ {0} /\ ClockSteps \subseteq Nat /\ MaxTime \in Nat
    /\ Nil \notin Stake!StakeRows
ASSUME TablesFinite == IsFiniteSet(SendIds) /\ IsFiniteSet(StakeIds)

walletVars   == <<history, sends, adjusted>>
stakingVars  == <<tier, stakes, payouts, staking, clock>>
exchangeVars == <<vars, walletVars, stakingVars>>

ExchangeInit == Init /\ Wallet!WalletInit /\ Stake!StakingInit

\* The process dies: what requests carry in memory is lost, in every service.
Crash ==
    /\ Restart
    /\ staking' = [h \in StakeHandlers |-> Nil]
    /\ UNCHANGED <<walletVars, tier, stakes, payouts, clock>>

\* One step of one of these services; on-chain withdrawals, pollers and the deletion
\* of an account are left out.
ExchangeNext ==
    \/ (Requests \/ FeedProgress \/ FeedFailure)
         /\ UNCHANGED <<walletVars, stakingVars>>
    \/ Wallet!WalletNext /\ UNCHANGED <<orders, trades, price, request, feed, stakingVars>>
    \/ Stake!StakingNext
         /\ UNCHANGED <<locked, orders, trades, price, request, feed, walletVars>>
    \/ Crash

ExchangeSpec == ExchangeInit /\ [][ExchangeNext]_exchangeVars

-----------------------------------------------------------------------------
(* Properties.                                                              *)

ExchangeTypeOK ==
    /\ balance \in [Users -> [Assets -> Int]]
    /\ locked \in [Users -> [Assets -> Nat]]
    /\ Wallet!WalletTypeOK /\ Stake!StakingTypeOK

\* What the sends of a status took of u's asset a.
SentBy(id, u, a, status) ==
    IF /\ sends[id] # Nil
       /\ sends[id].user = u /\ sends[id].asset = a /\ sends[id].status = status
    THEN sends[id].amount ELSE 0
SentAmount(u, a, status) == SumFunction([id \in SendIds |-> SentBy(id, u, a, status)])

\* locked_balance is shared by the order engine and the simulated sends: it is
\* always what the PENDING orders and the PENDING sends hold together, so neither
\* can release or spend what the other has put there.
LockedMatchesHolds ==
    \A u \in Users, a \in Assets :
        locked[u][a] = HeldByOrders(u, a) + SentAmount(u, a, "PENDING")

\* What the history table says went in and out.
Signed(r, a) ==
    IF r.asset # a THEN 0 ELSE IF r.type = "DEPOSIT" THEN r.amount ELSE -r.amount
Recorded(u, a) == SumFunction([i \in DOMAIN history[u] |-> Signed(history[u][i], a)])

\* What admins added, and what of it they took back.
AdjustedBy(u, a) == SumFunction(adjusted[u][a])
TakenBack(u, a) ==
    SumFunction([i \in DOMAIN adjusted[u][a] |->
                    IF adjusted[u][a][i] < 0 THEN adjusted[u][a][i] ELSE 0])

\* What stakes brought so far: their interest, less the principal they have.
InStakes(u, a) ==
    IF a # "USDT" THEN 0 ELSE SumFunction([id \in StakeIds |-> Stake!Yield(id, u)])

\* What the services composed here do to a wallet is accounted for, to the unit, by
\* their tables: trades, virtual deposits and withdrawals, sends that left, stakes and
\* their interest, and the admins' corrections in the log.  (STOP_LOSS BUYs apart: see
\* WalletsMatchAllTrades.  A wallet that on-chain withdrawals or credits of the pollers
\* have changed as well differs by those: see WalletsMatchWithdrawals, BooksMatchChain.)
BooksBalance ==
    \A u \in Users, a \in Assets :
        (\A id \in OrderIds : IsStopBuy(id) => orders[id].user # u)
            => balance[u][a] + locked[u][a]
                 = InitialBalance + TradedBy(u, a) + Recorded(u, a) + InStakes(u, a)
                     - SentAmount(u, a, "SENT") + AdjustedBy(u, a)

\* However requests of these services race for one balance, they never spend more
\* than it holds: it is overdrawn by what admins took back at most.
OverdrawnByAdminsOnly ==
    \A u \in Users, a \in Assets : balance[u][a] >= TakenBack(u, a)

\* A send is settled once, and a settled send never changes again.
SettledSendsStay ==
    [][\A id \in SendIds : sends[id] # Nil =>
          \/ sends'[id] = sends[id]
          \/ sends[id].status = "PENDING" /\ sends'[id] = [sends[id] EXCEPT !.status = sends'[id].status]
      ]_sends
=============================================================================
