---------------------------- MODULE WalletRoutes ----------------------------
(***************************************************************************)
(* Virtual deposits and withdrawals, simulated sends and what an admin does *)
(* to them (src/routes/wallet.js, src/routes/admin.js).                     *)
(*                                                                          *)
(* Every handler is one database transaction, decided by the guarded UPDATE *)
(* or the row lock it starts with, so every handler is one step.  A send    *)
(* lives across two of them: the user's, which moves the amount into        *)
(* locked_balance, and the admin's, which settles it.                       *)
(***************************************************************************)
EXTENDS Ledger, Sequences

CONSTANTS
    Users, Assets,
    MovedAmounts,     \* amounts a request may name
    MaxDeposit,       \* MAX_DEPOSIT_AMOUNT
    SendIds,          \* ids simulated_transactions may hand out (bounds the runs)
    MaxHistory,       \* rows of wallet_transactions per user (bounds the runs)
    MaxAdjustments,   \* corrections by admins (bounds the runs)
    Nil               \* no send

\* What the constants must be.
WalletConstants ==
    /\ MovedAmounts \subseteq Nat \ {0}
    /\ MaxDeposit \in Nat /\ MaxHistory \in Nat /\ MaxAdjustments \in Nat
    /\ Nil \notin [user : Users, asset : Assets, amount : Nat, status : {"PENDING", "SENT", "FAILED"}]

VARIABLES
    balance,   \* wallets.balance
    locked,    \* wallets.locked_balance
    history,   \* wallet_transactions: the rows of each user, oldest first
    sends,     \* simulated_transactions, Nil for an id not yet given out
    adjusted   \* what admins added to each balance; no table keeps it

walletVars == <<history, sends, adjusted>>

HistoryRows ==
    [asset : Assets, type : {"DEPOSIT", "WITHDRAWAL"}, amount : Nat, balance_after : Int]
SendRows == [user : Users, asset : Assets, amount : Nat, status : {"PENDING", "SENT", "FAILED"}]

WalletTypeOK ==
    /\ history \in [Users -> Seq(HistoryRows)]
    /\ sends \in [SendIds -> SendRows \cup {Nil}]
    /\ adjusted \in [Users -> [Assets -> Seq(Int)]]

WalletInit ==
    /\ history = [u \in Users |-> <<>>]
    /\ sends = [id \in SendIds |-> Nil]
    /\ adjusted = [u \in Users |-> [a \in Assets |-> <<>>]]

-----------------------------------------------------------------------------
(* The user's handlers.                                                     *)

\* WHERE balance >= $3.
HasFree(u, a, amount) == balance[u][a] >= amount

\* INSERT INTO wallet_transactions, with the balance the UPDATE returned.
Record(u, a, type, amount) ==
    /\ Len(history[u]) < MaxHistory
    /\ history' = [history EXCEPT ![u] =
                     Append(@, [asset |-> a, type |-> type, amount |-> StoredAmount(amount),
                                balance_after |-> balance'[u][a]])]

Deposit(u, a, amount) ==
    /\ amount <= MaxDeposit
    /\ balance' = Add(balance, u, a, amount)
    /\ Record(u, a, "DEPOSIT", amount)
    /\ UNCHANGED <<locked, sends, adjusted>>

Withdraw(u, a, amount) ==
    /\ HasFree(u, a, amount)
    /\ balance' = Add(balance, u, a, -amount)
    /\ Record(u, a, "WITHDRAWAL", amount)
    /\ UNCHANGED <<locked, sends, adjusted>>

FreshSends == {id \in SendIds : sends[id] = Nil}
NextSend   == CHOOSE id \in FreshSends : TRUE

SimulatedSend(u, a, amount) ==
    /\ FreshSends # {}
    /\ HasFree(u, a, amount)
    /\ balance' = Add(balance, u, a, -amount)
    /\ locked' = Add(locked, u, a, amount)
    /\ sends' = [sends EXCEPT ![NextSend] =
                   [user |-> u, asset |-> a, amount |-> StoredAmount(amount), status |-> "PENDING"]]
    /\ UNCHANGED <<history, adjusted>>

-----------------------------------------------------------------------------
(* The admin's handlers.                                                    *)

\* The send is PENDING under its row lock.  (Mutant: any send can be resolved.)
ResolvableAgain(id) == sends[id] # Nil
Resolvable(id)      == sends[id] # Nil /\ sends[id].status = "PENDING"

\* status SENT: the held amount leaves for good.
MarkSent(id) ==
    /\ Resolvable(id)
    /\ locked' = Add(locked, sends[id].user, sends[id].asset, -sends[id].amount)
    /\ sends' = [sends EXCEPT ![id].status = "SENT"]
    /\ UNCHANGED <<balance, history, adjusted>>

\* status FAILED: the held amount goes back.
MarkFailed(id) ==
    /\ Resolvable(id)
    /\ locked' = Add(locked, sends[id].user, sends[id].asset, -sends[id].amount)
    /\ balance' = Add(balance, sends[id].user, sends[id].asset, sends[id].amount)
    /\ sends' = [sends EXCEPT ![id].status = "FAILED"]
    /\ UNCHANGED <<history, adjusted>>

\* POST /admin/users/:id/balance: no guard, and no row of the history.
AdjustBalance(u, a, delta) ==
    /\ Len(adjusted[u][a]) < MaxAdjustments
    /\ balance' = Add(balance, u, a, delta)
    /\ adjusted' = [adjusted EXCEPT ![u][a] = Append(@, delta)]
    /\ UNCHANGED <<locked, history, sends>>

WalletNext ==
    \/ \E u \in Users, a \in Assets, amount \in MovedAmounts :
          \/ Deposit(u, a, amount)
          \/ Withdraw(u, a, amount)
          \/ SimulatedSend(u, a, amount)
          \/ AdjustBalance(u, a, amount) \/ AdjustBalance(u, a, -amount)
    \/ \E id \in SendIds : MarkSent(id) \/ MarkFailed(id)
=============================================================================
