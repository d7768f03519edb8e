------------------------------ MODULE Deposits ------------------------------
(***************************************************************************)
(* Crediting on-chain deposits: creditDeposit, which the BTC, ETH and TRON  *)
(* pollers each have a copy of, and the table it keeps.  One chain, and the *)
(* one asset that chain pays in.                                            *)
(***************************************************************************)
EXTENDS Integers, FiniteSetsExt

CONSTANTS
    Users,
    Txs       \* transactions of the chain

ASSUME DepositsAssumption == IsFiniteSet(Txs)

VARIABLES
    balance,  \* wallets.balance in the chain's asset, as far as deposits go
    credits,  \* onchain_deposits: rows [tx, user, amount]
    addresses \* deposit_addresses: the users who have an address on this chain

depositVars == <<balance, credits, addresses>>

DepositsTypeOK ==
    /\ balance \in [Users -> Nat]
    /\ credits \in SUBSET [tx : Txs, user : Users, amount : Nat]
    /\ addresses \in SUBSET Users

DepositsInit ==
    /\ balance = [u \in Users |-> 0]
    /\ credits = {}
    /\ addresses = {}

\* getOrCreateDepositAddress, for a user who has none.
CreateAddress(u) ==
    /\ u \notin addresses
    /\ addresses' = addresses \cup {u}
    /\ UNCHANGED <<balance, credits>>

\* UNIQUE (chain, tx_hash, asset): the insert is a no-op.  (Mutants: without it;
\* with the transaction's hash left out of it.)
NeverSeen(tx) == FALSE
AnySeen(tx)   == credits # {}
Seen(tx)      == \E r \in credits : r.tx = tx

\* The row and the wallet, in one transaction.
CreditDeposit(u, tx, amount) ==
    /\ IF Seen(tx)
       THEN UNCHANGED <<balance, credits>>
       ELSE /\ credits' = credits \cup {[tx |-> tx, user |-> u, amount |-> amount]}
            /\ balance' = [balance EXCEPT ![u] = @ + amount]
    /\ UNCHANGED addresses

Credited(u, tx) == \E r \in credits : r.tx = tx /\ r.user = u
=============================================================================
