----------------------------- MODULE MCCustody -----------------------------
(***************************************************************************)
(* Instances of the BTC wallet and its coins for TLC.                       *)
(***************************************************************************)
EXTENDS Custody, TLC

MCTxs == 1..MaxChain

\* Every output there can be, oldest first.
InOrder == [k \in 1..(2 * MaxChain) |-> <<(k + 1) \div 2, (k + 1) % 2>>]

\* Oldest first, or newest first.
BothWays(outputs) ==
    {SelectSeq(order, LAMBDA o : o \in outputs) : order \in {InOrder, Reverse(InOrder)}}

Perms == Permutations(Withdrawals) \cup Permutations(Users)
=============================================================================
