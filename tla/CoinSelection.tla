--------------------------- MODULE CoinSelection ---------------------------
(***************************************************************************)
(* How a BTC withdrawal chooses its inputs and its change                   *)
(* (withdrawBtc in src/services/btcWithdrawalService.js): the longest       *)
(* prefix of the listed outputs that is still short of the amount and fee,  *)
(* and one more.  Values are in satoshi.                                    *)
(***************************************************************************)
EXTENDS Integers, Sequences, Functions, FiniteSetsExt

\* Size of a transaction with n inputs, a destination and a change output.
VBytes(n)       == n * 68 + 2 * 31 + 11
Fee(n, feeRate) == VBytes(n) * feeRate

SumTo(utxos, n) == SumFunctionOnSet(utxos, 1..n)

\* The first n listed outputs pay for the amount and their own fee.  (Mutant:
\* the fee is estimated for one input.)
CoversFlatFee(utxos, n, amount, feeRate) == SumTo(utxos, n) >= amount + Fee(1, feeRate)
Covers(utxos, n, amount, feeRate)        == SumTo(utxos, n) >= amount + Fee(n, feeRate)

\* How many outputs the loop takes: until they cover, or all of them.  (Mutant:
\* the loop looks at the outputs before it adds the next one.)
SelectedOneLate(utxos, amount, feeRate) ==
    LET enough == {n \in 1..Len(utxos) : Covers(utxos, n, amount, feeRate)}
    IN  IF enough = {} \/ Min(enough) = Len(utxos) THEN Len(utxos) ELSE Min(enough) + 1
Selected(utxos, amount, feeRate) ==
    LET enough == {n \in 1..Len(utxos) : Covers(utxos, n, amount, feeRate)}
    IN  IF enough = {} THEN Len(utxos) ELSE Min(enough)

Dust == 546

\* What is sent where; the transaction is refused when the selection falls short.
\* (Mutant: the change forgets the fee.)
ChangeWithoutFee(selected, amount, fee) ==
    IF selected - amount > Dust THEN selected - amount ELSE 0
Change(selected, amount, fee) ==
    IF selected - amount - fee > Dust THEN selected - amount - fee ELSE 0

Withdrawal(utxos, amount, feeRate) ==
    LET n        == Selected(utxos, amount, feeRate)
        selected == SumTo(utxos, n)
        fee      == Fee(n, feeRate)
    IN  [ok     |-> selected >= amount + fee,
         inputs |-> n,
         paid   |-> selected - amount - Change(selected, amount, fee),  \* goes to the miner
         change |-> Change(selected, amount, fee)]
=============================================================================
