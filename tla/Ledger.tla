------------------------------- MODULE Ledger -------------------------------
(***************************************************************************)
(* The arithmetic of the `wallets` table.                                   *)
(*                                                                          *)
(* The services compute with decimal.js, which is exact for the values they *)
(* handle, and store every result in a NUMERIC(30,10) column, which rounds. *)
(* A quantity or a price n stands for n/Scale; an amount of money n stands  *)
(* for n/Scale^2, so that quantity times price is an amount.  The columns   *)
(* keep multiples of Grid/Scale.  Scale = Grid = 1 makes every value        *)
(* representable; Scale > Grid gives products a column cannot hold; Grid >  *)
(* 1 also gives inputs a column cannot hold.                                *)
(***************************************************************************)
EXTENDS Integers

CONSTANTS Scale,  \* how finely quantities and prices are written
          Grid    \* a column keeps multiples of Grid / Scale

ASSUME ScaleAssumption == Scale \in Nat \ {0} /\ Grid \in Nat \ {0}

\* Every value the program meets fits its column: nothing is ever rounded.
ExactColumns == Scale = 1 /\ Grid = 1

\* PostgreSQL's rounding of a NUMERIC to a column: half away from zero.
RoundTo(x, grid) ==
    LET Nearest(y) == grid * ((2 * y + grid) \div (2 * grid))
    IN  IF x >= 0 THEN Nearest(x) ELSE -Nearest(-x)

\* What a quantity or price column keeps of n, and a wallet column of x.
StoredInput(n)  == RoundTo(n, Grid)
StoredAmount(x) == RoundTo(x, Scale * Grid)

\* A quantity of the base asset as an amount, and its worth at a price.
BaseAmount(quantity)         == quantity * Scale
QuoteAmount(quantity, price) == quantity * price

\* UPDATE wallets SET column = column + x WHERE user_id = u AND asset = a.
Add(column, u, a, x) == [column EXCEPT ![u][a] = StoredAmount(@ + x)]
=============================================================================
