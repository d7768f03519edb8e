----------------------------- MODULE MCOrderTx -----------------------------
(***************************************************************************)
(* Instances of the order engine's transactions for TLC.                    *)
(***************************************************************************)
EXTENDS OrderTx, OrderAudit, TLC

\* splitSymbol on the symbols of the instances (src/services/symbols.js).
MCBase  == [s \in Symbols |-> IF s = "BTCUSDT" THEN "BTC" ELSE "ETH"]
MCQuote == [s \in Symbols |-> "USDT"]

Perms == Permutations(Handlers)
=============================================================================
