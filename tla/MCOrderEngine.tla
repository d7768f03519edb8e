--------------------------- MODULE MCOrderEngine ---------------------------
(***************************************************************************)
(* Instances of the order engine for TLC.  Every configuration bounds the   *)
(* orders ever placed by OrderIds; nothing else is cut.  Ids are numbers    *)
(* because NextId chooses among them.                                       *)
(***************************************************************************)
EXTENDS OrderAudit

\* splitSymbol on the symbols of the instances (src/services/symbols.js).
MCBase  == [s \in Symbols |-> IF s = "BTCUSDT" THEN "BTC" ELSE "ETH"]
MCQuote == [s \in Symbols |-> "USDT"]
=============================================================================
