----------------------------- MODULE MCExchange -----------------------------
(***************************************************************************)
(* Instances of the composed services for TLC.                              *)
(***************************************************************************)
EXTENDS Exchange

\* splitSymbol on the one symbol of the instances (src/services/symbols.js).
MCBase  == [s \in Symbols |-> "BTC"]
MCQuote == [s \in Symbols |-> "USDT"]
=============================================================================
