------------------------------ MODULE MCHistory ------------------------------
(***************************************************************************)
(* A small history for TLC: days of two minutes, pages of one or two candles.      *)
(***************************************************************************)
EXTENDS History

CONSTANTS process, task

Crypto    == [s \in {"btc"} |-> "binance"]
Both      == [s \in {"btc", "spy"} |-> IF s = "spy" THEN "yahoo" ELSE "binance"]
SetupOne  == [s \in {"btc"} |-> task]
SetupBoth == [s \in {"btc", "spy"} |-> task]
=============================================================================
