-------------------------- MODULE MCTradingAccount --------------------------
(***************************************************************************)
(* Small instances of the trading account for TLC.  The tasks are          *)
(* interchangeable.                                                        *)
(***************************************************************************)
EXTENDS TradingAccount

Symmetry == Permutations(Callers)
=============================================================================
