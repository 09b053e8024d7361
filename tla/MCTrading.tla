------------------------------ MODULE MCTrading ------------------------------
(***************************************************************************)
(* Small instances of live trading for TLC: one loop with a strategy, and  *)
(* a caller that passes a batch with every kind of action.                 *)
(***************************************************************************)
EXTENDS SignalLoop

CONSTANTS loop, caller

Act(kind, contract, qty) == [kind |-> kind, contract |-> contract, qty |-> qty]

MCCommits == {
  [strategy |-> "manual", actions |-> <<Act("place", "btc", 1), Act("close", "btc", 2)>>],
  [strategy |-> "manual", actions |-> <<Act("close", "btc", 2), Act("cancel", "btc", 1)>>]}

MCPipeline == <<"whitelist", "size", "drawdown">>
MCEquities == {10, 100}
MCTraded   == [t \in {loop} |-> <<"btc">>]
MCStored   == <<"momentum">>
MCFetched  == <<>>
=============================================================================
