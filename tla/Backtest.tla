------------------------------ MODULE Backtest ------------------------------
(***************************************************************************)
(* A backtest of one strategy: the stored minutes of barter_backtester.rs  *)
(* go through the instrument data (candle_instrument_data.rs) into the     *)
(* strategy adapter (barter_strategy.rs), which builds bars of the target  *)
(* timeframe and asks the strategy for a score at each.                    *)
(*                                                                         *)
(* The engine of barter is external: it hands one market event to the      *)
(* instrument data and then asks the adapter for orders, event by event.   *)
(* A minute is a number, a bar the sequence of minutes it was built from;  *)
(* the score of the strategy, and the fuel that it burns, are external too.*)
(***************************************************************************)
EXTENDS Integers, Sequences, SequencesExt

CONSTANTS
  LastMinute,        \* the end of the backtest window
  Timeframe,         \* minutes in a bar
  MaxCandleHistory,  \* MAX_CANDLE_HISTORY
  MaxAggregated,     \* MAX_AGGREGATED_HISTORY
  FuelLimit,         \* fuel_limit of the executor
  NoScore            \* no output of the strategy yet

VARIABLES
  candles,    \* the minutes that the instrument data keeps, oldest first
  processed,  \* processed_count: how many of them the adapter has consumed
  buffer,     \* the minutes of the bar under construction
  history,    \* the bars that the strategy is given, oldest first
  score,      \* the last output of the strategy, or NoScore
  fuel,       \* what the store of the module has left
  price,      \* whether the instrument data knows a price
  asked,      \* the orders that the last event made the adapter ask for
  fed         \* history: the minutes that the engine has handed over

inner        == <<processed, buffer, history, score, fuel>>
backtestVars == <<candles, inner, price, asked, fed>>

BacktestInit ==
  /\ candles = <<>> /\ processed = 0
  /\ buffer = <<>> /\ history = <<>> /\ score = NoScore
  /\ fuel = FuelLimit /\ price = FALSE /\ asked = {}
  /\ fed = <<>>

LastOf(q, n) == SubSeq(q, IF Len(q) > n THEN Len(q) - n + 1 ELSE 1, Len(q))

\* The table has gaps, and its rows come in their order.
NextMinutes == (IF fed = <<>> THEN 0 ELSE Last(fed) + 1) .. LastMinute

\* CandleInstrumentData::process: the oldest candles go once the cap is exceeded.
Keep(minute) == LastOf(Append(candles, minute), MaxCandleHistory)

\* should_aggregate: the next minute starts a bar.
ShouldAggregate(minutes) ==
  \/ Timeframe = 1
  \/ minutes # <<>> /\ (Last(minutes) + 1) % Timeframe = 0

\* on_candles gives a new score or fails and leaves the old one: the fuel is for all
\* the calls of a handle together.
OnCandles ==
  \/ fuel > 0 /\ score' \in {-1, 0, 1} /\ fuel' \in 0 .. fuel - 1
  \/ score' = score /\ fuel' \in 0 .. fuel

\* One minute more in the buffer: when a bar is due, the cap applies to the bars.
Consume(minute) ==
  LET filled == Append(buffer, minute)
  IN IF ShouldAggregate(filled)
     THEN /\ buffer' = <<>>
          /\ history' = LastOf(Append(history, filled), MaxAggregated)
          /\ OnCandles
     ELSE buffer' = filled /\ UNCHANGED <<history, score, fuel>>

\* A score beyond the threshold asks for an order at the price of the instrument.
OrdersFor(value, priced) ==
  CASE value = 1 /\ priced  -> {"buy"}
    [] value = -1 /\ priced -> {"sell"}
    [] OTHER                -> {}

\* generate_algo_orders compares the length of a list that is capped with a count
\* of what it has consumed.
GenerateOrders(kept) ==
  IF Len(kept) <= processed
  THEN asked' = {} /\ UNCHANGED inner
  ELSE /\ processed' = Len(kept)
       /\ Consume(Last(kept))
       /\ asked' = OrdersFor(score', price)

\* The events of a backtest are candles; a price comes with trades and books only.
MarketEvent ==
  \E minute \in NextMinutes :
    /\ candles' = Keep(minute)
    /\ GenerateOrders(Keep(minute))
    /\ fed' = Append(fed, minute)
    /\ price' = price

BacktestNext == MarketEvent

BacktestSpec == BacktestInit /\ [][BacktestNext]_backtestVars

-----------------------------------------------------------------------------
(***************************************************************************)
(* What the comments promise and the code does not do.                     *)
(***************************************************************************)
\* barter_strategy.rs:199-202: a score above the threshold is a buy order, one below
\* it a sell order.
SignalsTrade ==
  /\ score = 1 => asked = {"buy"}
  /\ score = -1 => asked = {"sell"}
=============================================================================
