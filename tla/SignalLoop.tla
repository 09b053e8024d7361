----------------------------- MODULE SignalLoop -----------------------------
(***************************************************************************)
(* Live trading: the signal loops (signal_loop.rs) that feed candles to    *)
(* strategies and hand their commits to the engine, as run_live_trading    *)
(* (src/daemon.rs) and `trade start` (src/main.rs) start them, with the    *)
(* candle channel in front and the shutdown that drops a loop where it     *)
(* waits.                                                                  *)
(***************************************************************************)
EXTENDS TradingEngine, SequencesExt

CONSTANTS
  Loops,        \* the tasks that run a signal loop; the others call the engine
  Traded,       \* Traded[t]: the contracts of loop t, in order
  Stored,       \* names of the promoted strategies, in the order listed
  Fetched,      \* names of the .wasm files in the promoted directory
  Quantity,     \* position_size
  Capacity,     \* of the candle channel (256)
  MaxCandles,   \* bound: candles ever sent
  MaxCommits    \* bound: commits of the other callers

ASSUME LoopAssumption ==
  /\ Loops \subseteq Tasks /\ Traded \in [Loops -> Seq(Contracts)]
  /\ Quantity \in Nat \ {0} /\ Capacity \in Nat \ {0}
  /\ MaxCandles \in Nat /\ MaxCommits \in Nat

VARIABLES
  candles,  \* candles[t]: unread candles, whether some were dropped, whether closed
  trader,   \* trader[t]: where loop t stands, its strategies, the candle in hand
  sent,     \* candles sent
  called    \* commits of the other callers

loopVars == <<candles, trader, sent, called>>
allVars  == <<engineVars, loopVars>>

NewChannel == [queue |-> <<>>, lagged |-> FALSE, closed |-> FALSE]
Unloaded   == [at |-> "loading", strategies |-> <<>>, symbol |-> "", next |-> 0]

LoopInit ==
  /\ EngineInit
  /\ candles = [t \in Loops |-> NewChannel]
  /\ trader = [t \in Loops |-> Unloaded]
  /\ sent = 0 /\ called = 0

-----------------------------------------------------------------------------
(***************************************************************************)
(* The candle channel, a broadcast channel with one receiver.              *)
(***************************************************************************)
Send(t, symbol) ==
  /\ trader[t].at \in {"recv", "candle"} /\ ~candles[t].closed
  /\ sent < MaxCandles
  /\ sent' = sent + 1
  /\ LET q == Append(candles[t].queue, symbol)
     IN  candles' = [candles EXCEPT
           ![t].queue = IF Len(q) > Capacity THEN Tail(q) ELSE q,
           ![t].lagged = @ \/ Len(q) > Capacity]
  /\ UNCHANGED <<engineVars, trader, called>>

\* The stream ended or failed: the aggregator is dropped, and the sender with it.
StreamEnds(t) ==
  /\ trader[t].at \in {"recv", "candle"} /\ ~candles[t].closed
  /\ candles' = [candles EXCEPT ![t].closed = TRUE]
  /\ UNCHANGED <<engineVars, trader, sent, called>>

-----------------------------------------------------------------------------
(***************************************************************************)
(* Loading: each promoted strategy for each contract; what does not load   *)
(* is skipped.  With nothing left the promoted directory stands in, and    *)
(* with nothing there the task sleeps and loads again.                     *)
(***************************************************************************)
Instances(names, t) ==
  FlattenSeq([i \in DOMAIN names |->
    [j \in DOMAIN Traded[t] |-> [name |-> names[i], contract |-> Traded[t][j]]]])

Usable(names, t) ==
  LET all == Instances(names, t)
  IN  {SelectSeq(all, LAMBDA s : s \in kept) : kept \in SUBSET ToSet(all)}

LoadStrategies(t) ==
  /\ trader[t].at = "loading"
  /\ \E s \in Usable(Stored, t) :
       \E loaded \in IF s # <<>> THEN {s} ELSE Usable(Fetched, t) :
         /\ loaded # <<>>
         /\ trader' = [trader EXCEPT ![t].at = "recv", ![t].strategies = loaded]
  /\ UNCHANGED <<engineVars, candles, sent, called>>

-----------------------------------------------------------------------------
(***************************************************************************)
(* run_signal_loop and process_candle.                                     *)
(***************************************************************************)
Recv(t) ==
  /\ trader[t].at = "recv"
  /\ ~candles[t].lagged /\ candles[t].queue # <<>>
  /\ trader' = [trader EXCEPT ![t].at = "candle", ![t].next = 1,
                              ![t].symbol = Head(candles[t].queue)]
  /\ candles' = [candles EXCEPT ![t].queue = Tail(@)]
  /\ UNCHANGED <<engineVars, sent, called>>

RecvLagged(t) ==
  /\ trader[t].at = "recv"
  /\ candles[t].lagged
  /\ candles' = [candles EXCEPT ![t].lagged = FALSE]
  /\ UNCHANGED <<engineVars, trader, sent, called>>

RecvClosed(t) ==
  /\ trader[t].at = "recv"
  /\ candles[t].closed /\ candles[t].queue = <<>> /\ ~candles[t].lagged
  /\ trader' = [trader EXCEPT ![t].at = "ended"]
  /\ UNCHANGED <<engineVars, candles, sent, called>>

Turn(t) ==
  /\ trader[t].at = "candle" /\ call[t].at = "idle"
  /\ trader[t].next <= Len(trader[t].strategies)

Advance(t) == trader' = [trader EXCEPT ![t].next = @ + 1]

\* Another contract, an error of the strategy, or a score within the threshold.
Hold(t) ==
  /\ Turn(t)
  /\ Advance(t)
  /\ UNCHANGED <<engineVars, candles, sent, called>>

\* output_to_actions: one market order, to buy or to sell.
OutputToActions(s) == <<[kind |-> "place", contract |-> s.contract, qty |-> Quantity]>>

Signal(t) ==
  /\ Turn(t)
  /\ LET s == trader[t].strategies[trader[t].next]
     IN  /\ s.contract = trader[t].symbol
         /\ ExecuteCommit(t, [strategy |-> s.name, actions |-> OutputToActions(s)])
  /\ Advance(t)
  /\ UNCHANGED <<orders, topic, orphans, candles, sent, called>>

CandleDone(t) ==
  /\ trader[t].at = "candle" /\ call[t].at = "idle"
  /\ trader[t].next > Len(trader[t].strategies)
  /\ trader' = [trader EXCEPT ![t].at = "recv", ![t].next = 0, ![t].symbol = ""]
  /\ UNCHANGED <<engineVars, candles, sent, called>>

-----------------------------------------------------------------------------
(***************************************************************************)
(* Shutdown: `select! biased` and abort_all drop the loop where it waits.  *)
(***************************************************************************)
Shutdown(t) ==
  /\ trader[t].at \in {"recv", "candle"}
  /\ IF trader[t].at = "recv"
     THEN UNCHANGED engineVars
     ELSE Interrupted(t)
  /\ trader' = [trader EXCEPT ![t] = [Unloaded EXCEPT !.at = "ended"]]
  /\ candles' = [candles EXCEPT ![t] = NewChannel]
  /\ UNCHANGED <<sent, called>>

\* The next session; the topic and the exchange are as the last one left them.
Start(t) ==
  /\ trader[t].at = "ended"
  /\ trader' = [trader EXCEPT ![t] = Unloaded]
  /\ candles' = [candles EXCEPT ![t] = NewChannel]
  /\ UNCHANGED <<engineVars, sent, called>>

\* execute_commit is public: callers other than the loops pass any commit.
Execute(t, c) ==
  /\ called < MaxCommits
  /\ called' = called + 1
  /\ ExecuteCommit(t, c)
  /\ UNCHANGED <<orders, topic, orphans, candles, trader, sent>>

-----------------------------------------------------------------------------
LoopStep(t) ==
  \/ LoadStrategies(t) \/ Recv(t) \/ RecvLagged(t) \/ RecvClosed(t)
  \/ Hold(t) \/ Signal(t) \/ CandleDone(t)

Broker(t) == (EngineStep(t) \/ EngineFails(t)) /\ UNCHANGED loopVars

World ==
  \/ Exchange /\ UNCHANGED loopVars
  \/ \E t \in Loops : \/ StreamEnds(t) \/ Shutdown(t) \/ Start(t)
                      \/ \E symbol \in ToSet(Traded[t]) : Send(t, symbol)
  \/ \E t \in Tasks \ Loops, c \in Commits : Execute(t, c)

TradingNext == (\E t \in Loops : LoopStep(t)) \/ (\E t \in Tasks : Broker(t)) \/ World

TradingSpec == LoopInit /\ [][TradingNext]_allVars

\* The runtime keeps polling a task that can go on.
FairTradingSpec ==
  TradingSpec /\ \A t \in Loops : WF_allVars(LoopStep(t) \/ Broker(t))

-----------------------------------------------------------------------------
(***************************************************************************)
(* Properties.                                                             *)
(***************************************************************************)
\* Types: a call holds orders of the exchange, a loop with a call has a candle.
TradingTypeOK ==
  /\ orphans \subseteq DOMAIN orders
  /\ \A t \in Tasks : /\ call[t].at \in {"idle", "account", "submit", "push", "outcome"}
                      /\ Held(t) \subseteq DOMAIN orders
                      /\ call[t].polls \in 0 .. MaxRetries
  /\ \A t \in Loops : /\ trader[t].at \in {"loading", "recv", "candle", "ended"}
                      /\ call[t].at # "idle" => trader[t].at = "candle"
                      /\ Len(candles[t].queue) <= Capacity

Outcomes(id) == {i \in DOMAIN topic : topic[i].order = id}

\* What the topic calls filled or rejected is final at the exchange, and a fill
\* is one of the whole amount, although the status was read once and the order
\* lives on.
OutcomesAreFinal ==
  \A i \in DOMAIN topic :
    /\ topic[i].type = "Filled" => /\ orders[topic[i].order].status = "Closed"
                                   /\ topic[i].qty = orders[topic[i].order].qty
    /\ topic[i].type = "Rejected" => orders[topic[i].order].status \in {"Expired", "Rejected"}

\* Every order the exchange took has one outcome event once its call is over,
\* unless that call failed or was dropped while it held the order.
EveryOrderTold ==
  \A id \in DOMAIN orders :
    Cardinality(Outcomes(id)) =
      IF id \in orphans \/ \E t \in Tasks : id \in Held(t) THEN 0 ELSE 1

\* run_trade_status: what the table shows for a strategy.
TradeStatus(strategy) ==
  LET count(type) == Cardinality({i \in DOMAIN topic :
                       topic[i].strategy = strategy /\ topic[i].type = type})
  IN  [trades |-> count("Submitted"), filled |-> count("Filled"),
       rejected |-> count("Rejected")]

\* The table adds up in every state, across failures and sessions: no strategy
\* has more outcomes than orders at the exchange, nor more orders than trades.
StatusAddsUp ==
  \A strategy \in {orders[id].strategy : id \in DOMAIN orders} :
    LET s == TradeStatus(strategy)
        n == Cardinality({id \in DOMAIN orders : orders[id].strategy = strategy})
    IN  s.filled + s.rejected <= n /\ n <= s.trades

\* A candle that was received is dealt with in the end, whatever the exchange
\* does: polling gives up, errors are logged.
EveryCandleEnds ==
  \A t \in Loops : trader[t].at = "candle" ~> trader[t].at # "candle"

-----------------------------------------------------------------------------
\* main.rs:1593 and 1514: on shutdown the tasks drain gracefully, so that a loop
\* that has ended has told of every order it placed.
DrainsGracefully ==
  (\A t \in Loops : trader[t].at = "ended") =>
    \A id \in DOMAIN orders : Outcomes(id) # {} \/ \E t \in Tasks \ Loops : id \in Held(t)
=============================================================================
