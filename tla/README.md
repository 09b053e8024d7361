# rara-trading: a verification project

rara-trading is an autonomous trading system: a research loop lets a language
model write strategies, compiles and backtests them, promotes the good ones;
live tasks feed market candles to the promoted strategies and trade through a
broker; a feedback loop measures the fills and decides what becomes of each
strategy.  The parts talk through one persistent event bus.

This directory holds TLA+ modules translated from the Rust source, TLC
configurations that check them on small instances, and proofs for the TLA+
proof system.  `PROJECT.json` maps every definition to the source lines it
stands for, and lists runs, mutants, findings, hazards and theorems.

    tlc -config Trading.cfg MCTrading          # a run
    tlapm FeedbackLoop_proofs.tla              # a proof

An operator under a comment that begins with "Deviation:" is not part of any
specification.  It is the definition below it with a plausible bug, kept to show
that a property notices.

## 1. Inventory

| Component | State | Operations | Talks to | What is hard |
|---|---|---|---|---|
| Event bus (`rara-event-bus`) | sled trees `events`, `topics`, `offsets`; sled's id generator; a broadcast channel of 1024 sequence numbers | `append`, `read_topic`, `get`, `set_offset`, `publish`, `subscribe` | everything | `publish` is four steps that interleave with other tasks; one number sequence for all topics; asynchronous flush and crashes; slow receivers |
| Feedback consumer (`rara-feedback/consumer.rs`) | stored offset; accumulators in memory | `poll`, `process_fill`, `to_metrics` | bus (topic `trading`, group `feedback`) | the offset arithmetic over a topic with gaps; offset on disk, metrics in memory; scan against publishers |
| Feedback loop, evaluator | `last_eval_trades` in memory | `evaluate_tick`, `evaluate`, `publish_decision_event` | consumer, bus (topic `feedback`) | failing publishes inside a tick, restarts |
| Lifecycle consumer and strategy store | status of each strategy in sled | open, apply promote and demote, list | bus, live trading, research loop | a lagging receiver loses decisions; one locked database opened by several tasks |
| Trading engine, guards, signal loop | strategies of a loop, candle channel | `execute_commit`, `process_candle`, loading | broker, bus (topic `trading`) | events before and after a broker call that may fail half way; a shutdown in the middle of it |
| CCXT broker | remote orders | `push`, `account_info` | exchange | polling that gives up; batches that fail half way; amounts left out of answers |
| Unified trading account (`uta.rs`, `trading_git.rs`) | staging area, pending hash, commits, head; health counter | `stage`, `commit`, `push`, `reject`, `sync`, `export`, restore | broker | the lock is released across broker calls; error paths in the middle |
| Market stream | partial candles per interval; backoff; two channels | reconnect, `process_kline`, persist | Binance, database, signal loop | late, lost and missing klines; lagging receivers |
| Market history (`fetcher/`, `store/`) | candle table | `data fetch`, `setup data`, the wizard's downloads | Binance, Yahoo, backtests | parallel downloads, failures between pages, resuming |
| Research loop and trace | five sled trees of hypotheses, experiments, feedback, DAG; the strategy store; artifacts | `run_iteration`, `record`, `get_sota`, `ancestors`; the wait between cycles | language model, compiler, backtester, bus | fifteen steps, any of which may fail; a record of four writes; crashes that cut two databases |
| Backtest (`barter_*.rs`) | candles kept, bar under construction, fuel | one market event | strategy module, barter's engine | two caps, a count against a capped list, prices |
| Agent (`rara-agent`) | child process, two pipes, a channel of lines | `execute` | a command line agent | who waits for whom; a timeout against late output |
| Sentinel | the cycle's list of entries | poll, analyse, publish | feeds, agent, bus | one failure throws a cycle away |
| gRPC server | broadcast receivers per client | stream, status | bus, terminal UI | lagging clients, two kinds of server |
| Terminal UI | connection, stream task, event list, overlays | poll, drain, keys, shutdown | gRPC server, child process | reconnecting while an old stream still delivers |
| Command line, configuration, setup | `config.toml`, `accounts.toml`, promoted directory | `setup -i`, `setup init`, `setup account`, `config set`, `strategy fetch` | file system, other shells | nothing locks a file, a save truncates first |
| Daemon | join set of all tasks | start, wait, abort | everything | any task that ends stops the rest; exclusive database locks |

What makes them correct:

* **Event bus.** A topic key never points at a missing event (an `expect` in
  `read_topic` relies on it); a subscriber that wakes for a number can read it;
  a number names one event for ever, across crashes.
* **Feedback consumer and loop.** A fill is lost behind the stored offset only when a
  later number of another engine was read first; the incremental metrics are those of
  the full scan, as long as PnLs are strings; every other fill is counted in the end.  A decision is taken on enough new trades and remembered exactly when it is
  published; every strategy is judged.
* **Lifecycle.** Two tasks never use the strategy store side by side; a notification is
  readable when it comes.  (That the store follows the decisions is not so, see below.)
* **Trading.** The topic says nothing that the exchange takes back, tells of every
  order of a call that did not fail, and the status table adds up.  No candle
  holds a loop for ever.
* **Trading account.** No operation reaches the broker twice or after a
  rejection; the history is one chain and tells the truth about the broker.
* **Market data.** Each bucket is emitted once, in order, and lacks a minute only if
  that was lost; no minute vanishes silently; a hole in the table is what a failed
  download, two that were not alone, or the end of a page left.
* **Research.** The trace is readable and one chain after any crash; what is
  promoted went through every gate; research goes on unless the bus is never quiet.
* **Agent and sentinel.** A successful call has all the output, a call with a
  timeout returns or hangs in one of two known places, every entry that stays is judged.
* **Console.** No event is listed twice; the UI recovers; Esc leaves.
* **Workstation.** Commands lose an account only to a kill in the middle of a write or
  to a list that another command has changed since; a complete setup validates, unique
  ids excepted where two commands ever ran at a time; a fetch leaves nothing unusable.

## 2. Modules

| Module | Models | Composition |
|---|---|---|
| `EventBus` | `store.rs`, `bus.rs`, the use of sled and of tokio's broadcast channel | |
| `FeedbackConsumer` | `consumer.rs`, `aggregator.rs` | EXTENDS `EventBus`: the poll runs against the step-wise publishers |
| `FillLedger` | abstract: every logged fill is tallied once, in order | refined by `FeedbackConsumer` |
| `FeedbackLoop` | `feedback_loop.rs`, `evaluator.rs` | EXTENDS `FeedbackConsumer`; the loop is one of the publishers of the bus it reads |
| `StrategyLifecycle` | the lifecycle consumer, the trader's loading and the shutdown in `daemon.rs`; `strategy_store.rs` | EXTENDS `EventBus`: the consumer is one of its receivers |
| `TradingAccount` | `uta.rs`, `trading_git.rs`, the failure counter of `health.rs` | the broker is an environment inside it |
| `OperationLife` | abstract: the life of an operation | refined by `TradingAccount` |
| `TradingEngine` | `engine.rs`, the guards, `brokers/ccxt.rs`, the exchange | |
| `SignalLoop` | `signal_loop.rs`, live trading in `daemon.rs` and `main.rs` | EXTENDS `TradingEngine`: the loop's commits are calls of the engine |
| `MarketStream` | `stream/`, the aggregation task of `daemon.rs`, inserting candles | |
| `History` | `fetcher/`, `store/candle.rs`, the download commands | |
| `ResearchTrace` | `trace.rs` | |
| `ResearchLoop` | `research_loop.rs`, the strategy manager and store, the cycles in `daemon.rs`, `research run` | EXTENDS `ResearchTrace` |
| `Backtest` | `barter_backtester.rs`, `barter_strategy.rs`, `candle_instrument_data.rs`, fuel | |
| `AgentCall` | `executor.rs`, `backend.rs`, `config.rs` | the child is an environment inside it |
| `Sentinel` | `rara-sentinel`, its loop in `daemon.rs`, `rara agent` | EXTENDS `AgentCall`: both callers share it |
| `Dashboard` | `app.rs`, `handle_key`, the tabs | |
| `Console` | `event_loop.rs`, `server_process.rs`, `rara-server` | EXTENDS `Dashboard`: server, stream tasks and UI |
| `Workstation` | the commands that share files, `setup_wizard.rs`, `accounts_config.rs`, `app_config.rs`, `strategy_registry.rs`, `AccountManager::from_config` | |
| `*_proofs` | theorems | EXTEND the modules they are about; `MarketData_proofs` is about `MarketStream` and `History`, `Client_proofs` about `AgentCall` under `Sentinel`, `Console` and `Workstation` |
| `MC*` | the small instances for TLC | |

### EventBus

`nextId` is sled's `generate_id`, one counter for all topics.  The tree `topics`
maps a topic to the set of its numbers, since the key is topic and number.  The
four steps of `publish` are four actions: `AllocateId`, `InsertEvent` and
`InsertTopicKey` (`EventStore::append`) and `Notify` (`tx.send`).  `PublishFails`
is a sled error between them: what was written stays.  `chan` is the unread part
of each receiver, cut to `Capacity` the way tokio does, with `lagged` for the
error its owner sees next.  `Flush` copies the trees to `disk` at any moment;
`CrashAndReopen` restores `disk`, drops all tasks and lets the counter skip
ahead, which is what sled's id generator does (never back).  `named` is a history
variable.  Not modelled: `get` (a lookup) and `read_by_correlation_id` (a
read-only scan).

### FeedbackConsumer

`cons` is the poll in progress: where it started, how far it scanned, what it
read.  `PollScan` takes one entry of the index per step, so publishers run in the
middle of a scan, as they do in sled.  `PollCommit` folds the batch into `acc`
and stores `NextOffset`, which is **offset + number of events**, as in the code.
`PollFails` and `PollCommitFails` are the two error paths; `Restart` loses
accumulators and poll and keeps what was on disk.  PnLs are integers; win rate
and Sharpe ratio are ratios of the accumulated data and are left out.  `counts`
and `seen` are history variables.

A payload carries its PnL as a string or as a number (`Numeric`): `process_fill` reads
both, the full scan of `aggregator.rs` takes a number for nothing earned.

The daemon runs one engine for each contract, all on the one bus, so any number of
tasks publish on the consumed topic.  Then the order of numbers and that of index
entries may differ: a poll may read the later number of one engine before the earlier
one of another is indexed, and the offset passes it.  `SkippedWereOvertaken` says
that an event is lost in this way only (`Overtaken`), and `TwoEngines.cfg` that it is.

### FeedbackLoop

`tick` is where `evaluate_tick` stands: polling (the steps of the consumer's poll)
or judging, with the strategies still to come in no order, since the code walks a
hash map.  `Judge` decides and begins `publish_decision_event`, whose steps are
those of the bus; `DecisionPublished` is its last one together with the update of
`last_eval_trades` (`judged`).  `DecisionFails`, `JudgeFails` and `TickPollFails`
are the errors that end a tick.  Whether a Sharpe ratio reaches the threshold is
left open in `Evaluate`; the sentinel argument is `false` in every call, so Demote
does not occur.  Nothing but the loop publishes decisions (the daemon does not start
`FeedbackBridge`), which is the last conjunct but one of `LoopAssumption`.
`Report(st, 1)` is what `feedback report --limit 1` lists.  Ids run out at the bound
`MaxSeq` (`JudgeAtBound`); `MaxOthers` keeps numbers free of the others' events, so that
the loop has some left to decide with.  `born`, the
counter at the start of the process, tells the decisions of this process from
those of earlier ones.

### StrategyLifecycle

`lock` is sled's file lock on the strategy database: `Open` takes it, `OpenFails`
ends the task that tried.  The consumer subscribes and then opens; a trader opens,
lists and drops the store again, and repeats that while it has no strategy; the
research loop opens it for good and promotes strategies of its own.  When a task has
ended the daemon may shut down at any moment (`Shutdown`), which flushes both databases;
`Crash` does not.  `handling` is the number between `recv` and `update_status`.
`Parsed` is what `Uuid::parse_str` makes of the id in a decision.  The signal loop
and the daemon write the strategy's *name* there, no name of the repository is a UUID,
and every instance maps names to `NotUuid`: no decision is ever applied, and strategies
become promoted by the research loop alone.

### TradingAccount

`call[c]` is where task `c` stands in `push`, `reject` or `sync`.  The git mutex
is held in `TakePending` and in the recording actions only; `Dispatch`,
`Snapshot` and `QueryOrders` are the broker calls between them.  The broker is
external: a placing call may leave an order behind although it returned an error
(`DispatchFails`), and orders settle by themselves (`SettleOrder`).  No broker of
the repository implements `get_orders`; `QueryOrders` models one that does, as
`sync` expects, and `QueryFails` all those that do not; which orders changed is
then counted and dropped, as in `record_sync`.  Hashes are counters:
`generate_commit_hash` hashes message, operations and time, and collisions are
excluded.  `Restart` is `with_saved_state`; it has no caller in the daemon yet.
`used`, `prepared`, `sent` and `lost` are history variables.

### TradingEngine and SignalLoop

`call[t]` is where the `execute_commit` of task `t` stands: asking for the account,
announcing (`submit`), in `CcxtBroker::push`, telling outcomes.  The exchange fills
orders in parts, closes, cancels, expires or rejects them between any two steps.
`CreateFails` may leave an order behind, as a lost answer does.  A cancellation
passes the contract where the exchange wants an order id, so `CancelFails` is taken for its
only outcome and ends the batch.  An error of any step drops the results of the
orders placed before (`Abandon`); `orphans`, a history variable, holds the orders
nobody tells of.  Prices, sides and fees are left out; `Held` are the orders a call
still has to tell of.  A loop (`trader`, `candles`) waits on its broadcast channel,
walks its strategies for one candle and awaits the engine for each signal;
`Shutdown` drops it where it waits, an order on its way included.  What a strategy
answers is a choice.  The event bus is the sequence `topic`: how `publish` works
inside is `EventBus`.

### MarketStream and History

A kline is the minute it opens at, a candle its bucket with the sequence of minutes
it was made of, which is all its prices depend on.  `wire` is the socket, dropped
with `StreamBreaks`; `klines` and the unread `candles` are the two broadcast
channels.  `Emit` and `After` are `process_kline`: a bucket is checked for
completeness only when it is updated, and pushed out by a kline of another bucket.
`lost` is a history variable.  The persister is offered by the library and spawned
by nobody; it is modelled because its insert decides what a table would hold.

In `History` time is counted in candles.  A download reads the stored minimum, then
the maximum, and from then on knows its ranges: the head gap before the oldest
candle and the tail after the newest.  It fetches page by page and inserts each,
while others do the same in processes of their own.  Yahoo's fetcher makes one
request and resumes after the last candle of the interval it selects.  `Fails` is a
failed request or a kill between any two steps.  `CursorAfter` is the last candle of a
page plus 60,001 milliseconds, one past the open time of the next minute: that minute is
asked for by no page (`PassedOver`).

### ResearchTrace, ResearchLoop and Backtest

sled writes a log, and a crash keeps a prefix of it: the five trees are one `log`,
and `TraceCut` cuts it anywhere behind what an earlier crash settled.  So the four
inserts of `Record` are one step; the crash that comes between them is the one that
cuts between them.  The strategy store is a second database with its own log
(`saves`) and its own cut, artifacts are files.  Hypothesis, experiment and
feedback have ids of their own in the code; one id stands for the three.

`cur` is the iteration: each call that may fail is a step, and `IterationFails` may
end it at any of them.  The language model's decision is its own and need not agree
with the thresholds of step 11 (`Accepted`); the trace's best experiment is chosen
by the former, promotion by the latter.  `driver` says whether the daemon runs the
cycles, with a receiver, pauses and a timer, or `research run`, with a counter.  The
other tasks publish without end (`OthersPublish`); the timer starts anew with every
event, so `TimerFires` needs a receiver that has nothing unread.

`Backtest` follows one minute from the instrument data to the orders.  The engine of
barter is external: it hands an event to the instrument data and then asks the
adapter.

### AgentCall and Sentinel

A call writes the prompt to stdin, where the backend takes it there, starts two
readers, takes lines from their channel, and after the loop joins readers and child.
A pipe or channel that is full stops its writer.  `Timeout` sends SIGTERM and ends
the loop.  The child reads its prompt, writes, falls silent and exits when it likes, and
exits once it got SIGTERM.  Which of the
twelve backends prompt through stdin, an argument or a file is `FromAgentConfig`.

A cycle of the sentinel polls every feed, asks about each entry, and any error ends
it; it keeps nothing from one cycle to the next, so an entry that stays is judged
again in every cycle.  `rara agent` makes calls with the configured idle timeout;
one call runs at a time.

### Dashboard and Console

`ui` is the state that decides what keys do.  In `Console` a UI talks either to the
daemon, which has a bus, or to the `serve` child it spawned, which has a market
socket and no bus.  The daemon's health probe holds a flag that nobody raises, which
is what `Probe` says.  `tasks` are the stream tasks, each with its subscription and
what is on its wire; `handle` is the one the loop knows.  What an ended task
has put into the channel is still drained.  A poll of the status with a server that hangs is a step that
takes its time.  The lists of the other tabs are filled by nothing.

### Workstation

A save truncates a file and then writes it: two steps, and a kill or a load may come
between them.  What does not parse reads as the defaults, an empty account list
among them.  The wizard checks an id, tests the connection, loads the list again and
appends, unchecked.  An account is its id, a list of accounts the number of its entries
for each id, since nothing depends on their order; whether the exchange of an account
is known to the broker's configuration is `Supported`.  `disturbed`, `overlapped`, `confirmed` and
`ready` are history variables; `overlapped` ends with the next command that
starts alone, `crowded` remembers for ever that two commands ran at a time.

## 3. Runs

| Run | Instance | Shows |
|---|---|---|
| `account` | two tasks, an order and a cancellation, three hashes, restarts | the history is one chain and truthful, no operation goes out twice or after a rejection, and `OperationLife` is refined |
| `feedback_loop` | two engines, a win and a loss of one strategy, three numbers, all faults | decisions of a process are spaced by new trades and remembered exactly when published; only overtaken events are lost behind the offset, no number is used twice |
| `feedback_loop_live` | one engine, two strategies, one with PnLs in numbers, events that are no fills, five numbers, no faults | metrics equal to the full scan where PnLs are strings, `FillLedger` refined with its liveness, every strategy judged |
| `lifecycle` | two strategies, a trader, the research loop, a receiver of capacity 1, two numbers, all faults | the store is used by one task at a time, so a daemon with a research loop does not last; a notification is readable when it comes |
| `trading` | a loop with a strategy, a caller with batches of every kind of action, two orders, two candles, one poll, all faults, shutdowns | what the topic says is final, every order of a call that did not fail is told once, the status table adds up, every candle ends |
| `market_stream` | hours of four minutes, intervals of two and four, seven minutes, two failures in a row, channels of one and two | each bucket once, in order and truthful; no minute vanishes; the stream resumes |
| `history` | three days of two minutes, pages of two candles, a quiet minute; two commands on a Binance and a Yahoo symbol | holes are what failed downloads left, or two that both began on an empty table, or the minute after a page; every download ends |
| `research` | two iterations per cycle, two ids, two results, one compile retry, two timeframes, one event of the feedback topic, others without end, one crash | the trace is readable and a chain, promotion went the whole way, candidates are there; only a bus that is never quiet holds a cycle up, and a request that was not lost is heard all the same |
| `sentinel` | a feed and a service, a prompt of two and two lines, pipes and a channel of one, one failure | output is whole, a timed call returns or hangs where the code lets it, every entry is judged |
| `console` | daemon or `serve`, two events, a list of one row, three keys, one crash | no event twice, the UI recovers, Esc leaves |
| `workstation` | two shells, three commands, three accounts, two strategies in two API versions, one kill | accounts are lost only to stale lists and killed writes, a complete setup validates and starts but for what `SetupValidates` names, a fetch leaves nothing unusable |
| `backtest_never_trades` | eight minutes, bars of two | a finding, see below |

More configurations can be run by hand.  `FeedbackLoopGaps.cfg` passes: with two engines,
decisions between the fills, events that are no fills and a fill without a name, every
event of the topic is read and passed by the offset or was overtaken
(`EveryFillCounted`), and every strategy is judged (in a minute).  The others are the
counterexamples below.  The type invariants `LoopTypeOK`, `LifecycleTypeOK`,
`TradingTypeOK`, `MarketTypeOK`, `HistoryTypeOK` and `ResearchTypeOK`, and of the
account `OneHome`, `PreparedKept`, `OpenOrdersPending` and `AccountIInv`, hold on the
instances of their runs.

The bounds.  `MaxSeq` bounds the numbers drawn: three suffice for a gap before,
between and after two events of the topic, and for a number reused after a crash.
A batch of two is the smallest that can end in front of a gap and behind one.
`Capacity` 1 makes a receiver lag with the second event.  `MaxReads` bounds how
often failing `set_offset`s may repeat a read, `MaxGap` how far a reopened
counter skips, `MaxHash` how many commit hashes are generated: three are two batches
and a sync.  `OfflineThreshold` only caps the failure counter.  In `feedback_loop_live` five numbers
leave one for the first decision after a batch without fills and three fills.  In
`lifecycle` two numbers make the receiver lag.
`MaxRetries` 1 gives polling an attempt to use up, and `MaxOrders` 2 a batch whose
second order fails.  In `market_stream` seven minutes are an hour and a half and a
bucket, so that every bucket has a predecessor and a successor, and the smaller
interval has three.  A page of two candles has an end inside a range of three days, and a crash or another
download comes between any two pages; three days leave one between the ranges of two
downloads.  Two iterations make a parent and a child, their ids drawn in order
since nothing tells one UUID from another (`DrawnInOrder`); the two results are one that
passes and one with a better ratio and too deep a drawdown, so that accepting by one
threshold alone is noticed.  `MaxLines` 2 on one stream with a pipe of one stops the
child in a write, a channel of one is full after a timeout while a reader has a line
left, and a prompt of two does not fit the pipe: both hangs of a call are reached.  `console` has as many events as one more
than fits the list.  Three commands in two shells are a wizard, a command between
its load and its save, and one after.

Deadlock checking is off where everything may stop: bounds of the environment are
reached, a command has returned, a user has left.  It is on for the account, the
loop and the lifecycle, where an export, a poll or a crash can always move.

Fairness.  Every weak fairness is on the steps of one task of the program, since the
runtime polls a task that can go on and an operating system runs a process; nothing
is assumed of publishers starting an event, of users, of faults, of restarts, nor of
the exchange.
* The loops (`FairLoopSpec`): the interval ticks for ever, errors are logged.  The
  live run has no crash and no failing offset: a process that crashes for ever makes
  no progress.
* `FairLifecycleSpec`: a receiver with something to read is woken, a trader and the
  research loop come to the store, a trader reads its list to the end, a daemon one of
  whose tasks ended shuts down.
* `FairTradingSpec`: the loop and its call go on.  Whether an order is ever filled is
  left open; polling gives up.
* `FairMarketSpec`: strong fairness on connecting only, with at most `MaxFailures`
  failures in a row: an exchange that never answers streams nothing.
* `FairHistorySpec`, `FairResearchSpec`: the download, the research task.  The
  language model and the compiler are assumed to return; the calls have no timeout.
  Nothing is assumed of the other publishers, who may never be quiet.
* `FairSentinelSpec`: the executor's steps and the cycle's.  A child that is called
  without a timeout is assumed to read its prompt and to exit, one that got SIGTERM to
  exit; nothing is assumed of a child with a timeout
  before.  Strong fairness on `Ask` because command and sentinel take turns.
* `FairConsoleSpec`: the loop's arms, the stream tasks, the market socket's retries,
  and a user who wants to leave presses Esc.

### What the code does not do

A run of its own shows that **no backtest ever trades** (`SignalsTrade`,
`backtest_never_trades`): `barter_strategy.rs:204` asks for an order only with a
price, which `candle_instrument_data.rs` takes from trades and order books, and a
backtest feeds candles.  Whatever the strategy answers, no order is placed, and every
result the research loop compares comes from a flat account.

Counterexamples to run by hand, each a sentence of a comment, a message or a
document that the code does not keep:

| Configuration | Module | Property | What happens |
|---|---|---|---|
| `FeedbackConsumerGaps.cfg` | `MCFeedbackConsumer` | `CountedOnce` | `consumer.rs:225` adds a count to a sequence number: with any gap in the topic the offset falls short and fills are counted again |
| `PushLosesRecord.cfg` | `MCTradingAccount` | `PushedIsRecorded` | `uta.rs:156`: when the snapshot after the dispatch fails, the executed batch is recorded nowhere |
| `FeedbackLoop.cfg` with `RetiredForPercentage` as its invariant | `MCFeedbackLoop` | `RetiredForPercentage` | `evaluator.rs:58` compares a drawdown in money with a fraction: a loss of 0.21 retires a strategy under a limit of 20 percent |
| `TwoEngines.cfg` | `MCFeedbackConsumer` | `NoFillSkipped` | `store.rs:95`: with an engine for each contract a poll can read a later number before an earlier one is indexed; that fill is behind the offset and never counted, though `bus.rs:14` lets consumers catch up from the store |
| `NumericPnl.cfg` | `MCFeedbackConsumer` | `ScanFindsPnl` | `aggregator.rs:76` reads a PnL only as a string: one in numbers, which `consumer.rs:241` counts and the tests at `consumer.rs:536` write, earns nothing in the full scan |
| `NamesAreNoUuids.cfg` | `MCStrategyLifecycle` | `DecisionsApply` | `daemon.rs:885`: decisions carry the strategy's name (`signal_loop.rs:176`, `daemon.rs:728`), the consumer wants a UUID, and no decision is ever applied, against `daemon.rs:837` |
| `TraderGivesUp.cfg` | `MCStrategyLifecycle` | `TraderRetries` | `daemon.rs:666`: the consumer keeps the strategy database open, the trader opens it again and ends on sled's lock error, and with it the daemon, though `daemon.rs:539` has it retry |
| `BusyBus.cfg` | `MCResearch` | `CyclesGoOn` | `daemon.rs:308` starts the sleep anew with every event: a bus that is never quiet for the delay postpones the cycle for ever, against `daemon.rs:257` |
| `LagFindsRetrain.cfg` | `MCResearch` | `LagFindsRetrain` | `daemon.rs:403` reads the first 50 feedback events where `daemon.rs:393` speaks of the last 50 |
| `PageBoundaries.cfg` | `MCHistory` | `RangeIsFetched` | `binance.rs:219` sets the cursor past the open time of the next minute: each page but the last of a range is followed by a minute that is not fetched, though `binance.rs:192` fetches "a contiguous millisecond range" |
| `UndrainedLines.cfg` | `MCSentinel` | `TimedCallReturns` | `executor.rs:215`: after SIGTERM nobody takes lines any more; a child that still writes more than the channel holds hangs the call, against `executor.rs:69` |

Read in the code while modelling, and stated by no configuration: what is added
between `commit` and `push` is executed under a hash that does not cover it
(`trading_git.rs:127`); a sync records the status of no order, so a settled order
stays pending (`trading_git.rs:196`); a retired strategy is judged anew after a
restart (`feedback_loop.rs:153`); an error of one action drops the results of the
orders placed before it (`ccxt.rs:568`), and a shutdown drops an order on its way
though `main.rs:1514` speaks of draining (`DrainsGracefully` states it); a prompt through
stdin is written before anything is read, and the timeout has not begun
(`executor.rs:86`); a failure inside the head gap, filled oldest first, moves the stored
minimum, so that no later run sees the hole (`binance.rs:171`);
`barter_strategy.rs` compares the length of a capped list with a count, so that no
candle is processed once the cap is reached; `setup account add` takes any exchange and
`setup validate` accepts the file, on which `AccountManager::from_config` panics; a
lifecycle consumer that lags never looks up what it lost; calls of the sentinel and the research loop have no timeout, and
neither has the status call of the UI; the wizard saves the whole configuration as it
was loaded, over a `config set` of another shell, and appends an account without
checking its id again; one metadata file that is cut off empties
`strategy installed`; with auto-scroll off the selected row of the Events tab may lie
beyond the list; nothing calls `StrategyPromoter`, so `trade start` finds no promoted
metadata and falls back on fetched modules; two downloads that both begin on an empty
table can leave a hole between their ranges, and the candle in progress is stored
and never replaced.

## 4. Proofs

`EventBus_proofs` proves for every set of publishers, subscribers, topics and
events, every capacity and every bound on the counter:

* `BusInvariant`: `BusSpec => []BusIInv`;
* `IndexSound`, `NotifiedSound`, `SeqUnique`: the three safety properties.

They need `BusAssumption` alone.  None of the three is inductive: a topic key is
inserted for an event that an earlier step stored, so the invariant must say what
a publish in flight has done (`InFlight`: the number is its own, the event is in
the tree from `InsertEvent` on, the key in the index from `InsertTopicKey` on) and
that every number in use was drawn (`Drawn`).  `TypeOK`'s `disk \in Trees` and the
second halves of the properties carry them over a crash.

`FeedbackLoop_proofs` proves of the consumer `ConsInvariant` and `OvertakenOnly` under
`BusAssumption` and `ConsumerAssumption`, for any number of tasks that publish on the
topic; only the events, which carry ids, are one task's each.  The argument: the number
that a task has in flight is its last (`LastOfTask`), so an entry that lands behind a
cursor has a later number of *another* task before it, and that one was read.  A batch
is therefore the index from its base to its cursor but for what it overtook (`Scanned`);
the cursor is at least as far from the base as the batch is long, so
`base + Len(batch)` never passes an entry that was neither read nor overtaken; and the
offset lies within what was read of the topic (`Within`).  `OneEngineSkipsNothing` is
the corollary for a topic with a single publisher.

`ConsTypes` adds that each accumulator counts as many wins and losses as trades,
which is a statement about `FoldLeft` over any batch.  The theorems of the library
that prove by induction take an operator as parameter, but least numbers can be
cited without one: `WFMin` with `NatLessThanWellFounded` gives `LeastNumber`, and this
`AllNumbers` (what holds of 0 and goes from n to n + 1 holds of every number).
`FoldLeft` is a CHOOSE of the function that satisfies its recursion; `RecursionSolved`
builds that function from its finite approximations, and `TalliedOneByOne` is the
equation the proofs use: to tally a batch is to process its events one by one.
`TalliedGrows` says what that does to an account: the wins and losses add up and the
number of trades only grows.

`MetricsAgreeHolds` and `CountedOnceHolds` are about what poll does *not* guarantee in
general (`FeedbackConsumerGaps.cfg`), and say what it takes: as long as no number of
another topic lies before one of this (`Gapless`, a hypothesis on the state, true
throughout `feedback_loop_live`), no offset is lost (no failed commit, no restart: a
hypothesis on `Faults`; publishes and reads may fail) and no strategy is called
"unknown", the name under which fills without one are counted, no fill is counted
twice and the consumer's metrics are those of the full scan: all of them for a
strategy whose PnLs are strings, the number of trades for any other.  In such a topic a batch
holds the numbers that come next (`NextOnes`), so offset, count and number agree.  The
rest is about the two computations: `Matches` says that an accumulator has the metrics
of a set of fills, `FillMatches` that recording one more fill keeps it so, and
`ToldBatch` carries this through a batch with `TalliedOneByOne`.  For the peak and the
drawdown, `Peaks` says that they are the largest value and the largest fall of the
sums of what was earned; `EquitySums` shows that the recursive function `Equity`
exists and is those sums, `SumsMove` what one more fill does to them, and `PeaksMove`
that `record_fill` follows.

Under the same hypotheses `ConsumerImplementsLedger` proves `Spec /\ []Gapless =>
Ledger!SafeSpec`: a topic key without a gap before it appends to the ledger's log
(`GaplessIsPrefix`), a commit is one `Tally` (`TradesOfBatch` counts what a batch adds,
`StretchCounted` what the ledger adds), and every other step stutters.

The same module proves of the loop with its consumer, its publishes and those of
the others, under `LoopAssumption` besides:

* `LoopConsumes`: `LoopSpec => Spec`.  The loop is one of the consumers and one of
  the publishers that `FeedbackConsumer` is about, so that `LoopOvertakenOnly`,
  `LoopNumbersUnique` and the types follow from the theorems above.
* `DecisionsSpaced` and `DecisionsRemembered`, with `LoopInvariant`.  A decision is in
  the index before the loop remembers it, so the number of decisions is ahead of
  `judged` for two steps of the publish.  The invariant counts those whose publish is
  over (`Taken`): they are at most as many as `judged` divided by `MinNewTrades`
  (`Spaced`).  The one in flight is about a strategy of the tick in progress with
  enough new trades (`OwnDecision`); it is no decision of this process before it is in
  the index (`NotYetIndexed`).  A poll only adds trades (`TalliedGrows`), nobody else
  decides, and a restart starts from no decisions of its own (`born`).  That the newest
  line of the report is a decision of this process needs the greatest element of a
  finite set (`LargestNumber`).

`TradingAccount_proofs` proves `AccountInvariant`, `HistoryIsChain`,
`SentAtMostOnce` and `RejectedStaysUnsent` under `AccountAssumption`, for every number of tasks, operations and hashes.  That no
operation is sent twice is not inductive: what matters is who holds it.
`TakenOnce` says that an operation is staged once or in the batch of one task, and
unsent before its turn; `CallsInOrder` ties the place of a task to what it holds
(only a push dispatches, a rejection has no results); `RejectedForGood` keeps a
rejected operation out of every later batch; `HashesGenerated` bounds the hashes
in use by the number generated, so that the next one is new (in the model, where a hash
is a fresh number; the code's truncated SHA-256 may collide).  The last two speak
of `Logs`, the live history and the exported one, which a restart brings back.

`HistoryIsTrue` rests on `TruthIInv`: what a push has written down so far, and what
every history says, was executed and is the broker's own answer (`Executed`), and an
operation of a recorded batch is with nobody any more (`Gone`), so that nothing sends it
again and changes what its record says.  `SavedKept` makes the export a prefix of the
history.  `AccountImplementsLife` proves `Spec => LifecycleSpec`: where an operation
lies (`staging`, a call, a history) and what was `sent` determine its stage, and each
step of the account is a step of `OperationLife` or leaves every stage alone, a
restart included.

`SignalLoop_proofs` proves `OutcomesHold` and `OrdersTold` with their inductive
invariants under `EngineAssumption` and `LoopAssumption`, for every number of
callers and loops, any commits, guards, capacity and number of polls.  An outcome
event repeats an answer that was read many steps before.  What carries it is that
the exchange never takes back a final status (`OrdersGoOn`, proved of each of its
steps), so an answer, a result and an event, once true of an order, stay true
(`AnswerSound`, `ResultsSound`, `TopicSound`).  `EveryOrderTold` counts events, and
is not inductive: an order is told by whoever holds it.  `OneHolder` gives each
order at most one holder, a call that has yet to tell it or nobody (`orphans`), and
each call its orders once; `ToldOnce` gives it one event when nobody holds it.

`TableAddsUp` compares the sizes of three sets.  Outcomes of a strategy are at most
its orders, since each tells of an order of its own (`ToldOnce`) that has the
strategy's name (`EventsNamed`).  Orders are at most announcements because there is an
injection, which `TableIInv` carries as a witness (`Matched`): every order has an
announcement of its own, and so has every action of a call that may still become an
order; when the exchange takes the order of an action, the order takes over its
announcement.  Both counts end in `FS_Injection`.

`StrategyLifecycle_proofs` proves `OneUsesStoreHolds` under `LifecycleAssumption`, for any
tasks, events, ids and capacity: whoever uses the store holds its lock, and a lock has at
most one holder, through failed opens, crashes and shutdowns.

`MarketData_proofs` proves all three safety properties of the stream under
`StreamAssumption`, for any intervals, capacities and delays.  `MinutesAccounted`:
`NoMinuteVanishes` is inductive with the types of the queues, and each step moves a
minute from one of its places to the next or into `lost` (one lemma for each queue
operation says which minutes it moves).  `BucketsInOrder` and `CandlesTellTruth` rest
on `OrderIInv`: minutes increase from the candles through the partial candles and the
two queues to the clock (`InTurn`, `PartialInTurn`, `CandlesInTurn`), so a bucket is
behind whatever is still to come (`Coming`) when it is given up.  For one that counts
as complete this needs the arithmetic of `align_timestamp`: an hour is whole buckets
(`AlignIsQuotient`), minutes of one bucket are consecutive, and the n-th of them is at
least its opening plus n - 1 (`OneBucket`).  That a candle lacks only lost minutes is
then a consequence: a missing minute of its bucket cannot come any more, lies in no
partial candle and in no other candle, and by `NoMinuteVanishes` it is lost.

It also proves of `History`, under `HistoryAssumption`, `HistoryTypesHold` and
`HolesAreUnfinishedHolds`, for any symbols, processes, lengths of a page and of a day,
and candles the exchange lacks.  The minute after a page enters `unfinished` with the page (`PassedOver`).
The property is about minutes between two stored
candles, and a page may be stored far from both, so that what was outside the coverage
becomes a hole.  `HistoryInv` therefore accounts (`Fine`) for three kinds of minutes:
between two candles (`HoleFree`), between a candle and a range that some download has
still to fetch (`Bridged`), and, as long as nothing is stored, between the ranges of two
downloads (`NotBetween`).  `DownloadOK` ties the place of a download to what it read: the
stored minimum it has seen is stored, a page goes on from the start of its range, and only
the last range may reach beyond the present.  A step that stores a page is
split by where its candles lie; every other one only moves ranges.  The attempt to prove
it found an exception the property did not name: two downloads that both read the bounds
of an empty table fetch their own ranges, and what lies between the two is in neither.
`unfinished` records it when the second one reads (`Apart`).

`Client_proofs` is about the programs around the daemon, in three parts:

* `OutputIsWholeHolds`, under `AgentAssumption` and `SentinelAssumption`: `CallInv` says of
  each stream where its lines are.  What was taken is 1 to n (`Taken`), the pipe holds the
  last ones written (`Piped`), each line between the two is in the channel (`Carried`)
  and they lie there in order, before the mark that ends the stream (`InOrder`), which
  comes (`EndsOnce`) only when the child has exited and the pipe is
  empty.  A call succeeds after both marks (`Finished`), when nothing is left between
  what was written and what was taken.
* `EventsOnceHolds`, under `DashboardAssumption` and `ConsoleAssumption`: `ConsoleInv` says
  that the number of an event is listed, in the channel, on the wire or in the receiver of
  a task, or untold, and at one of these places only (`OnePlace`).  That there is one task
  to have a wire rests on `OneTask`: the loop spawns a task only when the one it knows has
  ended.
* `FilesInvariant`, `AccountsKeptHolds`, `SetupValidatesHolds` and `FetchedIsUsableHolds`, under
  `WorkstationAssumption`, for any number of shells, accounts, strategies and commands.
  `KeptInv`: a shell that is not stale has loaded what the file says, and what it is about
  to write is what it confirms.  `SetupInv`: what a command that runs alone has
  checked stays true until it acts on it (`Alone`; that ids are unique, only if no two
  commands have ever run at a time), and as long as no exchange was
  typed every account of a file or a shell is at a known one (`Known`).  `FetchInv`: a
  module in a directory was validated before it was saved, and where metadata and module
  disagree a fetch is under way or was killed.

`Research_proofs` proves the four safety properties of the research loop under
`TraceAssumption` and `ResearchAssumption`, for any ids and results and any number of
retries, timeframes, iterations and crashes.  A crash leaves a prefix of each log, so
`ResearchIInv` says of an entry what stands before it (`EntrySound`: an experiment
comes after its hypothesis, a node after its experiment, its feedback and the nodes
of lower indices, a link after its node): what is said of each entry and the entries
before it is true of every prefix (`CutSound`).  Reading it back, the nodes are the
first numbers (`NodesAreFirst`, from `LeastNumber` as above), and the recursive reads
`Ancestors` and `AncestorChain` are walks to smaller positions, whose functions exist
by `WalkExists` and whose ends `LineageRooted` follows.  `CurSaved` and `CurTested` tie
the step of the iteration to what it has written, `Counted` keeps the candidate in
hand apart from those already tallied, and `Passed` is claimed only while no crash
cut the trace, since the store and the trace are cut apart.  That a promoted record
stays what the store answers needs that it is the last save of its id (`SavesSound`,
`SavedIs`).

Only model-checked:

* every liveness property, the fairness of `FillLedger` (`LedgerSpec`) among them: the
  prover has no ENABLED;
* `OneHome`, `PreparedKept` and `OpenOrdersPending` of the account;
* `ResearchTypeOK`;
* `Backtest`, of which no safety property holds beyond its types, and the rest of
  `Sentinel` and `Dashboard`, whose properties are about progress.

No module declares a RECURSIVE operator.

## 5. Not modelled

* `FeedbackBridge` (`rara-feedback/engine.rs`) and `RetrainChecker`
  (`retrain.rs`): the daemon starts neither.
* `strategy_promoter.rs` and `backtest_pool.rs`: nothing calls them.
* `SentinelGate` and the webhook source: nothing feeds the one or builds the other,
  so they have no state that the program reaches.
* The paper broker and `AccountManager`'s disabling, recovery delay and aggregated
  equity: only tests call them.
* `sync_orders`, `positions`, `get`, `read_by_correlation_id`, the log and show
  queries of the account, the status probes of the server: they change nothing.
* The tick table and the symbol search of the market store.
* Limits and errors that no property depends on: the 100,000 events that
  `trade status` reads at most (`main.rs:1376`); cancellations that the exchange accepts
  (`ccxt.rs:598`, `647`), although the id they pass is none of its own; errors of the reader tasks and pipes that a
  grandchild inherits (`executor.rs:193`, `269`); environment variables, which
  `setup validate` applies and the wizard does not (`app_config.rs:208`).
* A file that cannot be written although nobody was killed (`accounts_config.rs:78`,
  `strategy_registry.rs:284`): the file is left as a kill at that point leaves it.
* The time that the UI waits for a status: `get_system_status` has no timeout
  (`event_loop.rs:440`), so a server that hangs, or a connection that is half open,
  blocks the keys; here the call ends in one step.
* A closed kline that the exchange repeats or sends out of order.
* Rendering, and the lists of the tabs that nothing fills.
* Prompts, arguments, formats of answers; parsing of the command line; logging.
* The WASM engine, barter's engine and the exchange libraries: external, modelled
  as far as their callers depend on them.
* The Sharpe ratio and the other quotients of metrics: real numbers on which only
  thresholds depend, which the models leave open.
