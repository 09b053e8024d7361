-------------------------- MODULE FeedbackConsumer --------------------------
(***************************************************************************)
(* The feedback consumer of crates/rara-feedback (consumer.rs) on the event*)
(* bus: it polls the "trading" topic from a stored offset, folds the fills *)
(* it reads into per-strategy accumulators held in memory, and stores the  *)
(* next offset.                                                            *)
(*                                                                         *)
(* The scan of a poll reads the topic index entry by entry while the       *)
(* publishers run, one live engine per contract among them.  The stored    *)
(* offset is a sequence number, yet the next one is computed as offset +   *)
(* number of events read.                                                  *)
(***************************************************************************)
EXTENDS EventBus, SequencesExt

CONSTANTS
  Fills,        \* the events that are TradingOrderFilled
  Strategies,   \* the strategy ids that fills carry
  NoStrategy,   \* the id of a fill that carries none
  Strategy,     \* Strategy[e]: the strategy id of fill e
  Pnl,          \* Pnl[e]: the realized_pnl in the payload of fill e
  Numeric,      \* the fills that carry it as a JSON number, not as a string
  BatchSize,    \* events per poll (100 in consumer.rs)
  MaxReads      \* bound: how often a process reads an event after failing
                \* set_offsets; reads beyond it are not counted

TOPIC == "trading"
CONSUMER_GROUP == "feedback"

\* Any number of tasks publish on the topic; an event, with its id, is one task's.
ASSUME ConsumerAssumption ==
  /\ TOPIC \in Topics /\ CONSUMER_GROUP \in Groups
  /\ Fills \subseteq {e \in Events : Topic[e] = TOPIC}
  /\ Strategy \in [Fills -> Strategies \cup {NoStrategy}]
  /\ NoStrategy \notin Strategies
  /\ Pnl \in [Fills -> Int]
  /\ Numeric \subseteq Fills
  /\ BatchSize \in Nat \ {0}
  /\ \A p, q \in Publishers : p # q => Writes[p] \cap Writes[q] = {}

VARIABLES
  cons,         \* where the consumer stands in its poll
  acc,          \* its accumulators, in memory
  counts,       \* history: how often this process read each number
  seen          \* history: every number any process ever read

consVars == <<cons, acc, counts, seen>>
vars == <<busVars, consVars>>

\* A fill without a strategy id is counted under "unknown".
Owner(e) == IF Strategy[e] = NoStrategy THEN "unknown" ELSE Strategy[e]
Owners == Strategies \cup {"unknown"}

\* StrategyAccumulator::new
NewAccumulator == [trade_count |-> 0, winning_trades |-> 0, losing_trades |-> 0,
                   total_pnl |-> 0, peak_equity |-> 0, max_drawdown |-> 0]

AtRest == [at |-> "idle", base |-> 0, cursor |-> 0, batch |-> <<>>]

ConsInit ==
  /\ cons = AtRest
  /\ acc = [st \in Owners |-> NewAccumulator]
  /\ counts = [n \in Seqs |-> 0]
  /\ seen = {}

-----------------------------------------------------------------------------
(***************************************************************************)
(* StrategyAccumulator::record_fill.                                       *)
(***************************************************************************)
Larger(a, b) == IF a > b THEN a ELSE b

\* Deviation: the peak begins with the first trade, not with nothing earned.
RecordFillPeakFirst(a, pnl) ==
  LET total == a.total_pnl + pnl
      peak  == IF a.trade_count = 0 THEN total ELSE Larger(a.peak_equity, total)
  IN [trade_count    |-> a.trade_count + 1,
      winning_trades |-> a.winning_trades + (IF pnl > 0 THEN 1 ELSE 0),
      losing_trades  |-> a.losing_trades + (IF pnl > 0 THEN 0 ELSE 1),
      total_pnl      |-> total,
      peak_equity    |-> peak,
      max_drawdown   |-> Larger(a.max_drawdown, peak - total)]

RecordFill(a, pnl) ==
  LET total == a.total_pnl + pnl
      peak  == Larger(a.peak_equity, total)
  IN [trade_count    |-> a.trade_count + 1,
      winning_trades |-> a.winning_trades + (IF pnl > 0 THEN 1 ELSE 0),
      losing_trades  |-> a.losing_trades + (IF pnl > 0 THEN 0 ELSE 1),
      total_pnl      |-> total,
      peak_equity    |-> peak,
      max_drawdown   |-> Larger(a.max_drawdown, peak - total)]

\* FeedbackConsumer::process_fill takes the PnL as a string or as a number; other
\* events of the topic pass by.
Process(accs, e) ==
  IF e \in Fills
  THEN [accs EXCEPT ![Owner(e)] = RecordFill(@, Pnl[e])]
  ELSE accs

-----------------------------------------------------------------------------
(***************************************************************************)
(* FeedbackConsumer::poll.                                                 *)
(***************************************************************************)
PollStart ==
  /\ cons.at = "idle"
  /\ cons' = [at |-> "scanning", base |-> offsets[CONSUMER_GROUP],
              cursor |-> offsets[CONSUMER_GROUP], batch |-> <<>>]
  /\ UNCHANGED <<busVars, acc, counts, seen>>

Ahead == Indexed(TOPIC, cons.cursor)

\* read_topic takes the next entry of the index that is there by now.
PollScan ==
  /\ cons.at = "scanning"
  /\ Len(cons.batch) < BatchSize
  /\ \E n \in Ahead :
       /\ \A m \in Ahead : n <= m
       /\ cons' = [cons EXCEPT !.cursor = n + 1, !.batch = Append(@, n)]
  /\ UNCHANGED <<busVars, acc, counts, seen>>

ScanDone ==
  /\ cons.at = "scanning"
  /\ Len(cons.batch) = BatchSize \/ Ahead = {}

PollEmpty ==
  /\ ScanDone
  /\ cons.batch = <<>>
  /\ cons' = AtRest
  /\ UNCHANGED <<busVars, acc, counts, seen>>

\* A sled error in read_topic: nothing was processed, the next tick retries.
PollFails ==
  /\ "read" \in Faults
  /\ cons.at = "scanning"
  /\ cons' = AtRest
  /\ UNCHANGED <<busVars, acc, counts, seen>>

\* Deviation: the offset advances by the limit, not by what was read.
NextOffsetByLimit(c) == c.base + BatchSize

\* Deviation: the offset advances by the fills that were processed.
NextOffsetByFills(c) ==
  c.base + Cardinality({i \in DOMAIN c.batch : events[c.batch[i]] \in Fills})

NextOffset(c) == c.base + Len(c.batch)

ProcessBatch ==
  /\ ScanDone
  /\ cons.batch # <<>>
  /\ acc' = FoldLeft(LAMBDA a, n : Process(a, events[n]), acc, cons.batch)
  /\ counts' = [n \in Seqs |-> IF n \in ToSet(cons.batch) /\ counts[n] < MaxReads
                               THEN counts[n] + 1 ELSE counts[n]]
  /\ seen' = seen \cup ToSet(cons.batch)
  /\ cons' = AtRest

PollCommit ==
  /\ ProcessBatch
  /\ SetOffset(CONSUMER_GROUP, NextOffset(cons))

\* set_offset fails after the accumulators took the batch.
PollCommitFails ==
  /\ "offset" \in Faults
  /\ \A n \in Seqs : counts[n] < MaxReads
  /\ ProcessBatch
  /\ UNCHANGED busVars

Poll == PollStart \/ PollScan \/ PollEmpty \/ PollCommit

\* The accumulators and the poll are gone with the process.
Restart ==
  /\ CrashAndReopen
  /\ cons' = AtRest
  /\ acc' = [st \in Owners |-> NewAccumulator]
  /\ counts' = [n \in Seqs |-> 0]
  /\ seen' = seen

-----------------------------------------------------------------------------
Publishing == \E p \in Publishers : PublishStep(p) /\ UNCHANGED consVars

Init == BusInit /\ ConsInit

Next ==
  \/ Publishing
  \/ Flush /\ UNCHANGED consVars
  \/ Poll
  \/ PollFails
  \/ PollCommitFails
  \/ Restart

Spec == Init /\ [][Next]_vars

\* run ticks for ever and polls again after an error; a publish call does not
\* stop half way, but nothing obliges anyone to publish.
FairSpec ==
  /\ Spec
  /\ WF_vars(Poll)
  /\ \A p \in Publishers :
       WF_vars((InsertEvent(p) \/ InsertTopicKey(p) \/ Notify(p)) /\ UNCHANGED consVars)

-----------------------------------------------------------------------------
(***************************************************************************)
(* MetricsAggregator::aggregate (aggregator.rs): the same metrics computed *)
(* by a scan of the whole topic, for an evaluation window that holds all   *)
(* the fills of the set S.                                                 *)
(***************************************************************************)
FillsOf(S, st) == {n \in S : events[n] \in Fills /\ Strategy[events[n]] = st}

\* A number that is no fill of the strategy earns nothing, and neither does a fill
\* whose PnL is no string.
Earned(S, st) ==
  [n \in Seqs |-> IF n \in FillsOf(S, st) /\ events[n] \notin Numeric
                  THEN Pnl[events[n]] ELSE 0]

\* The cumulative PnL before each number, and at the end.
Equity(pnls) ==
  LET cumulative[n \in 0 .. MaxSeq] == IF n = 0 THEN 0 ELSE cumulative[n - 1] + pnls[n - 1]
  IN cumulative

\* Every fall from an earlier point to a later one, of nothing included.
Falls(equity) == UNION {{equity[i] - equity[j] : j \in i .. MaxSeq} : i \in 0 .. MaxSeq}

Aggregate(S, st) ==
  LET pnls == Earned(S, st)
  IN [trade_count |-> Cardinality(FillsOf(S, st)),
      wins        |-> Cardinality({n \in FillsOf(S, st) : pnls[n] > 0}),
      pnl         |-> Equity(pnls)[MaxSeq],
      drawdown    |-> Max(Falls(Equity(pnls)))]

\* StrategyAccumulator::to_metrics, the Sharpe ratio left out.
ToMetrics(a) == [trade_count |-> a.trade_count, wins |-> a.winning_trades,
                 pnl |-> a.total_pnl, drawdown |-> a.max_drawdown]

-----------------------------------------------------------------------------
(***************************************************************************)
(* Properties.                                                             *)
(***************************************************************************)
PollTyped ==
  /\ cons \in [at : {"idle", "scanning"}, base : 0 .. MaxSeq,
               cursor : 0 .. MaxSeq, batch : Seq(Seqs)]
  /\ counts \in [Seqs -> Nat]
  /\ seen \subseteq Seqs

\* Types of the poll and of the accumulators; with TypeOK, the stored offset
\* never passes the numbers that can be drawn.
ConsTypeOK ==
  /\ TypeOK
  /\ PollTyped
  /\ DOMAIN acc = Owners
  /\ \A st \in Owners :
       /\ DOMAIN acc[st] = DOMAIN NewAccumulator
       /\ acc[st].winning_trades + acc[st].losing_trades = acc[st].trade_count

\* Task p published a trading event under number n.
By(p, n) == \E e \in Writes[p] : Topic[e] = TOPIC /\ <<n, e>> \in named

\* A larger number that another task drew is in the set S.
Overtaken(n, S) ==
  \E m \in S : m > n /\ \E p, q \in Publishers : p # q /\ By(p, n) /\ By(q, m)

Skipped(idx, offset) == {n \in idx : n < offset /\ n \notin seen}

\* An event of the topic is lost behind the stored offset in one way only: its task
\* had drawn the number and not yet indexed it when a poll read a later number of
\* ANOTHER task.  The offset that is computed from a count, the gaps in the index,
\* the scan beside running publishers, failed calls and a crash that takes index
\* and offset back lose none.
SkippedWereOvertaken ==
  /\ \A n \in Skipped(topics[TOPIC], offsets[CONSUMER_GROUP]) : Overtaken(n, seen)
  /\ \A n \in Skipped(disk.topics[TOPIC], disk.offsets[CONSUMER_GROUP]) : Overtaken(n, seen)

\* bus.rs:14 ("Consumers that fall behind can catch up by reading directly from the
\* store"): no event of the topic lies unread behind the offset.
NoFillSkipped == Skipped(topics[TOPIC], offsets[CONSUMER_GROUP]) = {}

\* A poll only processes new events (consumer.rs:150-151): no process counts
\* a fill twice.
CountedOnce == \A n \in Seqs : events[n] \in Fills => counts[n] <= 1

\* No number of another topic lies before one of this: then the offset, a number, and
\* the count of events that it advances by agree.
Gapless == \A n \in topics[TOPIC] : 0 .. n \subseteq topics[TOPIC]

\* The fills of the strategy carry their PnL as a string, as the engine writes it.
InStrings(st) == \A e \in Fills : Strategy[e] = st => e \notin Numeric

Behind == {n \in topics[TOPIC] : n < offsets[CONSUMER_GROUP]}

\* The incremental metrics of a strategy are those that the full scan of
\* aggregator.rs computes over the events behind the offset; where the PnL is a
\* number, the two agree in the trades only.
MetricsAgree ==
  \A st \in Strategies :
    /\ ToMetrics(acc[st]).trade_count = Aggregate(Behind, st).trade_count
    /\ InStrings(st) => ToMetrics(acc[st]) = Aggregate(Behind, st)

\* aggregator.rs:75 ("Extract PnL per trade from payload (if present)"): the PnL of
\* the scan is that of the payloads, as process_fill reads them.
ScanFindsPnl ==
  \A st \in Strategies : Aggregate(Behind, st).pnl = ToMetrics(acc[st]).pnl

\* Every event that reaches the topic is read and the offset passes it, but for one
\* that a later number of another task overtook.
EveryFillCounted ==
  \A n \in Seqs : n \in topics[TOPIC] ~>
    n < offsets[CONSUMER_GROUP] /\ (n \in seen \/ Overtaken(n, seen))

\* The strengthening behind SkippedWereOvertaken.  Every name is one task's, whose
\* number in flight is its last; an offset stays within what was read of the topic;
\* and a batch holds the index from base to cursor but for what it overtook.
OnlyWriter ==
  \A p \in Publishers : pub[p].at # "idle" => pub[p].event \in Writes[p]

Authored == \A x \in named : \E p \in Publishers : x[2] \in Writes[p]

LastOfTask ==
  \A p \in Publishers : pub[p].at # "idle" =>
    \A x \in named : x[2] \in Writes[p] => x[1] <= pub[p].seq

Within(idx, o) == o = 0 \/ \E m \in idx : o <= m + 1

Scanned ==
  cons.at = "scanning" =>
    /\ cons.base = offsets[CONSUMER_GROUP]
    /\ cons.base + Len(cons.batch) <= cons.cursor
    /\ cons.cursor = cons.base \/ Within(ToSet(cons.batch), cons.cursor)
    /\ ToSet(cons.batch) \subseteq topics[TOPIC]
    /\ \A n \in topics[TOPIC] : cons.base <= n /\ n < cons.cursor =>
         n \in ToSet(cons.batch) \/ Overtaken(n, ToSet(cons.batch))

ConsIInv ==
  /\ BusIInv
  /\ PollTyped
  /\ SkippedWereOvertaken
  /\ OnlyWriter
  /\ Authored
  /\ LastOfTask
  /\ Within(topics[TOPIC] \cap seen, offsets[CONSUMER_GROUP])
  /\ Within(disk.topics[TOPIC] \cap seen, disk.offsets[CONSUMER_GROUP])
  /\ Scanned

\* The consumer implements the ledger in which every fill is tallied once, when
\* the topic never has a gap and no offset is lost.
Ledger == INSTANCE FillLedger WITH
  Entries <- {e \in Events : Topic[e] = TOPIC},
  Fill    <- LAMBDA e : e \in Fills,
  Owner   <- Owner,
  Owners  <- Owners,
  log     <- [i \in 1 .. Cardinality(topics[TOPIC]) |-> events[i - 1]],
  done    <- offsets[CONSUMER_GROUP],
  tally   <- [st \in Owners |-> acc[st].trade_count]

LedgerSpec == Ledger!Spec
=============================================================================
