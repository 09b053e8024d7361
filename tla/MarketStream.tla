---------------------------- MODULE MarketStream ----------------------------
(***************************************************************************)
(* The live market stream of one contract (crates/rara-market-data/src/    *)
(* stream): the socket with its reconnects (binance_ws.rs, reconnect.rs),  *)
(* the kline channel, the task of run_live_trading that aggregates (src/   *)
(* daemon.rs, aggregator.rs), the candle channel and the persister         *)
(* (persister.rs) that writes to the store (store/candle.rs).              *)
(*                                                                         *)
(* A kline is the minute it opens at; a candle is its bucket with the      *)
(* klines it was made of, in order, which is all its prices depend on.     *)
(***************************************************************************)
EXTENDS Integers, Sequences, FiniteSets

CONSTANTS
  Hour,          \* minutes of the hour that buckets are aligned to (60)
  Intervals,     \* target intervals, in minutes (5, 15, 60)
  InitialDelay, MaxDelay, Multiplier,   \* ReconnectConfig
  KlineCapacity, CandleCapacity,        \* of the channels (1024, 256)
  WireCapacity,  \* bound: messages under way on the socket
  MaxClock,      \* bound: minutes that pass
  MaxFailures    \* bound: consecutive failures

ASSUME StreamAssumption ==
  /\ Hour \in Nat \ {0} /\ Intervals \subseteq 1 .. Hour
  /\ \A n \in Intervals : Hour % n = 0
  /\ InitialDelay \in Nat \ {0} /\ MaxDelay \in Nat /\ InitialDelay <= MaxDelay
  /\ Multiplier \in Nat \ {0}
  /\ KlineCapacity \in Nat \ {0} /\ CandleCapacity \in Nat \ {0}
  /\ WireCapacity \in Nat /\ MaxClock \in Nat /\ MaxFailures \in Nat

VARIABLES
  clock,    \* the minute in progress at the exchange
  wire,     \* messages of the exchange under way on the socket
  ws,       \* ReconnectingWsClient::run: where it stands, its delay and failures
  klines,   \* the kline channel: unread klines, whether some were dropped
  buffers,  \* CandleAggregator.buffers: the partial candle of each interval
  candles,  \* all candles emitted; the channel holds those from unread on
  unread,   \* the next candle for the persister
  rows,     \* the stored candles
  lost      \* history: minutes whose kline no candle will hold

marketVars == <<clock, wire, ws, klines, buffers, candles, unread, rows, lost>>

NoPartial    == [open |-> 0, minutes |-> <<>>]
Disconnected == [at |-> "connecting", delay |-> InitialDelay, failures |-> 0]
EmptyChannel == [queue |-> <<>>, lagged |-> FALSE]

MarketInit ==
  /\ clock = 0 /\ wire = <<>> /\ ws = Disconnected /\ klines = EmptyChannel
  /\ buffers = [n \in Intervals |-> NoPartial]
  /\ candles = <<>> /\ unread = 1 /\ rows = {} /\ lost = {}

Minutes(messages) ==
  {messages[i].minute : i \in {i \in DOMAIN messages : messages[i].closed}}

Kline(minute, closed) == [minute |-> minute, closed |-> closed]

-----------------------------------------------------------------------------
(***************************************************************************)
(* The exchange, external: it sends the closed kline of a minute when the  *)
(* minute is over, and updates of it before, to whoever is connected.      *)
(***************************************************************************)
MinuteEnds ==
  /\ clock < MaxClock /\ Len(wire) < WireCapacity
  /\ clock' = clock + 1
  /\ IF ws.at = "streaming"
     THEN wire' = Append(wire, Kline(clock, TRUE)) /\ UNCHANGED lost
     ELSE lost' = lost \cup {clock} /\ UNCHANGED wire
  /\ UNCHANGED <<ws, klines, buffers, candles, unread, rows>>

KlineUpdate ==
  /\ clock < MaxClock /\ Len(wire) < WireCapacity
  /\ ws.at = "streaming"
  /\ wire' = Append(wire, Kline(clock, FALSE))
  /\ UNCHANGED <<clock, ws, klines, buffers, candles, unread, rows, lost>>

-----------------------------------------------------------------------------
(***************************************************************************)
(* ReconnectingWsClient::run.                                              *)
(***************************************************************************)
NextBackoff(delay) == IF delay * Multiplier < MaxDelay THEN delay * Multiplier ELSE MaxDelay

Connected ==
  /\ ws.at = "connecting"
  /\ ws' = [Disconnected EXCEPT !.at = "streaming"]
  /\ UNCHANGED <<clock, wire, klines, buffers, candles, unread, rows, lost>>

ConnectFails ==
  /\ ws.at = "connecting" /\ ws.failures < MaxFailures
  /\ ws' = [ws EXCEPT !.at = "waiting", !.failures = @ + 1]
  /\ UNCHANGED <<clock, wire, klines, buffers, candles, unread, rows, lost>>

\* The server closes, the connection fails or a message does not parse: what is
\* under way is lost with the socket.
StreamBreaks ==
  /\ ws.at = "streaming"
  /\ ws' = [ws EXCEPT !.at = "waiting", !.failures = @ + 1]
  /\ wire' = <<>>
  /\ lost' = lost \cup Minutes(wire)
  /\ UNCHANGED <<clock, klines, buffers, candles, unread, rows>>

\* Deviation: a client that failed to connect does not try again.
ReconnectOnce ==
  /\ ws.at = "waiting" /\ ws.failures <= 1
  /\ ws' = [ws EXCEPT !.at = "connecting", !.delay = NextBackoff(@)]
  /\ UNCHANGED <<clock, wire, klines, buffers, candles, unread, rows, lost>>

\* sleep(delay) is over.
Reconnect ==
  /\ ws.at = "waiting"
  /\ ws' = [ws EXCEPT !.at = "connecting", !.delay = NextBackoff(@)]
  /\ UNCHANGED <<clock, wire, klines, buffers, candles, unread, rows, lost>>

\* A message is sent on; a full channel drops its oldest.
Forward ==
  /\ ws.at = "streaming" /\ wire # <<>>
  /\ wire' = Tail(wire)
  /\ LET q    == Append(klines.queue, Head(wire))
         full == Len(q) > KlineCapacity
     IN  /\ klines' = [queue |-> IF full THEN Tail(q) ELSE q, lagged |-> klines.lagged \/ full]
         /\ lost' = lost \cup IF full THEN Minutes(<<Head(q)>>) ELSE {}
  /\ UNCHANGED <<clock, ws, buffers, candles, unread, rows>>

-----------------------------------------------------------------------------
(***************************************************************************)
(* CandleAggregator::process_kline, for each interval.                     *)
(***************************************************************************)
AlignTimestamp(m, n) == (m - (m % Hour)) + ((m % Hour) \div n) * n

SameBucket(p, m, n) == p.minutes # <<>> /\ p.open = AlignTimestamp(m, n)

\* Deviation: a bucket is complete one kline early.
CompleteEarly(p, n) == Len(p.minutes) + 1 >= n

Complete(p, n) == Len(p.minutes) >= n

\* The partial candle after kline m, before a complete one is taken out.
Absorb(p, m, n) ==
  IF SameBucket(p, m, n)
  THEN [p EXCEPT !.minutes = Append(@, m)]
  ELSE [open |-> AlignTimestamp(m, n), minutes |-> <<m>>]

\* A bucket is checked for completeness only when it is updated, not when it
\* starts.
Done(p, m, n) == SameBucket(p, m, n) /\ Complete(Absorb(p, m, n), n)

\* Deviation: a partial candle that its successor pushes out is dropped.
EmitComplete(p, m, n) == IF Done(p, m, n) THEN {Absorb(p, m, n)} ELSE {}

Emit(p, m, n) ==
  IF Done(p, m, n) THEN {Absorb(p, m, n)}
  ELSE IF p.minutes # <<>> /\ ~SameBucket(p, m, n) THEN {p} ELSE {}

\* Deviation: a complete candle stays in the buffer.
AfterKept(p, m, n) == Absorb(p, m, n)

After(p, m, n) == IF Done(p, m, n) THEN NoPartial ELSE Absorb(p, m, n)

\* The candles of all intervals; their order among the intervals is that of the
\* configuration and is left open.
Emitted(m) ==
  UNION {{[interval |-> n, open |-> p.open, minutes |-> p.minutes] :
            p \in Emit(buffers[n], m, n)} : n \in Intervals}

Orders(S) == {s \in [1 .. Cardinality(S) -> S] : \A x \in S : \E i \in DOMAIN s : s[i] = x}

ProcessKline ==
  /\ ~klines.lagged /\ klines.queue # <<>>
  /\ klines' = [klines EXCEPT !.queue = Tail(@)]
  /\ LET m == Head(klines.queue).minute
     IN  IF ~Head(klines.queue).closed
         THEN UNCHANGED <<buffers, candles>>
         ELSE /\ \E s \in Orders(Emitted(m)) : candles' = candles \o s
              /\ buffers' = [n \in Intervals |-> After(buffers[n], m, n)]
  /\ UNCHANGED <<clock, wire, ws, unread, rows, lost>>

AggregatorLagged ==
  /\ klines.lagged
  /\ klines' = [klines EXCEPT !.lagged = FALSE]
  /\ UNCHANGED <<clock, wire, ws, buffers, candles, unread, rows, lost>>

-----------------------------------------------------------------------------
(***************************************************************************)
(* run_candle_persister, insert_candles with ON CONFLICT DO NOTHING.       *)
(***************************************************************************)
PersisterLags == Len(candles) + 1 - unread > CandleCapacity

InsertCandle(c) ==
  IF \E r \in rows : r.interval = c.interval /\ r.open = c.open
  THEN UNCHANGED rows
  ELSE rows' = rows \cup {c}

\* An error of the store is logged, and the candle is gone.
Persist ==
  /\ unread <= Len(candles) /\ ~PersisterLags
  /\ unread' = unread + 1
  /\ InsertCandle(candles[unread]) \/ UNCHANGED rows
  /\ UNCHANGED <<clock, wire, ws, klines, buffers, candles, lost>>

PersisterLagged ==
  /\ PersisterLags
  /\ unread' = Len(candles) + 1 - CandleCapacity
  /\ UNCHANGED <<clock, wire, ws, klines, buffers, candles, rows, lost>>

-----------------------------------------------------------------------------
\* The daemon ends and starts again, with the store as it was.
Restart ==
  /\ ws' = Disconnected /\ wire' = <<>> /\ klines' = EmptyChannel
  /\ buffers' = [n \in Intervals |-> NoPartial]
  /\ unread' = Len(candles) + 1
  /\ lost' = lost \cup Minutes(wire) \cup Minutes(klines.queue)
                  \cup UNION {{buffers[n].minutes[i] : i \in DOMAIN buffers[n].minutes} :
                                n \in Intervals}
  /\ UNCHANGED <<clock, candles, rows>>

MarketNext ==
  \/ MinuteEnds \/ KlineUpdate
  \/ Connected \/ ConnectFails \/ StreamBreaks \/ Reconnect \/ Forward
  \/ ProcessKline \/ AggregatorLagged \/ Persist \/ PersisterLagged \/ Restart

MarketSpec == MarketInit /\ [][MarketNext]_marketVars

\* The runtime polls the tasks; an exchange that is asked again and again lets
\* the client in at last.
FairMarketSpec ==
  /\ MarketSpec
  /\ WF_marketVars(Reconnect) /\ SF_marketVars(Connected)
  /\ WF_marketVars(Forward) /\ WF_marketVars(ProcessKline \/ AggregatorLagged)

-----------------------------------------------------------------------------
(***************************************************************************)
(* Properties.                                                             *)
(***************************************************************************)
\* Types: the partial candles hold klines that closed, the channels their bounds.
MarketTypeOK ==
  /\ ws.at \in {"connecting", "streaming", "waiting"} /\ ws.failures \in 0 .. MaxFailures + 1
  /\ Len(klines.queue) <= KlineCapacity /\ unread \in 1 .. Len(candles) + 1
  /\ lost \subseteq 0 .. clock - 1
  /\ \A n \in Intervals : \A i \in DOMAIN buffers[n].minutes :
       buffers[n].minutes[i] \in 0 .. clock - 1

Bucket(open, n) == open .. open + n - 1

Held(s) == {s[i] : i \in DOMAIN s}

\* Every candle holds klines of its own bucket, each once and in order, and
\* lacks one only if its kline was lost: while the socket was down, in a lag or
\* in a restart.  A full bucket is never called complete early.
CandlesTruthful ==
  \A i \in DOMAIN candles :
    LET c == candles[i]
    IN  /\ \A j, k \in DOMAIN c.minutes : j < k => c.minutes[j] < c.minutes[k]
        /\ Held(c.minutes) \subseteq Bucket(c.open, c.interval)
        /\ Bucket(c.open, c.interval) \ Held(c.minutes) \subseteq lost

\* No bucket is emitted twice, and those of an interval come in order, across
\* lags, reconnects and restarts: the strategies see each bucket once, and a
\* stored row is the only candle of its bucket.
EachBucketOnce ==
  /\ \A i, j \in DOMAIN candles :
       i < j /\ candles[i].interval = candles[j].interval => candles[i].open < candles[j].open
  /\ rows \subseteq {candles[i] : i \in DOMAIN candles}

\* A minute that closed is under way, in a partial candle, in a candle or lost:
\* for no interval does one vanish silently.
NoMinuteVanishes ==
  \A n \in Intervals :
    0 .. clock - 1 =
      lost \cup Minutes(wire) \cup Minutes(klines.queue) \cup Held(buffers[n].minutes)
        \cup UNION {Held(candles[i].minutes) :
                      i \in {i \in DOMAIN candles : candles[i].interval = n}}

\* However often it fails, the client is streaming again in the end.
StreamResumes == []<>(ws.at = "streaming")
=============================================================================
