------------------------------ MODULE History ------------------------------
(***************************************************************************)
(* The stored history: the fetchers of crates/rara-market-data/src/fetcher *)
(* (binance.rs, yahoo.rs), the table they fill (store/candle.rs), and the  *)
(* commands that start them: `data fetch` (src/main.rs), one download, and *)
(* `setup data` or the wizard (src/setup_wizard.rs), one download for each *)
(* symbol in parallel.                                                     *)
(*                                                                         *)
(* A download reads the bounds of what is stored, then fetches page after  *)
(* page and inserts each.  Several run at once, in processes of their own, *)
(* and any of them may fail or be killed between two steps.  Time is       *)
(* counted in candles: minutes, of which a day has DayLength.              *)
(***************************************************************************)
EXTENDS Integers, Sequences, FiniteSets, FiniteSetsExt, Functions

CONSTANTS
  Processes,    \* those that run `data fetch'
  Symbols, SourceOf,   \* "binance" or "yahoo"
  Setup,        \* Setup[s]: the task of `setup data' and the wizard for symbol s
  DayLength,    \* minutes of a day (1440)
  Listed,       \* the first minute the exchange has
  Quiet,        \* minutes for which it has no candle
  PageLimit,    \* candles of a page (1000)
  RecentDays,   \* Yahoo serves minutes of so many days back (7)
  LastDay,      \* bound: the day in progress at the end
  MaxStarts     \* bound: downloads ever started

Tasks     == {Setup[s] : s \in Symbols}
Downloads == Processes \cup Tasks

ASSUME HistoryAssumption ==
  /\ DayLength \in Nat \ {0} /\ PageLimit \in Nat \ {0} /\ RecentDays \in Nat
  /\ Listed \in Nat /\ Quiet \subseteq Nat /\ LastDay \in Nat /\ MaxStarts \in Nat
  /\ SourceOf \in [Symbols -> {"binance", "yahoo"}] /\ DOMAIN Setup = Symbols /\ Processes \cap Tasks = {}

VARIABLES
  now,        \* the minute in progress
  table,      \* table[s]: the candles stored of s: interval, ts, whether cut short
  download,   \* download[d]: where it stands
  starts,     \* downloads started
  unfinished  \* history: minutes that failed downloads had left, that came after a
              \* download which was not alone, that follow the last candle of a
              \* page, or that lie between what two downloads fetch that both found
              \* the table empty

historyVars == <<now, table, download, starts, unfinished>>

None == -1
NoDownload == [at |-> "idle", symbol |-> CHOOSE s \in Symbols : TRUE, start |-> 0, end |-> 0,
               min |-> None, interval |-> "1m", ranges |-> <<>>, page |-> {}]

HistoryInit ==
  /\ now = 0 /\ starts = 0 /\ unfinished = {}
  /\ table = [s \in Symbols |-> {}]
  /\ download = [d \in Downloads |-> NoDownload]

\* min_ts and max_ts of store/candle.rs.
Stamps(s, interval) == {r.ts : r \in {r \in table[s] : r.interval = interval}}
MinTs(s, interval)  == IF Stamps(s, interval) = {} THEN None ELSE Min(Stamps(s, interval))
MaxTs(s, interval)  == IF Stamps(s, interval) = {} THEN None ELSE Max(Stamps(s, interval))

\* insert_candles: ON CONFLICT DO NOTHING.
InsertCandles(s, page) ==
  table' = [table EXCEPT ![s] = @ \cup
            {c \in page : \A r \in @ : r.interval # c.interval \/ r.ts # c.ts}]

\* query_candles: what a backtest of the days is fed.
QueryCandles(s, interval, from, to) == {ts \in Stamps(s, interval) : ts \in from .. to}

\* get_coverage: what `data info` and the wizard show as covered.
Coverage(s) == MinTs(s, "1m") .. MaxTs(s, "1m")

Step(d, new) == download' = [download EXCEPT ![d] = new]

MinutesOf(s, ranges) == UNION {{<<s, m>> : m \in r.from .. r.to} : r \in ranges}

\* The minutes that a download of Binance has still to fetch.
Rest(d) ==
  IF SourceOf[download[d].symbol] = "binance"
  THEN MinutesOf(download[d].symbol, Range(download[d].ranges)) ELSE {}

-----------------------------------------------------------------------------
(***************************************************************************)
(* The exchange, external.                                                 *)
(***************************************************************************)
Tick == /\ now < (LastDay + 1) * DayLength - 1
        /\ now' = now + 1
        /\ UNCHANGED <<table, download, starts, unfinished>>

HasCandle(m) == m >= Listed /\ m <= now /\ m \notin Quiet

Candle(ts, interval, length) ==
  [interval |-> interval, ts |-> ts, cut |-> now < ts + length]

\* A page of klines: the oldest of the range, the one in progress among them.
FetchPage(from, to) ==
  LET available == {m \in from .. to : HasCandle(m)}
  IN  {Candle(m, "1m", 1) :
         m \in {m \in available : Cardinality({k \in available : k < m}) < PageLimit}}

-----------------------------------------------------------------------------
(***************************************************************************)
(* The commands.                                                           *)
(***************************************************************************)
StartOf(day) == day * DayLength
EndOf(day)   == StartOf(day + 1) - 1

Begin(s, start, end) ==
  [NoDownload EXCEPT !.at = "begun", !.symbol = s, !.start = start, !.end = end]

DataFetch(d, s, start, end) ==
  /\ download[d].at = "idle" /\ starts < MaxStarts
  /\ Step(d, Begin(s, start, end))
  /\ starts' = starts + 1
  /\ UNCHANGED <<now, table, unfinished>>

Today == now \div DayLength

\* earliest_available: the first candle since the epoch; "none" if it fails.
EarliestAvailable == {Listed \div DayLength, None}

\* detect_start_date, with the date that stands in for it; Yahoo is not asked.
DetectStartDate(s) ==
  IF SourceOf[s] = "binance"
  THEN {IF day = None THEN 0 ELSE day : day \in EarliestAvailable}
  ELSE {0}

\* download_symbols_parallel: one task for each symbol, all from one source.  A start
\* that is not given is detected, an end that is not given is today.
DownloadSymbolsParallel(symbols, start, end) ==
  /\ \A s, r \in symbols : SourceOf[s] = SourceOf[r]
  /\ \A s \in symbols : download[Setup[s]].at = "idle"
  /\ starts < MaxStarts
  /\ starts' = starts + 1
  /\ \E from \in [symbols -> 0 .. LastDay] :
       /\ \A s \in symbols :
            from[s] \in IF start = None THEN DetectStartDate(s) ELSE {start}
       /\ download' = [d \in Downloads |->
            IF \E s \in symbols : Setup[s] = d
            THEN LET s == CHOOSE s \in symbols : Setup[s] = d
                 IN  Begin(s, from[s], IF end = None THEN Today ELSE end)
            ELSE download[d]]
  /\ UNCHANGED <<now, table, unfinished>>

\* The wizard detects the range, or asks for both of its ends.
StepMarketData(symbols) ==
  \/ DownloadSymbolsParallel(symbols, None, None)
  \/ \E start, end \in 0 .. LastDay : DownloadSymbolsParallel(symbols, start, end)

\* `setup data' takes either end.
SetupData(symbols) ==
  \E start, end \in 0 .. LastDay \cup {None} : DownloadSymbolsParallel(symbols, start, end)

-----------------------------------------------------------------------------
(***************************************************************************)
(* BinanceFetcher::fetch_core and fetch_range.                             *)
(***************************************************************************)
Binance(d) == SourceOf[download[d].symbol] = "binance"

ReadMinTs(d) ==
  /\ download[d].at = "begun" /\ Binance(d)
  /\ Step(d, [download[d] EXCEPT !.at = "bounds", !.min = MinTs(download[d].symbol, "1m")])
  /\ UNCHANGED <<now, table, starts, unfinished>>

\* The head gap before the oldest candle and the tail gap after the newest.
Gaps(start, end, min, max) ==
  (IF min # None /\ start < min THEN <<[from |-> start, to |-> min - 1]>> ELSE <<>>)
    \o <<[from |-> IF max = None THEN start ELSE max + 1, to |-> end]>>

\* Two downloads that find nothing stored fetch their own ranges, and neither fetches
\* what lies between the two.
Between(s, r, q) ==
  {<<s, m>> : m \in (r.to + 1 .. q.from - 1) \cup (q.to + 1 .. r.from - 1)}

Apart(d, ranges) ==
  UNION {UNION {Between(download[d].symbol, r, q) : r \in Range(ranges), q \in Range(download[e].ranges)} :
           e \in {e \in Downloads \ {d} : download[e].symbol = download[d].symbol}}

ReadMaxTs(d) ==
  /\ download[d].at = "bounds"
  /\ LET j      == download[d]
         max    == MaxTs(j.symbol, "1m")
         ranges == Gaps(StartOf(j.start), EndOf(j.end), j.min, max)
     IN  /\ Step(d, [j EXCEPT !.at = "fetch", !.ranges = ranges])
         /\ unfinished' = unfinished \cup IF max = None THEN Apart(d, ranges) ELSE {}
  /\ UNCHANGED <<now, table, starts>>

\* What of a range lies in the future is left to the next download, which resumes
\* there, but not to one that has read the bounds already.
Overlapped(d) ==
  \E e \in Downloads \ {d} : download[e].at # "idle" /\ download[e].symbol = download[d].symbol

ToCome(d, range) ==
  IF Overlapped(d) THEN {sm \in MinutesOf(download[d].symbol, {range}) : sm[2] > now} ELSE {}

\* fetch_page; an empty page ends the range.
Fetch(d) ==
  /\ download[d].at = "fetch" /\ Binance(d) /\ download[d].ranges # <<>>
  /\ LET range == Head(download[d].ranges)
         page  == FetchPage(range.from, range.to)
     IN  IF page = {}
         THEN /\ Step(d, [download[d] EXCEPT !.ranges = Tail(@)])
              /\ unfinished' = unfinished \cup ToCome(d, range)
         ELSE /\ Step(d, [download[d] EXCEPT !.at = "store", !.page = page])
              /\ unfinished' = unfinished
  /\ UNCHANGED <<now, table, starts>>

\* Deviation: the cursor stays on the last candle.
CursorAt(page) == Max({c.ts : c \in page})

\* Deviation: the cursor leaves out two minutes.
CursorTooFar(page) == Max({c.ts : c \in page}) + 3

\* A millisecond past the open time of the next minute, so the next page begins with
\* the minute after that.
CursorAfter(page) == Max({c.ts : c \in page}) + 2

\* The minute that the cursor passes over, unless the page ends the range.
PassedOver(d) ==
  LET j == download[d]
  IN  {<<j.symbol, m>> : m \in {Max({c.ts : c \in j.page}) + 1} \cap (Head(j.ranges).from .. Head(j.ranges).to)}

Store(d) ==
  /\ download[d].at = "store" /\ Binance(d)
  /\ InsertCandles(download[d].symbol, download[d].page)
  /\ Step(d, [download[d] EXCEPT !.at = "fetch", !.page = {},
                !.ranges[1].from = CursorAfter(download[d].page)])
  /\ unfinished' = unfinished \cup PassedOver(d)
  /\ UNCHANGED <<now, starts>>

FetchReturns(d) ==
  /\ download[d].at = "fetch" /\ Binance(d) /\ download[d].ranges = <<>>
  /\ Step(d, NoDownload)
  /\ UNCHANGED <<now, table, starts, unfinished>>

-----------------------------------------------------------------------------
(***************************************************************************)
(* YahooFetcher::fetch_and_store: one request, resumed after the last      *)
(* candle of the interval that the age of the range selects.               *)
(***************************************************************************)
Length(interval) == IF interval = "1m" THEN 1 ELSE DayLength

YahooInterval(j) ==
  IF Today - j.start <= RecentDays /\ j.end - j.start + 1 <= RecentDays THEN "1m" ELSE "1d"

YahooPage(from, to, interval) ==
  {Candle(m, interval, Length(interval)) :
     m \in {m \in from .. to : HasCandle(m) /\ m % Length(interval) = 0}}

YahooResume(d) ==
  /\ download[d].at = "begun" /\ ~Binance(d)
  /\ LET j        == download[d]
         interval == YahooInterval(j)
         max      == MaxTs(j.symbol, interval)
         from     == Max({StartOf(j.start), IF max = None THEN 0 ELSE max + Length(interval)})
     IN  IF from > EndOf(j.end)
         THEN Step(d, NoDownload)
         ELSE Step(d, [j EXCEPT !.at = "fetch", !.interval = interval,
                         !.ranges = <<[from |-> from, to |-> EndOf(j.end)]>>])
  /\ UNCHANGED <<now, table, starts, unfinished>>

YahooFetch(d) ==
  /\ download[d].at = "fetch" /\ ~Binance(d)
  /\ LET range == Head(download[d].ranges)
     IN  Step(d, [download[d] EXCEPT !.at = "store",
                    !.page = YahooPage(range.from, range.to, download[d].interval)])
  /\ UNCHANGED <<now, table, starts, unfinished>>

YahooStore(d) ==
  /\ download[d].at = "store" /\ ~Binance(d)
  /\ InsertCandles(download[d].symbol, download[d].page)
  /\ Step(d, NoDownload)
  /\ UNCHANGED <<now, starts, unfinished>>

-----------------------------------------------------------------------------
\* A request or a query fails, or the process is killed.
Fails(d) ==
  /\ download[d].at # "idle"
  /\ unfinished' = unfinished \cup Rest(d)
  /\ Step(d, NoDownload)
  /\ UNCHANGED <<now, table, starts>>

DownloadStep(d) ==
  \/ ReadMinTs(d) \/ ReadMaxTs(d) \/ Fetch(d) \/ Store(d) \/ FetchReturns(d)
  \/ YahooResume(d) \/ YahooFetch(d) \/ YahooStore(d)

HistoryNext ==
  \/ Tick
  \/ \E symbols \in SUBSET Symbols \ {{}} : StepMarketData(symbols) \/ SetupData(symbols)
  \/ \E d \in Downloads : DownloadStep(d) \/ Fails(d)
  \/ \E d \in Processes, s \in Symbols, start, end \in 0 .. LastDay : DataFetch(d, s, start, end)

HistorySpec == HistoryInit /\ [][HistoryNext]_historyVars

\* The runtime and the operating system let a download go on.
FairHistorySpec == HistorySpec /\ \A d \in Downloads : WF_historyVars(DownloadStep(d))

-----------------------------------------------------------------------------
(***************************************************************************)
(* Properties.                                                             *)
(***************************************************************************)
\* Types: a stored candle is one the exchange has, and a timestamp has one row.
HistoryTypeOK ==
  \A s \in Symbols :
    /\ \A r \in table[s] : HasCandle(r.ts)
    /\ \A r, q \in table[s] : r.interval = q.interval /\ r.ts = q.ts => r = q

\* A minute that the table of a Binance symbol jumps over, within the coverage
\* that `data info` shows, lies in what a download is still to fetch, or has left when
\* it failed, or came after its download was through while another was under way, or
\* lies between what two downloads fetch that both found the table empty, or follows
\* the last candle of a page, where the cursor passes over it (binance.rs:219): no
\* other minute is missed, whatever ranges are asked for, and however downloads
\* interleave.
HolesAreUnfinished ==
  \A s \in {s \in Symbols : SourceOf[s] = "binance" /\ table[s] # {}} :
    \A m \in Coverage(s) :
      \/ ~HasCandle(m) \/ m \in Stamps(s, "1m")
      \/ <<s, m>> \in unfinished \cup UNION {Rest(d) : d \in Downloads}

\* A download ends: the cursor moves on with every page and stops at the present.
EveryDownloadEnds == \A d \in Downloads : download[d].at # "idle" ~> download[d].at = "idle"

-----------------------------------------------------------------------------
\* binance.rs:192: "Fetch and store candles for a contiguous millisecond range."  A
\* download that returns without an error leaves no hole in the range it was asked
\* for, up to the newest candle.
RangeIsFetched ==
  [][\A d \in Downloads : FetchReturns(d) =>
       LET j == download[d]
       IN  \A m \in StartOf(j.start) .. EndOf(j.end) :
             HasCandle(m) /\ m \in Coverage(j.symbol)
               => m \in QueryCandles(j.symbol, "1m", StartOf(j.start), EndOf(j.end))]_historyVars
=============================================================================
