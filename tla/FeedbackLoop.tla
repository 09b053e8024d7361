---------------------------- MODULE FeedbackLoop ----------------------------
(***************************************************************************)
(* The feedback loop of crates/rara-feedback (feedback_loop.rs) with its   *)
(* evaluator (evaluator.rs): a tick polls the consumer, judges every       *)
(* strategy with enough new trades, and publishes each decision before it  *)
(* remembers that it was taken.                                            *)
(*                                                                         *)
(* The loop is a publisher of the bus it consumes: its decision events     *)
(* draw from the sequence numbers in which the consumer counts.            *)
(***************************************************************************)
EXTENDS FeedbackConsumer

CONSTANTS
  feedback_loop,        \* the publisher that the loop is
  DecisionEvent,        \* DecisionEvent[st, d]: the event of decision d about st
  MinNewTrades,         \* min_trades_between_evals
  MinTrades,            \* min_trades of the evaluator
  MaxDrawdownPercent,   \* max_drawdown_for_retirement of the configuration
  MaxOthers             \* bound: the others publish under the numbers below it

Decisions == {"Promote", "Hold", "Retire"}

\* evaluate is called without sentinel, so that it never answers Demote.  Nothing
\* else publishes decisions: the daemon does not start FeedbackBridge.
ASSUME LoopAssumption ==
  /\ feedback_loop \in Publishers
  /\ DecisionEvent \in [Owners \X Decisions -> Events \ Fills]
  /\ \A x, y \in Owners \X Decisions : DecisionEvent[x] = DecisionEvent[y] => x = y
  /\ \A x \in Owners \X Decisions : Topic[DecisionEvent[x]] = "feedback"
  /\ Writes[feedback_loop] = {DecisionEvent[x] : x \in Owners \X Decisions}
  /\ \A p \in Publishers \ {feedback_loop} : Writes[p] \cap Writes[feedback_loop] = {}
  /\ MinNewTrades \in Nat \ {0} /\ MinTrades \in Nat /\ MaxDrawdownPercent \in Nat
  /\ MaxOthers \in Nat

VARIABLES
  tick,     \* where the tick stands, and the strategies it still has to judge
  judged,   \* last_eval_trades: trade count at the last published decision
  born      \* history: the id counter when this process started

loopVars == <<vars, tick, judged, born>>

Waiting == [at |-> "waiting", todo |-> {}]

LoopInit ==
  /\ Init
  /\ tick = Waiting
  /\ judged = [st \in Owners |-> 0]
  /\ born = 0

-----------------------------------------------------------------------------
(***************************************************************************)
(* StrategyEvaluator::evaluate.  The accumulator here has no Sharpe ratio: *)
(* whether it reaches the threshold is left open.                          *)
(***************************************************************************)
\* The configured percentage as a fraction, against an amount of money.
Excessive(a) == 100 * a.max_drawdown > MaxDrawdownPercent

Evaluate(a, d) ==
  \/ d = "Hold" /\ a.trade_count < MinTrades
  \/ /\ a.trade_count >= MinTrades
     /\ \/ d = "Retire" /\ Excessive(a)
        \/ d = "Promote" /\ ~Excessive(a) /\ 2 * a.winning_trades > a.trade_count
        \/ d = "Hold" /\ ~Excessive(a)

-----------------------------------------------------------------------------
(***************************************************************************)
(* evaluate_tick.                                                          *)
(***************************************************************************)
TickStart ==
  /\ tick.at = "waiting"
  /\ PollStart
  /\ tick' = [tick EXCEPT !.at = "polling"]
  /\ UNCHANGED <<judged, born>>

TickScan ==
  /\ PollScan
  /\ UNCHANGED <<tick, judged, born>>

\* Every strategy that has an accumulator comes up, in no order.
TickPolled ==
  /\ PollEmpty \/ PollCommit
  /\ tick' = [at |-> "judging", todo |-> {st \in Owners : acc'[st].trade_count > 0}]
  /\ UNCHANGED <<judged, born>>

TickPollFails ==
  /\ PollFails \/ PollCommitFails
  /\ tick' = Waiting
  /\ UNCHANGED <<judged, born>>

\* Deviation: all trades are new.
AllTrades(st) == acc[st].trade_count

NewTrades(st) == acc[st].trade_count - judged[st]

Judging(st) ==
  /\ tick.at = "judging"
  /\ pub[feedback_loop] = Idle
  /\ st \in tick.todo

\* Deviation: the first strategy without enough new trades ends the tick.
SkipEndsTick(st) ==
  /\ Judging(st)
  /\ NewTrades(st) < MinNewTrades
  /\ tick' = Waiting
  /\ UNCHANGED <<vars, judged, born>>

SkipStrategy(st) ==
  /\ Judging(st)
  /\ NewTrades(st) < MinNewTrades
  /\ tick' = [tick EXCEPT !.todo = @ \ {st}]
  /\ UNCHANGED <<vars, judged, born>>

\* publish_decision_event begins; the steps of the publish follow.
Judge(st) ==
  /\ Judging(st)
  /\ NewTrades(st) >= MinNewTrades
  /\ \E d \in Decisions : Evaluate(acc[st], d) /\ AllocateId(feedback_loop, DecisionEvent[st, d])
  /\ UNCHANGED <<consVars, tick, judged, born>>

\* The id generator fails: the tick ends.
JudgeFails(st) ==
  /\ "publish" \in Faults
  /\ Judging(st)
  /\ NewTrades(st) >= MinNewTrades
  /\ tick' = Waiting
  /\ UNCHANGED <<vars, judged, born>>

\* At the bound on the numbers it always fails.
JudgeAtBound(st) ==
  /\ Judging(st)
  /\ NewTrades(st) >= MinNewTrades
  /\ nextId = MaxSeq
  /\ tick' = Waiting
  /\ UNCHANGED <<vars, judged, born>>

DecisionStored ==
  /\ InsertEvent(feedback_loop) \/ InsertTopicKey(feedback_loop)
  /\ UNCHANGED <<consVars, tick, judged, born>>

\* Deviation: the trades are marked as judged when the decision is taken.
DecisionFailsButJudged ==
  /\ PublishFails(feedback_loop)
  /\ judged' = [st \in Owners |->
                  IF \E d \in Decisions : pub[feedback_loop].event = DecisionEvent[st, d]
                  THEN acc[st].trade_count ELSE judged[st]]
  /\ tick' = Waiting
  /\ UNCHANGED <<consVars, born>>

\* The error of a publish ends the tick: the strategies left in todo are not
\* judged, and this one is not remembered as judged.
DecisionFails ==
  /\ PublishFails(feedback_loop)
  /\ tick' = Waiting
  /\ UNCHANGED <<consVars, judged, born>>

DecisionPublished ==
  /\ Notify(feedback_loop)
  /\ \E st \in tick.todo, d \in Decisions :
       /\ pub[feedback_loop].event = DecisionEvent[st, d]
       /\ judged' = [judged EXCEPT ![st] = acc[st].trade_count]
       /\ tick' = [tick EXCEPT !.todo = @ \ {st}]
  /\ UNCHANGED <<consVars, born>>

TickEnd ==
  /\ tick.at = "judging" /\ tick.todo = {}
  /\ tick' = Waiting
  /\ UNCHANGED <<vars, judged, born>>

\* A new process: run_feedback_loop starts with an empty last_eval_trades.
LoopRestart ==
  /\ Restart
  /\ tick' = Waiting
  /\ judged' = [st \in Owners |-> 0]
  /\ born' = nextId'

-----------------------------------------------------------------------------
\* `feedback report --strategy st': the newest `limit' decisions about it, as the
\* numbers of their events.
Report(st, limit) ==
  LET about == {n \in Indexed("feedback", 0) :
                  \E d \in Decisions : events[n] = DecisionEvent[st, d]}
  IN {n \in about : Cardinality({m \in about : m > n}) < limit}

-----------------------------------------------------------------------------
Others ==
  /\ \/ \E p \in Publishers \ {feedback_loop} :
          PublishStep(p) /\ (pub[p].at = "idle" => nextId < MaxOthers)
     \/ Flush
  /\ UNCHANGED <<consVars, tick, judged, born>>

Tick ==
  \/ TickStart \/ TickScan \/ TickPolled
  \/ \E st \in Owners : SkipStrategy(st) \/ Judge(st) \/ JudgeAtBound(st)
  \/ DecisionStored \/ DecisionPublished
  \/ TickEnd

TickFails == TickPollFails \/ DecisionFails \/ \E st \in Owners : JudgeFails(st)

LoopNext == Tick \/ TickFails \/ Others \/ LoopRestart

LoopSpec == LoopInit /\ [][LoopNext]_loopVars

\* The interval ticks for ever, whatever the last tick returned.
FairLoopSpec == LoopSpec /\ WF_loopVars(Tick)

-----------------------------------------------------------------------------
(***************************************************************************)
(* Properties.                                                             *)
(***************************************************************************)
\* Types: only a tick that judges has strategies to judge, and none was judged
\* at more trades than it has.
LoopTypeOK ==
  /\ ConsTypeOK
  /\ tick.at \in {"waiting", "polling", "judging"} /\ tick.todo \subseteq Owners
  /\ tick.at # "judging" => tick.todo = {}
  /\ (tick.at = "polling") <=> (cons.at = "scanning")
  /\ \A st \in Owners : judged[st] \in 0 .. acc[st].trade_count
  /\ born \in 0 .. nextId

\* The decisions about st that this process has in the index.
DecidedAt(st, d) == {n \in Seqs : n >= born /\ events[n] = DecisionEvent[st, d]
                                   /\ \E t \in Topics : n \in topics[t]}
Decided(st) == UNION {DecidedAt(st, d) : d \in Decisions}

\* A strategy is judged again only after min_trades_between_evals more trades
\* were counted, although a decision is remembered only once it is published
\* and publishes fail.
JudgedOnNewTrades ==
  \A st \in Owners : Cardinality(Decided(st)) * MinNewTrades <= acc[st].trade_count

\* A published decision is remembered and an unpublished one is not: what the
\* loop takes as judged has a decision of this process on top of its report, and
\* the other way round except while the publish of that decision returns.
RememberedIsPublished ==
  \A st \in Owners :
    /\ judged[st] > 0 => Report(st, 1) # {} /\ Report(st, 1) \subseteq Decided(st)
    /\ Decided(st) # {} => \/ judged[st] > 0
                           \/ \E d \in Decisions :
                                pub[feedback_loop].event = DecisionEvent[st, d]

\* Every strategy with enough new trades is judged at last, those beside a skipped
\* one and the fills without a name too.
EveryStrategyJudged ==
  \A st \in Owners : NewTrades(st) >= MinNewTrades ~> NewTrades(st) < MinNewTrades

-----------------------------------------------------------------------------
(***************************************************************************)
(* What the configuration says and the code does not do.                   *)
(***************************************************************************)
\* app_config.rs:104: the limit is a percentage, so that a strategy retires when
\* it gave back that much of what it had earned.
RetiredForPercentage ==
  \A st \in Owners : \A d \in Decisions :
    pub[feedback_loop].event = DecisionEvent[st, d] /\ d = "Retire" =>
      100 * acc[st].max_drawdown > MaxDrawdownPercent * acc[st].peak_equity
=============================================================================
