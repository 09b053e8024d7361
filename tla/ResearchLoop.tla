---------------------------- MODULE ResearchLoop ----------------------------
(***************************************************************************)
(* The research loop: one iteration (research_loop.rs) with the strategy   *)
(* manager and its store, and the cycles of iterations that the daemon     *)
(* runs (daemon.rs), which wait for a retrain request on the event bus or  *)
(* for a timeout, or the iterations of one command `research run'          *)
(* (main.rs), which has no receiver and no neighbours.                     *)
(*                                                                         *)
(* The bus is modelled by what this loop sees of it: its receiver and the  *)
(* feedback topic.  EventBus models what happens inside.  The language     *)
(* model and the compiler are external: they answer anything, or fail.     *)
(*                                                                         *)
(* The strategy store has a sled database of its own, modelled by its log  *)
(* like the trace.                                                         *)
(***************************************************************************)
EXTENDS ResearchTrace

CONSTANTS
  MaxCompileRetries,  \* max_compile_retries
  Timeframes,         \* how many timeframes a strategy is tested on
  Iterations,         \* iterations per cycle
  Capacity,           \* of the broadcast channel
  Window,             \* how many feedback events has_pending_retrain_events reads
  MaxForeign,         \* bound: feedback events that others publish
  MaxCrashes          \* bound: crashes of the daemon

ASSUME ResearchAssumption ==
  /\ MaxCompileRetries \in Nat /\ Timeframes \in Nat \ {0}
  /\ Iterations \in Nat \ {0} /\ Capacity \in Nat \ {0} /\ Window \in Nat
  /\ MaxForeign \in Nat /\ MaxCrashes \in Nat

VARIABLES
  saves,        \* the saves into tree "research_strategies", in their order
  kept,         \* external: how many of them a crash cannot take any more
  artifacts,    \* the artifact files: id -> the source they were built from
  feedback,     \* the events of the feedback topic, oldest first
  chan,         \* the unread events of the loop's receiver
  lagged,       \* whether the oldest unread one was overwritten
  cur,          \* the iteration in hand: its step and its locals
  left,         \* the iterations left in this cycle
  used,         \* the UUIDs drawn so far
  driver,       \* who runs the iterations: "daemon" or "command"
  tally,        \* the counters of the command
  crashes       \* history: crashes so far

storeVars == <<saves, kept, artifacts>>
busVars   == <<feedback, chan, lagged>>
runVars   == <<driver, tally>>
vars == <<traceVars, storeVars, busVars, cur, left, used, runVars, crashes>>

\* StrategyStore::get: what was last saved under an id.
Absent == [status |-> "none", source |-> 0]
Saved(id) ==
  LET at == {i \in DOMAIN saves : saves[i].id = id}
  IN IF at = {} THEN Absent
     ELSE LET last == saves[CHOOSE i \in at : \A j \in at : i >= j]
          IN [status |-> last.status, source |-> last.source]

\* StrategyStore::save.
Save(id, status, source) ==
  saves' = Append(saves, [id |-> id, status |-> status, source |-> source])

\* Where a cycle stands: in an iteration at some step, pausing, or waiting.
At(step) == cur.step = step
Start    == [step |-> "propose", id |-> None, source |-> 0, tests |-> 0,
             best |-> None, decision |-> FALSE]
Waiting  == [Start EXCEPT !.step = "waiting"]
Pausing  == [Start EXCEPT !.step = "pausing"]
Returned == [Start EXCEPT !.step = "returned"]

Zero == [accepted |-> 0, rejected |-> 0, errors |-> 0]

\* build_research_loop, for either of them on the databases in the same place.
Drivers == {"daemon", "command"}

ResearchInit ==
  /\ TraceInit
  /\ saves = <<>> /\ kept = 0
  /\ artifacts = [id \in Ids |-> None]
  /\ feedback = <<>> /\ chan = <<>> /\ lagged = FALSE
  /\ cur = Start /\ left = Iterations
  /\ used = {} /\ crashes = 0
  /\ driver \in Drivers /\ tally = Zero

\* EventBus::publish: a full receiver loses its oldest event; the command has none.
IsFeedback(kind) == kind \in {"retrain", "feedback"}

Publish(kind, id) ==
  /\ feedback' = IF IsFeedback(kind) THEN Append(feedback, kind) ELSE feedback
  /\ chan' = IF driver = "command" THEN chan
             ELSE Append(IF Len(chan) = Capacity THEN Tail(chan) ELSE chan,
                         [kind |-> kind, id |-> id])
  /\ lagged' = (lagged \/ Len(chan) = Capacity)

-----------------------------------------------------------------------------
(***************************************************************************)
(* run_iteration.                                                          *)
(***************************************************************************)
\* HypothesisGenerator::generate, then save_hypothesis.  The parent is the
\* hypothesis of what get_best_experiment answers.
Propose(id) ==
  /\ At("propose") /\ id \notin used
  /\ SaveHypothesis(id, BestExperiment)
  /\ cur' = [cur EXCEPT !.step = "announce", !.id = id]
  /\ used' = used \cup {id}
  /\ UNCHANGED <<durable, storeVars, busVars, left, runVars, crashes>>

Announce ==
  /\ At("announce")
  /\ Publish("hypothesis", cur.id)
  /\ cur' = [cur EXCEPT !.step = "code"]
  /\ UNCHANGED <<traceVars, storeVars, left, used, runVars, crashes>>

\* generate_code: source number 0, whatever the language model wrote.
GenerateCode ==
  /\ At("code")
  /\ cur' = [cur EXCEPT !.step = "compile", !.source = 0]
  /\ UNCHANGED <<traceVars, storeVars, busVars, left, used, runVars, crashes>>

\* try_compile: the source that compiles is number cur.source, as many fixes after
\* the generated one.
Compiles ==
  /\ At("compile")
  /\ cur' = [cur EXCEPT !.step = "save"]
  /\ UNCHANGED <<traceVars, storeVars, busVars, left, used, runVars, crashes>>

\* fix_errors: another source, from the one that does not compile.
Fixed(source) == source + 1

\* The source is replaced while there are retries left.
FixErrors ==
  /\ At("compile") /\ cur.source < MaxCompileRetries
  /\ cur' = [cur EXCEPT !.source = Fixed(@)]
  /\ UNCHANGED <<traceVars, storeVars, busVars, left, used, runVars, crashes>>

\* save_strategy: first the record, then the artifact file.
SaveRecord ==
  /\ At("save")
  /\ Save(cur.id, "Compiled", cur.source)
  /\ cur' = [cur EXCEPT !.step = "artifact"]
  /\ UNCHANGED <<traceVars, kept, artifacts, busVars, left, used, runVars, crashes>>

SaveArtifact ==
  /\ At("artifact")
  /\ artifacts' = [artifacts EXCEPT ![cur.id] = cur.source]
  /\ cur' = [cur EXCEPT !.step = "backtest"]
  /\ UNCHANGED <<traceVars, saves, kept, busVars, left, used, runVars, crashes>>

\* run_backtest_single needs the artifact.
CanLoad(id) == artifacts[id] # None

\* A failed timeframe is a warning, a better Sharpe ratio replaces the best.
Better(result, best) == best = None \/ result.sharpe > best.sharpe

Backtest(outcome) ==
  /\ At("backtest") /\ cur.tests < Timeframes /\ CanLoad(cur.id)
  /\ cur' = [cur EXCEPT !.tests = @ + 1,
                        !.best = IF outcome # None /\ Better(outcome, @)
                                 THEN outcome ELSE @]
  /\ UNCHANGED <<traceVars, storeVars, busVars, left, used, runVars, crashes>>

\* The experiment goes in with its result before there is any feedback on it.
SaveTested ==
  /\ At("backtest") /\ cur.tests = Timeframes /\ cur.best # None
  /\ SaveExperiment(cur.id, cur.best)
  /\ cur' = [cur EXCEPT !.step = "feedback"]
  /\ UNCHANGED <<durable, storeVars, busVars, left, used, runVars, crashes>>

\* Deviation: a drawdown does not matter.
AcceptedOnSharpe(result) == result.sharpe > 1

\* Step 11: sharpe > 1.0 and a drawdown below 15 percent.
Accepted(result) == result.sharpe > 1 /\ result.drawdown < 15

\* FeedbackGenerator::generate: the decision is the language model's own and need
\* not agree with the thresholds.
GenerateFeedback(decision) ==
  /\ At("feedback")
  /\ cur' = [cur EXCEPT !.step = "record", !.decision = decision]
  /\ UNCHANGED <<traceVars, storeVars, busVars, left, used, runVars, crashes>>

RecordFeedback ==
  /\ At("record")
  /\ Record(cur.id, cur.best, cur.decision)
  /\ cur' = [cur EXCEPT !.step = "completed"]
  /\ UNCHANGED <<durable, storeVars, busVars, left, used, runVars, crashes>>

\* `research run' counts an iteration, whatever became of it, and goes straight on.
CommandGoesOn(outcome) ==
  /\ tally' = [tally EXCEPT ![outcome] = @ + 1]
  /\ cur' = IF left > 1 THEN Start ELSE Returned

\* run_research_iterations pauses between two of them.
DaemonGoesOn == tally' = tally /\ cur' = IF left > 1 THEN Pausing ELSE Waiting

IterationEnds(outcome) ==
  /\ left' = left - 1 /\ driver' = driver
  /\ IF driver = "daemon" THEN DaemonGoesOn ELSE CommandGoesOn(outcome)

PublishCompleted ==
  /\ At("completed")
  /\ Publish("completed", cur.id)
  /\ IF Accepted(cur.best)
     THEN cur' = [cur EXCEPT !.step = "promote"] /\ UNCHANGED <<left, runVars>>
     ELSE IterationEnds("rejected")
  /\ UNCHANGED <<traceVars, storeVars, used, crashes>>

\* Deviation: the candidate is announced and the status never updated.
UpdateNothing ==
  /\ At("promote") /\ Saved(cur.id) # Absent
  /\ cur' = [cur EXCEPT !.step = "candidate"]
  /\ UNCHANGED <<traceVars, storeVars, busVars, left, used, runVars, crashes>>

\* StrategyStore::update_status reads, changes and saves the record.
UpdateStatus ==
  /\ At("promote") /\ Saved(cur.id) # Absent
  /\ Save(cur.id, "Promoted", Saved(cur.id).source)
  /\ cur' = [cur EXCEPT !.step = "candidate"]
  /\ UNCHANGED <<traceVars, kept, artifacts, busVars, left, used, runVars, crashes>>

PublishCandidate ==
  /\ At("candidate")
  /\ Publish("candidate", cur.id)
  /\ IterationEnds("accepted")
  /\ UNCHANGED <<traceVars, storeVars, used, crashes>>

\* Any call of an iteration may return an error, and the iteration with it; what it
\* wrote stays.  run_research_iterations logs the error and goes on.
Working == cur.step \notin {"waiting", "pausing", "returned"}

IterationFails ==
  /\ Working
  /\ IterationEnds("errors")
  /\ UNCHANGED <<traceVars, storeVars, busVars, used, crashes>>

Iterate ==
  \/ \E id \in Ids : Propose(id)
  \/ Announce \/ GenerateCode \/ Compiles \/ FixErrors \/ SaveRecord \/ SaveArtifact
  \/ \E outcome \in Results \cup {None} : Backtest(outcome)
  \/ SaveTested
  \/ \E decision \in BOOLEAN : GenerateFeedback(decision)
  \/ RecordFeedback \/ PublishCompleted \/ UpdateStatus \/ PublishCandidate
  \/ IterationFails

-----------------------------------------------------------------------------
(***************************************************************************)
(* run_research_loop: the wait between two cycles.                         *)
(***************************************************************************)
NewCycle == cur' = Start /\ left' = Iterations
KeepWaiting == UNCHANGED <<cur, left>>

\* The pause of cycle_delay between two iterations of a cycle.
PauseEnds ==
  /\ At("pausing")
  /\ cur' = Start
  /\ UNCHANGED <<traceVars, storeVars, busVars, left, used, runVars, crashes>>

\* Deviation: what is received only wakes the loop.
ReceiveAny ==
  /\ At("waiting") /\ ~lagged /\ chan # <<>>
  /\ chan' = Tail(chan)
  /\ KeepWaiting
  /\ UNCHANGED <<traceVars, storeVars, feedback, lagged, used, runVars, crashes>>

\* is_retrain_event of the number received.
Receive ==
  /\ At("waiting") /\ ~lagged /\ chan # <<>>
  /\ chan' = Tail(chan)
  /\ IF Head(chan).kind = "retrain" THEN NewCycle ELSE KeepWaiting
  /\ UNCHANGED <<traceVars, storeVars, feedback, lagged, used, runVars, crashes>>

\* has_pending_retrain_events: read_topic("feedback", 0, Window) gives the OLDEST
\* feedback events, whatever the receiver lost.
HasPendingRetrain ==
  \E i \in DOMAIN feedback : i <= Window /\ feedback[i] = "retrain"

\* A receiver that lagged goes on with the oldest event the channel still has.
ReceiveLagged ==
  /\ At("waiting") /\ lagged
  /\ lagged' = FALSE
  /\ IF HasPendingRetrain THEN NewCycle ELSE KeepWaiting
  /\ UNCHANGED <<traceVars, storeVars, feedback, chan, used, runVars, crashes>>

\* Deviation: only a retrain request ends the wait.
NoPeriodicTimeout ==
  /\ At("waiting") /\ chan = <<>> /\ "retrain" \in ToSet(feedback)
  /\ NewCycle
  /\ UNCHANGED <<traceVars, storeVars, busVars, used, runVars, crashes>>

\* The sleep starts anew with every event that is read, so it ends only once the
\* receiver has nothing unread, and never on a bus that is not quiet for cycle_delay.
TimerFires ==
  /\ At("waiting") /\ chan = <<>>
  /\ NewCycle
  /\ UNCHANGED <<traceVars, storeVars, busVars, used, runVars, crashes>>

-----------------------------------------------------------------------------
(***************************************************************************)
(* The rest of the daemon, and its end.                                    *)
(***************************************************************************)
\* The feedback loop publishes its decisions and, on a retirement, a retrain
\* request; the signal loops and the sentinel publish on other topics, without end.
OthersPublish ==
  /\ driver = "daemon"
  /\ \/ Len(feedback) < MaxForeign /\ \E kind \in {"retrain", "feedback"} : Publish(kind, None)
     \/ Publish("other", None)
  /\ UNCHANGED <<traceVars, storeVars, cur, left, used, runVars, crashes>>

\* A crash leaves a prefix of each log.  The flush of sled may come at any moment or
\* not at all, so the prefix may be any that no earlier crash has settled.  The new
\* daemon opens the databases and subscribes anew; the feedback topic is on disk.  A
\* command is run again.
Crash ==
  /\ crashes < MaxCrashes /\ ~At("returned")
  /\ crashes' = crashes + 1
  /\ \E k \in durable .. Len(log) : TraceCut(k)
  /\ \E k \in kept .. Len(saves) : saves' = SubSeq(saves, 1, k) /\ kept' = k
  /\ chan' = <<>> /\ lagged' = FALSE
  /\ cur' = Start /\ left' = Iterations
  /\ tally' = Zero
  /\ UNCHANGED <<artifacts, feedback, used, driver>>

\* The one task of the loop.
Task == Iterate \/ PauseEnds \/ Receive \/ ReceiveLagged \/ TimerFires

ResearchNext == Task \/ OthersPublish \/ Crash

ResearchSpec == ResearchInit /\ [][ResearchNext]_vars

\* The task is polled in the end when it can run, and the calls of an iteration return:
\* the subprocess of the language model and of the compiler are external and are
\* assumed to end.
FairResearchSpec == ResearchSpec /\ WF_vars(Task)

-----------------------------------------------------------------------------
(***************************************************************************)
(* Properties.                                                             *)
(***************************************************************************)
Steps == {"propose", "announce", "code", "compile", "save", "artifact",
          "backtest", "feedback", "record", "completed", "promote", "candidate", "pausing",
          "waiting", "returned"}

\* Types: an iteration has an id from its proposal on, and its cycle work left.
ResearchTypeOK ==
  /\ durable \in 0 .. Len(log)
  /\ kept \in 0 .. Len(saves)
  /\ \A id \in Ids : /\ Saved(id).status \in {"none", "Compiled", "Promoted"}
                     /\ artifacts[id] \in 0 .. MaxCompileRetries \cup {None}
  /\ Len(chan) <= Capacity /\ (lagged => chan # <<>>)
  /\ cur.step \in Steps /\ cur.best \in Results \cup {None}
  /\ cur.source \in 0 .. MaxCompileRetries /\ cur.tests \in 0 .. Timeframes
  /\ cur.id \in used <=> cur.step \notin {"propose", "pausing", "waiting", "returned"}
  /\ left \in 0 .. Iterations
  /\ left = 0 <=> cur = IF driver = "daemon" THEN Waiting ELSE Returned
  /\ tally \in [DOMAIN Zero -> 0 .. Iterations]

Recorded(id) == \E i \in Nodes : Node(i).id = id

\* research_loop.rs:255-275: a strategy is promoted only after the whole way.  It has
\* an artifact, built from the very source that the record holds -- the fixed one,
\* not the generated one -- and, as long as no crash cut the trace, a recorded
\* experiment that passes both thresholds.  What `research run' counts as accepted
\* is promoted.
PromotedIds == {id \in Ids : Saved(id).status = "Promoted"}

PromotedWentTheWay ==
  /\ \A id \in PromotedIds :
       /\ artifacts[id] = Saved(id).source
       /\ crashes = 0 => Recorded(id) /\ Experiment(id).result.sharpe > 1
                         /\ Experiment(id).result.drawdown < 15
  /\ tally.accepted <= Cardinality(PromotedIds)

\* research_loop.rs:256-275: who reads a candidate off the bus finds the strategy
\* promoted and the experiment in the trace, under one hypothesis, whatever failed
\* before.
CandidatesAreThere ==
  \A i \in DOMAIN chan : chan[i].kind = "candidate" =>
    Saved(chan[i].id).status = "Promoted" /\ Recorded(chan[i].id)

\* daemon.rs:257-260: "then waits for either a FeedbackResearchRetrainRequested event
\* on the bus or a periodic timeout, whichever comes first, before starting the next
\* batch of iterations".  So research goes on.
GoesOn == IF driver = "daemon" THEN At("propose") /\ left = Iterations ELSE At("returned")

CyclesGoOn == []<>GoesOn

\* daemon.rs:287-317: research goes on, or others break into one wait for ever.
\* Whatever fails, whatever the receiver loses, nothing else keeps the daemon from its
\* next cycle, nor a command from its end.
OnlyABusyBusHoldsUp ==
  []<>GoesOn \/ (<>[]At("waiting") /\ []<><<OthersPublish>>_vars)

\* daemon.rs:292-298: on a bus that is never quiet, too, a retrain request that the
\* receiver has not lost starts a cycle.
Requested == \E i \in DOMAIN chan : chan[i].kind = "retrain"

RequestsAreHeard == Requested ~> GoesOn \/ lagged

\* daemon.rs:390-395: after a lag, a retrain request among the last events of the
\* feedback topic starts a cycle.
LastFeedback ==
  LET n == Len(feedback) IN {feedback[i] : i \in {j \in 1 .. n : j > n - Window}}

LagFindsRetrain ==
  [][lagged /\ ~lagged' /\ At("waiting") /\ "retrain" \in LastFeedback
       => At("propose")']_vars
=============================================================================
