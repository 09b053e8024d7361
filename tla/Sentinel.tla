------------------------------ MODULE Sentinel ------------------------------
(***************************************************************************)
(* The sentinel of crates/rara-sentinel as the daemon runs it: every cycle *)
(* polls all the feeds, asks the agent about each entry, publishes what it *)
(* finds, and sleeps.  Next to it, the command `rara agent' makes calls of *)
(* its own; AgentCall follows one call at a time, of either of them.       *)
(*                                                                         *)
(* The sources are external: the entries of a feed, and the days of the    *)
(* trump-code service that have a signal, come and go.                     *)
(***************************************************************************)
EXTENDS AgentCall, FiniteSets

CONSTANTS
  Feeds,        \* the configured sources, in the order they are polled
  Entries,      \* what may appear in them
  FeedOf,       \* FeedOf[e]: the source of entry e
  DateOf,       \* DateOf[e]: the date of entry e, if it is a day
  Backend,      \* agent.backend of the configuration
  IdleTimeout   \* whether idle_timeout_secs of the configuration is above 0

ASSUME SentinelAssumption ==
  /\ FeedOf \in [Entries -> Range(Feeds)]
  /\ DateOf \in [{e \in Entries : FeedOf[e] = "trump-code"} -> Nat]

VARIABLES
  feed,      \* external: the entries that the feeds list at the moment
  cycle,     \* where the cycle stands: the feeds and the entries it has left
  caller,    \* who made the call in hand
  opinion    \* the last answer about each entry; a "signal" was published

sentinelVars == <<feed, cycle, opinion>>
allVars == <<agentVars, sentinelVars, caller>>

Asleep == [at |-> "asleep", todo |-> <<>>, raw |-> <<>>]

SentinelInit ==
  /\ AgentInit
  /\ feed = {} /\ cycle = Asleep /\ caller = "nobody"
  /\ opinion = [e \in Entries |-> "none"]

-----------------------------------------------------------------------------
(***************************************************************************)
(* run_sentinel_loop and poll_and_analyze.                                 *)
(***************************************************************************)
StartCycle ==
  /\ cycle.at = "asleep"
  /\ cycle' = [at |-> "polling", todo |-> Feeds, raw |-> <<>>]
  /\ UNCHANGED <<agentVars, caller, feed, opinion>>

\* One signal per day of trump-code, the most recent day first.
IntoRawSignals(days) == SetToSortSeq(days, LAMBDA d, e : DateOf[d] > DateOf[e])

\* A feed answers with all that it lists, in an order of its own.
Polled(source) ==
  LET listed == {e \in feed : FeedOf[e] = source}
  IN IF source = "trump-code" THEN {IntoRawSignals(listed)} ELSE SetToSeqs(listed)

PollFeed ==
  /\ cycle.at = "polling" /\ cycle.todo # <<>>
  /\ \E raw \in Polled(Head(cycle.todo)) :
       cycle' = [cycle EXCEPT !.todo = Tail(@), !.raw = @ \o raw]
  /\ UNCHANGED <<agentVars, caller, feed, opinion>>

AllPolled ==
  /\ cycle.at = "polling" /\ cycle.todo = <<>>
  /\ cycle' = [cycle EXCEPT !.at = "judging"]
  /\ UNCHANGED <<agentVars, caller, feed, opinion>>

callVars == <<call, child, wrote, pipe, reader, chan, out>>

\* Deviation: the loop ends with the first error.
FeedFailsForGood ==
  /\ cycle.at = "polling" /\ cycle.todo # <<>>
  /\ Failing /\ cycle' = [Asleep EXCEPT !.at = "ended"]
  /\ UNCHANGED <<callVars, caller, feed, opinion>>

\* One feed that does not answer ends the cycle for all of them.
FeedFails ==
  /\ cycle.at = "polling" /\ cycle.todo # <<>>
  /\ Failing /\ cycle' = Asleep
  /\ UNCHANGED <<callVars, caller, feed, opinion>>

Ask ==
  /\ cycle.at = "judging" /\ cycle.raw # <<>> /\ caller = "nobody"
  /\ Spawn(Backend, FALSE)
  /\ caller' = "sentinel"
  /\ UNCHANGED sentinelVars

\* The agent cannot be started.
AskFails ==
  /\ cycle.at = "judging" /\ cycle.raw # <<>> /\ caller = "nobody"
  /\ Failing /\ cycle' = Asleep
  /\ UNCHANGED <<callVars, caller, feed, opinion>>

Answered ==
  /\ caller = "sentinel" /\ call.at = "returned"
  /\ Dropped /\ caller' = "nobody"
  /\ feed' = feed

\* The agent sees no reason to act, or names one, which is published.
Judge ==
  /\ Answered /\ call.success
  /\ \E answer \in {"quiet", "signal"} :
       opinion' = [opinion EXCEPT ![Head(cycle.raw)] = answer]
  /\ cycle' = [cycle EXCEPT !.raw = Tail(@)]
  /\ failures' = failures

\* The agent failed, its answer lacks a field, or the event cannot be published:
\* the entries that are left have to wait for the next cycle.
JudgeFails ==
  /\ Answered
  /\ IF call.success THEN Failing ELSE failures' = failures
  /\ cycle' = Asleep
  /\ UNCHANGED <<opinion>>

EndCycle ==
  /\ cycle.at = "judging" /\ cycle.raw = <<>>
  /\ cycle' = Asleep
  /\ UNCHANGED <<agentVars, caller, feed, opinion>>

-----------------------------------------------------------------------------
\* `rara agent', with idle_timeout_secs.
AgentCommand ==
  /\ caller = "nobody"
  /\ Spawn(Backend, IdleTimeout)
  /\ caller' = "command"
  /\ UNCHANGED sentinelVars

CommandEnds ==
  /\ caller = "command" /\ call.at = "returned"
  /\ Dropped /\ caller' = "nobody"
  /\ UNCHANGED <<failures, sentinelVars>>

FeedChanges ==
  /\ \E e \in Entries : feed' \in {feed \cup {e}, feed \ {e}}
  /\ feed' # feed
  /\ UNCHANGED <<agentVars, caller, cycle, opinion>>

Agent == AgentStep /\ UNCHANGED <<caller, sentinelVars>>

Cycle ==
  StartCycle \/ PollFeed \/ AllPolled \/ Ask \/ Judge \/ EndCycle

SentinelNext ==
  \/ Cycle \/ FeedFails \/ AskFails \/ JudgeFails
  \/ AgentCommand \/ CommandEnds \/ FeedChanges
  \/ Agent

SentinelSpec == SentinelInit /\ [][SentinelNext]_allVars

\* An agent that is called without a timeout is assumed to read its prompt, to end,
\* and to fail at most MaxFailures times.
FairSentinelSpec ==
  /\ SentinelSpec /\ AgentFairness
  /\ WF_allVars(StartCycle \/ PollFeed \/ AllPolled \/ EndCycle)
  /\ SF_allVars(Ask)
  /\ WF_allVars(Judge \/ JudgeFails) /\ WF_allVars(CommandEnds)
  /\ WF_allVars(~call.timeout /\ ChildReads /\ UNCHANGED <<caller, sentinelVars>>)
  /\ WF_allVars(~call.timeout /\ ChildExits /\ UNCHANGED <<caller, sentinelVars>>)

-----------------------------------------------------------------------------
(***************************************************************************)
(* Properties.                                                             *)
(***************************************************************************)
\* An entry that stays in its feed is judged in the end, although one failure
\* throws away a whole cycle and no cycle remembers how far the last one came.  (A
\* command's call that hangs stops the model, which follows one call at a time.)
EveryEntryJudged ==
  \A e \in Entries : e \in feed ~> opinion[e] # "none" \/ e \notin feed \/ Hangs
=============================================================================
