--------------------------- MODULE MCFeedbackLoop ---------------------------
(***************************************************************************)
(* Small instances of the feedback loop for TLC: engines that publish      *)
(* fills, and the loop that judges the strategies behind them.             *)
(***************************************************************************)
EXTENDS FeedbackLoop

CONSTANTS engine, other_engine

MCTopics == {"trading", "feedback"}
MCGroups == {"feedback"}
MCPnl    == [win |-> 10, loss |-> -1, fill |-> 1]
MCFills  == DOMAIN MCPnl
MCDecisionEvent == [x \in Owners \X Decisions |-> x[1] \o x[2]]
MCDecisionEvents == Range(MCDecisionEvent)
MCEvents == {"submitted"} \cup MCFills \cup MCDecisionEvents
MCTopic  == [e \in MCEvents |-> IF e \in MCDecisionEvents THEN "feedback" ELSE "trading"]

OneStrategy   == [e \in MCFills |-> "momentum"]
TwoStrategies == [win |-> "momentum", loss |-> "momentum", fill |-> "scalping"]
OneWithout    == [win |-> "momentum", loss |-> "momentum", fill |-> NoStrategy]

\* One engine, and two of them.
Alone      == engine :> (MCFills \cup {"submitted"}) @@ feedback_loop :> MCDecisionEvents
TwoEngines == engine :> {"win"} @@ other_engine :> {"loss"}
                @@ feedback_loop :> MCDecisionEvents
FillsBetween == engine :> {"win", "submitted"} @@ other_engine :> {"fill"}
                  @@ feedback_loop :> MCDecisionEvents
=============================================================================
