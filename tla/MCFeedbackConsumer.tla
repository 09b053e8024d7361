------------------------- MODULE MCFeedbackConsumer -------------------------
(***************************************************************************)
(* Small instances of the feedback consumer for TLC: two engines publish   *)
(* "submitted" events and fills, one of which carries its PnL as a number, *)
(* and the feedback loop publishes decisions on another topic, which puts  *)
(* gaps between the numbers of the consumed one.                           *)
(***************************************************************************)
EXTENDS FeedbackConsumer

CONSTANTS engine, other_engine, loop

MCTopics == {"trading", "feedback"}
MCGroups == {"feedback"}
MCEvents == {"submitted", "win", "loss", "promote"}
MCTopic  == [e \in MCEvents |-> IF e = "promote" THEN "feedback" ELSE "trading"]
MCFills  == {"win", "loss"}
MCPnl      == [win |-> 2, loss |-> -1]
MCStrategy == [e \in MCFills |-> "momentum"]

\* Two engines publish on the consumed topic.
TwoEngines == engine :> {"submitted", "win"} @@ other_engine :> {"loss"}
\* The decisions of the loop fall between the fills of one engine.
Interleaved == engine :> {"submitted", "win"} @@ loop :> {"promote"}
\* One engine alone.
Alone == engine :> {"submitted", "win", "loss"}
=============================================================================
