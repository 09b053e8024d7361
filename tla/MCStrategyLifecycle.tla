------------------------ MODULE MCStrategyLifecycle ------------------------
(***************************************************************************)
(* Small instances for TLC of the daemon around its strategy store.        *)
(***************************************************************************)
EXTENDS StrategyLifecycle, TLC

CONSTANTS feedback_loop, s1, s2, f1, trader

MCKind   == [hold |-> "other", promote1 |-> "promote", demote1 |-> "demote", promote2 |-> "promote"]
MCEvents == DOMAIN MCKind
MCTopic  == [e \in MCEvents |-> "feedback"]
MCWrites == feedback_loop :> MCEvents
MCId     == [promote1 |-> "1", demote1 |-> "1", promote2 |-> "2"]

\* What the ids are about, and what Uuid::parse_str makes of names.
About == ("1" :> s1) @@ ("2" :> s2)
AsName == ("1" :> NotUuid) @@ ("2" :> NotUuid)
=============================================================================
