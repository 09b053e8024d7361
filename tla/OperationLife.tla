---------------------------- MODULE OperationLife ----------------------------
(***************************************************************************)
(* What the stage -> commit -> push workflow promises about an operation,  *)
(* without hashes, locks, calls or a broker: operations are staged, taken  *)
(* together either to be executed or to be rejected, sent at most once and *)
(* only if they are to be executed, and then settled or lost for good.     *)
(***************************************************************************)
CONSTANT Operations

VARIABLES
  life,   \* the stage of life of each operation
  sent    \* the operations that went out to the broker

Stages == {"new", "staged", "executing", "rejecting", "executed", "rejected", "lost"}

Init ==
  /\ life = [op \in Operations |-> "new"]
  /\ sent = {}

Move(S, stage) == life' = [op \in Operations |-> IF op \in S THEN stage ELSE life[op]]

At(stage) == {op \in Operations : life[op] = stage}

Stage(op) == life[op] = "new" /\ Move({op}, "staged") /\ sent' = sent

\* All that is staged is taken at once.
Take ==
  /\ At("staged") # {}
  /\ Move(At("staged"), "executing") \/ Move(At("staged"), "rejecting")
  /\ sent' = sent

Send(op) ==
  /\ life[op] = "executing" /\ op \notin sent
  /\ sent' = sent \cup {op}
  /\ life' = life

Settle(S) ==
  /\ \/ S \subseteq At("executing") \cap sent /\ Move(S, "executed")
     \/ S \subseteq At("rejecting") /\ Move(S, "rejected")
  /\ sent' = sent

\* The record of an operation is lost; the operation never comes back.
Lose(S) == S \cap At("new") = {} /\ Move(S, "lost") /\ sent' = sent

Next ==
  \/ \E op \in Operations : Stage(op) \/ Send(op)
  \/ Take
  \/ \E S \in SUBSET Operations : Settle(S) \/ Lose(S)

Spec == Init /\ [][Next]_<<life, sent>>
=============================================================================
