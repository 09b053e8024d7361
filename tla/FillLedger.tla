----------------------------- MODULE FillLedger -----------------------------
(***************************************************************************)
(* What the feedback consumer promises, without offsets, batches or sled:  *)
(* fills are logged one after the other, and every fill of the log is      *)
(* tallied exactly once, in order, under its strategy.                     *)
(***************************************************************************)
EXTENDS Integers, Sequences, FiniteSets

CONSTANTS
  Entries,      \* what is logged
  Fill(_),      \* whether an entry counts
  Owner(_),     \* the strategy an entry counts for
  Owners

VARIABLES
  log,          \* every entry logged so far
  done,         \* how many of them the consumer has gone through
  tally         \* the number of fills of each strategy among those

Counted(l, st) == Cardinality({i \in DOMAIN l : Fill(l[i]) /\ Owner(l[i]) = st})

Init ==
  /\ log = <<>>
  /\ done = 0
  /\ tally = [st \in Owners |-> 0]

Log ==
  /\ \E e \in Entries : log' = Append(log, e)
  /\ UNCHANGED <<done, tally>>

Tally ==
  /\ done < Len(log)
  /\ done' \in done + 1 .. Len(log)
  /\ tally' = [st \in Owners |->
                 tally[st] + Counted(SubSeq(log, done + 1, done'), st)]
  /\ log' = log

Next == Log \/ Tally

SafeSpec == Init /\ [][Next]_<<log, done, tally>>

\* An entry that was logged is tallied in the end.
Spec == SafeSpec /\ WF_<<log, done, tally>>(Tally)
=============================================================================
