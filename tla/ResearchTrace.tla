---------------------------- MODULE ResearchTrace ----------------------------
(***************************************************************************)
(* The trace of the research loop (trace.rs): five trees of one sled       *)
(* database.  They are modelled by the log of what was inserted, which is  *)
(* how sled stores them: a crash keeps some prefix of the log, at least    *)
(* the part that was flushed.                                              *)
(*                                                                         *)
(* A hypothesis, the experiment that tests it and the feedback on it carry *)
(* ids of their own, all three fresh UUIDs.  One id stands for the three   *)
(* here; the order of ids is the order of the keys, which is unrelated to  *)
(* the order of creation.                                                  *)
(***************************************************************************)
EXTENDS Integers, Sequences, FiniteSets, SequencesExt

CONSTANTS
  Ids,        \* the UUIDs, as numbers: their order is the order of the keys
  Results,    \* the BacktestResults: [sharpe |-> Int, drawdown |-> Int]
  None        \* no result, no parent

ASSUME TraceAssumption ==
  /\ Ids \subseteq Nat /\ IsFiniteSet(Ids)
  /\ \A r \in Results : r.sharpe \in Int /\ r.drawdown \in Nat
  /\ None \notin Ids /\ None \notin Results

VARIABLES
  log,       \* the inserts into the trees of the trace, in their order
  durable    \* external: how many of them a crash cannot take any more

traceVars == <<log, durable>>

(***************************************************************************)
(* The trees.                                                              *)
(***************************************************************************)
Tree(t)     == {e \in ToSet(log) : e.tree = t}
hypotheses  == Tree("hypotheses")
experiments == Tree("experiments")
feedbacks   == Tree("feedbacks")
hist_order  == Tree("hist_order")
dag_parents == Tree("dag_parents")

HasHypothesis(id) == \E h \in hypotheses : h.id = id
HasExperiment(id) == \E x \in experiments : x.id = id
HasFeedback(id)   == \E f \in feedbacks : f.id = id

Hypothesis(id) == CHOOSE h \in hypotheses : h.id = id
Experiment(id) == CHOOSE x \in experiments : x.id = id
Feedback(id)   == CHOOSE f \in feedbacks : f.id = id

TraceInit == log = <<>> /\ durable = 0

-----------------------------------------------------------------------------
(***************************************************************************)
(* What is written.                                                        *)
(***************************************************************************)
SaveHypothesis(id, parent) ==
  log' = Append(log, [tree |-> "hypotheses", id |-> id, parent |-> parent])

\* The hypothesis_id of an experiment is the id that they share here.
ExperimentEntry(id, result) ==
  [tree |-> "experiments", id |-> id, result |-> result]

SaveExperiment(id, result) == log' = Append(log, ExperimentEntry(id, result))

FeedbackEntry(id, decision) ==
  [tree |-> "feedbacks", id |-> id, decision |-> decision]

\* Deviation: the number of experiments stands in for the last key.
CountExperiments == Cardinality(experiments)

\* One more than the last key of hist_order.
Nodes     == {n.index : n \in hist_order}
NextIndex == IF Nodes = {} THEN 0 ELSE 1 + CHOOSE i \in Nodes : \A j \in Nodes : i >= j

\* The latest node as parent (DagSelection::Latest), none for the first one.
LatestParent(index) == IF index > 0 THEN <<index - 1>> ELSE <<>>

\* Deviation: the node is announced before what it refers to is written.
RecordNodeFirst(id, result, decision) ==
  log' = log \o <<[tree |-> "hist_order", index |-> NextIndex, id |-> id],
                  ExperimentEntry(id, result), FeedbackEntry(id, decision),
                  [tree |-> "dag_parents", index |-> NextIndex,
                   parents |-> LatestParent(NextIndex)]>>

\* Trace::record.  Nothing awaits between the inserts: what can come between them
\* is a crash, and that cuts the log wherever it likes.
Record(id, result, decision) ==
  log' = log \o <<ExperimentEntry(id, result), FeedbackEntry(id, decision),
                  [tree |-> "hist_order", index |-> NextIndex, id |-> id],
                  [tree |-> "dag_parents", index |-> NextIndex,
                   parents |-> LatestParent(NextIndex)]>>

-----------------------------------------------------------------------------
(***************************************************************************)
(* What is read.                                                           *)
(***************************************************************************)
\* The experiments that the language model's feedback accepts, and that are there.
AcceptedByFeedback ==
  {id \in Ids : HasExperiment(id) /\ \E f \in feedbacks : f.id = id /\ f.decision}

\* get_best_experiment: the first one in the order of the keys.
BestExperiment ==
  IF AcceptedByFeedback = {} THEN None
  ELSE CHOOSE id \in AcceptedByFeedback : \A x \in AcceptedByFeedback : id <= x

Sharpe(id) == Experiment(id).result.sharpe

\* get_sota: the one of the highest Sharpe ratio, the first of them on a tie.
Sota ==
  IF AcceptedByFeedback = {} THEN None
  ELSE CHOOSE id \in AcceptedByFeedback :
         \A x \in AcceptedByFeedback :
            \/ Sharpe(id) > Sharpe(x)
            \/ Sharpe(id) = Sharpe(x) /\ id <= x

Node(i)     == CHOOSE n \in hist_order : n.index = i
HasNode(i)  == i \in Nodes /\ HasExperiment(Node(i).id) /\ HasFeedback(Node(i).id)

\* A node without an entry in dag_parents reads like a root.
ParentsOf(i) ==
  IF \E d \in dag_parents : d.index = i
  THEN (CHOOSE d \in dag_parents : d.index = i).parents ELSE <<>>

\* ancestors: from a node along first parents to a root, or to a gap.
Ancestors(i) ==
  LET from[j \in Nat] ==
        IF ~HasNode(j) THEN <<>>
        ELSE <<Node(j).id>> \o
             (IF ParentsOf(j) = <<>> THEN <<>> ELSE from[Head(ParentsOf(j))])
  IN from[i]

Children(i) == {c \in Nodes : HasNode(c) /\ i \in ToSet(ParentsOf(c))}

\* The last `limit' nodes of the history.
LastNodes(limit) == {i \in Nodes : Cardinality({j \in Nodes : j > i}) < limit}

\* An iterator over a tree goes through the keys in their order.
Iter(keys) ==
  CHOOSE s \in [1 .. Cardinality(keys) -> keys] :
    \A j, k \in DOMAIN s : j < k => s[j] < s[k]

\* list_recent: newest first, without the nodes whose experiment is missing.
ListRecent(limit) ==
  Reverse(Iter({i \in LastNodes(limit) : HasExperiment(Node(i).id)}))

\* format_for_prompt: in their order, without those whose feedback is missing too.
PromptLines(limit) == Iter({i \in LastNodes(limit) : HasNode(i)})

\* ancestor_chain: the lineage of a hypothesis as far as it is found.
AncestorChain(id) ==
  LET up[x \in Ids] ==
        IF ~HasHypothesis(x) THEN <<>>
        ELSE <<x>> \o (IF Hypothesis(x).parent = None THEN <<>>
                       ELSE up[Hypothesis(x).parent])
  IN up[id]

\* get_feedback_for_experiment: what they decide.
Decisions(id) == {f.decision : f \in {g \in feedbacks : g.id = id}}

\* `research list': of each experiment its hypothesis, or "unknown", and what the
\* first feedback on it decides, if there is one.
Listed(limit) ==
  LET item(i) ==
        LET id == Node(i).id
        IN [experiment |-> id,
            hypothesis |-> IF HasHypothesis(id) THEN id ELSE None,
            decision   |-> IF HasFeedback(id) THEN Feedback(id).decision ELSE None]
      recent == ListRecent(limit)
  IN [k \in DOMAIN recent |-> item(recent[k])]

\* `research show': nothing but an error if there is no such experiment.
Shown(id) ==
  IF ~HasExperiment(id) THEN None
  ELSE [hypothesis |-> IF HasHypothesis(id) THEN id ELSE None,
        feedbacks  |-> Decisions(id)]

-----------------------------------------------------------------------------
\* A crash leaves a prefix of the log, and that one is settled.
TraceCut(k) == log' = SubSeq(log, 1, k) /\ durable' = k

-----------------------------------------------------------------------------
\* trace.rs:32-52: what `research list' and the prompts build on.  Every node of the
\* history finds its experiment and its feedback, so no listing skips one, and
\* every experiment finds the hypothesis that it tests and that one's lineage
\* up to a root; what is listed can be shown, with the decision that was listed --
\* whatever prefix of the log a crash left.
TraceReadable ==
  /\ \A i \in Nodes : HasNode(i)
  /\ PromptLines(Cardinality(Ids)) = Iter(LastNodes(Cardinality(Ids)))
  /\ ListRecent(2) = Reverse(Iter(LastNodes(2)))
  /\ \A item \in Range(Listed(2)) :
       Shown(item.experiment) = [hypothesis |-> item.hypothesis,
                                 feedbacks  |-> {item.decision}]
  /\ \A x \in experiments : HasHypothesis(x.id)
  /\ \A h \in hypotheses : Hypothesis(Last(AncestorChain(h.id))).parent = None

\* trace.rs:213-226: the nodes are one chain.  Indices are dense, a linked node hangs
\* on the one before it, so none has two children and the walk from a node never
\* leaves out a linked one.
TraceIsChain ==
  /\ Nodes = 0 .. Cardinality(Nodes) - 1
  /\ \A i \in Nodes : Children(i) \subseteq {i + 1}
  /\ \A i \in Nodes : \/ i = 0 \/ ParentsOf(i) = <<>>
                      \/ Ancestors(i) = <<Node(i).id>> \o Ancestors(i - 1)
=============================================================================
