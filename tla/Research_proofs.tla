--------------------------- MODULE Research_proofs ---------------------------
(***************************************************************************)
(* The trace is readable and one chain, and what is promoted went the      *)
(* whole way, for every set of ids and of results, every number of         *)
(* iterations, retries, timeframes and crashes.  What a crash leaves is a  *)
(* prefix of a log, so the invariant says of each entry what stands before *)
(* it (EntrySound): that is true of every prefix.                          *)
(***************************************************************************)
EXTENDS ResearchLoop, FiniteSetTheorems, WellFoundedInduction, TLAPS

\* Among the first n entries of a log: one of tree t about id, and node i.
Holds(l, n, t, id) == \E j \in 1 .. n : l[j].tree = t /\ l[j].id = id
HoldsNode(l, n, i) == \E j \in 1 .. n : l[j].tree = "hist_order" /\ l[j].index = i

HypothesisSound(l, k) ==
  l[k].tree = "hypotheses" =>
    /\ l[k].id \in Ids /\ ~Holds(l, k - 1, "hypotheses", l[k].id)
    /\ l[k].parent # None => Holds(l, k - 1, "hypotheses", l[k].parent)

ExperimentSound(l, k) ==
  l[k].tree = "experiments" =>
    /\ l[k] = ExperimentEntry(l[k].id, l[k].result) /\ l[k].result \in Results
    /\ Holds(l, k - 1, "hypotheses", l[k].id)
    /\ \A j \in 1 .. k - 1 : l[j].tree = "experiments" /\ l[j].id = l[k].id => l[j] = l[k]

FeedbackSound(l, k) ==
  l[k].tree = "feedbacks" =>
    /\ Holds(l, k - 1, "experiments", l[k].id)
    /\ ~Holds(l, k - 1, "feedbacks", l[k].id)

NodeSound(l, k) ==
  l[k].tree = "hist_order" =>
    /\ Holds(l, k - 1, "experiments", l[k].id) /\ Holds(l, k - 1, "feedbacks", l[k].id)
    /\ l[k].index \in 0 .. k - 1 /\ ~HoldsNode(l, k - 1, l[k].index)
    /\ \A i \in 0 .. l[k].index - 1 : HoldsNode(l, k - 1, i)

LinkSound(l, k) ==
  l[k].tree = "dag_parents" =>
    HoldsNode(l, k - 1, l[k].index) /\ l[k].parents = LatestParent(l[k].index)

EntrySound(l, k) ==
  /\ HypothesisSound(l, k) /\ ExperimentSound(l, k) /\ FeedbackSound(l, k)
  /\ NodeSound(l, k) /\ LinkSound(l, k)

LogSound(l) == \A k \in 1 .. Len(l) : EntrySound(l, k)

Begins(l, m) ==
  Len(l) \in Nat /\ Len(m) \in Nat /\ Len(l) <= Len(m) /\ \A k \in 1 .. Len(l) : m[k] = l[k]

-----------------------------------------------------------------------------
(***************************************************************************)
(* Logs and their prefixes.                                                *)
(***************************************************************************)
LEMMA SameHolds ==
  ASSUME NEW l, NEW m, NEW n \in Nat, \A k \in 1 .. n : m[k] = l[k], NEW t, NEW x
  PROVE  /\ Holds(m, n, t, x) <=> Holds(l, n, t, x)
         /\ HoldsNode(m, n, x) <=> HoldsNode(l, n, x)
BY DEF Holds, HoldsNode

LEMMA SameSound ==
  ASSUME NEW l, NEW m, NEW k \in Nat, \A j \in 1 .. k : m[j] = l[j], k > 0, EntrySound(l, k)
  PROVE  EntrySound(m, k)
<1>1. k - 1 \in Nat /\ (\A j \in 1 .. k - 1 : m[j] = l[j]) /\ m[k] = l[k]
  OBVIOUS
<1>2. \A t, x : /\ Holds(m, k - 1, t, x) <=> Holds(l, k - 1, t, x)
                /\ HoldsNode(m, k - 1, x) <=> HoldsNode(l, k - 1, x)
  BY <1>1, SameHolds
<1>3. HypothesisSound(m, k) /\ FeedbackSound(m, k) /\ LinkSound(m, k)
  BY <1>1, <1>2 DEF EntrySound, HypothesisSound, FeedbackSound, LinkSound
<1>4. ExperimentSound(m, k)
  BY <1>1, <1>2 DEF EntrySound, ExperimentSound
<1>5. NodeSound(m, k)
  BY <1>1, <1>2 DEF EntrySound, NodeSound
<1>6. QED
  BY <1>3, <1>4, <1>5 DEF EntrySound

\* A prefix of a sound log is sound.
LEMMA CutSound ==
  ASSUME NEW l, NEW m, Begins(m, l), LogSound(l)
  PROVE  LogSound(m)
<1> SUFFICES ASSUME NEW k \in 1 .. Len(m) PROVE EntrySound(m, k)
  BY DEF LogSound
<1>1. k \in Nat /\ k > 0 /\ k \in 1 .. Len(l) /\ \A j \in 1 .. k : m[j] = l[j]
  BY DEF Begins
<1>2. EntrySound(l, k)
  BY <1>1 DEF LogSound
<1>3. QED
  BY <1>1, <1>2, SameSound

\* And so is a longer one whose new entries are.
LEMMA GrownSound ==
  ASSUME NEW l, NEW m, Begins(l, m), LogSound(l),
         \A k \in Len(l) + 1 .. Len(m) : EntrySound(m, k)
  PROVE  LogSound(m)
<1> SUFFICES ASSUME NEW k \in 1 .. Len(l) PROVE EntrySound(m, k)
  BY DEF LogSound, Begins
<1>1. k \in Nat /\ k > 0 /\ \A j \in 1 .. k : m[j] = l[j]
  BY DEF Begins
<1>2. EntrySound(l, k)
  BY DEF LogSound
<1>3. QED
  BY <1>1, <1>2, SameSound

LEMMA HoldsMore ==
  ASSUME NEW l, NEW m, Begins(l, m), NEW n \in Len(l) .. Len(m), NEW t, NEW x
  PROVE  /\ Holds(l, Len(l), t, x) => Holds(m, n, t, x)
         /\ HoldsNode(l, Len(l), x) => HoldsNode(m, n, x)
<1>1. \A j \in 1 .. Len(l) : j \in 1 .. n /\ m[j] = l[j]
  BY DEF Begins
<1>2. QED
  BY <1>1 DEF Holds, HoldsNode

-----------------------------------------------------------------------------
(***************************************************************************)
(* What is read from a sound log.                                          *)
(***************************************************************************)
TraceIInv ==
  /\ \E S : log \in Seq(S)
  /\ durable \in 0 .. Len(log)
  /\ LogSound(log)

LEMMA LogFacts ==
  ASSUME TraceIInv
  PROVE  Len(log) \in Nat /\ DOMAIN log = 1 .. Len(log)
BY DEF TraceIInv

LEMMA InTree ==
  ASSUME TraceIInv, NEW t, NEW e
  PROVE  e \in Tree(t) <=> \E j \in 1 .. Len(log) : log[j] = e /\ e.tree = t
BY LogFacts DEF Tree, ToSet

\* A tree has an entry about id if the log has.
LEMMA Has ==
  ASSUME TraceIInv, NEW id
  PROVE  /\ HasHypothesis(id) <=> Holds(log, Len(log), "hypotheses", id)
         /\ HasExperiment(id) <=> Holds(log, Len(log), "experiments", id)
         /\ HasFeedback(id) <=> Holds(log, Len(log), "feedbacks", id)
         /\ id \in Nodes <=> HoldsNode(log, Len(log), id)
<1>1. HasHypothesis(id) <=> Holds(log, Len(log), "hypotheses", id)
  BY InTree DEF HasHypothesis, hypotheses, Holds
<1>2. HasExperiment(id) <=> Holds(log, Len(log), "experiments", id)
  BY InTree DEF HasExperiment, experiments, Holds
<1>3. HasFeedback(id) <=> Holds(log, Len(log), "feedbacks", id)
  BY InTree DEF HasFeedback, feedbacks, Holds
<1>4. id \in Nodes <=> HoldsNode(log, Len(log), id)
  BY InTree DEF Nodes, hist_order, HoldsNode
<1>5. QED
  BY <1>1, <1>2, <1>3, <1>4

\* What stands before an entry stands in the log.
LEMMA Before ==
  ASSUME TraceIInv, NEW k \in 1 .. Len(log), NEW t, NEW x
  PROVE  /\ Holds(log, k - 1, t, x) => Holds(log, Len(log), t, x)
         /\ HoldsNode(log, k - 1, x) => HoldsNode(log, Len(log), x)
<1>1. \A j \in 1 .. k - 1 : j \in 1 .. Len(log)
  BY LogFacts
<1>2. QED
  BY <1>1 DEF Holds, HoldsNode

LEMMA SoundAt ==
  ASSUME TraceIInv, NEW k \in 1 .. Len(log)
  PROVE  /\ HypothesisSound(log, k) /\ ExperimentSound(log, k) /\ FeedbackSound(log, k)
         /\ NodeSound(log, k) /\ LinkSound(log, k)
BY DEF TraceIInv, LogSound, EntrySound

\* An id names one hypothesis, one experiment and one feedback, an index one node.
LEMMA OneEntry ==
  ASSUME TraceIInv, NEW i \in 1 .. Len(log), NEW j \in 1 .. Len(log), log[i].tree = log[j].tree
  PROVE  /\ log[i].tree \in {"hypotheses", "feedbacks"} /\ log[i].id = log[j].id => i = j
         /\ log[i].tree = "experiments" /\ log[i].id = log[j].id => log[i] = log[j]
         /\ log[i].tree = "hist_order" /\ log[i].index = log[j].index => i = j
<1>1. i \in Nat /\ j \in Nat
  BY LogFacts
<1>2. i < j => i \in 1 .. j - 1
  BY <1>1
<1>3. j < i => j \in 1 .. i - 1
  BY <1>1
<1>4. /\ HypothesisSound(log, i) /\ ExperimentSound(log, i) /\ FeedbackSound(log, i)
      /\ NodeSound(log, i)
      /\ HypothesisSound(log, j) /\ ExperimentSound(log, j) /\ FeedbackSound(log, j)
      /\ NodeSound(log, j)
  BY SoundAt
<1>5. i < j \/ j < i \/ i = j
  BY <1>1
<1>6. ASSUME log[i].tree \in {"hypotheses", "feedbacks"}, log[i].id = log[j].id PROVE i = j
  BY <1>2, <1>3, <1>4, <1>5, <1>6 DEF HypothesisSound, FeedbackSound, Holds
<1>7. ASSUME log[i].tree = "experiments", log[i].id = log[j].id PROVE log[i] = log[j]
  BY <1>2, <1>3, <1>4, <1>5, <1>7 DEF ExperimentSound
<1>8. ASSUME log[i].tree = "hist_order", log[i].index = log[j].index PROVE i = j
  BY <1>2, <1>3, <1>4, <1>5, <1>8 DEF NodeSound, HoldsNode
<1>9. QED
  BY <1>6, <1>7, <1>8

LEMMA HypothesisIs ==
  ASSUME TraceIInv, NEW h \in hypotheses
  PROVE  /\ h.id \in Ids /\ Hypothesis(h.id) = h /\ HasHypothesis(h.id)
         /\ h.parent # None => HasHypothesis(h.parent)
<1>1. PICK j \in 1 .. Len(log) : log[j] = h /\ h.tree = "hypotheses"
  BY InTree DEF hypotheses
<1>2. \A g \in hypotheses : g.id = h.id => g = h
  <2> SUFFICES ASSUME NEW g \in hypotheses, g.id = h.id PROVE g = h
    OBVIOUS
  <2>1. PICK i \in 1 .. Len(log) : log[i] = g /\ g.tree = "hypotheses"
    BY InTree DEF hypotheses
  <2>2. i = j
    BY <1>1, <2>1, OneEntry
  <2>3. QED
    BY <1>1, <2>1, <2>2
<1>3. Hypothesis(h.id) = h /\ HasHypothesis(h.id)
  BY <1>2 DEF Hypothesis, HasHypothesis
<1>4. h.id \in Ids /\ (h.parent # None => Holds(log, j - 1, "hypotheses", h.parent))
  BY <1>1, SoundAt DEF HypothesisSound
<1>5. h.parent # None => HasHypothesis(h.parent)
  BY <1>4, Before, Has
<1>6. QED
  BY <1>3, <1>4, <1>5

LEMMA ExperimentIs ==
  ASSUME TraceIInv, NEW x \in experiments
  PROVE  Experiment(x.id) = x /\ HasHypothesis(x.id) /\ x.result \in Results
<1>1. PICK j \in 1 .. Len(log) : log[j] = x /\ x.tree = "experiments"
  BY InTree DEF experiments
<1>2. \A y \in experiments : y.id = x.id => y = x
  <2> SUFFICES ASSUME NEW y \in experiments, y.id = x.id PROVE y = x
    OBVIOUS
  <2>1. PICK i \in 1 .. Len(log) : log[i] = y /\ y.tree = "experiments"
    BY InTree DEF experiments
  <2>2. QED
    BY <1>1, <2>1, OneEntry
<1>3. Experiment(x.id) = x
  BY <1>2 DEF Experiment
<1>4. Holds(log, j - 1, "hypotheses", x.id) /\ x.result \in Results
  BY <1>1, SoundAt DEF ExperimentSound
<1>5. QED
  BY <1>3, <1>4, Before, Has

LEMMA FeedbackIs ==
  ASSUME TraceIInv, NEW id, HasFeedback(id)
  PROVE  Decisions(id) = {Feedback(id).decision}
<1>1. \A f, g \in feedbacks : f.id = g.id => f = g
  <2> SUFFICES ASSUME NEW f \in feedbacks, NEW g \in feedbacks, f.id = g.id PROVE f = g
    OBVIOUS
  <2>1. PICK i \in 1 .. Len(log) : log[i] = f /\ f.tree = "feedbacks"
    BY InTree DEF feedbacks
  <2>2. PICK j \in 1 .. Len(log) : log[j] = g /\ g.tree = "feedbacks"
    BY InTree DEF feedbacks
  <2>3. i = j
    BY <2>1, <2>2, OneEntry
  <2>4. QED
    BY <2>1, <2>2, <2>3
<1>2. Feedback(id) \in feedbacks /\ Feedback(id).id = id
  BY DEF Feedback, HasFeedback
<1>3. {g \in feedbacks : g.id = id} = {Feedback(id)}
  BY <1>1, <1>2
<1>4. QED
  BY <1>3 DEF Decisions

\* A node of the history finds its experiment and its feedback.
LEMMA NodeIs ==
  ASSUME TraceIInv, NEW i \in Nodes
  PROVE  /\ Node(i) \in hist_order /\ Node(i).index = i
         /\ \A n \in hist_order : n.index = i => n = Node(i)
         /\ HasNode(i) /\ i \in Nat
<1>1. Node(i) \in hist_order /\ Node(i).index = i
  BY DEF Node, Nodes
<1>2. PICK j \in 1 .. Len(log) : log[j] = Node(i) /\ Node(i).tree = "hist_order"
  BY <1>1, InTree DEF hist_order
<1>3. ASSUME NEW n \in hist_order, n.index = i PROVE n = Node(i)
  <2>1. PICK k \in 1 .. Len(log) : log[k] = n /\ n.tree = "hist_order"
    BY InTree DEF hist_order
  <2>2. k = j
    BY <1>1, <1>2, <1>3, <2>1, OneEntry
  <2>3. QED
    BY <1>2, <2>1, <2>2
<1>4. /\ Holds(log, j - 1, "experiments", Node(i).id)
      /\ Holds(log, j - 1, "feedbacks", Node(i).id)
      /\ i \in 0 .. j - 1
  BY <1>1, <1>2, SoundAt DEF NodeSound
<1>5. HasExperiment(Node(i).id) /\ HasFeedback(Node(i).id)
  BY <1>4, Before, Has
<1>6. i \in Nat
  BY <1>4
<1>7. QED
  BY <1>1, <1>3, <1>5, <1>6 DEF HasNode

-----------------------------------------------------------------------------
(***************************************************************************)
(* Numbers, and walks that follow pointers to smaller ranks.               *)
(***************************************************************************)
\* Every set of numbers has a least one: induction on numbers, stated of a set.
LEMMA LeastNumber ==
  ASSUME NEW T, T \subseteq Nat, T # {}
  PROVE  \E n \in T : \A m \in T : n <= m
<1>1. \A m, n \in Nat : m < n => <<m, n>> \in OpToRel(<, Nat)
  <2>1. OpToRel(<, Nat) = {x \in Nat \X Nat : x[1] < x[2]}
    BY Zenon DEF OpToRel
  <2>2. QED
    BY <2>1
<1>2. PICK n \in T : \A m \in T : ~ (<<m, n>> \in OpToRel(<, Nat))
  BY WFMin, NatLessThanWellFounded
<1>3. \A m \in T : ~(m < n)
  BY <1>1, <1>2, Zenon
<1>4. \A m \in T : n <= m
  BY <1>3
<1>5. QED
  BY <1>4

\* A set of numbers that reaches up to no number but 0 and with each to the next
\* holds them all.
LEMMA AllNumbers ==
  ASSUME NEW S, 0 \in S, \A n \in Nat : n \in S => n + 1 \in S
  PROVE  Nat \subseteq S
<1> DEFINE T == Nat \ S
<1> SUFFICES ASSUME T # {} PROVE FALSE
  OBVIOUS
<1>1. PICK n \in T : \A m \in T : n <= m
  BY LeastNumber
<1>2. n # 0 /\ n - 1 \in Nat
  OBVIOUS
<1>3. n - 1 \in S
  BY <1>1, <1>2
<1>4. QED
  BY <1>2, <1>3

\* A bounded set of numbers has a largest one.
LEMMA LargestNumber ==
  ASSUME NEW k \in Nat, NEW s \in SUBSET (0 .. k), s # {}
  PROVE  \E n \in s : \A i \in s : i <= n
<1> DEFINE T == {n \in Nat : \A i \in s : i <= n}
<1>1. k \in T
  OBVIOUS
<1>2. PICK n \in T : \A m \in T : n <= m
  BY <1>1, LeastNumber
<1>3. n \in s
  <2> SUFFICES ASSUME n \notin s PROVE FALSE
    OBVIOUS
  <2>1. \A i \in s : i \in 0 .. k /\ i <= n /\ i # n
    OBVIOUS
  <2>2. PICK j \in s : TRUE
    OBVIOUS
  <2>3. n - 1 \in Nat /\ \A i \in s : i <= n - 1
    BY <2>1, <2>2
  <2>4. n - 1 \in T
    BY <2>3
  <2>5. QED
    BY <1>2, <2>3, <2>4
<1>4. QED
  BY <1>3

\* From x a walk goes on to next[x] until it stops, or finds nothing.
Step(f, here, name, stop, next, x) ==
  IF ~here[x] THEN <<>>
  ELSE <<name[x]>> \o (IF stop[x] THEN <<>> ELSE f[next[x]])

Walks(f, S, here, name, stop, next) == f = [x \in S |-> Step(f, here, name, stop, next, x)]

LEMMA WalkExists ==
  ASSUME NEW S, NEW here, NEW name, NEW stop, NEW next, NEW K \in Nat,
         NEW rank \in [S -> 0 .. K],
         \A x \in S : here[x] /\ ~stop[x] => next[x] \in S /\ rank[next[x]] < rank[x]
  PROVE  \E f : Walks(f, S, here, name, stop, next)
<1> DEFINE Up(f, n) == \A x \in S : rank[x] < n => f[x] = Step(f, here, name, stop, next, x)
           N == {n \in Nat : \E f : DOMAIN f = S /\ f = [x \in S |-> f[x]] /\ Up(f, n)}
<1>1. 0 \in N
  <2>1. Up([x \in S |-> <<>>], 0)
    OBVIOUS
  <2>2. QED
    BY <2>1
<1>2. ASSUME NEW n \in Nat, n \in N PROVE n + 1 \in N
  <2>1. PICK f : DOMAIN f = S /\ Up(f, n)
    BY <1>2
  <2> DEFINE g == [x \in S |-> Step(f, here, name, stop, next, x)]
  <2>2. ASSUME NEW x \in S, rank[x] < n PROVE g[x] = f[x]
    BY <2>1, <2>2
  <2>3. ASSUME NEW x \in S, rank[x] < n + 1
        PROVE  Step(g, here, name, stop, next, x) = Step(f, here, name, stop, next, x)
    <3>1. CASE here[x] /\ ~stop[x]
      <4>1. next[x] \in S /\ rank[next[x]] < n
        BY <2>3, <3>1
      <4>2. g[next[x]] = f[next[x]]
        BY <2>2, <4>1
      <4> HIDE DEF g
      <4>3. QED
        BY <4>2 DEF Step
    <3>2. CASE ~here[x] \/ stop[x]
      <4> HIDE DEF g
      <4>1. QED
        BY <3>2 DEF Step
    <3>3. QED
      BY <3>1, <3>2
  <2>4. Up(g, n + 1)
    BY <2>3
  <2>5. DOMAIN g = S /\ g = [x \in S |-> g[x]]
    OBVIOUS
  <2> HIDE DEF g
  <2>6. QED
    BY <2>4, <2>5
<1>3. Nat \subseteq N
  <2> HIDE DEF N
  <2>1. QED
    BY <1>1, <1>2, AllNumbers
<1>4. K + 1 \in N
  BY <1>3
<1>5. PICK f : DOMAIN f = S /\ f = [x \in S |-> f[x]] /\ Up(f, K + 1)
  BY <1>4
<1>6. \A x \in S : f[x] = Step(f, here, name, stop, next, x)
  BY <1>5
<1>7. f = [x \in S |-> Step(f, here, name, stop, next, x)]
  BY <1>5, <1>6
<1>8. QED
  BY <1>7 DEF Walks

-----------------------------------------------------------------------------
(***************************************************************************)
(* The history is one chain.                                               *)
(***************************************************************************)
LEMMA NodesAreFirst ==
  ASSUME TraceIInv
  PROVE  \E c \in Nat : c <= Len(log) /\ Nodes = 0 .. c - 1 /\ NextIndex = c
<1> DEFINE T == Nat \ Nodes
<1>1. \A i \in Nodes : i \in Nat /\ i < Len(log)
  <2> SUFFICES ASSUME NEW i \in Nodes PROVE i \in Nat /\ i < Len(log)
    OBVIOUS
  <2>1. PICK j \in 1 .. Len(log) : log[j] = Node(i) /\ Node(i).tree = "hist_order"
    BY NodeIs, InTree DEF hist_order
  <2>2. i \in 0 .. j - 1
    BY <2>1, NodeIs, SoundAt DEF NodeSound
  <2>3. QED
    BY <2>2, LogFacts
<1>2. Len(log) \in T
  BY <1>1, LogFacts
<1>3. PICK c \in T : \A m \in T : c <= m
  BY <1>2, LeastNumber
<1>4. c \in Nat /\ c <= Len(log) /\ \A i \in 0 .. c - 1 : i \in Nodes
  BY <1>2, <1>3
<1>5. \A i \in Nodes : i < c
  <2> SUFFICES ASSUME NEW i \in Nodes, c < i PROVE FALSE
    BY <1>1, <1>3
  <2>1. PICK j \in 1 .. Len(log) : log[j] = Node(i) /\ Node(i).tree = "hist_order"
    BY NodeIs, InTree DEF hist_order
  <2>2. i \in Nat /\ c \in 0 .. i - 1
    BY <1>1, <1>4
  <2>3. HoldsNode(log, j - 1, c)
    BY <2>1, <2>2, NodeIs, SoundAt DEF NodeSound
  <2>4. c \in Nodes
    BY <2>3, Before, Has
  <2>5. QED
    BY <1>3, <2>4
<1>6. Nodes = 0 .. c - 1
  <2>1. \A i \in Nodes : i \in 0 .. c - 1
    BY <1>1, <1>4, <1>5
  <2>2. QED
    BY <1>4, <2>1
<1>7. NextIndex = c
  <2>1. CASE c = 0
    BY <1>6, <2>1 DEF NextIndex
  <2>2. CASE c > 0
    <3>1. c - 1 \in Nodes /\ \A j \in Nodes : j \in Int /\ j <= c - 1
      BY <1>4, <1>6, <2>2
    <3>2. (CHOOSE i \in Nodes : \A j \in Nodes : i >= j) = c - 1
      <4>1. \A j \in Nodes : c - 1 >= j
        BY <1>4, <3>1
      <4>2. \A i \in Nodes : i >= c - 1 => i = c - 1
        BY <1>4, <3>1
      <4>3. QED
        BY <3>1, <4>1, <4>2
    <3>3. QED
      BY <1>4, <3>1, <3>2 DEF NextIndex
  <2>3. QED
    BY <1>4, <2>1, <2>2
<1>8. QED
  BY <1>4, <1>6, <1>7

\* A node hangs on the one before it, or its link was cut off.
LEMMA LinksBack ==
  ASSUME TraceIInv, NEW i \in Nat
  PROVE  ParentsOf(i) = <<>> \/ (i > 0 /\ ParentsOf(i) = <<i - 1>>)
<1>1. ASSUME NEW d \in dag_parents, d.index = i PROVE d.parents = LatestParent(i)
  <2>1. PICK j \in 1 .. Len(log) : log[j] = d /\ d.tree = "dag_parents"
    BY InTree DEF dag_parents
  <2>2. QED
    BY <1>1, <2>1, SoundAt DEF LinkSound
<1>2. ParentsOf(i) \in {<<>>, LatestParent(i)}
  BY <1>1 DEF ParentsOf
<1>3. QED
  BY <1>2 DEF LatestParent

LEMMA ChildrenNext ==
  ASSUME TraceIInv, NEW i \in Nodes
  PROVE  Children(i) \subseteq {i + 1}
<1> SUFFICES ASSUME NEW c \in Nodes, i \in ToSet(ParentsOf(c)) PROVE c = i + 1
  BY DEF Children
<1>1. c \in Nat /\ i \in Nat
  BY NodeIs
<1>2. ParentsOf(c) = <<>> \/ (c > 0 /\ ParentsOf(c) = <<c - 1>>)
  BY <1>1, LinksBack
<1>3. i = c - 1
  BY <1>2 DEF ToSet
<1>4. QED
  BY <1>1, <1>3

AncestorStep(f, j) ==
  IF ~HasNode(j) THEN <<>>
  ELSE <<Node(j).id>> \o (IF ParentsOf(j) = <<>> THEN <<>> ELSE f[Head(ParentsOf(j))])

AncestorWalk(f) == f = [j \in Nat |-> AncestorStep(f, j)]

LEMMA AncestorsAreWalk ==
  ASSUME NEW i
  PROVE  Ancestors(i) = (CHOOSE f : AncestorWalk(f))[i]
BY DEF Ancestors, AncestorWalk, AncestorStep

LEMMA AncestorWalkExists ==
  ASSUME TraceIInv
  PROVE  \E f : AncestorWalk(f)
<1> DEFINE here == [j \in Nat |-> HasNode(j)]
           name == [j \in Nat |-> Node(j).id]
           stop == [j \in Nat |-> ParentsOf(j) = <<>>]
           next == [j \in Nat |-> Head(ParentsOf(j))]
           rank == [j \in Nat |-> IF HasNode(j) THEN j ELSE 0]
<1>1. PICK c \in Nat : Nodes = 0 .. c - 1
  BY NodesAreFirst
<1>2. rank \in [Nat -> 0 .. c]
  BY <1>1 DEF HasNode
<1>3. ASSUME NEW j \in Nat, here[j], ~stop[j] PROVE next[j] \in Nat /\ rank[next[j]] < rank[j]
  <2>1. HasNode(j) /\ j > 0 /\ ParentsOf(j) = <<j - 1>>
    BY <1>3, LinksBack
  <2>2. next[j] = j - 1 /\ rank[j] = j
    BY <2>1
  <2>3. j - 1 \in Nat /\ rank[j - 1] \in {0, j - 1}
    BY <2>1
  <2>4. QED
    BY <2>1, <2>2, <2>3
<1>4. PICK f : Walks(f, Nat, here, name, stop, next)
  <2> HIDE DEF here, name, stop, next, rank
  <2>1. QED
    BY <1>2, <1>3, WalkExists
<1>5. \A j \in Nat : Step(f, here, name, stop, next, j) = AncestorStep(f, j)
  BY DEF Step, AncestorStep
<1> HIDE DEF here, name, stop, next, rank
<1>6. f = [j \in Nat |-> AncestorStep(f, j)]
  BY <1>4, <1>5 DEF Walks
<1>7. QED
  BY <1>6 DEF AncestorWalk

LEMMA AncestorsStep ==
  ASSUME TraceIInv, NEW i \in Nodes, i # 0, ParentsOf(i) # <<>>
  PROVE  Ancestors(i) = <<Node(i).id>> \o Ancestors(i - 1)
<1> DEFINE f == CHOOSE g : AncestorWalk(g)
<1>1. AncestorWalk(f)
  BY AncestorWalkExists
<1>2. Ancestors(i) = f[i] /\ Ancestors(i - 1) = f[i - 1]
  BY AncestorsAreWalk
<1> HIDE DEF f
<1>3. i \in Nat /\ HasNode(i) /\ ParentsOf(i) = <<i - 1>>
  BY NodeIs, LinksBack
<1>4. f[i] = AncestorStep(f, i)
  BY <1>1, <1>3 DEF AncestorWalk
<1>5. Head(ParentsOf(i)) = i - 1
  BY <1>3
<1>6. AncestorStep(f, i) = <<Node(i).id>> \o f[i - 1]
  BY <1>3, <1>5 DEF AncestorStep
<1>7. QED
  BY <1>2, <1>4, <1>6

LEMMA ChainHolds == TraceIInv => TraceIsChain
<1> SUFFICES ASSUME TraceIInv PROVE TraceIsChain
  OBVIOUS
<1>1. Nodes = 0 .. Cardinality(Nodes) - 1
  <2>1. PICK c \in Nat : Nodes = 0 .. c - 1
    BY NodesAreFirst
  <2>2. Cardinality(0 .. c - 1) = c
    BY FS_Interval
  <2>3. QED
    BY <2>1, <2>2
<1>2. QED
  BY <1>1, ChildrenNext, AncestorsStep DEF TraceIsChain

-----------------------------------------------------------------------------
(***************************************************************************)
(* The trace is readable.                                                  *)
(***************************************************************************)
\* The position of the hypothesis of an id, or 0.
Place(id) ==
  IF HasHypothesis(id)
  THEN CHOOSE j \in 1 .. Len(log) : log[j].tree = "hypotheses" /\ log[j].id = id ELSE 0

\* A hypothesis comes after its parent.
LEMMA ParentBefore ==
  ASSUME TraceIInv, NEW id \in Ids
  PROVE  /\ Place(id) \in 0 .. Len(log)
         /\ HasHypothesis(id) /\ Hypothesis(id).parent # None =>
              /\ Hypothesis(id).parent \in Ids /\ HasHypothesis(Hypothesis(id).parent)
              /\ Place(Hypothesis(id).parent) < Place(id)
<1>1. CASE ~HasHypothesis(id)
  BY <1>1, LogFacts DEF Place
<1>2. CASE HasHypothesis(id)
  <2> DEFINE j == Place(id)
             h == Hypothesis(id)
             p == h.parent
  <2>1. h \in hypotheses /\ h.id = id
    BY <1>2 DEF Hypothesis, HasHypothesis
  <2>2. ASSUME NEW x, HasHypothesis(x)
        PROVE  /\ Place(x) \in 1 .. Len(log)
               /\ log[Place(x)].tree = "hypotheses" /\ log[Place(x)].id = x
    <3>1. \E k \in 1 .. Len(log) : log[k].tree = "hypotheses" /\ log[k].id = x
      BY <2>2, Has DEF Holds
    <3>2. QED
      BY <2>2, <3>1 DEF Place
  <2>3. /\ j \in 1 .. Len(log)
        /\ log[j].tree = "hypotheses" /\ log[j].id = id
    BY <1>2, <2>2
  <2>4. log[j] = h
    <3>1. PICK k \in 1 .. Len(log) : log[k] = h /\ h.tree = "hypotheses"
      BY <2>1, InTree DEF hypotheses
    <3>2. k = j
      BY <2>1, <2>3, <3>1, OneEntry
    <3>3. QED
      BY <3>1, <3>2
  <2>5. ASSUME p # None PROVE p \in Ids /\ HasHypothesis(p) /\ Place(p) < j
    <3>1. Holds(log, j - 1, "hypotheses", p)
      BY <2>3, <2>4, <2>5, SoundAt DEF HypothesisSound
    <3>2. PICK k \in 1 .. j - 1 : log[k].tree = "hypotheses" /\ log[k].id = p
      BY <3>1 DEF Holds
    <3>3. HasHypothesis(p)
      BY <2>1, <2>5, HypothesisIs
    <3>4. p \in Ids
      BY <3>3, HypothesisIs DEF HasHypothesis
    <3>5. k \in 1 .. Len(log) /\ k < j
      BY <2>3, <3>2, LogFacts
    <3>6. Place(p) \in 1 .. Len(log) /\ log[Place(p)].tree = "hypotheses" /\ log[Place(p)].id = p
      BY <2>2, <3>3
    <3>7. Place(p) = k
      BY <3>2, <3>5, <3>6, OneEntry
    <3>8. QED
      BY <3>3, <3>4, <3>5, <3>7
  <2> HIDE DEF j, h, p
  <2>6. j \in 0 .. Len(log)
    BY <2>3
  <2>7. QED
    BY <2>5, <2>6 DEF j, h, p
<1>3. QED
  BY <1>1, <1>2

LineageStep(f, x) ==
  IF ~HasHypothesis(x) THEN <<>>
  ELSE <<x>> \o (IF Hypothesis(x).parent = None THEN <<>> ELSE f[Hypothesis(x).parent])

LineageWalk(f) == f = [x \in Ids |-> LineageStep(f, x)]

LEMMA LineageIsWalk ==
  ASSUME NEW id
  PROVE  AncestorChain(id) = (CHOOSE f : LineageWalk(f))[id]
BY DEF AncestorChain, LineageWalk, LineageStep

LEMMA LineageWalkExists ==
  ASSUME TraceIInv
  PROVE  \E f : LineageWalk(f)
<1> DEFINE here == [x \in Ids |-> HasHypothesis(x)]
           name == [x \in Ids |-> x]
           stop == [x \in Ids |-> Hypothesis(x).parent = None]
           next == [x \in Ids |-> Hypothesis(x).parent]
           rank == [x \in Ids |-> Place(x)]
<1>1. rank \in [Ids -> 0 .. Len(log)]
  BY ParentBefore
<1>2. \A x \in Ids : here[x] /\ ~stop[x] => next[x] \in Ids /\ rank[next[x]] < rank[x]
  BY ParentBefore
<1>3. PICK f : Walks(f, Ids, here, name, stop, next)
  <2> HIDE DEF here, name, stop, next, rank
  <2>1. QED
    BY <1>1, <1>2, WalkExists, LogFacts
<1>4. \A x \in Ids : Step(f, here, name, stop, next, x) = LineageStep(f, x)
  BY DEF Step, LineageStep
<1> HIDE DEF here, name, stop, next, rank
<1>5. f = [x \in Ids |-> LineageStep(f, x)]
  BY <1>3, <1>4 DEF Walks
<1>6. QED
  BY <1>5 DEF LineageWalk

Rooted(s) == s \in Seq(Ids) /\ s # <<>> /\ Hypothesis(Last(s)).parent = None

\* The lineage of a hypothesis ends in a root.
LEMMA LineageRooted ==
  ASSUME TraceIInv, NEW id \in Ids, HasHypothesis(id)
  PROVE  Rooted(AncestorChain(id))
<1> DEFINE f == CHOOSE g : LineageWalk(g)
           N == {n \in Nat : \A x \in Ids : HasHypothesis(x) /\ Place(x) < n => Rooted(f[x])}
<1>1. LineageWalk(f)
  BY LineageWalkExists
<1>2. AncestorChain(id) = f[id]
  BY LineageIsWalk
<1> HIDE DEF f
<1>3. 0 \in N
  BY ParentBefore
<1>4. ASSUME NEW n \in Nat, n \in N PROVE n + 1 \in N
  <2> SUFFICES ASSUME NEW x \in Ids, HasHypothesis(x), Place(x) < n + 1 PROVE Rooted(f[x])
    OBVIOUS
  <2>1. f[x] = LineageStep(f, x)
    BY <1>1 DEF LineageWalk
  <2>2. CASE Hypothesis(x).parent = None
    <3>1. f[x] = <<x>>
      BY <2>1, <2>2 DEF LineageStep
    <3>2. Last(<<x>>) = x /\ <<x>> \in Seq(Ids) /\ <<x>> # <<>>
      BY DEF Last
    <3>3. QED
      BY <2>2, <3>1, <3>2 DEF Rooted
  <2>3. CASE Hypothesis(x).parent # None
    <3>1. PICK p \in Ids : p = Hypothesis(x).parent /\ HasHypothesis(p) /\ Place(p) < Place(x)
      BY <2>3, ParentBefore
    <3>2. Place(p) < n
      BY <3>1, ParentBefore
    <3>3. Rooted(f[p])
      BY <1>4, <3>1, <3>2
    <3>4. f[x] = <<x>> \o f[p]
      BY <2>1, <2>3, <3>1 DEF LineageStep
    <3>5. PICK s \in Seq(Ids) : s = f[p] /\ s # <<>> /\ Hypothesis(Last(s)).parent = None
      BY <3>3 DEF Rooted
    <3>6. /\ <<x>> \o s \in Seq(Ids) /\ <<x>> \o s # <<>>
          /\ Last(<<x>> \o s) = Last(s)
      BY <3>5 DEF Last
    <3>7. QED
      BY <3>4, <3>5, <3>6 DEF Rooted
  <2>4. QED
    BY <2>2, <2>3
<1>5. Nat \subseteq N
  <2> HIDE DEF N
  <2>1. QED
    BY <1>3, <1>4, AllNumbers
<1>6. Place(id) + 1 \in Nat /\ Place(id) < Place(id) + 1
  BY ParentBefore, LogFacts
<1>7. Rooted(f[id])
  BY <1>5, <1>6
<1>8. QED
  BY <1>2, <1>7

LEMMA IterOfInterval ==
  ASSUME NEW a \in Nat, NEW b \in Nat, a <= b
  PROVE  Iter(a .. b - 1) \in [1 .. b - a -> a .. b - 1]
<1> DEFINE s == [k \in 1 .. b - a |-> a + k - 1]
<1>1. Cardinality(a .. b - 1) = b - a
  <2>1. b - 1 \in Int /\ a \in Int
    OBVIOUS
  <2>2. Cardinality(a .. b - 1) = IF a > b - 1 THEN 0 ELSE (b - 1) - a + 1
    BY <2>1, FS_Interval
  <2>3. QED
    BY <2>2
<1>2. s \in [1 .. b - a -> a .. b - 1] /\ DOMAIN s = 1 .. b - a
  OBVIOUS
<1>3. \A j, k \in DOMAIN s : j < k => s[j] < s[k]
  OBVIOUS
<1> HIDE DEF s
<1>4. QED
  BY <1>1, <1>2, <1>3 DEF Iter

LEMMA LastTwo ==
  ASSUME TraceIInv
  PROVE  LastNodes(2) \subseteq Nodes /\ \E n \in Nat : Iter(LastNodes(2)) \in [1 .. n -> Nodes]
<1>1. PICK c \in Nat : Nodes = 0 .. c - 1
  BY NodesAreFirst
<1>2. PICK a \in Nat : a <= c /\ a = IF c > 2 THEN c - 2 ELSE 0
  OBVIOUS
<1>3. \A i \in Nodes : Cardinality({j \in Nodes : j > i}) = c - 1 - i
  <2> SUFFICES ASSUME NEW i \in 0 .. c - 1 PROVE Cardinality({j \in 0 .. c - 1 : j > i}) = c - 1 - i
    BY <1>1
  <2>1. {j \in 0 .. c - 1 : j > i} = i + 1 .. c - 1
    OBVIOUS
  <2>2. Cardinality(i + 1 .. c - 1) = c - 1 - i
    BY FS_Interval
  <2>3. QED
    BY <2>1, <2>2
<1>4. LastNodes(2) = {i \in 0 .. c - 1 : c - 1 - i < 2}
  BY <1>1, <1>3 DEF LastNodes
<1>5. LastNodes(2) = a .. c - 1
  <2>1. \A i \in Int : i \in 0 .. c - 1 /\ c - 1 - i < 2 <=> i \in a .. c - 1
    BY <1>2
  <2>2. {i \in 0 .. c - 1 : c - 1 - i < 2} = a .. c - 1
    BY <2>1
  <2>3. QED
    BY <1>4, <2>2
<1>6. Iter(a .. c - 1) \in [1 .. c - a -> a .. c - 1]
  BY <1>2, IterOfInterval
<1>7. a .. c - 1 \subseteq Nodes /\ c - a \in Nat
  BY <1>1, <1>2
<1>8. Iter(a .. c - 1) \in [1 .. c - a -> Nodes]
  BY <1>6, <1>7
<1>9. QED
  BY <1>5, <1>7, <1>8

LEMMA ReadableHolds == TraceIInv => TraceReadable
<1> SUFFICES ASSUME TraceIInv PROVE TraceReadable
  OBVIOUS
<1>1. \A i \in Nodes : HasNode(i) /\ HasExperiment(Node(i).id) /\ HasFeedback(Node(i).id)
  BY NodeIs DEF HasNode
<1>2. PromptLines(Cardinality(Ids)) = Iter(LastNodes(Cardinality(Ids)))
  <2>1. PICK n : n = Cardinality(Ids)
    OBVIOUS
  <2>2. {i \in LastNodes(n) : HasNode(i)} = LastNodes(n)
    BY <1>1 DEF LastNodes
  <2>3. QED
    BY <2>1, <2>2 DEF PromptLines
<1>3. ListRecent(2) = Reverse(Iter(LastNodes(2)))
  <2>1. {i \in LastNodes(2) : HasExperiment(Node(i).id)} = LastNodes(2)
    BY <1>1, LastTwo
  <2>2. QED
    BY <2>1 DEF ListRecent
<1>4. ASSUME NEW item \in Range(Listed(2))
      PROVE  Shown(item.experiment) = [hypothesis |-> item.hypothesis,
                                       feedbacks  |-> {item.decision}]
  <2>1. PICK n \in Nat : Iter(LastNodes(2)) \in [1 .. n -> Nodes]
    BY LastTwo
  <2>2. PICK i \in Nodes : item = [experiment |-> Node(i).id,
                                   hypothesis |-> IF HasHypothesis(Node(i).id) THEN Node(i).id ELSE None,
                                   decision   |-> IF HasFeedback(Node(i).id)
                                                  THEN Feedback(Node(i).id).decision ELSE None]
    <3>1. PICK k \in DOMAIN ListRecent(2) :
            item = [experiment |-> Node(ListRecent(2)[k]).id,
                    hypothesis |-> IF HasHypothesis(Node(ListRecent(2)[k]).id)
                                   THEN Node(ListRecent(2)[k]).id ELSE None,
                    decision   |-> IF HasFeedback(Node(ListRecent(2)[k]).id)
                                   THEN Feedback(Node(ListRecent(2)[k]).id).decision ELSE None]
      BY DEF Range, Listed
    <3>2. PICK s \in [1 .. n -> Nodes] : s = Iter(LastNodes(2))
      BY <2>1
    <3>3. DOMAIN Reverse(s) = 1 .. n /\ \A j \in 1 .. n : Reverse(s)[j] \in Nodes
      BY <2>1 DEF Reverse
    <3>4. ListRecent(2)[k] \in Nodes
      BY <1>3, <3>1, <3>2, <3>3
    <3>5. QED
      BY <3>1, <3>4
  <2>3. PICK id : id = Node(i).id
    OBVIOUS
  <2>4. HasExperiment(id) /\ HasFeedback(id) /\ Decisions(id) = {Feedback(id).decision}
    BY <1>1, <2>3, FeedbackIs
  <2>5. /\ item.experiment = id /\ item.decision = Feedback(id).decision
        /\ item.hypothesis = IF HasHypothesis(id) THEN id ELSE None
    BY <2>2, <2>3, <2>4
  <2>6. QED
    BY <2>4, <2>5 DEF Shown
<1>5. \A x \in experiments : HasHypothesis(x.id)
  BY ExperimentIs
<1>6. \A h \in hypotheses : Hypothesis(Last(AncestorChain(h.id))).parent = None
  BY HypothesisIs, LineageRooted DEF Rooted
<1>7. QED
  BY <1>1, <1>2, <1>3, <1>4, <1>5, <1>6 DEF TraceReadable

-----------------------------------------------------------------------------
(***************************************************************************)
(* The iteration in hand.                                                  *)
(***************************************************************************)
Idling   == {"propose", "pausing", "waiting", "returned"}
Unsaved  == {"announce", "code", "compile", "save"}
Filed == {"completed", "promote", "candidate"}
Tested   == {"feedback", "record"} \cup Filed

Hands == [step : Steps, id : Ids \cup {None}, source : Nat, tests : Nat,
          best : Results \cup {None}, decision : BOOLEAN]

Kinds   == {"hypothesis", "completed", "candidate", "retrain", "feedback", "other"}
Letters == [kind : Kinds, id : Ids \cup {None}]
Rows    == [id : Ids, status : {"Compiled", "Promoted"}, source : Nat]

Typed ==
  /\ cur \in Hands
  /\ used \subseteq Ids
  /\ saves \in Seq(Rows)
  /\ kept \in 0 .. Len(saves)
  /\ DOMAIN artifacts = Ids
  /\ chan \in Seq(Letters)
  /\ tally \in [accepted : Nat, rejected : Nat, errors : Nat]
  /\ crashes \in Nat

\* What was written is about ids that were drawn.
Drawn ==
  /\ \A j \in 1 .. Len(log) : log[j].tree = "hypotheses" => log[j].id \in used
  /\ \A i \in DOMAIN saves : saves[i].id \in used

\* A record is saved as compiled, and promoted at most once, after that.
SavesSound ==
  \A i \in DOMAIN saves :
    /\ \A j \in DOMAIN saves : j < i /\ saves[j].id = saves[i].id =>
         saves[j].status = "Compiled" /\ saves[i].status = "Promoted"
    /\ saves[i].status = "Promoted" => artifacts[saves[i].id] = saves[i].source

\* The id in hand is in the trace, and in the store from its save on.
CurDrawn ==
  cur.step \notin Idling => cur.id \in used /\ Holds(log, Len(log), "hypotheses", cur.id)

CurSaved ==
  /\ cur.step \in Unsaved => \A i \in DOMAIN saves : saves[i].id # cur.id
  /\ cur.step \notin Idling \cup Unsaved =>
       /\ \E i \in DOMAIN saves : saves[i].id = cur.id
       /\ \A i \in DOMAIN saves : saves[i].id = cur.id =>
            /\ saves[i].source = cur.source
            /\ saves[i].status = "Promoted" => cur.step = "candidate"
  /\ cur.step \notin Idling \cup Unsaved \cup {"artifact"} => artifacts[cur.id] = cur.source
  /\ cur.step = "candidate" =>
       \E i \in DOMAIN saves : saves[i].id = cur.id /\ saves[i].status = "Promoted"

\* Its experiment, its feedback and its node are there when they were recorded.
CurTested ==
  cur.step \notin Idling =>
    /\ \A j \in 1 .. Len(log) : log[j].tree = "experiments" /\ log[j].id = cur.id =>
         cur.step \in Tested /\ log[j].result = cur.best
    /\ cur.step \in Tested => cur.best \in Results
    /\ cur.step \notin Filed => /\ ~Holds(log, Len(log), "feedbacks", cur.id)
                                    /\ ~Holds(log, Len(log), "hist_order", cur.id)
    /\ cur.step \in Filed => /\ Holds(log, Len(log), "experiments", cur.id)
                                 /\ Holds(log, Len(log), "hist_order", cur.id)
    /\ cur.step \in {"promote", "candidate"} => Accepted(cur.best)

PromotedIn(sv) ==
  {id \in Ids : \E i \in DOMAIN sv : sv[i].id = id /\ sv[i].status = "Promoted"}

Counted ==
  tally.accepted + (IF At("candidate") THEN 1 ELSE 0) <= Cardinality(PromotedIn(saves))

Passed(l, id) ==
  /\ Holds(l, Len(l), "hist_order", id)
  /\ \E j \in 1 .. Len(l) : l[j].tree = "experiments" /\ l[j].id = id /\ Accepted(l[j].result)

PromotedPassed == crashes = 0 => \A id \in PromotedIn(saves) : Passed(log, id)

Heard ==
  \A i \in DOMAIN chan : chan[i].kind = "candidate" =>
    chan[i].id \in PromotedIn(saves) /\ Holds(log, Len(log), "hist_order", chan[i].id)

ResearchIInv ==
  /\ TraceIInv /\ Typed /\ Drawn /\ SavesSound
  /\ CurDrawn /\ CurSaved /\ CurTested
  /\ Counted /\ PromotedPassed /\ Heard

\* The parts that the step of an iteration disturbs when it writes nothing.
LEMMA NothingWritten ==
  ASSUME ResearchIInv, UNCHANGED <<log, durable, saves, kept, artifacts, used, crashes>>
  PROVE  /\ TraceIInv' /\ Drawn' /\ SavesSound' /\ PromotedPassed'
         /\ PromotedIn(saves)' = PromotedIn(saves)
<1>1. TraceIInv'
  BY DEF ResearchIInv, TraceIInv, LogSound, EntrySound, HypothesisSound, ExperimentSound,
         FeedbackSound, NodeSound, LinkSound
<1>2. QED
  BY <1>1 DEF ResearchIInv, Drawn, SavesSound, PromotedPassed, PromotedIn

LEMMA Idle ==
  ASSUME cur'.step \in Idling
  PROVE  CurDrawn' /\ CurSaved' /\ CurTested' /\ (At("candidate"))' = FALSE
BY DEF CurDrawn, CurSaved, CurTested, Idling, Unsaved, At

\* An iteration ends in one of the states without an id; an accepted one is counted.
LEMMA Ends ==
  ASSUME Typed, NEW o \in {"accepted", "rejected", "errors"}, IterationEnds(o)
  PROVE  /\ cur'.step \in Idling
         /\ cur' \in Hands
         /\ tally' \in [accepted : Nat, rejected : Nat, errors : Nat]
         /\ tally'.accepted = tally.accepted
            \/ (o = "accepted" /\ tally'.accepted = tally.accepted + 1)
<1>1. cur' \in {Start, Returned, Pausing, Waiting}
  BY DEF IterationEnds, DaemonGoesOn, CommandGoesOn
<1>2. tally' = tally \/ tally' = [tally EXCEPT ![o] = @ + 1]
  BY DEF IterationEnds, DaemonGoesOn, CommandGoesOn
<1>3. /\ {Start, Returned, Pausing, Waiting} \subseteq Hands
      /\ \A c \in {Start, Returned, Pausing, Waiting} : c.step \in Idling
  <2>1. Start \in Hands /\ Start.step = "propose"
    BY DEF Start, Hands, Steps
  <2>2. \A c \in {"pausing", "waiting", "returned"} :
          [Start EXCEPT !.step = c] \in Hands /\ [Start EXCEPT !.step = c].step = c
    BY <2>1 DEF Hands, Steps
  <2>3. QED
    BY <2>1, <2>2 DEF Returned, Pausing, Waiting, Idling
<1>4. /\ tally' \in [accepted : Nat, rejected : Nat, errors : Nat]
      /\ tally'.accepted = tally.accepted
         \/ (o = "accepted" /\ tally'.accepted = tally.accepted + 1)
  BY <1>2 DEF Typed
<1>5. QED
  BY <1>1, <1>3, <1>4

\* A publish puts one event behind those the receiver keeps.
LEMMA Published ==
  ASSUME Typed, NEW kind \in Kinds, NEW id \in Ids \cup {None}, Publish(kind, id)
  PROVE  /\ chan' \in Seq(Letters)
         /\ \A i \in DOMAIN chan' : chan'[i] = [kind |-> kind, id |-> id]
                                    \/ \E j \in DOMAIN chan : chan'[i] = chan[j]
<1>1. PICK e \in Letters : e = [kind |-> kind, id |-> id]
  BY DEF Letters
<1>2. chan \in Seq(Letters)
  BY DEF Typed
<1>3. \/ chan' = chan
      \/ chan' = Append(chan, e)
      \/ chan' = Append(Tail(chan), e) /\ Len(chan) = Capacity
  BY <1>1 DEF Publish
<1>4. Len(chan) = Capacity => chan # <<>>
  BY ResearchAssumption
<1>5. CASE chan' = chan
  BY <1>2, <1>5
<1>6. CASE chan' = Append(chan, e)
  <2>1. chan' \in Seq(Letters)
    BY <1>2, <1>6
  <2>2. \A i \in DOMAIN chan' : chan'[i] = e \/ (i \in DOMAIN chan /\ chan'[i] = chan[i])
    BY <1>2, <1>6
  <2>3. QED
    BY <1>1, <2>1, <2>2
<1>7. CASE chan' = Append(Tail(chan), e) /\ chan # <<>>
  <2>1. /\ Tail(chan) \in Seq(Letters) /\ Len(Tail(chan)) = Len(chan) - 1
        /\ \A i \in 1 .. Len(Tail(chan)) : Tail(chan)[i] = chan[i + 1]
    BY <1>2, <1>7
  <2>2. PICK t : t = Tail(chan)
    OBVIOUS
  <2>3. chan' \in Seq(Letters) /\ DOMAIN chan' = 1 .. Len(t) + 1
    BY <1>7, <2>1, <2>2
  <2>4. \A i \in DOMAIN chan' : chan'[i] = e \/ (i \in 1 .. Len(t) /\ chan'[i] = t[i])
    BY <1>7, <2>1, <2>2
  <2>5. \A i \in 1 .. Len(t) : i + 1 \in DOMAIN chan /\ t[i] = chan[i + 1]
    BY <1>2, <1>7, <2>1, <2>2
  <2>6. \A i \in DOMAIN chan' : chan'[i] = e \/ \E j \in DOMAIN chan : chan'[i] = chan[j]
    BY <2>4, <2>5
  <2>7. QED
    BY <1>1, <2>3, <2>6
<1>8. QED
  BY <1>3, <1>4, <1>5, <1>6, <1>7

-----------------------------------------------------------------------------
(***************************************************************************)
(* Every step keeps the invariant.                                         *)
(***************************************************************************)
Written == <<log, durable, saves, kept, artifacts, used, crashes>>

LEMMA QuietMove ==
  ASSUME ResearchIInv, UNCHANGED Written, UNCHANGED <<chan, tally>>,
         cur' \in Hands, cur'.step # "candidate", CurDrawn', CurSaved', CurTested'
  PROVE  ResearchIInv'
<1>1. TraceIInv' /\ Drawn' /\ SavesSound' /\ PromotedPassed' /\ PromotedIn(saves)' = PromotedIn(saves)
  BY NothingWritten DEF Written
<1>2. Typed'
  BY DEF ResearchIInv, Typed, Written
<1>3. Counted'
  <2>1. PICK c : c = Cardinality(PromotedIn(saves))
    OBVIOUS
  <2>2. PICK a \in Nat : a = tally.accepted /\ a' = a
    BY DEF ResearchIInv, Typed
  <2>3. a <= c
    <3>1. IsFiniteSet(PromotedIn(saves))
      BY FS_Subset, TraceAssumption DEF PromotedIn
    <3>2. c \in Nat
      BY <2>1, <3>1, FS_CardinalityType
    <3>3. QED
      BY <2>1, <2>2, <3>2 DEF ResearchIInv, Counted
  <2>4. QED
    BY <1>1, <2>1, <2>2, <2>3 DEF Counted, At
<1>4. Heard'
  BY <1>1 DEF ResearchIInv, Heard, Written
<1>5. QED
  BY <1>1, <1>2, <1>3, <1>4 DEF ResearchIInv

LEMMA GenerateCodeKeeps == ASSUME ResearchIInv, GenerateCode PROVE ResearchIInv'
<1>1. UNCHANGED Written /\ UNCHANGED <<chan, tally>>
  BY DEF GenerateCode, Written, traceVars, storeVars, busVars, runVars
<1>2. /\ cur' \in Hands /\ cur'.step = "compile" /\ cur'.id = cur.id /\ cur.step = "code"
  BY DEF GenerateCode, At, ResearchIInv, Typed, Hands, Steps
<1>3. CurDrawn' /\ CurSaved' /\ CurTested'
  BY <1>1, <1>2 DEF Written, ResearchIInv, CurDrawn, CurSaved, CurTested, Idling, Unsaved, Tested,
                    Filed, Holds
<1>4. QED
  BY <1>1, <1>2, <1>3, QuietMove

LEMMA CompilesKeeps == ASSUME ResearchIInv, Compiles PROVE ResearchIInv'
<1>1. UNCHANGED Written /\ UNCHANGED <<chan, tally>>
  BY DEF Compiles, Written, traceVars, storeVars, busVars, runVars
<1>2. /\ cur' \in Hands /\ cur'.step = "save" /\ cur'.id = cur.id /\ cur.step = "compile"
  BY DEF Compiles, At, ResearchIInv, Typed, Hands, Steps
<1>3. CurDrawn' /\ CurSaved' /\ CurTested'
  BY <1>1, <1>2 DEF Written, ResearchIInv, CurDrawn, CurSaved, CurTested, Idling, Unsaved, Tested,
                    Filed, Holds
<1>4. QED
  BY <1>1, <1>2, <1>3, QuietMove

LEMMA FixErrorsKeeps == ASSUME ResearchIInv, FixErrors PROVE ResearchIInv'
<1>1. UNCHANGED Written /\ UNCHANGED <<chan, tally>>
  BY DEF FixErrors, Written, traceVars, storeVars, busVars, runVars
<1>2. /\ cur' \in Hands /\ cur'.step = "compile" /\ cur'.id = cur.id /\ cur.step = "compile"
  <2>1. cur \in Hands /\ cur.source + 1 \in Nat /\ cur.step = "compile"
    BY DEF FixErrors, At, ResearchIInv, Typed, Hands
  <2>2. cur' = [cur EXCEPT !.source = cur.source + 1]
    BY <2>1 DEF FixErrors, Fixed, Hands
  <2>3. QED
    BY <2>1, <2>2 DEF Hands
<1>3. CurDrawn' /\ CurSaved' /\ CurTested'
  BY <1>1, <1>2 DEF Written, ResearchIInv, CurDrawn, CurSaved, CurTested, Idling, Unsaved, Tested,
                    Filed, Holds
<1>4. QED
  BY <1>1, <1>2, <1>3, QuietMove

LEMMA BacktestKeeps ==
  ASSUME ResearchIInv, NEW outcome \in Results \cup {None}, Backtest(outcome) PROVE ResearchIInv'
<1>1. UNCHANGED Written /\ UNCHANGED <<chan, tally>>
  BY DEF Backtest, Written, traceVars, storeVars, busVars, runVars
<1>2. /\ cur' \in Hands /\ cur'.step = "backtest" /\ cur'.id = cur.id /\ cur.step = "backtest"
      /\ cur'.source = cur.source
  <2>1. cur \in Hands /\ cur.tests + 1 \in Nat /\ cur.step = "backtest"
    BY DEF Backtest, At, ResearchIInv, Typed, Hands
  <2>2. PICK best \in Results \cup {None} : cur' = [cur EXCEPT !.tests = cur.tests + 1, !.best = best]
    BY <2>1 DEF Backtest, Hands
  <2>3. QED
    BY <2>1, <2>2 DEF Hands
<1>3. CurDrawn' /\ CurSaved' /\ CurTested'
  BY <1>1, <1>2 DEF Written, ResearchIInv, CurDrawn, CurSaved, CurTested, Idling, Unsaved, Tested,
                    Filed, Holds
<1>4. QED
  BY <1>1, <1>2, <1>3, QuietMove

LEMMA GenerateFeedbackKeeps ==
  ASSUME ResearchIInv, NEW decision \in BOOLEAN, GenerateFeedback(decision) PROVE ResearchIInv'
<1>1. UNCHANGED Written /\ UNCHANGED <<chan, tally>>
  BY DEF GenerateFeedback, Written, traceVars, storeVars, busVars, runVars
<1>2. /\ cur' \in Hands /\ cur'.step = "record" /\ cur'.id = cur.id /\ cur.step = "feedback"
      /\ cur'.source = cur.source /\ cur'.best = cur.best
  BY DEF GenerateFeedback, At, ResearchIInv, Typed, Hands, Steps
<1>3. CurDrawn' /\ CurSaved' /\ CurTested'
  BY <1>1, <1>2 DEF Written, ResearchIInv, CurDrawn, CurSaved, CurTested, Idling, Unsaved, Tested,
                    Filed, Holds
<1>4. QED
  BY <1>1, <1>2, <1>3, QuietMove

\* The waits change the hand and what is unread, which only gets less.
LEMMA WaitKeeps ==
  ASSUME ResearchIInv, PauseEnds \/ Receive \/ ReceiveLagged \/ TimerFires PROVE ResearchIInv'
<1>1. UNCHANGED Written /\ UNCHANGED tally
  BY DEF PauseEnds, Receive, ReceiveLagged, TimerFires, Written, traceVars, storeVars, busVars, runVars
<1>2. TraceIInv' /\ Drawn' /\ SavesSound' /\ PromotedPassed' /\ PromotedIn(saves)' = PromotedIn(saves)
  BY <1>1, NothingWritten DEF Written
<1>3. cur' \in {Start, cur} /\ cur.step \in Idling
  BY DEF PauseEnds, Receive, ReceiveLagged, TimerFires, NewCycle, KeepWaiting, At, Idling
<1>4. cur' \in Hands /\ cur'.step \in Idling
  <2>1. Start \in Hands /\ Start.step = "propose" /\ cur \in Hands
    BY DEF ResearchIInv, Typed, Start, Hands, Steps
  <2>2. QED
    BY <1>3, <2>1 DEF Idling
<1>5. CurDrawn' /\ CurSaved' /\ CurTested' /\ (At("candidate"))' = FALSE
  BY <1>4, Idle
<1>6. chan' \in {chan, Tail(chan)} /\ (chan' # chan => chan # <<>>)
  BY DEF PauseEnds, Receive, ReceiveLagged, TimerFires, busVars
<1>7. chan' \in Seq(Letters) /\ \A i \in DOMAIN chan' : \E j \in DOMAIN chan : chan'[i] = chan[j]
  <2>1. chan \in Seq(Letters)
    BY DEF ResearchIInv, Typed
  <2>2. CASE chan' = chan
    BY <2>1, <2>2
  <2>3. CASE chan' = Tail(chan) /\ chan # <<>>
    <3>1. chan' \in Seq(Letters) /\ \A i \in DOMAIN chan' : i + 1 \in DOMAIN chan /\ chan'[i] = chan[i + 1]
      BY <2>1, <2>3
    <3>2. QED
      BY <3>1
  <2>4. QED
    BY <1>6, <2>2, <2>3
<1>8. Typed'
  BY <1>1, <1>4, <1>7 DEF ResearchIInv, Typed, Written
<1>9. Heard'
  BY <1>1, <1>2, <1>7 DEF ResearchIInv, Heard, Written
<1>10. Counted'
  BY <1>1, <1>2, <1>3, <1>5 DEF ResearchIInv, Counted, At, Idling
<1>11. QED
  BY <1>2, <1>5, <1>8, <1>9, <1>10 DEF ResearchIInv

LEMMA CardinalityIs ==
  ASSUME NEW sv
  PROVE  IsFiniteSet(PromotedIn(sv)) /\ Cardinality(PromotedIn(sv)) \in Nat
<1>1. PromotedIn(sv) \subseteq Ids
  BY DEF PromotedIn
<1>2. QED
  BY <1>1, FS_Subset, FS_CardinalityType, TraceAssumption

\* The iteration fails, wherever it stands.
LEMMA FailsKeeps == ASSUME ResearchIInv, IterationFails PROVE ResearchIInv'
<1>1. UNCHANGED Written /\ UNCHANGED chan
  BY DEF IterationFails, Written, traceVars, storeVars, busVars
<1>2. TraceIInv' /\ Drawn' /\ SavesSound' /\ PromotedPassed' /\ PromotedIn(saves)' = PromotedIn(saves)
  BY <1>1, NothingWritten DEF Written
<1>3. /\ cur' \in Hands /\ cur'.step \in Idling
      /\ tally' \in [accepted : Nat, rejected : Nat, errors : Nat]
      /\ tally'.accepted = tally.accepted
  BY Ends DEF IterationFails, ResearchIInv
<1>4. CurDrawn' /\ CurSaved' /\ CurTested' /\ (At("candidate"))' = FALSE
  BY <1>3, Idle
<1>5. Typed'
  BY <1>1, <1>3 DEF ResearchIInv, Typed, Written
<1>6. Heard'
  BY <1>1, <1>2 DEF ResearchIInv, Heard, Written
<1>7. Counted'
  <2>1. PICK c \in Nat : c = Cardinality(PromotedIn(saves))
    BY CardinalityIs
  <2>2. PICK a \in Nat : a = tally.accepted
    BY DEF ResearchIInv, Typed
  <2>3. a <= c
    BY <2>1, <2>2 DEF ResearchIInv, Counted
  <2>4. QED
    BY <1>2, <1>3, <1>4, <2>1, <2>2, <2>3 DEF Counted
<1>8. QED
  BY <1>2, <1>4, <1>5, <1>6, <1>7 DEF ResearchIInv

\* What is heard of a publish that writes nothing.
LEMMA HeardKept ==
  ASSUME ResearchIInv, UNCHANGED Written, NEW kind \in Kinds, NEW id \in Ids \cup {None},
         Publish(kind, id),
         kind = "candidate" =>
           id \in PromotedIn(saves) /\ Holds(log, Len(log), "hist_order", id)
  PROVE  Heard' /\ chan' \in Seq(Letters)
<1>1. PromotedIn(saves)' = PromotedIn(saves)
  BY NothingWritten DEF Written
<1>2. /\ chan' \in Seq(Letters)
      /\ \A i \in DOMAIN chan' : chan'[i] = [kind |-> kind, id |-> id]
                                 \/ \E j \in DOMAIN chan : chan'[i] = chan[j]
  BY Published DEF ResearchIInv
<1>3. ASSUME NEW i \in DOMAIN chan', chan'[i].kind = "candidate"
      PROVE  chan'[i].id \in PromotedIn(saves) /\ Holds(log, Len(log), "hist_order", chan'[i].id)
  <2>1. CASE chan'[i] = [kind |-> kind, id |-> id]
    BY <1>3, <2>1
  <2>2. CASE \E j \in DOMAIN chan : chan'[i] = chan[j]
    BY <1>3, <2>2 DEF ResearchIInv, Heard
  <2>3. QED
    BY <1>2, <2>1, <2>2
<1>4. QED
  BY <1>1, <1>2, <1>3 DEF Heard, Written

LEMMA OthersPublishKeeps == ASSUME ResearchIInv, OthersPublish PROVE ResearchIInv'
<1>1. UNCHANGED Written /\ UNCHANGED <<tally, cur>>
  BY DEF OthersPublish, Written, traceVars, storeVars, runVars
<1>2. TraceIInv' /\ Drawn' /\ SavesSound' /\ PromotedPassed' /\ PromotedIn(saves)' = PromotedIn(saves)
  BY <1>1, NothingWritten DEF Written
<1>3. PICK kind \in {"retrain", "feedback", "other"} : Publish(kind, None)
  BY DEF OthersPublish
<1>4. Heard' /\ chan' \in Seq(Letters)
  BY <1>1, <1>3, HeardKept DEF Kinds
<1>5. Typed'
  BY <1>1, <1>4 DEF ResearchIInv, Typed, Written
<1>6. CurDrawn' /\ CurSaved' /\ CurTested' /\ Counted'
  BY <1>1, <1>2 DEF Written, ResearchIInv, CurDrawn, CurSaved, CurTested, Counted, At, Holds
<1>7. QED
  BY <1>2, <1>4, <1>5, <1>6 DEF ResearchIInv

LEMMA AnnounceKeeps == ASSUME ResearchIInv, Announce PROVE ResearchIInv'
<1>1. UNCHANGED Written /\ UNCHANGED tally
  BY DEF Announce, Written, traceVars, storeVars, runVars
<1>2. TraceIInv' /\ Drawn' /\ SavesSound' /\ PromotedPassed' /\ PromotedIn(saves)' = PromotedIn(saves)
  BY <1>1, NothingWritten DEF Written
<1>3. cur.id \in Ids \cup {None} /\ Publish("hypothesis", cur.id)
  BY DEF Announce, ResearchIInv, Typed, Hands
<1>4. Heard' /\ chan' \in Seq(Letters)
  BY <1>1, <1>3, HeardKept DEF Kinds
<1>5. cur' \in Hands /\ cur'.step = "code" /\ cur'.id = cur.id /\ cur.step = "announce"
  BY DEF Announce, At, ResearchIInv, Typed, Hands, Steps
<1>6. Typed'
  BY <1>1, <1>4, <1>5 DEF ResearchIInv, Typed, Written
<1>7. CurDrawn' /\ CurSaved' /\ CurTested'
  BY <1>1, <1>5 DEF Written, ResearchIInv, CurDrawn, CurSaved, CurTested, Idling, Unsaved, Tested,
                    Filed, Holds
<1>8. Counted'
  BY <1>1, <1>2, <1>5 DEF ResearchIInv, Counted, At
<1>9. QED
  BY <1>2, <1>4, <1>6, <1>7, <1>8 DEF ResearchIInv

LEMMA PublishCompletedKeeps == ASSUME ResearchIInv, PublishCompleted PROVE ResearchIInv'
<1>1. UNCHANGED Written
  BY DEF PublishCompleted, Written, traceVars, storeVars
<1>2. TraceIInv' /\ Drawn' /\ SavesSound' /\ PromotedPassed' /\ PromotedIn(saves)' = PromotedIn(saves)
  BY <1>1, NothingWritten DEF Written
<1>3. cur.id \in Ids \cup {None} /\ Publish("completed", cur.id) /\ cur.step = "completed"
  BY DEF PublishCompleted, ResearchIInv, Typed, Hands, At
<1>4. Heard' /\ chan' \in Seq(Letters)
  BY <1>1, <1>3, HeardKept DEF Kinds
<1>5. PICK c \in Nat : c = Cardinality(PromotedIn(saves))
  BY CardinalityIs
<1>6. tally.accepted \in Nat /\ tally.accepted <= c
  BY <1>3, <1>5 DEF ResearchIInv, Typed, Counted, At
<1>7. CASE Accepted(cur.best)
  <2>1. cur' = [cur EXCEPT !.step = "promote"] /\ tally' = tally
    BY <1>7 DEF PublishCompleted, runVars
  <2>2. /\ cur' \in Hands /\ cur'.step = "promote" /\ cur'.id = cur.id
        /\ cur'.source = cur.source /\ cur'.best = cur.best
    <3>1. cur \in Hands
      BY DEF ResearchIInv, Typed
    <3>2. QED
      BY <2>1, <3>1 DEF Hands, Steps
  <2>3. Typed'
    BY <1>1, <1>4, <2>1, <2>2 DEF ResearchIInv, Typed, Written
  <2>4. CurDrawn' /\ CurSaved'
    BY <1>1, <1>3, <2>2 DEF Written, ResearchIInv, CurDrawn, CurSaved, Idling, Unsaved, Holds
  <2>5. CurTested'
    BY <1>1, <1>3, <1>7, <2>2 DEF Written, ResearchIInv, CurTested, Idling, Tested, Filed, Holds
  <2>6. Counted'
    BY <1>2, <1>5, <1>6, <2>1, <2>2 DEF Counted, At
  <2>7. QED
    BY <1>2, <1>4, <2>3, <2>4, <2>5, <2>6 DEF ResearchIInv
<1>8. CASE ~Accepted(cur.best)
  <2>1. IterationEnds("rejected")
    BY <1>8 DEF PublishCompleted
  <2>2. /\ cur' \in Hands /\ cur'.step \in Idling
        /\ tally' \in [accepted : Nat, rejected : Nat, errors : Nat]
        /\ tally'.accepted = tally.accepted
    BY <2>1, Ends DEF ResearchIInv
  <2>3. CurDrawn' /\ CurSaved' /\ CurTested' /\ (At("candidate"))' = FALSE
    BY <2>2, Idle
  <2>4. Typed'
    BY <1>1, <1>4, <2>2 DEF ResearchIInv, Typed, Written
  <2>5. Counted'
    BY <1>2, <1>5, <1>6, <2>2, <2>3 DEF Counted
  <2>6. QED
    BY <1>2, <1>4, <2>3, <2>4, <2>5 DEF ResearchIInv
<1>9. QED
  BY <1>7, <1>8

\* The candidate is promoted in the store, and one of those is not counted yet.
LEMMA PublishCandidateKeeps == ASSUME ResearchIInv, PublishCandidate PROVE ResearchIInv'
<1>1. UNCHANGED Written
  BY DEF PublishCandidate, Written, traceVars, storeVars
<1>2. TraceIInv' /\ Drawn' /\ SavesSound' /\ PromotedPassed' /\ PromotedIn(saves)' = PromotedIn(saves)
  BY <1>1, NothingWritten DEF Written
<1>3. cur.id \in Ids \cup {None} /\ Publish("candidate", cur.id) /\ cur.step = "candidate"
  BY DEF PublishCandidate, ResearchIInv, Typed, Hands, At
<1>4. cur.id \in PromotedIn(saves) /\ Holds(log, Len(log), "hist_order", cur.id)
  <2>1. cur.id \in Ids
    BY <1>3 DEF ResearchIInv, Typed, CurDrawn, Idling
  <2>2. QED
    BY <1>3, <2>1 DEF ResearchIInv, CurSaved, CurTested, PromotedIn, Idling, Filed
<1>5. Heard' /\ chan' \in Seq(Letters)
  BY <1>1, <1>3, <1>4, HeardKept DEF Kinds
<1>6. PICK c \in Nat : c = Cardinality(PromotedIn(saves))
  BY CardinalityIs
<1>7. tally.accepted \in Nat /\ tally.accepted + 1 <= c
  BY <1>3, <1>6 DEF ResearchIInv, Typed, Counted, At
<1>8. /\ cur' \in Hands /\ cur'.step \in Idling
      /\ tally' \in [accepted : Nat, rejected : Nat, errors : Nat]
      /\ tally'.accepted \in {tally.accepted, tally.accepted + 1}
  <2>1. IterationEnds("accepted")
    BY DEF PublishCandidate
  <2>2. QED
    BY <2>1, Ends DEF ResearchIInv
<1>9. CurDrawn' /\ CurSaved' /\ CurTested' /\ (At("candidate"))' = FALSE
  BY <1>8, Idle
<1>10. Typed'
  BY <1>1, <1>5, <1>8 DEF ResearchIInv, Typed, Written
<1>11. Counted'
  BY <1>2, <1>6, <1>7, <1>8, <1>9 DEF Counted
<1>12. QED
  BY <1>2, <1>5, <1>9, <1>10, <1>11 DEF ResearchIInv

\* The artifact file is written once its record is.
LEMMA SaveArtifactKeeps == ASSUME ResearchIInv, SaveArtifact PROVE ResearchIInv'
<1>1. UNCHANGED <<log, durable, saves, kept, used, crashes, chan, tally>> /\ cur.step = "artifact"
  BY DEF SaveArtifact, traceVars, busVars, runVars, At
<1>2. /\ cur' \in Hands /\ cur'.step = "backtest" /\ cur'.id = cur.id
      /\ cur'.source = cur.source /\ cur'.best = cur.best
  <2>1. cur \in Hands /\ cur' = [cur EXCEPT !.step = "backtest"]
    BY DEF SaveArtifact, ResearchIInv, Typed
  <2>2. QED
    BY <2>1 DEF Hands, Steps
<1>3. cur.id \in Ids /\ DOMAIN artifacts = Ids
  BY <1>1 DEF ResearchIInv, Typed, CurDrawn, Idling
<1>4. /\ artifacts'[cur.id] = cur.source /\ DOMAIN artifacts' = Ids
      /\ \A id \in Ids : id # cur.id => artifacts'[id] = artifacts[id]
  BY <1>3 DEF SaveArtifact
<1>5. TraceIInv' /\ Drawn' /\ PromotedPassed' /\ Heard' /\ PromotedIn(saves)' = PromotedIn(saves)
  <2>1. TraceIInv'
    BY <1>1 DEF ResearchIInv, TraceIInv, LogSound, EntrySound, HypothesisSound, ExperimentSound,
                FeedbackSound, NodeSound, LinkSound
  <2>2. QED
    BY <1>1, <2>1 DEF ResearchIInv, Drawn, PromotedPassed, PromotedIn, Heard
<1>6. Typed'
  BY <1>1, <1>2, <1>4 DEF ResearchIInv, Typed
<1>7. SavesSound'
  <2>1. \A i \in DOMAIN saves : saves[i].id \in Ids
    BY DEF ResearchIInv, Drawn, Typed
  <2>2. \A i \in DOMAIN saves : saves[i].status = "Promoted" => saves[i].id # cur.id
    BY <1>1 DEF ResearchIInv, CurSaved, Idling, Unsaved
  <2>3. QED
    BY <1>1, <1>4, <2>1, <2>2 DEF ResearchIInv, SavesSound
<1>8. CurDrawn' /\ CurSaved'
  BY <1>1, <1>2, <1>4 DEF ResearchIInv, CurDrawn, CurSaved, Idling, Unsaved, Holds
<1>9. CurTested'
  BY <1>1, <1>2 DEF ResearchIInv, CurTested, Idling, Tested, Filed, Holds
<1>10. Counted'
  BY <1>1, <1>2, <1>5 DEF ResearchIInv, Counted, At
<1>11. QED
  BY <1>5, <1>6, <1>7, <1>8, <1>9, <1>10 DEF ResearchIInv

-----------------------------------------------------------------------------
(***************************************************************************)
(* Saves.                                                                  *)
(***************************************************************************)
\* A save comes behind the others.
LEMMA Appended ==
  ASSUME Typed, NEW row \in Rows, saves' = Append(saves, row)
  PROVE  /\ Len(saves) \in Nat /\ DOMAIN saves = 1 .. Len(saves)
         /\ saves' \in Seq(Rows) /\ Len(saves') = Len(saves) + 1
         /\ DOMAIN saves' = DOMAIN saves \cup {Len(saves) + 1}
         /\ saves'[Len(saves) + 1] = row
         /\ \A i \in DOMAIN saves : saves'[i] = saves[i] /\ i < Len(saves) + 1
<1>1. saves \in Seq(Rows)
  BY DEF Typed
<1>2. QED
  BY <1>1

\* It promotes its id, or nothing.
LEMMA PromotedMore ==
  ASSUME Typed, NEW row \in Rows, saves' = Append(saves, row)
  PROVE  PromotedIn(saves)' = PromotedIn(saves) \cup (IF row.status = "Promoted" THEN {row.id} ELSE {})
<1> DEFINE new == IF row.status = "Promoted" THEN {row.id} ELSE {}
<1>1. /\ DOMAIN saves' = DOMAIN saves \cup {Len(saves) + 1}
      /\ saves'[Len(saves) + 1] = row
      /\ \A i \in DOMAIN saves : saves'[i] = saves[i]
  BY Appended
<1>2. row.id \in Ids
  BY DEF Rows
<1>3. PromotedIn(saves') \subseteq PromotedIn(saves) \cup new
  BY <1>1 DEF PromotedIn
<1>4. PromotedIn(saves) \cup new \subseteq PromotedIn(saves')
  BY <1>1, <1>2 DEF PromotedIn
<1>5. PromotedIn(saves)' = PromotedIn(saves')
  BY DEF PromotedIn
<1> HIDE DEF new
<1>6. PromotedIn(saves)' = PromotedIn(saves) \cup new
  BY <1>3, <1>4, <1>5
<1>7. QED
  BY <1>6 DEF new

\* What the store has under an id is what was saved last.
LEMMA SavedIs ==
  ASSUME Typed, NEW id, NEW k \in DOMAIN saves, saves[k].id = id
  PROVE  \E n \in DOMAIN saves :
           /\ saves[n].id = id /\ k <= n
           /\ \A i \in DOMAIN saves : saves[i].id = id => i <= n
           /\ Saved(id) = [status |-> saves[n].status, source |-> saves[n].source]
<1> DEFINE at == {i \in DOMAIN saves : saves[i].id = id}
<1>1. Len(saves) \in Nat /\ DOMAIN saves = 1 .. Len(saves)
  BY DEF Typed
<1>2. at \in SUBSET (0 .. Len(saves)) /\ at # {} /\ k \in at
  BY <1>1
<1>3. PICK n \in at : \A i \in at : i <= n
  <2> HIDE DEF at
  <2>1. QED
    BY <1>1, <1>2, LargestNumber
<1>4. (CHOOSE i \in at : \A j \in at : i >= j) = n
  <2>1. \A i \in at : i \in Nat
    BY <1>1
  <2> HIDE DEF at
  <2>2. \A i \in at : (\A j \in at : i >= j) <=> i = n
    BY <1>3, <2>1
  <2>3. QED
    BY <1>3, <2>2
<1>5. Saved(id) = [status |-> saves[n].status, source |-> saves[n].source]
  BY <1>2, <1>4 DEF Saved
<1>6. QED
  BY <1>2, <1>3, <1>5

\* The parts that a save of a row leaves alone.
LEMMA StoreMoves ==
  ASSUME ResearchIInv, UNCHANGED <<log, durable, kept, artifacts, used, crashes, chan, tally>>,
         NEW row \in Rows, saves' = Append(saves, row), row.id \in used, cur' \in Hands
  PROVE  /\ TraceIInv' /\ Typed' /\ Drawn'
         /\ PromotedIn(saves) \subseteq PromotedIn(saves)' /\ Heard'
<1>1. TraceIInv'
  BY DEF ResearchIInv, TraceIInv, LogSound, EntrySound, HypothesisSound, ExperimentSound,
         FeedbackSound, NodeSound, LinkSound
<1>2. Typed
  BY DEF ResearchIInv
<1>3. /\ Len(saves) \in Nat /\ saves' \in Seq(Rows) /\ Len(saves') = Len(saves) + 1
      /\ DOMAIN saves' = DOMAIN saves \cup {Len(saves) + 1}
      /\ saves'[Len(saves) + 1] = row
      /\ \A i \in DOMAIN saves : saves'[i] = saves[i]
  BY <1>2, Appended
<1>4. Typed'
  BY <1>2, <1>3 DEF Typed
<1>5. Drawn'
  BY <1>3 DEF ResearchIInv, Drawn
<1>6. PromotedIn(saves) \subseteq PromotedIn(saves)'
  BY <1>2, PromotedMore
<1>7. Heard'
  <2>1. \A i \in DOMAIN chan : chan[i].kind = "candidate" =>
          chan[i].id \in PromotedIn(saves)' /\ Holds(log, Len(log), "hist_order", chan[i].id)
    BY <1>6 DEF ResearchIInv, Heard
  <2>2. QED
    BY <2>1 DEF Heard
<1>8. QED
  BY <1>1, <1>4, <1>5, <1>6, <1>7

\* The id in hand has no save before this one.
LEMMA SaveRecordKeeps == ASSUME ResearchIInv, SaveRecord PROVE ResearchIInv'
<1> DEFINE row == [id |-> cur.id, status |-> "Compiled", source |-> cur.source]
<1>1. /\ UNCHANGED <<log, durable, kept, artifacts, used, crashes, chan, tally>>
      /\ saves' = Append(saves, row) /\ cur.step = "save"
  BY DEF SaveRecord, Save, traceVars, busVars, runVars, At
<1>2. /\ cur' \in Hands /\ cur'.step = "artifact" /\ cur'.id = cur.id
      /\ cur'.source = cur.source /\ cur'.best = cur.best
  <2>1. cur \in Hands /\ cur' = [cur EXCEPT !.step = "artifact"]
    BY DEF SaveRecord, ResearchIInv, Typed
  <2>2. QED
    BY <2>1 DEF Hands, Steps
<1>3. /\ cur.id \in Ids /\ cur.id \in used /\ row \in Rows
      /\ row.id = cur.id /\ row.status = "Compiled" /\ row.source = cur.source
  BY <1>1 DEF ResearchIInv, Typed, CurDrawn, Idling, Hands, Rows
<1> HIDE DEF row
<1>4. /\ DOMAIN saves' = DOMAIN saves \cup {Len(saves) + 1}
      /\ saves'[Len(saves) + 1] = row
      /\ \A i \in DOMAIN saves : saves'[i] = saves[i] /\ i < Len(saves) + 1
      /\ Len(saves) \in Nat /\ DOMAIN saves = 1 .. Len(saves)
  BY <1>1, <1>3, Appended DEF ResearchIInv
<1>5. PromotedIn(saves)' = PromotedIn(saves)
  BY <1>1, <1>3, PromotedMore DEF ResearchIInv
<1>6. TraceIInv' /\ Typed' /\ Drawn' /\ Heard'
  BY <1>1, <1>2, <1>3, StoreMoves
<1>7. \A i \in DOMAIN saves : saves[i].id # cur.id
  BY <1>1 DEF ResearchIInv, CurSaved, Unsaved
<1>8. SavesSound'
  BY <1>1, <1>3, <1>4, <1>7 DEF ResearchIInv, SavesSound
<1>9. CurDrawn'
  BY <1>1, <1>2 DEF ResearchIInv, CurDrawn, Idling, Holds
<1>10. CurSaved'
  BY <1>2, <1>3, <1>4, <1>7 DEF CurSaved, Idling, Unsaved
<1>11. CurTested'
  BY <1>1, <1>2 DEF ResearchIInv, CurTested, Idling, Tested, Filed, Holds
<1>12. Counted' /\ PromotedPassed'
  BY <1>1, <1>2, <1>5 DEF ResearchIInv, Counted, PromotedPassed, Passed, At
<1>13. QED
  BY <1>6, <1>8, <1>9, <1>10, <1>11, <1>12 DEF ResearchIInv

\* One more is promoted: it was tested, and it is in hand to be counted.
LEMMA UpdateStatusKeeps == ASSUME ResearchIInv, UpdateStatus PROVE ResearchIInv'
<1> DEFINE row == [id |-> cur.id, status |-> "Promoted", source |-> Saved(cur.id).source]
<1>1. /\ UNCHANGED <<log, durable, kept, artifacts, used, crashes, chan, tally>>
      /\ saves' = Append(saves, row) /\ cur.step = "promote"
  BY DEF UpdateStatus, Save, traceVars, busVars, runVars, At
<1>2. /\ cur' \in Hands /\ cur'.step = "candidate" /\ cur'.id = cur.id
      /\ cur'.source = cur.source /\ cur'.best = cur.best
  <2>1. cur \in Hands /\ cur' = [cur EXCEPT !.step = "candidate"]
    BY DEF UpdateStatus, ResearchIInv, Typed
  <2>2. QED
    BY <2>1 DEF Hands, Steps
<1>3. /\ \A i \in DOMAIN saves : saves[i].id = cur.id =>
           saves[i].source = cur.source /\ saves[i].status # "Promoted"
      /\ \E i \in DOMAIN saves : saves[i].id = cur.id
      /\ artifacts[cur.id] = cur.source
  BY <1>1 DEF ResearchIInv, CurSaved, Idling, Unsaved
<1>4. Saved(cur.id).source = cur.source
  BY <1>3, SavedIs DEF ResearchIInv
<1>5. /\ cur.id \in Ids /\ cur.id \in used /\ row \in Rows
      /\ row.id = cur.id /\ row.status = "Promoted" /\ row.source = cur.source
  BY <1>1, <1>4 DEF ResearchIInv, Typed, CurDrawn, Idling, Hands, Rows
<1> HIDE DEF row
<1>6. /\ DOMAIN saves' = DOMAIN saves \cup {Len(saves) + 1}
      /\ saves'[Len(saves) + 1] = row
      /\ \A i \in DOMAIN saves : saves'[i] = saves[i] /\ i < Len(saves) + 1
      /\ Len(saves) \in Nat /\ DOMAIN saves = 1 .. Len(saves)
  BY <1>1, <1>5, Appended DEF ResearchIInv
<1>7. PromotedIn(saves)' = PromotedIn(saves) \cup {cur.id} /\ cur.id \notin PromotedIn(saves)
  BY <1>1, <1>3, <1>5, PromotedMore DEF ResearchIInv, PromotedIn
<1>8. TraceIInv' /\ Typed' /\ Drawn' /\ Heard'
  BY <1>1, <1>2, <1>5, StoreMoves
<1>9. SavesSound'
  <2>1. \A i \in DOMAIN saves : saves[i] \in Rows
    BY DEF ResearchIInv, Typed
  <2>2. \A i \in DOMAIN saves : saves[i].status \in {"Compiled", "Promoted"}
    BY <2>1 DEF Rows
  <2>3. QED
    BY <1>1, <1>3, <1>5, <1>6, <2>2 DEF ResearchIInv, SavesSound
<1>10. CurDrawn'
  BY <1>1, <1>2 DEF ResearchIInv, CurDrawn, Idling, Holds
<1>11. CurSaved'
  BY <1>1, <1>2, <1>3, <1>5, <1>6 DEF CurSaved, Idling, Unsaved
<1>12. CurTested'
  BY <1>1, <1>2 DEF ResearchIInv, CurTested, Idling, Tested, Filed, Holds
<1>13. Counted'
  <2>1. PICK c \in Nat : c = Cardinality(PromotedIn(saves)) /\ IsFiniteSet(PromotedIn(saves))
    BY CardinalityIs
  <2>2. Cardinality(PromotedIn(saves)') = c + 1
    BY <1>7, <2>1, FS_AddElement
  <2>3. tally.accepted \in Nat /\ tally.accepted <= c
    BY <1>1, <2>1 DEF ResearchIInv, Typed, Counted, At
  <2>4. QED
    BY <1>1, <1>2, <2>2, <2>3 DEF Counted, At
<1>14. PromotedPassed'
  <2>1. Passed(log, cur.id)
    BY <1>1 DEF ResearchIInv, CurTested, Idling, Filed, Passed, Holds
  <2>2. QED
    BY <1>1, <1>7, <2>1 DEF ResearchIInv, PromotedPassed
<1>15. QED
  BY <1>8, <1>9, <1>10, <1>11, <1>12, <1>13, <1>14 DEF ResearchIInv

-----------------------------------------------------------------------------
(***************************************************************************)
(* Writes to the trace.                                                    *)
(***************************************************************************)
\* New entries come behind the others.
LEMMA Longer ==
  ASSUME TraceIInv, NEW T, NEW s \in Seq(T), log' = log \o s
  PROVE  /\ Begins(log, log') /\ Len(s) \in Nat /\ Len(log') = Len(log) + Len(s)
         /\ \A k \in 1 .. Len(s) : log'[Len(log) + k] = s[k]
         /\ \E S : log' \in Seq(S)
<1>1. PICK S : log \in Seq(S)
  BY DEF TraceIInv
<1>2. PICK l : l = log
  OBVIOUS
<1>3. l \in Seq(S \cup T) /\ s \in Seq(S \cup T)
  BY <1>1, <1>2
<1>4. /\ l \o s \in Seq(S \cup T) /\ Len(l \o s) = Len(l) + Len(s) /\ Len(l) \in Nat /\ Len(s) \in Nat
      /\ \A k \in 1 .. Len(l) : (l \o s)[k] = l[k]
      /\ \A k \in 1 .. Len(s) : (l \o s)[Len(l) + k] = s[k]
  BY <1>3
<1>5. QED
  BY <1>2, <1>4 DEF Begins

\* If they are sound, so is the log.
LEMMA TraceGrows ==
  ASSUME TraceIInv, NEW T, NEW s \in Seq(T), log' = log \o s, durable' = durable,
         \A k \in 1 .. Len(s) : EntrySound(log', Len(log) + k)
  PROVE  TraceIInv'
<1>1. /\ Begins(log, log') /\ Len(s) \in Nat /\ Len(log') = Len(log) + Len(s) /\ Len(log) \in Nat
      /\ \E S : log' \in Seq(S)
  BY Longer, LogFacts
<1>2. \A k \in Len(log) + 1 .. Len(log') : EntrySound(log', k)
  <2> SUFFICES ASSUME NEW k \in Len(log) + 1 .. Len(log') PROVE EntrySound(log', k)
    OBVIOUS
  <2>1. k - Len(log) \in 1 .. Len(s) /\ k = Len(log) + (k - Len(log))
    BY <1>1
  <2>2. QED
    BY <2>1
<1>3. LogSound(log')
  BY <1>1, <1>2, GrownSound DEF TraceIInv
<1>4. durable' \in 0 .. Len(log')
  BY <1>1 DEF TraceIInv
<1>5. (LogSound(log))' = LogSound(log')
  BY DEF LogSound, EntrySound, HypothesisSound, ExperimentSound, FeedbackSound, NodeSound,
         LinkSound, Holds, HoldsNode
<1>6. QED
  BY <1>1, <1>3, <1>4, <1>5 DEF TraceIInv

\* What was there stays there.
LEMMA StaysThere ==
  ASSUME ResearchIInv, Begins(log, log'), UNCHANGED <<saves, chan, crashes>>
  PROVE  PromotedPassed' /\ Heard' /\ PromotedIn(saves)' = PromotedIn(saves)
<1>1. PromotedIn(saves)' = PromotedIn(saves)
  BY DEF PromotedIn
<1>2. /\ Len(log) \in Nat /\ Len(log') \in Nat /\ Len(log') \in Len(log) .. Len(log')
      /\ \A j \in 1 .. Len(log) : j \in 1 .. Len(log') /\ log'[j] = log[j]
  BY DEF Begins
<1>3. \A t, x : Holds(log, Len(log), t, x) => Holds(log', Len(log'), t, x)
  BY <1>2, HoldsMore
<1>4. \A x : Passed(log, x) => Passed(log', x)
  BY <1>2, <1>3 DEF Passed
<1>5. PromotedPassed'
  <2>1. crashes' = 0 => \A id \in PromotedIn(saves)' : Passed(log', id)
    BY <1>1, <1>4 DEF ResearchIInv, PromotedPassed
  <2>2. QED
    BY <2>1 DEF PromotedPassed, Passed, Holds
<1>6. Heard'
  <2>1. \A i \in DOMAIN chan' : chan'[i].kind = "candidate" =>
          chan'[i].id \in PromotedIn(saves)' /\ Holds(log', Len(log'), "hist_order", chan'[i].id)
    BY <1>1, <1>3 DEF ResearchIInv, Heard
  <2>2. QED
    BY <2>1 DEF Heard, Holds
<1>7. QED
  BY <1>1, <1>5, <1>6

\* An id that the trace knows was drawn.
LEMMA InUse ==
  ASSUME ResearchIInv, NEW j \in 1 .. Len(log),
         log[j].tree \in {"hypotheses", "experiments", "feedbacks", "hist_order"}
  PROVE  log[j].id \in used
<1>1. TraceIInv /\ \A k \in 1 .. Len(log) : log[k].tree = "hypotheses" => log[k].id \in used
  BY DEF ResearchIInv, Drawn
<1>2. ASSUME NEW k \in 1 .. Len(log), log[k].tree = "experiments" PROVE log[k].id \in used
  <2>1. Holds(log, k - 1, "hypotheses", log[k].id)
    BY <1>1, <1>2, SoundAt DEF ExperimentSound
  <2>2. QED
    BY <1>1, <2>1, Before DEF Holds
<1>3. log[j].tree \in {"feedbacks", "hist_order"} => Holds(log, j - 1, "experiments", log[j].id)
  BY <1>1, SoundAt DEF FeedbackSound, NodeSound
<1>4. log[j].tree \in {"feedbacks", "hist_order"} => Holds(log, Len(log), "experiments", log[j].id)
  BY <1>1, <1>3, Before
<1>5. QED
  BY <1>1, <1>2, <1>4 DEF Holds

LEMMA BestIsThere ==
  ASSUME TraceIInv, BestExperiment # None
  PROVE  Holds(log, Len(log), "hypotheses", BestExperiment)
<1>1. AcceptedByFeedback # {} /\ AcceptedByFeedback \subseteq Nat
  BY TraceAssumption DEF BestExperiment, AcceptedByFeedback
<1>2. \E id \in AcceptedByFeedback : \A x \in AcceptedByFeedback : id <= x
  BY <1>1, LeastNumber
<1>3. BestExperiment \in AcceptedByFeedback
  BY <1>1, <1>2 DEF BestExperiment
<1>4. HasExperiment(BestExperiment)
  BY <1>3 DEF AcceptedByFeedback
<1>5. HasHypothesis(BestExperiment)
  BY <1>4, ExperimentIs DEF HasExperiment
<1>6. QED
  BY <1>5, Has

LEMMA ProposeKeeps == ASSUME ResearchIInv, NEW id \in Ids, Propose(id) PROVE ResearchIInv'
<1> DEFINE e == [tree |-> "hypotheses", id |-> id, parent |-> BestExperiment]
           n == Len(log) + 1
<1>1. /\ UNCHANGED <<durable, saves, kept, artifacts, crashes, chan, tally>>
      /\ log' = Append(log, e) /\ cur.step = "propose"
      /\ id \notin used /\ used' = used \cup {id}
  BY DEF Propose, SaveHypothesis, storeVars, busVars, runVars, At
<1>2. /\ e.tree = "hypotheses" /\ e.id = id /\ e.parent = BestExperiment /\ <<e>> \in Seq({e})
      /\ Len(<<e>>) = 1 /\ <<e>>[1] = e
  OBVIOUS
<1>3. TraceIInv /\ Len(log) \in Nat
  BY LogFacts DEF ResearchIInv
<1> HIDE DEF e
<1>4. log' = log \o <<e>>
  BY <1>1, <1>3 DEF TraceIInv
<1>5. /\ Begins(log, log') /\ Len(log') = n /\ log'[n] = e
      /\ \A k \in 1 .. Len(log) : log'[k] = log[k]
  BY <1>2, <1>3, <1>4, Longer DEF Begins
<1>6. cur' \in Hands /\ cur'.step = "announce" /\ cur'.id = id
  <2>1. cur \in Hands /\ cur' = [cur EXCEPT !.step = "announce", !.id = id]
    BY DEF Propose, ResearchIInv, Typed
  <2>2. QED
    BY <2>1 DEF Hands, Steps
<1>7. TraceIInv'
  <2>1. HypothesisSound(log', n)
    <3>1. ~Holds(log, Len(log), "hypotheses", id)
      BY <1>1, InUse DEF Holds
    <3>2. n - 1 = Len(log)
      BY <1>3
    <3>3. \A x : Holds(log', n - 1, "hypotheses", x) <=> Holds(log, Len(log), "hypotheses", x)
      BY <1>3, <1>5, <3>2, SameHolds
    <3>4. BestExperiment # None => Holds(log, Len(log), "hypotheses", BestExperiment)
      BY <1>3, BestIsThere
    <3>5. QED
      BY <1>2, <1>5, <3>1, <3>3, <3>4 DEF HypothesisSound
  <2>2. EntrySound(log', n)
    BY <1>2, <1>5, <2>1 DEF EntrySound, ExperimentSound, FeedbackSound, NodeSound, LinkSound
  <2>3. \A k \in 1 .. Len(<<e>>) : EntrySound(log', Len(log) + k)
    <3>1. \A k \in 1 .. Len(<<e>>) : k = 1
      BY <1>2
    <3>2. QED
      BY <2>2, <3>1
  <2>4. QED
    BY <1>1, <1>2, <1>3, <1>4, <2>3, TraceGrows
<1>8. DOMAIN saves = DOMAIN saves' /\ \A i \in DOMAIN saves : saves'[i] = saves[i] /\ saves[i].id \in used
  BY <1>1 DEF ResearchIInv, Drawn
<1>9. PromotedPassed' /\ Heard' /\ PromotedIn(saves)' = PromotedIn(saves)
  BY <1>1, <1>5, StaysThere
<1>10. Typed'
  BY <1>1, <1>6 DEF ResearchIInv, Typed
<1>11. \A j \in 1 .. Len(log') : j \in 1 .. Len(log) \/ j = n
  BY <1>3, <1>5
<1>12. Drawn'
  BY <1>1, <1>2, <1>5, <1>8, <1>11 DEF ResearchIInv, Drawn
<1>13. SavesSound'
  BY <1>1 DEF ResearchIInv, SavesSound
<1>14. CurDrawn'
  <2>1. id \in used' /\ n \in 1 .. Len(log') /\ log'[n].tree = "hypotheses" /\ log'[n].id = id
    BY <1>1, <1>2, <1>3, <1>5
  <2>2. QED
    BY <1>6, <2>1 DEF CurDrawn, Holds
<1>15. CurSaved'
  BY <1>1, <1>6, <1>8 DEF CurSaved, Idling, Unsaved
<1>16. CurTested'
  <2>1. ASSUME NEW j \in 1 .. Len(log'), log'[j].tree \in {"experiments", "feedbacks", "hist_order"}
        PROVE  log'[j].id # id
    <3>1. j \in 1 .. Len(log) /\ log'[j] = log[j]
      BY <1>2, <1>5, <1>11, <2>1
    <3>2. QED
      BY <1>1, <2>1, <3>1, InUse
  <2>2. QED
    BY <1>6, <2>1 DEF CurTested, Tested, Filed, Holds
<1>17. Counted'
  BY <1>1, <1>6, <1>9 DEF ResearchIInv, Counted, At
<1>18. QED
  BY <1>7, <1>9, <1>10, <1>12, <1>13, <1>14, <1>15, <1>16, <1>17 DEF ResearchIInv

LEMMA SaveTestedKeeps == ASSUME ResearchIInv, SaveTested PROVE ResearchIInv'
<1> DEFINE e == ExperimentEntry(cur.id, cur.best)
           n == Len(log) + 1
<1>1. /\ UNCHANGED <<durable, saves, kept, artifacts, used, crashes, chan, tally>>
      /\ log' = Append(log, e) /\ cur.step = "backtest" /\ cur.best \in Results
  BY DEF SaveTested, SaveExperiment, storeVars, busVars, runVars, At, ResearchIInv, Typed, Hands
<1>2. /\ e.tree = "experiments" /\ e.id = cur.id /\ e.result = cur.best /\ <<e>> \in Seq({e})
      /\ Len(<<e>>) = 1 /\ <<e>>[1] = e
  BY DEF ExperimentEntry
<1>3. TraceIInv /\ Len(log) \in Nat
  BY LogFacts DEF ResearchIInv
<1>4. e = ExperimentEntry(e.id, e.result)
  BY <1>2
<1> HIDE DEF e
<1>5. log' = log \o <<e>>
  BY <1>1, <1>3 DEF TraceIInv
<1>6. /\ Begins(log, log') /\ Len(log') = n /\ log'[n] = e
      /\ \A k \in 1 .. Len(log) : log'[k] = log[k]
  BY <1>2, <1>3, <1>5, Longer DEF Begins
<1>7. /\ cur' \in Hands /\ cur'.step = "feedback" /\ cur'.id = cur.id
      /\ cur'.source = cur.source /\ cur'.best = cur.best
  <2>1. cur \in Hands /\ cur' = [cur EXCEPT !.step = "feedback"]
    BY DEF SaveTested, ResearchIInv, Typed
  <2>2. QED
    BY <2>1 DEF Hands, Steps
<1>8. \A j \in 1 .. Len(log) : ~(log[j].tree = "experiments" /\ log[j].id = cur.id)
  BY <1>1 DEF ResearchIInv, CurTested, Idling, Tested, Filed
<1>9. TraceIInv'
  <2>1. ExperimentSound(log', n)
    <3>1. Holds(log, Len(log), "hypotheses", cur.id)
      BY <1>1 DEF ResearchIInv, CurDrawn, Idling
    <3>2. n - 1 = Len(log)
      BY <1>3
    <3>3. Holds(log', n - 1, "hypotheses", cur.id)
      BY <1>3, <1>6, <3>1, <3>2, SameHolds
    <3>4. \A j \in 1 .. n - 1 : ~(log'[j].tree = "experiments" /\ log'[j].id = cur.id)
      BY <1>6, <1>8, <3>2
    <3>5. QED
      BY <1>1, <1>2, <1>4, <1>6, <3>3, <3>4 DEF ExperimentSound
  <2>2. EntrySound(log', n)
    BY <1>2, <1>6, <2>1 DEF EntrySound, HypothesisSound, FeedbackSound, NodeSound, LinkSound
  <2>3. \A k \in 1 .. Len(<<e>>) : EntrySound(log', Len(log) + k)
    <3>1. \A k \in 1 .. Len(<<e>>) : k = 1
      BY <1>2
    <3>2. QED
      BY <2>2, <3>1
  <2>4. QED
    BY <1>1, <1>2, <1>3, <1>5, <2>3, TraceGrows
<1>10. PromotedPassed' /\ Heard' /\ PromotedIn(saves)' = PromotedIn(saves)
  BY <1>1, <1>6, StaysThere
<1>11. Typed'
  BY <1>1, <1>7 DEF ResearchIInv, Typed
<1>12. \A j \in 1 .. Len(log') : j \in 1 .. Len(log) \/ j = n
  BY <1>3, <1>6
<1>13. Drawn'
  BY <1>1, <1>2, <1>6, <1>12 DEF ResearchIInv, Drawn
<1>14. SavesSound'
  BY <1>1 DEF ResearchIInv, SavesSound
<1>15. CurDrawn'
  <2>1. cur.id \in used /\ Holds(log, Len(log), "hypotheses", cur.id)
    BY <1>1 DEF ResearchIInv, CurDrawn, Idling
  <2>2. Holds(log', Len(log'), "hypotheses", cur.id)
    BY <1>3, <1>6, <2>1, HoldsMore
  <2>3. QED
    BY <1>1, <1>7, <2>1, <2>2 DEF CurDrawn, Holds
<1>16. CurSaved'
  BY <1>1, <1>7 DEF ResearchIInv, CurSaved, Idling, Unsaved
<1>17. CurTested'
  <2>1. \A j \in 1 .. Len(log') : log'[j].tree = "experiments" /\ log'[j].id = cur.id =>
          log'[j].result = cur.best
    BY <1>2, <1>6, <1>8, <1>12
  <2>2. ~Holds(log, Len(log), "feedbacks", cur.id) /\ ~Holds(log, Len(log), "hist_order", cur.id)
    BY <1>1 DEF ResearchIInv, CurTested, Idling, Filed
  <2>3. ~Holds(log', Len(log'), "feedbacks", cur.id) /\ ~Holds(log', Len(log'), "hist_order", cur.id)
    BY <1>2, <1>6, <1>12, <2>2 DEF Holds
  <2>4. QED
    BY <1>1, <1>7, <2>1, <2>3 DEF CurTested, Tested, Filed, Holds
<1>18. Counted'
  BY <1>1, <1>7, <1>10 DEF ResearchIInv, Counted, At
<1>19. QED
  BY <1>9, <1>10, <1>11, <1>13, <1>14, <1>15, <1>16, <1>17, <1>18 DEF ResearchIInv

\* The four entries of a record: each refers to the ones before it.
LEMMA RecordSound ==
  ASSUME TraceIInv, NEW id, NEW result \in Results, NEW decision, Record(id, result, decision),
         durable' = durable,
         Holds(log, Len(log), "hypotheses", id),
         \A j \in 1 .. Len(log) : log[j].tree = "experiments" /\ log[j].id = id =>
           log[j].result = result,
         ~Holds(log, Len(log), "feedbacks", id)
  PROVE  /\ TraceIInv' /\ Begins(log, log') /\ Len(log) \in Nat
         /\ Holds(log', Len(log'), "experiments", id) /\ Holds(log', Len(log'), "hist_order", id)
         /\ \A j \in 1 .. Len(log') : j \in 1 .. Len(log)
              \/ (log'[j].tree = "experiments" /\ log'[j].id = id /\ log'[j].result = result)
              \/ log'[j].tree \in {"feedbacks", "hist_order", "dag_parents"}
<1> DEFINE n == Len(log)
           e == ExperimentEntry(id, result)
           f == FeedbackEntry(id, decision)
           h == [tree |-> "hist_order", index |-> NextIndex, id |-> id]
           d == [tree |-> "dag_parents", index |-> NextIndex, parents |-> LatestParent(NextIndex)]
           s == <<e, f, h, d>>
<1>1. /\ e.tree = "experiments" /\ e.id = id /\ e.result = result
      /\ f.tree = "feedbacks" /\ f.id = id
      /\ h.tree = "hist_order" /\ h.index = NextIndex /\ h.id = id
      /\ d.tree = "dag_parents" /\ d.index = NextIndex /\ d.parents = LatestParent(NextIndex)
  BY DEF ExperimentEntry, FeedbackEntry
<1>2. e = ExperimentEntry(e.id, e.result)
  BY <1>1
<1>3. log' = log \o s
  BY DEF Record
<1> HIDE DEF e, f, h, d
<1>4. s \in Seq({e, f, h, d}) /\ Len(s) = 4 /\ s[1] = e /\ s[2] = f /\ s[3] = h /\ s[4] = d
  OBVIOUS
<1> HIDE DEF s
<1>5. /\ Begins(log, log') /\ Len(log') = n + 4
      /\ \A k \in 1 .. 4 : log'[n + k] = s[k]
  BY <1>3, <1>4, Longer
<1>6. n \in Nat /\ \A j \in 1 .. n : log'[j] = log[j]
  BY <1>5 DEF Begins
<1>7. log'[n + 1] = e /\ log'[n + 2] = f /\ log'[n + 3] = h /\ log'[n + 4] = d
  BY <1>4, <1>5
<1>8. PICK c \in Nat : c <= n /\ Nodes = 0 .. c - 1 /\ NextIndex = c
  BY NodesAreFirst
<1>9. PICK l : l = log'
  OBVIOUS
<1>10. /\ Begins(log, l) /\ Len(l) = n + 4 /\ \A j \in 1 .. n : l[j] = log[j]
       /\ l[n + 1] = e /\ l[n + 2] = f /\ l[n + 3] = h /\ l[n + 4] = d
  BY <1>5, <1>6, <1>7, <1>9
<1> HIDE DEF n
<1>11. /\ n + 1 \in n .. n + 4 /\ n + 2 \in n .. n + 4 /\ n + 3 \in n .. n + 4 /\ n \in n .. n + 4
       /\ (n + 1) - 1 = n /\ (n + 2) - 1 = n + 1 /\ (n + 3) - 1 = n + 2 /\ (n + 4) - 1 = n + 3
  BY <1>6
<1>12. EntrySound(l, n + 1)
  <2>1. Holds(l, n, "hypotheses", id)
    BY <1>6, <1>10, <1>11, HoldsMore DEF n
  <2>2. \A j \in 1 .. n : l[j].tree = "experiments" /\ l[j].id = id => l[j] = e
    <3> SUFFICES ASSUME NEW j \in 1 .. n, log[j].tree = "experiments", log[j].id = id PROVE log[j] = e
      BY <1>10
    <3>1. log[j] = ExperimentEntry(log[j].id, log[j].result) /\ log[j].result = result
      BY SoundAt DEF ExperimentSound, n
    <3>2. QED
      BY <3>1 DEF e
  <2>3. ExperimentSound(l, n + 1)
    BY <1>1, <1>2, <1>10, <1>11, <2>1, <2>2 DEF ExperimentSound
  <2>4. QED
    BY <1>1, <1>10, <2>3 DEF EntrySound, HypothesisSound, FeedbackSound, NodeSound, LinkSound
<1>13. EntrySound(l, n + 2)
  <2>1. Holds(l, n + 1, "experiments", id)
    <3>1. n + 1 \in 1 .. n + 1
      BY <1>6
    <3>2. QED
      BY <1>1, <1>10, <3>1 DEF Holds
  <2>2. ~Holds(l, n + 1, "feedbacks", id)
    <3>1. \A j \in 1 .. n + 1 : j \in 1 .. n \/ j = n + 1
      BY <1>6
    <3>2. QED
      BY <1>1, <1>10, <3>1 DEF Holds, n
  <2>3. FeedbackSound(l, n + 2)
    BY <1>1, <1>10, <1>11, <2>1, <2>2 DEF FeedbackSound
  <2>4. QED
    BY <1>1, <1>10, <2>3 DEF EntrySound, HypothesisSound, ExperimentSound, NodeSound, LinkSound
<1>14. EntrySound(l, n + 3)
  <2>1. Holds(l, n + 2, "experiments", id) /\ Holds(l, n + 2, "feedbacks", id)
    <3>1. n + 1 \in 1 .. n + 2 /\ n + 2 \in 1 .. n + 2
      BY <1>6
    <3>2. QED
      BY <1>1, <1>10, <3>1 DEF Holds
  <2>2. ~HoldsNode(l, n + 2, c)
    <3>1. \A j \in 1 .. n + 2 : j \in 1 .. n \/ j = n + 1 \/ j = n + 2
      BY <1>6
    <3>2. c \notin Nodes
      BY <1>8
    <3>3. ~HoldsNode(log, n, c)
      BY <3>2, Has DEF n
    <3>4. QED
      BY <1>1, <1>10, <3>1, <3>3 DEF HoldsNode
  <2>3. \A i \in 0 .. c - 1 : HoldsNode(l, n + 2, i)
    BY <1>8, <1>10, <1>11, Has, HoldsMore DEF n
  <2>4. c \in 0 .. n + 2
    BY <1>6, <1>8
  <2>5. NodeSound(l, n + 3)
    BY <1>1, <1>8, <1>10, <1>11, <2>1, <2>2, <2>3, <2>4 DEF NodeSound
  <2>6. QED
    BY <1>1, <1>10, <2>5 DEF EntrySound, HypothesisSound, ExperimentSound, FeedbackSound, LinkSound
<1>15. EntrySound(l, n + 4)
  <2>1. HoldsNode(l, n + 3, c)
    <3>1. n + 3 \in 1 .. n + 3
      BY <1>6
    <3>2. QED
      BY <1>1, <1>8, <1>10, <3>1 DEF HoldsNode
  <2>2. LinkSound(l, n + 4)
    BY <1>1, <1>8, <1>10, <1>11, <2>1 DEF LinkSound
  <2>3. QED
    BY <1>1, <1>10, <2>2 DEF EntrySound, HypothesisSound, ExperimentSound, FeedbackSound, NodeSound
<1>16. TraceIInv'
  <2>1. \A k \in 1 .. 4 : k = 1 \/ k = 2 \/ k = 3 \/ k = 4
    OBVIOUS
  <2>2. \A k \in 1 .. 4 : EntrySound(log', n + k)
    BY <1>9, <1>12, <1>13, <1>14, <1>15, <2>1
  <2>3. QED
    BY <1>3, <1>4, <2>2, TraceGrows DEF n
<1>17. Holds(l, Len(l), "experiments", id) /\ Holds(l, Len(l), "hist_order", id)
  <2>1. n + 1 \in 1 .. Len(l) /\ n + 3 \in 1 .. Len(l)
    BY <1>6, <1>10
  <2>2. QED
    BY <1>1, <1>10, <2>1 DEF Holds
<1>18. \A j \in 1 .. Len(l) : j \in 1 .. n
         \/ (l[j].tree = "experiments" /\ l[j].id = id /\ l[j].result = result)
         \/ l[j].tree \in {"feedbacks", "hist_order", "dag_parents"}
  <2>1. \A j \in 1 .. n + 4 : j \in 1 .. n \/ j = n + 1 \/ j = n + 2 \/ j = n + 3 \/ j = n + 4
    BY <1>6
  <2>2. QED
    BY <1>1, <1>10, <2>1
<1>19. QED
  BY <1>6, <1>9, <1>10, <1>16, <1>17, <1>18 DEF n

LEMMA RecordFeedbackKeeps == ASSUME ResearchIInv, RecordFeedback PROVE ResearchIInv'
<1>1. /\ UNCHANGED <<durable, saves, kept, artifacts, used, crashes, chan, tally>>
      /\ Record(cur.id, cur.best, cur.decision) /\ cur.step = "record"
  BY DEF RecordFeedback, storeVars, busVars, runVars, At
<1>2. /\ cur' \in Hands /\ cur'.step = "completed" /\ cur'.id = cur.id
      /\ cur'.source = cur.source /\ cur'.best = cur.best
  <2>1. cur \in Hands /\ cur' = [cur EXCEPT !.step = "completed"]
    BY DEF RecordFeedback, ResearchIInv, Typed
  <2>2. QED
    BY <2>1 DEF Hands, Steps
<1>3. /\ TraceIInv /\ cur.id \in used /\ Holds(log, Len(log), "hypotheses", cur.id)
      /\ cur.best \in Results
      /\ \A j \in 1 .. Len(log) : log[j].tree = "experiments" /\ log[j].id = cur.id =>
           log[j].result = cur.best
      /\ ~Holds(log, Len(log), "feedbacks", cur.id)
  BY <1>1 DEF ResearchIInv, CurDrawn, CurTested, Idling, Tested, Filed
<1>4. /\ TraceIInv' /\ Begins(log, log') /\ Len(log) \in Nat
      /\ Holds(log', Len(log'), "experiments", cur.id) /\ Holds(log', Len(log'), "hist_order", cur.id)
      /\ \A j \in 1 .. Len(log') : j \in 1 .. Len(log)
           \/ (log'[j].tree = "experiments" /\ log'[j].id = cur.id /\ log'[j].result = cur.best)
           \/ log'[j].tree \in {"feedbacks", "hist_order", "dag_parents"}
  BY <1>1, <1>3, RecordSound
<1>5. \A j \in 1 .. Len(log) : log'[j] = log[j]
  BY <1>4 DEF Begins
<1>6. PromotedPassed' /\ Heard' /\ PromotedIn(saves)' = PromotedIn(saves)
  BY <1>1, <1>4, StaysThere
<1>7. Typed'
  BY <1>1, <1>2 DEF ResearchIInv, Typed
<1>8. Drawn'
  BY <1>1, <1>4, <1>5 DEF ResearchIInv, Drawn
<1>9. SavesSound'
  BY <1>1 DEF ResearchIInv, SavesSound
<1>10. CurDrawn'
  <2>1. Len(log') \in Len(log) .. Len(log')
    BY <1>4 DEF Begins
  <2>2. Holds(log', Len(log'), "hypotheses", cur.id)
    BY <1>3, <1>4, <2>1, HoldsMore
  <2>3. QED
    BY <1>1, <1>2, <1>3, <2>2 DEF CurDrawn, Holds
<1>11. CurSaved'
  BY <1>1, <1>2 DEF ResearchIInv, CurSaved, Idling, Unsaved
<1>12. CurTested'
  <2>1. \A j \in 1 .. Len(log') : log'[j].tree = "experiments" /\ log'[j].id = cur.id =>
          log'[j].result = cur.best
    BY <1>3, <1>4, <1>5
  <2>2. QED
    BY <1>2, <1>3, <1>4, <2>1 DEF CurTested, Tested, Filed, Holds
<1>13. Counted'
  BY <1>1, <1>2, <1>6 DEF ResearchIInv, Counted, At
<1>14. QED
  BY <1>4, <1>6, <1>7, <1>8, <1>9, <1>10, <1>11, <1>12, <1>13 DEF ResearchIInv

\* A prefix of each log is left, and nothing is in hand.
LEMMA CrashKeeps == ASSUME ResearchIInv, Crash PROVE ResearchIInv'
<1>1. /\ crashes' = crashes + 1 /\ chan' = <<>> /\ cur' = Start /\ tally' = Zero
      /\ UNCHANGED <<artifacts, used>>
  BY DEF Crash
<1>2. PICK k \in durable .. Len(log) : log' = SubSeq(log, 1, k) /\ durable' = k
  BY DEF Crash, TraceCut
<1>3. PICK m \in kept .. Len(saves) : saves' = SubSeq(saves, 1, m) /\ kept' = m
  BY DEF Crash
<1>4. /\ TraceIInv /\ Len(log) \in Nat /\ k \in 0 .. Len(log)
  BY LogFacts DEF ResearchIInv, TraceIInv
<1>5. PICK S : log \in Seq(S)
  BY <1>4 DEF TraceIInv
<1>6. /\ log' \in Seq(S) /\ Len(log') = k
      /\ \A j \in 1 .. k : j \in 1 .. Len(log) /\ log'[j] = log[j]
  <2>1. PICK l \in Seq(S) : l = log
    BY <1>5
  <2>2. /\ SubSeq(l, 1, k) \in Seq(S) /\ Len(SubSeq(l, 1, k)) = k
        /\ \A j \in 1 .. k : j \in 1 .. Len(l) /\ SubSeq(l, 1, k)[j] = l[j]
    BY <1>4, <2>1
  <2>3. QED
    BY <1>2, <2>1, <2>2
<1>7. /\ Len(saves) \in Nat /\ DOMAIN saves = 1 .. Len(saves) /\ m \in 0 .. Len(saves)
      /\ saves' \in Seq(Rows) /\ Len(saves') = m /\ DOMAIN saves' = 1 .. m
      /\ \A i \in 1 .. m : i \in DOMAIN saves /\ saves'[i] = saves[i]
  <2>1. saves \in Seq(Rows) /\ kept \in Nat
    BY DEF ResearchIInv, Typed
  <2>2. PICK v \in Seq(Rows) : v = saves
    BY <2>1
  <2>3. /\ Len(v) \in Nat /\ DOMAIN v = 1 .. Len(v) /\ m \in 0 .. Len(v)
    BY <2>1, <2>2
  <2>4. /\ SubSeq(v, 1, m) \in Seq(Rows) /\ Len(SubSeq(v, 1, m)) = m
        /\ DOMAIN SubSeq(v, 1, m) = 1 .. m
        /\ \A i \in 1 .. m : i \in DOMAIN v /\ SubSeq(v, 1, m)[i] = v[i]
    BY <2>3
  <2>5. QED
    BY <1>3, <2>2, <2>3, <2>4
<1>8. TraceIInv'
  <2>1. Begins(log', log)
    BY <1>4, <1>6 DEF Begins
  <2>2. LogSound(log')
    BY <1>4, <2>1, CutSound DEF TraceIInv
  <2>3. (LogSound(log))' = LogSound(log')
    BY DEF LogSound, EntrySound, HypothesisSound, ExperimentSound, FeedbackSound, NodeSound,
           LinkSound, Holds, HoldsNode
  <2>4. durable' \in 0 .. Len(log')
    BY <1>2, <1>4, <1>6
  <2>5. \E T : log' \in Seq(T)
    BY <1>6
  <2>6. QED
    BY <2>2, <2>3, <2>4, <2>5 DEF TraceIInv
<1>9. /\ cur' \in Hands /\ cur'.step \in Idling
      /\ tally' \in [accepted : Nat, rejected : Nat, errors : Nat] /\ tally'.accepted = 0
  BY <1>1 DEF Start, Hands, Steps, Idling, Zero
<1>10. CurDrawn' /\ CurSaved' /\ CurTested' /\ (At("candidate"))' = FALSE
  BY <1>9, Idle
<1>11. Typed'
  BY <1>1, <1>3, <1>7, <1>9 DEF ResearchIInv, Typed
<1>12. Drawn'
  BY <1>1, <1>6, <1>7 DEF ResearchIInv, Drawn
<1>13. SavesSound'
  BY <1>1, <1>7 DEF ResearchIInv, SavesSound
<1>14. Counted'
  <2>1. Cardinality(PromotedIn(saves')) \in Nat
    BY CardinalityIs
  <2>2. PromotedIn(saves)' = PromotedIn(saves')
    BY DEF PromotedIn
  <2>3. QED
    BY <1>9, <1>10, <2>1, <2>2 DEF Counted
<1>15. PromotedPassed'
  <2>1. crashes' # 0
    BY <1>1 DEF ResearchIInv, Typed
  <2>2. QED
    BY <2>1 DEF PromotedPassed
<1>16. Heard'
  BY <1>1 DEF Heard
<1>17. QED
  BY <1>8, <1>10, <1>11, <1>12, <1>13, <1>14, <1>15, <1>16 DEF ResearchIInv

LEMMA StutterKeeps == ASSUME ResearchIInv, UNCHANGED vars PROVE ResearchIInv'
<1>1. UNCHANGED Written /\ UNCHANGED <<chan, tally, cur>>
  BY DEF vars, Written, traceVars, storeVars, busVars, runVars
<1>2. TraceIInv' /\ Drawn' /\ SavesSound' /\ PromotedPassed' /\ PromotedIn(saves)' = PromotedIn(saves)
  BY <1>1, NothingWritten DEF Written
<1>3. Typed'
  BY <1>1 DEF ResearchIInv, Typed, Written
<1>4. CurDrawn' /\ CurSaved' /\ CurTested' /\ Counted' /\ Heard'
  BY <1>1, <1>2 DEF Written, ResearchIInv, CurDrawn, CurSaved, CurTested, Counted, Heard, At, Holds
<1>5. QED
  BY <1>2, <1>3, <1>4 DEF ResearchIInv

LEMMA ResearchBegins == ResearchInit => ResearchIInv
<1> SUFFICES ASSUME ResearchInit PROVE ResearchIInv
  OBVIOUS
<1>1. /\ log = <<>> /\ durable = 0 /\ saves = <<>> /\ kept = 0 /\ chan = <<>> /\ cur = Start
      /\ artifacts = [id \in Ids |-> None] /\ used = {} /\ crashes = 0 /\ tally = Zero
  BY DEF ResearchInit, TraceInit
<1>2. Len(log) = 0 /\ Len(saves) = 0 /\ DOMAIN saves = {} /\ DOMAIN chan = {} /\ 1 .. Len(log) = {}
  BY <1>1
<1>3. TraceIInv
  <2>1. log \in Seq({})
    BY <1>1
  <2>2. QED
    BY <1>1, <1>2, <2>1 DEF TraceIInv, LogSound
<1>4. /\ cur \in Hands /\ cur.step = "propose"
      /\ tally \in [accepted : Nat, rejected : Nat, errors : Nat] /\ tally.accepted = 0
  BY <1>1 DEF Start, Hands, Steps, Zero
<1>5. Typed
  BY <1>1, <1>2, <1>4 DEF Typed
<1>6. Drawn /\ SavesSound /\ Heard
  BY <1>2 DEF Drawn, SavesSound, Heard
<1>7. CurDrawn /\ CurSaved /\ CurTested
  BY <1>4 DEF CurDrawn, CurSaved, CurTested, Idling, Unsaved
<1>8. PromotedIn(saves) = {}
  BY <1>2 DEF PromotedIn
<1>9. PromotedPassed
  BY <1>8 DEF PromotedPassed
<1>10. Counted
  BY <1>4, CardinalityIs DEF Counted, At
<1>11. QED
  BY <1>3, <1>5, <1>6, <1>7, <1>9, <1>10 DEF ResearchIInv

\* research_loop.rs:86-285, trace.rs:213-264, daemon.rs:255-317: the invariant.  Each
\* entry of the trace refers to entries before it; a promoted record comes after the
\* compiled one of its id and holds the source of the artifact; what is in hand is
\* in the trace and in the store as far as its step says.
THEOREM ResearchInvariant == ResearchSpec => []ResearchIInv
<1>1. ResearchInit => ResearchIInv
  BY ResearchBegins
<1>2. ResearchIInv /\ [ResearchNext]_vars => ResearchIInv'
  <2> SUFFICES ASSUME ResearchIInv, [ResearchNext]_vars PROVE ResearchIInv'
    OBVIOUS
  <2>1. ASSUME NEW id \in Ids, Propose(id) PROVE ResearchIInv'
    BY <2>1, ProposeKeeps
  <2>2. CASE Announce
    BY <2>2, AnnounceKeeps
  <2>3. CASE GenerateCode
    BY <2>3, GenerateCodeKeeps
  <2>4. CASE Compiles
    BY <2>4, CompilesKeeps
  <2>5. CASE FixErrors
    BY <2>5, FixErrorsKeeps
  <2>6. CASE SaveRecord
    BY <2>6, SaveRecordKeeps
  <2>7. CASE SaveArtifact
    BY <2>7, SaveArtifactKeeps
  <2>8. ASSUME NEW outcome \in Results \cup {None}, Backtest(outcome) PROVE ResearchIInv'
    BY <2>8, BacktestKeeps
  <2>9. CASE SaveTested
    BY <2>9, SaveTestedKeeps
  <2>10. ASSUME NEW decision \in BOOLEAN, GenerateFeedback(decision) PROVE ResearchIInv'
    BY <2>10, GenerateFeedbackKeeps
  <2>11. CASE RecordFeedback
    BY <2>11, RecordFeedbackKeeps
  <2>12. CASE PublishCompleted
    BY <2>12, PublishCompletedKeeps
  <2>13. CASE UpdateStatus
    BY <2>13, UpdateStatusKeeps
  <2>14. CASE PublishCandidate
    BY <2>14, PublishCandidateKeeps
  <2>15. CASE IterationFails
    BY <2>15, FailsKeeps
  <2>16. CASE PauseEnds \/ Receive \/ ReceiveLagged \/ TimerFires
    BY <2>16, WaitKeeps
  <2>17. CASE OthersPublish
    BY <2>17, OthersPublishKeeps
  <2>18. CASE Crash
    BY <2>18, CrashKeeps
  <2>19. CASE UNCHANGED vars
    BY <2>19, StutterKeeps
  <2>20. QED
    BY <2>1, <2>2, <2>3, <2>4, <2>5, <2>6, <2>7, <2>8, <2>9, <2>10, <2>11, <2>12, <2>13, <2>14,
       <2>15, <2>16, <2>17, <2>18, <2>19 DEF ResearchNext, Task, Iterate
<1>3. QED
  BY <1>1, <1>2, PTL DEF ResearchSpec

-----------------------------------------------------------------------------
(***************************************************************************)
(* What the runs check.                                                    *)
(***************************************************************************)
\* trace.rs:32-52: whatever prefix a crash leaves, a node finds its experiment and its
\* feedback, an experiment its hypothesis, and a lineage ends in a root.
THEOREM TraceStaysReadable == ResearchSpec => []TraceReadable
<1>1. ResearchIInv => TraceReadable
  BY ReadableHolds DEF ResearchIInv
<1>2. QED
  BY <1>1, ResearchInvariant, PTL

\* trace.rs:213-226: the nodes are one chain without a gap in its indices.
THEOREM TraceStaysChain == ResearchSpec => []TraceIsChain
<1>1. ResearchIInv => TraceIsChain
  BY ChainHolds DEF ResearchIInv
<1>2. QED
  BY <1>1, ResearchInvariant, PTL

\* What the store answers of an id is its promotion, if there was one.
LEMMA PromotedIs ==
  ASSUME ResearchIInv
  PROVE  /\ PromotedIds = PromotedIn(saves)
         /\ \A id \in PromotedIds : artifacts[id] = Saved(id).source
<1>1. Typed /\ SavesSound
  BY DEF ResearchIInv
<1>2. ASSUME NEW id \in PromotedIn(saves)
      PROVE  Saved(id).status = "Promoted" /\ artifacts[id] = Saved(id).source
  <2>1. PICK k \in DOMAIN saves : saves[k].id = id /\ saves[k].status = "Promoted"
    BY <1>2 DEF PromotedIn
  <2>2. PICK n \in DOMAIN saves :
          /\ saves[n].id = id /\ k <= n
          /\ Saved(id) = [status |-> saves[n].status, source |-> saves[n].source]
    BY <1>1, <2>1, SavedIs
  <2>3. k = n
    <3>1. ~(k < n)
      BY <1>1, <2>1, <2>2 DEF SavesSound
    <3>2. k \in Nat /\ n \in Nat
      BY <1>1 DEF Typed
    <3>3. QED
      BY <2>2, <3>1, <3>2
  <2>4. QED
    BY <1>1, <2>1, <2>2, <2>3 DEF SavesSound
<1>3. ASSUME NEW id \in Ids, Saved(id).status = "Promoted" PROVE id \in PromotedIn(saves)
  <2>1. PICK k \in DOMAIN saves : saves[k].id = id
    BY <1>3 DEF Saved, Absent
  <2>2. PICK n \in DOMAIN saves :
          /\ saves[n].id = id
          /\ Saved(id) = [status |-> saves[n].status, source |-> saves[n].source]
    BY <1>1, <2>1, SavedIs
  <2>3. QED
    BY <1>3, <2>2 DEF PromotedIn
<1>4. PromotedIn(saves) \subseteq Ids
  BY DEF PromotedIn
<1>5. PromotedIds = PromotedIn(saves)
  BY <1>2, <1>3, <1>4 DEF PromotedIds
<1>6. QED
  BY <1>2, <1>5

LEMMA RecordedIs ==
  ASSUME TraceIInv, NEW id, Holds(log, Len(log), "hist_order", id)
  PROVE  Recorded(id)
<1>1. PICK j \in 1 .. Len(log) : log[j].tree = "hist_order" /\ log[j].id = id
  BY DEF Holds
<1>2. log[j] \in hist_order
  BY <1>1, InTree DEF hist_order
<1>3. log[j].index \in Nodes
  BY <1>2 DEF Nodes
<1>4. Node(log[j].index) = log[j]
  BY <1>2, <1>3, NodeIs
<1>5. QED
  BY <1>1, <1>3, <1>4 DEF Recorded

\* research_loop.rs:255-275: what is promoted has its artifact, built from the source
\* on record, and passed both thresholds; what is counted as accepted is promoted.
THEOREM PromotionWentTheWay == ResearchSpec => []PromotedWentTheWay
<1>1. ResearchIInv => PromotedWentTheWay
  <2> SUFFICES ASSUME ResearchIInv PROVE PromotedWentTheWay
    OBVIOUS
  <2>1. /\ PromotedIds = PromotedIn(saves)
        /\ \A id \in PromotedIds : artifacts[id] = Saved(id).source
    BY PromotedIs
  <2>2. ASSUME NEW id \in PromotedIds, crashes = 0
        PROVE  Recorded(id) /\ Experiment(id).result.sharpe > 1 /\ Experiment(id).result.drawdown < 15
    <3>1. Passed(log, id)
      BY <2>1, <2>2 DEF ResearchIInv, PromotedPassed
    <3>2. Recorded(id)
      BY <3>1, RecordedIs DEF ResearchIInv, Passed
    <3>3. PICK j \in 1 .. Len(log) :
            log[j].tree = "experiments" /\ log[j].id = id /\ Accepted(log[j].result)
      BY <3>1 DEF Passed
    <3>4. log[j] \in experiments
      BY <3>3, InTree DEF experiments, ResearchIInv
    <3>5. Experiment(id) = log[j]
      BY <3>3, <3>4, ExperimentIs DEF ResearchIInv
    <3>6. QED
      BY <3>2, <3>3, <3>5 DEF Accepted
  <2>3. tally.accepted <= Cardinality(PromotedIds)
    <3>1. PICK c \in Nat : c = Cardinality(PromotedIn(saves))
      BY CardinalityIs
    <3>2. PICK a \in Nat : a = tally.accepted
      BY DEF ResearchIInv, Typed
    <3>3. QED
      BY <2>1, <3>1, <3>2 DEF ResearchIInv, Counted
  <2>4. QED
    BY <2>1, <2>2, <2>3 DEF PromotedWentTheWay
<1>2. QED
  BY <1>1, ResearchInvariant, PTL

\* research_loop.rs:256-275: a candidate on the bus is promoted in the store and
\* recorded in the trace.
THEOREM CandidatesThere == ResearchSpec => []CandidatesAreThere
<1>1. ResearchIInv => CandidatesAreThere
  <2> SUFFICES ASSUME ResearchIInv, NEW i \in DOMAIN chan, chan[i].kind = "candidate"
               PROVE  Saved(chan[i].id).status = "Promoted" /\ Recorded(chan[i].id)
    BY DEF CandidatesAreThere
  <2>1. chan[i].id \in PromotedIds /\ Holds(log, Len(log), "hist_order", chan[i].id)
    BY PromotedIs DEF ResearchIInv, Heard
  <2>2. QED
    BY <2>1, RecordedIs DEF PromotedIds, ResearchIInv
<1>2. QED
  BY <1>1, ResearchInvariant, PTL
=============================================================================
