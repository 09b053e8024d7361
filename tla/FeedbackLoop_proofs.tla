------------------------ MODULE FeedbackLoop_proofs -------------------------
(***************************************************************************)
(* Safety of the feedback consumer and of the loop around it, for every    *)
(* number of publishers, topics and strategies, every batch size and       *)
(* threshold, with sled errors and crashes.                                *)
(*                                                                         *)
(* The consumer: a trading event is lost behind its offset only if a later *)
(* number of another task was read before it was indexed.  A task draws its*)
(* numbers in order (LastOfTask), and offset and cursor stay within what   *)
(* was read of the topic (Within): a key that goes in below them goes in   *)
(* below a number that was read, which is another task's.                  *)
(*                                                                         *)
(* In a topic without gaps, and while no offset is lost, the metrics of the*)
(* consumer are those of a full scan: a batch holds the numbers that come  *)
(* next, and each fill moves both in the same way (Followed).  So the      *)
(* consumer implements FillLedger, whose log is such a topic.              *)
(*                                                                         *)
(* The loop: its decisions are spaced by trades, and remembered exactly when *)
(* they are published.  A decision is in the index before the loop remembers *)
(* it.  The argument counts the decisions that no publish holds any more   *)
(* (Taken): those are the ones the loop remembers (Spaced), and the one in *)
(* flight is about enough new trades (OwnDecision).  Nothing moves between: *)
(* only the loop decides, a number names one event, and a poll only adds   *)
(* trades.                                                                 *)
(***************************************************************************)
EXTENDS FeedbackLoop, EventBus_proofs, WellFoundedInduction, FiniteSetTheorems

(* The consumer. *)

LEMMA InitConsIInv == Init => ConsIInv
<1> SUFFICES ASSUME Init PROVE ConsIInv
  OBVIOUS
<1> USE BusAssumption, ConsumerAssumption DEF Init, ConsInit, AtRest
<1>1. BusIInv
  BY InitBusIInv
<1>2. PollTyped
  BY DEF PollTyped, Seqs
<1>3. /\ topics[TOPIC] = {} /\ offsets[CONSUMER_GROUP] = 0
      /\ disk.topics[TOPIC] = {} /\ disk.offsets[CONSUMER_GROUP] = 0
      /\ named = {} /\ \A p \in Publishers : pub[p].at = "idle"
  BY DEF BusInit, Empty, Idle
<1>4. QED
  BY <1>1, <1>2, <1>3
  DEF ConsIInv, SkippedWereOvertaken, Skipped, OnlyWriter, Authored, LastOfTask, Within, Scanned

\* Types of what the invariant compares.
LEMMA ConsFacts ==
  ASSUME ConsIInv
  PROVE  /\ topics[TOPIC] \subseteq Seqs /\ Seqs \subseteq Nat
         /\ offsets[CONSUMER_GROUP] \in Nat
         /\ disk.topics[TOPIC] \subseteq Seqs
         /\ disk.offsets[CONSUMER_GROUP] \in Nat
         /\ cons.base \in Nat /\ cons.cursor \in 0 .. MaxSeq
         /\ cons.batch \in Seq(Seqs)
BY BusAssumption, ConsumerAssumption
DEF ConsIInv, BusIInv, TypeOK, Trees, PollTyped, Seqs

\* Every number of the topic has a task that published a trading event under it.
LEMMA IndexedBy ==
  ASSUME ConsIInv, NEW n \in topics[TOPIC]
  PROVE  \E p \in Publishers : By(p, n)
<1>1. n \in Seqs /\ events[n] # NoEvent /\ Topic[events[n]] = TOPIC
  BY ConsFacts, ConsumerAssumption
  DEF ConsIInv, BusIInv, IndexReferencesStored, PointsAtStored
<1>2. <<n, events[n]>> \in named
  BY <1>1 DEF ConsIInv, BusIInv, Drawn
<1>3. PICK p \in Publishers : <<n, events[n]>>[2] \in Writes[p]
  BY <1>2 DEF ConsIInv, Authored
<1>4. QED
  BY <1>1, <1>2, <1>3 DEF By

\* Overtaken for good: names stay, and what is read stays read.
LEMMA OvertakenMore ==
  ASSUME NEW n, NEW S, NEW T, S \subseteq T, Overtaken(n, S)
  PROVE  Overtaken(n, T)
BY Zenon DEF Overtaken

LEMMA OvertakenNamed ==
  ASSUME named \subseteq named', NEW n, NEW S, Overtaken(n, S)
  PROVE  \E m \in S : m > n /\ \E p, q \in Publishers : p # q /\ By(p, n)' /\ By(q, m)'
<1>1. ASSUME NEW p, NEW m, By(p, m) PROVE By(p, m)'
  BY <1>1, Zenon DEF By
<1>2. QED
  BY <1>1, Zenon DEF Overtaken

LEMMA OvertakenStays ==
  ASSUME named \subseteq named', seen \subseteq seen'
  PROVE  /\ \A n : Overtaken(n, seen) => Overtaken(n, seen)'
         /\ ToSet(cons.batch)' = ToSet(cons.batch) =>
              \A n : Overtaken(n, ToSet(cons.batch)) => Overtaken(n, ToSet(cons.batch))'
<1>1. ASSUME NEW n, Overtaken(n, seen) PROVE Overtaken(n, seen)'
  BY <1>1, OvertakenNamed, Zenon DEF Overtaken
<1>2. ASSUME ToSet(cons.batch)' = ToSet(cons.batch), NEW n, Overtaken(n, ToSet(cons.batch))
      PROVE  Overtaken(n, ToSet(cons.batch))'
  BY <1>2, OvertakenNamed, Zenon DEF Overtaken
<1>3. QED
  BY <1>1, <1>2, Zenon

\* A number that is indexed below one already read was overtaken.
LEMMA LateIsOvertaken ==
  ASSUME ConsIInv, NEW p \in Publishers, pub[p].at = "inserted",
         Topic[pub[p].event] = TOPIC,
         NEW S, NEW m \in S, m \in topics[TOPIC], pub[p].seq < m
  PROVE  Overtaken(pub[p].seq, S)
<1>1. PICK n \in Seqs : n = pub[p].seq
  BY DEF ConsIInv, BusIInv, InFlight
<1>2. events[n] = pub[p].event /\ pub[p].event \in Events /\ pub[p].event \in Writes[p]
  BY <1>1 DEF ConsIInv, BusIInv, InFlight, OnlyWriter
<1>3. <<n, events[n]>> \in named
  BY <1>1, <1>2, BusAssumption DEF ConsIInv, BusIInv, Drawn
<1>4. By(p, n)
  BY <1>2, <1>3 DEF By
<1>5. PICK q \in Publishers : By(q, m)
  BY IndexedBy
<1>6. q # p
  <2>1. SUFFICES ASSUME By(p, m) PROVE FALSE
    BY <1>5
  <2>2. PICK e \in Writes[p] : <<m, e>> \in named
    BY <2>1 DEF By
  <2>3. m <= n
    BY <1>1, <2>2 DEF ConsIInv, LastOfTask
  <2>4. QED
    BY <1>1, <2>3, ConsFacts
<1>7. QED
  BY <1>1, <1>4, <1>5, <1>6 DEF Overtaken

\* The steps of the bus that leave the topic, the offsets and the poll alone
\* need only what is said of the publishers.
LEMMA TopicUntouched ==
  ASSUME ConsIInv, BusIInv', OnlyWriter', Authored', LastOfTask', named \subseteq named',
         topics'[TOPIC] = topics[TOPIC], offsets' = offsets, disk' = disk,
         UNCHANGED consVars
  PROVE  ConsIInv'
<1>1. UNCHANGED <<cons, counts, seen>>
  BY DEF consVars
<1>2. SkippedWereOvertaken'
  BY <1>1, OvertakenStays DEF ConsIInv, SkippedWereOvertaken, Skipped
<1>3. Scanned'
  BY <1>1, OvertakenStays DEF ConsIInv, Scanned
<1>4. PollTyped'
  BY <1>1 DEF ConsIInv, PollTyped
<1>5. QED
  BY <1>1, <1>2, <1>3, <1>4 DEF ConsIInv, Within

LEMMA PublishKeeps ==
  ASSUME ConsIInv, NEW p \in Publishers, PublishStep(p), UNCHANGED consVars
  PROVE  ConsIInv'
<1> USE BusAssumption, ConsumerAssumption
<1>1. BusIInv'
  BY BusStep DEF ConsIInv, BusNext
<1>2. pub \in [Publishers -> PublishStates] /\ topics \in [Topics -> SUBSET Seqs]
  BY DEF ConsIInv, BusIInv, TypeOK
<1>3. ASSUME NEW e \in Writes[p], AllocateId(p, e) PROVE ConsIInv'
  <2>1. /\ pub' = [pub EXCEPT ![p] = [at |-> "allocated", event |-> e, seq |-> nextId]]
        /\ topics' = topics /\ offsets' = offsets /\ disk' = disk /\ named' = named
    BY <1>3 DEF AllocateId, trees
  <2>2. \A x \in named : x[1] <= nextId
    <3>1. named \subseteq Seqs \X Events /\ nextId \in Nat
      BY DEF ConsIInv, BusIInv, TypeOK
    <3>2. \A x \in named : x[1] \in Nat
      BY <3>1 DEF Seqs
    <3>3. QED
      BY <3>1, <3>2 DEF ConsIInv, BusIInv, Drawn
  <2>3. OnlyWriter' /\ LastOfTask' /\ Authored'
    BY <1>2, <2>1, <2>2 DEF ConsIInv, OnlyWriter, LastOfTask, Authored, PublishStates
  <2>4. QED
    BY <1>1, <2>1, <2>3, TopicUntouched
<1>4. CASE InsertEvent(p)
  <2>1. /\ pub[p].at = "allocated" /\ pub' = [pub EXCEPT ![p].at = "inserted"]
        /\ topics' = topics /\ offsets' = offsets /\ disk' = disk
        /\ named' = named \cup {<<pub[p].seq, pub[p].event>>}
    BY <1>4 DEF InsertEvent
  <2>2. pub[p].event \in Writes[p] /\ pub[p].seq \in Nat
    BY <2>1 DEF ConsIInv, OnlyWriter, BusIInv, InFlight, Seqs
  <2>3. \A q \in Publishers : /\ pub'[q].event = pub[q].event /\ pub'[q].seq = pub[q].seq
                              /\ pub'[q].at # "idle" => pub[q].at # "idle"
    BY <1>2, <2>1 DEF PublishStates
  <2>4. OnlyWriter' /\ Authored'
    BY <2>1, <2>2, <2>3 DEF ConsIInv, OnlyWriter, Authored
  <2>5. LastOfTask'
    <3>1. SUFFICES ASSUME NEW q \in Publishers, pub'[q].at # "idle", NEW x \in named',
                          x[2] \in Writes[q]
                   PROVE  x[1] <= pub'[q].seq
      BY DEF LastOfTask
    <3>2. CASE x \in named
      BY <2>3, <3>1, <3>2 DEF ConsIInv, LastOfTask
    <3>3. CASE x = <<pub[p].seq, pub[p].event>>
      <4>1. q = p
        BY <2>2, <3>1, <3>3
      <4>2. QED
        BY <2>2, <2>3, <3>3, <4>1
    <3>4. QED
      BY <2>1, <3>2, <3>3
  <2>6. QED
    BY <1>1, <2>1, <2>4, <2>5, TopicUntouched
<1>5. CASE Notify(p) \/ PublishFails(p)
  <2>1. /\ pub' = [pub EXCEPT ![p] = Idle]
        /\ topics' = topics /\ offsets' = offsets /\ disk' = disk /\ named' = named
    BY <1>5 DEF Notify, PublishFails, trees
  <2>2. OnlyWriter' /\ LastOfTask' /\ Authored'
    BY <1>2, <2>1 DEF ConsIInv, OnlyWriter, LastOfTask, Authored, PublishStates, Idle
  <2>3. QED
    BY <1>1, <2>1, <2>2, TopicUntouched
<1>6. CASE InsertTopicKey(p)
  <2>1. PICK n \in Seqs : n = pub[p].seq
    BY <1>6 DEF InsertTopicKey, ConsIInv, BusIInv, InFlight
  <2>2. /\ pub[p].at = "inserted" /\ pub' = [pub EXCEPT ![p].at = "indexed"]
        /\ topics' = [topics EXCEPT ![Topic[pub[p].event]] = @ \cup {n}]
        /\ offsets' = offsets /\ disk' = disk /\ named' = named
        /\ UNCHANGED <<cons, counts, seen>>
    BY <1>6, <2>1 DEF InsertTopicKey, consVars
  <2>3. pub[p].event \in Events /\ Topic[pub[p].event] \in Topics
    BY <2>2 DEF ConsIInv, BusIInv, InFlight
  <2>4. OnlyWriter' /\ LastOfTask' /\ Authored'
    BY <1>2, <2>2 DEF ConsIInv, OnlyWriter, LastOfTask, Authored, PublishStates
  <2>5. CASE Topic[pub[p].event] # TOPIC
    <3>1. topics'[TOPIC] = topics[TOPIC]
      BY <1>2, <2>2, <2>3, <2>5
    <3>2. QED
      BY <1>1, <2>2, <2>4, <3>1, TopicUntouched
  <2>6. CASE Topic[pub[p].event] = TOPIC
    <3>1. topics'[TOPIC] = topics[TOPIC] \cup {n}
      BY <1>2, <2>2, <2>6
    <3>2. ASSUME NEW S, S \subseteq topics[TOPIC], NEW o \in Nat, o # 0, Within(S, o), n < o
          PROVE  n \in S \/ Overtaken(n, S)
      <4>1. PICK m \in S : o <= m + 1
        BY <3>2 DEF Within
      <4>2. m \in Nat /\ n \in Nat
        BY <3>2, ConsFacts
      <4>3. n = m \/ n < m
        BY <3>2, <4>1, <4>2
      <4>4. QED
        BY <2>1, <2>2, <2>6, <3>2, <4>3, LateIsOvertaken
    <3>3. SkippedWereOvertaken'
      <4>1. ASSUME n < offsets[CONSUMER_GROUP], n \notin seen PROVE Overtaken(n, seen)
        <5>1. PICK S : S = topics[TOPIC] \cap seen
          OBVIOUS
        <5>2. offsets[CONSUMER_GROUP] \in Nat /\ offsets[CONSUMER_GROUP] # 0 /\ n \in Nat
          BY <4>1, ConsFacts
        <5>3. S \subseteq topics[TOPIC] /\ Within(S, offsets[CONSUMER_GROUP])
          BY <5>1 DEF ConsIInv
        <5>4. n \in S \/ Overtaken(n, S)
          BY <3>2, <4>1, <5>2, <5>3
        <5>5. QED
          BY <4>1, <5>1, <5>4 DEF Overtaken
      <4>2. \A m \in Skipped(topics'[TOPIC], offsets[CONSUMER_GROUP]) : Overtaken(m, seen)
        BY <3>1, <4>1 DEF ConsIInv, SkippedWereOvertaken, Skipped
      <4>3. QED
        BY <2>2, <4>2, OvertakenStays DEF ConsIInv, SkippedWereOvertaken, Skipped
    <3>4. Scanned'
      <4>1. SUFFICES ASSUME cons.at = "scanning"
                     PROVE  \A m \in topics'[TOPIC] : cons.base <= m /\ m < cons.cursor =>
                              m \in ToSet(cons.batch) \/ Overtaken(m, ToSet(cons.batch))
        BY <2>2, <3>1, OvertakenStays DEF ConsIInv, Scanned
      <4>2. PICK B : B = ToSet(cons.batch)
        OBVIOUS
      <4>3. /\ B \subseteq topics[TOPIC]
            /\ cons.cursor = cons.base \/ Within(B, cons.cursor)
            /\ \A m \in topics[TOPIC] : cons.base <= m /\ m < cons.cursor =>
                 m \in B \/ Overtaken(m, B)
        BY <4>1, <4>2 DEF ConsIInv, Scanned
      <4>4. ASSUME cons.base <= n, n < cons.cursor PROVE n \in B \/ Overtaken(n, B)
        <5>1. cons.cursor \in Nat /\ cons.base \in Nat /\ n \in Nat
          BY ConsFacts
        <5>2. cons.cursor # 0 /\ cons.cursor # cons.base
          BY <4>4, <5>1
        <5>3. QED
          BY <3>2, <4>3, <4>4, <5>1, <5>2
      <4>5. QED
        BY <3>1, <4>2, <4>3, <4>4
    <3>5. Within(topics'[TOPIC] \cap seen, offsets[CONSUMER_GROUP])
      BY <3>1 DEF ConsIInv, Within
    <3>6. PollTyped'
      BY <2>2 DEF ConsIInv, PollTyped
    <3>7. QED
      BY <1>1, <2>2, <2>4, <3>3, <3>4, <3>5, <3>6 DEF ConsIInv, Within
  <2>7. QED
    BY <2>5, <2>6
<1>7. QED
  BY <1>3, <1>4, <1>5, <1>6 DEF PublishStep

\* A poll that ends without a commit leaves the trees and the history alone.
LEMMA PollKeeps ==
  ASSUME ConsIInv, UNCHANGED <<busVars, seen>>, PollTyped', Scanned'
  PROVE  ConsIInv'
<1>1. BusIInv'
  BY BusStep DEF ConsIInv
<1>2. QED
  <2>1. UNCHANGED <<topics, offsets, disk, pub, named, seen>>
    BY DEF busVars
  <2>2. SkippedWereOvertaken'
    BY <2>1, OvertakenStays DEF ConsIInv, SkippedWereOvertaken, Skipped
  <2>3. QED
    BY <1>1, <2>1, <2>2 DEF ConsIInv, OnlyWriter, Authored, LastOfTask, Within

LEMMA PollScanKeeps ==
  ASSUME ConsIInv, PollScan
  PROVE  ConsIInv'
<1> USE BusAssumption, ConsumerAssumption
<1>1. PICK n \in Ahead :
        /\ \A m \in Ahead : n <= m
        /\ cons' = [cons EXCEPT !.cursor = n + 1, !.batch = Append(@, n)]
  BY DEF PollScan
<1>2. /\ n \in topics[TOPIC] /\ n >= cons.cursor /\ n \in Seqs /\ n + 1 \in 0 .. MaxSeq
      /\ \A m \in topics[TOPIC] : m >= cons.cursor => n <= m
  BY <1>1, ConsFacts DEF Ahead, Indexed, Seqs
<1>3. /\ cons.at = "scanning" /\ UNCHANGED <<busVars, acc, counts, seen>>
      /\ cons.batch \in Seq(Seqs)
  BY ConsFacts DEF PollScan
<1>4. /\ cons'.at = "scanning" /\ cons'.base = cons.base /\ cons'.cursor = n + 1
      /\ cons'.batch = Append(cons.batch, n)
      /\ PollTyped'
  <2>1. /\ cons \in [at : {"idle", "scanning"}, base : 0 .. MaxSeq,
                     cursor : 0 .. MaxSeq, batch : Seq(Seqs)]
        /\ counts \in [Seqs -> Nat] /\ seen \subseteq Seqs
    BY DEF ConsIInv, PollTyped
  <2>2. Append(cons.batch, n) \in Seq(Seqs)
    BY <1>2, <1>3
  <2>3. /\ cons'.at = "scanning" /\ cons'.base = cons.base /\ cons'.cursor = n + 1
        /\ cons'.batch = Append(cons.batch, n)
    BY <1>1, <1>3, <2>1
  <2>4. cons' \in [at : {"idle", "scanning"}, base : 0 .. MaxSeq,
                   cursor : 0 .. MaxSeq, batch : Seq(Seqs)]
    BY <1>1, <1>2, <2>1, <2>2
  <2>5. QED
    BY <1>3, <2>1, <2>3, <2>4 DEF PollTyped
<1>5. /\ Len(cons'.batch) = Len(cons.batch) + 1
      /\ ToSet(cons'.batch) = ToSet(cons.batch) \cup {n}
  <2>1. /\ Len(cons'.batch) = Len(cons.batch) + 1
        /\ \A i \in 1 .. Len(cons.batch) : cons'.batch[i] = cons.batch[i]
        /\ cons'.batch[Len(cons.batch) + 1] = n
    BY <1>2, <1>3, <1>4, AppendProperties
  <2>2. /\ DOMAIN cons.batch = 1 .. Len(cons.batch)
        /\ DOMAIN cons'.batch = 1 .. Len(cons.batch) + 1
        /\ Len(cons.batch) \in Nat
    BY <1>2, <1>3, <1>4, AppendProperties
  <2>3. 1 .. Len(cons.batch) + 1 = (1 .. Len(cons.batch)) \cup {Len(cons.batch) + 1}
    BY <2>2
  <2>4. QED
    <3>1. \A x : x \in ToSet(cons'.batch) <=>
                 \E i \in 1 .. Len(cons.batch) + 1 : x = cons'.batch[i]
      BY <2>2 DEF ToSet
    <3>2. \A x : x \in ToSet(cons.batch) <=>
                 \E i \in 1 .. Len(cons.batch) : x = cons.batch[i]
      BY <2>2 DEF ToSet
    <3>3. \A x : x \in ToSet(cons'.batch) <=> x \in ToSet(cons.batch) \cup {n}
      BY <2>1, <2>3, <3>1, <3>2
    <3>4. ToSet(cons'.batch) = ToSet(cons.batch) \cup {n}
      BY <3>3, SetExtensionality
    <3>5. QED
      BY <2>1, <3>4
<1>6. Scanned'
  <2>1. Within(ToSet(cons'.batch), n + 1)
    BY <1>2, <1>5 DEF Within
  <2>2. /\ cons.base = offsets[CONSUMER_GROUP]
        /\ cons.base + Len(cons.batch) <= cons.cursor
        /\ ToSet(cons.batch) \subseteq topics[TOPIC]
        /\ \A m \in topics[TOPIC] : cons.base <= m /\ m < cons.cursor =>
             m \in ToSet(cons.batch) \/ Overtaken(m, ToSet(cons.batch))
    BY <1>3 DEF ConsIInv, Scanned
  <2>3. cons.base + (Len(cons.batch) + 1) <= n + 1
    BY <1>2, <1>3, <2>2, ConsFacts DEF Seqs
  <2>4. \A m \in topics[TOPIC] : cons.base <= m /\ m < n + 1 =>
          m \in ToSet(cons'.batch) \/ Overtaken(m, ToSet(cons'.batch))
    <3>1. \A m \in topics[TOPIC] : m \in Nat /\ (m < n + 1 <=> m < cons.cursor \/ m = n)
      BY <1>2, ConsFacts DEF Seqs
    <3>2. QED
      BY <1>5, <2>2, <3>1, OvertakenMore
  <2>5. UNCHANGED <<topics, named, offsets>>
    BY <1>3 DEF busVars
  <2>6. ToSet(cons'.batch) \subseteq topics[TOPIC]
    BY <1>2, <1>5, <2>2
  <2>7. /\ cons'.base = offsets'[CONSUMER_GROUP]
        /\ cons'.base + Len(cons'.batch) <= cons'.cursor
        /\ Within(ToSet(cons'.batch), cons'.cursor)
    BY <1>4, <1>5, <2>1, <2>2, <2>3, <2>5
  <2>8. \A m \in topics'[TOPIC] : cons'.base <= m /\ m < cons'.cursor =>
          m \in ToSet(cons'.batch) \/ Overtaken(m, ToSet(cons.batch))'
    <3>1. PICK B : B = ToSet(cons'.batch)
      OBVIOUS
    <3>2. \A m : Overtaken(m, B) => Overtaken(m, ToSet(cons.batch))'
      <4>1. named \subseteq named' /\ ToSet(cons.batch)' = B
        BY <2>5, <3>1
      <4>2. ASSUME NEW m, Overtaken(m, B) PROVE Overtaken(m, ToSet(cons.batch))'
        <5>1. \E k \in B : k > m /\ \E p, q \in Publishers : p # q /\ By(p, m)' /\ By(q, k)'
          BY <4>1, <4>2, OvertakenNamed
        <5>2. QED
          BY <4>1, <5>1 DEF Overtaken
      <4>3. QED
        BY <4>2
    <3>3. QED
      BY <1>4, <2>4, <2>5, <3>1, <3>2
  <2>9. QED
    BY <2>5, <2>6, <2>7, <2>8 DEF Scanned
<1>7. QED
  BY <1>3, <1>4, <1>6, PollKeeps

\* A committed batch holds what lies between the old and the new offset, or overtook
\* it.
LEMMA PollCommitKeeps ==
  ASSUME ConsIInv, ProcessBatch,
         SetOffset(CONSUMER_GROUP, NextOffset(cons)) \/ UNCHANGED busVars
  PROVE  ConsIInv'
<1> USE BusAssumption, ConsumerAssumption
<1> DEFINE o == offsets[CONSUMER_GROUP]
           w == NextOffset(cons)
<1>1. /\ cons.at = "scanning" /\ cons' = AtRest
      /\ seen' = seen \cup ToSet(cons.batch)
      /\ counts' = [n \in Seqs |-> IF n \in ToSet(cons.batch) /\ counts[n] < MaxReads
                                   THEN counts[n] + 1 ELSE counts[n]]
  BY DEF ProcessBatch, ScanDone
<1>2. /\ cons.base = o /\ cons.base + Len(cons.batch) <= cons.cursor
      /\ cons.cursor = cons.base \/ Within(ToSet(cons.batch), cons.cursor)
      /\ ToSet(cons.batch) \subseteq topics[TOPIC]
      /\ \A n \in topics[TOPIC] : cons.base <= n /\ n < cons.cursor =>
           n \in ToSet(cons.batch) \/ Overtaken(n, ToSet(cons.batch))
  BY <1>1 DEF ConsIInv, Scanned
<1>3. Len(cons.batch) \in Nat /\ w = o + Len(cons.batch) /\ w \in 0 .. MaxSeq
  BY <1>2, ConsFacts DEF NextOffset, Seqs
<1>4. Within(topics[TOPIC] \cap seen', w) /\ Within(topics[TOPIC] \cap seen', o)
  <2>1. Within(topics[TOPIC] \cap seen, o)
    BY DEF ConsIInv
  <2>2. Within(topics[TOPIC] \cap seen', o)
    BY <1>1, <2>1 DEF Within
  <2>3. CASE cons.cursor = cons.base
    <3>1. w = o
      BY <1>2, <1>3, <2>3, ConsFacts
    <3>2. QED
      BY <2>2, <3>1
  <2>4. CASE Within(ToSet(cons.batch), cons.cursor)
    <3>1. w <= cons.cursor /\ w \in Nat /\ cons.cursor \in Nat
      BY <1>2, <1>3, ConsFacts
    <3>2. CASE cons.cursor = 0
      BY <2>2, <3>1, <3>2 DEF Within
    <3>3. CASE cons.cursor # 0
      <4>1. PICK m \in ToSet(cons.batch) : cons.cursor <= m + 1
        BY <2>4, <3>3 DEF Within
      <4>2. m \in topics[TOPIC] \cap seen' /\ m \in Nat
        BY <1>1, <1>2, <4>1, ConsFacts
      <4>3. w <= m + 1
        BY <3>1, <4>1, <4>2
      <4>4. QED
        BY <2>2, <4>2, <4>3 DEF Within
    <3>4. QED
      BY <3>2, <3>3
  <2>5. QED
    BY <1>2, <2>3, <2>4
<1>5. \A n \in topics[TOPIC] : n < w => n \in seen' \/ Overtaken(n, seen')
  <2>1. SUFFICES ASSUME NEW n \in topics[TOPIC], n < w PROVE n \in seen' \/ Overtaken(n, seen')
    OBVIOUS
  <2>2. n < cons.cursor /\ n \in Nat
    BY <1>2, <1>3, <2>1, ConsFacts
  <2>3. CASE n < o
    BY <1>1, <2>1, <2>3, OvertakenMore DEF ConsIInv, SkippedWereOvertaken, Skipped
  <2>4. CASE cons.base <= n
    BY <1>1, <1>2, <2>1, <2>2, <2>4, OvertakenMore
  <2>5. QED
    BY <1>2, <2>2, <2>3, <2>4, ConsFacts
<1>6. /\ UNCHANGED <<topics, disk, pub, named>>
      /\ offsets'[CONSUMER_GROUP] = w \/ offsets'[CONSUMER_GROUP] = o
  <2>1. CASE SetOffset(CONSUMER_GROUP, w)
    <3>1. offsets \in [Groups -> 0 .. MaxSeq]
      BY DEF ConsIInv, BusIInv, TypeOK
    <3>2. QED
      BY <2>1, <3>1 DEF SetOffset, memory
  <2>2. CASE UNCHANGED busVars
    BY <2>2 DEF busVars
  <2>3. QED
    BY <2>1, <2>2
<1>7. BusIInv'
  <2>1. [BusNext]_busVars
    BY <1>3 DEF BusNext
  <2>2. QED
    BY <2>1, BusStep DEF ConsIInv
<1>8. PollTyped'
  <2>1. ToSet(cons.batch) \subseteq Seqs
    BY <1>2, ConsFacts
  <2>2. /\ counts \in [Seqs -> Nat] /\ seen \subseteq Seqs
    BY DEF ConsIInv, PollTyped
  <2>3. counts' \in [Seqs -> Nat]
    BY <1>1, <2>2
  <2>4. AtRest \in [at : {"idle", "scanning"}, base : 0 .. MaxSeq,
                   cursor : 0 .. MaxSeq, batch : Seq(Seqs)]
    BY DEF AtRest
  <2>5. QED
    BY <1>1, <2>1, <2>2, <2>3, <2>4 DEF PollTyped
<1>9. SkippedWereOvertaken'
  <2>1. \A n \in topics[TOPIC] : n < o => n \in seen' \/ Overtaken(n, seen')
    BY <1>1, OvertakenMore DEF ConsIInv, SkippedWereOvertaken, Skipped
  <2>2. \A n \in topics[TOPIC] : n < offsets'[CONSUMER_GROUP] =>
          n \in seen' \/ Overtaken(n, seen')
    BY <1>5, <1>6, <2>1
  <2>3. \A n \in disk.topics[TOPIC] : n < disk.offsets[CONSUMER_GROUP] =>
          n \in seen' \/ Overtaken(n, seen')
    BY <1>1, OvertakenMore DEF ConsIInv, SkippedWereOvertaken, Skipped
  <2>4. PICK T : T = seen'
    OBVIOUS
  <2>5. \A n : Overtaken(n, T) => Overtaken(n, seen)'
    <3>1. named \subseteq named' /\ seen' = T
      BY <1>6, <2>4
    <3>2. ASSUME NEW n, Overtaken(n, T) PROVE Overtaken(n, seen)'
      <4>1. \E k \in T : k > n /\ \E p, q \in Publishers : p # q /\ By(p, n)' /\ By(q, k)'
        BY <3>1, <3>2, OvertakenNamed
      <4>2. QED
        BY <3>1, <4>1 DEF Overtaken
    <3>3. QED
      BY <3>2
  <2>6. QED
    BY <1>6, <2>2, <2>3, <2>4, <2>5 DEF SkippedWereOvertaken, Skipped
<1>10. /\ Within(topics[TOPIC] \cap seen', offsets'[CONSUMER_GROUP])
       /\ Within(disk.topics[TOPIC] \cap seen', disk.offsets[CONSUMER_GROUP])
  BY <1>1, <1>4, <1>6 DEF ConsIInv, Within
<1>11. OnlyWriter' /\ Authored' /\ LastOfTask' /\ Scanned'
  BY <1>1, <1>6 DEF ConsIInv, OnlyWriter, Authored, LastOfTask, Scanned, AtRest
<1>12. QED
  BY <1>6, <1>7, <1>8, <1>9, <1>10, <1>11 DEF ConsIInv

LEMMA RestartKeeps ==
  ASSUME ConsIInv, Restart
  PROVE  ConsIInv'
<1>1. BusIInv'
  BY BusStep DEF ConsIInv, Restart, BusNext
<1>2. /\ topics' = disk.topics /\ offsets' = disk.offsets /\ disk' = disk
      /\ pub' = [p \in Publishers |-> Idle] /\ seen' = seen /\ cons' = AtRest
      /\ counts' = [n \in Seqs |-> 0] /\ named' = named
  BY DEF Restart, CrashAndReopen
<1>3. PollTyped'
  BY <1>2, BusAssumption DEF ConsIInv, PollTyped, AtRest
<1>4. QED
  <2>1. SkippedWereOvertaken'
    BY <1>2, OvertakenStays DEF ConsIInv, SkippedWereOvertaken, Skipped
  <2>2. QED
    BY <1>1, <1>2, <1>3, <2>1
    DEF ConsIInv, OnlyWriter, Authored, LastOfTask, Scanned, Within, AtRest, Idle

LEMMA ConsStep == ConsIInv /\ [Next]_vars => ConsIInv'
<1> SUFFICES ASSUME ConsIInv, [Next]_vars PROVE ConsIInv'
  OBVIOUS
<1>1. CASE Publishing
  BY <1>1, PublishKeeps DEF Publishing
<1>2. CASE Flush /\ UNCHANGED consVars
  <2>1. BusIInv'
    BY <1>2, BusStep DEF ConsIInv, BusNext
  <2>2. /\ disk'.topics = topics /\ disk'.offsets = offsets
        /\ UNCHANGED <<topics, offsets, pub, named, cons, counts, seen>>
    BY <1>2 DEF Flush, trees, memory, consVars
  <2>3. SkippedWereOvertaken'
    BY <2>2, OvertakenStays DEF ConsIInv, SkippedWereOvertaken, Skipped
  <2>4. Scanned'
    BY <2>2, OvertakenStays DEF ConsIInv, Scanned
  <2>5. PollTyped' /\ OnlyWriter' /\ Authored' /\ LastOfTask'
    BY <2>2 DEF ConsIInv, PollTyped, OnlyWriter, Authored, LastOfTask
  <2>6. QED
    BY <2>1, <2>2, <2>3, <2>4, <2>5 DEF ConsIInv, Within
<1>3. CASE PollStart
  <2>1. /\ cons' = [at |-> "scanning", base |-> offsets[CONSUMER_GROUP],
                    cursor |-> offsets[CONSUMER_GROUP], batch |-> <<>>]
        /\ UNCHANGED <<busVars, counts, seen>>
    BY <1>3 DEF PollStart
  <2>2. offsets[CONSUMER_GROUP] \in 0 .. MaxSeq
    BY ConsumerAssumption DEF ConsIInv, BusIInv, TypeOK
  <2>3. PollTyped'
    BY <2>1, <2>2 DEF ConsIInv, PollTyped
  <2>4. topics[TOPIC] \subseteq Nat /\ topics' = topics /\ offsets' = offsets
    BY <2>1, ConsFacts DEF busVars
  <2>5. Scanned'
    BY <2>1, <2>2, <2>4 DEF ConsIInv, Scanned, ToSet
  <2>6. QED
    BY <2>1, <2>3, <2>5, PollKeeps
<1>4. CASE PollScan
  BY <1>4, PollScanKeeps
<1>5. CASE PollEmpty \/ PollFails
  <2>1. cons' = AtRest /\ UNCHANGED <<busVars, counts, seen>>
    BY <1>5 DEF PollEmpty, PollFails
  <2>2. PollTyped' /\ Scanned'
    BY <2>1, BusAssumption DEF ConsIInv, PollTyped, Scanned, AtRest
  <2>3. QED
    BY <2>1, <2>2, PollKeeps
<1>6. CASE PollCommit \/ PollCommitFails
  BY <1>6, PollCommitKeeps DEF PollCommit, PollCommitFails
<1>7. CASE Restart
  BY <1>7, RestartKeeps
<1>8. CASE UNCHANGED vars
  <2>1. UNCHANGED <<busVars, cons, counts, seen>>
    BY <1>8 DEF vars, consVars
  <2>2. PollTyped' /\ Scanned'
    BY <2>1, OvertakenStays DEF ConsIInv, PollTyped, Scanned, busVars
  <2>3. QED
    BY <2>1, <2>2, PollKeeps
<1>9. QED
  BY <1>1, <1>2, <1>3, <1>4, <1>5, <1>6, <1>7, <1>8 DEF Next, Poll

\* The inductive invariant of the consumer on the bus.
THEOREM ConsInvariant == Spec => []ConsIInv
<1>1. Init => ConsIInv
  BY InitConsIInv
<1>2. ConsIInv /\ [Next]_vars => ConsIInv'
  BY ConsStep
<1>3. QED
  BY <1>1, <1>2, PTL DEF Spec

\* poll (consumer.rs:197-232) moves its offset past a trading event that no poll has
\* read only if a later number of another task was read, in memory and in what a
\* crash brings back, for any number of tasks that publish.
THEOREM OvertakenOnly == Spec => []SkippedWereOvertaken
BY ConsInvariant, PTL DEF ConsIInv

\* With one publisher of trading events, hence, the offset passes none unread.
THEOREM OneEngineSkipsNothing ==
  ASSUME \A p, q \in Publishers : \A e \in Writes[p], f \in Writes[q] :
           Topic[e] = TOPIC /\ Topic[f] = TOPIC => p = q
  PROVE  Spec => []NoFillSkipped
<1>1. ASSUME NEW n, NEW S PROVE ~Overtaken(n, S)
  BY Zenon DEF Overtaken, By
<1>2. SkippedWereOvertaken => NoFillSkipped
  BY <1>1, Zenon DEF SkippedWereOvertaken, NoFillSkipped
<1>3. QED
  BY <1>2, OvertakenOnly, PTL

-----------------------------------------------------------------------------
\* Every set of numbers has a least one: induction on numbers, stated of a set.
LEMMA LeastNumber ==
  ASSUME NEW T, T \subseteq Nat, T # {}
  PROVE  \E n \in T : \A m \in T : n <= m
<1>1. \A m, n \in Nat : m < n => <<m, n>> \in OpToRel(<, Nat)
  <2>1. OpToRel(<, Nat) = {x \in Nat \X Nat : x[1] < x[2]}
    BY Zenon DEF OpToRel
  <2>2. QED
    BY <2>1
<1>2. PICK n \in T : \A m \in T : ~ (<<m, n>> \in OpToRel(<, Nat))
  BY WFMin, NatLessThanWellFounded
<1>3. \A m \in T : ~(m < n)
  BY <1>1, <1>2, Zenon
<1>4. \A m \in T : n <= m
  BY <1>3
<1>5. QED
  BY <1>4

\* A set of numbers that reaches up to no number but 0 and with each to the next
\* holds them all.
LEMMA AllNumbers ==
  ASSUME NEW S, 0 \in S, \A n \in Nat : n \in S => n + 1 \in S
  PROVE  Nat \subseteq S
<1> DEFINE T == Nat \ S
<1> SUFFICES ASSUME T # {} PROVE FALSE
  OBVIOUS
<1>1. PICK n \in T : \A m \in T : n <= m
  BY LeastNumber
<1>2. n # 0 /\ n - 1 \in Nat
  OBVIOUS
<1>3. n - 1 \in S
  BY <1>1, <1>2
<1>4. QED
  BY <1>2, <1>3

\* A bounded set of numbers has a largest one.
LEMMA LargestNumber ==
  ASSUME NEW k \in Nat, NEW s \in SUBSET (0 .. k), s # {}
  PROVE  \E n \in s : \A i \in s : i <= n
<1> DEFINE T == {n \in Nat : \A i \in s : i <= n}
<1>1. k \in T
  OBVIOUS
<1>2. PICK n \in T : \A m \in T : n <= m
  BY <1>1, LeastNumber
<1>3. n \in s
  <2> SUFFICES ASSUME n \notin s PROVE FALSE
    OBVIOUS
  <2>1. \A i \in s : i \in 0 .. k /\ i <= n /\ i # n
    OBVIOUS
  <2>2. PICK j \in s : TRUE
    OBVIOUS
  <2>3. n - 1 \in Nat /\ \A i \in s : i <= n - 1
    BY <2>1, <2>2
  <2>4. n - 1 \in T
    BY <2>3
  <2>5. QED
    BY <1>2, <2>3, <2>4
<1>4. QED
  BY <1>3

\* Max is the largest of a set of indices.
LEMMA LargestIndex ==
  ASSUME NEW k \in Nat, NEW s \in SUBSET (1 .. k), s # {}
  PROVE  Max(s) \in s /\ \A i \in s : i <= Max(s)
<1>1. s \in SUBSET (0 .. k)
  OBVIOUS
<1>2. PICK n \in s : \A i \in s : i <= n
  BY <1>1, LargestNumber
<1>3. \A i \in s : n >= i
  BY <1>1, <1>2
<1>4. Max(s) \in s /\ \A y \in s : Max(s) >= y
  BY <1>3 DEF Max
<1>5. QED
  BY <1>1, <1>4

\* What poll makes of its accumulators (consumer.rs:216-222): the entries of the
\* batch are processed one after the other.
Tallied(accs, ev, batch) == FoldLeft(LAMBDA a, n : Process(a, ev[n]), accs, batch)

\* One step of the recursion behind FoldLeft, over sets of indices.
Peeled(g, s, accs, ev, batch) ==
  IF s = {} THEN accs ELSE Process(g[s \ {Max(s)}], ev[batch[Max(s)]])

Recursion(g, S, accs, ev, batch) ==
  g = [s \in S |-> Peeled(g, s, accs, ev, batch)]

LEMMA FoldIsRecursion ==
  ASSUME NEW accs, NEW ev, NEW batch
  PROVE  Tallied(accs, ev, batch) =
           (CHOOSE g : Recursion(g, SUBSET DOMAIN batch, accs, ev, batch))[DOMAIN batch]
BY DEF Tallied, FoldLeft, MapThenFoldSet, Recursion, Peeled

\* The recursion has a solution: by induction on the largest index.
LEMMA RecursionSolved ==
  ASSUME NEW accs, NEW ev, NEW batch, NEW k \in Nat
  PROVE  \E g : Recursion(g, SUBSET (1 .. k), accs, ev, batch)
<1> DEFINE S == {n \in Nat : \E g : Recursion(g, SUBSET (1 .. n), accs, ev, batch)}
<1>1. 0 \in S
  <2>1. SUBSET (1 .. 0) = {{}}
    OBVIOUS
  <2>2. Recursion([s \in {{}} |-> accs], {{}}, accs, ev, batch)
    BY DEF Recursion, Peeled
  <2>3. QED
    BY <2>1, <2>2
<1>2. ASSUME NEW n \in Nat, n \in S PROVE n + 1 \in S
  <2>1. PICK g : Recursion(g, SUBSET (1 .. n), accs, ev, batch)
    BY <1>2
  <2> DEFINE h == [s \in SUBSET (1 .. n + 1) |-> Peeled(g, s, accs, ev, batch)]
  <2>2. ASSUME NEW s \in SUBSET (1 .. n + 1), s # {}
        PROVE  s \ {Max(s)} \in SUBSET (1 .. n)
    <3>1. n + 1 \in Nat
      OBVIOUS
    <3>2. Max(s) \in s /\ \A i \in s : i <= Max(s)
      BY <2>2, <3>1, LargestIndex
    <3>3. \A i \in s : i \in 1 .. n + 1
      BY <2>2
    <3>4. PICK m : m = Max(s)
      OBVIOUS
    <3>5. \A i \in s \ {m} : i <= m /\ i # m /\ i \in 1 .. n + 1 /\ m \in 1 .. n + 1
      BY <3>2, <3>3, <3>4
    <3>6. \A i \in s \ {m} : i \in 1 .. n
      BY <3>5
    <3>7. QED
      BY <3>4, <3>6
  <2>3. \A s \in SUBSET (1 .. n) : h[s] = g[s]
    <3>1. SUBSET (1 .. n) \subseteq SUBSET (1 .. n + 1)
      OBVIOUS
    <3>2. QED
      BY <2>1, <3>1 DEF Recursion
  <2>4. \A s \in SUBSET (1 .. n + 1) :
          Peeled(g, s, accs, ev, batch) = Peeled(h, s, accs, ev, batch)
    BY <2>2, <2>3 DEF Peeled
  <2>5. Recursion(h, SUBSET (1 .. n + 1), accs, ev, batch)
    BY <2>4 DEF Recursion
  <2>6. QED
    BY <2>5
<1>3. QED
  BY <1>1, <1>2, AllNumbers

\* The accumulators before and after each entry of a batch.
OneByOne(f, accs, ev, batch, k) ==
  /\ f[0] = accs
  /\ \A i \in 1 .. k : f[i] = Process(f[i - 1], ev[batch[i]])
  /\ Tallied(accs, ev, batch) = f[k]

LEMMA TalliedOneByOne ==
  ASSUME NEW accs, NEW ev, NEW batch, NEW k \in Nat, DOMAIN batch = 1 .. k
  PROVE  \E f : OneByOne(f, accs, ev, batch, k)
<1> DEFINE g == CHOOSE h : Recursion(h, SUBSET (1 .. k), accs, ev, batch)
           f == [i \in 0 .. k |-> g[1 .. i]]
<1>1. Recursion(g, SUBSET (1 .. k), accs, ev, batch)
  BY RecursionSolved
<1>2. Tallied(accs, ev, batch) = g[1 .. k]
  BY FoldIsRecursion
<1> HIDE DEF g
<1>3. \A s \in SUBSET (1 .. k) : g[s] = Peeled(g, s, accs, ev, batch)
  BY <1>1 DEF Recursion
<1>4. f[0] = accs
  <2>1. 1 .. 0 = {} /\ {} \in SUBSET (1 .. k)
    OBVIOUS
  <2>2. f[0] = g[{}]
    BY <2>1
  <2>3. QED
    BY <1>3, <2>1, <2>2 DEF Peeled
<1>5. ASSUME NEW i \in 1 .. k
      PROVE  f[i] = Process(f[i - 1], ev[batch[i]])
  <2>1. 1 .. i \in SUBSET (1 .. k) /\ i \in 1 .. i
    OBVIOUS
  <2>2. Max(1 .. i) = i
    <3>1. Max(1 .. i) \in 1 .. i /\ i <= Max(1 .. i)
      BY <2>1, LargestIndex
    <3>2. QED
      BY <3>1
  <2>3. (1 .. i) \ {i} = 1 .. (i - 1)
    OBVIOUS
  <2>4. g[1 .. i] = Process(g[1 .. (i - 1)], ev[batch[i]])
    BY <1>3, <2>1, <2>2, <2>3 DEF Peeled
  <2>5. QED
    BY <2>4
<1>6. f[k] = g[1 .. k]
  OBVIOUS
<1> HIDE DEF f
<1>7. QED
  BY <1>2, <1>4, <1>5, <1>6 DEF OneByOne

-----------------------------------------------------------------------------
Accumulators == [trade_count : Nat, winning_trades : Nat, losing_trades : Nat,
                 total_pnl : Int, peak_equity : Int, max_drawdown : Int]

AddsUp(a) ==
  /\ a.winning_trades + a.losing_trades = a.trade_count
  /\ a.total_pnl <= a.peak_equity
  /\ a.peak_equity - a.total_pnl <= a.max_drawdown

Accounts == {a \in [Owners -> Accumulators] : \A st \in Owners : AddsUp(a[st])}

\* No strategy has fewer trades in b than in a.
Grown(a, b) == \A st \in Owners : a[st].trade_count <= b[st].trade_count

\* The strengthening of ConsTypeOK: the accumulators add up.
AccountsAddUp == acc \in Accounts

LEMMA GrownOn ==
  ASSUME NEW a \in Accounts, NEW b \in Accounts, NEW c \in Accounts, Grown(a, b), Grown(b, c)
  PROVE  Grown(a, c)
<1>1. \A x \in Accounts : \A st \in Owners : x[st].trade_count \in Nat
  BY DEF Accounts, Accumulators
<1>2. \A st \in Owners : a[st].trade_count \in Nat /\ b[st].trade_count \in Nat
                        /\ c[st].trade_count \in Nat
  BY <1>1
<1>3. QED
  BY <1>2 DEF Grown

LEMMA RecordFillAddsUp ==
  ASSUME NEW a \in Accumulators, AddsUp(a), NEW pnl \in Int
  PROVE  /\ RecordFill(a, pnl) \in Accumulators
         /\ AddsUp(RecordFill(a, pnl))
         /\ RecordFill(a, pnl).trade_count = a.trade_count + 1
BY DEF Accumulators, AddsUp, RecordFill, Larger

LEMMA ProcessGrows ==
  ASSUME NEW a \in Accounts, NEW e
  PROVE  Process(a, e) \in Accounts /\ Grown(a, Process(a, e))
<1>1. a \in [Owners -> Accumulators] /\ \A st \in Owners : AddsUp(a[st])
  BY DEF Accounts
<1>2. \A st \in Owners : a[st].trade_count \in Nat
  BY <1>1 DEF Accumulators
<1>3. CASE e \in Fills
  <2>1. Owner(e) \in Owners /\ Pnl[e] \in Int
    BY <1>3, ConsumerAssumption DEF Owner, Owners
  <2>2. PICK r : r = RecordFill(a[Owner(e)], Pnl[e])
    OBVIOUS
  <2>3. r \in Accumulators /\ AddsUp(r) /\ r.trade_count = a[Owner(e)].trade_count + 1
    BY <1>1, <2>1, <2>2, RecordFillAddsUp
  <2>4. Process(a, e) = [a EXCEPT ![Owner(e)] = r]
    BY <1>3, <2>2 DEF Process
  <2>5. QED
    BY <1>1, <1>2, <2>1, <2>3, <2>4 DEF Accounts, Grown
<1>4. CASE e \notin Fills
  BY <1>2, <1>4 DEF Process, Grown
<1>5. QED
  BY <1>3, <1>4

\* A batch leaves accounts, and takes no trade away.
LEMMA TalliedGrows ==
  ASSUME NEW accs \in Accounts, NEW ev, NEW batch \in Seq(Seqs)
  PROVE  Tallied(accs, ev, batch) \in Accounts /\ Grown(accs, Tallied(accs, ev, batch))
<1>1. PICK k \in Nat : DOMAIN batch = 1 .. k
  OBVIOUS
<1>2. PICK f : OneByOne(f, accs, ev, batch, k)
  BY <1>1, TalliedOneByOne
<1> DEFINE S == {n \in Nat : n <= k => f[n] \in Accounts /\ Grown(accs, f[n])}
<1>3. 0 \in S
  BY <1>2 DEF OneByOne, Grown, Accounts, Accumulators
<1>4. ASSUME NEW n \in Nat, n \in S PROVE n + 1 \in S
  <2> SUFFICES ASSUME n + 1 <= k PROVE f[n + 1] \in Accounts /\ Grown(accs, f[n + 1])
    OBVIOUS
  <2>1. f[n] \in Accounts /\ Grown(accs, f[n])
    BY <1>1, <1>4
  <2>2. n + 1 \in 1 .. k /\ (n + 1) - 1 = n
    BY <1>1
  <2>3. f[n + 1] = Process(f[n], ev[batch[n + 1]])
    BY <1>2, <2>2 DEF OneByOne
  <2>4. f[n + 1] \in Accounts /\ Grown(f[n], f[n + 1])
    BY <2>1, <2>3, ProcessGrows
  <2>5. QED
    BY <2>1, <2>4, GrownOn
<1>5. k \in S
  BY <1>1, <1>3, <1>4, AllNumbers
<1>6. QED
  BY <1>1, <1>2, <1>5 DEF OneByOne

\* What a poll, whether it stores its offset or not, does to the accumulators.
LEMMA BatchTallied ==
  ASSUME ConsIInv, AccountsAddUp, ProcessBatch
  PROVE  AccountsAddUp' /\ Grown(acc, acc')
<1>1. cons.batch \in Seq(Seqs)
  BY ConsFacts
<1>2. acc' = Tallied(acc, events, cons.batch)
  BY DEF ProcessBatch, Tallied
<1>3. QED
  BY <1>1, <1>2, TalliedGrows DEF AccountsAddUp

LEMMA NewAccounts == [st \in Owners |-> NewAccumulator] \in Accounts
BY DEF Accounts, Accumulators, NewAccumulator, AddsUp

LEMMA AccountsStep == ConsIInv /\ AccountsAddUp /\ [Next]_vars => AccountsAddUp'
<1> SUFFICES ASSUME ConsIInv, AccountsAddUp, [Next]_vars PROVE AccountsAddUp'
  OBVIOUS
<1>1. CASE PollCommit \/ PollCommitFails
  BY <1>1, BatchTallied DEF PollCommit, PollCommitFails
<1>2. CASE Restart
  BY <1>2, NewAccounts DEF Restart, AccountsAddUp
<1>3. CASE \/ Publishing
           \/ Flush /\ UNCHANGED consVars
           \/ PollStart \/ PollScan \/ PollEmpty \/ PollFails \/ UNCHANGED vars
  BY <1>3 DEF Publishing, PollStart, PollScan, PollEmpty, PollFails, vars, consVars, AccountsAddUp
<1>4. QED
  BY <1>1, <1>2, <1>3 DEF Next, Poll

\* The accumulators of the consumer add up, whatever it polls (aggregator types of
\* consumer.rs:23-120): the types of the consumer.
THEOREM ConsTypes == Spec => []ConsTypeOK
<1>1. Init => AccountsAddUp
  BY NewAccounts DEF Init, ConsInit, AccountsAddUp
<1>2. ConsIInv /\ AccountsAddUp => ConsTypeOK
  BY DEF ConsIInv, BusIInv, AccountsAddUp, Accounts, Accumulators, AddsUp, ConsTypeOK, NewAccumulator
<1>3. QED
  BY <1>1, <1>2, AccountsStep, ConsInvariant, PTL DEF Spec

-----------------------------------------------------------------------------
(* The metrics of the consumer and those of the full scan: the sums behind Equity, and *)
(* that recording one more fill moves peak and drawdown as those of the sums. *)

\* What Equity is: the sums of the numbers before.
Sums(f, pnls) ==
  /\ f \in [0 .. MaxSeq -> Int] /\ f[0] = 0
  /\ \A n \in Seqs : f[n + 1] = f[n] + pnls[n]

Cumulated(f, pnls) == f = [n \in 0 .. MaxSeq |-> IF n = 0 THEN 0 ELSE f[n - 1] + pnls[n - 1]]

LEMMA SumsExist ==
  ASSUME NEW pnls \in [Seqs -> Int]
  PROVE  \E f : Cumulated(f, pnls)
<1> USE BusAssumption
<1> DEFINE Upto(f, k) == /\ f \in [0 .. k -> Int] /\ f[0] = 0
                         /\ \A n \in 0 .. k - 1 : f[n + 1] = f[n] + pnls[n]
           S == {k \in Nat : k <= MaxSeq => \E f : Upto(f, k)}
<1>1. 0 \in S
  <2>1. Upto([n \in 0 .. 0 |-> 0], 0)
    OBVIOUS
  <2>2. QED
    BY <2>1
<1>2. ASSUME NEW k \in Nat, k \in S PROVE k + 1 \in S
  <2> SUFFICES ASSUME k + 1 <= MaxSeq PROVE \E f : Upto(f, k + 1)
    OBVIOUS
  <2>1. PICK f : Upto(f, k)
    BY <1>2
  <2>2. pnls[k] \in Int
    BY DEF Seqs
  <2> DEFINE g == [n \in 0 .. k + 1 |-> IF n <= k THEN f[n] ELSE f[k] + pnls[k]]
  <2>3. g \in [0 .. k + 1 -> Int] /\ g[0] = 0
    BY <2>1, <2>2
  <2>4. ASSUME NEW n \in 0 .. (k + 1) - 1 PROVE g[n + 1] = g[n] + pnls[n]
    <3>1. CASE n = k
      BY <2>1, <3>1
    <3>2. CASE n # k
      <4>1. n \in 0 .. k - 1 /\ g[n + 1] = f[n + 1] /\ g[n] = f[n]
        BY <3>2
      <4>2. QED
        BY <2>1, <4>1
    <3>3. QED
      BY <3>1, <3>2
  <2> HIDE DEF g
  <2>5. Upto(g, k + 1)
    BY <2>3, <2>4
  <2> HIDE DEF Upto
  <2>6. QED
    BY <2>5
<1> HIDE DEF S
<1>3. MaxSeq \in S
  BY <1>1, <1>2, AllNumbers
<1>4. PICK f : Upto(f, MaxSeq)
  BY <1>3 DEF S
<1>5. ASSUME NEW n \in 0 .. MaxSeq
      PROVE  f[n] = IF n = 0 THEN 0 ELSE f[n - 1] + pnls[n - 1]
  <2>1. CASE n = 0
    BY <1>4, <2>1
  <2>2. CASE n # 0
    <3>1. n - 1 \in 0 .. MaxSeq - 1 /\ (n - 1) + 1 = n
      BY <2>2
    <3>2. f[(n - 1) + 1] = f[n - 1] + pnls[n - 1]
      BY <1>4, <3>1
    <3>3. QED
      BY <2>2, <3>1, <3>2
  <2>3. QED
    BY <2>1, <2>2
<1>6. f = [n \in 0 .. MaxSeq |-> f[n]]
  BY <1>4
<1>7. Cumulated(f, pnls)
  BY <1>5, <1>6 DEF Cumulated
<1>8. QED
  BY <1>7

LEMMA EquitySums ==
  ASSUME NEW pnls \in [Seqs -> Int]
  PROVE  Sums(Equity(pnls), pnls)
<1> USE BusAssumption
<1>1. PICK f : f = Equity(pnls)
  OBVIOUS
<1>2. f = CHOOSE g : Cumulated(g, pnls)
  BY <1>1 DEF Equity, Cumulated
<1>3. Cumulated(f, pnls)
  BY <1>2, SumsExist
<1>4. DOMAIN f = 0 .. MaxSeq /\ f[0] = 0
  BY <1>3 DEF Cumulated
<1>5. ASSUME NEW n \in Seqs PROVE f[n + 1] = f[n] + pnls[n]
  <2>1. n + 1 \in 0 .. MaxSeq /\ n + 1 # 0 /\ (n + 1) - 1 = n
    BY DEF Seqs
  <2>2. f[n + 1] = f[(n + 1) - 1] + pnls[(n + 1) - 1]
    BY <1>3, <2>1 DEF Cumulated
  <2>3. QED
    BY <2>1, <2>2
<1> DEFINE S == {n \in Nat : n <= MaxSeq => f[n] \in Int}
<1>6. 0 \in S
  BY <1>4
<1>7. ASSUME NEW n \in Nat, n \in S PROVE n + 1 \in S
  <2> SUFFICES ASSUME n + 1 <= MaxSeq PROVE f[n + 1] \in Int
    OBVIOUS
  <2>1. n \in Seqs /\ f[n] \in Int
    BY <1>7 DEF Seqs
  <2>2. pnls[n] \in Int
    BY <2>1
  <2>3. QED
    BY <1>5, <2>1, <2>2
<1> HIDE DEF S
<1>8. \A n \in Nat : n \in S
  BY <1>6, <1>7, AllNumbers
<1>9. \A n \in 0 .. MaxSeq : f[n] \in Int
  BY <1>8 DEF S
<1>10. f = [n \in 0 .. MaxSeq |-> f[n]]
  BY <1>3 DEF Cumulated
<1>11. f \in [0 .. MaxSeq -> Int]
  BY <1>9, <1>10
<1>12. QED
  BY <1>1, <1>4, <1>5, <1>11 DEF Sums

\* One more fill, k: the sums f up to it stay, and those behind it move by what it earned.
Moved(f, g, k, v) ==
  /\ \A n \in 0 .. k : g[n] = f[n]
  /\ \A n \in k .. MaxSeq : f[n] = f[MaxSeq]
  /\ \A n \in k + 1 .. MaxSeq : g[n] = f[MaxSeq] + v

LEMMA SumsMove ==
  ASSUME NEW pnls \in [Seqs -> Int], NEW k \in Seqs, \A n \in Seqs : n >= k => pnls[n] = 0,
         NEW v \in Int, NEW next \in [Seqs -> Int],
         next[k] = v, \A n \in Seqs : n # k => next[n] = pnls[n],
         NEW f, NEW g, Sums(f, pnls), Sums(g, next)
  PROVE  Moved(f, g, k, v)
<1> USE BusAssumption
<1>1. k \in Nat /\ k + 1 \in 0 .. MaxSeq /\ k < MaxSeq
  BY DEF Seqs
<1>2. /\ f \in [0 .. MaxSeq -> Int] /\ f[0] = 0 /\ \A n \in Seqs : f[n + 1] = f[n] + pnls[n]
      /\ g \in [0 .. MaxSeq -> Int] /\ g[0] = 0
      /\ \A n \in Seqs : n # k => g[n + 1] = g[n] + pnls[n]
      /\ g[k + 1] = g[k] + v
  BY DEF Sums
<1>3. \A n \in 0 .. k : g[n] = f[n]
  <2> DEFINE S == {n \in Nat : n <= k => g[n] = f[n]}
  <2>1. 0 \in S
    BY <1>2
  <2>2. ASSUME NEW n \in Nat, n \in S PROVE n + 1 \in S
    <3> SUFFICES ASSUME n + 1 <= k PROVE g[n + 1] = f[n + 1]
      OBVIOUS
    <3>1. n \in Seqs /\ n # k /\ g[n] = f[n]
      BY <1>1, <2>2 DEF Seqs
    <3>2. QED
      BY <1>2, <3>1
  <2> HIDE DEF S
  <2>3. \A n \in Nat : n \in S
    BY <2>1, <2>2, AllNumbers
  <2>4. QED
    BY <2>3 DEF S
<1>4. \A n \in k .. MaxSeq : f[n] = f[k]
  <2> DEFINE S == {n \in Nat : n >= k /\ n <= MaxSeq => f[n] = f[k]}
  <2>1. 0 \in S
    BY <1>1
  <2>2. ASSUME NEW n \in Nat, n \in S PROVE n + 1 \in S
    <3> SUFFICES ASSUME n + 1 >= k, n + 1 <= MaxSeq PROVE f[n + 1] = f[k]
      OBVIOUS
    <3>1. CASE n + 1 = k
      BY <3>1
    <3>2. CASE n + 1 # k
      <4>1. n \in Seqs /\ n >= k /\ f[n] = f[k] /\ n \in 0 .. MaxSeq
        BY <1>1, <2>2, <3>2 DEF Seqs
      <4>2. pnls[n] = 0 /\ f[n] \in Int /\ f[n + 1] = f[n] + pnls[n]
        BY <1>2, <4>1
      <4>3. QED
        BY <4>1, <4>2
    <3>3. QED
      BY <3>1, <3>2
  <2> HIDE DEF S
  <2>3. \A n \in Nat : n \in S
    BY <2>1, <2>2, AllNumbers
  <2>4. QED
    BY <1>1, <2>3 DEF S
<1>5. \A n \in k + 1 .. MaxSeq : g[n] = f[k] + v
  <2> DEFINE S == {n \in Nat : n > k /\ n <= MaxSeq => g[n] = f[k] + v}
  <2>1. 0 \in S
    BY <1>1
  <2>2. ASSUME NEW n \in Nat, n \in S PROVE n + 1 \in S
    <3> SUFFICES ASSUME n + 1 > k, n + 1 <= MaxSeq PROVE g[n + 1] = f[k] + v
      OBVIOUS
    <3>1. CASE n = k
      <4>1. g[k] = f[k]
        BY <1>1, <1>3
      <4>2. QED
        BY <1>2, <3>1, <4>1
    <3>2. CASE n # k
      <4>1. n \in Seqs /\ n > k /\ g[n] = f[k] + v /\ n \in 0 .. MaxSeq
        BY <1>1, <2>2, <3>2 DEF Seqs
      <4>2. pnls[n] = 0 /\ g[n] \in Int /\ g[n + 1] = g[n] + pnls[n]
        BY <1>2, <3>2, <4>1
      <4>3. QED
        BY <4>1, <4>2
    <3>3. QED
      BY <3>1, <3>2
  <2> HIDE DEF S
  <2>3. \A n \in Nat : n \in S
    BY <2>1, <2>2, AllNumbers
  <2>4. QED
    BY <1>1, <2>3 DEF S
<1>6. f[MaxSeq] = f[k]
  BY <1>1, <1>4
<1>7. QED
  BY <1>3, <1>4, <1>5, <1>6 DEF Moved

\* An accumulator has seen the equity f.
Peaks(a, f) ==
  /\ a.total_pnl = f[MaxSeq]
  /\ \E i \in 0 .. MaxSeq : a.peak_equity = f[i]
  /\ \A i \in 0 .. MaxSeq : f[i] <= a.peak_equity
  /\ \E i, j \in 0 .. MaxSeq : i <= j /\ a.max_drawdown = f[i] - f[j]
  /\ \A i, j \in 0 .. MaxSeq : i <= j => f[i] - f[j] <= a.max_drawdown

LEMMA LargerOf ==
  ASSUME NEW x \in Int, NEW y \in Int
  PROVE  /\ Larger(x, y) \in Int /\ x <= Larger(x, y) /\ y <= Larger(x, y)
         /\ Larger(x, y) = x \/ Larger(x, y) = y
BY DEF Larger

LEMMA PeaksMove ==
  ASSUME NEW k \in Nat, k < MaxSeq, NEW v \in Int, NEW a \in Accumulators,
         NEW f \in [0 .. MaxSeq -> Int], NEW g \in [0 .. MaxSeq -> Int],
         Moved(f, g, k, v), Peaks(a, f)
  PROVE  Peaks(RecordFill(a, v), g)
<1> USE BusAssumption
<1>0. /\ \A n \in 0 .. k : g[n] = f[n]
      /\ \A n \in k .. MaxSeq : f[n] = f[MaxSeq]
      /\ \A n \in k + 1 .. MaxSeq : g[n] = f[MaxSeq] + v
  BY DEF Moved
<1>1. PICK t \in Int, P \in Int, D \in Int :
        t = a.total_pnl /\ P = a.peak_equity /\ D = a.max_drawdown
  BY DEF Accumulators
<1>2. PICK Q, E : Q = Larger(P, t + v) /\ E = Larger(D, Q - (t + v))
  OBVIOUS
<1>3. Q \in Int /\ P <= Q /\ t + v <= Q /\ (Q = P \/ Q = t + v)
  <2>1. t + v \in Int
    OBVIOUS
  <2>2. QED
    BY <1>2, <2>1, LargerOf
<1>4. E \in Int /\ D <= E /\ Q - (t + v) <= E /\ (E = D \/ E = Q - (t + v))
  <2>1. Q - (t + v) \in Int
    BY <1>3
  <2>2. QED
    BY <1>2, <2>1, LargerOf
<1>5. /\ RecordFill(a, v).total_pnl = t + v /\ RecordFill(a, v).peak_equity = Q
      /\ RecordFill(a, v).max_drawdown = E
  BY <1>1, <1>2 DEF RecordFill
<1>6. /\ f[MaxSeq] = t /\ \A i \in 0 .. MaxSeq : f[i] <= P
      /\ \A i, j \in 0 .. MaxSeq : i <= j => f[i] - f[j] <= D
  BY <1>1 DEF Peaks
<1>7. \A n \in 0 .. MaxSeq : (n <= k => g[n] = f[n]) /\ (n > k => g[n] = t + v)
  BY <1>0, <1>6
<1>8. g[MaxSeq] = t + v /\ MaxSeq \in 0 .. MaxSeq /\ k \in 0 .. MaxSeq
  BY <1>7
<1> DEFINE Back(i) == IF i <= k THEN i ELSE k
<1>9. ASSUME NEW i \in 0 .. MaxSeq
      PROVE  Back(i) \in 0 .. k /\ Back(i) \in 0 .. MaxSeq /\ g[Back(i)] = f[i]
  <2>1. CASE i <= k
    <3>1. Back(i) = i /\ i \in 0 .. k
      BY <2>1
    <3>2. QED
      BY <1>0, <3>1
  <2>2. CASE i > k
    <3>1. f[i] = f[MaxSeq] /\ f[k] = f[MaxSeq] /\ g[k] = f[k]
      BY <1>0, <1>7, <1>8, <2>2
    <3>2. QED
      BY <2>2, <3>1
  <2>3. QED
    BY <2>1, <2>2
<1>10. \A i, j \in 0 .. MaxSeq : i <= j => Back(i) <= Back(j)
  OBVIOUS
<1> HIDE DEF Back
<1>11. \E i \in 0 .. MaxSeq : Q = g[i]
  <2>1. PICK i \in 0 .. MaxSeq : P = f[i]
    BY <1>1 DEF Peaks
  <2>2. P = g[Back(i)] /\ Back(i) \in 0 .. MaxSeq
    BY <1>9, <2>1
  <2>3. QED
    BY <1>3, <1>8, <2>2
<1>12. \A i \in 0 .. MaxSeq : g[i] <= Q
  <2> SUFFICES ASSUME NEW i \in 0 .. MaxSeq PROVE g[i] <= Q
    OBVIOUS
  <2>1. f[i] \in Int /\ f[i] <= P
    BY <1>6
  <2>2. f[i] <= Q
    BY <1>3, <2>1
  <2>3. g[i] = f[i] \/ g[i] = t + v
    BY <1>7
  <2>4. QED
    BY <1>3, <2>2, <2>3
<1>13. \E i, j \in 0 .. MaxSeq : i <= j /\ E = g[i] - g[j]
  <2>1. CASE E = D
    <3>1. PICK i \in 0 .. MaxSeq, j \in 0 .. MaxSeq : i <= j /\ D = f[i] - f[j]
      BY <1>1 DEF Peaks
    <3>2. D = g[Back(i)] - g[Back(j)] /\ Back(i) <= Back(j)
          /\ Back(i) \in 0 .. MaxSeq /\ Back(j) \in 0 .. MaxSeq
      BY <1>9, <1>10, <3>1
    <3>3. QED
      BY <2>1, <3>2
  <2>2. CASE E = Q - (t + v)
    <3>1. PICK i \in 0 .. MaxSeq : Q = g[i]
      BY <1>11
    <3>2. i <= MaxSeq
      OBVIOUS
    <3>3. QED
      BY <1>8, <2>2, <3>1, <3>2
  <2>3. QED
    BY <1>4, <2>1, <2>2
<1>14. \A i, j \in 0 .. MaxSeq : i <= j => g[i] - g[j] <= E
  <2> SUFFICES ASSUME NEW i \in 0 .. MaxSeq, NEW j \in 0 .. MaxSeq, i <= j PROVE g[i] - g[j] <= E
    OBVIOUS
  <2>1. CASE j <= k
    <3>1. g[i] = f[i] /\ g[j] = f[j] /\ f[i] - f[j] <= D /\ f[i] \in Int /\ f[j] \in Int
      <4>1. i \in 0 .. k /\ j \in 0 .. k
        BY <2>1
      <4>2. QED
        BY <1>0, <1>6, <4>1
    <3>2. PICK x \in Int : x = g[i] - g[j] /\ x <= D
      BY <3>1
    <3>3. x <= E
      BY <1>4, <3>2
    <3>4. QED
      BY <3>2, <3>3
  <2>2. CASE j > k
    <3>1. g[j] = t + v /\ g[i] <= Q /\ g[i] \in Int
      BY <1>7, <1>12, <2>2
    <3>2. PICK x \in Int, w \in Int : x = g[i] /\ w = t + v
      BY <3>1
    <3>3. x <= Q /\ Q - w <= E
      BY <1>4, <3>1, <3>2
    <3>4. x - w <= E
      BY <1>3, <1>4, <3>3
    <3>5. QED
      BY <3>1, <3>2, <3>4
  <2>3. QED
    BY <2>1, <2>2
<1>15. QED
  BY <1>5, <1>8, <1>11, <1>12, <1>13, <1>14 DEF Peaks

-----------------------------------------------------------------------------
\* An accumulator holds the metrics of the fills `mine', each of which earned what
\* pnls says.
Matches(a, mine, pnls) ==
  /\ a.trade_count = Cardinality(mine)
  /\ a.winning_trades = Cardinality({n \in mine : pnls[n] > 0})
  /\ Peaks(a, Equity(pnls))

LEMMA SomeSeqsFinite ==
  ASSUME NEW s, s \subseteq Seqs
  PROVE  IsFiniteSet(s) /\ Cardinality(s) \in Nat
<1>1. IsFiniteSet(Seqs)
  BY FS_Interval, BusAssumption DEF Seqs
<1>2. QED
  BY <1>1, FS_Subset, FS_CardinalityType

LEMMA NothingMatches == Matches(NewAccumulator, {}, [n \in Seqs |-> 0])
<1> USE BusAssumption
<1> DEFINE none == [n \in Seqs |-> 0]
<1>1. none \in [Seqs -> Int] /\ \A n \in Seqs : none[n] = 0
  OBVIOUS
<1>2. PICK f : f = Equity(none)
  OBVIOUS
<1> HIDE DEF none
<1>3. f \in [0 .. MaxSeq -> Int] /\ f[0] = 0 /\ \A n \in Seqs : f[n + 1] = f[n]
  <2>1. Sums(f, none)
    BY <1>1, <1>2, EquitySums
  <2>2. f \in [0 .. MaxSeq -> Int] /\ f[0] = 0 /\ \A n \in Seqs : f[n + 1] = f[n] + none[n]
    BY <2>1, Zenon DEF Sums
  <2>3. ASSUME NEW n \in Seqs PROVE f[n + 1] = f[n]
    <3>1. n \in 0 .. MaxSeq /\ f[n + 1] = f[n] + none[n] /\ none[n] = 0
      BY <1>1, <2>2 DEF Seqs
    <3>2. f[n] \in Int
      BY <2>2, <3>1
    <3>3. QED
      BY <3>1, <3>2
  <2>4. QED
    BY <2>2, <2>3
<1> DEFINE S == {n \in Nat : n <= MaxSeq => f[n] = 0}
<1>4. 0 \in S
  BY <1>3
<1>5. ASSUME NEW n \in Nat, n \in S PROVE n + 1 \in S
  BY <1>3, <1>5 DEF Seqs
<1> HIDE DEF S
<1>6. \A n \in Nat : n \in S
  BY <1>4, <1>5, AllNumbers
<1>7. \A n \in 0 .. MaxSeq : f[n] = 0
  BY <1>6 DEF S
<1>8. MaxSeq \in 0 .. MaxSeq
  OBVIOUS
<1>9. Peaks(NewAccumulator, f)
  BY <1>7, <1>8 DEF Peaks, NewAccumulator
<1>10. Cardinality({}) = 0 /\ {n \in {} : none[n] > 0} = {}
  BY FS_EmptySet
<1>11. Matches(NewAccumulator, {}, none)
  BY <1>2, <1>9, <1>10 DEF Matches, NewAccumulator
<1>12. QED
  BY <1>11 DEF none

\* record_fill keeps an accumulator on the metrics of the full scan.
LEMMA FillMatches ==
  ASSUME NEW a \in Accumulators, NEW mine \in SUBSET Seqs, NEW pnls \in [Seqs -> Int],
         NEW k \in Seqs, NEW v \in Int, k \notin mine, \A n \in Seqs : n >= k => pnls[n] = 0,
         Matches(a, mine, pnls)
  PROVE  Matches(RecordFill(a, v), mine \cup {k}, [pnls EXCEPT ![k] = v])
<1> USE BusAssumption
<1>1. PICK next \in [Seqs -> Int] : next = [pnls EXCEPT ![k] = v]
  OBVIOUS
<1>2. next[k] = v /\ \A n \in Seqs : n # k => next[n] = pnls[n]
  BY <1>1
<1>3. /\ RecordFill(a, v).trade_count = a.trade_count + 1
      /\ RecordFill(a, v).winning_trades = a.winning_trades + (IF v > 0 THEN 1 ELSE 0)
      /\ a.trade_count \in Nat /\ a.winning_trades \in Nat
  BY DEF RecordFill, Accumulators
<1>4. Cardinality(mine \cup {k}) = Cardinality(mine) + 1
  BY SomeSeqsFinite, FS_AddElement
<1> DEFINE won == {n \in mine : pnls[n] > 0}
           wonNext == {n \in mine \cup {k} : next[n] > 0}
<1>5. Cardinality(wonNext) = Cardinality(won) + (IF v > 0 THEN 1 ELSE 0)
  <2>1. \A n \in mine : next[n] = pnls[n]
    BY <1>2
  <2>2. IsFiniteSet(won) /\ Cardinality(won) \in Nat /\ k \notin won
    BY SomeSeqsFinite
  <2>3. CASE v > 0
    <3>1. wonNext = won \cup {k}
      BY <1>2, <2>1, <2>3
    <3>2. QED
      BY <2>2, <2>3, <3>1, FS_AddElement
  <2>4. CASE ~(v > 0)
    <3>1. wonNext = won
      BY <1>2, <2>1, <2>4
    <3>2. PICK c \in Nat : c = Cardinality(won) /\ c = Cardinality(wonNext)
      BY <2>2, <3>1
    <3>3. c = c + (IF v > 0 THEN 1 ELSE 0)
      BY <2>4
    <3>4. QED
      BY <3>2, <3>3
  <2>5. QED
    BY <2>3, <2>4
<1>6. Peaks(RecordFill(a, v), Equity(next))
  <2>1. PICK f, g : f = Equity(pnls) /\ g = Equity(next)
    OBVIOUS
  <2>2. Sums(f, pnls) /\ Sums(g, next)
    BY <2>1, EquitySums
  <2>3. Moved(f, g, k, v)
    BY <1>2, <2>2, SumsMove
  <2>4. f \in [0 .. MaxSeq -> Int] /\ g \in [0 .. MaxSeq -> Int] /\ k \in Nat /\ k < MaxSeq
    <3>1. f \in [0 .. MaxSeq -> Int] /\ g \in [0 .. MaxSeq -> Int]
      BY <2>2, Zenon DEF Sums
    <3>2. QED
      BY <3>1 DEF Seqs
  <2>5. Peaks(a, f)
    BY <2>1 DEF Matches
  <2>6. QED
    <3>1. Peaks(RecordFill(a, v), g)
      BY <2>3, <2>4, <2>5, PeaksMove
    <3>2. QED
      BY <2>1, <3>1
<1>7. Matches(RecordFill(a, v), mine \cup {k}, next)
  BY <1>3, <1>4, <1>5, <1>6 DEF Matches
<1>8. QED
  BY <1>1, <1>7

\* An accumulator that matches has the metrics of the full scan.
LEMMA MatchesIsAggregate ==
  ASSUME NEW S \in SUBSET Seqs, NEW st, NEW a \in Accumulators,
         Earned(S, st) \in [Seqs -> Int], Matches(a, FillsOf(S, st), Earned(S, st))
  PROVE  ToMetrics(a) = Aggregate(S, st)
<1> USE BusAssumption
<1>1. PICK f : f = Equity(Earned(S, st))
  OBVIOUS
<1>2. f \in [0 .. MaxSeq -> Int] /\ Peaks(a, f)
  BY <1>1, EquitySums DEF Sums, Matches
<1>3. PICK d \in Int : d = a.max_drawdown
  BY DEF Accumulators
<1>4. d \in Falls(f) /\ \A x \in Falls(f) : x \in Int /\ x <= d
  <2>1. \A x : x \in Falls(f) <=> \E i \in 0 .. MaxSeq : \E j \in i .. MaxSeq : x = f[i] - f[j]
    BY DEF Falls
  <2>2. \A i \in 0 .. MaxSeq : \A j \in i .. MaxSeq : j \in 0 .. MaxSeq /\ i <= j
    OBVIOUS
  <2>3. \A i, j \in 0 .. MaxSeq : i <= j => j \in i .. MaxSeq
    OBVIOUS
  <2>4. d \in Falls(f)
    BY <1>2, <1>3, <2>1, <2>3 DEF Peaks
  <2>5. ASSUME NEW x \in Falls(f) PROVE x \in Int /\ x <= d
    <3>1. PICK i \in 0 .. MaxSeq : \E j \in i .. MaxSeq : x = f[i] - f[j]
      BY <2>1
    <3>2. PICK j \in i .. MaxSeq : x = f[i] - f[j]
      BY <3>1
    <3>3. j \in 0 .. MaxSeq /\ i <= j
      BY <2>2
    <3>4. QED
      <4>1. f[i] - f[j] <= d
        BY <1>2, <1>3, <3>3 DEF Peaks
      <4>2. f[i] \in Int /\ f[j] \in Int
        BY <1>2, <3>3
      <4>3. QED
        BY <3>2, <4>1, <4>2
  <2>6. QED
    BY <2>4, <2>5
<1>5. Max(Falls(f)) = d
  <2>1. \A y \in Falls(f) : d >= y
    BY <1>4
  <2>2. Max(Falls(f)) \in Falls(f) /\ \A y \in Falls(f) : Max(Falls(f)) >= y
    BY <1>4, <2>1 DEF Max
  <2>3. Max(Falls(f)) >= d /\ Max(Falls(f)) <= d /\ Max(Falls(f)) \in Int
    BY <1>4, <2>2
  <2>4. QED
    BY <2>3
<1>6. QED
  BY <1>1, <1>2, <1>3, <1>5 DEF Matches, Peaks, ToMetrics, Aggregate

-----------------------------------------------------------------------------
\* The fills among the numbers below n, when the tree of events is ev.
FillsBelow(ev, n, st) == {m \in 0 .. n - 1 : ev[m] \in Fills /\ Strategy[ev[m]] = st}
EarnedBelow(ev, n, st) ==
  [m \in Seqs |-> IF m \in FillsBelow(ev, n, st) THEN Pnl[ev[m]] ELSE 0]

\* Accumulators that hold every number below n, once each.
Told(accs, ev, n) ==
  \A st \in Strategies : Matches(accs[st], FillsBelow(ev, n, st), EarnedBelow(ev, n, st))

LEMMA EarnedTyped ==
  ASSUME NEW ev, NEW n \in 0 .. MaxSeq, NEW st
  PROVE  FillsBelow(ev, n, st) \in SUBSET Seqs /\ EarnedBelow(ev, n, st) \in [Seqs -> Int]
<1> USE BusAssumption
<1>1. FillsBelow(ev, n, st) \in SUBSET Seqs
  BY DEF FillsBelow, Seqs
<1>2. \A m \in FillsBelow(ev, n, st) : Pnl[ev[m]] \in Int
  BY ConsumerAssumption DEF FillsBelow
<1>3. QED
  BY <1>1, <1>2 DEF EarnedBelow

\* Events at or above n do not matter.
LEMMA ToldSame ==
  ASSUME NEW accs, NEW ev, NEW next, NEW n \in 0 .. MaxSeq,
         \A m \in 0 .. n - 1 : next[m] = ev[m], Told(accs, ev, n)
  PROVE  Told(accs, next, n)
<1>1. SUFFICES ASSUME NEW st \in Strategies
               PROVE  Matches(accs[st], FillsBelow(next, n, st), EarnedBelow(next, n, st))
  BY DEF Told
<1>2. FillsBelow(next, n, st) = FillsBelow(ev, n, st)
  BY DEF FillsBelow
<1>3. \A m \in FillsBelow(ev, n, st) : next[m] = ev[m]
  BY DEF FillsBelow
<1>4. EarnedBelow(next, n, st) = EarnedBelow(ev, n, st)
  BY <1>2, <1>3 DEF EarnedBelow
<1>5. QED
  BY <1>2, <1>4 DEF Told

LEMMA ToldFirst ==
  ASSUME NEW ev
  PROVE  Told([st \in Owners |-> NewAccumulator], ev, 0)
<1>1. SUFFICES ASSUME NEW st \in Strategies
               PROVE  Matches(NewAccumulator, FillsBelow(ev, 0, st), EarnedBelow(ev, 0, st))
  BY DEF Told, Owners
<1>2. FillsBelow(ev, 0, st) = {}
  BY DEF FillsBelow
<1>3. EarnedBelow(ev, 0, st) = [n \in Seqs |-> 0]
  BY <1>2 DEF EarnedBelow
<1>4. QED
  BY <1>2, <1>3, NothingMatches

\* process_fill on the number that comes next.
LEMMA ToldNext ==
  ASSUME "unknown" \notin Strategies, NEW a \in Accounts, NEW ev, NEW n \in Seqs, Told(a, ev, n)
  PROVE  Told(Process(a, ev[n]), ev, n + 1)
<1> USE BusAssumption
<1>1. SUFFICES ASSUME NEW st \in Strategies
               PROVE  Matches(Process(a, ev[n])[st], FillsBelow(ev, n + 1, st),
                              EarnedBelow(ev, n + 1, st))
  BY DEF Told
<1>2. /\ n \in Nat /\ n \in 0 .. MaxSeq /\ 0 .. (n + 1) - 1 = (0 .. n - 1) \cup {n}
      /\ n \notin 0 .. n - 1
  BY DEF Seqs
<1>3. PICK mine, pnls : mine = FillsBelow(ev, n, st) /\ pnls = EarnedBelow(ev, n, st)
  OBVIOUS
<1>4. mine \in SUBSET Seqs /\ pnls \in [Seqs -> Int] /\ Matches(a[st], mine, pnls)
  BY <1>2, <1>3, EarnedTyped DEF Told
<1>5. n \notin mine /\ \A m \in Seqs : m >= n => m \notin mine
  BY <1>2, <1>3 DEF FillsBelow, Seqs
<1>6. \A m \in Seqs : pnls[m] = IF m \in mine THEN Pnl[ev[m]] ELSE 0
  BY <1>3 DEF EarnedBelow
<1>7. a \in [Owners -> Accumulators] /\ a[st] \in Accumulators /\ st \in Owners
  BY DEF Accounts, Owners
<1>8. CASE ev[n] \in Fills /\ Strategy[ev[n]] = st
  <2>1. Owner(ev[n]) = st /\ Pnl[ev[n]] \in Int
    BY <1>8, ConsumerAssumption DEF Owner
  <2>2. Process(a, ev[n])[st] = RecordFill(a[st], Pnl[ev[n]])
    BY <1>7, <1>8, <2>1 DEF Process
  <2>3. FillsBelow(ev, n + 1, st) = mine \cup {n}
    BY <1>2, <1>3, <1>8 DEF FillsBelow
  <2>4. EarnedBelow(ev, n + 1, st) = [pnls EXCEPT ![n] = Pnl[ev[n]]]
    <3>1. \A m \in Seqs : EarnedBelow(ev, n + 1, st)[m] =
                            IF m \in mine \cup {n} THEN Pnl[ev[m]] ELSE 0
      BY <2>3 DEF EarnedBelow
    <3>2. \A m \in Seqs : EarnedBelow(ev, n + 1, st)[m] = [pnls EXCEPT ![n] = Pnl[ev[n]]][m]
      BY <1>4, <1>6, <3>1
    <3>3. EarnedBelow(ev, n + 1, st) = [m \in Seqs |-> EarnedBelow(ev, n + 1, st)[m]]
      BY DEF EarnedBelow
    <3>4. [pnls EXCEPT ![n] = Pnl[ev[n]]] = [m \in Seqs |-> [pnls EXCEPT ![n] = Pnl[ev[n]]][m]]
      BY <1>4
    <3>5. QED
      BY <3>2, <3>3, <3>4
  <2>5. \A m \in Seqs : m >= n => pnls[m] = 0
    BY <1>5, <1>6
  <2>6. Matches(RecordFill(a[st], Pnl[ev[n]]), mine \cup {n}, [pnls EXCEPT ![n] = Pnl[ev[n]]])
    BY <1>4, <1>5, <1>7, <2>1, <2>5, FillMatches
  <2>7. QED
    BY <2>2, <2>3, <2>4, <2>6
<1>9. CASE ~(ev[n] \in Fills /\ Strategy[ev[n]] = st)
  <2>1. FillsBelow(ev, n + 1, st) = mine
    BY <1>2, <1>3, <1>9 DEF FillsBelow
  <2>2. EarnedBelow(ev, n + 1, st) = pnls
    BY <1>3, <2>1 DEF EarnedBelow
  <2>3. Process(a, ev[n])[st] = a[st]
    <3>1. CASE ev[n] \in Fills
      <4>1. Owner(ev[n]) # st
        BY <1>9, <3>1 DEF Owner
      <4>2. QED
        BY <1>7, <3>1, <4>1 DEF Process
    <3>2. CASE ev[n] \notin Fills
      BY <3>2 DEF Process
    <3>3. QED
      BY <3>1, <3>2
  <2>4. QED
    BY <1>4, <2>1, <2>2, <2>3
<1>10. QED
  BY <1>8, <1>9

\* A batch of the numbers that come next.
LEMMA ToldBatch ==
  ASSUME "unknown" \notin Strategies, NEW accs \in Accounts, NEW ev, NEW batch, NEW k \in Nat,
         DOMAIN batch = 1 .. k, NEW o \in Nat, o + k <= MaxSeq,
         \A i \in 1 .. k : batch[i] = o + i - 1, Told(accs, ev, o)
  PROVE  Told(Tallied(accs, ev, batch), ev, o + k)
<1> USE BusAssumption
<1>1. PICK f : OneByOne(f, accs, ev, batch, k)
  BY TalliedOneByOne
<1> DEFINE S == {n \in Nat : n <= k => f[n] \in Accounts /\ Told(f[n], ev, o + n)}
<1>2. 0 \in S
  BY <1>1 DEF OneByOne
<1>3. ASSUME NEW n \in Nat, n \in S PROVE n + 1 \in S
  <2> SUFFICES ASSUME n + 1 <= k PROVE f[n + 1] \in Accounts /\ Told(f[n + 1], ev, o + (n + 1))
    OBVIOUS
  <2>1. f[n] \in Accounts /\ Told(f[n], ev, o + n)
    BY <1>3
  <2>2. n + 1 \in 1 .. k /\ (n + 1) - 1 = n /\ o + (n + 1) = (o + n) + 1 /\ o + n \in Seqs
    BY DEF Seqs
  <2>3. batch[n + 1] = o + n
    BY <2>2
  <2>4. f[n + 1] = Process(f[n], ev[o + n])
    BY <1>1, <2>2, <2>3 DEF OneByOne
  <2>5. f[n + 1] \in Accounts
    BY <2>1, <2>4, ProcessGrows
  <2>6. Told(f[n + 1], ev, (o + n) + 1)
    BY <2>1, <2>2, <2>4, ToldNext
  <2>7. QED
    BY <2>2, <2>5, <2>6
<1> HIDE DEF S
<1>4. k \in S
  BY <1>2, <1>3, AllNumbers
<1>5. f[k] \in Accounts /\ Told(f[k], ev, o + k)
  BY <1>4 DEF S
<1>6. QED
  BY <1>1, <1>5 DEF OneByOne

-----------------------------------------------------------------------------
\* A poll of a topic without gaps takes the numbers that come next.
NextOnes ==
  cons.at = "scanning" =>
    /\ cons.cursor = cons.base + Len(cons.batch)
    /\ \A i \in 1 .. Len(cons.batch) : cons.batch[i] = cons.base + i - 1

\* No number was read twice, and none from the offset on.
Once ==
  \A n \in Seqs : counts[n] <= 1 /\ (n >= offsets[CONSUMER_GROUP] => counts[n] = 0)

\* The strengthening of MetricsAgree and CountedOnce.  The fills without a strategy
\* are counted under "unknown", a strategy of that name would share them.
Followed ==
  /\ "unknown" \notin Strategies => Told(acc, events, offsets[CONSUMER_GROUP])
  /\ NextOnes
  /\ Once

MetricsIInv == ConsIInv /\ AccountsAddUp /\ Followed

\* Everything behind the offset is in a topic without gaps.
LEMMA BehindIsIndexed ==
  ASSUME ConsIInv, Gapless
  PROVE  /\ offsets[CONSUMER_GROUP] \in 0 .. MaxSeq
         /\ 0 .. offsets[CONSUMER_GROUP] - 1 \subseteq topics[TOPIC]
<1> USE BusAssumption, ConsumerAssumption
<1>1. PICK o \in 0 .. MaxSeq : o = offsets[CONSUMER_GROUP]
  BY DEF ConsIInv, BusIInv, TypeOK
<1>2. CASE o = 0
  BY <1>1, <1>2
<1>3. CASE o # 0
  <2>1. PICK m \in topics[TOPIC] \cap seen : o <= m + 1
    BY <1>1, <1>3 DEF ConsIInv, Within
  <2>2. 0 .. m \subseteq topics[TOPIC] /\ m \in Nat
    BY ConsFacts DEF Gapless
  <2>3. 0 .. o - 1 \subseteq 0 .. m
    BY <2>1, <2>2
  <2>4. QED
    BY <1>1, <2>2, <2>3
<1>4. QED
  BY <1>2, <1>3

\* A step of the bus keeps what the consumer has told.
LEMMA ToldUnderBus ==
  ASSUME ConsIInv, Gapless, Followed, UNCHANGED <<acc, cons, counts, offsets>>,
         \A m \in topics[TOPIC] : events'[m] = events[m]
  PROVE  Followed'
<1>1. PICK o \in 0 .. MaxSeq : o = offsets[CONSUMER_GROUP]
  BY BehindIsIndexed
<1>2. \A m \in 0 .. o - 1 : events'[m] = events[m]
  BY <1>1, BehindIsIndexed
<1>3. "unknown" \notin Strategies => Told(acc, events', o)
  BY <1>1, <1>2, ToldSame DEF Followed
<1>4. NextOnes' /\ Once'
  BY DEF Followed, NextOnes, Once
<1>5. QED
  BY <1>1, <1>3, <1>4 DEF Followed

LEMMA MetricsPublish ==
  ASSUME MetricsIInv, Gapless, NEW p \in Publishers, PublishStep(p), UNCHANGED consVars
  PROVE  Followed'
<1> USE BusAssumption, ConsumerAssumption
<1>1. /\ pub \in [Publishers -> PublishStates] /\ topics \in [Topics -> SUBSET Seqs]
      /\ events \in [Seqs -> Events \cup {NoEvent}] /\ ConsIInv
  BY DEF MetricsIInv, ConsIInv, BusIInv, TypeOK
<1>2. offsets' = offsets /\ UNCHANGED <<acc, cons, counts>>
  BY
  DEF PublishStep, AllocateId, InsertEvent, InsertTopicKey, Notify, PublishFails, trees, consVars
<1>3. CASE InsertEvent(p)
  <2>1. /\ pub[p].at = "allocated" /\ topics' = topics
        /\ events' = [events EXCEPT ![pub[p].seq] = pub[p].event]
    BY <1>3 DEF InsertEvent
  <2>2. events[pub[p].seq] = NoEvent
    BY <1>1, <2>1 DEF ConsIInv, BusIInv, InFlight
  <2>3. \A m \in topics[TOPIC] : m \in Seqs /\ events[m] # NoEvent
    BY <1>1 DEF ConsIInv, BusIInv, IndexReferencesStored, PointsAtStored
  <2>4. \A m \in topics[TOPIC] : events'[m] = events[m]
    BY <1>1, <2>1, <2>2, <2>3
  <2>5. QED
    BY <1>1, <1>2, <2>4, ToldUnderBus DEF MetricsIInv
<1>4. CASE \/ \E e \in Writes[p] : AllocateId(p, e)
           \/ InsertTopicKey(p) \/ Notify(p) \/ PublishFails(p)
  <2>1. events' = events
    BY <1>4 DEF AllocateId, InsertTopicKey, Notify, PublishFails, trees
  <2>2. QED
    BY <1>1, <1>2, <2>1, ToldUnderBus DEF MetricsIInv
<1>5. QED
  BY <1>3, <1>4 DEF PublishStep

LEMMA MetricsScan ==
  ASSUME MetricsIInv, Gapless, PollScan
  PROVE  Followed'
<1> USE BusAssumption, ConsumerAssumption
<1>1. PICK n \in Ahead :
        /\ \A m \in Ahead : n <= m
        /\ cons' = [cons EXCEPT !.cursor = n + 1, !.batch = Append(@, n)]
  BY DEF PollScan
<1>2. ConsIInv /\ Followed
  BY DEF MetricsIInv
<1>3. PICK c \in Nat, b \in Nat, q \in Seq(Seqs) :
        c = cons.cursor /\ b = cons.base /\ q = cons.batch
  BY <1>2, ConsFacts
<1>4. /\ cons.at = "scanning" /\ UNCHANGED <<busVars, acc, counts, seen>>
      /\ c = b + Len(q) /\ \A i \in 1 .. Len(q) : q[i] = b + i - 1
  BY <1>2, <1>3 DEF PollScan, Followed, NextOnes
<1>5. n = c
  <2>1. n \in topics[TOPIC] /\ n \in Nat /\ n >= c
    BY <1>2, <1>3, ConsFacts DEF Ahead, Indexed
  <2>2. c \in 0 .. n
    BY <2>1
  <2>3. c \in topics[TOPIC]
    BY <2>1, <2>2 DEF Gapless
  <2>4. c \in Ahead
    BY <1>3, <2>3 DEF Ahead, Indexed
  <2>5. QED
    BY <1>1, <2>1, <2>4
<1>6. /\ cons'.cursor = c + 1 /\ cons'.base = b /\ cons'.batch = Append(q, n)
  <2>1. cons \in [at : {"idle", "scanning"}, base : 0 .. MaxSeq,
                  cursor : 0 .. MaxSeq, batch : Seq(Seqs)]
    BY <1>2 DEF ConsIInv, PollTyped
  <2>2. QED
    BY <1>1, <1>3, <1>5, <2>1
<1>7. PICK k \in Nat : k = Len(q)
  OBVIOUS
<1>8. n \in Seqs
  BY <1>2, ConsFacts DEF Ahead, Indexed
<1>9. PICK r : r = Append(q, n)
  OBVIOUS
<1>10. Len(r) = k + 1 /\ r[k + 1] = n /\ \A i \in 1 .. k : r[i] = q[i]
  BY <1>7, <1>8, <1>9, AppendProperties
<1>11. ASSUME NEW i \in 1 .. k + 1 PROVE r[i] = b + i - 1
  <2>1. CASE i = k + 1
    BY <1>4, <1>5, <1>7, <1>10, <2>1
  <2>2. CASE i # k + 1
    <3>1. i \in 1 .. k
      BY <2>2
    <3>2. QED
      BY <1>4, <1>7, <1>10, <3>1
  <2>3. QED
    BY <2>1, <2>2
<1>12. c + 1 = b + (k + 1)
  BY <1>4, <1>7
<1>13. NextOnes'
  BY <1>6, <1>9, <1>10, <1>11, <1>12 DEF NextOnes
<1>14. /\ Once'
       /\ "unknown" \notin Strategies => Told(acc, events, offsets[CONSUMER_GROUP])'
  BY <1>2, <1>4 DEF Followed, Once, busVars
<1>15. QED
  BY <1>13, <1>14 DEF Followed

LEMMA MetricsCommit ==
  ASSUME MetricsIInv, Gapless, PollCommit
  PROVE  Followed'
<1> USE BusAssumption, ConsumerAssumption
<1>1. ConsIInv /\ Followed /\ acc \in Accounts
  BY DEF MetricsIInv, AccountsAddUp
<1>2. /\ cons.at = "scanning" /\ cons' = AtRest
      /\ acc' = Tallied(acc, events, cons.batch)
      /\ events' = events
      /\ offsets' = [offsets EXCEPT ![CONSUMER_GROUP] = NextOffset(cons)]
  BY DEF PollCommit, ProcessBatch, ScanDone, SetOffset, Tallied
<1>3. PICK o \in 0 .. MaxSeq : o = offsets[CONSUMER_GROUP]
  BY <1>1, BehindIsIndexed
<1>4. PICK q \in Seq(Seqs) : q = cons.batch
  BY <1>1, ConsFacts
<1>5. PICK k \in Nat : k = Len(q) /\ DOMAIN q = 1 .. k
  OBVIOUS
<1>6. cons.base = o /\ cons.cursor \in 0 .. MaxSeq
  BY <1>1, <1>2, <1>3, ConsFacts DEF ConsIInv, Scanned
<1>7. cons.cursor = o + k /\ \A i \in 1 .. k : q[i] = o + i - 1
  BY <1>1, <1>2, <1>4, <1>5, <1>6 DEF Followed, NextOnes
<1>8. o + k <= MaxSeq /\ o \in Nat
  BY <1>6, <1>7
<1>9. "unknown" \notin Strategies => Told(acc, events, o)
  BY <1>1, <1>3 DEF Followed
<1>10. "unknown" \notin Strategies => Told(Tallied(acc, events, q), events, o + k)
  BY <1>1, <1>5, <1>7, <1>8, <1>9, ToldBatch
<1>11. offsets'[CONSUMER_GROUP] = o + k
  <2>1. offsets \in [Groups -> 0 .. MaxSeq]
    BY <1>1 DEF ConsIInv, BusIInv, TypeOK
  <2>2. NextOffset(cons) = o + k
    BY <1>4, <1>5, <1>6 DEF NextOffset
  <2>3. QED
    BY <1>2, <2>1, <2>2
<1>12. NextOnes'
  BY <1>2 DEF NextOnes, AtRest
<1>13. Once'
  <2>1. counts \in [Seqs -> Nat]
    BY <1>1 DEF ConsIInv, PollTyped
  <2>2. /\ \A n \in Seqs : counts'[n] = IF n \in ToSet(q) /\ counts[n] < MaxReads
                                       THEN counts[n] + 1 ELSE counts[n]
        /\ \A n \in Seqs : counts[n] <= 1 /\ (n >= o => counts[n] = 0)
    BY <1>1, <1>3, <1>4 DEF PollCommit, ProcessBatch, Followed, Once
  <2>3. \A n \in ToSet(q) : o <= n /\ n < o + k
    BY <1>5, <1>7, <1>8 DEF ToSet
  <2>4. ASSUME NEW n \in Seqs
        PROVE  counts'[n] <= 1 /\ (n >= o + k => counts'[n] = 0)
    <3>1. n \in Nat /\ counts[n] \in Nat
      BY <2>1, BusAssumption DEF Seqs
    <3>2. CASE n \in ToSet(q)
      <4>1. counts[n] = 0 /\ ~(n >= o + k)
        BY <1>8, <2>2, <2>3, <3>1, <3>2
      <4>2. QED
        BY <2>2, <4>1
    <3>3. CASE n \notin ToSet(q)
      <4>1. n >= o + k => n >= o
        BY <1>8, <3>1
      <4>2. QED
        BY <2>2, <3>3, <4>1
    <3>4. QED
      BY <3>2, <3>3
  <2>5. QED
    BY <1>11, <2>4 DEF Once
<1>14. QED
  BY <1>2, <1>4, <1>10, <1>11, <1>12, <1>13 DEF Followed

LEMMA MetricsStep ==
  ASSUME MetricsIInv, Gapless, [Next]_vars, Faults \cap {"offset", "crash"} = {}
  PROVE  MetricsIInv'
<1>1. ConsIInv' /\ AccountsAddUp'
  BY ConsStep, AccountsStep DEF MetricsIInv
<1>2. SUFFICES Followed'
  BY <1>1 DEF MetricsIInv
<1>3. CASE Publishing
  BY <1>3, MetricsPublish DEF Publishing
<1>4. CASE PollScan
  BY <1>4, MetricsScan
<1>5. CASE PollCommit
  BY <1>5, MetricsCommit
<1>6. CASE PollStart \/ PollEmpty \/ PollFails
  <2>1. UNCHANGED <<busVars, acc, counts>>
    BY <1>6 DEF PollStart, PollEmpty, PollFails
  <2>3. Followed /\ ConsIInv
    BY DEF MetricsIInv
  <2>4. NextOnes'
    <3>1. CASE PollStart
      <4>1. PICK o \in Nat : o = offsets[CONSUMER_GROUP]
        BY <2>3, ConsFacts
      <4>2. cons'.base = o /\ cons'.cursor = o /\ cons'.batch = <<>>
        BY <3>1, <4>1 DEF PollStart
      <4>3. o = o + Len(<<>>) /\ 1 .. Len(<<>>) = {}
        OBVIOUS
      <4>4. QED
        BY <4>2, <4>3 DEF NextOnes
    <3>2. CASE PollEmpty \/ PollFails
      BY <3>2 DEF PollEmpty, PollFails, NextOnes, AtRest
    <3>3. QED
      BY <1>6, <3>1, <3>2
  <2>5. QED
    BY <2>1, <2>3, <2>4 DEF Followed, Once, busVars
<1>7. CASE UNCHANGED vars
  <2>1. UNCHANGED <<busVars, acc, cons, counts>>
    BY <1>7 DEF vars, consVars
  <2>2. QED
    BY <2>1 DEF MetricsIInv, Followed, NextOnes, Once, busVars
<1>8. CASE (Flush /\ UNCHANGED consVars) \/ PollCommitFails \/ Restart
  BY <1>8 DEF Flush, PollCommitFails, Restart, CrashAndReopen
<1>9. QED
  BY <1>3, <1>4, <1>5, <1>6, <1>7, <1>8 DEF Next, Poll

\* What the invariant says: the accumulators hold what a full scan would find.
LEMMA FollowedAgrees ==
  ASSUME MetricsIInv, Gapless, "unknown" \notin Strategies
  PROVE  MetricsAgree
<1> USE BusAssumption, ConsumerAssumption
<1>1. ConsIInv /\ Followed /\ acc \in Accounts
  BY DEF MetricsIInv, AccountsAddUp
<1>2. PICK o \in 0 .. MaxSeq : o = offsets[CONSUMER_GROUP]
  BY <1>1, BehindIsIndexed
<1>3. PICK behind : behind = Behind
  OBVIOUS
<1>4. behind = 0 .. o - 1
  <2>1. 0 .. o - 1 \subseteq topics[TOPIC] /\ topics[TOPIC] \subseteq Nat
    BY <1>1, <1>2, BehindIsIndexed, ConsFacts DEF Seqs
  <2>2. QED
    BY <1>2, <1>3, <2>1 DEF Behind
<1>5. ASSUME NEW st \in Strategies
      PROVE  /\ ToMetrics(acc[st]).trade_count = Aggregate(behind, st).trade_count
             /\ InStrings(st) => ToMetrics(acc[st]) = Aggregate(behind, st)
  <2>1. FillsOf(behind, st) = FillsBelow(events, o, st)
    BY <1>4 DEF FillsOf, FillsBelow
  <2>2. Matches(acc[st], FillsOf(behind, st), EarnedBelow(events, o, st))
    BY <1>1, <1>2, <2>1 DEF Followed, Told
  <2>3. ToMetrics(acc[st]).trade_count = Aggregate(behind, st).trade_count
    BY <2>2 DEF Matches, ToMetrics, Aggregate
  <2>4. ASSUME InStrings(st) PROVE ToMetrics(acc[st]) = Aggregate(behind, st)
    <3>1. \A n \in FillsOf(behind, st) : events[n] \notin Numeric
      BY <2>4 DEF InStrings, FillsOf
    <3>2. Earned(behind, st) = EarnedBelow(events, o, st)
      BY <2>1, <3>1 DEF Earned, EarnedBelow
    <3>3. behind \in SUBSET Seqs
      BY <1>4 DEF Seqs
    <3>4. EarnedBelow(events, o, st) \in [Seqs -> Int]
      BY EarnedTyped
    <3>5. acc[st] \in Accumulators
      BY <1>1 DEF Accounts, Owners
    <3>6. QED
      BY <2>2, <3>2, <3>3, <3>4, <3>5, MatchesIsAggregate
  <2>5. QED
    BY <2>3, <2>4
<1>6. QED
  BY <1>3, <1>5 DEF MetricsAgree

LEMMA InitMetrics == Init => MetricsIInv
<1>1. SUFFICES ASSUME Init PROVE MetricsIInv
  OBVIOUS
<1>2. ConsIInv /\ AccountsAddUp
  BY <1>1, InitConsIInv, NewAccounts DEF Init, ConsInit, AccountsAddUp
<1>3. /\ acc = [st \in Owners |-> NewAccumulator] /\ offsets[CONSUMER_GROUP] = 0
      /\ cons.at = "idle" /\ counts = [n \in Seqs |-> 0]
  BY <1>1, ConsumerAssumption DEF Init, ConsInit, BusInit, Empty, AtRest
<1>4. Followed
  BY <1>3, ToldFirst DEF Followed, NextOnes, Once
<1>5. QED
  BY <1>2, <1>4 DEF MetricsIInv

\* Without a restart and without a failed commit, and as long as the topic never had a
\* gap, the consumer (consumer.rs:79-143) counts the trades that a full scan finds
\* (aggregator.rs:42-131), and keeps its metrics where the PnL is written in strings.
THEOREM MetricsAgreeHolds ==
  ASSUME Faults \cap {"offset", "crash"} = {}, "unknown" \notin Strategies
  PROVE  Spec /\ []Gapless => []MetricsAgree
<1>1. MetricsIInv /\ Gapless /\ [Next]_vars => MetricsIInv'
  BY MetricsStep
<1>2. MetricsIInv /\ Gapless => MetricsAgree
  BY FollowedAgrees
<1>3. QED
  BY <1>1, <1>2, InitMetrics, PTL DEF Spec

\* A gap in the topic, a restart and a failed commit are the only ways in which poll
\* (consumer.rs:197-232) counts a fill twice.
THEOREM CountedOnceHolds ==
  ASSUME Faults \cap {"offset", "crash"} = {}
  PROVE  Spec /\ []Gapless => []CountedOnce
<1>1. MetricsIInv /\ Gapless /\ [Next]_vars => MetricsIInv'
  BY MetricsStep
<1>2. MetricsIInv => CountedOnce
  BY DEF MetricsIInv, Followed, Once, CountedOnce
<1>3. QED
  BY <1>1, <1>2, InitMetrics, PTL DEF Spec

-----------------------------------------------------------------------------
(* The consumer implements the ledger, but for the ledger's fairness. *)

\* The entries of an index without gaps, in order.
Entered(ev, idx) == [i \in 1 .. Cardinality(idx) |-> ev[i - 1]]

ledgerVars == <<Entered(events, topics[TOPIC]), offsets[CONSUMER_GROUP],
                [st \in Owners |-> acc[st].trade_count]>>

\* An index without gaps is the numbers below some c.
LEMMA GaplessIsPrefix ==
  ASSUME NEW idx \in SUBSET Seqs, \A n \in idx : 0 .. n \subseteq idx
  PROVE  \E c \in 0 .. MaxSeq : idx = 0 .. c - 1 /\ Cardinality(idx) = c
<1> USE BusAssumption
<1>1. CASE idx = {}
  <2>1. idx = 0 .. 0 - 1 /\ Cardinality(idx) = 0
    BY <1>1, FS_EmptySet
  <2>2. QED
    BY <2>1
<1>2. CASE idx # {}
  <2>1. idx \in SUBSET (0 .. MaxSeq)
    BY DEF Seqs
  <2>2. PICK n \in idx : \A i \in idx : i <= n
    BY <1>2, <2>1, LargestNumber
  <2>3. n \in Nat /\ n + 1 \in 0 .. MaxSeq
    BY DEF Seqs
  <2>4. idx = 0 .. n
    <3>1. \A i \in idx : i \in Nat /\ i <= n
      BY <2>2 DEF Seqs
    <3>2. 0 .. n \subseteq idx
      OBVIOUS
    <3>3. \A i \in idx : i \in 0 .. n
      BY <2>3, <3>1
    <3>4. QED
      BY <3>2, <3>3
  <2>5. Cardinality(0 .. n) = n + 1
    BY <2>3, FS_Interval
  <2>6. 0 .. n = 0 .. (n + 1) - 1
    BY <2>3
  <2>7. QED
    BY <2>3, <2>4, <2>5, <2>6
<1>3. QED
  BY <1>1, <1>2

\* The entries of a batch that are fills of st.
OfOwner(ev, batch, k, st) ==
  {i \in 1 .. k : ev[batch[i]] \in Fills /\ Owner(ev[batch[i]]) = st}

\* How many trades a batch adds.
LEMMA TradesOfBatch ==
  ASSUME NEW accs \in Accounts, NEW ev, NEW batch, NEW k \in Nat, DOMAIN batch = 1 .. k,
         NEW st \in Owners
  PROVE  Tallied(accs, ev, batch)[st].trade_count = accs[st].trade_count
           + Cardinality(OfOwner(ev, batch, k, st))
<1>1. PICK f : OneByOne(f, accs, ev, batch, k)
  BY TalliedOneByOne
<1> DEFINE Own(i) == ev[batch[i]] \in Fills /\ Owner(ev[batch[i]]) = st
           Owned(n) == {i \in 1 .. n : Own(i)}
           Tells(n) == f[n] \in Accounts /\ f[n][st].trade_count = accs[st].trade_count
                                                                    + Cardinality(Owned(n))
           S == {n \in Nat : n <= k => Tells(n)}
<1>2. accs[st].trade_count \in Nat
  BY DEF Accounts, Accumulators
<1>3. 0 \in S
  <2>1. Owned(0) = {} /\ Cardinality({}) = 0
    BY FS_EmptySet
  <2>2. f[0] = accs
    BY <1>1 DEF OneByOne
  <2>3. QED
    BY <1>2, <2>1, <2>2
<1>4. ASSUME NEW n \in Nat, n \in S PROVE n + 1 \in S
  <2> HIDE DEF Tells
  <2> SUFFICES ASSUME n + 1 <= k PROVE Tells(n + 1)
    OBVIOUS
  <2>0. Tells(n)
    BY <1>4
  <2> USE DEF Tells
  <2> HIDE DEF S
  <2>1. f[n] \in Accounts /\ f[n][st].trade_count = accs[st].trade_count + Cardinality(Owned(n))
    BY <2>0
  <2>2. n + 1 \in 1 .. k /\ (n + 1) - 1 = n
    OBVIOUS
  <2>3. f[n + 1] = Process(f[n], ev[batch[n + 1]])
    BY <1>1, <2>2 DEF OneByOne
  <2>4. f[n + 1] \in Accounts
    BY <2>1, <2>3, ProcessGrows
  <2>5. IsFiniteSet(Owned(n)) /\ Cardinality(Owned(n)) \in Nat /\ n + 1 \notin Owned(n)
    <3>1. IsFiniteSet(1 .. n)
      BY FS_Interval
    <3>2. QED
      BY <3>1, FS_Subset, FS_CardinalityType
  <2>6. f[n] \in [Owners -> Accumulators]
    BY <2>1 DEF Accounts
  <2>7. PICK c \in Nat : c = Cardinality(Owned(n))
    BY <2>5
  <2>8. CASE Own(n + 1)
    <3>1. Owned(n + 1) = Owned(n) \cup {n + 1}
      BY <2>8
    <3>2. Cardinality(Owned(n + 1)) = c + 1
      BY <2>5, <2>7, <3>1, FS_AddElement
    <3>3. f[n + 1][st].trade_count = f[n][st].trade_count + 1
      BY <2>3, <2>6, <2>8 DEF Process, RecordFill
    <3>4. PICK b \in Nat : b = accs[st].trade_count
      BY <1>2
    <3>5. f[n][st].trade_count = b + c
      BY <2>1, <2>7, <3>4, Zenon
    <3>6. (b + c) + 1 = b + (c + 1)
      OBVIOUS
    <3>7. f[n + 1][st].trade_count = accs[st].trade_count + Cardinality(Owned(n + 1))
      BY <3>2, <3>3, <3>4, <3>5, <3>6, Zenon
    <3>8. QED
      BY <2>4, <3>7
  <2>9. CASE ~Own(n + 1)
    <3>1. Owned(n + 1) = Owned(n)
      BY <2>9
    <3>2. f[n + 1][st] = f[n][st]
      BY <2>3, <2>6, <2>9 DEF Process
    <3>3. QED
      BY <2>1, <2>4, <3>1, <3>2
  <2>10. QED
    BY <2>8, <2>9
<1> HIDE DEF S, Tells
<1>5. k \in S
  BY <1>3, <1>4, AllNumbers
<1>6. Tells(k)
  BY <1>5 DEF S
<1>7. QED
  BY <1>1, <1>6 DEF OneByOne, Tells, OfOwner

\* Entries below some number, and those of a stretch of them.
StoredBelow(ev, c) == \A n \in 0 .. c - 1 : ev[n] \in Events

LEMMA EnteredFacts ==
  ASSUME NEW ev, NEW idx, NEW c \in Nat, Cardinality(idx) = c, StoredBelow(ev, c)
  PROVE  /\ Entered(ev, idx) \in Seq(Events)
         /\ Len(Entered(ev, idx)) = c
         /\ \A i \in 1 .. c : Entered(ev, idx)[i] = ev[i - 1]
<1>1. Entered(ev, idx) = [i \in 1 .. c |-> ev[i - 1]]
  BY DEF Entered
<1>2. \A i \in 1 .. c : ev[i - 1] \in Events
  <2>1. \A i \in 1 .. c : i - 1 \in 0 .. c - 1
    OBVIOUS
  <2>2. QED
    BY <2>1 DEF StoredBelow
<1>3. QED
  BY <1>1, <1>2

\* Sets are counted here as in the ledger.
LEMMA SameCount == \A s : Ledger!Cardinality(s) = Cardinality(s)
BY DEF Ledger!Cardinality, Cardinality

LEMMA StretchCounted ==
  ASSUME NEW ev, NEW idx, NEW c \in Nat, Cardinality(idx) = c,
         StoredBelow(ev, c),
         NEW o \in Nat, NEW k \in Nat, o + k <= c, NEW batch, NEW st \in Owners,
         \A i \in 1 .. k : batch[i] = o + i - 1
  PROVE  Ledger!Counted(SubSeq(Entered(ev, idx), o + 1, o + k), st)
           = Cardinality(OfOwner(ev, batch, k, st))
<1>1. PICK l : l = Entered(ev, idx)
  OBVIOUS
<1>2. \A i \in 1 .. c : l[i] = ev[i - 1]
  BY <1>1, EnteredFacts
<1>3. \A i \in o + 1 .. o + k : l[i] \in Events
  <2>1. \A i \in o + 1 .. o + k : i \in 1 .. c /\ i - 1 \in 0 .. c - 1
    OBVIOUS
  <2>2. QED
    BY <1>2, <2>1 DEF StoredBelow
<1>4. PICK s : s = SubSeq(l, o + 1, o + k)
  OBVIOUS
<1>5. /\ s \in Seq(Events)
      /\ Len(s) = IF o + 1 <= o + k THEN (o + k) - (o + 1) + 1 ELSE 0
      /\ \A i \in 1 .. (o + k) - (o + 1) + 1 : s[i] = l[(o + 1) + i - 1]
  <2>1. o + 1 \in Int /\ o + k \in Int
    OBVIOUS
  <2>2. QED
    BY <1>3, <1>4, <2>1, SubSeqProperties
<1>6. (o + k) - (o + 1) + 1 = k /\ (IF o + 1 <= o + k THEN k ELSE 0) = k
  OBVIOUS
<1>7. Len(s) = k /\ DOMAIN s = 1 .. k
  BY <1>5, <1>6
<1>8. ASSUME NEW i \in 1 .. k PROVE s[i] = ev[batch[i]]
  <2>1. s[i] = l[(o + 1) + i - 1]
    BY <1>5, <1>6
  <2>2. (o + 1) + i - 1 = o + i /\ o + i \in 1 .. c /\ (o + i) - 1 = o + i - 1
    OBVIOUS
  <2>3. l[o + i] = ev[o + i - 1]
    BY <1>2, <2>2
  <2>4. QED
    BY <2>1, <2>2, <2>3
<1>9. {i \in DOMAIN s : s[i] \in Fills /\ Owner(s[i]) = st}
        = OfOwner(ev, batch, k, st)
  BY <1>7, <1>8 DEF OfOwner
<1>10. Ledger!Counted(s, st) = Cardinality({i \in DOMAIN s : s[i] \in Fills /\ Owner(s[i]) = st})
  BY SameCount DEF Ledger!Counted
<1>11. QED
  BY <1>1, <1>4, <1>9, <1>10

LEMMA LedgerStep ==
  ASSUME MetricsIInv, Gapless, Gapless', ConsIInv', [Next]_vars,
         Faults \cap {"offset", "crash"} = {}
  PROVE  [Ledger!Next]_ledgerVars
<1> USE BusAssumption, ConsumerAssumption
<1>1. /\ pub \in [Publishers -> PublishStates] /\ topics \in [Topics -> SUBSET Seqs]
      /\ events \in [Seqs -> Events \cup {NoEvent}] /\ ConsIInv /\ Followed
      /\ offsets \in [Groups -> 0 .. MaxSeq]
  BY DEF MetricsIInv, ConsIInv, BusIInv, TypeOK
<1>2. PICK c \in 0 .. MaxSeq : topics[TOPIC] = 0 .. c - 1 /\ Cardinality(topics[TOPIC]) = c
  BY <1>1, GaplessIsPrefix DEF Gapless
<1>3. \A n \in 0 .. c - 1 : n \in Seqs /\ events[n] \in Events
  BY <1>1, <1>2 DEF ConsIInv, BusIInv, IndexReferencesStored, PointsAtStored
<1>4. PICK l : l = Entered(events, topics[TOPIC])
  OBVIOUS
<1>5. l \in Seq(Events) /\ Len(l) = c /\ \A i \in 1 .. c : l[i] = events[i - 1]
  <2>1. c \in Nat /\ StoredBelow(events, c)
    BY <1>3 DEF StoredBelow
  <2>2. PICK s : s = topics[TOPIC]
    OBVIOUS
  <2>3. Cardinality(s) = c /\ l = Entered(events, s)
    BY <1>2, <1>4, <2>2
  <2>4. /\ Entered(events, s) \in Seq(Events)
        /\ Len(Entered(events, s)) = c
        /\ \A i \in 1 .. c : Entered(events, s)[i] = events[i - 1]
    BY <2>1, <2>3, EnteredFacts
  <2>5. QED
    BY <2>3, <2>4, Zenon
<1>6. ASSUME UNCHANGED <<topics, offsets, acc>>, \A n \in topics[TOPIC] : events'[n] = events[n]
      PROVE  UNCHANGED ledgerVars
  <2>1. \A i \in 1 .. c : i - 1 \in topics[TOPIC]
    BY <1>2
  <2>2. Entered(events', topics[TOPIC]) = Entered(events, topics[TOPIC])
    BY <1>2, <1>6, <2>1 DEF Entered
  <2>3. QED
    BY <1>6, <2>2 DEF ledgerVars
<1>7. ASSUME NEW p \in Publishers, PublishStep(p), UNCHANGED consVars
      PROVE  [Ledger!Next]_ledgerVars
  <2>1. offsets' = offsets /\ acc' = acc
    BY <1>7
    DEF PublishStep, AllocateId, InsertEvent, InsertTopicKey, Notify, PublishFails, trees, consVars
  <2>2. CASE InsertEvent(p)
    <3>1. /\ pub[p].at = "allocated" /\ topics' = topics
          /\ events' = [events EXCEPT ![pub[p].seq] = pub[p].event]
      BY <2>2 DEF InsertEvent
    <3>2. events[pub[p].seq] = NoEvent
      BY <1>1, <3>1 DEF ConsIInv, BusIInv, InFlight
    <3>3. \A n \in topics[TOPIC] : events'[n] = events[n]
      BY <1>1, <1>2, <1>3, <3>1, <3>2
    <3>4. QED
      BY <1>6, <2>1, <3>1, <3>3
  <2>3. CASE InsertTopicKey(p)
    <3> DEFINE n == pub[p].seq
    <3>1. /\ pub[p].at = "inserted" /\ events' = events
          /\ topics' = [topics EXCEPT ![Topic[pub[p].event]] = @ \cup {n}]
      BY <2>3 DEF InsertTopicKey
    <3>2. n \in Seqs /\ n \in Nat /\ pub[p].event \in Events /\ events[n] = pub[p].event
      BY <1>1, <3>1 DEF ConsIInv, BusIInv, InFlight, Seqs
    <3>3. CASE Topic[pub[p].event] # TOPIC
      <4>1. topics'[TOPIC] = topics[TOPIC]
        BY <1>1, <3>1, <3>3
      <4>2. UNCHANGED ledgerVars
        BY <2>1, <3>1, <4>1 DEF ledgerVars
      <4>3. QED
        BY <4>2
    <3>4. CASE Topic[pub[p].event] = TOPIC
      <4>1. topics'[TOPIC] = topics[TOPIC] \cup {n}
        BY <1>1, <3>1, <3>4
      <4>2. CASE n \in topics[TOPIC]
        BY <1>6, <2>1, <3>1, <3>4, <4>2, <1>1
      <4> SUFFICES ASSUME n \notin topics[TOPIC] PROVE [Ledger!Next]_ledgerVars
        BY <4>2
      <4>3. n = c
        <5>1. ~(n < c)
          BY <1>2, <3>2
        <5>2. ~(c < n)
          <6> SUFFICES ASSUME c < n PROVE FALSE
            OBVIOUS
          <6>1. c \in 0 .. n
            BY <3>2
          <6>2. c \in topics[TOPIC] \cup {n}
            BY <4>1, <6>1 DEF Gapless
          <6>3. c \notin 0 .. c - 1 /\ c # n
            BY <3>2
          <6>4. QED
            BY <1>2, <6>2, <6>3
        <5>3. QED
          BY <3>2, <5>1, <5>2
      <4> HIDE DEF n
      <4>4. PICK l2 : l2 = Entered(events, topics'[TOPIC])
        OBVIOUS
      <4>5. Cardinality(topics'[TOPIC]) = c + 1
        <5>1. IsFiniteSet(topics[TOPIC]) /\ n \notin topics[TOPIC]
          BY <1>1, <1>2, <4>3, SomeSeqsFinite
        <5>2. Cardinality(topics[TOPIC] \cup {n}) = Cardinality(topics[TOPIC]) + 1
          BY <5>1, FS_AddElement
        <5>3. QED
          BY <1>2, <4>1, <5>2
      <4>6. \A m \in 0 .. (c + 1) - 1 : events[m] \in Events
        BY <1>3, <3>2, <4>3
      <4>7. c + 1 \in Nat
        OBVIOUS
      <4>8. l2 \in Seq(Events) /\ Len(l2) = c + 1 /\ \A i \in 1 .. c + 1 : l2[i] = events[i - 1]
        <5>1. PICK s : s = topics'[TOPIC]
          OBVIOUS
        <5>2. Cardinality(s) = c + 1 /\ l2 = Entered(events, s)
          BY <4>4, <4>5, <5>1
        <5>3. PICK d \in Nat : d = c + 1 /\ StoredBelow(events, d)
          BY <4>6, <4>7 DEF StoredBelow
        <5>4. Cardinality(s) = d
          BY <5>2, <5>3
        <5>5. /\ Entered(events, s) \in Seq(Events)
              /\ Len(Entered(events, s)) = d
              /\ \A i \in 1 .. d : Entered(events, s)[i] = events[i - 1]
          BY <5>3, <5>4, EnteredFacts
        <5>6. QED
          BY <5>2, <5>3, <5>5, Zenon
      <4>9. l2 = Append(l, events[n])
        <5>1. PICK r : r = Append(l, events[n])
          OBVIOUS
        <5>2. r \in Seq(Events) /\ Len(r) = c + 1 /\ r[c + 1] = events[n]
              /\ \A i \in 1 .. c : r[i] = l[i]
          BY <1>5, <3>2, <5>1, AppendProperties
        <5>3. ASSUME NEW i \in 1 .. c + 1 PROVE r[i] = l2[i]
          <6>1. CASE i = c + 1
            BY <4>3, <4>8, <5>2, <6>1
          <6>2. CASE i # c + 1
            <7>1. i \in 1 .. c
              BY <6>2
            <7>2. QED
              BY <1>5, <4>8, <5>2, <7>1
          <6>3. QED
            BY <6>1, <6>2
        <5>4. QED
          BY <4>8, <5>1, <5>2, <5>3
      <4>10. events[n] \in {e \in Events : Topic[e] = TOPIC}
        BY <3>2, <3>4
      <4>11. Entered(events', topics'[TOPIC]) = Append(Entered(events, topics[TOPIC]), events[n])
        BY <1>4, <3>1, <4>4, <4>9
      <4>12. Ledger!Log
        BY <2>1, <4>10, <4>11 DEF Ledger!Log, Entered
      <4>13. QED
        BY <4>12 DEF Ledger!Next
    <3>5. QED
      BY <3>3, <3>4
  <2>4. CASE (\E e \in Writes[p] : AllocateId(p, e)) \/ Notify(p) \/ PublishFails(p)
    <3>1. events' = events /\ topics' = topics
      BY <2>4 DEF AllocateId, Notify, PublishFails, trees
    <3>2. QED
      BY <1>6, <2>1, <3>1
  <2>5. QED
    BY <1>7, <2>2, <2>3, <2>4 DEF PublishStep
<1>8. CASE Publishing
  BY <1>7, <1>8 DEF Publishing
<1>9. CASE PollCommit
  <2>1. /\ cons.at = "scanning" /\ cons.batch # <<>>
        /\ acc' = Tallied(acc, events, cons.batch)
        /\ events' = events /\ topics' = topics
        /\ offsets' = [offsets EXCEPT ![CONSUMER_GROUP] = NextOffset(cons)]
    BY <1>9 DEF PollCommit, ProcessBatch, ScanDone, SetOffset, Tallied
  <2>2. PICK o \in 0 .. MaxSeq : o = offsets[CONSUMER_GROUP]
    BY <1>1
  <2>3. PICK q \in Seq(Seqs) : q = cons.batch
    BY <1>1, ConsFacts
  <2>4. PICK k \in Nat : k = Len(q) /\ DOMAIN q = 1 .. k
    OBVIOUS
  <2>5. k # 0
    BY <2>1, <2>3, <2>4
  <2>6. cons.base = o /\ ToSet(q) \subseteq topics[TOPIC]
    BY <1>1, <2>1, <2>2, <2>3 DEF ConsIInv, Scanned
  <2>7. \A i \in 1 .. k : q[i] = o + i - 1
    BY <1>1, <2>1, <2>3, <2>4, <2>6 DEF Followed, NextOnes
  <2>8. o + k <= c
    <3>1. q[k] \in ToSet(q) /\ q[k] = o + k - 1
      BY <2>4, <2>5, <2>7 DEF ToSet
    <3>2. o + k - 1 \in 0 .. c - 1
      BY <1>2, <2>6, <3>1
    <3>3. QED
      BY <3>2
  <2>9. offsets'[CONSUMER_GROUP] = o + k
    <3>1. NextOffset(cons) = o + k
      BY <2>3, <2>4, <2>6 DEF NextOffset
    <3>2. QED
      BY <1>1, <2>1, <3>1
  <2>10. ASSUME NEW st \in Owners
         PROVE  acc'[st].trade_count = acc[st].trade_count
                  + Ledger!Counted(SubSeq(Entered(events, topics[TOPIC]), o + 1, o + k), st)
    <3>1. acc \in Accounts
      BY DEF MetricsIInv, AccountsAddUp
    <3>2. acc'[st].trade_count = acc[st].trade_count
            + Cardinality(OfOwner(events, q, k, st))
      <4>1. Tallied(acc, events, q)[st].trade_count = acc[st].trade_count
              + Cardinality(OfOwner(events, q, k, st))
        BY <2>4, <3>1, TradesOfBatch
      <4>2. QED
        BY <2>1, <2>3, <4>1
    <3>3. Ledger!Counted(SubSeq(Entered(events, topics[TOPIC]), o + 1, o + k), st)
            = Cardinality(OfOwner(events, q, k, st))
      <4>1. /\ c \in Nat /\ o \in Nat /\ o + k <= c
            /\ StoredBelow(events, c)
        BY <1>3, <2>8 DEF StoredBelow
      <4>2. QED
        BY <1>2, <2>7, <4>1, StretchCounted
    <3>4. QED
      BY <3>2, <3>3
  <2>11. o < c /\ o + k \in o + 1 .. c
    BY <2>5, <2>8
  <2>12. Len(Entered(events, topics[TOPIC])) = c
    BY <1>4, <1>5
  <2>13. Entered(events', topics'[TOPIC]) = Entered(events, topics[TOPIC])
    BY <2>1
  <2>14. /\ offsets[CONSUMER_GROUP] < Len(Entered(events, topics[TOPIC]))
         /\ offsets'[CONSUMER_GROUP] \in
              offsets[CONSUMER_GROUP] + 1 .. Len(Entered(events, topics[TOPIC]))
    BY <2>2, <2>9, <2>11, <2>12
  <2>15. [st \in Owners |-> acc'[st].trade_count] =
           [st \in Owners |-> [x \in Owners |-> acc[x].trade_count][st]
              + Ledger!Counted(SubSeq(Entered(events, topics[TOPIC]),
                                      offsets[CONSUMER_GROUP] + 1, offsets'[CONSUMER_GROUP]), st)]
    <3>1. \A st \in Owners : acc'[st].trade_count = [x \in Owners |-> acc[x].trade_count][st]
              + Ledger!Counted(SubSeq(Entered(events, topics[TOPIC]),
                                      offsets[CONSUMER_GROUP] + 1, offsets'[CONSUMER_GROUP]), st)
      BY <2>2, <2>9, <2>10
    <3>2. QED
      BY <3>1, Zenon
  <2>16. Ledger!Tally
    BY <2>13, <2>14, <2>15, Zenon DEF Ledger!Tally, Entered
  <2>17. QED
    BY <2>16 DEF Ledger!Next
<1>10. CASE PollStart \/ PollScan \/ PollEmpty \/ PollFails \/ UNCHANGED vars
  <2>1. UNCHANGED <<topics, offsets, acc, events>>
    BY <1>10 DEF PollStart, PollScan, PollEmpty, PollFails, vars, busVars, consVars
  <2>2. QED
    BY <1>6, <2>1
<1>11. CASE (Flush /\ UNCHANGED consVars) \/ PollCommitFails \/ Restart
  BY <1>11 DEF Flush, PollCommitFails, Restart, CrashAndReopen
<1>12. QED
  BY <1>8, <1>9, <1>10, <1>11 DEF Next, Poll

LEMMA LedgerInit ==
  ASSUME Init
  PROVE  Ledger!Init
<1>1. topics[TOPIC] = {} /\ offsets[CONSUMER_GROUP] = 0 /\ acc = [st \in Owners |-> NewAccumulator]
  BY ConsumerAssumption DEF Init, BusInit, ConsInit, Empty
<1>2. Cardinality({}) = 0
  BY FS_EmptySet
<1>3. [i \in 1 .. Cardinality(topics[TOPIC]) |-> events[i - 1]] = <<>>
  BY <1>1, <1>2
<1>4. [st \in Owners |-> acc[st].trade_count] = [st \in Owners |-> 0]
  BY <1>1 DEF NewAccumulator
<1>5. QED
  BY <1>1, <1>3, <1>4 DEF Ledger!Init

\* The consumer implements the ledger in which every fill is tallied once (poll,
\* consumer.rs:197-232), as long as the topic has no gaps and no offset is lost: the
\* steps of LedgerSpec, whose fairness is left to the runs.
THEOREM ConsumerImplementsLedger ==
  ASSUME Faults \cap {"offset", "crash"} = {}
  PROVE  Spec /\ []Gapless => Ledger!SafeSpec
<1>1. MetricsIInv /\ Gapless /\ [Next]_vars => MetricsIInv'
  BY MetricsStep
<1>2. MetricsIInv /\ MetricsIInv' /\ Gapless /\ Gapless' /\ [Next]_vars
        => [Ledger!Next]_ledgerVars
  BY LedgerStep DEF MetricsIInv
<1>3. QED
  BY <1>1, <1>2, InitMetrics, LedgerInit, PTL DEF Spec, Ledger!SafeSpec, ledgerVars, Entered

-----------------------------------------------------------------------------
(* The loop. *)

LoopTyped ==
  /\ tick \in [at : {"waiting", "polling", "judging"}, todo : SUBSET Owners]
  /\ tick.at # "judging" => tick.todo = {}
  /\ (tick.at = "polling") <=> (cons.at = "scanning")
  /\ judged \in [Owners -> Nat]
  /\ \A st \in Owners : judged[st] <= acc[st].trade_count
  /\ born \in 0 .. nextId

\* A publish of the loop is about a strategy that it still has to judge.
OwnDecision ==
  pub[feedback_loop].at # "idle" =>
    /\ tick.at = "judging"
    /\ pub[feedback_loop].seq >= born
    /\ \E st \in tick.todo, d \in Decisions :
         /\ pub[feedback_loop].event = DecisionEvent[st, d]
         /\ NewTrades(st) >= MinNewTrades

NotYetIndexed ==
  \A p \in Publishers : pub[p].at = "inserted" =>
    \A t \in Topics : pub[p].seq \notin topics[t]

Deciding(n) == pub[feedback_loop].at # "idle" /\ n = pub[feedback_loop].seq

\* The decisions about st whose publish is over.
Taken(st) == {n \in Decided(st) : ~Deciding(n)}

Spaced == \A st \in Owners : Cardinality(Taken(st)) * MinNewTrades <= judged[st]

Reported == \A st \in Owners : judged[st] > 0 => Decided(st) # {}

LoopIInv ==
  /\ ConsIInv
  /\ AccountsAddUp
  /\ LoopTyped
  /\ OwnDecision
  /\ NotYetIndexed
  /\ Spaced
  /\ Reported

-----------------------------------------------------------------------------
\* The loop is a consumer and one of the publishers.
LEMMA DecisionsWritten ==
  ASSUME NEW st \in Owners, NEW d \in Decisions
  PROVE  /\ DecisionEvent[st, d] \in Writes[feedback_loop]
         /\ DecisionEvent[st, d] \in Events
         /\ Topic[DecisionEvent[st, d]] = "feedback"
BY LoopAssumption

\* Decisions have a topic of the bus.
LEMMA FeedbackIsTopic ==
  ASSUME NEW st \in Owners
  PROVE  "feedback" \in Topics
<1>1. PICK d : d \in Decisions
  BY DEF Decisions
<1>2. PICK e \in Events : Topic[e] = "feedback"
  BY <1>1, DecisionsWritten
<1>3. QED
  BY <1>2, BusAssumption

LEMMA LoopStepConsumes == [LoopNext]_loopVars => [Next]_vars
<1> SUFFICES ASSUME [LoopNext]_loopVars PROVE [Next]_vars
  OBVIOUS
<1> USE DEF Next, Poll
<1>1. CASE TickStart \/ TickScan \/ TickPolled \/ TickPollFails
  BY <1>1 DEF TickStart, TickScan, TickPolled, TickPollFails
<1>2. CASE \E st \in Owners : Judge(st)
  <2>1. PICK st \in Owners, d \in Decisions :
          AllocateId(feedback_loop, DecisionEvent[st, d]) /\ UNCHANGED consVars
    BY <1>2 DEF Judge
  <2>2. PublishStep(feedback_loop)
    BY <2>1, DecisionsWritten DEF PublishStep
  <2>3. QED
    BY <2>1, <2>2, LoopAssumption DEF Publishing
<1>3. CASE DecisionStored \/ DecisionFails \/ DecisionPublished
  BY <1>3, LoopAssumption
  DEF DecisionStored, DecisionFails, DecisionPublished, PublishStep, Publishing
<1>4. CASE \/ TickEnd
           \/ \E st \in Owners : SkipStrategy(st) \/ JudgeAtBound(st) \/ JudgeFails(st)
           \/ UNCHANGED loopVars
  BY <1>4 DEF TickEnd, SkipStrategy, JudgeAtBound, JudgeFails, loopVars
<1>5. CASE Others
  BY <1>5 DEF Others, Publishing
<1>6. CASE LoopRestart
  BY <1>6 DEF LoopRestart
<1>7. QED
  BY <1>1, <1>2, <1>3, <1>4, <1>5, <1>6 DEF LoopNext, Tick, TickFails

\* The loop implements the consumer: what a poll promises holds of its ticks.
THEOREM LoopConsumes == LoopSpec => Spec
<1>1. LoopInit => Init
  BY DEF LoopInit
<1>2. QED
  BY <1>1, LoopStepConsumes, PTL DEF LoopSpec, Spec

\* A trading event is lost behind the offset of the loop (feedback_loop.rs:111) only if
\* a later number of another task was read, although the decisions of the loop draw
\* from the numbers in which the offset counts.
THEOREM LoopOvertakenOnly == LoopSpec => []SkippedWereOvertaken
BY LoopConsumes, OvertakenOnly, PTL

\* A number is never given to two events, the decisions of the loop included.
THEOREM LoopNumbersUnique == LoopSpec => []SeqNamesOneEvent
<1>1. ConsIInv => SeqNamesOneEvent
  BY DEF ConsIInv, BusIInv
<1>2. QED
  BY <1>1, LoopConsumes, ConsInvariant, PTL

-----------------------------------------------------------------------------
\* What the parts of the invariant say of the bus, of the publishes in flight and
\* of the accumulators.
LEMMA LoopFacts ==
  ASSUME LoopIInv
  PROVE  /\ feedback_loop \in Publishers
         /\ pub \in [Publishers -> PublishStates]
         /\ events \in [Seqs -> Events \cup {NoEvent}]
         /\ topics \in [Topics -> SUBSET Seqs]
         /\ Seqs \subseteq Nat /\ nextId \in Nat /\ born \in Nat
         /\ \A st \in Owners : acc[st].trade_count \in Nat
         /\ MinNewTrades \in Nat \ {0}
<1>1. TypeOK
  BY DEF LoopIInv, ConsIInv, BusIInv
<1>2. \A st \in Owners : acc[st].trade_count \in Nat
  BY DEF LoopIInv, AccountsAddUp, Accounts, Accumulators
<1>3. nextId \in Nat /\ born \in Nat
  BY <1>1, BusAssumption DEF TypeOK, LoopIInv, LoopTyped
<1>4. QED
  BY <1>1, <1>2, <1>3, LoopAssumption, BusAssumption DEF TypeOK, Seqs

\* Decided, of any events, index and first number.
DecisionsAbout(ev, idx, b, st) ==
  {n \in Seqs : /\ n >= b
                /\ \E d \in Decisions : ev[n] = DecisionEvent[st, d]
                /\ \E t \in Topics : n \in idx[t]}

LEMMA DecidedIs == \A st \in Owners : Decided(st) = DecisionsAbout(events, topics, born, st)
<1> SUFFICES ASSUME NEW st \in Owners
             PROVE  Decided(st) = DecisionsAbout(events, topics, born, st)
  OBVIOUS
<1>1. ASSUME NEW n
      PROVE  n \in Decided(st) <=> \E d \in Decisions : n \in DecidedAt(st, d)
  BY Zenon DEF Decided
<1>2. ASSUME NEW n, NEW d \in Decisions
      PROVE  n \in DecidedAt(st, d) <=> /\ n \in Seqs /\ n >= born
                                       /\ events[n] = DecisionEvent[st, d]
                                       /\ \E t \in Topics : n \in topics[t]
  BY DEF DecidedAt
<1>3. QED
  BY <1>1, <1>2, Zenon DEF DecisionsAbout

LEMMA DecidedThen ==
  \A st \in Owners : Decided(st)' = DecisionsAbout(events', topics', born', st)
<1>1. (\A st \in Owners : Decided(st) = DecisionsAbout(events, topics, born, st))'
  BY DecidedIs, PTL
<1>2. QED
  BY <1>1

\* What somebody else publishes is no decision.
LEMMA OthersDecideNothing ==
  ASSUME LoopIInv, NEW p \in Publishers \ {feedback_loop}, pub[p].at # "idle",
         NEW st \in Owners, NEW d \in Decisions
  PROVE  pub[p].event # DecisionEvent[st, d]
<1>1. pub[p].event \in Writes[p]
  BY DEF LoopIInv, ConsIInv, OnlyWriter
<1>2. Writes[p] \cap Writes[feedback_loop] = {}
  BY LoopAssumption
<1>3. QED
  BY <1>1, <1>2, DecisionsWritten

\* A stored number that a publisher is about to index is no decision yet.
LEMMA UnindexedIsUndecided ==
  ASSUME LoopIInv, NEW p \in Publishers, pub[p].at \in {"allocated", "inserted"}
  PROVE  \A t \in Topics : pub[p].seq \notin topics[t]
<1>1. CASE pub[p].at = "allocated"
  <2>1. events[pub[p].seq] = NoEvent
    BY <1>1 DEF LoopIInv, ConsIInv, BusIInv, InFlight
  <2>2. QED
    BY <2>1 DEF LoopIInv, ConsIInv, BusIInv, IndexReferencesStored, PointsAtStored
<1>2. CASE pub[p].at = "inserted"
  BY <1>2 DEF LoopIInv, NotYetIndexed
<1>3. QED
  BY <1>1, <1>2

\* No step of a publish but the Notify of the loop itself changes which decisions
\* are taken, and none takes a decision out of the index.
Unmoved ==
  /\ \A st \in Owners : Decided(st) \subseteq Decided(st)'
  /\ \A st \in Owners : Taken(st)' \subseteq Taken(st)

LEMMA AllocateUnmoved ==
  ASSUME LoopIInv, NEW p \in Publishers, NEW e, AllocateId(p, e), born' = born
  PROVE  Unmoved
<1>1. UNCHANGED <<events, topics>> /\ pub[p].at = "idle"
      /\ pub' = [pub EXCEPT ![p] = [at |-> "allocated", event |-> e, seq |-> nextId]]
  BY DEF AllocateId, trees
<1>2. \A st \in Owners : Decided(st)' = Decided(st)
  BY <1>1, DecidedIs, DecidedThen
<1>3. \A n : Deciding(n) => Deciding(n)'
  BY <1>1, LoopFacts DEF Deciding
<1>4. QED
  BY <1>2, <1>3 DEF Unmoved, Taken

LEMMA InsertUnmoved ==
  ASSUME LoopIInv, NEW p \in Publishers, InsertEvent(p), born' = born
  PROVE  Unmoved
<1>1. /\ pub[p].at = "allocated" /\ topics' = topics
      /\ events' = [events EXCEPT ![pub[p].seq] = pub[p].event]
      /\ pub' = [pub EXCEPT ![p].at = "inserted"]
  BY DEF InsertEvent
<1>2. \A t \in Topics : pub[p].seq \notin topics[t]
  BY <1>1, UnindexedIsUndecided
<1>3. \A n \in Seqs : n # pub[p].seq => events'[n] = events[n]
  BY <1>1, LoopFacts
<1>4. \A st \in Owners : Decided(st)' = Decided(st)
  <2>1. \A st \in Owners : DecisionsAbout(events', topics', born', st)
                              = DecisionsAbout(events, topics, born, st)
    BY <1>1, <1>2, <1>3 DEF DecisionsAbout
  <2>2. QED
    BY <2>1, DecidedIs, DecidedThen
<1>5. \A n : Deciding(n) => Deciding(n)'
  BY <1>1, LoopFacts DEF Deciding, PublishStates
<1>6. QED
  BY <1>4, <1>5 DEF Unmoved, Taken

LEMMA IndexUnmoved ==
  ASSUME LoopIInv, NEW p \in Publishers, InsertTopicKey(p), born' = born
  PROVE  Unmoved
<1>1. /\ pub[p].at = "inserted" /\ events' = events
      /\ topics' = [topics EXCEPT ![Topic[pub[p].event]] = @ \cup {pub[p].seq}]
      /\ pub' = [pub EXCEPT ![p].at = "indexed"]
  BY DEF InsertTopicKey
<1>2. events[pub[p].seq] = pub[p].event
  BY <1>1 DEF LoopIInv, ConsIInv, BusIInv, InFlight
<1>3. \A t \in Topics : /\ topics[t] \subseteq topics'[t]
                        /\ topics'[t] \subseteq topics[t] \cup {pub[p].seq}
  BY <1>1, LoopFacts
<1>4. \A st \in Owners : /\ Decided(st) \subseteq Decided(st)'
                         /\ Decided(st)' \subseteq Decided(st) \cup {pub[p].seq}
  <2> SUFFICES ASSUME NEW st \in Owners
               PROVE  /\ Decided(st) \subseteq Decided(st)'
                      /\ Decided(st)' \subseteq Decided(st) \cup {pub[p].seq}
    OBVIOUS
  <2> DEFINE before == DecisionsAbout(events, topics, born, st)
             after  == DecisionsAbout(events', topics', born', st)
  <2>1. before \subseteq after
    BY <1>1, <1>3 DEF DecisionsAbout
  <2>2. after \subseteq before \cup {pub[p].seq}
    BY <1>1, <1>3 DEF DecisionsAbout
  <2>3. QED
    BY <2>1, <2>2, DecidedIs, DecidedThen
<1>5. \A n : Deciding(n) => Deciding(n)'
  BY <1>1, LoopFacts DEF Deciding, PublishStates
<1>6. PICK n : n = pub[p].seq
  OBVIOUS
<1>7. \A st \in Owners : n \notin Taken(st)'
  <2>1. CASE p = feedback_loop
    <3>1. pub'[p] = [pub[p] EXCEPT !.at = "indexed"]
      BY <1>1, LoopFacts
    <3>2. Deciding(n)'
      BY <1>6, <2>1, <3>1, LoopFacts DEF Deciding, PublishStates
    <3>3. QED
      BY <3>2, Zenon DEF Taken
  <2>2. CASE p # feedback_loop
    <3>1. \A st \in Owners, d \in Decisions : pub[p].event # DecisionEvent[st, d]
      BY <1>1, <2>2, OthersDecideNothing
    <3>2. \A st \in Owners : n \notin DecisionsAbout(events', topics', born', st)
      BY <1>1, <1>2, <1>6, <3>1 DEF DecisionsAbout
    <3>3. QED
      BY <3>2, DecidedThen DEF Taken
  <2>3. QED
    BY <2>1, <2>2
<1>8. QED
  BY <1>4, <1>5, <1>6, <1>7 DEF Unmoved, Taken

LEMMA EndUnmoved ==
  ASSUME LoopIInv, NEW p \in Publishers, born' = born,
         PublishFails(p) \/ (Notify(p) /\ p # feedback_loop)
  PROVE  Unmoved
<1>1. /\ UNCHANGED <<events, topics>> /\ pub' = [pub EXCEPT ![p] = Idle]
      /\ p = feedback_loop => pub[p].at \in {"allocated", "inserted"}
  BY DEF PublishFails, Notify, trees
<1>2. \A st \in Owners : Decided(st)' = Decided(st)
  BY <1>1, DecidedIs, DecidedThen
<1>3. CASE p = feedback_loop
  <2>1. \A t \in Topics : pub[p].seq \notin topics[t]
    BY <1>1, <1>3, UnindexedIsUndecided
  <2>2. \A st \in Owners : \A n \in Decided(st) : ~Deciding(n)
    <3>1. \A st \in Owners : pub[p].seq \notin DecisionsAbout(events, topics, born, st)
      BY <2>1 DEF DecisionsAbout
    <3>2. QED
      BY <1>3, <3>1, DecidedIs DEF Deciding
  <2>3. QED
    BY <1>2, <2>2 DEF Unmoved, Taken
<1>4. CASE p # feedback_loop
  <2>1. pub'[feedback_loop] = pub[feedback_loop]
    BY <1>1, <1>4, LoopFacts
  <2>2. QED
    BY <1>2, <2>1 DEF Unmoved, Taken, Deciding
<1>5. QED
  BY <1>3, <1>4

\* The publishers in flight have not indexed what they hold.
LEMMA NotYetIndexedStep ==
  ASSUME LoopIInv, NEW p \in Publishers, PublishStep(p)
  PROVE  NotYetIndexed'
<1>1. \A q \in Publishers \ {p} : pub'[q] = pub[q]
  BY LoopFacts
  DEF PublishStep, AllocateId, InsertEvent, InsertTopicKey, Notify, PublishFails
<1>2. CASE InsertEvent(p)
  <2>1. /\ pub[p].at = "allocated" /\ topics' = topics
        /\ pub'[p].seq = pub[p].seq
    BY <1>2, LoopFacts DEF InsertEvent
  <2>2. QED
    BY <1>1, <2>1, UnindexedIsUndecided DEF NotYetIndexed, LoopIInv
<1>3. CASE InsertTopicKey(p)
  <2>1. /\ pub[p].at = "inserted" /\ pub'[p].at = "indexed"
        /\ topics' = [topics EXCEPT ![Topic[pub[p].event]] = @ \cup {pub[p].seq}]
    BY <1>3, LoopFacts DEF InsertTopicKey, PublishStates
  <2>2. \A q \in Publishers \ {p} : pub[q].at = "inserted" => pub[q].seq # pub[p].seq
    BY <2>1 DEF LoopIInv, ConsIInv, BusIInv, InFlight
  <2>3. \A t \in Topics : topics'[t] \subseteq topics[t] \cup {pub[p].seq}
    BY <2>1, LoopFacts
  <2>4. QED
    BY <1>1, <2>1, <2>2, <2>3 DEF NotYetIndexed, LoopIInv
<1>4. CASE (\E e \in Writes[p] : AllocateId(p, e)) \/ Notify(p) \/ PublishFails(p)
  <2>1. topics' = topics /\ pub'[p].at # "inserted"
    BY <1>4, LoopFacts DEF AllocateId, Notify, PublishFails, trees, Idle
  <2>2. QED
    BY <1>1, <2>1 DEF NotYetIndexed, LoopIInv
<1>5. QED
  BY <1>2, <1>3, <1>4 DEF PublishStep

LEMMA DecidedFinite == \A st \in Owners : IsFiniteSet(Decided(st))
<1>1. IsFiniteSet(Seqs)
  BY FS_Interval, BusAssumption DEF Seqs
<1>2. \A st \in Owners : Decided(st) \subseteq Seqs
  BY DecidedIs DEF DecisionsAbout
<1>3. QED
  BY <1>1, <1>2, FS_Subset

\* While no decision moves, what was remembered stays spaced and reported.
LEMMA UnmovedSpaced ==
  ASSUME LoopIInv, Unmoved, judged' = judged
  PROVE  Spaced' /\ Reported'
<1>2. Spaced'
  <2> SUFFICES ASSUME NEW st \in Owners
               PROVE  Cardinality(Taken(st)') * MinNewTrades <= judged[st]
    BY DEF Spaced
  <2>1. Taken(st)' \subseteq Taken(st) /\ Taken(st) \subseteq Decided(st)
    BY DEF Unmoved, Taken
  <2>2. IsFiniteSet(Taken(st))
    BY <2>1, DecidedFinite, FS_Subset
  <2>3. PICK c : c = Cardinality(Taken(st))
    OBVIOUS
  <2>4. PICK d : d = Cardinality(Taken(st)')
    OBVIOUS
  <2>5. c \in Nat /\ d \in Nat /\ d <= c
    BY <2>1, <2>2, <2>3, <2>4, FS_Subset, FS_CardinalityType
  <2>6. c * MinNewTrades <= judged[st] /\ judged[st] \in Nat
    BY <2>3 DEF LoopIInv, Spaced, LoopTyped
  <2>7. d * MinNewTrades <= c * MinNewTrades
    BY <2>5, LoopFacts
  <2>8. d * MinNewTrades <= judged[st]
    BY <2>5, <2>6, <2>7, LoopFacts
  <2>9. QED
    BY <2>4, <2>8
<1>3. Reported'
  BY DEF LoopIInv, Reported, Unmoved
<1>4. QED
  BY <1>2, <1>3

\* Steps that leave the publishes and the trees alone.
Calm == UNCHANGED <<events, topics, pub, nextId, judged, born>>

LEMMA CalmUnmoved ==
  ASSUME LoopIInv, Calm
  PROVE  Unmoved /\ NotYetIndexed'
<1>1. \A st \in Owners : Decided(st)' = Decided(st)
  BY DecidedIs, DecidedThen DEF Calm
<1>2. QED
  BY <1>1 DEF Calm, Unmoved, Taken, Deciding, LoopIInv, NotYetIndexed

\* A loop that polls has no publish in flight.
LEMMA PollingIsIdle ==
  ASSUME LoopIInv, tick.at # "judging" \/ tick.todo = {}
  PROVE  pub[feedback_loop].at = "idle"
BY DEF LoopIInv, OwnDecision

LEMMA JudgedWithin ==
  ASSUME LoopIInv, Grown(acc, acc'), AccountsAddUp', judged' = judged
  PROVE  \A st \in Owners : judged'[st] <= acc'[st].trade_count
<1>1. \A st \in Owners : acc'[st].trade_count \in Nat
  BY DEF AccountsAddUp, Accounts, Accumulators
<1>2. QED
  BY <1>1, LoopFacts DEF Grown, LoopIInv, LoopTyped

LEMMA NothingGrown ==
  ASSUME LoopIInv, acc' = acc
  PROVE  Grown(acc, acc') /\ AccountsAddUp'
BY LoopFacts DEF LoopIInv, Grown, AccountsAddUp

LEMMA PollCalm ==
  ASSUME LoopIInv, TickStart \/ TickScan \/ TickPolled \/ TickPollFails
  PROVE  Calm /\ LoopTyped' /\ OwnDecision'
<1>1. /\ UNCHANGED <<events, topics, pub, nextId, judged, born>>
      /\ Grown(acc, acc') /\ AccountsAddUp'
  <2>1. CASE PollStart \/ PollScan \/ PollEmpty \/ PollFails
    BY <2>1, NothingGrown
    DEF TickStart, TickScan, TickPolled, TickPollFails, PollStart, PollScan, PollEmpty,
        PollFails, busVars
  <2>2. CASE PollCommit \/ PollCommitFails
    <3>1. Grown(acc, acc') /\ AccountsAddUp'
      BY <2>2, BatchTallied DEF LoopIInv, PollCommit, PollCommitFails
    <3>2. UNCHANGED <<events, topics, pub, nextId>>
      BY <2>2 DEF PollCommit, PollCommitFails, SetOffset, memory, busVars
    <3>3. UNCHANGED <<judged, born>>
      BY DEF TickStart, TickScan, TickPolled, TickPollFails
    <3>4. QED
      BY <3>1, <3>2, <3>3
  <2>3. QED
    BY <2>1, <2>2 DEF TickStart, TickScan, TickPolled, TickPollFails
<1>2. tick.at # "judging" /\ tick.todo = {} /\ pub[feedback_loop].at = "idle"
  <2>1. CASE TickStart
    BY <2>1, PollingIsIdle DEF TickStart, LoopIInv, LoopTyped
  <2>2. CASE TickScan \/ TickPolled \/ TickPollFails
    <3>1. cons.at = "scanning"
      BY <2>2 DEF TickScan, TickPolled, TickPollFails, PollScan, PollEmpty, PollFails,
                  PollCommit, PollCommitFails, ProcessBatch, ScanDone
    <3>2. QED
      BY <3>1, PollingIsIdle DEF LoopIInv, LoopTyped
  <2>3. QED
    BY <2>1, <2>2
<1>3. OwnDecision'
  BY <1>1, <1>2 DEF OwnDecision
<1>4. /\ tick' \in [at : {"waiting", "polling", "judging"}, todo : SUBSET Owners]
      /\ tick'.at # "judging" => tick'.todo = {}
      /\ (tick'.at = "polling") <=> (cons'.at = "scanning")
  <2>1. CASE TickStart
    <3>1. tick' = [tick EXCEPT !.at = "polling"] /\ cons'.at = "scanning"
      BY <2>1 DEF TickStart, PollStart
    <3>2. tick'.at = "polling" /\ tick'.todo = tick.todo
      BY <3>1 DEF LoopIInv, LoopTyped
    <3>3. tick' \in [at : {"waiting", "polling", "judging"}, todo : SUBSET Owners]
      BY <3>1 DEF LoopIInv, LoopTyped
    <3>4. QED
      BY <1>2, <3>1, <3>2, <3>3
  <2>2. CASE TickScan
    <3>1. tick' = tick /\ cons.at = "scanning"
          /\ \E n \in Ahead : cons' = [cons EXCEPT !.cursor = n + 1, !.batch = Append(@, n)]
      BY <2>2 DEF TickScan, PollScan
    <3>2. cons \in [at : {"idle", "scanning"}, base : 0 .. MaxSeq,
                    cursor : 0 .. MaxSeq, batch : Seq(Seqs)]
      BY DEF LoopIInv, ConsIInv, PollTyped
    <3>3. cons'.at = "scanning"
      BY <3>1, <3>2
    <3>4. QED
      BY <3>1, <3>3 DEF LoopIInv, LoopTyped
  <2>3. CASE TickPolled
    <3>1. tick'.at = "judging" /\ tick'.todo \subseteq Owners
      BY <2>3 DEF TickPolled
    <3>2. cons' = AtRest
      BY <2>3 DEF TickPolled, PollEmpty, PollCommit, ProcessBatch
    <3>3. QED
      BY <2>3, <3>1, <3>2 DEF AtRest, TickPolled
  <2>4. CASE TickPollFails
    <3>1. tick' = Waiting /\ cons' = AtRest
      BY <2>4 DEF TickPollFails, PollFails, PollCommitFails, ProcessBatch
    <3>2. QED
      BY <3>1 DEF AtRest, Waiting
  <2>5. QED
    BY <2>1, <2>2, <2>3, <2>4
<1>5. LoopTyped'
  BY <1>1, <1>4, JudgedWithin DEF LoopIInv, LoopTyped
<1>6. QED
  BY <1>1, <1>3, <1>5 DEF Calm

\* Judging that ends without a decision.
LEMMA JudgeCalm ==
  ASSUME LoopIInv,
         \/ TickEnd
         \/ \E st \in Owners : SkipStrategy(st) \/ JudgeAtBound(st) \/ JudgeFails(st)
  PROVE  Calm /\ LoopTyped' /\ OwnDecision'
<1>1. /\ UNCHANGED <<vars, judged, born>> /\ tick.at = "judging"
      /\ pub[feedback_loop].at = "idle"
      /\ \/ tick' = Waiting
         \/ \E st \in Owners : tick' = [tick EXCEPT !.todo = @ \ {st}]
  BY PollingIsIdle DEF TickEnd, SkipStrategy, JudgeAtBound, JudgeFails, Judging, Idle
<1>2. /\ tick' \in [at : {"waiting", "polling", "judging"}, todo : SUBSET Owners]
      /\ tick'.at # "judging" => tick'.todo = {}
      /\ tick'.at # "polling"
  <2>1. CASE tick' = Waiting
    BY <2>1 DEF Waiting
  <2>2. ASSUME NEW st \in Owners, tick' = [tick EXCEPT !.todo = @ \ {st}]
        PROVE  /\ tick' \in [at : {"waiting", "polling", "judging"}, todo : SUBSET Owners]
               /\ tick'.at = "judging"
    BY <1>1, <2>2 DEF LoopIInv, LoopTyped
  <2>3. QED
    BY <1>1, <2>1, <2>2
<1>3. LoopTyped'
  BY <1>1, <1>2 DEF vars, busVars, consVars, LoopIInv, LoopTyped
<1>4. QED
  BY <1>1, <1>3 DEF vars, busVars, Calm, OwnDecision

\* A decision begins with a publish.
LEMMA JudgeKeeps ==
  ASSUME LoopIInv, NEW st \in Owners, Judge(st)
  PROVE  LoopTyped' /\ OwnDecision' /\ NotYetIndexed' /\ Unmoved /\ judged' = judged
<1>1. PICK d \in Decisions : AllocateId(feedback_loop, DecisionEvent[st, d])
  BY DEF Judge
<1>2. /\ UNCHANGED <<consVars, tick, judged, born>> /\ tick.at = "judging" /\ st \in tick.todo
      /\ NewTrades(st) >= MinNewTrades
  BY DEF Judge, Judging
<1>3. Unmoved
  BY <1>1, <1>2, LoopFacts, AllocateUnmoved
<1>4. NotYetIndexed'
  <2>1. PublishStep(feedback_loop)
    BY <1>1, DecisionsWritten DEF PublishStep
  <2>2. QED
    BY <2>1, LoopFacts, NotYetIndexedStep
<1>5. /\ nextId' = nextId + 1
      /\ pub'[feedback_loop].seq = nextId
      /\ pub'[feedback_loop].event = DecisionEvent[st, d]
  <2>1. PICK e : e = DecisionEvent[st, d]
    OBVIOUS
  <2>2. /\ nextId' = nextId + 1
        /\ pub' = [pub EXCEPT ![feedback_loop] =
                     [at |-> "allocated", event |-> e, seq |-> nextId]]
    BY <1>1, <2>1 DEF AllocateId
  <2>3. pub'[feedback_loop].seq = nextId /\ pub'[feedback_loop].event = e
    BY <2>2, LoopFacts
  <2>4. QED
    BY <2>1, <2>2, <2>3
<1>6. OwnDecision'
  <2>1. nextId >= born
    BY LoopFacts DEF LoopIInv, LoopTyped
  <2>2. UNCHANGED <<acc, tick, judged, born>>
    BY <1>2 DEF consVars
  <2>3. NewTrades(st)' >= MinNewTrades
    BY <1>2, <2>2 DEF NewTrades
  <2>4. tick'.at = "judging" /\ st \in tick'.todo /\ pub'[feedback_loop].seq >= born'
    BY <1>2, <1>5, <2>1, <2>2
  <2>5. QED
    BY <1>5, <2>3, <2>4 DEF OwnDecision
<1>7. LoopTyped'
  <2>1. UNCHANGED <<cons, acc, tick, judged, born>>
    BY <1>2 DEF consVars
  <2>2. nextId' = nextId + 1 /\ born' = born /\ born \in 0 .. nextId /\ nextId \in Nat
    BY <1>5, <2>1, LoopFacts DEF LoopIInv, LoopTyped
  <2>3. QED
    BY <2>1, <2>2 DEF LoopIInv, LoopTyped
<1>8. QED
  BY <1>2, <1>3, <1>4, <1>6, <1>7

\* The steps of a publish of the loop but the last.
LEMMA DecisionKeeps ==
  ASSUME LoopIInv, DecisionStored \/ DecisionFails
  PROVE  LoopTyped' /\ OwnDecision' /\ NotYetIndexed' /\ Unmoved /\ judged' = judged
<1>1. UNCHANGED <<consVars, judged, born>>
  BY DEF DecisionStored, DecisionFails
<1>2. PublishStep(feedback_loop) /\ nextId' = nextId
  BY DEF DecisionStored, DecisionFails, PublishStep, InsertEvent, InsertTopicKey, PublishFails
<1>3. Unmoved
  BY <1>1, LoopFacts, InsertUnmoved, IndexUnmoved, EndUnmoved DEF DecisionStored, DecisionFails
<1>4. NotYetIndexed'
  BY <1>2, LoopFacts, NotYetIndexedStep
<1>5. CASE DecisionStored
  <2>1. tick' = tick
    BY <1>5 DEF DecisionStored
  <2>2. /\ pub[feedback_loop].at # "idle"
        /\ pub'[feedback_loop].seq = pub[feedback_loop].seq
        /\ pub'[feedback_loop].event = pub[feedback_loop].event
    BY <1>5, LoopFacts DEF DecisionStored, InsertEvent, InsertTopicKey, PublishStates
  <2>3. OwnDecision'
    BY <1>1, <2>1, <2>2 DEF consVars, LoopIInv, OwnDecision, NewTrades
  <2>4. LoopTyped'
    BY <1>1, <1>2, <2>1 DEF consVars, LoopIInv, LoopTyped
  <2>5. QED
    BY <1>1, <1>3, <1>4, <2>3, <2>4
<1>6. CASE DecisionFails
  <2>1. tick' = Waiting /\ pub'[feedback_loop] = Idle /\ tick.at = "judging"
    BY <1>6, LoopFacts DEF DecisionFails, PublishFails, LoopIInv, OwnDecision
  <2>2. pub'[feedback_loop].at = "idle"
    BY <2>1 DEF Idle
  <2>3. OwnDecision'
    BY <2>2 DEF OwnDecision
  <2>4. LoopTyped'
    BY <1>1, <1>2, <2>1 DEF consVars, LoopIInv, LoopTyped, Waiting
  <2>5. QED
    BY <1>1, <1>3, <1>4, <2>3, <2>4
<1>7. QED
  BY <1>5, <1>6

\* What the other tasks do, and the flush.
LEMMA OthersKeep ==
  ASSUME LoopIInv, Others
  PROVE  LoopTyped' /\ OwnDecision' /\ NotYetIndexed' /\ Unmoved /\ judged' = judged
<1>1. UNCHANGED <<consVars, tick, judged, born>>
  BY DEF Others
<1>2. CASE Flush
  <2>1. Calm
    BY <1>1, <1>2 DEF Flush, Calm, trees, memory
  <2>2. LoopTyped' /\ OwnDecision'
    BY <1>1, <2>1 DEF Calm, consVars, LoopIInv, LoopTyped, OwnDecision, NewTrades
  <2>3. QED
    BY <1>1, <2>1, <2>2, CalmUnmoved
<1>3. ASSUME NEW p \in Publishers \ {feedback_loop}, PublishStep(p)
      PROVE  LoopTyped' /\ OwnDecision' /\ NotYetIndexed' /\ Unmoved
  <2>1. NotYetIndexed'
    BY <1>3, NotYetIndexedStep
  <2>2. Unmoved
    BY <1>1, <1>3, AllocateUnmoved, InsertUnmoved, IndexUnmoved, EndUnmoved DEF PublishStep
  <2>3. pub'[feedback_loop] = pub[feedback_loop] /\ nextId' \in {nextId, nextId + 1}
    BY <1>3, LoopFacts
    DEF PublishStep, AllocateId, InsertEvent, InsertTopicKey, Notify, PublishFails
  <2>4. OwnDecision'
    BY <1>1, <2>3 DEF consVars, LoopIInv, OwnDecision, NewTrades
  <2>5. LoopTyped'
    BY <1>1, <2>3, LoopFacts DEF consVars, LoopIInv, LoopTyped
  <2>6. QED
    BY <2>1, <2>2, <2>4, <2>5
<1>4. QED
  BY <1>1, <1>2, <1>3 DEF Others

LEMMA LoopRestartKeeps ==
  ASSUME LoopIInv, LoopRestart, ConsIInv', AccountsAddUp'
  PROVE  LoopIInv'
<1>1. /\ events' = disk.events /\ nextId' >= nextId /\ nextId' \in Nat
      /\ pub' = [p \in Publishers |-> Idle]
      /\ cons' = AtRest /\ tick' = Waiting
      /\ judged' = [st \in Owners |-> 0] /\ born' = nextId'
  BY LoopFacts, BusAssumption DEF LoopRestart, Restart, CrashAndReopen
<1>2. \A n \in Seqs : events'[n] # NoEvent => n < born'
  <2>1. \A n \in Seqs : disk.events[n] # NoEvent => n < nextId
    <3>1. \A n \in Seqs : disk.events[n] # NoEvent => <<n, disk.events[n]>> \in named
      BY DEF LoopIInv, ConsIInv, BusIInv, Drawn
    <3>2. \A x \in named : x[1] < nextId
      BY DEF LoopIInv, ConsIInv, BusIInv, Drawn
    <3>3. ASSUME NEW n \in Seqs, disk.events[n] # NoEvent
          PROVE  <<n, disk.events[n]>>[1] < nextId
      BY <3>1, <3>2, <3>3
    <3>4. QED
      BY <3>3
  <2>2. QED
    BY <1>1, <2>1, LoopFacts
<1>3. \A st \in Owners : Decided(st)' = {}
  <2>1. \A st \in Owners, d \in Decisions : DecisionEvent[st, d] # NoEvent
    BY DecisionsWritten, BusAssumption
  <2>2. \A n \in Seqs : n >= born' => events'[n] = NoEvent
    BY <1>1, <1>2, LoopFacts
  <2>3. \A st \in Owners : DecisionsAbout(events', topics', born', st) = {}
    BY <2>1, <2>2 DEF DecisionsAbout
  <2>4. QED
    BY <2>3, DecidedThen
<1>4. Spaced' /\ Reported'
  <2>1. \A st \in Owners : Taken(st)' = {}
    BY <1>3 DEF Taken
  <2>2. \A st \in Owners : Cardinality(Taken(st)') = 0
    BY <2>1, FS_EmptySet
  <2>3. QED
    BY <1>1, <2>2, LoopFacts DEF Spaced, Reported
<1>5. LoopTyped'
  <2>1. \A st \in Owners : acc'[st].trade_count \in Nat
    BY DEF AccountsAddUp, Accounts, Accumulators
  <2>2. QED
    BY <1>1, <2>1 DEF LoopTyped, Waiting, AtRest
<1>6. OwnDecision' /\ NotYetIndexed'
  BY <1>1, LoopFacts DEF OwnDecision, NotYetIndexed, Idle
<1>7. QED
  BY <1>4, <1>5, <1>6 DEF LoopIInv

\* The publish of a decision returns: it is remembered, on top of enough new trades.
LEMMA PublishedKeeps ==
  ASSUME LoopIInv, DecisionPublished
  PROVE  LoopTyped' /\ OwnDecision' /\ NotYetIndexed' /\ Spaced' /\ Reported'
<1>1. PICK st \in Owners, d \in Decisions :
        /\ pub[feedback_loop].event = DecisionEvent[st, d] /\ st \in tick.todo
        /\ judged' = [judged EXCEPT ![st] = acc[st].trade_count]
        /\ tick' = [tick EXCEPT !.todo = @ \ {st}]
  BY DEF DecisionPublished, LoopIInv, LoopTyped
<1>2. /\ UNCHANGED <<events, topics, nextId, cons, acc, born>>
      /\ pub' = [pub EXCEPT ![feedback_loop] = Idle]
      /\ pub[feedback_loop].at = "indexed"
  BY DEF DecisionPublished, Notify, consVars, trees
<1>3. pub'[feedback_loop].at = "idle"
  BY <1>2, LoopFacts DEF Idle
<1>4. PICK n : n = pub[feedback_loop].seq
  OBVIOUS
<1>5. /\ n \in Seqs /\ events[n] = DecisionEvent[st, d]
      /\ n \in topics["feedback"] /\ "feedback" \in Topics
  <2>1. /\ n \in Seqs /\ events[n] = pub[feedback_loop].event
        /\ n \in topics[Topic[pub[feedback_loop].event]]
    BY <1>2, <1>4, LoopFacts DEF LoopIInv, ConsIInv, BusIInv, InFlight
  <2>2. Topic[DecisionEvent[st, d]] = "feedback" /\ "feedback" \in Topics
    BY DecisionsWritten, FeedbackIsTopic
  <2>3. QED
    BY <1>1, <2>1, <2>2
<1>6. n >= born /\ NewTrades(st) >= MinNewTrades /\ tick.at = "judging"
  <2>1. PICK x \in Owners, y \in Decisions :
          /\ pub[feedback_loop].event = DecisionEvent[x, y]
          /\ NewTrades(x) >= MinNewTrades
    BY <1>2 DEF LoopIInv, OwnDecision, LoopTyped
  <2>2. x = st
    <3>1. DecisionEvent[<<x, y>>] = DecisionEvent[<<st, d>>]
      BY <1>1, <2>1
    <3>2. <<x, y>> = <<st, d>>
      BY <3>1, LoopAssumption
    <3>3. QED
      BY <3>2
  <2>3. n >= born /\ tick.at = "judging"
    BY <1>2, <1>4 DEF LoopIInv, OwnDecision
  <2>4. QED
    BY <2>1, <2>2, <2>3
<1>7. n \in Decided(st)
  BY <1>5, <1>6, DecidedIs DEF DecisionsAbout
<1>8. \A x \in Owners : Decided(x)' = Decided(x)
  BY <1>2, DecidedIs, DecidedThen
<1>9. \A x \in Owners : Taken(x)' = Decided(x)
  BY <1>3, <1>8 DEF Taken, Deciding
<1>10. \A x \in Owners : Taken(x) = Decided(x) \ {n}
  BY <1>2, <1>4 DEF Taken, Deciding
<1>11. \A x \in Owners \ {st} : n \notin Decided(x)
  <2>1. ASSUME NEW x \in Owners \ {st}, NEW y \in Decisions
        PROVE  DecisionEvent[x, y] # DecisionEvent[st, d]
    BY LoopAssumption
  <2>2. \A x \in Owners \ {st} : n \notin DecisionsAbout(events, topics, born, x)
    BY <1>5, <2>1 DEF DecisionsAbout
  <2>3. QED
    BY <2>2, DecidedIs
<1>12. /\ judged[st] \in Nat /\ acc[st].trade_count \in Nat
       /\ judged'[st] = acc[st].trade_count
       /\ judged'[st] >= judged[st] + MinNewTrades
       /\ \A x \in Owners \ {st} : judged'[x] = judged[x]
  <2>1. judged \in [Owners -> Nat]
    BY DEF LoopIInv, LoopTyped
  <2>2. acc[st].trade_count - judged[st] >= MinNewTrades /\ acc[st].trade_count \in Nat
    BY <1>6, LoopFacts DEF NewTrades
  <2>3. PICK a : a = acc[st].trade_count
    OBVIOUS
  <2>4. judged' = [judged EXCEPT ![st] = a]
    BY <1>1, <2>3
  <2>5. judged'[st] = a /\ \A x \in Owners \ {st} : judged'[x] = judged[x]
    BY <2>1, <2>4
  <2>6. QED
    BY <2>1, <2>2, <2>3, <2>5, LoopFacts
<1>13. Spaced'
  <2>1. \A x \in Owners : IsFiniteSet(Decided(x))
    BY DecidedFinite
  <2> SUFFICES ASSUME NEW x \in Owners
               PROVE  Cardinality(Taken(x)') * MinNewTrades <= judged'[x]
    BY DEF Spaced
  <2>2. CASE x = st
    <3>1. PICK c : c = Cardinality(Decided(st))
      OBVIOUS
    <3>2. c \in Nat /\ Cardinality(Taken(st)) = c - 1
      BY <1>7, <1>10, <2>1, <3>1, FS_RemoveElement, FS_CardinalityType
    <3>3. (c - 1) * MinNewTrades <= judged[st]
      BY <3>2 DEF LoopIInv, Spaced
    <3>4. c * MinNewTrades = (c - 1) * MinNewTrades + MinNewTrades
      BY <3>2, LoopFacts
    <3>5. PICK m : m = (c - 1) * MinNewTrades
      OBVIOUS
    <3>6. m \in Int
      BY <3>2, <3>5, LoopFacts
    <3>7. c * MinNewTrades <= judged'[st]
      BY <1>12, <3>3, <3>4, <3>5, <3>6, LoopFacts
    <3>8. QED
      BY <1>9, <2>2, <3>1, <3>7
  <2>3. CASE x # st
    <3>1. Taken(x)' = Taken(x)
      <4>1. Taken(x)' = Decided(x) /\ Taken(x) = Decided(x) \ {n}
        BY <1>9, <1>10
      <4>2. n \notin Decided(x)
        BY <1>11, <2>3
      <4>3. QED
        BY <4>1, <4>2
    <3>2. judged'[x] = judged[x]
      BY <1>12, <2>3
    <3>3. QED
      BY <3>1, <3>2 DEF LoopIInv, Spaced
  <2>4. QED
    BY <2>2, <2>3
<1>14. Reported'
  BY <1>7, <1>8, <1>12 DEF LoopIInv, Reported
<1>15. OwnDecision'
  BY <1>3 DEF OwnDecision
<1>16. NotYetIndexed'
  BY <1>2, <1>3 DEF LoopIInv, NotYetIndexed
<1>17. LoopTyped'
  <2>1. /\ tick'.at = tick.at
        /\ tick' \in [at : {"waiting", "polling", "judging"}, todo : SUBSET Owners]
    BY <1>1 DEF LoopIInv, LoopTyped
  <2>2. judged' \in [Owners -> Nat] /\ \A x \in Owners : judged'[x] <= acc[x].trade_count
    <3>1. judged \in [Owners -> Nat] /\ \A x \in Owners : judged[x] <= acc[x].trade_count
      BY DEF LoopIInv, LoopTyped
    <3>2. PICK a \in Nat : a = acc[st].trade_count
      BY <1>12
    <3>3. judged' = [judged EXCEPT ![st] = a]
      BY <1>1, <3>2
    <3>4. judged' \in [Owners -> Nat]
      BY <3>1, <3>3
    <3>5. \A x \in Owners : judged'[x] <= acc[x].trade_count
      BY <1>12, <3>1, <3>2
    <3>6. QED
      BY <3>4, <3>5
  <2>3. QED
    BY <1>2, <1>6, <2>1, <2>2 DEF LoopIInv, LoopTyped
<1>18. QED
  BY <1>13, <1>14, <1>15, <1>16, <1>17

\* A decision in the index whose publish is in flight is about enough new trades.
LEMMA DecisionsTold ==
  ASSUME LoopIInv, NEW st \in Owners, NEW n \in Decided(st), Deciding(n)
  PROVE  /\ NewTrades(st) >= MinNewTrades
         /\ \E d \in Decisions : pub[feedback_loop].event = DecisionEvent[st, d]
<1>1. PICK x \in Owners, y \in Decisions :
        /\ pub[feedback_loop].event = DecisionEvent[x, y]
        /\ NewTrades(x) >= MinNewTrades
  BY DEF Deciding, LoopIInv, OwnDecision, LoopTyped
<1>2. PICK d \in Decisions : events[n] = DecisionEvent[st, d]
  BY DecidedIs DEF DecisionsAbout
<1>3. events[n] = pub[feedback_loop].event
  <2>1. events[n] # NoEvent
    BY <1>2, DecisionsWritten, BusAssumption
  <2>2. QED
    BY <2>1, LoopFacts DEF Deciding, LoopIInv, ConsIInv, BusIInv, InFlight, PublishStates
<1>4. DecisionEvent[<<x, y>>] = DecisionEvent[<<st, d>>]
  BY <1>1, <1>2, <1>3
<1>5. <<x, y>> = <<st, d>>
  BY <1>4, LoopAssumption
<1>6. QED
  BY <1>1, <1>5

LEMMA LoopInitIInv == LoopInit => LoopIInv
<1> SUFFICES ASSUME LoopInit PROVE LoopIInv
  OBVIOUS
<1>1. ConsIInv
  BY InitConsIInv DEF LoopInit
<1>2. /\ events = [n \in Seqs |-> NoEvent]
      /\ acc = [st \in Owners |-> NewAccumulator] /\ cons = AtRest
      /\ pub = [p \in Publishers |-> Idle]
      /\ tick = Waiting /\ judged = [st \in Owners |-> 0] /\ born = 0
      /\ nextId = 0
  BY DEF LoopInit, Init, BusInit, ConsInit, Empty
<1>3. AccountsAddUp
  BY <1>2, NewAccounts DEF AccountsAddUp
<1>4. LoopTyped
  BY <1>2 DEF LoopTyped, NewAccumulator, Waiting, AtRest
<1>5. OwnDecision /\ NotYetIndexed
  BY <1>2, LoopAssumption DEF OwnDecision, NotYetIndexed, Idle
<1>6. \A st \in Owners : Decided(st) = {}
  <2>1. \A st \in Owners, d \in Decisions : DecisionEvent[st, d] # NoEvent
    BY DecisionsWritten, BusAssumption
  <2>2. \A n \in Seqs : events[n] = NoEvent
    BY <1>2
  <2>3. \A st \in Owners : DecisionsAbout(events, topics, born, st) = {}
    BY <2>1, <2>2 DEF DecisionsAbout
  <2>4. QED
    BY <2>3, DecidedIs
<1>7. Spaced /\ Reported
  <2>1. \A st \in Owners : Taken(st) = {}
    BY <1>6 DEF Taken
  <2>2. \A st \in Owners : Cardinality(Taken(st)) = 0
    BY <2>1, FS_EmptySet
  <2>3. QED
    BY <1>2, <2>2, LoopAssumption DEF Spaced, Reported
<1>8. QED
  BY <1>1, <1>3, <1>4, <1>5, <1>7 DEF LoopIInv

LEMMA LoopStep == LoopIInv /\ [LoopNext]_loopVars => LoopIInv'
<1> SUFFICES ASSUME LoopIInv, [LoopNext]_loopVars PROVE LoopIInv'
  OBVIOUS
<1>1. ConsIInv' /\ AccountsAddUp'
  BY LoopStepConsumes, ConsStep, AccountsStep DEF LoopIInv
<1>2. CASE Calm /\ LoopTyped' /\ OwnDecision'
  BY <1>1, <1>2, CalmUnmoved, UnmovedSpaced DEF Calm, LoopIInv
<1>3. CASE LoopTyped' /\ OwnDecision' /\ NotYetIndexed' /\ Unmoved /\ judged' = judged
  BY <1>1, <1>3, UnmovedSpaced DEF LoopIInv
<1>4. CASE DecisionPublished
  BY <1>1, <1>4, PublishedKeeps DEF LoopIInv
<1>5. CASE LoopRestart
  BY <1>1, <1>5, LoopRestartKeeps
<1>6. CASE UNCHANGED loopVars
  <2>1. Calm /\ UNCHANGED <<tick, cons, acc>>
    BY <1>6 DEF loopVars, vars, busVars, consVars, Calm
  <2>2. LoopTyped' /\ OwnDecision'
    BY <2>1 DEF Calm, LoopIInv, LoopTyped, OwnDecision, NewTrades
  <2>3. QED
    BY <1>2, <2>1, <2>2
<1>7. CASE TickStart \/ TickScan \/ TickPolled \/ TickPollFails
  BY <1>2, <1>7, PollCalm
<1>8. CASE \/ TickEnd
           \/ \E st \in Owners : SkipStrategy(st) \/ JudgeAtBound(st) \/ JudgeFails(st)
  BY <1>2, <1>8, JudgeCalm
<1>9. CASE \/ \E st \in Owners : Judge(st)
           \/ DecisionStored \/ DecisionFails
           \/ Others
  BY <1>3, <1>9, JudgeKeeps, DecisionKeeps, OthersKeep
<1>10. QED
  BY <1>4, <1>5, <1>6, <1>7, <1>8, <1>9 DEF LoopNext, Tick, TickFails

\* The inductive invariant of the feedback loop on the bus.
THEOREM LoopInvariant == LoopSpec => []LoopIInv
BY LoopInitIInv, LoopStep, PTL DEF LoopSpec

\* Decisions about a strategy are min_trades_between_evals trades apart
\* (feedback_loop.rs:116-136), whatever publishes fail.
THEOREM DecisionsSpaced == LoopSpec => []JudgedOnNewTrades
<1>1. LoopIInv => JudgedOnNewTrades
  <2> SUFFICES ASSUME LoopIInv, NEW st \in Owners
               PROVE  Cardinality(Decided(st)) * MinNewTrades <= acc[st].trade_count
    BY DEF JudgedOnNewTrades
  <2>1. IsFiniteSet(Decided(st))
    BY DecidedFinite
  <2>2. PICK t : t = Cardinality(Taken(st))
    OBVIOUS
  <2>3. PICK c : c = Cardinality(Decided(st))
    OBVIOUS
  <2>4. /\ t * MinNewTrades <= judged[st] /\ judged[st] \in Nat
        /\ judged[st] <= acc[st].trade_count /\ acc[st].trade_count \in Nat
    BY <2>2, LoopFacts DEF LoopIInv, Spaced, LoopTyped
  <2>5. CASE Taken(st) = Decided(st)
    BY <2>2, <2>4, <2>5, FS_CardinalityType, <2>1, <2>3, LoopFacts
  <2>6. CASE Taken(st) # Decided(st)
    <3>1. PICK n \in Decided(st) : Deciding(n)
      BY <2>6 DEF Taken
    <3>2. Taken(st) = Decided(st) \ {n}
      BY <3>1 DEF Taken, Deciding
    <3>3. c \in Nat /\ t = c - 1
      BY <2>1, <2>2, <2>3, <3>1, <3>2, FS_RemoveElement, FS_CardinalityType
    <3>4. NewTrades(st) >= MinNewTrades
      BY <3>1, DecisionsTold DEF Deciding
    <3>5. c * MinNewTrades = t * MinNewTrades + MinNewTrades
      BY <3>3, LoopFacts
    <3>6. PICK m : m = t * MinNewTrades
      OBVIOUS
    <3>7. m \in Int
      BY <3>3, <3>6, LoopFacts
    <3>8. QED
      BY <2>3, <2>4, <3>4, <3>5, <3>6, <3>7, LoopFacts DEF NewTrades
  <2>7. QED
    BY <2>5, <2>6
<1>2. QED
  BY <1>1, LoopInvariant, PTL

\* What the loop takes as judged stands on top of its report, and what is reported is
\* remembered once the publish returns (feedback_loop.rs:132-136, main.rs:705-737).
THEOREM DecisionsRemembered == LoopSpec => []RememberedIsPublished
<1>1. LoopIInv => RememberedIsPublished
  <2> SUFFICES ASSUME LoopIInv, NEW st \in Owners
               PROVE  /\ judged[st] > 0 => /\ Report(st, 1) # {}
                                           /\ Report(st, 1) \subseteq Decided(st)
                      /\ Decided(st) # {} =>
                           \/ judged[st] > 0
                           \/ \E d \in Decisions :
                                pub[feedback_loop].event = DecisionEvent[st, d]
    BY DEF RememberedIsPublished
  <2> DEFINE about == {n \in Indexed("feedback", 0) :
                         \E d \in Decisions : events[n] = DecisionEvent[st, d]}
             newer(n) == {m \in about : m > n}
  <2>1. Report(st, 1) = {n \in about : Cardinality(newer(n)) < 1}
    BY DEF Report
  <2>2. about \subseteq Seqs /\ "feedback" \in Topics
    <3>1. "feedback" \in Topics
      BY FeedbackIsTopic
    <3>2. QED
      BY <3>1, LoopFacts DEF Indexed
  <2>3. IsFiniteSet(about)
    <3>1. IsFiniteSet(Seqs)
      BY FS_Interval, BusAssumption DEF Seqs
    <3>2. QED
      BY <2>2, <3>1, FS_Subset
  <2>4. Decided(st) \subseteq about
    <3> SUFFICES ASSUME NEW n \in DecisionsAbout(events, topics, born, st) PROVE n \in about
      BY DecidedIs
    <3>1. PICK t \in Topics : n \in topics[t]
      BY DEF DecisionsAbout
    <3>2. PICK d \in Decisions : events[n] = DecisionEvent[st, d]
      BY DEF DecisionsAbout
    <3>3. Topic[events[n]] = t
      BY <3>1 DEF LoopIInv, ConsIInv, BusIInv, IndexReferencesStored, PointsAtStored
    <3>4. Topic[events[n]] = "feedback"
      BY <3>2, DecisionsWritten
    <3>5. n \in Nat
      BY LoopFacts DEF DecisionsAbout
    <3>6. n \in topics["feedback"] /\ n >= 0
      BY <3>1, <3>3, <3>4, <3>5
    <3>7. n \in Indexed("feedback", 0)
      BY <3>6 DEF Indexed
    <3>8. QED
      BY <3>2, <3>7
  <2>5. \A n \in about : n >= born => n \in Decided(st)
    <3> SUFFICES ASSUME NEW n \in about, n >= born
                 PROVE  n \in DecisionsAbout(events, topics, born, st)
      BY DecidedIs
    <3>1. n \in Seqs /\ n \in topics["feedback"]
          /\ \E d \in Decisions : events[n] = DecisionEvent[st, d]
      BY <2>2 DEF Indexed
    <3>2. QED
      BY <2>2, <3>1 DEF DecisionsAbout
  <2> HIDE DEF about
  <2>6. ASSUME judged[st] > 0
        PROVE  Report(st, 1) # {} /\ Report(st, 1) \subseteq Decided(st)
    <3>1. PICK x \in Decided(st) : TRUE
      BY <2>6 DEF LoopIInv, Reported
    <3>2. x \in about /\ x >= born /\ x \in Nat
      BY <2>2, <2>4, LoopFacts, DecidedIs DEF DecisionsAbout
    <3>3. PICK m \in about : \A i \in about : i <= m
      <4>1. about \in SUBSET (0 .. MaxSeq) /\ MaxSeq \in Nat
        BY <2>2, BusAssumption DEF Seqs
      <4>2. QED
        BY <3>2, <4>1, LargestNumber
    <3>4. newer(m) = {}
      BY <2>2, <3>3, LoopFacts
    <3>5. m \in Report(st, 1)
      BY <2>1, <3>4, FS_EmptySet
    <3>6. ASSUME NEW n \in Report(st, 1) PROVE n \in Decided(st)
      <4>1. n \in about /\ Cardinality(newer(n)) < 1
        BY <2>1
      <4>2. IsFiniteSet(newer(n))
        BY <2>3, FS_Subset
      <4>3. newer(n) = {}
        <5>1. PICK c : c = Cardinality(newer(n))
          OBVIOUS
        <5>2. c \in Nat /\ c < 1
          BY <4>1, <4>2, <5>1, FS_CardinalityType
        <5>3. c = 0
          BY <5>2
        <5>4. QED
          BY <4>2, <5>1, <5>3, FS_EmptySet
      <4>4. ~(x > n)
        BY <3>2, <4>3
      <4>5. n >= born
        BY <2>2, <3>2, <4>1, <4>4, LoopFacts
      <4>6. QED
        BY <2>5, <4>1, <4>5
    <3>7. QED
      BY <3>5, <3>6
  <2>7. ASSUME Decided(st) # {}
        PROVE  \/ judged[st] > 0
               \/ \E d \in Decisions : pub[feedback_loop].event = DecisionEvent[st, d]
    <3>1. CASE Taken(st) # {}
      <4>1. IsFiniteSet(Taken(st))
        BY DecidedFinite, FS_Subset DEF Taken
      <4>2. PICK t : t = Cardinality(Taken(st))
        OBVIOUS
      <4>3. t \in Nat /\ t # 0
        BY <3>1, <4>1, <4>2, FS_CardinalityType, FS_EmptySet
      <4>4. t * MinNewTrades <= judged[st] /\ judged[st] \in Nat
        BY <4>2 DEF LoopIInv, Spaced, LoopTyped
      <4>5. PICK m : m = t * MinNewTrades
        OBVIOUS
      <4>6. m \in Int /\ m > 0
        BY <4>3, <4>5, LoopFacts
      <4>7. m <= judged[st]
        BY <4>4, <4>5
      <4>8. judged[st] > 0
        BY <4>4, <4>6, <4>7
      <4>9. QED
        BY <4>8
    <3>2. CASE Taken(st) = {}
      <4>1. PICK n \in Decided(st) : Deciding(n)
        BY <2>7, <3>2 DEF Taken
      <4>2. QED
        BY <4>1, DecisionsTold
    <3>3. QED
      BY <3>1, <3>2
  <2>8. QED
    BY <2>6, <2>7
<1>2. QED
  BY <1>1, LoopInvariant, PTL

\* Types of the loop.
THEOREM LoopTypes == LoopSpec => []LoopTypeOK
<1>1. LoopIInv /\ ConsTypeOK => LoopTypeOK
  BY DEF LoopIInv, LoopTyped, LoopTypeOK
<1>2. QED
  BY <1>1, LoopInvariant, LoopConsumes, ConsTypes, PTL
=============================================================================
