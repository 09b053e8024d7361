--------------------------- MODULE EventBus_proofs ---------------------------
(***************************************************************************)
(* Safety of the event bus for every number of publishers, subscribers,    *)
(* topics and events, with sled errors and crashes.  The invariants are    *)
(* proved together, with the state of the publishes in flight (InFlight)   *)
(* and the numbers drawn so far (Drawn), as the inductive invariant        *)
(* BusIInv of EventBus.tla.                                                *)
(***************************************************************************)
EXTENDS EventBus, SequenceTheorems, TLAPS

\* The empty trees are well typed.
LEMMA EmptyTyped == Empty \in Trees
BY BusAssumption DEF Empty, Trees, Seqs

\* What Deliver puts in a receiver's queue was there before or is the new number.
LEMMA DeliverRange ==
  ASSUME NEW q \in Seq(Seqs), NEW n \in Seqs
  PROVE  /\ Deliver(q, n) \in Seq(Seqs)
         /\ \A i \in 1 .. Len(Deliver(q, n)) :
              \/ Deliver(q, n)[i] = n
              \/ \E j \in 1 .. Len(q) : Deliver(q, n)[i] = q[j]
<1>1. CASE Len(q) = Capacity
  <2>1. q # <<>>
    BY <1>1, BusAssumption
  <2>2. /\ Tail(q) \in Seq(Seqs) /\ Len(Tail(q)) = Len(q) - 1
        /\ \A i \in 1 .. Len(Tail(q)) : Tail(q)[i] = q[i + 1]
    BY <2>1, HeadTailProperties
  <2>3. QED
    BY <1>1, <2>2 DEF Deliver
<1>2. CASE Len(q) # Capacity
  BY <1>2 DEF Deliver
<1>3. QED
  BY <1>1, <1>2

\* A number waiting in a channel is a sequence number.
LEMMA HeardTyped ==
  ASSUME TypeOK, NEW s \in open, NEW i \in 1 .. Len(chan[s])
  PROVE  chan[s][i] \in Seqs
<1>1. chan[s] \in Seq(Seqs)
  BY DEF TypeOK
<1>2. QED
  BY <1>1, ElementOfSeq

LEMMA InitBusIInv == BusInit => BusIInv
<1> SUFFICES ASSUME BusInit PROVE BusIInv
  OBVIOUS
<1>1. TypeOK
  BY EmptyTyped, BusAssumption
  DEF BusInit, TypeOK, Trees, Empty, Idle, PublishStates, Seqs
<1>2. QED
  BY <1>1, BusAssumption
  DEF BusInit, BusIInv, IndexReferencesStored, PointsAtStored, NotifiedIsReadable,
      SeqNamesOneEvent, InFlight, Drawn, Empty, Idle

-----------------------------------------------------------------------------
(***************************************************************************)
(* One lemma per step that writes what the invariant reads.                *)
(***************************************************************************)
LEMMA AllocateIdInv ==
  ASSUME BusIInv, NEW p \in Publishers, NEW e \in Writes[p], AllocateId(p, e)
  PROVE  BusIInv'
<1> USE BusAssumption DEF BusIInv
<1>1. e \in Events /\ nextId \in Seqs /\ nextId' = nextId + 1
  <2>1. e \in Events
    OBVIOUS
  <2>2. QED
    BY <2>1 DEF AllocateId, TypeOK, Seqs
<1>2. TypeOK'
  BY <1>1 DEF AllocateId, TypeOK, Trees, PublishStates, trees, Seqs
<1>3. IndexReferencesStored' /\ NotifiedIsReadable' /\ SeqNamesOneEvent'
  BY DEF AllocateId, IndexReferencesStored, PointsAtStored, NotifiedIsReadable,
         SeqNamesOneEvent, trees
<1>4. events[nextId] = NoEvent /\ \A x \in named : x[1] # nextId
  <2>1. \A x \in named : x[1] # nextId
    BY <1>1 DEF Drawn, Seqs
  <2>2. ASSUME events[nextId] # NoEvent PROVE FALSE
    <3>1. <<nextId, events[nextId]>> \in named
      BY <1>1, <2>2 DEF Drawn
    <3>2. QED
      BY <2>1, <3>1
  <2>3. QED
    BY <2>1, <2>2
<1>5. InFlight'
  BY <1>1, <1>4 DEF AllocateId, InFlight, TypeOK, PublishStates, trees, Seqs
<1>6. Drawn'
  BY <1>1 DEF AllocateId, Drawn, TypeOK, trees, Seqs
<1>7. QED
  BY <1>2, <1>3, <1>5, <1>6

LEMMA InsertEventInv ==
  ASSUME BusIInv, NEW p \in Publishers, InsertEvent(p)
  PROVE  BusIInv'
<1> USE BusAssumption DEF BusIInv
<1> DEFINE n == pub[p].seq
           e == pub[p].event
<1>1. /\ n \in Seqs /\ n < nextId /\ e \in Events
      /\ events[n] = NoEvent /\ \A x \in named : x[1] # n
  BY DEF InsertEvent, InFlight
<1>2. /\ events' = [events EXCEPT ![n] = e]
      /\ named' = named \cup {<<n, e>>}
      /\ pub' = [pub EXCEPT ![p].at = "inserted"]
      /\ UNCHANGED <<nextId, topics, offsets, disk, open, chan, lagged>>
  BY DEF InsertEvent
<1>3. TypeOK'
  <2>1. events' \in [Seqs -> Events \cup {NoEvent}]
    BY <1>1, <1>2 DEF TypeOK
  <2>2. pub' \in [Publishers -> PublishStates]
    BY <1>2 DEF TypeOK, PublishStates
  <2>3. named' \subseteq Seqs \X Events
    BY <1>1, <1>2 DEF TypeOK
  <2>4. QED
    BY <1>2, <2>1, <2>2, <2>3 DEF TypeOK
<1>4. IndexReferencesStored'
  BY <1>1, <1>2 DEF IndexReferencesStored, PointsAtStored, TypeOK, Trees
<1>5. NotifiedIsReadable'
  <2>1. SUFFICES ASSUME NEW s \in open, NEW i \in 1 .. Len(chan[s])
                 PROVE  /\ events'[chan[s][i]] # NoEvent
                        /\ chan[s][i] \in topics[Topic[events'[chan[s][i]]]]
    BY <1>2 DEF NotifiedIsReadable
  <2>2. events'[chan[s][i]] = events[chan[s][i]]
    BY <1>1, <1>2, HeardTyped DEF NotifiedIsReadable, TypeOK
  <2>3. QED
    BY <2>2 DEF NotifiedIsReadable
<1>6. SeqNamesOneEvent'
  BY <1>1, <1>2 DEF SeqNamesOneEvent
<1>7. InFlight'
  BY <1>1, <1>2 DEF InFlight, InsertEvent, TypeOK, Trees, PublishStates
<1>8. Drawn'
  BY <1>1, <1>2 DEF Drawn, TypeOK, Trees
<1>9. QED
  BY <1>3, <1>4, <1>5, <1>6, <1>7, <1>8

LEMMA InsertTopicKeyInv ==
  ASSUME BusIInv, NEW p \in Publishers, InsertTopicKey(p)
  PROVE  BusIInv'
<1> USE BusAssumption DEF BusIInv
<1> DEFINE n == pub[p].seq
           e == pub[p].event
<1>1. n \in Seqs /\ e \in Events /\ events[n] = e /\ Topic[e] \in Topics
  BY DEF InsertTopicKey, InFlight
<1>2. /\ topics' = [topics EXCEPT ![Topic[e]] = @ \cup {n}]
      /\ pub' = [pub EXCEPT ![p].at = "indexed"]
      /\ UNCHANGED <<nextId, events, offsets, disk, open, chan, lagged, named>>
  BY DEF InsertTopicKey
<1>3. TypeOK'
  <2>1. topics' \in [Topics -> SUBSET Seqs]
    BY <1>1, <1>2 DEF TypeOK
  <2>2. pub' \in [Publishers -> PublishStates]
    BY <1>2 DEF TypeOK, PublishStates
  <2>3. QED
    BY <1>2, <2>1, <2>2 DEF TypeOK
<1>4. IndexReferencesStored'
  BY <1>1, <1>2 DEF IndexReferencesStored, PointsAtStored, TypeOK, Trees
<1>5. NotifiedIsReadable'
  BY <1>1, <1>2 DEF NotifiedIsReadable, TypeOK, Trees
<1>6. SeqNamesOneEvent' /\ Drawn'
  BY <1>2 DEF SeqNamesOneEvent, Drawn
<1>7. InFlight'
  BY <1>1, <1>2 DEF InFlight, InsertTopicKey, TypeOK, Trees, PublishStates
<1>8. QED
  BY <1>3, <1>4, <1>5, <1>6, <1>7

LEMMA NotifyInv ==
  ASSUME BusIInv, NEW p \in Publishers, Notify(p)
  PROVE  BusIInv'
<1> USE BusAssumption DEF BusIInv
<1> DEFINE n == pub[p].seq
<1>1. n \in Seqs /\ events[n] # NoEvent /\ n \in topics[Topic[events[n]]]
  BY DEF Notify, InFlight
<1>2. /\ \A s \in Subscribers :
           chan'[s] = IF s \in open THEN Deliver(chan[s], n) ELSE chan[s]
      /\ chan' \in [Subscribers -> Seq(Seqs)]
  BY <1>1, DeliverRange DEF Notify, TypeOK
<1>3. /\ pub' = [pub EXCEPT ![p] = Idle]
      /\ lagged' \in [Subscribers -> BOOLEAN]
      /\ UNCHANGED <<nextId, events, topics, offsets, disk, open, named>>
  BY DEF Notify, TypeOK, trees
<1>4. TypeOK'
  BY <1>2, <1>3 DEF TypeOK, Trees, PublishStates, Idle, Seqs
<1>5. NotifiedIsReadable'
  <2>1. SUFFICES ASSUME NEW s \in open, NEW i \in 1 .. Len(chan'[s])
                 PROVE  /\ events[chan'[s][i]] # NoEvent
                        /\ chan'[s][i] \in topics[Topic[events[chan'[s][i]]]]
    BY <1>3 DEF NotifiedIsReadable
  <2>2. s \in Subscribers /\ chan[s] \in Seq(Seqs) /\ chan'[s] = Deliver(chan[s], n)
    BY <1>2 DEF TypeOK
  <2>3. chan'[s][i] = n \/ \E j \in 1 .. Len(chan[s]) : chan'[s][i] = chan[s][j]
    <3>1. \A k \in 1 .. Len(Deliver(chan[s], n)) :
            \/ Deliver(chan[s], n)[k] = n
            \/ \E j \in 1 .. Len(chan[s]) : Deliver(chan[s], n)[k] = chan[s][j]
      BY <1>1, <2>2, DeliverRange
    <3>2. QED
      BY <2>2, <3>1
  <2>4. QED
    BY <1>1, <2>3 DEF NotifiedIsReadable
<1>6. IndexReferencesStored' /\ SeqNamesOneEvent' /\ Drawn'
  BY <1>3 DEF IndexReferencesStored, SeqNamesOneEvent, Drawn
<1>7. InFlight'
  BY <1>3 DEF InFlight, TypeOK, PublishStates, Idle
<1>8. QED
  BY <1>4, <1>5, <1>6, <1>7

LEMMA PublishFailsInv ==
  ASSUME BusIInv, NEW p \in Publishers, PublishFails(p)
  PROVE  BusIInv'
<1> USE BusAssumption DEF BusIInv
<1>1. /\ pub' = [pub EXCEPT ![p] = Idle]
      /\ UNCHANGED <<nextId, events, topics, offsets, disk, open, chan, lagged, named>>
  BY DEF PublishFails, trees
<1>2. TypeOK'
  BY <1>1 DEF TypeOK, Trees, PublishStates, Idle, Seqs
<1>3. InFlight'
  BY <1>1 DEF InFlight, TypeOK, PublishStates, Idle
<1>4. QED
  BY <1>1, <1>2, <1>3
  DEF IndexReferencesStored, NotifiedIsReadable, SeqNamesOneEvent, Drawn

LEMMA SubscriberStepInv ==
  ASSUME BusIInv, NEW s \in Subscribers, SubscriberStep(s)
  PROVE  BusIInv'
<1> USE BusAssumption DEF BusIInv
<1>1. UNCHANGED <<nextId, events, topics, offsets, disk, pub, named>>
  BY DEF SubscriberStep, Subscribe, Receive, ReceiveLagged, DropReceiver, trees
<1>2. ASSUME NEW q \in Seq(Seqs), q # <<>>
      PROVE  /\ Tail(q) \in Seq(Seqs)
             /\ \A i \in 1 .. Len(Tail(q)) : i + 1 \in 1 .. Len(q) /\ Tail(q)[i] = q[i + 1]
  BY <1>2, HeadTailProperties
<1>3. TypeOK'
  <2>1. open' \subseteq Subscribers /\ lagged' \in [Subscribers -> BOOLEAN]
    BY DEF SubscriberStep, Subscribe, Receive, ReceiveLagged, DropReceiver, TypeOK
  <2>2. chan' \in [Subscribers -> Seq(Seqs)]
    <3>1. CASE Receive(s)
      BY <1>2, <3>1 DEF Receive, TypeOK
    <3>2. CASE ReceiveLagged(s)
      BY <3>2 DEF ReceiveLagged, TypeOK
    <3>3. CASE Subscribe(s) \/ DropReceiver(s)
      <4>1. chan' = [chan EXCEPT ![s] = <<>>] /\ <<>> \in Seq(Seqs)
        BY <3>3 DEF Subscribe, DropReceiver
      <4>2. QED
        BY <4>1 DEF TypeOK
    <3>4. QED
      BY <3>1, <3>2, <3>3 DEF SubscriberStep
  <2>3. QED
    BY <1>1, <2>1, <2>2 DEF TypeOK
<1>4. NotifiedIsReadable'
  <2>1. CASE Subscribe(s) \/ DropReceiver(s)
    <3>1. \A r \in open' : chan'[r] = <<>> \/ (r \in open /\ chan'[r] = chan[r])
      BY <2>1 DEF Subscribe, DropReceiver, TypeOK
    <3>2. QED
      BY <1>1, <3>1 DEF NotifiedIsReadable
  <2>2. CASE Receive(s)
    <3>1. /\ open' = open /\ s \in open /\ chan[s] \in Seq(Seqs) /\ chan[s] # <<>>
          /\ \A r \in open : chan'[r] = IF r = s THEN Tail(chan[s]) ELSE chan[r]
      BY <2>2 DEF Receive, TypeOK
    <3>2. \A i \in 1 .. Len(chan'[s]) :
            \E j \in 1 .. Len(chan[s]) : chan'[s][i] = chan[s][j]
      <4>1. chan'[s] = Tail(chan[s])
        BY <3>1
      <4>2. \A i \in 1 .. Len(Tail(chan[s])) :
              i + 1 \in 1 .. Len(chan[s]) /\ Tail(chan[s])[i] = chan[s][i + 1]
        BY <1>2, <3>1
      <4>3. QED
        BY <4>1, <4>2
    <3>3. ASSUME NEW r \in open', NEW i \in 1 .. Len(chan'[r])
          PROVE  \E j \in 1 .. Len(chan[r]) : chan'[r][i] = chan[r][j]
      <4>1. CASE r = s
        BY <3>2, <3>3, <4>1
      <4>2. CASE r # s
        BY <3>1, <3>3, <4>2
      <4>3. QED
        BY <4>1, <4>2
    <3>4. open' = open
      BY <3>1
    <3>5. QED
      BY <1>1, <3>3, <3>4 DEF NotifiedIsReadable
  <2>3. CASE ReceiveLagged(s)
    BY <1>1, <2>3 DEF ReceiveLagged, NotifiedIsReadable
  <2>4. QED
    BY <2>1, <2>2, <2>3 DEF SubscriberStep
<1>5. QED
  BY <1>1, <1>3, <1>4
  DEF IndexReferencesStored, SeqNamesOneEvent, InFlight, Drawn

LEMMA CrashInv ==
  ASSUME BusIInv, CrashAndReopen
  PROVE  BusIInv'
<1> USE BusAssumption DEF BusIInv
<1>1. /\ nextId' \in 0 .. MaxSeq /\ nextId <= nextId'
      /\ events' = disk.events /\ topics' = disk.topics /\ offsets' = disk.offsets
      /\ pub' = [q \in Publishers |-> Idle]
      /\ open' = {}
      /\ chan' = [s \in Subscribers |-> <<>>]
      /\ lagged' = [s \in Subscribers |-> FALSE]
      /\ disk' = disk /\ named' = named
  BY DEF CrashAndReopen, TypeOK
<1>2. TypeOK'
  BY <1>1 DEF TypeOK, Trees, PublishStates, Idle, Seqs
<1>3. IndexReferencesStored' /\ NotifiedIsReadable' /\ SeqNamesOneEvent' /\ InFlight'
  BY <1>1
  DEF IndexReferencesStored, NotifiedIsReadable, SeqNamesOneEvent, InFlight, Idle
<1>4. Drawn'
  BY <1>1 DEF Drawn, TypeOK, Seqs
<1>5. QED
  BY <1>2, <1>3, <1>4

\* Every step of the bus preserves the inductive invariant.
LEMMA BusStep == BusIInv /\ [BusNext]_busVars => BusIInv'
<1> SUFFICES ASSUME BusIInv, [BusNext]_busVars PROVE BusIInv'
  OBVIOUS
<1>1. ASSUME NEW p \in Publishers, PublishStep(p) PROVE BusIInv'
  BY <1>1, AllocateIdInv, InsertEventInv, InsertTopicKeyInv, NotifyInv, PublishFailsInv
  DEF PublishStep
<1>2. ASSUME NEW s \in Subscribers, SubscriberStep(s) PROVE BusIInv'
  BY <1>2, SubscriberStepInv
<1>3. ASSUME NEW g \in Groups, NEW n \in 0 .. MaxSeq, SetOffset(g, n) PROVE BusIInv'
  BY <1>3
  DEF SetOffset, memory, BusIInv, TypeOK, Trees, IndexReferencesStored,
      NotifiedIsReadable, SeqNamesOneEvent, InFlight, Drawn
<1>4. CASE Flush
  <2>1. /\ disk' = [events |-> events, topics |-> topics, offsets |-> offsets]
        /\ UNCHANGED <<nextId, events, topics, offsets, pub, open, chan, lagged, named>>
    BY <1>4 DEF Flush, trees, memory
  <2>2. /\ disk'.events = events /\ disk'.topics = topics
        /\ TypeOK => disk' \in Trees
    BY <2>1 DEF TypeOK, Trees
  <2>3. QED
    BY <2>1, <2>2
    DEF BusIInv, TypeOK, IndexReferencesStored, NotifiedIsReadable,
        SeqNamesOneEvent, InFlight, Drawn
<1>5. CASE CrashAndReopen
  BY <1>5, CrashInv
<1>6. CASE UNCHANGED busVars
  BY <1>6
  DEF busVars, BusIInv, TypeOK, IndexReferencesStored,
      NotifiedIsReadable, SeqNamesOneEvent, InFlight, Drawn
<1>7. QED
  BY <1>1, <1>2, <1>3, <1>4, <1>5, <1>6 DEF BusNext

\* The inductive invariant holds in every reachable state of the bus.
THEOREM BusInvariant == BusSpec => []BusIInv
<1>1. BusInit => BusIInv
  BY InitBusIInv
<1>2. BusIInv /\ [BusNext]_busVars => BusIInv'
  BY BusStep
<1>3. QED
  BY <1>1, <1>2, PTL DEF BusSpec

\* Types of the store and of the channel (store.rs, bus.rs).
THEOREM BusTypes == BusSpec => []TypeOK
BY BusInvariant, PTL DEF BusIInv

\* read_topic (store.rs:111-114) never follows a topic key to a missing event.
THEOREM IndexSound == BusSpec => []IndexReferencesStored
BY BusInvariant, PTL DEF BusIInv

\* A subscriber woken by publish (bus.rs:35-40) finds what it was woken for.
THEOREM NotifiedSound == BusSpec => []NotifiedIsReadable
BY BusInvariant, PTL DEF BusIInv

\* A sequence number of append (store.rs:62-77) is never given to two events.
THEOREM SeqUnique == BusSpec => []SeqNamesOneEvent
BY BusInvariant, PTL DEF BusIInv
=============================================================================
