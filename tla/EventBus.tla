------------------------------ MODULE EventBus ------------------------------
(***************************************************************************)
(* The event bus of crates/rara-event-bus: the sled-backed EventStore      *)
(* (store.rs) and the broadcast channel of EventBus (bus.rs).              *)
(*                                                                         *)
(* A publish is not atomic.  It draws a sequence number, inserts the       *)
(* event, inserts the topic key, and only then notifies the subscribers;   *)
(* tasks on other threads interleave between any two of those calls, and   *)
(* a crash may fall there too.  The number sequence is ONE counter for all *)
(* the topics, so the numbers of a topic have gaps.                        *)
(*                                                                         *)
(* sled is external.  It buffers writes and flushes them in order, so a    *)
(* crash brings back some earlier state of the trees (`disk'), and its     *)
(* id generator never goes back but skips ahead when the database is       *)
(* opened again.                                                           *)
(***************************************************************************)
EXTENDS Integers, Sequences, FiniteSets

CONSTANTS
  Publishers,   \* tasks that call EventBus::publish
  Subscribers,  \* tasks that may hold a broadcast receiver
  Groups,       \* consumer groups with a stored offset
  Topics,       \* "trading", "feedback", "research", "sentinel"
  Events,       \* the events that are published, as values
  Topic,        \* Topic[e]: the topic of event e (Event::topic)
  Writes,       \* Writes[p]: the events that task p publishes
  NoEvent,      \* what `get' answers for a number that is not stored
  Capacity,     \* capacity of the broadcast channel (1024 in bus.rs)
  MaxSeq,       \* bound: sequence numbers drawn in a behaviour
  MaxGap,       \* bound: how far a reopened id generator skips ahead
  Faults        \* which faults happen: a subset of FaultKinds

FaultKinds == {"publish", "read", "offset", "crash"}

ASSUME BusAssumption ==
  /\ Topic \in [Events -> Topics]
  /\ Writes \in [Publishers -> SUBSET Events]
  /\ NoEvent \notin Events
  /\ Capacity \in Nat \ {0}
  /\ MaxSeq \in Nat
  /\ MaxGap \in Nat
  /\ Faults \subseteq FaultKinds

VARIABLES
  nextId,   \* the id generator of the sled database
  events,   \* tree "events": sequence number -> event
  topics,   \* tree "topics": the numbers indexed under each topic
  offsets,  \* tree "offsets": the position of each consumer group
  disk,     \* the trees as of the last flush
  pub,      \* where each publisher stands in its publish call
  open,     \* the subscribers that hold a receiver
  chan,     \* the unread numbers of each receiver
  lagged,   \* receivers whose oldest unread number was overwritten
  named     \* history: every <<number, event>> ever inserted

trees   == <<events, topics, offsets>>
memory  == <<pub, open, chan, lagged>>
busVars == <<nextId, events, topics, offsets, disk, pub, open, chan, lagged,
             named>>

Seqs == 0 .. MaxSeq - 1

Empty == [events  |-> [s \in Seqs |-> NoEvent],
          topics  |-> [t \in Topics |-> {}],
          offsets |-> [g \in Groups |-> 0]]

Idle == [at |-> "idle", event |-> NoEvent, seq |-> 0]

(***************************************************************************)
(* EventStore::open on a fresh directory, and the channel of EventBus::open*)
(***************************************************************************)
BusInit ==
  /\ nextId = 0
  /\ events  = Empty.events
  /\ topics  = Empty.topics
  /\ offsets = Empty.offsets
  /\ disk = Empty
  /\ pub = [p \in Publishers |-> Idle]
  /\ open = {}
  /\ chan = [s \in Subscribers |-> <<>>]
  /\ lagged = [s \in Subscribers |-> FALSE]
  /\ named = {}

-----------------------------------------------------------------------------
(***************************************************************************)
(* EventBus::publish = EventStore::append, then the broadcast.             *)
(***************************************************************************)

\* append drew its sequence number: one counter, whatever the topic.
AllocateId(p, e) ==
  /\ pub[p].at = "idle"
  /\ nextId < MaxSeq
  /\ nextId' = nextId + 1
  /\ pub' = [pub EXCEPT ![p] = [at |-> "allocated", event |-> e, seq |-> nextId]]
  /\ UNCHANGED <<trees, disk, open, chan, lagged, named>>

\* The event goes in under its number before any key points at it.
InsertEvent(p) ==
  /\ pub[p].at = "allocated"
  /\ events' = [events EXCEPT ![pub[p].seq] = pub[p].event]
  /\ named' = named \cup {<<pub[p].seq, pub[p].event>>}
  /\ pub' = [pub EXCEPT ![p].at = "inserted"]
  /\ UNCHANGED <<nextId, topics, offsets, disk, open, chan, lagged>>

InsertTopicKey(p) ==
  /\ pub[p].at = "inserted"
  /\ topics' = [topics EXCEPT ![Topic[pub[p].event]] = @ \cup {pub[p].seq}]
  /\ pub' = [pub EXCEPT ![p].at = "indexed"]
  /\ UNCHANGED <<nextId, events, offsets, disk, open, chan, lagged, named>>

\* A full receiver loses its oldest number and learns of it at its next recv.
Deliver(q, n) == Append(IF Len(q) = Capacity THEN Tail(q) ELSE q, n)

\* Deviation: the number is broadcast before its topic key is in.
NotifyBeforeIndex(p) ==
  /\ pub[p].at \in {"inserted", "indexed"}
  /\ chan' = [s \in Subscribers |->
                IF s \in open THEN Deliver(chan[s], pub[p].seq) ELSE chan[s]]
  /\ lagged' = [s \in Subscribers |->
                  lagged[s] \/ (s \in open /\ Len(chan[s]) = Capacity)]
  /\ pub' = [pub EXCEPT ![p] = Idle]
  /\ UNCHANGED <<nextId, trees, disk, open, named>>

Notify(p) ==
  /\ pub[p].at = "indexed"
  /\ chan' = [s \in Subscribers |->
                IF s \in open THEN Deliver(chan[s], pub[p].seq) ELSE chan[s]]
  /\ lagged' = [s \in Subscribers |->
                  lagged[s] \/ (s \in open /\ Len(chan[s]) = Capacity)]
  /\ pub' = [pub EXCEPT ![p] = Idle]
  /\ UNCHANGED <<nextId, trees, disk, open, named>>

\* A sled error returns from append at once and leaves what was done so far:
\* a number that names nothing, or an event that no topic key points at.
PublishFails(p) ==
  /\ "publish" \in Faults
  /\ pub[p].at \in {"allocated", "inserted"}
  /\ pub' = [pub EXCEPT ![p] = Idle]
  /\ UNCHANGED <<nextId, trees, disk, open, chan, lagged, named>>

-----------------------------------------------------------------------------
(***************************************************************************)
(* Broadcast receivers: EventBus::subscribe, recv, and dropping a receiver.*)
(***************************************************************************)
Subscribe(s) ==
  /\ s \notin open
  /\ open' = open \cup {s}
  /\ chan' = [chan EXCEPT ![s] = <<>>]
  /\ lagged' = [lagged EXCEPT ![s] = FALSE]
  /\ UNCHANGED <<nextId, trees, disk, pub, named>>

Receive(s) ==
  /\ s \in open
  /\ ~lagged[s]
  /\ chan[s] # <<>>
  /\ chan' = [chan EXCEPT ![s] = Tail(@)]
  /\ UNCHANGED <<nextId, trees, disk, pub, open, lagged, named>>

ReceiveLagged(s) ==
  /\ s \in open
  /\ lagged[s]
  /\ lagged' = [lagged EXCEPT ![s] = FALSE]
  /\ UNCHANGED <<nextId, trees, disk, pub, open, chan, named>>

DropReceiver(s) ==
  /\ s \in open
  /\ open' = open \ {s}
  /\ chan' = [chan EXCEPT ![s] = <<>>]
  /\ lagged' = [lagged EXCEPT ![s] = FALSE]
  /\ UNCHANGED <<nextId, trees, disk, pub, named>>

-----------------------------------------------------------------------------
(***************************************************************************)
(* EventStore::set_offset.  The store takes any position a client gives.   *)
(***************************************************************************)
SetOffset(g, n) ==
  /\ offsets' = [offsets EXCEPT ![g] = n]
  /\ UNCHANGED <<nextId, events, topics, disk, memory, named>>

\* EventStore::read_topic sees the numbers indexed under t from `from' on.
Indexed(t, from) == {n \in topics[t] : n >= from}

-----------------------------------------------------------------------------
(***************************************************************************)
(* sled: the background flush, and a crash followed by EventStore::open.   *)
(***************************************************************************)
\* What is on disk matters to a crash only.
Flush ==
  /\ "crash" \in Faults
  /\ disk' = [events |-> events, topics |-> topics, offsets |-> offsets]
  /\ disk' # disk
  /\ UNCHANGED <<nextId, trees, memory, named>>

\* Deviation: the counter restarts after the last number found in the trees.
ReopenAfterLastStored ==
  /\ "crash" \in Faults
  /\ nextId' = Cardinality({n \in Seqs : disk.events[n] # NoEvent})
  /\ events'  = disk.events
  /\ topics'  = disk.topics
  /\ offsets' = disk.offsets
  /\ pub' = [p \in Publishers |-> Idle]
  /\ open' = {}
  /\ chan' = [s \in Subscribers |-> <<>>]
  /\ lagged' = [s \in Subscribers |-> FALSE]
  /\ UNCHANGED <<disk, named>>

CrashAndReopen ==
  /\ "crash" \in Faults
  /\ \E gap \in 0 .. MaxGap : nextId + gap <= MaxSeq /\ nextId' = nextId + gap
  /\ events'  = disk.events
  /\ topics'  = disk.topics
  /\ offsets' = disk.offsets
  /\ pub' = [p \in Publishers |-> Idle]
  /\ open' = {}
  /\ chan' = [s \in Subscribers |-> <<>>]
  /\ lagged' = [s \in Subscribers |-> FALSE]
  /\ UNCHANGED <<disk, named>>

-----------------------------------------------------------------------------
PublishStep(p) ==
  \/ \E e \in Writes[p] : AllocateId(p, e)
  \/ InsertEvent(p)
  \/ InsertTopicKey(p)
  \/ Notify(p)
  \/ PublishFails(p)

SubscriberStep(s) ==
  \/ Subscribe(s)
  \/ Receive(s)
  \/ ReceiveLagged(s)
  \/ DropReceiver(s)

BusNext ==
  \/ \E p \in Publishers : PublishStep(p)
  \/ \E s \in Subscribers : SubscriberStep(s)
  \/ \E g \in Groups, n \in 0 .. MaxSeq : SetOffset(g, n)
  \/ Flush
  \/ CrashAndReopen

BusSpec == BusInit /\ [][BusNext]_busVars

-----------------------------------------------------------------------------
(***************************************************************************)
(* Properties.                                                             *)
(***************************************************************************)
Trees == [events  : [Seqs -> Events \cup {NoEvent}],
          topics  : [Topics -> SUBSET Seqs],
          offsets : [Groups -> 0 .. MaxSeq]]

PublishStates == [at    : {"idle", "allocated", "inserted", "indexed"},
                  event : Events \cup {NoEvent},
                  seq   : 0 .. MaxSeq]

\* Types: the trees hold what their writers put there.
TypeOK ==
  /\ nextId \in 0 .. MaxSeq
  /\ events \in [Seqs -> Events \cup {NoEvent}]
  /\ topics \in [Topics -> SUBSET Seqs]
  /\ offsets \in [Groups -> 0 .. MaxSeq]
  /\ disk \in Trees
  /\ pub \in [Publishers -> PublishStates]
  /\ open \subseteq Subscribers
  /\ chan \in [Subscribers -> Seq(Seqs)]
  /\ lagged \in [Subscribers -> BOOLEAN]
  /\ named \subseteq Seqs \X Events

\* Every topic key points at a stored event of that topic, in memory and after
\* any crash: the `expect' of read_topic ("topic index references non-existent
\* event") cannot fire, whatever the publishers interleave.
PointsAtStored(ev, idx) ==
  \A t \in Topics : \A n \in idx[t] : ev[n] # NoEvent /\ Topic[ev[n]] = t

IndexReferencesStored ==
  /\ PointsAtStored(events, topics)
  /\ PointsAtStored(disk.events, disk.topics)

\* A subscriber that wakes for a number finds the event by `get' and in a scan
\* of its topic: publish broadcasts last, so the notified reader is never early.
NotifiedIsReadable ==
  \A s \in open : \A i \in 1 .. Len(chan[s]) :
    LET n == chan[s][i] IN events[n] # NoEvent /\ n \in topics[Topic[events[n]]]

\* A sequence number names one event for ever: neither concurrent publishers
\* nor a restart that lost the newest events give a number to a second event.
SeqNamesOneEvent ==
  \A x, y \in named : x[1] = y[1] => x = y

\* What makes the three inductive.  A publisher in flight owns the number it
\* drew: nothing is stored or named under it before InsertEvent, its event is
\* in the tree after, its key in the index after InsertTopicKey, and no other
\* publisher holds the number.
InFlight ==
  \A p \in Publishers : pub[p].at # "idle" =>
    /\ pub[p].seq \in Seqs /\ pub[p].seq < nextId
    /\ pub[p].event \in Events
    /\ pub[p].at = "allocated" =>
         events[pub[p].seq] = NoEvent /\ \A x \in named : x[1] # pub[p].seq
    /\ pub[p].at # "allocated" => events[pub[p].seq] = pub[p].event
    /\ pub[p].at = "indexed" => pub[p].seq \in topics[Topic[pub[p].event]]
    /\ \A q \in Publishers \ {p} : pub[q].at # "idle" => pub[q].seq # pub[p].seq

\* Every number in use was drawn, and whatever a tree stores was named so.
Drawn ==
  /\ \A x \in named : x[1] < nextId
  /\ \A n \in Seqs : events[n] # NoEvent => <<n, events[n]>> \in named
  /\ \A n \in Seqs : disk.events[n] # NoEvent => <<n, disk.events[n]>> \in named

BusIInv ==
  /\ TypeOK
  /\ IndexReferencesStored
  /\ NotifiedIsReadable
  /\ SeqNamesOneEvent
  /\ InFlight
  /\ Drawn
=============================================================================
