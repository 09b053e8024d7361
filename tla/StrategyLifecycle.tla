-------------------------- MODULE StrategyLifecycle --------------------------
(***************************************************************************)
(* The daemon (daemon.rs) around the strategy store (strategy_store.rs):   *)
(* the lifecycle consumer moves the strategy of a decision to Promoted or  *)
(* Archived if the decision's id is a UUID, a live trader loads the        *)
(* promoted ones, the research loop keeps its own records in the store.    *)
(*                                                                         *)
(* The store is a sled database of its own, which sled locks for whoever   *)
(* opens it: a second open fails, and the task that tried it ends.  The    *)
(* daemon shuts down as soon as one of its tasks has ended.                *)
(***************************************************************************)
EXTENDS EventBus

CONSTANTS
  lifecycle,    \* the lifecycle consumer, and its broadcast receiver
  research,     \* the research loop
  Traders,      \* the live trading tasks, one per contract
  Spawned,      \* the tasks that the daemon spawns
  Kind,         \* Kind[e]: "promote", "demote" or "other"
  Id,           \* Id[e]: the strategy_id of a promote or demote event
  Stored,       \* the strategies of the store
  Parsed,       \* Parsed[id]: the strategy whose UUID id is, or NotUuid
  NotUuid,
  Referenced,   \* Referenced[id]: the strategy that id is about
  Fetched       \* the modules that `strategy fetch' left in the promoted directory

Tasks == {lifecycle, research} \cup Traders

ASSUME LifecycleAssumption ==
  /\ lifecycle \in Subscribers
  /\ lifecycle # research /\ {lifecycle, research} \cap Traders = {}
  /\ Spawned \subseteq Tasks /\ lifecycle \in Spawned
  /\ Kind \in [Events -> {"promote", "demote", "other"}]
  /\ \A e \in Events : Kind[e] # "other" =>
       Id[e] \in DOMAIN Parsed \cap DOMAIN Referenced
  /\ \A id \in DOMAIN Parsed : Parsed[id] \in Stored \cup {NotUuid}
  /\ NotUuid \notin Stored
  /\ \A id \in DOMAIN Referenced : Referenced[id] \in Stored

VARIABLES
  status,     \* the ResearchStrategyStatus of each strategy in the store
  flushed,    \* external: the statuses that a crash brings back
  lock,       \* external: the tasks that have the store open
  task,       \* where each task stands: "off", "on", "sleeping" or "ended"
  loaded,     \* the strategies that each trader trades
  handling    \* the number the lifecycle consumer has in hand, if any

storeVars == <<status, flushed, lock>>
allVars   == <<busVars, storeVars, task, loaded, handling>>

Statuses == {"Compiled", "Accepted", "Promoted", "Archived"}

Promoted == {st \in Stored : status[st] = "Promoted"}

NoTaskYet ==
  /\ lock = {} /\ handling = <<>>
  /\ task = [t \in Spawned |-> "off"]
  /\ loaded = [t \in Traders |-> {}]

LifecycleInit ==
  /\ BusInit
  /\ status = [st \in Stored |-> "Compiled"]
  /\ flushed = status
  /\ NoTaskYet

-----------------------------------------------------------------------------
(***************************************************************************)
(* StrategyStore::open_path.                                               *)
(***************************************************************************)
\* Deviation: a database that several may have open.
OpenUnlocked(t) == lock' = lock \cup {t} /\ task' = [task EXCEPT ![t] = "on"]

Open(t) == lock = {} /\ lock' = {t} /\ task' = [task EXCEPT ![t] = "on"]

\* The error of sled ends the task: the trader returns it, the consumer logs it
\* and returns, the research loop panics in expect.
OpenFails(t) ==
  /\ lock # {}
  /\ task' = [task EXCEPT ![t] = "ended"]
  /\ lock' = lock

-----------------------------------------------------------------------------
(***************************************************************************)
(* run_lifecycle_consumer.                                                 *)
(***************************************************************************)
LifecycleSubscribe ==
  /\ task[lifecycle] = "off"
  /\ Subscribe(lifecycle)
  /\ UNCHANGED <<storeVars, task, loaded, handling>>

LifecycleOpen ==
  /\ task[lifecycle] = "off" /\ lifecycle \in open
  /\ Open(lifecycle)
  /\ UNCHANGED <<busVars, status, flushed, loaded, handling>>

LifecycleOpenFails ==
  /\ task[lifecycle] = "off"
  /\ OpenFails(lifecycle)
  /\ DropReceiver(lifecycle)
  /\ UNCHANGED <<status, flushed, loaded, handling>>

LifecycleRecv ==
  /\ task[lifecycle] = "on" /\ handling = <<>>
  /\ Receive(lifecycle)
  /\ handling' = <<Head(chan[lifecycle])>>
  /\ UNCHANGED <<storeVars, task, loaded>>

\* The lost numbers are logged and never looked up.
LifecycleLagged ==
  /\ task[lifecycle] = "on" /\ handling = <<>>
  /\ ReceiveLagged(lifecycle)
  /\ UNCHANGED <<storeVars, task, loaded, handling>>

IsDecision(e) == Kind[e] # "other"
NewStatus(e)  == IF Kind[e] = "promote" THEN "Promoted" ELSE "Archived"

\* StrategyStore::update_status; an id that is no UUID changes nothing.
UpdateStatus(id, new) ==
  status' = [st \in Stored |-> IF st = Parsed[id] THEN new ELSE status[st]]

Handles(e) == task[lifecycle] = "on" /\ handling # <<>> /\ e = events[Head(handling)]

LifecycleHandle ==
  /\ \E e \in Events :
       /\ Handles(e)
       /\ IF IsDecision(e) THEN UpdateStatus(Id[e], NewStatus(e)) ELSE status' = status
  /\ handling' = <<>>
  /\ UNCHANGED <<busVars, flushed, lock, task, loaded>>

\* A sled error of get or of update_status: the event is skipped.
LifecycleHandleFails ==
  /\ "read" \in Faults
  /\ task[lifecycle] = "on" /\ handling # <<>>
  /\ handling' = <<>>
  /\ UNCHANGED <<busVars, storeVars, task, loaded>>

-----------------------------------------------------------------------------
(***************************************************************************)
(* load_promoted_strategies in run_live_trading, and build_research_loop.  *)
(***************************************************************************)
TraderOpen(t) ==
  /\ task[t] \in {"off", "sleeping"} /\ loaded[t] = {}
  /\ Open(t)
  /\ UNCHANGED <<busVars, status, flushed, loaded, handling>>

TraderOpenFails(t) ==
  /\ task[t] \in {"off", "sleeping"} /\ loaded[t] = {}
  /\ OpenFails(t)
  /\ UNCHANGED <<busVars, status, flushed, loaded, handling>>

\* Strategies whose module does not load are skipped; if none is left, the modules
\* of the promoted directory are tried; the store is dropped.  A trader with
\* strategies trades them for ever; one without sleeps 30 seconds and loads again.
TraderLoads(t) ==
  /\ task[t] = "on" /\ t \in lock
  /\ lock' = lock \ {t}
  /\ \E usable \in SUBSET Promoted, files \in SUBSET Fetched :
       LET found == IF usable = {} THEN files ELSE usable
       IN /\ loaded' = [loaded EXCEPT ![t] = found]
          /\ task' = [task EXCEPT ![t] = IF found = {} THEN "sleeping" ELSE "on"]
  /\ UNCHANGED <<busVars, status, flushed, handling>>

\* Deviation: a research loop without the store waits for it.
ResearchOpenWaits ==
  /\ task[research] = "off"
  /\ Open(research)
  /\ UNCHANGED <<busVars, status, flushed, loaded, handling>>

ResearchOpen ==
  /\ task[research] = "off"
  /\ Open(research) \/ OpenFails(research)
  /\ UNCHANGED <<busVars, status, flushed, loaded, handling>>

\* The last gate of an iteration: the new strategy is promoted.
ResearchPromotes ==
  /\ task[research] = "on"
  /\ \E st \in Stored :
       status[st] = "Compiled" /\ status' = [status EXCEPT ![st] = "Promoted"]
  /\ UNCHANGED <<busVars, flushed, lock, task, loaded, handling>>

-----------------------------------------------------------------------------
(***************************************************************************)
(* The publishers.                                                         *)
(***************************************************************************)
Publish(p) ==
  /\ \/ \E e \in Writes[p] : AllocateId(p, e)
     \/ InsertEvent(p)
     \/ InsertTopicKey(p)
     \/ Notify(p)
     \/ PublishFails(p)
  /\ UNCHANGED <<storeVars, task, loaded, handling>>

-----------------------------------------------------------------------------
(***************************************************************************)
(* run: a crash, or a shutdown because a task ended; then a new daemon.    *)
(***************************************************************************)
\* The bus is not flushed here: no task reads an event of before the crash.
FlushStore ==
  /\ "crash" \in Faults
  /\ flushed # status
  /\ flushed' = status
  /\ UNCHANGED <<busVars, status, lock, task, loaded, handling>>

NewTasks == lock' = {} /\ handling' = <<>>
            /\ task' = [t \in Spawned |-> "off"] /\ loaded' = [t \in Traders |-> {}]

Crash ==
  /\ CrashAndReopen
  /\ status' = flushed /\ flushed' = flushed
  /\ NewTasks

Ended == \E t \in Spawned : task[t] = "ended"

\* abort_all drops the tasks where they wait, and dropping the databases flushes
\* them.  Events that were not handled are history for the next daemon.
Shutdown ==
  /\ Ended
  /\ nextId' = nextId
  /\ disk' = [events |-> events, topics |-> topics, offsets |-> offsets]
  /\ pub' = [p \in Publishers |-> Idle]
  /\ open' = {}
  /\ chan' = [s \in Subscribers |-> <<>>]
  /\ lagged' = [s \in Subscribers |-> FALSE]
  /\ status' = status /\ flushed' = status
  /\ NewTasks
  /\ UNCHANGED <<trees, named>>

-----------------------------------------------------------------------------
Consumer ==
  \/ LifecycleSubscribe \/ LifecycleOpen \/ LifecycleOpenFails
  \/ LifecycleRecv \/ LifecycleLagged \/ LifecycleHandle

Trader(t) == TraderOpen(t) \/ TraderOpenFails(t) \/ TraderLoads(t)

LifecycleNext ==
  \/ Consumer \/ LifecycleHandleFails
  \/ \E t \in Traders \cap Spawned : Trader(t)
  \/ research \in Spawned /\ (ResearchOpen \/ ResearchPromotes)
  \/ \E p \in Publishers : Publish(p)
  \/ FlushStore \/ Crash \/ Shutdown

LifecycleSpec == LifecycleInit /\ [][LifecycleNext]_allVars

\* The consumer is woken while its channel holds something, the research loop and a
\* trader come to the store and read a list to its end, and a daemon whose task ended
\* shuts down.
FairLifecycleSpec ==
  /\ LifecycleSpec
  /\ WF_allVars(Consumer)
  /\ \A t \in Traders \cap Spawned : WF_allVars(Trader(t))
  /\ WF_allVars(research \in Spawned /\ ResearchOpen)
  /\ WF_allVars(Shutdown)

-----------------------------------------------------------------------------
(***************************************************************************)
(* Properties.                                                             *)
(***************************************************************************)
\* Types: a task with a number in hand holds its receiver.
LifecycleTypeOK ==
  /\ TypeOK
  /\ {status, flushed} \subseteq [Stored -> Statuses]
  /\ task \in [Spawned -> {"off", "on", "sleeping", "ended"}]
  /\ loaded \in [Traders -> SUBSET (Stored \cup Fetched)]
  /\ lock \subseteq Spawned
  /\ handling \in {<<>>} \cup {<<n>> : n \in Seqs}
  /\ task[lifecycle] = "on" => lifecycle \in open
  /\ handling # <<>> => task[lifecycle] = "on"

\* The consumer and the research loop use the store as long as they run, a trader
\* until it has loaded.
Uses(t) == task[t] = "on" /\ (t \in Traders => loaded[t] = {})

\* daemon.rs:843, 225, 666: the tasks of a daemon use one strategy store, but never
\* side by side; the consumer does not run together with the research loop, and no
\* trader loads while one of them runs.
OneUsesStore == \A t, u \in Spawned : Uses(t) /\ Uses(u) => t = u

\* So a daemon with a research loop does not last: the consumer or the research loop
\* comes late, finds the store locked and ends, and the daemon with it
\* (daemon.rs:156).
NoDaemonLasts == []<>(\A t \in Spawned : task[t] = "off")

\* daemon.rs:837-840: a promote event moves the strategy it references to Promoted, a
\* demote event moves it to Archived.
DecisionsApply ==
  [][\A e \in Events : Handles(e) /\ IsDecision(e) /\ LifecycleHandle =>
       status'[Referenced[Id[e]]] = NewStatus(e)]_allVars

\* daemon.rs:539-541: without a promoted strategy a trader retries every 30
\* seconds until there is one; it does not give up.
TraderRetries == \A t \in Traders \cap Spawned : task[t] # "ended"
=============================================================================
