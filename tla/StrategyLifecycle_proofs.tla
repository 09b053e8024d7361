---------------------- MODULE StrategyLifecycle_proofs ----------------------
(***************************************************************************)
(* One store for all the tasks of a daemon: for every set of traders and   *)
(* whatever is published, lost, promoted, crashed or shut down, no two     *)
(* tasks ever use it side by side.  The argument: sled's lock is held by   *)
(* exactly the tasks that use the store (Held), and by one at a time.      *)
(***************************************************************************)
EXTENDS StrategyLifecycle, TLAPS

Functions == DOMAIN task = Spawned /\ DOMAIN loaded = Traders

Held == lock = {t \in Spawned : Uses(t)}

OneHolder == \A t, u \in lock : t = u

StoreIInv == Functions /\ Held /\ OneHolder

LEMMA StoreInit == LifecycleInit => StoreIInv
BY DEF LifecycleInit, NoTaskYet, StoreIInv, Functions, Held, OneHolder, Uses

\* A task that opens the store: nobody else uses it.
LEMMA OpenStore ==
  ASSUME StoreIInv, NEW t \in Spawned, t \in Traders => loaded[t] = {},
         Open(t), loaded' = loaded
  PROVE  StoreIInv'
<1>1. lock = {} /\ lock' = {t} /\ task' = [task EXCEPT ![t] = "on"]
  BY DEF Open
<1>2. Functions'
  BY <1>1 DEF StoreIInv, Functions
<1>3. Uses(t)' /\ \A u \in Spawned : u # t => ~Uses(u)'
  BY <1>1 DEF StoreIInv, Functions, Held, Uses
<1>4. QED
  BY <1>1, <1>2, <1>3 DEF StoreIInv, Held, OneHolder

\* A task that finds the store locked did not use it, and ends.
LEMMA OpenFailsStore ==
  ASSUME StoreIInv, NEW t \in Spawned, task[t] # "on", OpenFails(t), loaded' = loaded
  PROVE  StoreIInv'
<1>1. lock' = lock /\ task' = [task EXCEPT ![t] = "ended"]
  BY DEF OpenFails
<1>2. Functions'
  BY <1>1 DEF StoreIInv, Functions
<1>3. \A u \in Spawned : Uses(u)' <=> Uses(u)
  BY <1>1 DEF StoreIInv, Functions, Uses
<1>4. QED
  BY <1>1, <1>2, <1>3 DEF StoreIInv, Held, OneHolder

\* A trader that has loaded, whatever it found, has left the store.
LEMMA LoadStore ==
  ASSUME StoreIInv, NEW t \in Traders \cap Spawned, TraderLoads(t)
  PROVE  StoreIInv'
<1>1. PICK found : /\ lock' = lock \ {t} /\ t \in lock
                   /\ loaded' = [loaded EXCEPT ![t] = found]
                   /\ task' = [task EXCEPT ![t] = IF found = {} THEN "sleeping" ELSE "on"]
  BY DEF TraderLoads
<1>2. Functions'
  BY <1>1 DEF StoreIInv, Functions
<1>3. ~Uses(t)' /\ \A u \in Spawned : u # t => (Uses(u)' <=> Uses(u))
  BY <1>1 DEF StoreIInv, Functions, Uses
<1>4. QED
  BY <1>1, <1>2, <1>3 DEF StoreIInv, Held, OneHolder

\* The next daemon starts with nobody in the store.
LEMMA EndStore == ASSUME Crash \/ Shutdown PROVE StoreIInv'
<1>1. NewTasks
  BY DEF Crash, Shutdown
<1>2. QED
  BY <1>1 DEF NewTasks, StoreIInv, Functions, Held, OneHolder, Uses

LEMMA OtherStore == ASSUME StoreIInv, UNCHANGED <<lock, task, loaded>> PROVE StoreIInv'
BY DEF StoreIInv, Functions, Held, OneHolder, Uses

LEMMA StoreStep ==
  ASSUME StoreIInv, [LifecycleNext]_allVars
  PROVE  StoreIInv'
<1>0. lifecycle \in Spawned /\ lifecycle \notin Traders /\ research \notin Traders
  BY LifecycleAssumption
<1>1. CASE LifecycleOpen
  BY <1>0, <1>1, OpenStore DEF LifecycleOpen
<1>2. CASE LifecycleOpenFails
  BY <1>0, <1>2, OpenFailsStore DEF LifecycleOpenFails
<1>3. CASE \/ LifecycleSubscribe \/ LifecycleRecv \/ LifecycleLagged
           \/ LifecycleHandle \/ LifecycleHandleFails \/ ResearchPromotes \/ FlushStore
           \/ \E p \in Publishers : Publish(p)
           \/ UNCHANGED allVars
  BY <1>3, OtherStore
  DEF LifecycleSubscribe, LifecycleRecv, LifecycleLagged, LifecycleHandle,
      LifecycleHandleFails, ResearchPromotes, FlushStore, Publish, allVars, storeVars
<1>4. ASSUME NEW t \in Traders \cap Spawned, Trader(t) PROVE StoreIInv'
  <2>1. CASE TraderOpen(t)
    BY <2>1, OpenStore DEF TraderOpen
  <2>2. CASE TraderOpenFails(t)
    BY <2>2, OpenFailsStore DEF TraderOpenFails
  <2>3. CASE TraderLoads(t)
    BY <2>3, LoadStore
  <2>4. QED
    BY <1>4, <2>1, <2>2, <2>3 DEF Trader
<1>5. CASE research \in Spawned /\ ResearchOpen
  BY <1>0, <1>5, OpenStore, OpenFailsStore DEF ResearchOpen
<1>6. CASE Crash \/ Shutdown
  BY <1>6, EndStore
<1>7. QED
  BY <1>1, <1>2, <1>3, <1>4, <1>5, <1>6 DEF LifecycleNext, Consumer

\* The consumer and the research loop never run side by side, and no trader loads
\* while one of them runs (daemon.rs:843, 225, 666).
THEOREM OneUsesStoreHolds == LifecycleSpec => []OneUsesStore
<1>1. LifecycleInit => StoreIInv
  BY StoreInit
<1>2. StoreIInv /\ [LifecycleNext]_allVars => StoreIInv'
  BY StoreStep
<1>3. StoreIInv => OneUsesStore
  BY DEF StoreIInv, Held, OneHolder, OneUsesStore
<1>4. QED
  BY <1>1, <1>2, <1>3, PTL DEF LifecycleSpec
=============================================================================
