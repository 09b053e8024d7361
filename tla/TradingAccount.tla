--------------------------- MODULE TradingAccount ---------------------------
(***************************************************************************)
(* A UnifiedTradingAccount (uta.rs) with its TradingGit history            *)
(* (trading_git.rs) and its broker: operations are staged, committed under *)
(* a hash, and pushed to the broker or rejected; sync records what became  *)
(* of the submitted orders.                                                *)
(*                                                                         *)
(* The git mutex is held only to take the pending batch and to record the  *)
(* commit, never across the broker's I/O, so the calls of several tasks    *)
(* interleave between those points.                                        *)
(*                                                                         *)
(* The broker is external.  It may have created an order although the call *)
(* that placed it failed, and it moves orders on by itself.  No broker of  *)
(* the repository implements modify, close, cancel or get_orders; the      *)
(* defaults of the Broker trait answer with an error.                      *)
(***************************************************************************)
EXTENDS Integers, FiniteSets, SequencesExt

CONSTANTS
  Callers,            \* tasks that push, reject and sync
  Operations,         \* the operations that are staged, each once
  Placing,            \* those that place an order; its id is the operation
  SyncOrders,         \* the operation of a sync commit
  NoHash, NoOrder,    \* None
  OfflineThreshold,   \* failures in a row that take it offline (6)
  MaxHash             \* bound: commit hashes generated in a behaviour

ASSUME AccountAssumption ==
  /\ Placing \subseteq Operations
  /\ SyncOrders \notin Operations
  /\ NoOrder \notin Operations
  /\ MaxHash \in Nat
  /\ NoHash \notin 1 .. MaxHash
  /\ OfflineThreshold \in Nat

VARIABLES
  staging,      \* operations staged but not yet taken
  pending_hash, \* hash of the committed-but-not-pushed batch
  commits,      \* the commit history
  head,         \* hash of the newest commit
  hashes,       \* how many hashes were generated; hashes do not collide
  call,         \* where each task stands in push, reject or sync
  failures,     \* consecutive_failures of the HealthTracker
  orders,       \* external: what the broker made of each operation
  saved,        \* the state last exported
  used,         \* history: the operations ever staged
  prepared,     \* history: the operations the pending hash was computed over
  sent,         \* history: how often each operation was dispatched
  lost          \* history: operations whose record is gone

git     == <<staging, pending_hash, commits, head, hashes>>
history == <<used, prepared, sent, lost>>
vars    == <<git, call, failures, orders, saved, history>>

Hashes == 1 .. MaxHash

At(at, for, hash, ops) ==
  [at |-> at, for |-> for, hash |-> hash, ops |-> ops, results |-> <<>>]

NoCall == At("idle", "push", NoHash, <<>>)

Fresh == [commits |-> <<>>, head |-> NoHash]

Init ==
  /\ staging = <<>> /\ pending_hash = NoHash
  /\ commits = Fresh.commits /\ head = Fresh.head /\ hashes = 0
  /\ call = [c \in Callers |-> NoCall]
  /\ failures = 0
  /\ orders = [op \in Operations |-> "none"]
  /\ saved = Fresh
  /\ used = {} /\ prepared = <<>> /\ lost = {}
  /\ sent = [op \in Operations |-> 0]

-----------------------------------------------------------------------------
(***************************************************************************)
(* HealthTracker: the count only matters up to the offline threshold.      *)
(***************************************************************************)
RecordSuccess == failures' = 0
RecordFailure == failures' = IF failures < OfflineThreshold THEN failures + 1 ELSE failures

-----------------------------------------------------------------------------
(***************************************************************************)
(* Staging and committing, each under the git mutex.                       *)
(***************************************************************************)
Add(op) ==
  /\ op \notin used
  /\ staging' = Append(staging, op)
  /\ used' = used \cup {op}
  /\ UNCHANGED <<pending_hash, commits, head, hashes, call, failures, orders,
                 saved, prepared, sent, lost>>

\* The operations stay in the staging area: what is added later joins them.
Commit ==
  /\ staging # <<>>
  /\ hashes < MaxHash
  /\ hashes' = hashes + 1
  /\ pending_hash' = hashes'
  /\ prepared' = staging
  /\ UNCHANGED <<staging, commits, head, call, failures, orders, saved, used,
                 sent, lost>>

\* Deviation: the batch is copied out and left in the staging area.
TakePendingCopies(c, for, at) ==
  /\ call[c].at = "idle"
  /\ pending_hash # NoHash
  /\ call' = [call EXCEPT ![c] = At(at, for, pending_hash, staging)]
  /\ pending_hash' = NoHash
  /\ prepared' = <<>>
  /\ UNCHANGED <<staging, commits, head, hashes, failures, orders, saved, used,
                 sent, lost>>

\* take_pending: without a pending commit the call is an error and no step.
TakePending(c, for, at) ==
  /\ call[c].at = "idle"
  /\ pending_hash # NoHash
  /\ call' = [call EXCEPT ![c] = At(at, for, pending_hash, staging)]
  /\ staging' = <<>>
  /\ pending_hash' = NoHash
  /\ prepared' = <<>>
  /\ UNCHANGED <<commits, head, hashes, failures, orders, saved, used, sent,
                 lost>>

-----------------------------------------------------------------------------
(***************************************************************************)
(* UnifiedTradingAccount::push.                                            *)
(***************************************************************************)
PushTake(c) == TakePending(c, "push", "dispatch")

NextOp(c) == call[c].ops[Len(call[c].results) + 1]

Dispatching(c, result) ==
  /\ call[c].at = "dispatch"
  /\ Len(call[c].results) < Len(call[c].ops)
  /\ call' = [call EXCEPT ![c].results = Append(@, result)]
  /\ sent' = [sent EXCEPT ![NextOp(c)] = @ + 1]
  /\ UNCHANGED <<git, saved, used, prepared, lost>>

\* Deviation: an accepted order is recorded as filled.
DispatchPlacedAsFilled(c) ==
  \E status \in {"Submitted", "Filled", "Rejected", "Cancelled"} :
    /\ Dispatching(c, [order |-> NextOp(c),
                       status |-> IF status = "Submitted" THEN "Filled" ELSE status])
    /\ NextOp(c) \in Placing
    /\ orders' = [orders EXCEPT ![NextOp(c)] = status]
    /\ RecordSuccess

\* BrokerDispatcher::dispatch: the broker placed the order and answered.
DispatchPlaced(c) ==
  \E status \in {"Submitted", "Filled", "Rejected", "Cancelled"} :
    /\ Dispatching(c, [order |-> NextOp(c), status |-> status])
    /\ NextOp(c) \in Placing
    /\ orders' = [orders EXCEPT ![NextOp(c)] = status]
    /\ RecordSuccess

\* The call failed; a placing one may have left an order at the broker.
DispatchFails(c) ==
  /\ Dispatching(c, [order |-> NoOrder, status |-> "Rejected"])
  /\ \/ orders' = orders
     \/ /\ NextOp(c) \in Placing
        /\ \E status \in {"Submitted", "Filled"} :
             orders' = [orders EXCEPT ![NextOp(c)] = status]
  /\ RecordFailure

Dispatch(c) == DispatchPlaced(c) \/ DispatchFails(c)

\* BrokerStateProvider::get_state, once every operation has its result.
Snapshotting(c) ==
  \/ call[c].at = "snapshot"
  \/ call[c].at = "dispatch" /\ Len(call[c].results) = Len(call[c].ops)

Snapshot(c) ==
  /\ Snapshotting(c)
  /\ call' = [call EXCEPT ![c].at = "record"]
  /\ RecordSuccess
  /\ UNCHANGED <<git, orders, saved, history>>

\* The error returns at once: the batch was taken and is recorded nowhere.
SnapshotFails(c) ==
  /\ Snapshotting(c)
  /\ call' = [call EXCEPT ![c] = NoCall]
  /\ lost' = lost \cup ToSet(call[c].ops)
  /\ RecordFailure
  /\ UNCHANGED <<git, orders, saved, used, prepared, sent>>

\* Deviation: the new commit does not become the head.
RecordKeepsHead(c, hash, ops, results) ==
  /\ call[c].at = "record"
  /\ commits' = Append(commits, [for |-> call[c].for, hash |-> hash, parent |-> head,
                                 ops |-> ops, results |-> results])
  /\ head' = IF head = NoHash THEN hash ELSE head
  /\ call' = [call EXCEPT ![c] = NoCall]
  /\ UNCHANGED <<staging, pending_hash, failures, orders, saved, used, prepared,
                 sent, lost>>

\* The commit's parent is the head at the time of recording.
Record(c, hash, ops, results) ==
  /\ call[c].at = "record"
  /\ commits' = Append(commits, [for |-> call[c].for, hash |-> hash, parent |-> head,
                                 ops |-> ops, results |-> results])
  /\ head' = hash
  /\ call' = [call EXCEPT ![c] = NoCall]
  /\ UNCHANGED <<staging, pending_hash, failures, orders, saved, used, prepared,
                 sent, lost>>

RecordPush(c) ==
  /\ call[c].for = "push"
  /\ Record(c, call[c].hash, call[c].ops, call[c].results)
  /\ UNCHANGED hashes

-----------------------------------------------------------------------------
(***************************************************************************)
(* UnifiedTradingAccount::reject.                                          *)
(***************************************************************************)
\* Deviation: a rejected batch goes the way of a pushed one.
RejectTakeDispatches(c) == TakePending(c, "reject", "dispatch")

RejectTake(c) == TakePending(c, "reject", "snapshot")

RecordReject(c) ==
  /\ call[c].for = "reject"
  /\ Record(c, call[c].hash, call[c].ops,
            [i \in DOMAIN call[c].ops |-> [order |-> NoOrder, status |-> "UserRejected"]])
  /\ UNCHANGED hashes

-----------------------------------------------------------------------------
(***************************************************************************)
(* log: each operation of a commit next to its result.                     *)
(***************************************************************************)
OperationSummaries(c) ==
  [k \in DOMAIN c.ops \cap DOMAIN c.results |->
     [operation |-> c.ops[k], status |-> c.results[k].status]]

Log == Reverse([i \in DOMAIN commits |-> OperationSummaries(commits[i])])

-----------------------------------------------------------------------------
(***************************************************************************)
(* UnifiedTradingAccount::sync.                                            *)
(***************************************************************************)
Results == FlattenSeq([i \in DOMAIN commits |-> commits[i].results])

\* TradingGit::pending_order_ids: the most recent result of an order counts.
PendingOrderIds ==
  {o \in Operations : \E i \in DOMAIN Results :
     /\ Results[i] = [order |-> o, status |-> "Submitted"]
     /\ \A j \in i + 1 .. Len(Results) : Results[j].order # o}

SyncRead(c) ==
  /\ call[c].at = "idle"
  /\ call' = [call EXCEPT ![c] =
                At(IF PendingOrderIds = {} THEN "snapshot" ELSE "query", "sync", NoHash, <<>>)]
  /\ UNCHANGED <<git, failures, orders, saved, history>>

\* get_orders answers; which of the orders changed is counted and then dropped.
QueryOrders(c) ==
  /\ call[c].at = "query"
  /\ call' = [call EXCEPT ![c].at = "snapshot"]
  /\ RecordSuccess
  /\ UNCHANGED <<git, orders, saved, history>>

QueryFails(c) ==
  /\ call[c].at = "query"
  /\ call' = [call EXCEPT ![c] = NoCall]
  /\ RecordFailure
  /\ UNCHANGED <<git, orders, saved, history>>

\* record_sync keeps the number of updates and the status of none of them.
RecordSync(c) ==
  /\ call[c].for = "sync"
  /\ hashes < MaxHash
  /\ hashes' = hashes + 1
  /\ Record(c, hashes', <<SyncOrders>>, <<[order |-> NoOrder, status |-> "Submitted"]>>)

-----------------------------------------------------------------------------
(***************************************************************************)
(* The broker settles an order; export_git_state; a restart of the process *)
(* with the state last exported (with_saved_state), if there is any.       *)
(***************************************************************************)
SettleOrder(o) ==
  /\ orders[o] = "Submitted"
  /\ \E status \in {"Filled", "Rejected", "Cancelled"} :
       orders' = [orders EXCEPT ![o] = status]
  /\ UNCHANGED <<git, call, failures, saved, history>>

ExportState ==
  /\ saved' = [commits |-> commits, head |-> head]
  /\ saved' # saved
  /\ UNCHANGED <<git, call, failures, orders, history>>

OpsOf(log) == UNION {ToSet(log[i].ops) : i \in DOMAIN log}

Restart ==
  /\ staging' = <<>> /\ pending_hash' = NoHash
  /\ commits' = saved.commits /\ head' = saved.head
  /\ call' = [c \in Callers |-> NoCall]
  /\ failures' = 0
  /\ lost' = used \ OpsOf(saved.commits)
  /\ prepared' = <<>>
  /\ UNCHANGED <<hashes, orders, saved, used, sent>>

-----------------------------------------------------------------------------
Push(c)   == PushTake(c) \/ Dispatch(c) \/ RecordPush(c)
Reject(c) == RejectTake(c) \/ RecordReject(c)
Sync(c)   == SyncRead(c) \/ QueryOrders(c) \/ QueryFails(c) \/ RecordSync(c)

Next ==
  \/ \E op \in Operations : Add(op)
  \/ Commit
  \/ \E c \in Callers : Push(c) \/ Reject(c) \/ Sync(c) \/ Snapshot(c) \/ SnapshotFails(c)
  \/ \E o \in Placing : SettleOrder(o)
  \/ ExportState
  \/ Restart

Spec == Init /\ [][Next]_vars

-----------------------------------------------------------------------------
(***************************************************************************)
(* Properties.                                                             *)
(***************************************************************************)
OrderResults == [order  : Operations \cup {NoOrder},
                 status : {"Submitted", "Filled", "Rejected", "Cancelled", "UserRejected"}]

CommitRecords == [for     : {"push", "reject", "sync"},
                  hash    : Hashes,
                  parent  : Hashes \cup {NoHash},
                  ops     : Seq(Operations \cup {SyncOrders}),
                  results : Seq(OrderResults)]

Calls == [at      : {"idle", "dispatch", "query", "snapshot", "record"},
          for     : {"push", "reject", "sync"},
          hash    : Hashes \cup {NoHash},
          ops     : Seq(Operations),
          results : Seq(OrderResults)]

\* Types: a commit is only recorded under a hash that commit() generated.
TypeOK ==
  /\ staging \in Seq(Operations)
  /\ pending_hash \in Hashes \cup {NoHash}
  /\ commits \in Seq(CommitRecords)
  /\ head \in Hashes \cup {NoHash}
  /\ hashes \in 0 .. MaxHash
  /\ call \in [Callers -> Calls]
  /\ failures \in 0 .. OfflineThreshold
  /\ orders \in [Operations -> {"none", "Submitted", "Filled", "Rejected", "Cancelled"}]
  /\ saved \in [commits : Seq(CommitRecords), head : Hashes \cup {NoHash}]
  /\ used \subseteq Operations
  /\ prepared \in Seq(Operations)
  /\ sent \in [Operations -> Nat]
  /\ lost \subseteq Operations

\* The history is one chain, whatever calls record at the same time: a commit's
\* parent is the commit before it and the head is the last one.  The same holds
\* of what was exported.
Chained(log, top) ==
  /\ \A i \in DOMAIN log :
       log[i].parent = IF i = 1 THEN NoHash ELSE log[i - 1].hash
  /\ top = IF log = <<>> THEN NoHash ELSE log[Len(log)].hash

HistoryChained == Chained(commits, head) /\ Chained(saved.commits, saved.head)

\* A hash names one batch: of the commits, the batches in the hands of a call
\* and the pending one, no two have the same hash.
HashesUnique ==
  /\ \A i, j \in DOMAIN commits : commits[i].hash = commits[j].hash => i = j
  /\ \A c \in Callers : call[c].hash # NoHash =>
       /\ call[c].hash # pending_hash
       /\ \A i \in DOMAIN commits : commits[i].hash # call[c].hash
       /\ \A d \in Callers \ {c} : call[d].hash # call[c].hash
  /\ \A i \in DOMAIN commits : commits[i].hash # pending_hash

\* No operation reaches the broker twice, though pushes and rejections of
\* several tasks race for the pending batch and the process restarts.
DispatchedAtMostOnce == \A op \in Operations : sent[op] <= 1

\* An operation of a rejected batch never reaches the broker, neither before
\* nor after its rejection is recorded.
RejectedNeverSent ==
  /\ \A i \in DOMAIN commits : commits[i].for = "reject" =>
       \A op \in ToSet(commits[i].ops) : sent[op] = 0
  /\ \A c \in Callers : call[c].for = "reject" =>
       \A op \in ToSet(call[c].ops) : sent[op] = 0

\* An operation that was staged is in one place: still staged, in the batch of
\* one call, in one commit, or lost with a batch that could not be recorded.
Homes(op) ==
  {<<"staging", i>> : i \in {j \in DOMAIN staging : staging[j] = op}}
  \cup {<<c, "call">> : c \in {d \in Callers : op \in ToSet(call[d].ops)}}
  \cup {<<"commit", i>> : i \in {j \in DOMAIN commits : op \in ToSet(commits[j].ops)}}
  \cup (IF op \in lost THEN {<<"lost", 0>>} ELSE {})

OneHome == \A op \in used : Cardinality(Homes(op)) = 1

\* What was committed is in the batch that a push will take: no operation of
\* the pending hash leaves the staging area before.
PreparedKept == pending_hash # NoHash => IsPrefix(prepared, staging)

\* The history of a push tells what the broker did: a result with an order id
\* is of an order the broker has, and a settled status is the broker's own.  The log
\* shows every operation of every commit, newest commit first.
HistoryTruthful ==
  \A i \in DOMAIN commits :
    LET c == commits[i]
    IN /\ DOMAIN Log[Len(commits) + 1 - i] = DOMAIN c.ops
       /\ c.for = "push" =>
            \A k \in DOMAIN c.results :
              LET r == c.results[k]
              IN /\ r.order # NoOrder => r.order = c.ops[k]
                 /\ r.order # NoOrder /\ r.status # "Submitted" => orders[r.order] = r.status

\* An order that a commit of the history shows as placed and that is still open
\* at the broker is among the pending orders, which sync asks about.
OpenOrdersPending ==
  \A i \in DOMAIN commits : \A k \in DOMAIN commits[i].results :
    LET o == commits[i].results[k].order
    IN o # NoOrder /\ orders[o] = "Submitted" => o \in PendingOrderIds

\* What makes the chain, the hashes and the single dispatch inductive.  Where
\* a task stands tells what it holds: only a push dispatches, a task without a
\* batch has no operations, and a batch has the hash it was committed under.
CallInOrder(r) ==
  /\ r.at = "dispatch" => r.for = "push"
  /\ r.at \in {"idle", "query"} \/ r.for = "sync" => r.hash = NoHash /\ r.ops = <<>>
  /\ r.at # "idle" /\ r.for # "sync" => r.hash # NoHash
  /\ r.for = "reject" => r.results = <<>>

CallsInOrder == \A c \in Callers : CallInOrder(call[c])

\* An operation is staged once, taken by one task, and not dispatched before
\* its turn in the batch.
TakenOnce ==
  /\ \A i \in DOMAIN staging :
       /\ staging[i] \in used /\ sent[staging[i]] = 0
       /\ \A j \in DOMAIN staging : staging[i] = staging[j] => i = j
  /\ \A c \in Callers : \A i \in DOMAIN call[c].ops :
       /\ call[c].ops[i] \in used
       /\ i > Len(call[c].results) => sent[call[c].ops[i]] = 0
       /\ \A j \in DOMAIN staging : call[c].ops[i] # staging[j]
       /\ \A d \in Callers : \A j \in DOMAIN call[d].ops :
            call[c].ops[i] = call[d].ops[j] => c = d /\ i = j
  /\ \A op \in Operations \ used : sent[op] = 0

\* The histories: of this process, and of the next one after a restart.
Logs == {commits, saved.commits}

\* What a history shows as rejected is nowhere else and was never sent.
RejectedForGood ==
  \A log \in Logs : \A i \in DOMAIN log : log[i].for = "reject" =>
    \A k \in DOMAIN log[i].ops :
      /\ log[i].ops[k] \in used /\ sent[log[i].ops[k]] = 0
      /\ \A j \in DOMAIN staging : log[i].ops[k] # staging[j]
      /\ \A c \in Callers : \A j \in DOMAIN call[c].ops : log[i].ops[k] # call[c].ops[j]

\* Every hash in use was generated, and no two commits of a history share one.
HashesGenerated ==
  /\ \A log \in Logs :
       /\ \A i \in DOMAIN log : log[i].hash \in 1 .. hashes
       /\ \A i, j \in DOMAIN log : log[i].hash = log[j].hash => i = j
  /\ pending_hash # NoHash => pending_hash \in 1 .. hashes
  /\ \A c \in Callers : call[c].hash # NoHash => call[c].hash \in 1 .. hashes

AccountIInv ==
  /\ TypeOK
  /\ HistoryChained
  /\ CallsInOrder
  /\ TakenOnce
  /\ DispatchedAtMostOnce
  /\ RejectedForGood
  /\ HashesGenerated
  /\ HashesUnique

-----------------------------------------------------------------------------
(***************************************************************************)
(* What comments of trading_git.rs say and the code does not do.           *)
(***************************************************************************)
\* trading_git.rs:8: push records the results of what it dispatched.
PushedIsRecorded ==
  \A op \in Operations : sent[op] > 0 =>
    \/ \E i \in DOMAIN commits : op \in ToSet(commits[i].ops)
    \/ \E c \in Callers : op \in ToSet(call[c].ops)

-----------------------------------------------------------------------------
(***************************************************************************)
(* The account implements the life of an operation.                        *)
(***************************************************************************)
Life(op) ==
  CASE op \notin used -> "new"
    [] op \in ToSet(staging) -> "staged"
    [] \E c \in Callers : call[c].for = "push" /\ op \in ToSet(call[c].ops) -> "executing"
    [] \E c \in Callers : call[c].for = "reject" /\ op \in ToSet(call[c].ops) -> "rejecting"
    [] \E i \in DOMAIN commits : commits[i].for = "push" /\ op \in ToSet(commits[i].ops) -> "executed"
    [] \E i \in DOMAIN commits : commits[i].for = "reject" /\ op \in ToSet(commits[i].ops) -> "rejected"
    [] OTHER -> "lost"

Lifecycle == INSTANCE OperationLife WITH
  life <- [op \in Operations |-> Life(op)],
  sent <- {op \in Operations : sent[op] > 0}

LifecycleSpec == Lifecycle!Spec
=============================================================================
