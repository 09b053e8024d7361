------------------------ MODULE TradingAccount_proofs ------------------------
(***************************************************************************)
(* Safety of the trading account for every number of tasks, operations and *)
(* commits: its history is one chain, a hash names one batch, no operation *)
(* is dispatched twice, and none of a rejected batch ever.  The invariants *)
(* are proved together as the inductive invariant AccountIInv.             *)
(***************************************************************************)
EXTENDS TradingAccount, SequenceTheorems, TLAPS

-----------------------------------------------------------------------------
(***************************************************************************)
(* Types.                                                                  *)
(***************************************************************************)
\* What a call begins with is well typed, and so is a task without a call.
LEMMA AtTyped ==
  ASSUME NEW at \in {"idle", "dispatch", "query", "snapshot", "record"},
         NEW for \in {"push", "reject", "sync"}, NEW h \in Hashes \cup {NoHash},
         NEW ops \in Seq(Operations)
  PROVE  At(at, for, h, ops) \in Calls
BY DEF At, Calls

LEMMA NoCallTyped == NoCall \in Calls
BY DEF NoCall, At, Calls

\* The next operation of a batch is an operation.
LEMMA NextOpTyped ==
  ASSUME TypeOK, NEW c \in Callers, Len(call[c].results) < Len(call[c].ops)
  PROVE  /\ NextOp(c) \in Operations
         /\ Len(call[c].results) + 1 \in DOMAIN call[c].ops
<1>1. call[c].ops \in Seq(Operations) /\ call[c].results \in Seq(OrderResults)
  BY DEF TypeOK, Calls
<1>2. Len(call[c].results) + 1 \in 1 .. Len(call[c].ops)
  BY <1>1
<1>3. QED
  BY <1>1, <1>2 DEF NextOp

\* take_pending keeps the types, for a push and for a rejection.
LEMMA TakePendingTyped ==
  ASSUME TypeOK, NEW c \in Callers, NEW for \in {"push", "reject"},
         NEW at \in {"dispatch", "snapshot"}, TakePending(c, for, at)
  PROVE  TypeOK'
<1>1. call' \in [Callers -> Calls]
  BY AtTyped DEF TakePending, TypeOK
<1>2. QED
  BY <1>1, AccountAssumption DEF TakePending, TypeOK

\* A dispatched operation gets a result of its own.
LEMMA DispatchTyped ==
  ASSUME TypeOK, NEW c \in Callers, Dispatch(c)
  PROVE  TypeOK'
<1>1. NextOp(c) \in Operations
  BY NextOpTyped DEF Dispatch, DispatchPlaced, DispatchFails, Dispatching
<1>2. PICK r \in OrderResults : Dispatching(c, r)
  BY <1>1 DEF Dispatch, DispatchPlaced, DispatchFails, OrderResults
<1>3. /\ call' \in [Callers -> Calls]
      /\ sent' \in [Operations -> Nat]
      /\ UNCHANGED <<git, saved, used, prepared, lost>>
  <2>1. call[c] \in Calls /\ Append(call[c].results, r) \in Seq(OrderResults)
    BY DEF TypeOK, Calls
  <2>2. [call[c] EXCEPT !.results = Append(@, r)] \in Calls
    BY <2>1 DEF Calls
  <2>3. QED
    BY <1>1, <1>2, <2>2 DEF Dispatching, TypeOK
<1>4. orders' \in [Operations -> {"none", "Submitted", "Filled", "Rejected", "Cancelled"}]
  <2>1. \/ orders' = orders
        \/ \E status \in {"Submitted", "Filled", "Rejected", "Cancelled"} :
             orders' = [orders EXCEPT ![NextOp(c)] = status]
    BY DEF Dispatch, DispatchPlaced, DispatchFails
  <2>2. QED
    BY <1>1, <2>1 DEF TypeOK
<1>5. failures' \in 0 .. OfflineThreshold
  BY AccountAssumption
  DEF Dispatch, DispatchPlaced, DispatchFails, TypeOK, RecordSuccess, RecordFailure
<1>6. QED
  BY <1>3, <1>4, <1>5 DEF TypeOK, git

\* A commit is recorded under a generated hash.
LEMMA RecordTyped ==
  ASSUME TypeOK, NEW c \in Callers, NEW hash \in Hashes,
         NEW ops \in Seq(Operations \cup {SyncOrders}), NEW results \in Seq(OrderResults),
         Record(c, hash, ops, results)
  PROVE  /\ commits' \in Seq(CommitRecords) /\ head' \in Hashes
         /\ call' \in [Callers -> Calls]
<1>1. call[c].for \in {"push", "reject", "sync"}
  BY DEF TypeOK, Calls
<1>2. [for |-> call[c].for, hash |-> hash, parent |-> head, ops |-> ops,
       results |-> results] \in CommitRecords
  BY <1>1 DEF TypeOK, CommitRecords
<1>3. /\ commits' = Append(commits, [for |-> call[c].for, hash |-> hash, parent |-> head,
                                      ops |-> ops, results |-> results])
      /\ head' = hash /\ call' = [call EXCEPT ![c] = NoCall]
  BY DEF Record
<1>4. commits' \in Seq(CommitRecords)
  BY <1>2, <1>3 DEF TypeOK
<1>5. call' \in [Callers -> Calls]
  BY <1>3, NoCallTyped DEF TypeOK
<1>6. QED
  BY <1>3, <1>4, <1>5

\* Staging, committing, exporting, restarting and the orders' own life.
LEMMA RestTyped ==
  ASSUME TypeOK,
         \/ \E op \in Operations : Add(op)
         \/ Commit
         \/ ExportState
         \/ Restart
         \/ \E o \in Placing : SettleOrder(o)
  PROVE  TypeOK'
<1>1. ASSUME NEW op \in Operations, Add(op) PROVE TypeOK'
  BY <1>1 DEF Add, TypeOK
<1>2. CASE Commit
  BY <1>2, AccountAssumption DEF Commit, TypeOK, Hashes
<1>3. CASE ExportState
  BY <1>3 DEF ExportState, TypeOK, git, history
<1>4. CASE Restart
  <2>1. call' \in [Callers -> Calls]
    BY <1>4, NoCallTyped DEF Restart
  <2>2. QED
    BY <1>4, <2>1, AccountAssumption DEF Restart, TypeOK
<1>5. ASSUME NEW o \in Placing, SettleOrder(o) PROVE TypeOK'
  BY <1>5, AccountAssumption DEF SettleOrder, TypeOK, git, history
<1>6. QED
  BY <1>1, <1>2, <1>3, <1>4, <1>5

\* The steps of a task that ask the broker and write nothing but their call.
LEMMA QueryTyped ==
  ASSUME TypeOK, NEW c \in Callers,
         Snapshot(c) \/ SnapshotFails(c) \/ SyncRead(c) \/ QueryOrders(c) \/ QueryFails(c)
  PROVE  TypeOK'
<1>1. call[c] \in Calls
  BY DEF TypeOK
<1>2. PendingOrderIds \subseteq Operations
  BY DEF PendingOrderIds
<1>3. \E r \in Calls : call' = [call EXCEPT ![c] = r]
  <2>1. CASE Snapshot(c)
    <3>1. [call[c] EXCEPT !.at = "record"] \in Calls
      BY <1>1 DEF Calls
    <3>2. QED
      BY <2>1, <3>1 DEF Snapshot, TypeOK
  <2>2. CASE SnapshotFails(c) \/ QueryFails(c)
    BY <2>2, NoCallTyped DEF SnapshotFails, QueryFails
  <2>3. CASE SyncRead(c)
    <3>1. At(IF PendingOrderIds = {} THEN "snapshot" ELSE "query", "sync", NoHash, <<>>)
            \in Calls
      BY <1>2 DEF At, Calls
    <3>2. QED
      BY <2>3, <3>1 DEF SyncRead
  <2>4. CASE QueryOrders(c)
    <3>1. [call[c] EXCEPT !.at = "snapshot"] \in Calls
      BY <1>1 DEF Calls
    <3>2. QED
      BY <2>4, <3>1 DEF QueryOrders, TypeOK
  <2>5. QED
    BY <2>1, <2>2, <2>3, <2>4
<1>4. call' \in [Callers -> Calls]
  BY <1>3 DEF TypeOK
<1>5. /\ failures' \in 0 .. OfflineThreshold
      /\ lost' \subseteq Operations
      /\ UNCHANGED <<git, orders, saved, used, prepared, sent>>
  <2>1. ToSet(call[c].ops) \subseteq Operations
    BY <1>1 DEF Calls, ToSet
  <2>2. QED
    BY <2>1, AccountAssumption
    DEF Snapshot, SnapshotFails, SyncRead, QueryOrders, QueryFails, RecordSuccess,
        RecordFailure, TypeOK, history, git
<1>6. QED
  BY <1>4, <1>5 DEF TypeOK, git

-----------------------------------------------------------------------------
(***************************************************************************)
(* The steps, by what they do to the batches.                              *)
(***************************************************************************)
Quiet(c) == Snapshot(c) \/ SnapshotFails(c) \/ SyncRead(c) \/ QueryOrders(c) \/ QueryFails(c)

Recording(c) == RecordPush(c) \/ RecordReject(c) \/ RecordSync(c)

\* What a step of a task that asks the broker leaves in its call.
LEMMA QuietCall ==
  ASSUME TypeOK, CallsInOrder, NEW c \in Callers, Quiet(c)
  PROVE  /\ \A d \in Callers \ {c} : call'[d] = call[d]
         /\ CallInOrder(call'[c])
         /\ call'[c].hash = NoHash \/ call'[c].hash = call[c].hash
         /\ \/ call'[c].ops = <<>>
            \/ call'[c].ops = call[c].ops /\ call'[c].results = call[c].results
         /\ UNCHANGED <<git, saved, used, sent>>
<1> USE DEF CallInOrder
<1>1. call \in [Callers -> Calls] /\ call[c] \in Calls /\ CallInOrder(call[c])
  BY DEF TypeOK, CallsInOrder
<1>2. CASE Snapshot(c)
  <2>1. call' = [call EXCEPT ![c].at = "record"] /\ call[c].at \in {"snapshot", "dispatch"}
    BY <1>2 DEF Snapshot, Snapshotting
  <2>2. QED
    BY <1>1, <1>2, <2>1 DEF Snapshot, Calls, history
<1>3. CASE SnapshotFails(c) \/ QueryFails(c)
  <2>1. call' = [call EXCEPT ![c] = NoCall]
    BY <1>3 DEF SnapshotFails, QueryFails
  <2>2. QED
    BY <1>1, <1>3, <2>1 DEF SnapshotFails, QueryFails, NoCall, At, history
<1>4. CASE SyncRead(c)
  BY <1>1, <1>4 DEF SyncRead, At, history
<1>5. CASE QueryOrders(c)
  <2>1. /\ call' = [call EXCEPT ![c].at = "snapshot"]
        /\ call[c].at = "query"
    BY <1>5 DEF QueryOrders
  <2>2. QED
    BY <1>1, <1>5, <2>1 DEF QueryOrders, Calls, history
<1>6. QED
  BY <1>2, <1>3, <1>4, <1>5 DEF Quiet

\* Of a call, a commit keeps the batch and, of a push, its results.
RecordedOf(cl, r) ==
  /\ cl.for # "sync" => r.ops = cl.ops
  /\ cl.for = "push" => r.results = cl.results
  /\ cl.for = "sync" => r.ops = <<SyncOrders>>
  /\ cl.for # "push" => DOMAIN r.results = DOMAIN r.ops

\* What a recording step appends, and what it leaves.
LEMMA RecordingStep ==
  ASSUME TypeOK, CallsInOrder, NEW c \in Callers, Recording(c)
  PROVE  /\ \E r \in CommitRecords :
              /\ commits' = Append(commits, r) /\ head' = r.hash /\ r.parent = head
              /\ r.for = call[c].for /\ RecordedOf(call[c], r)
              /\ \/ r.hash = call[c].hash /\ hashes' = hashes
                 \/ r.hash = hashes' /\ hashes' = hashes + 1
         /\ call' = [call EXCEPT ![c] = NoCall]
         /\ hashes' \in 0 .. MaxHash
         /\ UNCHANGED <<staging, pending_hash, failures, orders, saved, used, prepared,
                        sent, lost>>
<1>1. call[c] \in Calls /\ CallInOrder(call[c])
  BY DEF TypeOK, CallsInOrder
<1>2. head \in Hashes \cup {NoHash} /\ hashes \in Nat
  BY AccountAssumption DEF TypeOK
<1>3. CASE RecordPush(c)
  <2> DEFINE r == [for |-> call[c].for, hash |-> call[c].hash, parent |-> head,
                   ops |-> call[c].ops, results |-> call[c].results]
  <2>1. r \in CommitRecords
    BY <1>1, <1>2, <1>3 DEF RecordPush, Record, CallInOrder, Calls, CommitRecords
  <2>2. QED
    BY <1>3, <2>1 DEF RecordPush, Record, RecordedOf, TypeOK
<1>4. CASE RecordReject(c)
  <2> DEFINE results == [i \in DOMAIN call[c].ops |->
                           [order |-> NoOrder, status |-> "UserRejected"]]
             r == [for |-> call[c].for, hash |-> call[c].hash, parent |-> head,
                   ops |-> call[c].ops, results |-> results]
  <2>1. results \in Seq(OrderResults)
    <3>1. Len(call[c].ops) \in Nat /\ DOMAIN call[c].ops = 1 .. Len(call[c].ops)
      BY <1>1 DEF Calls
    <3>2. results \in [1 .. Len(call[c].ops) -> OrderResults]
      BY <3>1 DEF OrderResults
    <3>3. QED
      BY <3>1, <3>2, SeqDef
  <2>2. r \in CommitRecords
    BY <1>1, <1>2, <1>4, <2>1 DEF RecordReject, Record, CallInOrder, Calls, CommitRecords
  <2>3. QED
    BY <1>4, <2>2 DEF RecordReject, Record, RecordedOf, TypeOK
<1>5. CASE RecordSync(c)
  <2> DEFINE results == <<[order |-> NoOrder, status |-> "Submitted"]>>
             r == [for |-> call[c].for, hash |-> hashes', parent |-> head,
                   ops |-> <<SyncOrders>>, results |-> results]
  <2>1. hashes' = hashes + 1 /\ hashes < MaxHash /\ call[c].for = "sync"
    BY <1>5 DEF RecordSync
  <2>2. hashes' \in Hashes
    BY <1>2, <2>1, AccountAssumption DEF Hashes
  <2>3. results \in Seq(OrderResults) /\ <<SyncOrders>> \in Seq(Operations \cup {SyncOrders})
    BY DEF OrderResults
  <2>4. r \in CommitRecords
    BY <1>2, <2>1, <2>2, <2>3 DEF CommitRecords
  <2>5. commits' = Append(commits, r) /\ head' = r.hash /\ r.parent = head
    BY <1>5 DEF RecordSync, Record
  <2>6. QED
    BY <1>5, <2>1, <2>2, <2>4, <2>5 DEF RecordSync, Record, RecordedOf, Hashes
<1>6. QED
  BY <1>3, <1>4, <1>5 DEF Recording

\* A step is one of these.
LEMMA StepKinds ==
  ASSUME [Next]_vars
  PROVE  \/ \E op \in Operations : Add(op)
         \/ Commit
         \/ \E c \in Callers : TakePending(c, "push", "dispatch")
         \/ \E c \in Callers : TakePending(c, "reject", "snapshot")
         \/ \E c \in Callers : Dispatch(c)
         \/ \E c \in Callers : Recording(c)
         \/ \E c \in Callers : Quiet(c)
         \/ \E o \in Placing : SettleOrder(o)
         \/ ExportState
         \/ Restart
         \/ UNCHANGED vars
BY DEF Next, Push, PushTake, Reject, RejectTake, Sync, Recording, Quiet

LEMMA TypeStep ==
  ASSUME TypeOK, CallsInOrder, [Next]_vars
  PROVE  TypeOK'
<1>1. ASSUME NEW c \in Callers, Recording(c) PROVE TypeOK'
  <2>1. PICK r \in CommitRecords : commits' = Append(commits, r) /\ head' = r.hash
    BY <1>1, RecordingStep
  <2>2. commits' \in Seq(CommitRecords) /\ head' \in Hashes
    BY <2>1 DEF TypeOK, CommitRecords
  <2>3. call' \in [Callers -> Calls]
    BY <1>1, RecordingStep, NoCallTyped DEF TypeOK
  <2>4. QED
    BY <1>1, <2>2, <2>3, RecordingStep DEF TypeOK
<1>2. CASE UNCHANGED vars
  BY <1>2 DEF vars, git, history, TypeOK
<1>3. QED
  BY <1>1, <1>2, StepKinds, TakePendingTyped, DispatchTyped, QueryTyped, RestTyped DEF Quiet

-----------------------------------------------------------------------------
(***************************************************************************)
(* What a call holds.                                                      *)
(***************************************************************************)
\* A result is added to the call that dispatches, and to no other.
LEMMA DispatchStep ==
  ASSUME TypeOK, NEW c \in Callers, Dispatch(c)
  PROVE  /\ call[c].at = "dispatch" /\ Len(call[c].results) < Len(call[c].ops)
         /\ \A d \in Callers \ {c} : call'[d] = call[d]
         /\ \E r \in OrderResults : call'[c].results = Append(call[c].results, r)
         /\ call'[c].at = call[c].at /\ call'[c].for = call[c].for
         /\ call'[c].hash = call[c].hash /\ call'[c].ops = call[c].ops
         /\ sent' = [sent EXCEPT ![NextOp(c)] = @ + 1]
         /\ UNCHANGED <<git, saved, used>>
<1>1. NextOp(c) \in Operations
  BY NextOpTyped DEF Dispatch, DispatchPlaced, DispatchFails, Dispatching
<1>2. PICK r \in OrderResults : Dispatching(c, r)
  BY <1>1 DEF Dispatch, DispatchPlaced, DispatchFails, OrderResults
<1>3. call \in [Callers -> Calls] /\ call[c] \in Calls
  BY DEF TypeOK
<1>4. QED
  BY <1>2, <1>3 DEF Dispatching, Calls

LEMMA NoCallInOrder == CallInOrder(NoCall)
BY DEF NoCall, At, CallInOrder

LEMMA CallsInOrderStep ==
  ASSUME TypeOK, CallsInOrder, [Next]_vars
  PROVE  CallsInOrder'
<1>1. call \in [Callers -> Calls]
  BY DEF TypeOK
<1>2. SUFFICES ASSUME NEW d \in Callers PROVE CallInOrder(call'[d])
  BY DEF CallsInOrder
<1>3. CallInOrder(call[d])
  BY DEF CallsInOrder
<1>4. ASSUME NEW c \in Callers, TakePending(c, "push", "dispatch")
      PROVE  CallInOrder(call'[d])
  BY <1>1, <1>3, <1>4 DEF TakePending, At, CallInOrder
<1>5. ASSUME NEW c \in Callers, TakePending(c, "reject", "snapshot")
      PROVE  CallInOrder(call'[d])
  BY <1>1, <1>3, <1>5 DEF TakePending, At, CallInOrder
<1>6. ASSUME NEW c \in Callers, Dispatch(c) PROVE CallInOrder(call'[d])
  <2>1. CASE d = c
    BY <1>3, <1>6, <2>1, DispatchStep DEF CallInOrder
  <2>2. CASE d # c
    BY <1>3, <1>6, <2>2, DispatchStep
  <2>3. QED
    BY <2>1, <2>2
<1>7. ASSUME NEW c \in Callers, Recording(c) PROVE CallInOrder(call'[d])
  BY <1>1, <1>3, <1>7, RecordingStep, NoCallInOrder
<1>8. ASSUME NEW c \in Callers, Quiet(c) PROVE CallInOrder(call'[d])
  BY <1>3, <1>8, QuietCall
<1>9. CASE Restart
  BY <1>9, NoCallInOrder DEF Restart
<1>10. CASE \/ \E op \in Operations : Add(op)
            \/ Commit
            \/ \E o \in Placing : SettleOrder(o)
            \/ ExportState
            \/ UNCHANGED vars
  BY <1>3, <1>10 DEF Add, Commit, SettleOrder, ExportState, vars
<1>11. QED
  BY <1>4, <1>5, <1>6, <1>7, <1>8, <1>9, <1>10, StepKinds

-----------------------------------------------------------------------------
(***************************************************************************)
(* An operation is taken by one task and sent by that task only.           *)
(***************************************************************************)
\* Nothing is staged, taken or sent: a call keeps its batch or drops it, and
\* the staging area is kept or dropped.
NothingTaken ==
  /\ UNCHANGED <<used, sent>>
  /\ staging' = staging \/ staging' = <<>>
  /\ \A d \in Callers :
       \/ call'[d].ops = <<>>
       \/ call'[d].ops = call[d].ops /\ call'[d].results = call[d].results

\* Of most steps that is true.
LEMMA MostTakeNothing ==
  ASSUME TypeOK, CallsInOrder, [Next]_vars
  PROVE  \/ \E op \in Operations : Add(op)
         \/ \E c \in Callers : TakePending(c, "push", "dispatch")
         \/ \E c \in Callers : TakePending(c, "reject", "snapshot")
         \/ \E c \in Callers : Dispatch(c)
         \/ NothingTaken
<1> USE DEF NothingTaken
<1>1. call \in [Callers -> Calls] /\ NoCall.ops = <<>>
  BY DEF TypeOK, NoCall, At
<1>2. ASSUME NEW c \in Callers, Recording(c) PROVE NothingTaken
  BY <1>1, <1>2, RecordingStep
<1>3. ASSUME NEW c \in Callers, Quiet(c) PROVE NothingTaken
  BY <1>3, QuietCall DEF git
<1>4. CASE Restart
  BY <1>1, <1>4 DEF Restart
<1>5. CASE Commit \/ ExportState \/ UNCHANGED vars \/ \E o \in Placing : SettleOrder(o)
  BY <1>5 DEF Commit, SettleOrder, ExportState, vars, git, history
<1>6. QED
  BY <1>2, <1>3, <1>4, <1>5, StepKinds

LEMMA TakenOnceKept ==
  ASSUME TypeOK, TakenOnce, NothingTaken
  PROVE  TakenOnce'
<1>1. \A i \in DOMAIN staging' : i \in DOMAIN staging /\ staging'[i] = staging[i]
  BY DEF NothingTaken
<1>2. \A d \in Callers : \A i \in DOMAIN call'[d].ops :
        i \in DOMAIN call[d].ops /\ call'[d].ops[i] = call[d].ops[i]
        /\ call'[d].results = call[d].results
  BY DEF NothingTaken
<1>3. QED
  BY <1>1, <1>2 DEF TakenOnce, NothingTaken

LEMMA TakenOnceStep ==
  ASSUME TypeOK, CallsInOrder, TakenOnce, [Next]_vars
  PROVE  TakenOnce'
<1>1. /\ call \in [Callers -> Calls] /\ staging \in Seq(Operations)
      /\ sent \in [Operations -> Nat]
      /\ \A d \in Callers : call[d].ops \in Seq(Operations)
                            /\ call[d].results \in Seq(OrderResults)
  BY DEF TypeOK, Calls
<1>2. ASSUME NEW op \in Operations, Add(op) PROVE TakenOnce'
  <2>1. /\ DOMAIN staging' = 1 .. Len(staging) + 1 /\ DOMAIN staging = 1 .. Len(staging)
        /\ \A i \in DOMAIN staging : staging'[i] = staging[i]
        /\ staging'[Len(staging) + 1] = op
    BY <1>1, <1>2 DEF Add
  <2>2. \A i \in DOMAIN staging' : staging'[i] = op \/ i \in DOMAIN staging
    BY <1>1, <2>1
  <2>3. op \notin used /\ used' = used \cup {op} /\ call' = call /\ sent' = sent
    BY <1>2 DEF Add
  <2>4. sent[op] = 0
    BY <2>3 DEF TakenOnce
  <2>5. \A i \in DOMAIN staging : staging[i] # op
    BY <2>3 DEF TakenOnce
  <2>6. \A d \in Callers : \A i \in DOMAIN call[d].ops : call[d].ops[i] # op
    BY <2>3 DEF TakenOnce
  <2>7. \A i \in DOMAIN staging' :
          /\ staging'[i] \in used' /\ sent[staging'[i]] = 0
          /\ \A j \in DOMAIN staging' : staging'[i] = staging'[j] => i = j
    BY <1>1, <2>1, <2>2, <2>3, <2>4, <2>5 DEF TakenOnce
  <2>8. \A d \in Callers : \A i \in DOMAIN call[d].ops :
          \A j \in DOMAIN staging' : call[d].ops[i] # staging'[j]
    BY <2>1, <2>2, <2>6 DEF TakenOnce
  <2>9. QED
    BY <2>3, <2>7, <2>8 DEF TakenOnce
<1>3. ASSUME NEW c \in Callers, NEW for, NEW at, TakePending(c, for, at)
      PROVE  TakenOnce'
  <2>1. /\ call'[c].ops = staging /\ call'[c].results = <<>>
        /\ \A d \in Callers \ {c} : call'[d] = call[d]
        /\ staging' = <<>> /\ used' = used /\ sent' = sent
    BY <1>1, <1>3 DEF TakePending, At
  <2>2. \A i \in DOMAIN call'[c].ops :
          /\ call'[c].ops[i] \in used /\ sent[call'[c].ops[i]] = 0
          /\ \A d \in Callers : \A j \in DOMAIN call'[d].ops :
               call'[c].ops[i] = call'[d].ops[j] => c = d /\ i = j
    BY <2>1 DEF TakenOnce
  <2>3. \A d \in Callers \ {c} : \A i \in DOMAIN call'[d].ops :
          /\ call'[d].ops[i] \in used
          /\ i > Len(call'[d].results) => sent[call'[d].ops[i]] = 0
          /\ \A e \in Callers : \A j \in DOMAIN call'[e].ops :
               call'[d].ops[i] = call'[e].ops[j] => d = e /\ i = j
    BY <2>1 DEF TakenOnce
  <2>4. QED
    BY <2>1, <2>2, <2>3 DEF TakenOnce
<1>4. ASSUME NEW c \in Callers, Dispatch(c) PROVE TakenOnce'
  <2> DEFINE n == Len(call[c].results) + 1
  <2>1. /\ n \in DOMAIN call[c].ops /\ NextOp(c) \in Operations
        /\ NextOp(c) = call[c].ops[n]
    BY <1>4, DispatchStep, NextOpTyped DEF NextOp
  <2>2. /\ Len(call'[c].results) = n
        /\ \A d \in Callers : call'[d].ops = call[d].ops
        /\ \A d \in Callers \ {c} : call'[d] = call[d]
        /\ staging' = staging /\ used' = used
        /\ \A op \in Operations \ {NextOp(c)} : sent'[op] = sent[op]
    BY <1>1, <1>4, DispatchStep DEF git
  <2>3. /\ NextOp(c) \in used
        /\ \A j \in DOMAIN staging : staging[j] # NextOp(c)
        /\ \A d \in Callers : \A j \in DOMAIN call[d].ops :
             call[d].ops[j] = NextOp(c) => d = c /\ j = n
    BY <2>1 DEF TakenOnce
  <2>4. \A i \in DOMAIN staging : sent'[staging[i]] = 0
    BY <1>1, <2>2, <2>3 DEF TakenOnce
  <2>5. \A i \in DOMAIN call[c].ops : i > n => sent'[call[c].ops[i]] = 0
    <3>1. SUFFICES ASSUME NEW i \in DOMAIN call[c].ops, i > n
                   PROVE  sent'[call[c].ops[i]] = 0
      OBVIOUS
    <3>2. i \in Nat /\ Len(call[c].results) \in Nat /\ call[c].ops[i] \in Operations
      BY <1>1
    <3>3. i > Len(call[c].results) /\ i # n
      BY <3>1, <3>2
    <3>4. QED
      BY <2>2, <2>3, <3>2, <3>3 DEF TakenOnce
  <2>6. \A d \in Callers \ {c} : \A i \in DOMAIN call[d].ops :
          i > Len(call[d].results) => sent'[call[d].ops[i]] = 0
    BY <1>1, <2>2, <2>3 DEF TakenOnce
  <2>7. \A op \in Operations \ used : sent'[op] = 0
    BY <2>2, <2>3 DEF TakenOnce
  <2>8. \A d \in Callers : \A i \in DOMAIN call'[d].ops :
          i > Len(call'[d].results) => sent'[call'[d].ops[i]] = 0
    BY <2>2, <2>5, <2>6
  <2>9. QED
    BY <2>2, <2>4, <2>7, <2>8 DEF TakenOnce
<1>5. QED
  BY <1>2, <1>3, <1>4, MostTakeNothing, TakenOnceKept

\* The operation whose turn it is was not sent yet.
LEMMA DispatchedOnceStep ==
  ASSUME TypeOK, CallsInOrder, TakenOnce, DispatchedAtMostOnce, [Next]_vars
  PROVE  DispatchedAtMostOnce'
<1>1. ASSUME NEW c \in Callers, Dispatch(c) PROVE DispatchedAtMostOnce'
  <2>1. /\ Len(call[c].results) + 1 \in DOMAIN call[c].ops /\ NextOp(c) \in Operations
        /\ Len(call[c].results) \in Nat
    BY <1>1, DispatchStep, NextOpTyped DEF TypeOK, Calls
  <2>2. sent[NextOp(c)] = 0
    BY <2>1 DEF NextOp, TakenOnce
  <2>3. sent' = [sent EXCEPT ![NextOp(c)] = @ + 1] /\ sent \in [Operations -> Nat]
    BY <1>1, DispatchStep DEF TypeOK
  <2>4. QED
    BY <2>2, <2>3 DEF DispatchedAtMostOnce
<1>2. QED
  BY <1>1, MostTakeNothing DEF DispatchedAtMostOnce, NothingTaken, Add, TakePending

-----------------------------------------------------------------------------
(***************************************************************************)
(* The histories: the chain, the hashes, and what was rejected.            *)
(***************************************************************************)
\* But for a recording step, a history is one that there was before.
LEMMA LogsKept ==
  ASSUME TypeOK, CallsInOrder, [Next]_vars
  PROVE  (\E c \in Callers : Recording(c)) \/ Logs' \subseteq Logs
<1>1. ASSUME NEW c \in Callers, Quiet(c) PROVE Logs' \subseteq Logs
  BY <1>1, QuietCall DEF Logs, git
<1>2. ASSUME NEW c \in Callers, Dispatch(c) PROVE Logs' \subseteq Logs
  BY <1>2, DispatchStep DEF Logs, git
<1>3. CASE ExportState \/ Restart
  BY <1>3 DEF ExportState, Restart, Logs, git
<1>4. CASE \/ \E op \in Operations : Add(op)
           \/ Commit
           \/ \E c \in Callers : TakePending(c, "push", "dispatch")
           \/ \E c \in Callers : TakePending(c, "reject", "snapshot")
           \/ \E o \in Placing : SettleOrder(o)
           \/ UNCHANGED vars
  BY <1>4 DEF Add, Commit, TakePending, SettleOrder, Logs, vars, git
<1>5. QED
  BY <1>1, <1>2, <1>3, <1>4, StepKinds

LEMMA LogsTyped ==
  ASSUME TypeOK, NEW log \in Logs
  PROVE  log \in Seq(CommitRecords)
BY DEF Logs, TypeOK

\* A recording step appends to the history of this process.
LEMMA RecordingLogs ==
  ASSUME TypeOK, CallsInOrder, NEW c \in Callers, Recording(c)
  PROVE  \E r \in CommitRecords :
           /\ r.for = call[c].for /\ RecordedOf(call[c], r)
           /\ \/ r.hash = call[c].hash /\ hashes' = hashes
              \/ r.hash = hashes' /\ hashes' = hashes + 1
           /\ commits' = Append(commits, r)
           /\ \A log \in Logs' : log \in Logs \/ log = Append(commits, r)
<1>1. saved' = saved
  BY RecordingStep
<1>2. QED
  BY <1>1, RecordingStep DEF Logs

LEMMA ChainStep ==
  ASSUME TypeOK, CallsInOrder, HistoryChained, [Next]_vars
  PROVE  HistoryChained'
<1>1. ASSUME NEW c \in Callers, Recording(c) PROVE HistoryChained'
  <2>1. PICK r \in CommitRecords :
          commits' = Append(commits, r) /\ head' = r.hash /\ r.parent = head
    BY <1>1, RecordingStep
  <2>2. commits \in Seq(CommitRecords)
    BY DEF TypeOK
  <2>3. Chained(commits', head')
    BY <2>1, <2>2 DEF HistoryChained, Chained
  <2>4. saved' = saved
    BY <1>1, RecordingStep
  <2>5. QED
    BY <2>3, <2>4 DEF HistoryChained
<1>2. ASSUME NEW c \in Callers, Quiet(c) \/ Dispatch(c) PROVE HistoryChained'
  <2>1. UNCHANGED <<git, saved>>
    BY <1>2, QuietCall, DispatchStep
  <2>2. QED
    BY <2>1 DEF git, HistoryChained
<1>3. CASE ExportState
  BY <1>3 DEF ExportState, HistoryChained, git
<1>4. CASE Restart
  BY <1>4 DEF Restart, HistoryChained
<1>5. CASE \/ \E op \in Operations : Add(op)
           \/ Commit
           \/ \E c \in Callers : TakePending(c, "push", "dispatch")
           \/ \E c \in Callers : TakePending(c, "reject", "snapshot")
           \/ \E o \in Placing : SettleOrder(o)
           \/ UNCHANGED vars
  BY <1>5 DEF Add, Commit, TakePending, SettleOrder, HistoryChained, vars, git
<1>6. QED
  BY <1>1, <1>2, <1>3, <1>4, <1>5, StepKinds

\* While nothing is sent, staged or recorded, what is rejected stays so.
LEMMA RejectedKept ==
  ASSUME TypeOK, RejectedForGood, NothingTaken, Logs' \subseteq Logs
  PROVE  RejectedForGood'
<1>1. \A i \in DOMAIN staging' : i \in DOMAIN staging /\ staging'[i] = staging[i]
  BY DEF NothingTaken
<1>2. \A d \in Callers : \A i \in DOMAIN call'[d].ops :
        i \in DOMAIN call[d].ops /\ call'[d].ops[i] = call[d].ops[i]
  BY DEF NothingTaken
<1>3. QED
  BY <1>1, <1>2 DEF RejectedForGood, NothingTaken

LEMMA RejectedStep ==
  ASSUME TypeOK, CallsInOrder, TakenOnce, RejectedForGood, [Next]_vars
  PROVE  RejectedForGood'
<1>1. /\ call \in [Callers -> Calls] /\ staging \in Seq(Operations)
      /\ sent \in [Operations -> Nat]
      /\ \A d \in Callers : call[d].ops \in Seq(Operations)
  BY DEF TypeOK, Calls
<1>2. ASSUME NEW op \in Operations, Add(op) PROVE RejectedForGood'
  <2>1. /\ op \notin used /\ used' = used \cup {op} /\ UNCHANGED <<call, sent>>
        /\ \A i \in DOMAIN staging' :
             staging'[i] = op \/ (i \in DOMAIN staging /\ staging'[i] = staging[i])
    BY <1>1, <1>2 DEF Add
  <2>2. Logs' = Logs
    BY <1>2 DEF Add, Logs
  <2>3. QED
    BY <2>1, <2>2 DEF RejectedForGood
<1>3. ASSUME NEW c \in Callers, NEW for, NEW at, TakePending(c, for, at)
      PROVE  RejectedForGood'
  <2>1. /\ call'[c].ops = staging /\ \A d \in Callers \ {c} : call'[d] = call[d]
        /\ staging' = <<>> /\ used' = used /\ sent' = sent
    BY <1>1, <1>3 DEF TakePending, At
  <2>2. Logs' = Logs
    BY <1>3 DEF TakePending, Logs
  <2>3. QED
    BY <2>1, <2>2 DEF RejectedForGood
<1>4. ASSUME NEW c \in Callers, Dispatch(c) PROVE RejectedForGood'
  <2> DEFINE n == Len(call[c].results) + 1
  <2>1. /\ n \in DOMAIN call[c].ops /\ NextOp(c) \in Operations
        /\ NextOp(c) = call[c].ops[n]
    BY <1>4, DispatchStep, NextOpTyped DEF NextOp
  <2>2. /\ \A d \in Callers : call'[d].ops = call[d].ops
        /\ staging' = staging /\ used' = used /\ Logs' = Logs
        /\ sent' = [sent EXCEPT ![NextOp(c)] = @ + 1]
    BY <1>1, <1>4, DispatchStep DEF git, Logs
  <2>3. \A log \in Logs : \A i \in DOMAIN log : log[i].for = "reject" =>
          \A k \in DOMAIN log[i].ops : log[i].ops[k] # NextOp(c)
    BY <2>1 DEF RejectedForGood
  <2>4. \A log \in Logs : \A i \in DOMAIN log : log[i].for = "reject" =>
          \A k \in DOMAIN log[i].ops : sent'[log[i].ops[k]] = 0
    BY <1>1, <2>1, <2>2, <2>3 DEF RejectedForGood
  <2>5. QED
    BY <2>2, <2>4 DEF RejectedForGood
<1>5. ASSUME NEW c \in Callers, Recording(c) PROVE RejectedForGood'
  <2>1. PICK r \in CommitRecords :
          /\ r.for = "reject" => call[c].for = "reject" /\ r.ops = call[c].ops
          /\ \A log \in Logs' : log \in Logs \/ log = Append(commits, r)
    BY <1>5, RecordingLogs DEF RecordedOf
  <2>2. /\ call' = [call EXCEPT ![c] = NoCall] /\ NoCall.ops = <<>>
        /\ UNCHANGED <<staging, used, sent>>
    BY <1>5, RecordingStep DEF NoCall, At
  <2>3. \A d \in Callers : call'[d].ops = <<>> \/ (d # c /\ call'[d] = call[d])
    BY <1>1, <2>2
  <2> DEFINE Gone(op) ==
        /\ op \in used' /\ sent'[op] = 0
        /\ \A j \in DOMAIN staging' : op # staging'[j]
        /\ \A d \in Callers : \A j \in DOMAIN call'[d].ops : op # call'[d].ops[j]
  <2>4. \A log \in Logs : \A i \in DOMAIN log : log[i].for = "reject" =>
          \A k \in DOMAIN log[i].ops : Gone(log[i].ops[k])
    BY <2>2, <2>3 DEF RejectedForGood
  <2>5. call[c].for = "reject" => \A k \in DOMAIN call[c].ops : Gone(call[c].ops[k])
    <3>1. SUFFICES ASSUME call[c].for = "reject", NEW k \in DOMAIN call[c].ops
                   PROVE  Gone(call[c].ops[k])
      OBVIOUS
    <3>2. call[c].results = <<>> /\ k > 0
      BY <1>1, <3>1 DEF CallsInOrder, CallInOrder
    <3>3. k > Len(call[c].results)
      BY <3>2
    <3>4. sent[call[c].ops[k]] = 0
      BY <3>3 DEF TakenOnce
    <3>5. QED
      BY <2>2, <2>3, <3>4 DEF TakenOnce
  <2>6. commits \in Logs /\ commits \in Seq(CommitRecords)
    BY DEF Logs, TypeOK
  <2>7. \A i \in DOMAIN Append(commits, r) :
          \/ Append(commits, r)[i] = r
          \/ i \in DOMAIN commits /\ Append(commits, r)[i] = commits[i]
    BY <2>6
  <2>8. \A i \in DOMAIN Append(commits, r) : Append(commits, r)[i].for = "reject" =>
          \A k \in DOMAIN Append(commits, r)[i].ops : Gone(Append(commits, r)[i].ops[k])
    BY <2>1, <2>4, <2>5, <2>6, <2>7
  <2>9. QED
    BY <2>1, <2>4, <2>8 DEF RejectedForGood
<1>6. QED
  BY <1>2, <1>3, <1>4, <1>5, MostTakeNothing, LogsKept, RejectedKept

-----------------------------------------------------------------------------
(***************************************************************************)
(* A generated hash is larger than every hash before it.                   *)
(***************************************************************************)
LEMMA HashesStep ==
  ASSUME TypeOK, CallsInOrder, HashesGenerated, HashesUnique, [Next]_vars
  PROVE  HashesGenerated' /\ HashesUnique'
<1> USE DEF HashesGenerated, HashesUnique
<1>1. /\ call \in [Callers -> Calls] /\ hashes \in Nat
      /\ \A i \in 1 .. hashes : i # NoHash
      /\ NoCall.hash = NoHash
  BY AccountAssumption DEF TypeOK, NoCall, At
<1>2. commits \in Logs /\ commits' \in Logs'
  BY DEF Logs
<1>3. ASSUME Logs' \subseteq Logs, hashes' = hashes,
             pending_hash' = pending_hash \/ pending_hash' = NoHash,
             commits' = commits \/ \A d \in Callers : call'[d].hash = NoHash,
             commits' = commits \/ pending_hash' = NoHash,
             \A d \in Callers : call'[d].hash \in {call[d].hash, NoHash}
      PROVE  HashesGenerated' /\ HashesUnique'
  <2>1. HashesGenerated'
    BY <1>3
  <2>2. \A i \in DOMAIN commits' : commits'[i].hash # NoHash
    BY <1>1, <1>2, <1>3
  <2>3. \A i, j \in DOMAIN commits' : commits'[i].hash = commits'[j].hash => i = j
    BY <1>2, <1>3
  <2>4. CASE commits' = commits
    BY <1>3, <2>2, <2>4
  <2>5. CASE commits' # commits
    BY <1>3, <2>1, <2>2, <2>3, <2>5
  <2>6. QED
    BY <2>1, <2>4, <2>5
<1>4. CASE Commit
  <2>1. /\ hashes' = hashes + 1 /\ pending_hash' = hashes + 1 /\ hashes < MaxHash
        /\ commits' = commits /\ call' = call /\ Logs' = Logs
    BY <1>4 DEF Commit, Logs
  <2>2. HashesGenerated'
    BY <1>1, <2>1
  <2>3. /\ \A i \in DOMAIN commits : commits[i].hash # hashes + 1
        /\ \A d \in Callers : call[d].hash # NoHash => call[d].hash # hashes + 1
    BY <1>1, <1>2
  <2>4. QED
    BY <2>1, <2>2, <2>3
<1>5. ASSUME NEW c \in Callers, NEW for, NEW at, TakePending(c, for, at)
      PROVE  HashesGenerated' /\ HashesUnique'
  <2>1. /\ call'[c].hash = pending_hash /\ pending_hash # NoHash /\ pending_hash' = NoHash
        /\ \A d \in Callers \ {c} : call'[d] = call[d]
        /\ commits' = commits /\ Logs' = Logs /\ hashes' = hashes
    BY <1>1, <1>5 DEF TakePending, At, Logs
  <2>2. HashesGenerated'
    BY <2>1
  <2>3. \A i \in DOMAIN commits : commits[i].hash # NoHash
    BY <1>1, <1>2, AccountAssumption DEF TypeOK, CommitRecords, Hashes
  <2>4. QED
    BY <2>1, <2>2, <2>3
<1>6. ASSUME NEW c \in Callers, Recording(c)
      PROVE  HashesGenerated' /\ HashesUnique'
  <2>1. PICK r \in CommitRecords :
          /\ \/ r.hash = call[c].hash /\ hashes' = hashes
             \/ r.hash = hashes' /\ hashes' = hashes + 1
          /\ commits' = Append(commits, r)
          /\ \A log \in Logs' : log \in Logs \/ log = Append(commits, r)
    BY <1>6, RecordingLogs
  <2>2. /\ call' = [call EXCEPT ![c] = NoCall] /\ pending_hash' = pending_hash
    BY <1>6, RecordingStep
  <2>3. /\ call'[c].hash = NoHash
        /\ \A d \in Callers \ {c} : call'[d] = call[d]
    BY <1>1, <2>2
  <2>4. r.hash # NoHash /\ r.hash \in 1 .. hashes'
    BY <1>1, <2>1, AccountAssumption DEF CommitRecords, Hashes
  <2>5. /\ \A i \in DOMAIN commits : commits[i].hash # r.hash
        /\ pending_hash # r.hash
        /\ \A d \in Callers \ {c} : call[d].hash # r.hash
    BY <1>1, <1>2, <2>1, <2>4
  <2>6. /\ commits \in Seq(CommitRecords)
        /\ DOMAIN Append(commits, r) = 1 .. Len(commits) + 1
        /\ DOMAIN commits = 1 .. Len(commits)
        /\ Append(commits, r)[Len(commits) + 1] = r
        /\ \A i \in DOMAIN commits : Append(commits, r)[i] = commits[i]
    BY DEF TypeOK
  <2>7. \A i \in DOMAIN Append(commits, r) : i \in DOMAIN commits \/ i = Len(commits) + 1
    BY <2>6
  <2>8. /\ \A i \in DOMAIN Append(commits, r) : Append(commits, r)[i].hash \in 1 .. hashes'
        /\ \A i, j \in DOMAIN Append(commits, r) :
             Append(commits, r)[i].hash = Append(commits, r)[j].hash => i = j
    BY <1>1, <1>2, <2>1, <2>4, <2>5, <2>6, <2>7
  <2>9. HashesGenerated'
    <3>1. \A log \in Logs' :
            /\ \A i \in DOMAIN log : log[i].hash \in 1 .. hashes'
            /\ \A i, j \in DOMAIN log : log[i].hash = log[j].hash => i = j
      <4>1. ASSUME NEW log \in Logs PROVE \A i \in DOMAIN log : log[i].hash \in 1 .. hashes'
        <5>1. \A h \in 1 .. hashes : h \in 1 .. hashes'
          BY <1>1, <2>1
        <5>2. QED
          BY <5>1
      <4>2. QED
        BY <2>1, <2>8, <4>1
    <3>2. pending_hash' # NoHash => pending_hash' \in 1 .. hashes'
      BY <1>1, <2>1, <2>2
    <3>3. \A d \in Callers : call'[d].hash # NoHash => call'[d].hash \in 1 .. hashes'
      BY <1>1, <2>1, <2>3
    <3>4. QED
      BY <3>1, <3>2, <3>3
  <2>10. \A i \in DOMAIN Append(commits, r) :
           /\ Append(commits, r)[i].hash # pending_hash
           /\ \A d \in Callers \ {c} : call[d].hash # NoHash =>
                Append(commits, r)[i].hash # call[d].hash
    BY <2>5, <2>6, <2>7
  <2>11. HashesUnique'
    BY <2>1, <2>2, <2>3, <2>8, <2>10
  <2>12. QED
    BY <2>9, <2>11
<1>7. ASSUME NEW c \in Callers, Quiet(c) \/ Dispatch(c)
      PROVE  HashesGenerated' /\ HashesUnique'
  <2>1. \A d \in Callers : call'[d].hash \in {call[d].hash, NoHash}
    BY <1>7, QuietCall, DispatchStep
  <2>2. UNCHANGED <<git, saved>>
    BY <1>7, QuietCall, DispatchStep
  <2>3. QED
    BY <1>3, <2>1, <2>2 DEF git, Logs
<1>8. CASE Restart
  <2>1. /\ Logs' \subseteq Logs /\ hashes' = hashes /\ pending_hash' = NoHash
        /\ \A d \in Callers : call'[d].hash = NoHash
    BY <1>1, <1>8 DEF Restart, Logs
  <2>2. QED
    BY <1>3, <2>1
<1>9. CASE \/ \E op \in Operations : Add(op)
           \/ \E o \in Placing : SettleOrder(o)
           \/ ExportState
           \/ UNCHANGED vars
  <2>1. /\ Logs' \subseteq Logs /\ hashes' = hashes /\ pending_hash' = pending_hash
        /\ commits' = commits /\ call' = call
    BY <1>9 DEF Add, SettleOrder, ExportState, Logs, vars, git
  <2>2. QED
    BY <1>3, <2>1
<1>10. QED
  BY <1>4, <1>5, <1>6, <1>7, <1>8, <1>9, StepKinds

-----------------------------------------------------------------------------
(***************************************************************************)
(* The theorems.                                                           *)
(***************************************************************************)
LEMMA InitAccountIInv == Init => AccountIInv
<1> SUFFICES ASSUME Init PROVE AccountIInv
  OBVIOUS
<1> USE DEF Init, Fresh
<1>1. TypeOK
  BY AccountAssumption, NoCallTyped DEF TypeOK
<1>2. /\ \A c \in Callers : call[c] = NoCall
      /\ NoCall.hash = NoHash /\ NoCall.ops = <<>> /\ Logs = {<<>>}
  BY DEF NoCall, At, Logs
<1>3. CallsInOrder
  BY <1>2, NoCallInOrder DEF CallsInOrder
<1>4. HistoryChained
  BY DEF HistoryChained, Chained
<1>5. TakenOnce /\ DispatchedAtMostOnce
  BY <1>2 DEF TakenOnce, DispatchedAtMostOnce
<1>6. RejectedForGood /\ HashesGenerated /\ HashesUnique
  BY <1>2 DEF RejectedForGood, HashesGenerated, HashesUnique
<1>7. QED
  BY <1>1, <1>3, <1>4, <1>5, <1>6 DEF AccountIInv

LEMMA AccountStep == AccountIInv /\ [Next]_vars => AccountIInv'
BY TypeStep, ChainStep, CallsInOrderStep, TakenOnceStep, DispatchedOnceStep, RejectedStep,
   HashesStep
DEF AccountIInv

\* AccountIInv is an inductive invariant of the account.
THEOREM AccountInvariant == Spec => []AccountIInv
BY InitAccountIInv, AccountStep, PTL DEF Spec

\* The history, and what is exported of it, is one chain whatever calls record
\* at the same time.
THEOREM HistoryIsChain == Spec => []HistoryChained
<1>1. AccountIInv => HistoryChained
  BY DEF AccountIInv
<1>2. QED
  BY <1>1, AccountInvariant, PTL

\* No operation reaches the broker twice, whatever pushes and rejections race
\* for the pending batch, and across restarts.
THEOREM SentAtMostOnce == Spec => []DispatchedAtMostOnce
<1>1. AccountIInv => DispatchedAtMostOnce
  BY DEF AccountIInv
<1>2. QED
  BY <1>1, AccountInvariant, PTL

\* An operation of a rejected batch never reaches the broker.
THEOREM RejectedStaysUnsent == Spec => []RejectedNeverSent
<1>1. AccountIInv => RejectedNeverSent
  <2> SUFFICES ASSUME AccountIInv PROVE RejectedNeverSent
    OBVIOUS
  <2>1. ASSUME NEW c \in Callers, call[c].for = "reject", NEW op \in ToSet(call[c].ops)
        PROVE  sent[op] = 0
    <3>1. PICK k \in DOMAIN call[c].ops : op = call[c].ops[k]
      BY <2>1 DEF ToSet
    <3>2. call[c].ops \in Seq(Operations) /\ call[c].results = <<>>
      BY <2>1 DEF AccountIInv, TypeOK, Calls, CallsInOrder, CallInOrder
    <3>3. k > Len(call[c].results)
      BY <3>2
    <3>4. QED
      BY <3>1, <3>3 DEF AccountIInv, TakenOnce
  <2>2. \A i \in DOMAIN commits : commits[i].for = "reject" =>
          \A op \in ToSet(commits[i].ops) : sent[op] = 0
    BY DEF AccountIInv, RejectedForGood, Logs, ToSet
  <2>3. QED
    BY <2>1, <2>2 DEF RejectedNeverSent
<1>2. QED
  BY <1>1, AccountInvariant, PTL

-----------------------------------------------------------------------------
(***************************************************************************)
(* What the histories tell.  A result with an order id is the broker's     *)
(* own, and stays so: an order moves only while it is submitted, and an    *)
(* operation that was sent is not sent again.                              *)
(***************************************************************************)
Executed(snt, ord, ops, results) ==
  \A k \in DOMAIN results :
    /\ k \in DOMAIN ops /\ ops[k] \in Operations /\ snt[ops[k]] > 0
    /\ results[k].order # NoOrder =>
         /\ results[k].order = ops[k]
         /\ results[k].status # "Submitted" => ord[ops[k]] = results[k].status

\* Staged once, and no longer in the staging area nor in the hands of a call.
Gone(op) ==
  /\ op \in used
  /\ \A j \in DOMAIN staging : staging[j] # op
  /\ \A c \in Callers : \A j \in DOMAIN call[c].ops : call[c].ops[j] # op

CommitTrue(r) ==
  /\ DOMAIN r.results = DOMAIN r.ops
  /\ r.for = "push" => Executed(sent, orders, r.ops, r.results)
  /\ r.for = "sync" => r.ops = <<SyncOrders>>
  /\ r.for # "sync" => \A k \in DOMAIN r.ops : Gone(r.ops[k])

CallTrue(snt, ord, r) ==
  r.for = "push" =>
    /\ r.at \notin {"query", "snapshot"}
    /\ Executed(snt, ord, r.ops, r.results)
    /\ r.at = "record" => DOMAIN r.results = DOMAIN r.ops

SavedKept ==
  \A i \in DOMAIN saved.commits : i \in DOMAIN commits /\ commits[i] = saved.commits[i]

TruthIInv ==
  /\ \A log \in Logs : \A i \in DOMAIN log : CommitTrue(log[i])
  /\ \A c \in Callers : CallTrue(sent, orders, call[c])
  /\ SavedKept

\* What was sent stays sent, and a settled order of it stays settled.
LEMMA SentOrdersKept ==
  ASSUME AccountIInv, [Next]_vars, NEW op \in Operations, sent[op] > 0
  PROVE  sent'[op] > 0 /\ (orders[op] # "Submitted" => orders'[op] = orders[op])
<1>1. /\ sent \in [Operations -> Nat] /\ TypeOK /\ CallsInOrder
      /\ orders \in [Operations -> {"none", "Submitted", "Filled", "Rejected", "Cancelled"}]
  BY DEF AccountIInv, TypeOK
<1>2. ASSUME NEW c \in Callers, Dispatch(c)
      PROVE  sent'[op] > 0 /\ orders'[op] = orders[op]
  <2>1. /\ Len(call[c].results) + 1 \in DOMAIN call[c].ops /\ NextOp(c) \in Operations
    <3>1. Len(call[c].results) < Len(call[c].ops)
      BY <1>1, <1>2, DispatchStep
    <3>2. QED
      BY <1>1, <3>1, NextOpTyped
  <2>2. sent[NextOp(c)] = 0
    BY <2>1 DEF NextOp, AccountIInv, TakenOnce
  <2>3. NextOp(c) # op /\ sent'[op] = sent[op]
    BY <1>1, <1>2, <2>1, <2>2, DispatchStep
  <2>4. orders' = orders \/ \E status : orders' = [orders EXCEPT ![NextOp(c)] = status]
    BY <1>2 DEF Dispatch, DispatchPlaced, DispatchFails
  <2>5. QED
    BY <1>1, <2>3, <2>4
<1>3. ASSUME NEW c \in Callers, Recording(c) PROVE UNCHANGED <<sent, orders>>
  BY <1>1, <1>3, RecordingStep
<1>4. ASSUME NEW c \in Callers, Quiet(c) PROVE UNCHANGED <<sent, orders>>
  BY <1>4 DEF Quiet, Snapshot, SnapshotFails, SyncRead, QueryOrders, QueryFails, history
<1>5. ASSUME NEW o \in Placing, SettleOrder(o)
      PROVE  sent' = sent /\ (orders[op] # "Submitted" => orders'[op] = orders[op])
  BY <1>1, <1>5 DEF SettleOrder, history
<1>6. CASE \/ \E o \in Operations : Add(o)
           \/ Commit
           \/ \E c \in Callers : TakePending(c, "push", "dispatch")
           \/ \E c \in Callers : TakePending(c, "reject", "snapshot")
           \/ ExportState
           \/ Restart
           \/ UNCHANGED vars
  BY <1>6 DEF Add, Commit, TakePending, ExportState, Restart, vars, history
<1>7. QED
  BY <1>2, <1>3, <1>4, <1>5, <1>6, StepKinds

LEMMA ExecutedKept ==
  ASSUME AccountIInv, [Next]_vars, NEW ops, NEW results, Executed(sent, orders, ops, results)
  PROVE  Executed(sent', orders', ops, results)
BY SentOrdersKept DEF Executed

LEMMA GoneKept ==
  ASSUME AccountIInv, [Next]_vars, NEW op, Gone(op)
  PROVE  Gone(op)'
<1>1. /\ call \in [Callers -> Calls] /\ staging \in Seq(Operations)
      /\ TypeOK /\ CallsInOrder
  BY DEF AccountIInv, TypeOK
<1>2. ASSUME NEW o \in Operations, Add(o) PROVE Gone(op)'
  <2>1. /\ op # o /\ op \in used' /\ call' = call /\ staging' = Append(staging, o)
    BY <1>2 DEF Add, Gone
  <2>2. \A j \in DOMAIN staging' : staging'[j] = o \/ (j \in DOMAIN staging /\ staging'[j] = staging[j])
    BY <1>1, <2>1
  <2>3. QED
    BY <2>1, <2>2 DEF Gone
<1>3. ASSUME NEW c \in Callers, NEW for, NEW at, TakePending(c, for, at) PROVE Gone(op)'
  <2>1. /\ call'[c].ops = staging /\ \A d \in Callers \ {c} : call'[d] = call[d]
        /\ staging' = <<>> /\ used' = used
    BY <1>1, <1>3 DEF TakePending, At
  <2>2. QED
    BY <2>1 DEF Gone
<1>4. ASSUME NEW c \in Callers, Dispatch(c) PROVE Gone(op)'
  <2>1. /\ \A d \in Callers : call'[d].ops = call[d].ops
        /\ staging' = staging /\ used' = used
    BY <1>1, <1>4, DispatchStep DEF git
  <2>2. QED
    BY <2>1 DEF Gone
<1>5. CASE NothingTaken
  <2>1. \A d \in Callers : \A i \in DOMAIN call'[d].ops :
          i \in DOMAIN call[d].ops /\ call'[d].ops[i] = call[d].ops[i]
    BY <1>5 DEF NothingTaken
  <2>2. \A i \in DOMAIN staging' : i \in DOMAIN staging /\ staging'[i] = staging[i]
    BY <1>5 DEF NothingTaken
  <2>3. QED
    BY <1>5, <2>1, <2>2 DEF NothingTaken, Gone
<1>6. QED
  BY <1>1, <1>2, <1>3, <1>4, <1>5, MostTakeNothing

LEMMA CommitTrueKept ==
  ASSUME AccountIInv, [Next]_vars, NEW r, CommitTrue(r)
  PROVE  CommitTrue(r)'
<1>1. r.for = "push" => Executed(sent', orders', r.ops, r.results)
  BY ExecutedKept DEF CommitTrue
<1>2. r.for # "sync" => \A k \in DOMAIN r.ops : Gone(r.ops[k])'
  BY GoneKept DEF CommitTrue
<1>3. QED
  BY <1>1, <1>2 DEF CommitTrue

\* The commit that a recording step appends.
LEMMA RecordedTrue ==
  ASSUME AccountIInv, TruthIInv, NEW c \in Callers, Recording(c), [Next]_vars,
         NEW r \in CommitRecords, r.for = call[c].for, RecordedOf(call[c], r)
  PROVE  CommitTrue(r)'
<1>1. /\ call \in [Callers -> Calls] /\ call[c] \in Calls /\ TypeOK /\ CallsInOrder
      /\ CallTrue(sent, orders, call[c]) /\ call[c].at = "record"
  BY DEF AccountIInv, TypeOK, TruthIInv, Recording, RecordPush, RecordReject, RecordSync, Record
<1>2. DOMAIN r.results = DOMAIN r.ops
  BY <1>1 DEF CallTrue, RecordedOf
<1>3. r.for = "push" => Executed(sent', orders', r.ops, r.results)
  BY <1>1, ExecutedKept DEF CallTrue, RecordedOf
<1>4. r.for = "sync" => r.ops = <<SyncOrders>>
  BY DEF RecordedOf
<1>5. ASSUME r.for # "sync", NEW k \in DOMAIN r.ops PROVE Gone(r.ops[k])'
  <2>1. r.ops = call[c].ops
    BY <1>5 DEF RecordedOf
  <2>2. /\ r.ops[k] \in used /\ \A j \in DOMAIN staging : staging[j] # r.ops[k]
        /\ \A d \in Callers \ {c} : \A j \in DOMAIN call[d].ops : call[d].ops[j] # r.ops[k]
    BY <1>5, <2>1 DEF AccountIInv, TakenOnce
  <2>3. /\ UNCHANGED <<staging, used>> /\ NoCall.ops = <<>> /\ call'[c] = NoCall
        /\ \A d \in Callers \ {c} : call'[d] = call[d]
    BY <1>1, RecordingStep DEF NoCall, At
  <2>4. QED
    BY <2>2, <2>3 DEF Gone
<1>6. QED
  BY <1>2, <1>3, <1>4, <1>5 DEF CommitTrue

LEMMA LogsTrue ==
  ASSUME AccountIInv, TruthIInv, [Next]_vars
  PROVE  (\A log \in Logs : \A i \in DOMAIN log : CommitTrue(log[i]))'
<1>1. TypeOK /\ CallsInOrder
  BY DEF AccountIInv
<1>2. \A log \in Logs : \A i \in DOMAIN log : CommitTrue(log[i])'
  BY CommitTrueKept DEF TruthIInv
<1>3. ASSUME NEW c \in Callers, Recording(c)
      PROVE  \A log \in Logs' : \A i \in DOMAIN log : CommitTrue(log[i])'
  <2>1. PICK r \in CommitRecords :
          /\ r.for = call[c].for /\ RecordedOf(call[c], r)
          /\ \A log \in Logs' : log \in Logs \/ log = Append(commits, r)
    BY <1>1, <1>3, RecordingLogs
  <2>2. CommitTrue(r)'
    BY <1>3, <2>1, RecordedTrue
  <2>3. commits \in Seq(CommitRecords) /\ commits \in Logs
    BY <1>1 DEF TypeOK, Logs
  <2>4. \A i \in DOMAIN Append(commits, r) : \E x :
          x = Append(commits, r)[i] /\ (x = r \/ \E j \in DOMAIN commits : x = commits[j])
    BY <2>3
  <2>5. ASSUME NEW log \in Logs', NEW i \in DOMAIN log PROVE CommitTrue(log[i])'
    <3>1. PICK x : x = log[i] /\ (x = r \/ \E l \in Logs : \E j \in DOMAIN l : x = l[j])
      BY <2>1, <2>3, <2>4, <2>5
    <3>2. CommitTrue(x)'
      BY <1>2, <2>2, <3>1
    <3>3. QED
      BY <3>1, <3>2
  <2>6. QED
    BY <2>5
<1>4. CASE Logs' \subseteq Logs
  BY <1>2, <1>4
<1>5. \A log \in Logs' : \A i \in DOMAIN log : CommitTrue(log[i])'
  BY <1>1, <1>3, <1>4, LogsKept
<1>6. QED
  BY <1>5

\* The result that a dispatch adds is the broker's.
LEMMA DispatchedTrue ==
  ASSUME AccountIInv, TruthIInv, [Next]_vars, NEW c \in Callers, Dispatch(c)
  PROVE  CallTrue(sent', orders', call'[c])
<1> DEFINE n == Len(call[c].results) + 1
           ops == call[c].ops
           old == call[c].results
<1>1. /\ call \in [Callers -> Calls] /\ call[c] \in Calls /\ TypeOK /\ CallsInOrder
      /\ sent \in [Operations -> Nat] /\ CallTrue(sent, orders, call[c])
      /\ orders \in [Operations -> {"none", "Submitted", "Filled", "Rejected", "Cancelled"}]
  BY DEF AccountIInv, TypeOK, TruthIInv
<1>2. PICK r \in OrderResults :
        /\ Dispatching(c, r)
        /\ r.order # NoOrder => r.order = NextOp(c) /\ orders' = [orders EXCEPT ![NextOp(c)] = r.status]
  <2>1. NextOp(c) \in Operations
    BY <1>1, NextOpTyped DEF Dispatch, DispatchPlaced, DispatchFails, Dispatching
  <2>2. CASE DispatchPlaced(c)
    <3>1. PICK status \in {"Submitted", "Filled", "Rejected", "Cancelled"} :
            /\ Dispatching(c, [order |-> NextOp(c), status |-> status])
            /\ orders' = [orders EXCEPT ![NextOp(c)] = status]
      BY <2>2 DEF DispatchPlaced
    <3>2. [order |-> NextOp(c), status |-> status] \in OrderResults
      BY <2>1 DEF OrderResults
    <3>3. QED
      BY <3>1, <3>2
  <2>3. CASE DispatchFails(c)
    <3>1. [order |-> NoOrder, status |-> "Rejected"] \in OrderResults
      BY DEF OrderResults
    <3>2. QED
      BY <2>3, <3>1 DEF DispatchFails
  <2>4. QED
    BY <2>2, <2>3 DEF Dispatch
<1>3. /\ call[c].at = "dispatch" /\ ops \in Seq(Operations) /\ old \in Seq(OrderResults)
      /\ n \in DOMAIN ops /\ NextOp(c) = ops[n] /\ ops[n] \in Operations
  BY <1>1, <1>2, NextOpTyped DEF Dispatching, NextOp, Calls
<1>4. /\ call'[c].at = "dispatch" /\ call'[c].for = call[c].for /\ call'[c].ops = ops
      /\ call'[c].results = Append(old, r)
      /\ sent' = [sent EXCEPT ![ops[n]] = @ + 1]
  BY <1>1, <1>2, <1>3 DEF Dispatching, Calls
<1>5. call[c].for = "push"
  BY <1>1, <1>3 DEF CallsInOrder, CallInOrder
<1>6. Executed(sent', orders', ops, old)
  BY <1>1, <1>5, ExecutedKept DEF CallTrue
<1>7. /\ sent'[ops[n]] > 0
      /\ r.order # NoOrder => r.order = ops[n] /\ orders'[ops[n]] = r.status
  BY <1>1, <1>2, <1>3, <1>4
<1>8. \A k \in DOMAIN Append(old, r) :
        \/ k = n /\ Append(old, r)[k] = r
        \/ k \in DOMAIN old /\ Append(old, r)[k] = old[k]
  BY <1>3
<1> HIDE DEF n, ops, old
<1>9. Executed(sent', orders', ops, Append(old, r))
  BY <1>3, <1>6, <1>7, <1>8 DEF Executed
<1>10. QED
  BY <1>4, <1>9 DEF CallTrue

LEMMA CallsTrue ==
  ASSUME AccountIInv, TruthIInv, [Next]_vars
  PROVE  \A c \in Callers : CallTrue(sent', orders', call'[c])
<1>1. call \in [Callers -> Calls] /\ TypeOK /\ CallsInOrder
  BY DEF AccountIInv, TypeOK
<1>2. SUFFICES ASSUME NEW d \in Callers PROVE CallTrue(sent', orders', call'[d])
  OBVIOUS
<1>3. CallTrue(sent, orders, call[d]) /\ CallInOrder(call[d]) /\ call[d] \in Calls
  BY <1>1 DEF TruthIInv, CallsInOrder
<1>4. ASSUME call'[d] = call[d] PROVE CallTrue(sent', orders', call'[d])
  <2>1. call[d].for = "push" => Executed(sent', orders', call[d].ops, call[d].results)
    BY <1>3, ExecutedKept DEF CallTrue
  <2>2. QED
    BY <1>3, <1>4, <2>1 DEF CallTrue
<1>5. ASSUME call'[d].for # "push" PROVE CallTrue(sent', orders', call'[d])
  BY <1>5 DEF CallTrue
<1>6. ASSUME call'[d].results = <<>>, call'[d].at \in {"idle", "dispatch"} PROVE CallTrue(sent', orders', call'[d])
  BY <1>6 DEF CallTrue, Executed
<1>7. NoCall.results = <<>> /\ NoCall.at = "idle"
  BY DEF NoCall, At
<1>8. ASSUME NEW c \in Callers, TakePending(c, "push", "dispatch") \/ TakePending(c, "reject", "snapshot")
      PROVE  CallTrue(sent', orders', call'[d])
  BY <1>1, <1>4, <1>5, <1>6, <1>8 DEF TakePending, At
<1>9. ASSUME NEW c \in Callers, Dispatch(c) PROVE CallTrue(sent', orders', call'[d])
  <2>1. CASE c = d
    BY <1>9, <2>1, DispatchedTrue
  <2>2. CASE c # d
    BY <1>1, <1>4, <1>9, <2>2, DispatchStep
  <2>3. QED
    BY <2>1, <2>2
<1>10. ASSUME NEW c \in Callers, Recording(c) PROVE CallTrue(sent', orders', call'[d])
  BY <1>1, <1>4, <1>6, <1>7, <1>10, RecordingStep
<1>11. ASSUME NEW c \in Callers, Quiet(c) PROVE CallTrue(sent', orders', call'[d])
  <2>1. CASE c # d
    BY <1>1, <1>4, <1>11, <2>1, QuietCall
  <2>2. ASSUME c = d, Snapshot(d) PROVE CallTrue(sent', orders', call'[d])
    <3>1. /\ call' = [call EXCEPT ![d].at = "record"] /\ Snapshotting(d)
      BY <2>2 DEF Snapshot
    <3>2. call'[d].at = "record" /\ call'[d].for = call[d].for
          /\ call'[d].ops = call[d].ops /\ call'[d].results = call[d].results
      BY <1>1, <1>3, <3>1 DEF Calls
    <3>3. ASSUME call[d].for = "push"
          PROVE  Executed(sent', orders', call[d].ops, call[d].results) /\ DOMAIN call[d].results = DOMAIN call[d].ops
      <4>1. Executed(sent, orders, call[d].ops, call[d].results) /\ Len(call[d].results) = Len(call[d].ops)
        BY <1>3, <3>1, <3>3 DEF CallTrue, Snapshotting
      <4>2. call[d].ops \in Seq(Operations) /\ call[d].results \in Seq(OrderResults)
        BY <1>3 DEF Calls
      <4>3. DOMAIN call[d].results = DOMAIN call[d].ops
        BY <4>1, <4>2
      <4>4. QED
        BY <4>1, <4>3, ExecutedKept
    <3>4. QED
      BY <3>2, <3>3 DEF CallTrue
  <2>3. ASSUME c = d, ~Snapshot(d) PROVE CallTrue(sent', orders', call'[d])
    <3>1. CASE SnapshotFails(d) \/ QueryFails(d)
      BY <1>1, <1>6, <1>7, <3>1 DEF SnapshotFails, QueryFails
    <3>2. CASE SyncRead(d)
      BY <1>1, <1>5, <3>2 DEF SyncRead, At
    <3>3. CASE QueryOrders(d)
      BY <1>1, <1>3, <1>5, <3>3 DEF QueryOrders, CallTrue, Calls
    <3>4. QED
      BY <1>11, <2>3, <3>1, <3>2, <3>3 DEF Quiet
  <2>4. QED
    BY <1>11, <2>1, <2>2, <2>3
<1>12. CASE Restart
  BY <1>6, <1>7, <1>12 DEF Restart
<1>13. CASE \/ \E op \in Operations : Add(op)
            \/ Commit
            \/ \E o \in Placing : SettleOrder(o)
            \/ ExportState
            \/ UNCHANGED vars
  BY <1>4, <1>13 DEF Add, Commit, SettleOrder, ExportState, vars
<1>14. QED
  BY <1>8, <1>9, <1>10, <1>11, <1>12, <1>13, StepKinds

LEMMA SavedKeptStep ==
  ASSUME TypeOK, CallsInOrder, SavedKept, [Next]_vars
  PROVE  SavedKept'
<1>1. ASSUME NEW c \in Callers, Recording(c) PROVE SavedKept'
  <2>1. PICK r \in CommitRecords : commits' = Append(commits, r)
    BY <1>1, RecordingStep
  <2>2. \A i \in DOMAIN commits : i \in DOMAIN commits' /\ commits'[i] = commits[i]
    BY <2>1 DEF TypeOK
  <2>3. saved' = saved
    BY <1>1, RecordingStep
  <2>4. QED
    BY <2>2, <2>3 DEF SavedKept
<1>2. ASSUME NEW c \in Callers, Quiet(c) \/ Dispatch(c) PROVE SavedKept'
  <2>1. UNCHANGED <<git, saved>>
    BY <1>2, QuietCall, DispatchStep
  <2>2. QED
    BY <2>1 DEF git, SavedKept
<1>3. CASE ExportState \/ Restart
  BY <1>3 DEF ExportState, Restart, SavedKept, git
<1>4. CASE \/ \E op \in Operations : Add(op)
           \/ Commit
           \/ \E c \in Callers : TakePending(c, "push", "dispatch")
           \/ \E c \in Callers : TakePending(c, "reject", "snapshot")
           \/ \E o \in Placing : SettleOrder(o)
           \/ UNCHANGED vars
  BY <1>4 DEF Add, Commit, TakePending, SettleOrder, SavedKept, vars, git
<1>5. QED
  BY <1>1, <1>2, <1>3, <1>4, StepKinds

LEMMA InitTruth == Init => TruthIInv
<1> SUFFICES ASSUME Init PROVE TruthIInv
  OBVIOUS
<1>1. Logs = {<<>>} /\ saved.commits = <<>> /\ \A c \in Callers : call[c] = NoCall
  BY DEF Init, Fresh, Logs
<1>2. CallTrue(sent, orders, NoCall)
  BY DEF CallTrue, NoCall, At, Executed
<1>3. QED
  BY <1>1, <1>2 DEF TruthIInv, SavedKept

LEMMA TruthStep == AccountIInv /\ TruthIInv /\ [Next]_vars => TruthIInv'
<1> SUFFICES ASSUME AccountIInv, TruthIInv, [Next]_vars PROVE TruthIInv'
  OBVIOUS
<1>1. SavedKept'
  BY SavedKeptStep DEF AccountIInv, TruthIInv
<1>2. QED
  BY <1>1, LogsTrue, CallsTrue DEF TruthIInv

\* The log shows the commits in reverse.
LEMMA LogOfCommit ==
  ASSUME TypeOK, NEW i \in DOMAIN commits
  PROVE  Log[Len(commits) + 1 - i] = OperationSummaries(commits[i])
<1> DEFINE s == [k \in DOMAIN commits |-> OperationSummaries(commits[k])]
           n == Len(commits)
<1>1. n \in Nat /\ DOMAIN commits = 1 .. n
  BY DEF TypeOK
<1>2. Len(s) = n
  BY <1>1
<1>3. n + 1 - i \in 1 .. n /\ (n - (n + 1 - i)) + 1 = i
  BY <1>1
<1>4. Log = [k \in 1 .. n |-> s[(n - k) + 1]]
  BY <1>2 DEF Log, Reverse
<1> HIDE DEF n
<1>5. Log[n + 1 - i] = s[i]
  BY <1>3, <1>4
<1>6. QED
  BY <1>5 DEF n

LEMMA TruthImplied == AccountIInv /\ TruthIInv => HistoryTruthful
<1> SUFFICES ASSUME AccountIInv, TruthIInv, NEW i \in DOMAIN commits
             PROVE  /\ DOMAIN Log[Len(commits) + 1 - i] = DOMAIN commits[i].ops
                    /\ commits[i].for = "push" =>
                         \A k \in DOMAIN commits[i].results :
                           LET r == commits[i].results[k]
                           IN /\ r.order # NoOrder => r.order = commits[i].ops[k]
                              /\ r.order # NoOrder /\ r.status # "Submitted" => orders[r.order] = r.status
  BY DEF HistoryTruthful
<1>1. CommitTrue(commits[i])
  BY DEF TruthIInv, Logs
<1>2. DOMAIN Log[Len(commits) + 1 - i] = DOMAIN commits[i].ops
  BY <1>1, LogOfCommit DEF AccountIInv, CommitTrue, OperationSummaries
<1>3. QED
  BY <1>1, <1>2 DEF CommitTrue, Executed

-----------------------------------------------------------------------------
(***************************************************************************)
(* The account implements the life of an operation: where an operation is  *)
(* tells its stage, and a step moves the operations of one batch.          *)
(***************************************************************************)
Staged(op)    == \E j \in DOMAIN staging : staging[j] = op
Held(for, op) == \E c \in Callers : call[c].for = for /\ \E j \in DOMAIN call[c].ops : call[c].ops[j] = op
InLog(log, for, op) ==
  \E i \in DOMAIN log : log[i].for = for /\ \E k \in DOMAIN log[i].ops : log[i].ops[k] = op
Kept(for, op) == InLog(commits, for, op)

LifeIs(op, stage) ==
  \/ stage = "new" /\ op \notin used
  \/ stage = "staged" /\ Staged(op)
  \/ stage = "executing" /\ Held("push", op)
  \/ stage = "rejecting" /\ Held("reject", op)
  \/ stage = "executed" /\ Kept("push", op)
  \/ stage = "rejected" /\ Kept("reject", op)
  \/ /\ stage = "lost" /\ op \in used /\ ~Staged(op)
     /\ \A for \in {"push", "reject"} : ~Held(for, op) /\ ~Kept(for, op)

LEMMA LifeUnfolded ==
  ASSUME NEW op \in Operations
  PROVE  /\ op \in ToSet(staging) <=> Staged(op)
         /\ \A for : (\E c \in Callers : call[c].for = for /\ op \in ToSet(call[c].ops)) <=> Held(for, op)
         /\ \A for : (\E i \in DOMAIN commits : commits[i].for = for /\ op \in ToSet(commits[i].ops))
                       <=> Kept(for, op)
BY DEF ToSet, Staged, Held, Kept, InLog

\* An operation is in one place only, and only an operation that was sent is in
\* a recorded push.
LEMMA OnePlace ==
  ASSUME AccountIInv, TruthIInv, NEW op \in Operations
  PROVE  /\ op \notin used => ~Staged(op) /\ \A for : ~Held(for, op) /\ (for # "sync" => ~Kept(for, op))
         /\ Staged(op) => \A for : ~Held(for, op) /\ (for # "sync" => ~Kept(for, op))
         /\ \A for, fur : Held(for, op) /\ Held(fur, op) => for = fur
         /\ \A for, fur : fur # "sync" => ~(Held(for, op) /\ Kept(fur, op))
         /\ ~(Kept("push", op) /\ Kept("reject", op))
<1>1. TakenOnce /\ commits \in Logs
  BY DEF AccountIInv, Logs
<1>2. \A for : for # "sync" /\ Kept(for, op) => Gone(op)
  BY <1>1 DEF TruthIInv, CommitTrue, Kept, InLog
<1>3. Gone(op) => op \in used /\ ~Staged(op) /\ \A for : ~Held(for, op)
  BY DEF Gone, Staged, Held
<1>4. Staged(op) => op \in used /\ \A for : ~Held(for, op)
  BY <1>1 DEF TakenOnce, Staged, Held
<1>5. \A for : Held(for, op) => op \in used
  BY <1>1 DEF TakenOnce, Held
<1>6. \A for, fur : Held(for, op) /\ Held(fur, op) => for = fur
  BY <1>1 DEF TakenOnce, Held
<1>7. Kept("push", op) => sent[op] > 0
  BY <1>1 DEF TruthIInv, CommitTrue, Executed, Kept, InLog
<1>8. Kept("reject", op) => sent[op] = 0
  BY <1>1 DEF AccountIInv, RejectedForGood, Kept, InLog
<1>9. ~(Kept("push", op) /\ Kept("reject", op))
  BY <1>7, <1>8
<1>10. QED
  BY <1>2, <1>3, <1>4, <1>5, <1>6, <1>9

LEMMA LifeFollows ==
  AccountIInv /\ TruthIInv =>
    \A op \in Operations :
      /\ \A stage : LifeIs(op, stage) => Life(op) = stage
      /\ LifeIs(op, Life(op))
<1> SUFFICES ASSUME AccountIInv, TruthIInv, NEW op \in Operations
             PROVE  /\ \A stage : LifeIs(op, stage) => Life(op) = stage
                    /\ LifeIs(op, Life(op))
  OBVIOUS
<1> DEFINE N == op \notin used
           S == Staged(op)
           X == Held("push", op)
           R == Held("reject", op)
           D == Kept("push", op)
           J == Kept("reject", op)
<1>1. Life(op) = CASE N -> "new" [] S -> "staged" [] X -> "executing" [] R -> "rejecting"
                   [] D -> "executed" [] J -> "rejected" [] OTHER -> "lost"
  BY LifeUnfolded DEF Life
<1>2. /\ N => ~S /\ ~X /\ ~R /\ ~D /\ ~J
      /\ S => ~X /\ ~R /\ ~D /\ ~J
      /\ X => ~R /\ ~D /\ ~J
      /\ R => ~D /\ ~J
      /\ D => ~J
  BY OnePlace
<1>3. \A stage : LifeIs(op, stage) <=>
        \/ stage = "new" /\ N
        \/ stage = "staged" /\ S
        \/ stage = "executing" /\ X
        \/ stage = "rejecting" /\ R
        \/ stage = "executed" /\ D
        \/ stage = "rejected" /\ J
        \/ stage = "lost" /\ ~N /\ ~S /\ ~X /\ ~R /\ ~D /\ ~J
  BY DEF LifeIs
<1> HIDE DEF N, S, X, R, D, J
<1>4. QED
  BY <1>1, <1>2, <1>3

LEMMA LifeFollowsNext ==
  AccountIInv' /\ TruthIInv' => (\A op \in Operations : \A l : LifeIs(op, l) => Life(op) = l)'
<1>1. AccountIInv /\ TruthIInv => \A op \in Operations : \A l : LifeIs(op, l) => Life(op) = l
  BY LifeFollows
<1>2. QED
  BY <1>1, PTL

\* A step that moves the operations of S to a stage, and no others.
LEMMA MoveBy ==
  ASSUME AccountIInv, TruthIInv, AccountIInv', TruthIInv', NEW S, NEW stage,
         \A op \in Operations \cap S : LifeIs(op, stage)',
         \A op \in Operations \ S : \A l : LifeIs(op, l) => LifeIs(op, l)'
  PROVE  Lifecycle!Move(S, stage)
<1>1. \A op \in Operations : (\A l : LifeIs(op, l) => Life(op) = l) /\ LifeIs(op, Life(op))
  BY LifeFollows
<1>2. (\A op \in Operations : \A l : LifeIs(op, l) => Life(op) = l)'
  BY LifeFollowsNext
<1>3. \A op \in Operations : Life(op)' = IF op \in S THEN stage ELSE Life(op)
  <2>1. SUFFICES ASSUME NEW op \in Operations
                 PROVE  Life(op)' = IF op \in S THEN stage ELSE Life(op)
    OBVIOUS
  <2>2. PICK l : l = Life(op) /\ LifeIs(op, l)
    BY <1>1
  <2>3. QED
    BY <1>2, <2>2
<1>4. QED
  BY <1>3 DEF Lifecycle!Move

LifeMap == [op \in Operations |-> Life(op)]
SentMap == {op \in Operations : sent[op] > 0}

LifeStep == [Lifecycle!Next]_<<LifeMap, SentMap>>

BothIInv == AccountIInv /\ TruthIInv

\* While no operation changes its place, none changes its stage.
LEMMA LifeStays ==
  ASSUME BothIInv, BothIInv', UNCHANGED <<used, staging>>,
         \A op \in Operations : \A for \in {"push", "reject"} :
           /\ Held(for, op)' <=> Held(for, op)
           /\ Kept(for, op)' <=> Kept(for, op)
  PROVE  LifeMap' = LifeMap
<1>1. \A op \in Operations : Staged(op)' <=> Staged(op)
  BY DEF Staged
<1>2. \A op \in Operations : \A l : LifeIs(op, l) => LifeIs(op, l)'
  BY <1>1 DEF LifeIs
<1>3. Lifecycle!Move({}, "lost")
  BY <1>2, MoveBy DEF BothIInv
<1>4. QED
  BY <1>3 DEF Lifecycle!Move, LifeMap

\* What the calls hold, if they keep their batches and what they are for.
LEMMA HeldStays ==
  ASSUME \A c \in Callers :
           \/ call'[c].for = call[c].for /\ call'[c].ops = call[c].ops
           \/ call'[c].ops = <<>> /\ call[c].ops = <<>>,
         NEW op, NEW for
  PROVE  Held(for, op)' <=> Held(for, op)
BY DEF Held

\* The stage of what lies where, after a step as before it.
LEMMA StageOf ==
  ASSUME BothIInv, NEW op \in Operations
  PROVE  /\ Staged(op) => LifeMap[op] = "staged"
         /\ Held("push", op) => LifeMap[op] = "executing"
         /\ Held("reject", op) => LifeMap[op] = "rejecting"
         /\ op \notin used => LifeMap[op] = "new"
         /\ op \in used => LifeMap[op] # "new"
         /\ LifeMap[op] = "staged" => Staged(op)
<1>1. (\A l : LifeIs(op, l) => Life(op) = l) /\ LifeIs(op, Life(op))
  BY LifeFollows DEF BothIInv
<1>2. LifeMap[op] = Life(op)
  BY DEF LifeMap
<1>3. QED
  BY <1>1, <1>2 DEF LifeIs

LEMMA AddLife ==
  ASSUME BothIInv, BothIInv', NEW o \in Operations, Add(o)
  PROVE  LifeStep
<1>1. staging \in Seq(Operations) /\ o \notin used
  BY DEF BothIInv, AccountIInv, TypeOK, Add
<1>2. /\ staging' = Append(staging, o) /\ used' = used \cup {o}
      /\ UNCHANGED <<call, commits, sent>>
  BY DEF Add
<1>3. \A op : Staged(op)' <=> op = o \/ Staged(op)
  <2>1. /\ \A j \in DOMAIN staging' : staging'[j] = o \/ (j \in DOMAIN staging /\ staging'[j] = staging[j])
        /\ Len(staging) + 1 \in DOMAIN staging' /\ staging'[Len(staging) + 1] = o
        /\ \A j \in DOMAIN staging : j \in DOMAIN staging' /\ staging'[j] = staging[j]
    BY <1>1, <1>2
  <2>2. QED
    BY <2>1 DEF Staged
<1>4. \A op, for : (Held(for, op)' <=> Held(for, op)) /\ (Kept(for, op)' <=> Kept(for, op))
  BY <1>2 DEF Held, Kept, InLog
<1>5. LifeIs(o, "staged")'
  BY <1>3 DEF LifeIs
<1>6. \A op \in Operations \ {o} : \A l : LifeIs(op, l) => LifeIs(op, l)'
  BY <1>2, <1>3, <1>4 DEF LifeIs
<1>7. Lifecycle!Move({o}, "staged")
  BY <1>5, <1>6, MoveBy DEF BothIInv
<1>8. LifeMap[o] = "new"
  BY <1>1, StageOf
<1>9. Lifecycle!Stage(o)
  BY <1>2, <1>7, <1>8 DEF Lifecycle!Stage, LifeMap, SentMap
<1>10. QED
  BY <1>9 DEF LifeStep, Lifecycle!Next

\* The stages of a batch in the hands of a call, and of one in the history.
WhenTaken(for)   == IF for = "push" THEN "executing" ELSE "rejecting"
WhenSettled(for) == IF for = "push" THEN "executed" ELSE "rejected"

\* All that is staged goes into one batch.
LEMMA TakeLife ==
  ASSUME BothIInv, BothIInv', NEW c \in Callers, NEW for \in {"push", "reject"}, NEW at,
         TakePending(c, for, at)
  PROVE  LifeStep
<1>1. /\ call \in [Callers -> Calls] /\ CallInOrder(call[c]) /\ call[c].at = "idle"
  BY DEF BothIInv, AccountIInv, TypeOK, CallsInOrder, TakePending
<1>2. /\ call[c].ops = <<>> /\ call'[c].ops = staging /\ call'[c].for = for
      /\ \A d \in Callers \ {c} : call'[d] = call[d]
      /\ staging' = <<>> /\ UNCHANGED <<used, commits, sent>>
  BY <1>1 DEF TakePending, At, CallInOrder
<1>3. PICK S : S = {op \in Operations : Staged(op)}
  OBVIOUS
<1>4. \A op : /\ ~Staged(op)'
              /\ Staged(op) => Held(for, op)'
              /\ \A fur : Held(fur, op)' => Held(fur, op) \/ (Staged(op) /\ fur = for)
              /\ \A fur : Held(fur, op) => Held(fur, op)'
              /\ \A fur : Kept(fur, op)' <=> Kept(fur, op)
  BY <1>2 DEF Staged, Held, Kept, InLog
<1>5. \A op \in S : LifeIs(op, WhenTaken(for))'
  BY <1>3, <1>4 DEF LifeIs, WhenTaken
<1>6. \A op \in Operations \ S : \A l : LifeIs(op, l) => LifeIs(op, l)'
  BY <1>2, <1>3, <1>4 DEF LifeIs
<1>7. Lifecycle!Move(S, WhenTaken(for))
  BY <1>5, <1>6, MoveBy DEF BothIInv
<1>8. S = {op \in Operations : LifeMap[op] = "staged"}
  BY <1>3, StageOf
<1>9. SentMap' = SentMap
  BY <1>2 DEF SentMap
<1>10. CASE S = {}
  BY <1>7, <1>9, <1>10 DEF LifeStep, Lifecycle!Move, LifeMap
<1>11. CASE S # {}
  <2>1. Lifecycle!Take
    BY <1>7, <1>8, <1>9, <1>11 DEF Lifecycle!Take, WhenTaken, Lifecycle!At, LifeMap, SentMap
  <2>2. QED
    BY <2>1 DEF LifeStep, Lifecycle!Next
<1>12. QED
  BY <1>10, <1>11

LEMMA DispatchLife ==
  ASSUME BothIInv, BothIInv', NEW c \in Callers, Dispatch(c)
  PROVE  LifeStep
<1> DEFINE n == Len(call[c].results) + 1
<1>1. TypeOK /\ CallsInOrder /\ call[c] \in Calls /\ sent \in [Operations -> Nat]
  BY DEF BothIInv, AccountIInv, TypeOK
<1>2. /\ n \in DOMAIN call[c].ops /\ NextOp(c) \in Operations /\ NextOp(c) = call[c].ops[n]
      /\ Len(call[c].results) \in Nat /\ call[c].for = "push"
  BY <1>1, DispatchStep, NextOpTyped DEF NextOp, Calls, CallsInOrder, CallInOrder
<1>3. Held("push", NextOp(c)) /\ sent[NextOp(c)] = 0
  BY <1>2 DEF BothIInv, AccountIInv, TakenOnce, Held
<1>4. /\ UNCHANGED <<used, staging, commits>>
      /\ \A d \in Callers : call'[d].for = call[d].for /\ call'[d].ops = call[d].ops
      /\ sent' = [sent EXCEPT ![NextOp(c)] = @ + 1]
  BY <1>1, DispatchStep DEF git
<1>5. LifeMap' = LifeMap
  BY <1>4, HeldStays, LifeStays DEF Kept, InLog
<1>6. PICK op \in Operations : op = NextOp(c)
  BY <1>2
<1>7. SentMap' = SentMap \cup {op} /\ op \notin SentMap
  BY <1>1, <1>3, <1>4, <1>6 DEF SentMap
<1>8. LifeMap[op] = "executing"
  BY <1>3, <1>6, StageOf
<1>9. Lifecycle!Send(op)
  BY <1>5, <1>7, <1>8 DEF Lifecycle!Send, LifeMap, SentMap
<1>10. QED
  BY <1>9 DEF LifeStep, Lifecycle!Next

\* A recorded batch settles.
LEMMA RecordLife ==
  ASSUME BothIInv, BothIInv', [Next]_vars, NEW c \in Callers, Recording(c)
  PROVE  LifeStep
<1>1. /\ TypeOK /\ CallsInOrder /\ call \in [Callers -> Calls] /\ commits \in Seq(CommitRecords)
      /\ call[c].at = "record" /\ CallTrue(sent, orders, call[c]) /\ CallInOrder(call[c])
      /\ call[c].for \in {"push", "reject", "sync"} /\ call[c].ops \in Seq(Operations)
  BY DEF BothIInv, AccountIInv, TypeOK, TruthIInv, CallsInOrder, Calls, Recording, RecordPush,
         RecordReject, RecordSync, Record
<1>2. PICK r \in CommitRecords :
        commits' = Append(commits, r) /\ r.for = call[c].for /\ RecordedOf(call[c], r)
  BY <1>1, RecordingStep
<1>3. /\ call'[c].ops = <<>> /\ \A d \in Callers \ {c} : call'[d] = call[d]
      /\ UNCHANGED <<staging, used, sent>>
  BY <1>1, RecordingStep DEF NoCall, At
<1>4. \A log, for, op : log = commits' =>
        (InLog(log, for, op) <=>
           InLog(commits, for, op) \/ (r.for = for /\ \E k \in DOMAIN r.ops : r.ops[k] = op))
  <2>1. /\ \A i \in DOMAIN commits' : commits'[i] = r \/ (i \in DOMAIN commits /\ commits'[i] = commits[i])
        /\ \A i \in DOMAIN commits : i \in DOMAIN commits' /\ commits'[i] = commits[i]
        /\ Len(commits) + 1 \in DOMAIN commits' /\ commits'[Len(commits) + 1] = r
    BY <1>1, <1>2
  <2>2. QED
    BY <2>1 DEF InLog
<1>5. \A for, op : Kept(for, op)' <=>
        Kept(for, op) \/ (r.for = for /\ \E k \in DOMAIN r.ops : r.ops[k] = op)
  BY <1>4 DEF Kept
<1>6. SentMap' = SentMap
  BY <1>3 DEF SentMap
<1>7. CASE call[c].for = "sync"
  <2>1. \A op \in Operations : \A for \in {"push", "reject"} : Kept(for, op)' <=> Kept(for, op)
    BY <1>2, <1>5, <1>7
  <2>2. call[c].ops = <<>>
    BY <1>1, <1>7 DEF CallInOrder
  <2>3. \A op \in Operations : \A for : Held(for, op)' <=> Held(for, op)
    BY <1>3, <2>2 DEF Held
  <2>4. LifeMap' = LifeMap
    BY <1>3, <2>1, <2>3, LifeStays
  <2>5. QED
    BY <1>6, <2>4 DEF LifeStep
<1>8. ASSUME NEW for \in {"push", "reject"}, call[c].for = for
      PROVE  LifeStep
  <2>1. PICK S : S = {op \in Operations : \E k \in DOMAIN call[c].ops : call[c].ops[k] = op}
    OBVIOUS
  <2>2. r.ops = call[c].ops
    BY <1>2, <1>8 DEF RecordedOf
  <2>3. \A op \in S : Kept(for, op)'
    BY <1>2, <1>5, <1>8, <2>1, <2>2
  <2>4. \A op \in Operations \ S : \A fur :
          /\ Held(fur, op)' <=> Held(fur, op)
          /\ Kept(fur, op)' <=> Kept(fur, op)
    BY <1>3, <1>5, <2>1, <2>2 DEF Held
  <2>5. \A op \in S : LifeIs(op, WhenSettled(for))'
    BY <1>8, <2>3 DEF LifeIs, WhenSettled
  <2>6. \A op \in Operations \ S : \A l : LifeIs(op, l) => LifeIs(op, l)'
    BY <1>3, <2>4 DEF LifeIs, Staged
  <2>7. Lifecycle!Move(S, WhenSettled(for))
    BY <2>1, <2>5, <2>6, MoveBy DEF BothIInv
  <2>8. \A op \in S : Held(for, op)
    BY <1>8, <2>1 DEF Held
  <2>9. S \subseteq {op \in Operations : LifeMap[op] = WhenTaken(for)}
    BY <2>1, <2>8, StageOf DEF WhenTaken
  <2>10. for = "push" => S \subseteq SentMap
    <3>1. for = "push" => DOMAIN call[c].results = DOMAIN call[c].ops
                          /\ Executed(sent, orders, call[c].ops, call[c].results)
      BY <1>1, <1>8 DEF CallTrue
    <3>2. QED
      BY <2>1, <3>1 DEF Executed, SentMap
  <2>11. Lifecycle!Settle(S)
    BY <1>6, <1>8, <2>7, <2>9, <2>10 DEF Lifecycle!Settle, WhenTaken, WhenSettled, Lifecycle!At, LifeMap, SentMap
  <2>12. S \in SUBSET Operations
    BY <2>1
  <2>13. QED
    BY <2>11, <2>12 DEF LifeStep, Lifecycle!Next
<1>9. CASE call[c].for = "push"
  BY <1>8, <1>9
<1>10. CASE call[c].for = "reject"
  BY <1>8, <1>10
<1>11. QED
  BY <1>1, <1>7, <1>9, <1>10

\* A batch whose snapshot fails is lost.
LEMMA SnapshotFailsLife ==
  ASSUME BothIInv, BothIInv', NEW c \in Callers, SnapshotFails(c)
  PROVE  LifeStep
<1>1. call \in [Callers -> Calls] /\ TakenOnce
  BY DEF BothIInv, AccountIInv, TypeOK
<1>2. /\ call'[c].ops = <<>> /\ \A d \in Callers \ {c} : call'[d] = call[d]
      /\ UNCHANGED <<staging, used, commits, sent>>
  BY <1>1 DEF SnapshotFails, NoCall, At, git
<1>3. PICK S : S = {op \in Operations : \E k \in DOMAIN call[c].ops : call[c].ops[k] = op}
  OBVIOUS
<1>4. \A op \in S : /\ op \in used /\ ~Staged(op)
                    /\ \A for : ~Held(for, op)'
                    /\ Held(call[c].for, op)
  <2>1. SUFFICES ASSUME NEW k \in DOMAIN call[c].ops, NEW op, op = call[c].ops[k]
                 PROVE  /\ op \in used /\ ~Staged(op)
                        /\ \A for : ~Held(for, op)'
                        /\ Held(call[c].for, op)
    BY <1>3
  <2>2. \A d \in Callers \ {c} : \A j \in DOMAIN call[d].ops : call[d].ops[j] # op
    BY <1>1, <2>1 DEF TakenOnce
  <2>3. op \in used /\ ~Staged(op)
    BY <1>1, <2>1 DEF TakenOnce, Staged
  <2>4. QED
    BY <1>2, <2>1, <2>2, <2>3 DEF Held
<1>5. \A op \in S : \A for \in {"push", "reject"} : ~Kept(for, op)
  BY <1>3, <1>4, OnePlace DEF BothIInv
<1>6. \A op \in S : LifeIs(op, "lost")'
  BY <1>2, <1>4, <1>5 DEF LifeIs, Staged, Kept, InLog
<1>7. \A op \in Operations \ S : \A for : Held(for, op)' <=> Held(for, op)
  BY <1>2, <1>3 DEF Held
<1>8. \A op \in Operations \ S : \A l : LifeIs(op, l) => LifeIs(op, l)'
  BY <1>2, <1>7 DEF LifeIs, Staged, Kept, InLog
<1>9. Lifecycle!Move(S, "lost")
  BY <1>6, <1>8, MoveBy DEF BothIInv
<1>10. \A op \in S : LifeMap[op] # "new"
  BY <1>3, <1>4, StageOf
<1>11. Lifecycle!Lose(S) /\ S \in SUBSET Operations
  BY <1>2, <1>3, <1>9, <1>10 DEF Lifecycle!Lose, Lifecycle!At, LifeMap, SentMap
<1>12. QED
  BY <1>11 DEF LifeStep, Lifecycle!Next

\* A restart loses whatever the exported history does not hold.
LEMMA RestartLife ==
  ASSUME BothIInv, BothIInv', Restart
  PROVE  LifeStep
<1>1. SavedKept /\ saved.commits \in Logs /\ saved.commits \in Seq(CommitRecords)
  BY DEF BothIInv, TruthIInv, AccountIInv, TypeOK, Logs
<1>2. /\ staging' = <<>> /\ commits' = saved.commits /\ UNCHANGED <<used, sent>>
      /\ \A d \in Callers : call'[d].ops = <<>>
  BY DEF Restart, NoCall, At
<1>3. \A op : ~Staged(op)' /\ \A for : ~Held(for, op)'
  BY <1>2 DEF Staged, Held
<1>4. \A for, op : Kept(for, op)' <=> InLog(saved.commits, for, op)
  BY <1>2 DEF Kept, InLog
<1>5. \A for, op : Kept(for, op)' => Kept(for, op)
  BY <1>1, <1>4 DEF SavedKept, Kept, InLog
<1>6. PICK S : S = {op \in Operations \cap used : \A for \in {"push", "reject"} : ~InLog(saved.commits, for, op)}
  OBVIOUS
<1>7. \A op \in S : LifeIs(op, "lost")'
  BY <1>2, <1>3, <1>4, <1>6 DEF LifeIs
<1>8. ASSUME NEW op \in Operations \ S, NEW l, LifeIs(op, l) PROVE LifeIs(op, l)'
  <2>1. CASE op \notin used
    <3>1. l = "new"
      BY <1>8, <2>1, OnePlace DEF BothIInv, LifeIs
    <3>2. QED
      BY <1>2, <2>1, <3>1 DEF LifeIs
  <2>2. CASE op \in used
    <3>1. PICK for \in {"push", "reject"} : InLog(saved.commits, for, op)
      BY <1>6, <1>8, <2>2
    <3>2. Kept(for, op)' /\ Kept(for, op)
      BY <1>4, <1>5, <3>1
    <3>3. l = IF for = "push" THEN "executed" ELSE "rejected"
      BY <1>8, <2>2, <3>1, <3>2, OnePlace DEF BothIInv, LifeIs
    <3>4. QED
      BY <3>1, <3>2, <3>3 DEF LifeIs
  <2>3. QED
    BY <2>1, <2>2
<1>9. Lifecycle!Move(S, "lost")
  BY <1>7, <1>8, MoveBy DEF BothIInv
<1>10. \A op \in S : LifeMap[op] # "new"
  BY <1>6, StageOf
<1>11. Lifecycle!Lose(S) /\ S \in SUBSET Operations
  BY <1>2, <1>6, <1>9, <1>10 DEF Lifecycle!Lose, Lifecycle!At, LifeMap, SentMap
<1>12. QED
  BY <1>11 DEF LifeStep, Lifecycle!Next

\* The other steps are no step in the life of an operation.
LEMMA StutterLife ==
  ASSUME BothIInv, BothIInv',
         \/ \E c \in Callers : Quiet(c) /\ ~SnapshotFails(c)
         \/ Commit
         \/ \E o \in Placing : SettleOrder(o)
         \/ ExportState
         \/ UNCHANGED vars
  PROVE  LifeStep
<1>1. call \in [Callers -> Calls] /\ CallsInOrder
  BY DEF BothIInv, AccountIInv, TypeOK
<1>2. /\ UNCHANGED <<used, staging, commits, sent>>
      /\ \A d \in Callers :
           \/ call'[d].for = call[d].for /\ call'[d].ops = call[d].ops
           \/ call'[d].ops = <<>> /\ call[d].ops = <<>>
  <2>1. ASSUME NEW c \in Callers, Snapshot(c) \/ SyncRead(c) \/ QueryOrders(c) \/ QueryFails(c)
        PROVE  /\ UNCHANGED <<used, staging, commits, sent>>
               /\ \A d \in Callers :
                    \/ call'[d].for = call[d].for /\ call'[d].ops = call[d].ops
                    \/ call'[d].ops = <<>> /\ call[d].ops = <<>>
    <3>1. UNCHANGED <<used, staging, commits, sent>>
      BY <2>1 DEF Snapshot, SyncRead, QueryOrders, QueryFails, git, history
    <3>2. \A d \in Callers \ {c} : call'[d] = call[d]
      BY <1>1, <2>1 DEF Snapshot, SyncRead, QueryOrders, QueryFails
    <3>3. CASE Snapshot(c) \/ QueryOrders(c)
      BY <1>1, <3>1, <3>2, <3>3 DEF Snapshot, QueryOrders, Calls
    <3>4. CASE SyncRead(c) \/ QueryFails(c)
      <4>1. call[c].at \in {"idle", "query"} /\ call'[c].ops = <<>>
        BY <1>1, <3>4 DEF SyncRead, QueryFails, NoCall, At
      <4>2. call[c].ops = <<>>
        BY <1>1, <4>1 DEF CallsInOrder, CallInOrder
      <4>3. QED
        BY <3>1, <3>2, <4>1, <4>2
    <3>5. QED
      BY <2>1, <3>3, <3>4
  <2>2. CASE Commit \/ ExportState \/ UNCHANGED vars \/ \E o \in Placing : SettleOrder(o)
    BY <2>2 DEF Commit, SettleOrder, ExportState, vars, git, history
  <2>3. QED
    BY <2>1, <2>2 DEF Quiet
<1>3. LifeMap' = LifeMap
  BY <1>2, HeldStays, LifeStays DEF Kept, InLog
<1>4. SentMap' = SentMap
  BY <1>2 DEF SentMap
<1>5. QED
  BY <1>3, <1>4 DEF LifeStep

LEMMA EveryStepLife ==
  BothIInv /\ BothIInv' /\ [Next]_vars => LifeStep
<1> SUFFICES ASSUME BothIInv, BothIInv', [Next]_vars PROVE LifeStep
  OBVIOUS
<1>1. ASSUME NEW c \in Callers, Quiet(c) PROVE LifeStep
  BY <1>1, SnapshotFailsLife, StutterLife
<1>2. ASSUME NEW c \in Callers, Dispatch(c) \/ Recording(c) PROVE LifeStep
  BY <1>2, DispatchLife, RecordLife
<1>3. ASSUME NEW c \in Callers,
             TakePending(c, "push", "dispatch") \/ TakePending(c, "reject", "snapshot")
      PROVE  LifeStep
  BY <1>3, TakeLife
<1>4. ASSUME NEW op \in Operations, Add(op) PROVE LifeStep
  BY <1>4, AddLife
<1>5. CASE Restart
  BY <1>5, RestartLife
<1>6. CASE Commit \/ ExportState \/ UNCHANGED vars \/ \E o \in Placing : SettleOrder(o)
  BY <1>6, StutterLife
<1>7. QED
  BY <1>1, <1>2, <1>3, <1>4, <1>5, <1>6, StepKinds

LEMMA InitLife == Init => Lifecycle!Init
<1> SUFFICES ASSUME Init PROVE Lifecycle!Init
  OBVIOUS
<1>1. \A op \in Operations : Life(op) = "new"
  BY InitAccountIInv, InitTruth, LifeFollows DEF Init, LifeIs
<1>2. {op \in Operations : sent[op] > 0} = {}
  BY DEF Init
<1>3. QED
  BY <1>1, <1>2 DEF Lifecycle!Init

-----------------------------------------------------------------------------
\* The histories of an account are true, whatever the broker does and whatever
\* is restarted: an inductive invariant.
THEOREM TruthInvariant == Spec => []TruthIInv
BY AccountInvariant, InitTruth, TruthStep, PTL DEF Spec

\* What the log of an account tells of a push is what the broker did, operation by
\* operation (record_commit and log of trading_git.rs).
THEOREM HistoryIsTrue == Spec => []HistoryTruthful
BY AccountInvariant, TruthInvariant, TruthImplied, PTL

\* stage -> commit -> push (trading_git.rs:1-9) is a life of each operation: taken
\* with its batch, sent at most once and only to be executed, settled or lost for good.
THEOREM AccountImplementsLife == Spec => LifecycleSpec
<1>1. Spec => []BothIInv
  BY AccountInvariant, TruthInvariant, PTL DEF BothIInv
<1>2. BothIInv /\ BothIInv' /\ [Next]_vars => LifeStep
  BY EveryStepLife
<1>3. Init => Lifecycle!Init
  BY InitLife
<1>4. QED
  BY <1>1, <1>2, <1>3, PTL DEF Spec, LifecycleSpec, Lifecycle!Spec, LifeStep, LifeMap, SentMap
=============================================================================
