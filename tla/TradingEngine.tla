---------------------------- MODULE TradingEngine ----------------------------
(***************************************************************************)
(* The trading engine of crates/rara-trading-engine (engine.rs) with its   *)
(* guards, its CCXT broker (brokers/ccxt.rs) and the exchange behind it.   *)
(*                                                                         *)
(* execute_commit reads the account, asks the guards, announces every      *)
(* action on the bus, hands all of them to the broker and tells what came  *)
(* of each.  Between these steps other tasks and the exchange move, and    *)
(* every one of them may fail.                                             *)
(***************************************************************************)
EXTENDS Integers, Sequences, FiniteSets

CONSTANTS
  Tasks,            \* the tasks that call execute_commit
  Commits,          \* [strategy, actions]: the commits they pass
  Contracts,
  Pipeline,         \* the guards of the pipeline, in order
  Whitelist,        \* SymbolWhitelist.allowed
  MaxPct, Price,    \* MaxPositionSize: percent of the equity, estimated price
  PeakEquity, MaxDrawdownPct,   \* DrawdownLimit: peak, percent
  Equities,         \* what fetch_balance may answer
  MaxRetries,       \* OrderPollConfig.max_retries
  Endings,          \* what may end an order at the exchange, other than its fill
  MaxOrders,        \* bound: orders the exchange ever takes
  Faults            \* what may fail: "account", "create", "fetch", "publish"

GuardNames  == {"whitelist", "size", "drawdown"}
ActionKinds == {"place", "close", "cancel", "modify"}
Unknown     == -1       \* an amount the exchange leaves out of its answer

ASSUME EngineAssumption ==
  /\ Pipeline \in Seq(GuardNames) /\ Whitelist \subseteq Contracts
  /\ MaxPct \in Nat /\ Price \in Nat /\ PeakEquity \in Nat
  /\ MaxDrawdownPct \in 0 .. 100 /\ Equities \subseteq Nat
  /\ Endings \subseteq {"Cancelled", "Expired", "Rejected"}
  /\ MaxRetries \in Nat /\ MaxOrders \in Nat
  /\ Faults \subseteq {"account", "create", "fetch", "publish"}
  /\ \A c \in Commits :
       c.actions \in Seq([kind : ActionKinds, contract : Contracts, qty : Nat \ {0}])

VARIABLES
  orders,   \* the orders the exchange has taken; the id is the place
  topic,    \* the events of topic "trading", in order
  call,     \* call[t]: where the execute_commit of task t stands
  orphans   \* history: orders whose call ended without telling of them

engineVars == <<orders, topic, call, orphans>>

NoOrder == [id |-> 0, status |-> "Open", filled |-> Unknown]
NoCall  == [at |-> "idle", commit |-> [strategy |-> "", actions |-> <<>>],
            done |-> 0, order |-> NoOrder, polls |-> 0, results |-> <<>>]

EngineInit ==
  /\ orders = <<>> /\ topic = <<>> /\ orphans = {}
  /\ call = [t \in Tasks |-> NoCall]

Failing(f)  == f \in Faults
Current(t)  == call[t].commit.actions[call[t].done + 1]
AllDone(t)  == call[t].done = Len(call[t].commit.actions)
Return(t)   == call' = [call EXCEPT ![t] = NoCall]

\* The orders that task t still has to tell of.
Held(t) ==
  ({call[t].order.id} \ {0})
    \cup {call[t].results[i].order :
            i \in {i \in DOMAIN call[t].results : call[t].at = "push" \/ i > call[t].done}}

\* The call ends with an error, or is dropped; orders' is known.
Abandon(t) ==
  /\ Return(t)
  /\ orphans' = orphans \cup Held(t) \cup (DOMAIN orders' \ DOMAIN orders)

-----------------------------------------------------------------------------
(***************************************************************************)
(* The guards.  SentinelGate is left out: nothing blocks a contract.       *)
(***************************************************************************)
SymbolWhitelistRejects(actions) ==
  \E i \in DOMAIN actions : actions[i].contract \notin Whitelist

MaxPositionSizeRejects(actions, equity) ==
  \E i \in DOMAIN actions : 100 * actions[i].qty * Price > equity * MaxPct

DrawdownLimitRejects(equity) == 100 * equity < PeakEquity * (100 - MaxDrawdownPct)

Rejects(guard, actions, equity) ==
  CASE guard = "whitelist" -> SymbolWhitelistRejects(actions)
    [] guard = "size"      -> MaxPositionSizeRejects(actions, equity)
    [] guard = "drawdown"  -> DrawdownLimitRejects(equity)

\* GuardPipeline::run.
Allowed(actions, equity) == \A i \in DOMAIN Pipeline : ~Rejects(Pipeline[i], actions, equity)

-----------------------------------------------------------------------------
(***************************************************************************)
(* execute_commit up to the broker call.                                   *)
(***************************************************************************)
ExecuteCommit(t, c) ==
  /\ call[t].at = "idle"
  /\ c.actions # <<>>
  /\ call' = [call EXCEPT ![t] = [NoCall EXCEPT !.at = "account", !.commit = c]]

\* account_info: fetch_balance, then the positions out of the open orders.
AccountFails(t) ==
  /\ Failing("account")
  /\ call[t].at = "account"
  /\ Return(t)
  /\ UNCHANGED <<orders, topic, orphans>>

CheckGuards(t) ==
  /\ call[t].at = "account"
  /\ \E equity \in Equities :
       IF Allowed(call[t].commit.actions, equity)
       THEN call' = [call EXCEPT ![t].at = "submit"]
       ELSE Return(t)
  /\ UNCHANGED <<orders, topic, orphans>>

Tell(t, type, id, qty) ==
  topic' = Append(topic, [type |-> type, strategy |-> call[t].commit.strategy,
                          order |-> id, qty |-> qty])

\* Deviation: one event for the whole commit.
PublishSubmittedOnce(t) ==
  /\ call[t].at = "submit"
  /\ Tell(t, "Submitted", 0, Current(t).qty)
  /\ call' = [call EXCEPT ![t].done = 0, ![t].at = "push"]
  /\ UNCHANGED <<orders, orphans>>

\* One event per action, in order; after the last one the broker is called.
PublishSubmitted(t) ==
  /\ call[t].at = "submit"
  /\ Tell(t, "Submitted", 0, Current(t).qty)
  /\ call' = [call EXCEPT ![t].done = (@ + 1) % Len(call[t].commit.actions),
                          ![t].at = IF call[t].done + 1 = Len(call[t].commit.actions)
                                    THEN "push" ELSE "submit"]
  /\ UNCHANGED <<orders, orphans>>

\* A publish error leaves the events told so far.
PublishFails(t) ==
  /\ Failing("publish")
  /\ call[t].at \in {"submit", "outcome"}
  /\ UNCHANGED <<orders, topic>>
  /\ Abandon(t)

-----------------------------------------------------------------------------
(***************************************************************************)
(* The exchange, external: it takes orders, fills them in parts, closes,   *)
(* cancels, expires or rejects them, and may leave the amount filled out   *)
(* of its answers while it is zero.                                        *)
(***************************************************************************)
Terminal(status) == status \in {"Closed", "Cancelled", "Expired", "Rejected"}

Take(a, strategy) ==
  /\ Len(orders) < MaxOrders
  /\ orders' = Append(orders, [strategy |-> strategy, contract |-> a.contract,
                               qty |-> a.qty, filled |-> 0, status |-> "Open"])

FillPart(id) ==
  /\ orders[id].status \in {"Open", "Partial"} /\ orders[id].filled + 1 < orders[id].qty
  /\ orders' = [orders EXCEPT ![id].status = "Partial", ![id].filled = @ + 1]
  /\ UNCHANGED <<topic, call, orphans>>

Settle(id) ==
  /\ ~Terminal(orders[id].status)
  /\ \/ orders' = [orders EXCEPT ![id].status = "Closed", ![id].filled = orders[id].qty]
     \/ \E s \in Endings : orders' = [orders EXCEPT ![id].status = s]
  /\ UNCHANGED <<topic, call, orphans>>

\* An answer about the order: its state now.
Answer(os, id) ==
  {[id |-> id, status |-> os[id].status, filled |-> f] :
    f \in IF os[id].filled = 0 THEN {0, Unknown} ELSE {os[id].filled}}

-----------------------------------------------------------------------------
(***************************************************************************)
(* CcxtBroker::push.  The side is left out: ClosePosition is an order as    *)
(* any other, against the side of its action.                              *)
(***************************************************************************)
CreateOrder(t) ==
  /\ call[t].at = "push" /\ ~AllDone(t) /\ call[t].order = NoOrder
  /\ Current(t).kind \in {"place", "close"}
  /\ Take(Current(t), call[t].commit.strategy)
  /\ \E o \in Answer(orders', Len(orders')) : call' = [call EXCEPT ![t].order = o]
  /\ UNCHANGED <<topic, orphans>>

\* An error of create_order, which the exchange may have taken all the same:
\* the results of the actions before it are dropped with it.  At the bound on
\* the orders the exchange refuses.
CreateFails(t) ==
  /\ Failing("create") \/ Len(orders) = MaxOrders
  /\ call[t].at = "push" /\ ~AllDone(t) /\ call[t].order = NoOrder
  /\ Current(t).kind \in {"place", "close"}
  /\ \/ UNCHANGED orders
     \/ Take(Current(t), call[t].commit.strategy)
  /\ Abandon(t)
  /\ UNCHANGED <<topic>>

\* CancelOrder, and ModifyOrder which cancels first, pass the contract for the
\* id of the order: the exchange knows no such order, and the push ends.
CancelFails(t) ==
  /\ call[t].at = "push" /\ ~AllDone(t) /\ call[t].order = NoOrder
  /\ Current(t).kind \in {"cancel", "modify"}
  /\ UNCHANGED <<orders, topic>>
  /\ Abandon(t)

Polling(t) ==
  /\ call[t].at = "push" /\ call[t].order # NoOrder
  /\ ~Terminal(call[t].order.status) /\ call[t].polls < MaxRetries

\* Deviation: polling goes on until the order is final.
FetchUncounted(t) ==
  /\ Polling(t)
  /\ \E o \in Answer(orders, call[t].order.id) : call' = [call EXCEPT ![t].order = o]
  /\ UNCHANGED <<orders, topic, orphans>>

FetchOrder(t) ==
  /\ Polling(t)
  /\ \E o \in Answer(orders, call[t].order.id) :
       call' = [call EXCEPT ![t].order = o, ![t].polls = @ + 1]
  /\ UNCHANGED <<orders, topic, orphans>>

\* A failed fetch uses up an attempt.
FetchFails(t) ==
  /\ Failing("fetch")
  /\ Polling(t)
  /\ call' = [call EXCEPT ![t].polls = @ + 1]
  /\ UNCHANGED <<orders, topic, orphans>>

\* Deviation: a partial fill counts as filled.
PartialAsFilled(status) ==
  CASE status = "Open" -> "Submitted" [] status \in {"Partial", "Closed"} -> "Filled"
    [] status = "Cancelled" -> "Cancelled" [] OTHER -> "Rejected"

FromCcxtOrderStatus(status) ==
  CASE status \in {"Open", "Partial"} -> "Submitted" [] status = "Closed" -> "Filled"
    [] status = "Cancelled" -> "Cancelled" [] OTHER -> "Rejected"

\* order_to_result: the amount of the action stands in for one left out.
OrderToResult(o, a) ==
  [order |-> o.id, status |-> FromCcxtOrderStatus(o.status),
   qty |-> IF o.filled = Unknown THEN a.qty ELSE o.filled]

\* Polling ended, with a final status or out of attempts.
OrderDone(t) ==
  /\ call[t].at = "push" /\ call[t].order # NoOrder
  /\ Terminal(call[t].order.status) \/ call[t].polls = MaxRetries
  /\ call' = [call EXCEPT ![t].results = Append(@, OrderToResult(call[t].order, Current(t))),
                          ![t].done = @ + 1, ![t].order = NoOrder, ![t].polls = 0]
  /\ UNCHANGED <<orders, topic, orphans>>

PushReturns(t) ==
  /\ call[t].at = "push" /\ AllDone(t)
  /\ call' = [call EXCEPT ![t].at = "outcome", ![t].done = 0]
  /\ UNCHANGED <<orders, topic, orphans>>

-----------------------------------------------------------------------------
(***************************************************************************)
(* The outcome events.                                                     *)
(***************************************************************************)
OutcomeType(status) ==
  IF status \in {"Filled", "Rejected"} THEN status ELSE "Updated"

\* Deviation: the first result alone is told.
PublishFirstOutcome(t) ==
  /\ call[t].at = "outcome"
  /\ LET r == call[t].results[1] IN Tell(t, OutcomeType(r.status), r.order, r.qty)
  /\ Return(t)
  /\ UNCHANGED <<orders, orphans>>

PublishOutcome(t) ==
  /\ call[t].at = "outcome"
  /\ LET r == call[t].results[call[t].done + 1]
     IN  Tell(t, OutcomeType(r.status), r.order, r.qty)
  /\ IF call[t].done + 1 = Len(call[t].results)
     THEN Return(t)
     ELSE call' = [call EXCEPT ![t].done = @ + 1]
  /\ UNCHANGED <<orders, orphans>>

\* The task is dropped where it waits for the exchange; an order on its way
\* may still arrive.
Interrupted(t) ==
  /\ call[t].at \in {"account", "push"}
  /\ \/ UNCHANGED orders
     \/ /\ call[t].at = "push" /\ ~AllDone(t) /\ call[t].order = NoOrder
        /\ Current(t).kind \in {"place", "close"}
        /\ Take(Current(t), call[t].commit.strategy)
  /\ Abandon(t)
  /\ UNCHANGED <<topic>>

-----------------------------------------------------------------------------
EngineStep(t) ==
  \/ CheckGuards(t) \/ PublishSubmitted(t)
  \/ CreateOrder(t) \/ CancelFails(t) \/ FetchOrder(t) \/ OrderDone(t) \/ PushReturns(t)
  \/ PublishOutcome(t)

EngineFails(t) == AccountFails(t) \/ PublishFails(t) \/ CreateFails(t) \/ FetchFails(t)

Exchange == \E id \in DOMAIN orders : FillPart(id) \/ Settle(id)
=============================================================================
