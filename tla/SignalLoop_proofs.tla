------------------------- MODULE SignalLoop_proofs -------------------------
(***************************************************************************)
(* What the topic says of an order is final, for every number of tasks and *)
(* loops, any commits, pipeline, faults, polling limit and endings of an   *)
(* order.  The argument: an order that is final at the exchange stays as   *)
(* it is (OrdersGoOn), and every answer, result and event that a call      *)
(* makes of a final status agrees with the order (TellsFinal), however     *)
(* late it is published.  And every order is told once, which rests on who *)
(* holds it: one call that has yet to tell it, the exchange alone once     *)
(* that call is gone, or the topic (OneHolder, ToldOnce).  And the table   *)
(* of a strategy adds up: all that is told of an order is under the name   *)
(* of its strategy, and every order can be given an announcement of its    *)
(* own (Matched).                                                          *)
(***************************************************************************)
EXTENDS SignalLoop, FiniteSetTheorems, SequenceTheorems, TLAPS

Statuses == {"Open", "Partial"} \cup {"Closed", "Cancelled", "Expired", "Rejected"}

\* A sequence, whatever its elements are.
Listed(s) == \E S : s \in Seq(S)

OrderSound(o) ==
  /\ o \in [strategy : {o.strategy}, contract : {o.contract}, qty : Nat \ {0},
            filled : Nat, status : Statuses]
  /\ o.status = "Closed" => o.filled = o.qty

OrdersSound == Listed(orders) /\ \A id \in DOMAIN orders : OrderSound(orders[id])

\* A result or an event that calls an order filled or rejected is right.
TellsFinal(os, kind, id, qty) ==
  /\ kind = "Filled" => id \in DOMAIN os /\ os[id].status = "Closed" /\ qty = os[id].qty
  /\ kind = "Rejected" => id \in DOMAIN os /\ os[id].status \in {"Expired", "Rejected"}

TopicSound ==
  /\ Listed(topic)
  /\ \A i \in DOMAIN topic : TellsFinal(orders, topic[i].type, topic[i].order, topic[i].qty)

\* The last answer about the order in hand: final only if the order is.
AnswerSound(os, o) ==
  /\ o.id \in DOMAIN os
  /\ Terminal(o.status) => os[o.id].status = o.status
  /\ o.status = "Closed" => o.filled = os[o.id].qty /\ o.filled # Unknown

ResultsSound(os, results) ==
  \A i \in DOMAIN results : TellsFinal(os, results[i].status, results[i].order, results[i].qty)

CommitSound(c) ==
  /\ Listed(c.actions) /\ c.actions # <<>>
  /\ \A i \in DOMAIN c.actions : c.actions[i].qty \in Nat \ {0}

Answers == [id : Nat, status : Statuses, filled : Int]
Results == [order : Nat, status : {"Submitted", "Filled", "Cancelled", "Rejected"}, qty : Int]

CallType(C) ==
  [at : {"idle", "account", "submit", "push", "outcome"}, commit : C, done : Nat,
   order : Answers, polls : Nat, results : Seq(Results)]

\* Where a call stands in its actions and its results.
CallInStep(c) ==
  /\ c.at # "idle" => CommitSound(c.commit)
  /\ c.at = "account" => c.done = 0
  /\ c.at = "submit" => c.done < Len(c.commit.actions)
  /\ c.at \in {"idle", "account", "submit"} => c.results = <<>>
  /\ c.at # "push" => c.order = NoOrder
  /\ c.at = "push" => c.done <= Len(c.commit.actions) /\ Len(c.results) = c.done
  /\ c.order # NoOrder => c.done < Len(c.commit.actions)
  /\ c.at = "outcome" => c.done < Len(c.results)

CallSound(os, c) ==
  /\ CallInStep(c)
  /\ c.order = NoOrder \/ AnswerSound(os, c.order)
  /\ ResultsSound(os, c.results)

CallsSound ==
  /\ \E C : call \in [Tasks -> CallType(C)]
  /\ \A t \in Tasks : CallSound(orders, call[t])

EngineIInv == OrdersSound /\ TopicSound /\ CallsSound

-----------------------------------------------------------------------------
(***************************************************************************)
(* Sequences of anything.                                                  *)
(***************************************************************************)
LEMMA ListedLen ==
  ASSUME NEW s, Listed(s)
  PROVE  Len(s) \in Nat /\ DOMAIN s = 1 .. Len(s)
BY DEF Listed

LEMMA ListedAppend ==
  ASSUME NEW s, Listed(s), NEW x
  PROVE  /\ Listed(Append(s, x)) /\ Len(Append(s, x)) = Len(s) + 1
         /\ DOMAIN Append(s, x) = DOMAIN s \cup {Len(s) + 1}
         /\ \A i \in DOMAIN s : Append(s, x)[i] = s[i]
         /\ Append(s, x)[Len(s) + 1] = x
<1>1. PICK S : s \in Seq(S)
  BY DEF Listed
<1> DEFINE T == S \cup {x}
<1>2. s \in Seq(T) /\ x \in T
  BY <1>1, SeqMonotonic
<1> HIDE DEF T
<1>3. /\ Append(s, x) \in Seq(T) /\ Len(Append(s, x)) = Len(s) + 1
      /\ \A i \in 1 .. Len(s) : Append(s, x)[i] = s[i]
      /\ Append(s, x)[Len(s) + 1] = x
  BY <1>2, AppendProperties
<1>4. /\ DOMAIN s = 1 .. Len(s) /\ Len(s) \in Nat
      /\ DOMAIN Append(s, x) = 1 .. Len(s) + 1
  BY <1>2, <1>3
<1>5. 1 .. Len(s) + 1 = (1 .. Len(s)) \cup {Len(s) + 1}
  BY <1>4
<1>6. QED
  BY <1>3, <1>4, <1>5 DEF Listed

LEMMA ListedExcept ==
  ASSUME NEW s, Listed(s), NEW i \in DOMAIN s, NEW x
  PROVE  /\ Listed([s EXCEPT ![i] = x])
         /\ DOMAIN [s EXCEPT ![i] = x] = DOMAIN s
         /\ [s EXCEPT ![i] = x][i] = x
         /\ \A j \in DOMAIN s : j # i => [s EXCEPT ![i] = x][j] = s[j]
<1>1. PICK S : s \in Seq(S)
  BY DEF Listed
<1>2. s \in Seq(S \cup {x})
  BY <1>1, SeqMonotonic
<1>3. [s EXCEPT ![i] = x] \in Seq(S \cup {x})
  BY <1>2
<1>4. QED
  BY <1>1, <1>3 DEF Listed

-----------------------------------------------------------------------------
(***************************************************************************)
(* The exchange: an order that is final stays as it is.                    *)
(***************************************************************************)
OrdersGoOn ==
  \A id \in DOMAIN orders :
    /\ id \in DOMAIN orders' /\ orders'[id].qty = orders[id].qty
    /\ orders'[id].strategy = orders[id].strategy
    /\ Terminal(orders[id].status) => orders'[id].status = orders[id].status

LEMMA TakeGoesOn ==
  ASSUME OrdersSound, NEW a, a.qty \in Nat \ {0}, NEW strategy, Take(a, strategy)
  PROVE  /\ OrdersSound' /\ OrdersGoOn
         /\ Len(orders') = Len(orders) + 1
         /\ DOMAIN orders' = DOMAIN orders \cup {Len(orders')}
         /\ Len(orders') \in Nat \ {0} /\ Len(orders') \notin DOMAIN orders
<1> DEFINE o == [strategy |-> strategy, contract |-> a.contract, qty |-> a.qty,
                 filled |-> 0, status |-> "Open"]
<1>1. orders' = Append(orders, o)
  BY DEF Take
<1>2. OrderSound(o)
  BY DEF OrderSound, Statuses
<1> HIDE DEF o
<1>3. /\ Listed(orders') /\ Len(orders') = Len(orders) + 1
      /\ DOMAIN orders' = DOMAIN orders \cup {Len(orders) + 1}
      /\ \A id \in DOMAIN orders : orders'[id] = orders[id]
      /\ orders'[Len(orders) + 1] = o
  BY <1>1, ListedAppend DEF OrdersSound
<1>4. Len(orders) \in Nat /\ DOMAIN orders = 1 .. Len(orders)
  BY ListedLen DEF OrdersSound
<1>5. QED
  BY <1>2, <1>3, <1>4 DEF OrdersSound, OrdersGoOn

LEMMA OneOrderGoesOn ==
  ASSUME OrdersSound, NEW id \in DOMAIN orders, NEW o, OrderSound(o),
         orders' = [orders EXCEPT ![id] = o],
         o.qty = orders[id].qty, o.strategy = orders[id].strategy,
         ~Terminal(orders[id].status)
  PROVE  OrdersSound' /\ OrdersGoOn /\ DOMAIN orders' = DOMAIN orders
<1>1. /\ Listed(orders') /\ DOMAIN orders' = DOMAIN orders /\ orders'[id] = o
      /\ \A j \in DOMAIN orders : j # id => orders'[j] = orders[j]
  BY ListedExcept DEF OrdersSound
<1>2. QED
  BY <1>1 DEF OrdersSound, OrdersGoOn

\* An order with another status and another amount filled.
Changed(o, s, f) == [o EXCEPT !.status = s, !.filled = f]

LEMMA OrderChanged ==
  ASSUME NEW r, OrderSound(r), NEW s \in Statuses, NEW f \in Nat,
         s = "Closed" => f = r.qty
  PROVE  /\ OrderSound(Changed(r, s, f))
         /\ Changed(r, s, f).qty = r.qty /\ Changed(r, s, f).strategy = r.strategy
<1>1. r \in [strategy : {r.strategy}, contract : {r.contract}, qty : {r.qty},
             filled : Nat, status : Statuses] /\ r.qty \in Nat \ {0}
  BY DEF OrderSound
<1>2. PICK o : o = Changed(r, s, f)
  OBVIOUS
<1>3. /\ o \in [strategy : {r.strategy}, contract : {r.contract}, qty : {r.qty},
                filled : Nat, status : Statuses]
      /\ o.filled = f /\ o.status = s
  BY <1>1, <1>2 DEF Changed
<1>4. OrderSound(o) /\ o.qty = r.qty /\ o.strategy = r.strategy
  BY <1>1, <1>3 DEF OrderSound
<1>5. QED
  BY <1>2, <1>4

LEMMA ExchangeGoesOn ==
  ASSUME OrdersSound, Exchange
  PROVE  /\ OrdersSound' /\ OrdersGoOn /\ DOMAIN orders' = DOMAIN orders
         /\ UNCHANGED <<topic, call, orphans>>
<1>1. PICK id \in DOMAIN orders : FillPart(id) \/ Settle(id)
  BY DEF Exchange
<1>2. OrderSound(orders[id])
  BY DEF OrdersSound
<1>3. UNCHANGED <<topic, call, orphans>>
  BY <1>1 DEF FillPart, Settle
<1>4. CASE FillPart(id)
  <2>1. PICK o : o = Changed(orders[id], "Partial", orders[id].filled + 1)
    OBVIOUS
  <2>2. orders' = [orders EXCEPT ![id] = o] /\ ~Terminal(orders[id].status)
    BY <1>4, <2>1 DEF FillPart, Terminal, Changed
  <2>3. OrderSound(o) /\ o.qty = orders[id].qty /\ o.strategy = orders[id].strategy
    <3>1. orders[id].filled + 1 \in Nat /\ "Partial" \in Statuses
      BY <1>2 DEF OrderSound, Statuses
    <3>2. QED
      BY <1>2, <2>1, <3>1, OrderChanged
  <2>4. QED
    BY <1>3, <2>2, <2>3, OneOrderGoesOn
<1>5. CASE Settle(id)
  <2>1. PICK o : /\ orders' = [orders EXCEPT ![id] = o] /\ ~Terminal(orders[id].status)
                 /\ OrderSound(o) /\ o.qty = orders[id].qty
                 /\ o.strategy = orders[id].strategy
    <3>1. CASE orders' = [orders EXCEPT ![id].status = "Closed",
                                        ![id].filled = orders[id].qty]
      <4>1. PICK o : o = Changed(orders[id], "Closed", orders[id].qty)
        OBVIOUS
      <4>2. orders' = [orders EXCEPT ![id] = o] /\ ~Terminal(orders[id].status)
        BY <1>5, <3>1, <4>1 DEF Settle, Changed
      <4>3. orders[id].qty \in Nat /\ "Closed" \in Statuses
        BY <1>2 DEF OrderSound, Statuses
      <4>4. OrderSound(o) /\ o.qty = orders[id].qty /\ o.strategy = orders[id].strategy
        BY <1>2, <4>1, <4>3, OrderChanged
      <4>5. QED
        BY <4>2, <4>4
    <3>2. ASSUME NEW s \in Endings, orders' = [orders EXCEPT ![id].status = s]
          PROVE  \E o : /\ orders' = [orders EXCEPT ![id] = o]
                        /\ ~Terminal(orders[id].status)
                        /\ OrderSound(o) /\ o.qty = orders[id].qty
                        /\ o.strategy = orders[id].strategy
      <4> DEFINE o == [orders[id] EXCEPT !.status = s]
      <4>1. orders' = [orders EXCEPT ![id] = o] /\ ~Terminal(orders[id].status)
        BY <1>5, <3>2 DEF Settle
      <4>2. s \in Statuses /\ s # "Closed"
        BY EngineAssumption DEF Statuses
      <4>3. OrderSound(o) /\ o.qty = orders[id].qty /\ o.strategy = orders[id].strategy
        BY <1>2, <4>2 DEF OrderSound
      <4>4. QED
        BY <4>1, <4>3
    <3>3. QED
      BY <1>5, <3>1, <3>2 DEF Settle
  <2>2. QED
    BY <1>3, <2>1, OneOrderGoesOn
<1>6. QED
  BY <1>1, <1>4, <1>5

-----------------------------------------------------------------------------
(***************************************************************************)
(* What is sound stays sound while the orders go on.                       *)
(***************************************************************************)
LEMMA StaysSound ==
  ASSUME OrdersSound, OrdersGoOn
  PROVE  /\ \A kind, id, qty : TellsFinal(orders, kind, id, qty)
                                 => TellsFinal(orders', kind, id, qty)
         /\ \A c : CallSound(orders, c) => CallSound(orders', c)
<1>1. ASSUME NEW kind, NEW id, NEW qty, TellsFinal(orders, kind, id, qty)
      PROVE  TellsFinal(orders', kind, id, qty)
  BY <1>1 DEF TellsFinal, OrdersGoOn, Terminal
<1>2. ASSUME NEW o, AnswerSound(orders, o) PROVE AnswerSound(orders', o)
  <2>1. Terminal("Closed")
    BY DEF Terminal
  <2>2. QED
    BY <1>2, <2>1 DEF AnswerSound, OrdersGoOn
<1>3. QED
  BY <1>1, <1>2 DEF CallSound, ResultsSound

\* One call moves to c, or none.
LEMMA CallStep ==
  ASSUME EngineIInv, OrdersSound', OrdersGoOn, TopicSound',
         NEW C, call \in [Tasks -> CallType(C)], NEW t \in Tasks,
         NEW c \in CallType(C), CallSound(orders', c), call' = [call EXCEPT ![t] = c]
  PROVE  EngineIInv'
<1>1. call' \in [Tasks -> CallType(C)]
  OBVIOUS
<1>2. ASSUME NEW u \in Tasks PROVE CallSound(orders', call'[u])
  <2>1. CASE u = t
    BY <2>1
  <2>2. CASE u # t
    <3>1. call'[u] = call[u]
      BY <2>2
    <3>2. CallSound(orders, call[u]) /\ OrdersSound
      BY DEF EngineIInv, CallsSound
    <3>3. QED
      BY <3>1, <3>2, StaysSound
  <2>3. QED
    BY <2>1, <2>2
<1>3. QED
  BY <1>1, <1>2 DEF EngineIInv, CallsSound

LEMMA TopicStays ==
  ASSUME EngineIInv, OrdersGoOn, UNCHANGED topic
  PROVE  TopicSound'
<1>1. OrdersSound /\ TopicSound
  BY DEF EngineIInv
<1>2. QED
  BY <1>1, StaysSound DEF TopicSound

LEMMA OrdersStay ==
  ASSUME OrdersSound, UNCHANGED orders
  PROVE  OrdersSound' /\ OrdersGoOn
BY DEF OrdersSound, OrdersGoOn

LEMMA NoCallSound == \A os : CallSound(os, NoCall)
BY DEF CallSound, CallInStep, NoCall, NoOrder, ResultsSound

\* A set of commits that holds all of the calls and that of no call.
LEMMA CallsTyped ==
  ASSUME EngineIInv
  PROVE  \E C : call \in [Tasks -> CallType(C)] /\ NoCall \in CallType(C)
<1>1. PICK C : call \in [Tasks -> CallType(C)]
  BY DEF EngineIInv, CallsSound
<1> DEFINE D == C \cup {NoCall.commit}
<1>2. call \in [Tasks -> CallType(D)]
  BY <1>1 DEF CallType
<1>3. NoCall \in CallType(D)
  BY DEF CallType, NoCall, NoOrder, Answers, Statuses, Unknown
<1>4. QED
  BY <1>2, <1>3

\* A call that returns or is dropped.
LEMMA ReturnKeeps ==
  ASSUME EngineIInv, OrdersSound', OrdersGoOn, TopicSound', NEW t \in Tasks, Return(t)
  PROVE  EngineIInv'
<1>1. PICK C : call \in [Tasks -> CallType(C)] /\ NoCall \in CallType(C)
  BY CallsTyped
<1>2. call' = [call EXCEPT ![t] = NoCall]
  BY DEF Return
<1>3. QED
  BY <1>1, <1>2, NoCallSound, CallStep

LEMMA TellKeeps ==
  ASSUME EngineIInv, UNCHANGED orders, NEW t, NEW type, NEW id, NEW qty,
         Tell(t, type, id, qty), TellsFinal(orders, type, id, qty)
  PROVE  TopicSound'
<1> DEFINE e == [type |-> type, strategy |-> call[t].commit.strategy,
                 order |-> id, qty |-> qty]
<1>1. topic' = Append(topic, e)
  BY DEF Tell
<1>2. /\ Listed(topic') /\ DOMAIN topic' = DOMAIN topic \cup {Len(topic) + 1}
      /\ \A i \in DOMAIN topic : topic'[i] = topic[i]
      /\ topic'[Len(topic) + 1] = e
  BY <1>1, ListedAppend DEF EngineIInv, TopicSound
<1>3. e.type = type /\ e.order = id /\ e.qty = qty
  OBVIOUS
<1> HIDE DEF e
<1>4. QED
  BY <1>2, <1>3 DEF EngineIInv, TopicSound

-----------------------------------------------------------------------------
(***************************************************************************)
(* execute_commit up to the broker call.                                   *)
(***************************************************************************)
LEMMA ExecuteCommitKeeps ==
  ASSUME EngineIInv, NEW t \in Tasks, NEW m, CommitSound(m),
         ExecuteCommit(t, m), UNCHANGED <<orders, topic>>
  PROVE  EngineIInv'
<1>1. PICK C : call \in [Tasks -> CallType(C)] /\ NoCall \in CallType(C)
  BY CallsTyped
<1> DEFINE D == C \cup {m}
           c == [NoCall EXCEPT !.at = "account", !.commit = m]
<1>2. OrdersSound' /\ OrdersGoOn /\ TopicSound'
  BY OrdersStay, TopicStays DEF EngineIInv
<1>3. call \in [Tasks -> CallType(D)]
  BY <1>1 DEF CallType
<1>4. NoCall.done = 0 /\ NoCall.order = NoOrder /\ NoCall.results = <<>>
  BY DEF NoCall
<1>5. /\ c \in CallType(D) /\ c.at = "account" /\ c.commit = m
      /\ c.done = 0 /\ c.order = NoOrder /\ c.results = <<>>
  BY <1>1, <1>4 DEF CallType
<1>6. call' = [call EXCEPT ![t] = c]
  BY DEF ExecuteCommit
<1> HIDE DEF c, D
<1>7. CallSound(orders', c)
  BY <1>5 DEF CallSound, CallInStep, ResultsSound
<1>8. QED
  BY <1>2, <1>3, <1>5, <1>6, <1>7, CallStep

LEMMA CheckGuardsKeeps ==
  ASSUME EngineIInv, NEW t \in Tasks, CheckGuards(t) PROVE EngineIInv'
<1>1. /\ OrdersSound' /\ OrdersGoOn /\ TopicSound'
      /\ UNCHANGED orders
  BY OrdersStay, TopicStays DEF EngineIInv, CheckGuards
<1>2. CASE Return(t)
  BY <1>1, <1>2, ReturnKeeps
<1>3. CASE call' = [call EXCEPT ![t].at = "submit"]
  <2>1. PICK C : call \in [Tasks -> CallType(C)] /\ NoCall \in CallType(C)
    BY CallsTyped
  <2> DEFINE k == call[t]
             c == [k EXCEPT !.at = "submit"]
  <2>2. k \in CallType(C) /\ CallSound(orders, k) /\ k.at = "account"
    BY <2>1 DEF EngineIInv, CallsSound, CheckGuards
  <2>3. /\ c \in CallType(C) /\ c.at = "submit" /\ c.commit = k.commit
        /\ c.done = k.done /\ c.order = k.order /\ c.results = k.results
    BY <2>2 DEF CallType
  <2>4. call' = [call EXCEPT ![t] = c]
    BY <1>3, <2>1
  <2> HIDE DEF c, k
  <2>5. CommitSound(k.commit) /\ Len(k.commit.actions) > 0
    <3>1. Listed(k.commit.actions) /\ k.commit.actions # <<>> /\ CommitSound(k.commit)
      BY <2>2 DEF CallSound, CallInStep, CommitSound
    <3>2. QED
      BY <3>1 DEF Listed
  <2>6. CallSound(orders', c)
    BY <1>1, <2>2, <2>3, <2>5 DEF CallSound, CallInStep
  <2>7. QED
    BY <1>1, <2>1, <2>3, <2>4, <2>6, CallStep
<1>4. QED
  BY <1>2, <1>3 DEF CheckGuards

LEMMA NextOfCommit ==
  ASSUME NEW d \in Nat, NEW n \in Nat, d < n
  PROVE  /\ d + 1 = n => (d + 1) % n = 0
         /\ d + 1 # n => (d + 1) % n = d + 1
OBVIOUS

LEMMA PublishSubmittedStep ==
  ASSUME EngineIInv, NEW t \in Tasks, PublishSubmitted(t),
         NEW C, call \in [Tasks -> CallType(C)]
  PROVE  /\ UNCHANGED orders /\ call'[t] \in CallType(C)
         /\ \A u \in Tasks \ {t} : call'[u] = call[u]
         /\ call' = [call EXCEPT ![t] = call'[t]]
         /\ CommitSound(call[t].commit) /\ call'[t].commit = call[t].commit
         /\ call[t].at = "submit" /\ call[t].done \in Nat
         /\ call'[t].order = NoOrder /\ call'[t].results = <<>>
         /\ \/ /\ call'[t].at = "submit" /\ call'[t].done = call[t].done + 1
               /\ call[t].done + 1 < Len(call[t].commit.actions)
            \/ /\ call'[t].at = "push" /\ call'[t].done = 0
               /\ call[t].done + 1 = Len(call[t].commit.actions)
<1> DEFINE k == call[t]
           n == Len(k.commit.actions)
           d == (k.done + 1) % n
           a == IF k.done + 1 = n THEN "push" ELSE "submit"
           c == [k EXCEPT !.done = d, !.at = a]
<1>1. k \in CallType(C) /\ CallSound(orders, k) /\ k.at = "submit" /\ UNCHANGED orders
  BY DEF EngineIInv, CallsSound, PublishSubmitted
<1>2. call' = [call EXCEPT ![t] = c]
  BY DEF PublishSubmitted
<1>3. /\ k.done \in Nat /\ n \in Nat /\ k.done < n /\ k.results = <<>> /\ k.order = NoOrder
      /\ CommitSound(k.commit)
  <2>1. Listed(k.commit.actions) /\ k.done \in Nat
    BY <1>1 DEF CallSound, CallInStep, CommitSound, CallType
  <2>2. QED
    BY <1>1, <2>1, ListedLen DEF CallSound, CallInStep
<1> HIDE DEF n
<1>4. \/ a = "submit" /\ d = k.done + 1 /\ k.done + 1 < n
      \/ a = "push" /\ d = 0 /\ k.done + 1 = n
  BY <1>3, NextOfCommit
<1>5. a \in {"push", "submit"} /\ d \in Nat
  BY <1>3, <1>4
<1> HIDE DEF d, a
<1>6. /\ c \in CallType(C) /\ c.at = a /\ c.commit = k.commit
      /\ c.done = d /\ c.order = k.order /\ c.results = k.results
  BY <1>1, <1>5 DEF CallType
<1> HIDE DEF c
<1>7. call'[t] = c /\ \A u \in Tasks \ {t} : call'[u] = call[u]
  BY <1>2
<1>8. QED
  BY <1>1, <1>2, <1>3, <1>4, <1>6, <1>7 DEF n

LEMMA PublishSubmittedKeeps ==
  ASSUME EngineIInv, NEW t \in Tasks, PublishSubmitted(t) PROVE EngineIInv'
<1>1. PICK C : call \in [Tasks -> CallType(C)] /\ NoCall \in CallType(C)
  BY CallsTyped
<1>2. OrdersSound' /\ OrdersGoOn /\ UNCHANGED orders
  BY OrdersStay DEF EngineIInv, PublishSubmitted
<1>3. TopicSound'
  <2>1. PICK qty : Tell(t, "Submitted", 0, qty)
    BY DEF PublishSubmitted
  <2>2. TellsFinal(orders, "Submitted", 0, qty)
    BY DEF TellsFinal
  <2>3. QED
    BY <1>2, <2>1, <2>2, TellKeeps
<1>4. PICK c : c = call'[t]
  OBVIOUS
<1>5. /\ c \in CallType(C) /\ call' = [call EXCEPT ![t] = c] /\ CommitSound(c.commit)
      /\ c.order = NoOrder /\ c.results = <<>>
      /\ \/ c.at = "submit" /\ c.done < Len(c.commit.actions)
         \/ c.at = "push" /\ c.done = 0
  BY <1>1, <1>4, PublishSubmittedStep
<1>6. CallSound(orders', c)
  <2>1. Len(c.commit.actions) \in Nat /\ Len(c.results) = 0
    BY <1>5, ListedLen DEF CommitSound
  <2>2. QED
    BY <1>5, <2>1 DEF CallSound, CallInStep, ResultsSound
<1>7. QED
  BY <1>1, <1>2, <1>3, <1>5, <1>6, CallStep

-----------------------------------------------------------------------------
(***************************************************************************)
(* The broker call.                                                        *)
(***************************************************************************)
\* The exchange answers about an order it has, and tells how much of a closed
\* one was filled: all of it, which is not zero.
LEMMA AnswersAreSound ==
  ASSUME NEW os, NEW id \in Nat, id \in DOMAIN os, OrderSound(os[id]),
         NEW o \in Answer(os, id)
  PROVE  o \in Answers /\ AnswerSound(os, o)
<1>1. PICK f \in IF os[id].filled = 0 THEN {0, Unknown} ELSE {os[id].filled} :
        o = [id |-> id, status |-> os[id].status, filled |-> f]
  BY DEF Answer
<1>2. /\ os[id].status \in Statuses /\ os[id].filled \in Nat /\ os[id].qty \in Nat \ {0}
      /\ os[id].status = "Closed" => os[id].filled = os[id].qty
  BY DEF OrderSound
<1>3. f \in Int /\ (os[id].status = "Closed" => f = os[id].qty /\ f # Unknown)
  BY <1>1, <1>2 DEF Unknown
<1>4. QED
  BY <1>1, <1>2, <1>3 DEF AnswerSound, Answers

\* The action in hand asks for something.
LEMMA CurrentQty ==
  ASSUME EngineIInv, NEW t \in Tasks, call[t].at = "push", ~AllDone(t)
  PROVE  /\ call[t].done < Len(call[t].commit.actions)
         /\ Current(t).qty \in Nat \ {0}
<1>1. PICK C : call \in [Tasks -> CallType(C)] /\ NoCall \in CallType(C)
  BY CallsTyped
<1>2. /\ Listed(call[t].commit.actions)
      /\ \A i \in DOMAIN call[t].commit.actions : call[t].commit.actions[i].qty \in Nat \ {0}
      /\ call[t].done <= Len(call[t].commit.actions) /\ call[t].done \in Nat
  BY <1>1 DEF EngineIInv, CallsSound, CallSound, CallInStep, CommitSound, CallType
<1>3. /\ Len(call[t].commit.actions) \in Nat
      /\ DOMAIN call[t].commit.actions = 1 .. Len(call[t].commit.actions)
  BY <1>2, ListedLen
<1>4. call[t].done + 1 \in 1 .. Len(call[t].commit.actions)
  BY <1>2, <1>3 DEF AllDone
<1>5. QED
  BY <1>2, <1>3, <1>4 DEF Current

\* Another answer about the order in hand.
LEMMA AnswerKeeps ==
  ASSUME EngineIInv, NEW t \in Tasks, OrdersSound', OrdersGoOn, UNCHANGED topic,
         call[t].at = "push", call[t].done < Len(call[t].commit.actions),
         NEW o, o = call[t].order \/ (o \in Answers /\ AnswerSound(orders', o)),
         NEW n \in Nat, call' = [call EXCEPT ![t].order = o, ![t].polls = n]
  PROVE  EngineIInv'
<1> DEFINE k == call[t]
           c == [k EXCEPT !.order = o, !.polls = n]
<1>1. PICK C : call \in [Tasks -> CallType(C)] /\ NoCall \in CallType(C)
  BY CallsTyped
<1>2. TopicSound'
  BY TopicStays
<1>3. k \in CallType(C) /\ CallSound(orders, k) /\ CallSound(orders', k)
  BY <1>1, StaysSound DEF EngineIInv, CallsSound
<1>4. call' = [call EXCEPT ![t] = c]
  BY <1>1
<1>5. o \in Answers
  BY <1>3 DEF CallType
<1>6. /\ c \in CallType(C) /\ c.at = k.at /\ c.commit = k.commit /\ c.done = k.done
      /\ c.order = o /\ c.results = k.results
  BY <1>3, <1>5 DEF CallType
<1>7. k.at = "push" /\ k.done < Len(k.commit.actions)
      /\ (o = k.order \/ AnswerSound(orders', o))
  OBVIOUS
<1> HIDE DEF c, k
<1>8. CallSound(orders', c)
  BY <1>3, <1>6, <1>7 DEF CallSound, CallInStep
<1>9. QED
  BY <1>1, <1>2, <1>4, <1>6, <1>8, CallStep

LEMMA CreateOrderKeeps ==
  ASSUME EngineIInv, NEW t \in Tasks, CreateOrder(t) PROVE EngineIInv'
<1>1. PICK C : call \in [Tasks -> CallType(C)] /\ NoCall \in CallType(C)
  BY CallsTyped
<1>2. /\ call[t].at = "push" /\ ~AllDone(t) /\ UNCHANGED topic
      /\ Take(Current(t), call[t].commit.strategy)
  BY DEF CreateOrder
<1>3. call[t].done < Len(call[t].commit.actions) /\ Current(t).qty \in Nat \ {0}
  BY <1>2, CurrentQty
<1>4. /\ OrdersSound' /\ OrdersGoOn
      /\ Len(orders') \in DOMAIN orders' /\ Len(orders') \in Nat
  BY <1>2, <1>3, TakeGoesOn DEF EngineIInv
<1>5. PICK o \in Answer(orders', Len(orders')) : call' = [call EXCEPT ![t].order = o]
  BY DEF CreateOrder
<1>6. o \in Answers /\ AnswerSound(orders', o)
  <2>1. OrderSound(orders'[Len(orders')])
    BY <1>4 DEF OrdersSound
  <2>2. QED
    BY <1>4, <1>5, <2>1, AnswersAreSound
<1>7. /\ call[t].polls \in Nat
      /\ call' = [call EXCEPT ![t].order = o, ![t].polls = call[t].polls]
  BY <1>1, <1>5 DEF CallType
<1>8. QED
  BY <1>2, <1>3, <1>4, <1>6, <1>7, AnswerKeeps

LEMMA FetchKeeps ==
  ASSUME EngineIInv, NEW t \in Tasks, FetchOrder(t) \/ FetchFails(t) PROVE EngineIInv'
<1>1. PICK C : call \in [Tasks -> CallType(C)] /\ NoCall \in CallType(C)
  BY CallsTyped
<1>2. /\ call[t].at = "push" /\ call[t].order # NoOrder /\ UNCHANGED <<orders, topic>>
  BY DEF FetchOrder, FetchFails, Polling
<1>3. OrdersSound' /\ OrdersGoOn /\ OrdersSound
  BY <1>2, OrdersStay DEF EngineIInv
<1>4. /\ call[t].done < Len(call[t].commit.actions) /\ AnswerSound(orders, call[t].order)
      /\ call[t].order.id \in Nat /\ call[t].polls + 1 \in Nat
  BY <1>1, <1>2 DEF EngineIInv, CallsSound, CallSound, CallInStep, CallType, Answers
<1>5. CASE FetchOrder(t)
  <2>1. PICK o \in Answer(orders, call[t].order.id) :
          call' = [call EXCEPT ![t].order = o, ![t].polls = call[t].polls + 1]
    BY <1>1, <1>5 DEF FetchOrder
  <2>2. o \in Answers /\ AnswerSound(orders', o)
    <3>1. call[t].order.id \in DOMAIN orders /\ OrderSound(orders[call[t].order.id])
      BY <1>3, <1>4 DEF AnswerSound, OrdersSound
    <3>2. QED
      BY <1>2, <1>4, <2>1, <3>1, AnswersAreSound
  <2>3. QED
    BY <1>2, <1>3, <1>4, <2>1, <2>2, AnswerKeeps
<1>6. CASE FetchFails(t)
  <2>1. call' = [call EXCEPT ![t].order = call[t].order, ![t].polls = call[t].polls + 1]
    BY <1>1, <1>6 DEF FetchFails, CallType
  <2>2. QED
    BY <1>2, <1>3, <1>4, <2>1, AnswerKeeps
<1>7. QED
  BY <1>5, <1>6

\* The result of an order calls it filled or rejected only if it is.
LEMMA ResultsAreSound ==
  ASSUME NEW os, NEW o \in Answers, AnswerSound(os, o), NEW a, a.qty \in Nat
  PROVE  /\ OrderToResult(o, a) \in Results
         /\ TellsFinal(os, OrderToResult(o, a).status, OrderToResult(o, a).order,
                       OrderToResult(o, a).qty)
<1> DEFINE r == OrderToResult(o, a)
<1>1. o.id \in Nat /\ o.status \in Statuses /\ o.filled \in Int
  BY DEF Answers
<1>2. /\ r.order = o.id /\ r.status = FromCcxtOrderStatus(o.status)
      /\ r.qty = (IF o.filled = Unknown THEN a.qty ELSE o.filled)
      /\ r = [order |-> r.order, status |-> r.status, qty |-> r.qty]
  BY DEF OrderToResult
<1> HIDE DEF r
<1>3. /\ r.status \in {"Submitted", "Filled", "Cancelled", "Rejected"}
      /\ r.status = "Filled" => o.status = "Closed"
      /\ r.status = "Rejected" => o.status \in {"Expired", "Rejected"}
  BY <1>1, <1>2 DEF FromCcxtOrderStatus, Statuses
<1>4. r \in Results
  BY <1>1, <1>2, <1>3 DEF Results
<1>5. TellsFinal(os, r.status, r.order, r.qty)
  BY <1>2, <1>3 DEF TellsFinal, AnswerSound, Terminal
<1>6. QED
  BY <1>4, <1>5 DEF r

LEMMA OrderDoneKeeps ==
  ASSUME EngineIInv, NEW t \in Tasks, OrderDone(t) PROVE EngineIInv'
<1> DEFINE k == call[t]
           r == OrderToResult(k.order, Current(t))
           q == Append(k.results, r)
           d == k.done + 1
           c == [k EXCEPT !.results = q, !.done = d, !.order = NoOrder, !.polls = 0]
<1>1. PICK C : call \in [Tasks -> CallType(C)] /\ NoCall \in CallType(C)
  BY CallsTyped
<1>2. OrdersSound' /\ OrdersGoOn /\ TopicSound' /\ UNCHANGED orders
  BY OrdersStay, TopicStays DEF EngineIInv, OrderDone
<1>3. /\ k \in CallType(C) /\ CallSound(orders, k) /\ k.at = "push" /\ k.order # NoOrder
      /\ call' = [call EXCEPT ![t] = c]
  BY <1>1 DEF EngineIInv, CallsSound, OrderDone
<1>4. /\ k.done < Len(k.commit.actions) /\ AnswerSound(orders, k.order)
      /\ k.order \in Answers /\ CommitSound(k.commit) /\ k.done \in Nat
      /\ k.results \in Seq(Results) /\ Len(k.results) = k.done
  BY <1>3 DEF CallSound, CallInStep, CallType
<1>5. Len(k.commit.actions) \in Nat
  BY <1>4, ListedLen DEF CommitSound
<1>6. Current(t).qty \in Nat
  BY <1>3, <1>4, CurrentQty DEF AllDone
<1>7. r \in Results /\ TellsFinal(orders, r.status, r.order, r.qty)
  BY <1>4, <1>6, ResultsAreSound
<1>8. /\ NoOrder \in Answers
      /\ q \in Seq(Results) /\ Len(q) = d /\ d \in Nat /\ d <= Len(k.commit.actions)
      /\ ResultsSound(orders, q)
  <2> HIDE DEF k, r
  <2>1. NoOrder \in Answers
    BY DEF NoOrder, Answers, Statuses, Unknown
  <2>2. ResultsSound(orders, k.results)
    BY <1>3 DEF CallSound
  <2>3. /\ Append(k.results, r) \in Seq(Results) /\ Len(Append(k.results, r)) = k.done + 1
        /\ \A i \in 1 .. Len(k.results) : Append(k.results, r)[i] = k.results[i]
        /\ Append(k.results, r)[Len(k.results) + 1] = r
    BY <1>4, <1>7, AppendProperties
  <2>4. \A i \in DOMAIN Append(k.results, r) : i \in DOMAIN k.results \/ i = Len(k.results) + 1
    BY <1>4, <2>3
  <2>5. QED
    BY <1>4, <1>5, <1>7, <2>1, <2>2, <2>3, <2>4 DEF ResultsSound
<1> HIDE DEF q, d
<1>9. /\ c \in CallType(C) /\ c.at = "push" /\ c.commit = k.commit /\ c.done = d
      /\ c.order = NoOrder /\ c.results = q
  BY <1>3, <1>8 DEF CallType
<1> HIDE DEF c, k
<1>10. CallSound(orders', c)
  BY <1>2, <1>4, <1>8, <1>9 DEF CallSound, CallInStep
<1>11. QED
  BY <1>1, <1>2, <1>3, <1>9, <1>10, CallStep

LEMMA PushReturnsKeeps ==
  ASSUME EngineIInv, NEW t \in Tasks, PushReturns(t) PROVE EngineIInv'
<1> DEFINE k == call[t]
           c == [k EXCEPT !.at = "outcome", !.done = 0]
<1>1. PICK C : call \in [Tasks -> CallType(C)] /\ NoCall \in CallType(C)
  BY CallsTyped
<1>2. OrdersSound' /\ OrdersGoOn /\ TopicSound' /\ UNCHANGED orders
  BY OrdersStay, TopicStays DEF EngineIInv, PushReturns
<1>3. /\ k \in CallType(C) /\ CallSound(orders, k) /\ k.at = "push"
      /\ k.done = Len(k.commit.actions) /\ call' = [call EXCEPT ![t] = c]
  BY <1>1 DEF EngineIInv, CallsSound, PushReturns, AllDone
<1>4. /\ c \in CallType(C) /\ c.at = "outcome" /\ c.commit = k.commit /\ c.done = 0
      /\ c.order = k.order /\ c.results = k.results
  BY <1>3 DEF CallType
<1> HIDE DEF c, k
<1>5. /\ CommitSound(k.commit) /\ k.order = NoOrder
      /\ Len(k.results) = Len(k.commit.actions) /\ Len(k.results) > 0
  <2>1. /\ Listed(k.commit.actions) /\ k.commit.actions # <<>> /\ CommitSound(k.commit)
        /\ Len(k.results) = Len(k.commit.actions)
    BY <1>3 DEF CallSound, CallInStep, CommitSound
  <2>2. Len(k.commit.actions) \in Nat
    BY <2>1, ListedLen
  <2>3. Len(k.commit.actions) # 0
    BY <2>1 DEF Listed
  <2>4. ~(k.done < Len(k.commit.actions))
    BY <1>3, <2>2
  <2>5. QED
    BY <1>3, <2>1, <2>2, <2>3, <2>4 DEF CallSound, CallInStep
<1>6. CallSound(orders', c)
  BY <1>2, <1>3, <1>4, <1>5 DEF CallSound, CallInStep
<1>7. QED
  BY <1>1, <1>2, <1>3, <1>4, <1>6, CallStep

-----------------------------------------------------------------------------
(***************************************************************************)
(* The outcome events and the ends of a call.                              *)
(***************************************************************************)
LEMMA PublishOutcomeKeeps ==
  ASSUME EngineIInv, NEW t \in Tasks, PublishOutcome(t) PROVE EngineIInv'
<1> DEFINE k == call[t]
           r == k.results[k.done + 1]
           c == [k EXCEPT !.done = @ + 1]
<1>1. PICK C : call \in [Tasks -> CallType(C)] /\ NoCall \in CallType(C)
  BY CallsTyped
<1>2. OrdersSound' /\ OrdersGoOn /\ UNCHANGED orders
  BY OrdersStay DEF EngineIInv, PublishOutcome
<1>3. /\ k \in CallType(C) /\ CallSound(orders, k) /\ k.at = "outcome"
      /\ Tell(t, OutcomeType(r.status), r.order, r.qty)
      /\ \/ Return(t)
         \/ k.done + 1 # Len(k.results) /\ call' = [call EXCEPT ![t] = c]
  BY <1>1 DEF EngineIInv, CallsSound, PublishOutcome
<1>4. /\ k.done \in Nat /\ k.results \in Seq(Results) /\ k.done < Len(k.results)
      /\ CommitSound(k.commit) /\ k.order = NoOrder /\ ResultsSound(orders, k.results)
  BY <1>3 DEF CallSound, CallInStep, CallType
<1>5. TopicSound'
  <2>1. k.done + 1 \in DOMAIN k.results
    BY <1>4
  <2>2. TellsFinal(orders, r.status, r.order, r.qty)
    BY <1>4, <2>1 DEF ResultsSound
  <2>3. TellsFinal(orders, OutcomeType(r.status), r.order, r.qty)
    BY <2>2 DEF TellsFinal, OutcomeType
  <2>4. QED
    BY <1>2, <1>3, <2>3, TellKeeps
<1>6. CASE Return(t)
  BY <1>2, <1>5, <1>6, ReturnKeeps
<1>7. CASE k.done + 1 # Len(k.results) /\ call' = [call EXCEPT ![t] = c]
  <2>1. /\ c \in CallType(C) /\ c.at = k.at /\ c.commit = k.commit /\ c.done = k.done + 1
        /\ c.order = k.order /\ c.results = k.results
    BY <1>3, <1>4 DEF CallType
  <2>2. c.done < Len(c.results)
    BY <1>4, <1>7, <2>1
  <2> HIDE DEF c, k
  <2>3. CallSound(orders', c)
    BY <1>2, <1>3, <1>4, <2>1, <2>2 DEF CallSound, CallInStep
  <2>4. QED
    BY <1>1, <1>2, <1>5, <1>7, <2>1, <2>3, CallStep
<1>8. QED
  BY <1>3, <1>6, <1>7

\* The calls that fail, or are dropped, with or without an order on its way.
LEMMA EndsKeep ==
  ASSUME EngineIInv, NEW t \in Tasks,
         \/ AccountFails(t) \/ PublishFails(t) \/ CreateFails(t) \/ CancelFails(t)
         \/ Interrupted(t)
  PROVE  EngineIInv'
<1>1. Return(t) /\ UNCHANGED topic
  BY DEF AccountFails, PublishFails, CreateFails, CancelFails, Interrupted, Abandon
<1>2. \/ UNCHANGED orders
      \/ /\ call[t].at = "push" /\ ~AllDone(t)
         /\ Take(Current(t), call[t].commit.strategy)
  BY DEF AccountFails, PublishFails, CreateFails, CancelFails, Interrupted
<1>3. OrdersSound' /\ OrdersGoOn
  BY <1>2, OrdersStay, CurrentQty, TakeGoesOn DEF EngineIInv
<1>4. QED
  BY <1>1, <1>3, TopicStays, ReturnKeeps

LEMMA EngineKeeps ==
  ASSUME EngineIInv, NEW t \in Tasks, EngineStep(t) \/ EngineFails(t) PROVE EngineIInv'
BY CheckGuardsKeeps, PublishSubmittedKeeps, CreateOrderKeeps, FetchKeeps, OrderDoneKeeps,
   PushReturnsKeeps, PublishOutcomeKeeps, EndsKeep
DEF EngineStep, EngineFails

LEMMA ExchangeKeeps == ASSUME EngineIInv, Exchange PROVE EngineIInv'
<1>1. OrdersSound' /\ OrdersGoOn /\ UNCHANGED <<topic, call>>
  BY ExchangeGoesOn DEF EngineIInv
<1>2. TopicSound'
  BY <1>1, TopicStays
<1>3. CallsSound'
  BY <1>1, StaysSound DEF EngineIInv, CallsSound
<1>4. QED
  BY <1>1, <1>2, <1>3 DEF EngineIInv

-----------------------------------------------------------------------------
(***************************************************************************)
(* The loops, the other callers, shutdown and the next session.            *)
(***************************************************************************)
LEMMA EngineInitIInv == LoopInit => EngineIInv
<1> SUFFICES ASSUME LoopInit PROVE EngineIInv
  OBVIOUS
<1>1. orders = <<>> /\ topic = <<>> /\ call = [t \in Tasks |-> NoCall]
  BY DEF LoopInit, EngineInit
<1>2. Listed(<<>>) /\ DOMAIN <<>> = {}
  BY DEF Listed
<1>3. call \in [Tasks -> CallType({NoCall.commit})]
  <2>1. NoCall \in CallType({NoCall.commit})
    BY DEF CallType, NoCall, NoOrder, Answers, Statuses, Unknown
  <2>2. QED
    BY <1>1, <2>1
<1>4. \A t \in Tasks : CallSound(orders, call[t])
  BY <1>1, NoCallSound
<1>5. QED
  BY <1>1, <1>2, <1>3, <1>4 DEF EngineIInv, OrdersSound, TopicSound, CallsSound

LEMMA EngineStutters == ASSUME EngineIInv, UNCHANGED engineVars PROVE EngineIInv'
BY DEF EngineIInv, OrdersSound, TopicSound, CallsSound, engineVars

LEMMA OneElement == ASSUME NEW x PROVE Listed(<<x>>) /\ <<x>> # <<>> /\ DOMAIN <<x>> = {1}
<1>1. <<x>> \in Seq({x})
  OBVIOUS
<1>2. Listed(<<x>>)
  BY <1>1 DEF Listed
<1>3. QED
  BY <1>2

LEMMA SignalKeeps == ASSUME EngineIInv, NEW t \in Loops, Signal(t) PROVE EngineIInv'
<1>1. t \in Tasks /\ Quantity \in Nat \ {0}
  BY LoopAssumption
<1>2. PICK s : ExecuteCommit(t, [strategy |-> s.name, actions |-> OutputToActions(s)])
  BY DEF Signal
<1> DEFINE m == [strategy |-> s.name, actions |-> OutputToActions(s)]
<1>3. CommitSound(m)
  BY <1>1, OneElement DEF CommitSound, OutputToActions
<1>4. UNCHANGED <<orders, topic>>
  BY DEF Signal
<1> HIDE DEF m
<1>5. ExecuteCommit(t, m)
  BY <1>2 DEF m
<1>6. QED
  BY <1>1, <1>3, <1>4, <1>5, ExecuteCommitKeeps

LEMMA ExecuteKeeps ==
  ASSUME EngineIInv, NEW t \in Tasks, NEW m \in Commits, Execute(t, m) PROVE EngineIInv'
<1>1. ExecuteCommit(t, m) /\ UNCHANGED <<orders, topic>> /\ m.actions # <<>>
  BY DEF Execute, ExecuteCommit
<1> DEFINE Action == [kind : ActionKinds, contract : Contracts, qty : Nat \ {0}]
<1>2. m.actions \in Seq(Action)
  BY EngineAssumption
<1>3. ASSUME NEW i \in DOMAIN m.actions PROVE m.actions[i].qty \in Nat \ {0}
  <2>1. m.actions[i] \in Action
    <3> HIDE DEF Action
    <3>1. DOMAIN m.actions = 1 .. Len(m.actions)
      BY <1>2
    <3>2. QED
      BY <1>2, <3>1, ElementOfSeq
  <2>2. QED
    BY <2>1
<1>4. CommitSound(m)
  BY <1>1, <1>2, <1>3 DEF CommitSound, Listed
<1>5. QED
  BY <1>1, <1>4, ExecuteCommitKeeps

LEMMA TradingStepKeeps == EngineIInv /\ [TradingNext]_allVars => EngineIInv'
<1> SUFFICES ASSUME EngineIInv, [TradingNext]_allVars PROVE EngineIInv'
  OBVIOUS
<1>1. ASSUME NEW t \in Loops, LoopStep(t) PROVE EngineIInv'
  <2>1. Signal(t) \/ UNCHANGED engineVars
    BY <1>1 DEF LoopStep, LoadStrategies, Recv, RecvLagged, RecvClosed, Hold, CandleDone
  <2>2. QED
    BY <2>1, SignalKeeps, EngineStutters
<1>2. ASSUME NEW t \in Tasks, Broker(t) PROVE EngineIInv'
  BY <1>2, EngineKeeps DEF Broker
<1>3. ASSUME World PROVE EngineIInv'
  <2>1. ASSUME NEW t \in Loops, StreamEnds(t) \/ Shutdown(t) \/ Start(t) PROVE EngineIInv'
    <3>1. t \in Tasks
      BY LoopAssumption
    <3>2. Interrupted(t) \/ UNCHANGED engineVars
      BY <2>1 DEF StreamEnds, Shutdown, Start
    <3>3. QED
      BY <3>1, <3>2, EndsKeep, EngineStutters
  <2>2. ASSUME NEW t \in Loops, NEW symbol, Send(t, symbol) PROVE EngineIInv'
    BY <2>2, EngineStutters DEF Send
  <2>3. QED
    BY <1>3, <2>1, <2>2, ExchangeKeeps, ExecuteKeeps DEF World
<1>4. CASE UNCHANGED allVars
  BY <1>4, EngineStutters DEF allVars
<1>5. QED
  BY <1>1, <1>2, <1>3, <1>4 DEF TradingNext

\* EngineIInv is an invariant of live trading.
THEOREM TradingInvariant == TradingSpec => []EngineIInv
BY EngineInitIInv, TradingStepKeeps, PTL DEF TradingSpec

\* For all tasks, commits, guards, faults, polling limits and shutdowns: an
\* order that the topic calls filled is closed at the exchange with the amount
\* the topic tells, and one it calls rejected is expired or rejected there
\* (engine.rs, brokers/ccxt.rs).
THEOREM OutcomesHold == TradingSpec => []OutcomesAreFinal
<1>1. EngineIInv => OutcomesAreFinal
  BY DEF EngineIInv, TopicSound, TellsFinal, OutcomesAreFinal
<1>2. QED
  BY <1>1, TradingInvariant, PTL

-----------------------------------------------------------------------------
(***************************************************************************)
(* Each order is told of once.  An order is with the call that placed it,  *)
(* or with no call and told, or an orphan; it is never with two calls, nor *)
(* twice in the results of one.                                            *)
(***************************************************************************)
Live(c) == {i \in DOMAIN c.results : c.at = "push" \/ i > c.done}

HeldOf(c) == ({c.order.id} \ {0}) \cup {c.results[i].order : i \in Live(c)}

\* The actions of a call that were announced and may still become an order.
Slots(c) ==
  {i \in Nat : \/ c.at = "submit" /\ 0 < i /\ i <= c.done
               \/ /\ c.at = "push" /\ c.done < i /\ i <= Len(c.commit.actions)
                  /\ c.order = NoOrder \/ i # c.done + 1}

Distinct(c) ==
  \A i \in Live(c) : /\ c.results[i].order # c.order.id
                     /\ \A j \in Live(c) : c.results[i].order = c.results[j].order => i = j

Pending(id) == id \in orphans \/ \E t \in Tasks : id \in Held(t)

OneHolder ==
  /\ orphans \subseteq DOMAIN orders
  /\ \A t \in Tasks : /\ Held(t) \subseteq DOMAIN orders \ orphans
                      /\ Distinct(call[t])
                      /\ \A u \in Tasks \ {t} : Held(t) \cap Held(u) = {}

ToldOnce ==
  /\ \A i \in DOMAIN topic : topic[i].order \in DOMAIN orders \cup {0}
  /\ \A id \in DOMAIN orders :
       IF Pending(id) THEN Outcomes(id) = {} ELSE \E i : Outcomes(id) = {i}

ToldIInv == EngineIInv /\ OneHolder /\ ToldOnce

LEMMA HeldIsHeldOf == \A t : Held(t) = HeldOf(call[t])
BY DEF Held, HeldOf, Live

LEMMA OrdersAreNumbered ==
  ASSUME EngineIInv
  PROVE  DOMAIN orders \subseteq Nat \ {0} /\ Len(orders) \in Nat
BY ListedLen DEF EngineIInv, OrdersSound

\* One more event.
LEMMA TopicGrows ==
  ASSUME EngineIInv, NEW t, NEW type, NEW id, NEW qty, Tell(t, type, id, qty)
  PROVE  /\ DOMAIN topic' = DOMAIN topic \cup {Len(topic) + 1}
         /\ Len(topic) + 1 \in Nat \ DOMAIN topic /\ DOMAIN topic \subseteq Nat
         /\ \A i \in DOMAIN topic : topic'[i] = topic[i]
         /\ topic'[Len(topic) + 1].type = type /\ topic'[Len(topic) + 1].order = id
         /\ topic'[Len(topic) + 1].strategy = call[t].commit.strategy
<1> DEFINE e == [type |-> type, strategy |-> call[t].commit.strategy,
                 order |-> id, qty |-> qty]
<1>1. topic' = Append(topic, e) /\ Listed(topic)
  BY DEF Tell, EngineIInv, TopicSound
<1>2. e.type = type /\ e.order = id /\ e.strategy = call[t].commit.strategy
  OBVIOUS
<1> HIDE DEF e
<1>3. /\ DOMAIN topic' = DOMAIN topic \cup {Len(topic) + 1}
      /\ \A i \in DOMAIN topic : topic'[i] = topic[i]
      /\ topic'[Len(topic) + 1] = e
  BY <1>1, ListedAppend
<1>4. Len(topic) \in Nat /\ DOMAIN topic = 1 .. Len(topic)
  BY <1>1, ListedLen
<1>5. QED
  BY <1>2, <1>3, <1>4

\* A step that tells of no order: what the call of t held, and what is new at
\* the exchange, is with t or an orphan.
LEMMA NothingTold ==
  ASSUME ToldIInv, EngineIInv', DOMAIN orders \subseteq DOMAIN orders',
         NEW t \in Tasks, \A u \in Tasks \ {t} : call'[u] = call[u],
         Distinct(call'[t]),
         orphans \subseteq orphans', HeldOf(call'[t]) \cap orphans' = {},
         HeldOf(call'[t]) \cup orphans' =
           HeldOf(call[t]) \cup orphans \cup (DOMAIN orders' \ DOMAIN orders),
         \A i \in DOMAIN topic' : topic'[i].order \in DOMAIN orders \cup {0},
         \A id \in DOMAIN orders : Outcomes(id)' = Outcomes(id)
  PROVE  ToldIInv'
<1>1. /\ \A u \in Tasks : Held(u) = HeldOf(call[u])
      /\ \A u \in Tasks : Held(u)' = HeldOf(call'[u])
  BY DEF Held, HeldOf, Live
<1>2. \A u \in Tasks \ {t} : Held(u)' = Held(u)
  BY <1>1
<1>3. OneHolder'
  <2>1. orphans' \subseteq DOMAIN orders'
    BY <1>1 DEF ToldIInv, OneHolder
  <2>2. Held(t)' \subseteq DOMAIN orders' \ orphans'
    BY <1>1 DEF ToldIInv, OneHolder
  <2>3. ASSUME NEW u \in Tasks \ {t}
        PROVE  /\ Held(u)' \subseteq DOMAIN orders' \ orphans' /\ Distinct(call'[u])
               /\ Held(u)' \cap Held(t)' = {}
    <3>1. Held(u) \subseteq DOMAIN orders \ orphans /\ Held(u) \cap Held(t) = {}
      BY DEF ToldIInv, OneHolder
    <3>2. Held(u) \cap (orphans' \cup Held(t)') = {}
      BY <1>1, <3>1
    <3>3. Distinct(call'[u])
      BY DEF ToldIInv, OneHolder
    <3>4. QED
      BY <1>2, <3>1, <3>2, <3>3
  <2>4. ASSUME NEW u \in Tasks \ {t}, NEW v \in Tasks \ {t}, u # v
        PROVE  Held(u)' \cap Held(v)' = {}
    BY <1>2, <2>4 DEF ToldIInv, OneHolder
  <2>5. QED
    BY <2>1, <2>2, <2>3, <2>4 DEF OneHolder
<1>4. \A id \in DOMAIN orders : Pending(id)' <=> Pending(id)
  BY <1>1, <1>2 DEF Pending
<1>5. \A id \in DOMAIN orders' \ DOMAIN orders : Pending(id)' /\ Outcomes(id)' = {}
  <2>1. TAKE id \in DOMAIN orders' \ DOMAIN orders
  <2>2. Pending(id)'
    BY <1>1 DEF Pending
  <2>3. id # 0
    <3>1. (DOMAIN orders \subseteq Nat \ {0})'
      BY ListedLen DEF EngineIInv, OrdersSound
    <3>2. QED
      BY <3>1
  <2>4. Outcomes(id)' = {}
    BY <2>3 DEF Outcomes
  <2>5. QED
    BY <2>2, <2>4
<1>6. ToldOnce'
  BY <1>4, <1>5 DEF ToldIInv, ToldOnce
<1>7. QED
  BY <1>3, <1>6 DEF ToldIInv

\* The topic as it was, or with an event that names no order.
LEMMA TopicTellsNoOrder ==
  ASSUME ToldIInv,
         \/ UNCHANGED topic
         \/ \E t, type, qty : Tell(t, type, 0, qty)
  PROVE  /\ \A i \in DOMAIN topic' : topic'[i].order \in DOMAIN orders \cup {0}
         /\ \A id \in DOMAIN orders : Outcomes(id)' = Outcomes(id)
<1>1. CASE UNCHANGED topic
  BY <1>1 DEF ToldIInv, ToldOnce, Outcomes
<1>2. ASSUME NEW t, NEW type, NEW qty, Tell(t, type, 0, qty)
      PROVE  /\ \A i \in DOMAIN topic' : topic'[i].order \in DOMAIN orders \cup {0}
             /\ \A id \in DOMAIN orders : Outcomes(id)' = Outcomes(id)
  <2>1. /\ DOMAIN topic' = DOMAIN topic \cup {Len(topic) + 1}
        /\ \A i \in DOMAIN topic : topic'[i] = topic[i]
        /\ topic'[Len(topic) + 1].order = 0
    BY <1>2, TopicGrows DEF ToldIInv
  <2>2. \A id \in DOMAIN orders : id # 0
    BY OrdersAreNumbered DEF ToldIInv
  <2>3. QED
    BY <2>1, <2>2 DEF ToldIInv, ToldOnce, Outcomes
<1>3. QED
  BY <1>1, <1>2

LEMMA EmptyHandsHold ==
  ASSUME NEW c, c.results = <<>>, c.order.id = 0
  PROVE  HeldOf(c) = {} /\ Distinct(c)
<1>1. DOMAIN c.results = {}
  OBVIOUS
<1>2. Live(c) = {}
  BY <1>1 DEF Live
<1>3. QED
  BY <1>2 DEF HeldOf, Distinct

LEMMA EmptyBeforePush ==
  ASSUME EngineIInv, NEW t \in Tasks, call[t].at \in {"idle", "account", "submit"}
  PROVE  /\ HeldOf(call[t]) = {}
         /\ call[t].results = <<>> /\ call[t].order = NoOrder
<1>1. call[t].results = <<>> /\ call[t].order = NoOrder
  BY DEF EngineIInv, CallsSound, CallSound, CallInStep
<1>2. QED
  BY <1>1, EmptyHandsHold DEF NoOrder

\* A call that ends with orders in hand leaves them orphans.
LEMMA AbandonTold ==
  ASSUME ToldIInv, EngineIInv', NEW t \in Tasks, Abandon(t),
         DOMAIN orders \subseteq DOMAIN orders', UNCHANGED topic
  PROVE  ToldIInv'
<1>1. PICK C : call \in [Tasks -> CallType(C)] /\ NoCall \in CallType(C)
  BY CallsTyped DEF ToldIInv
<1>2. call'[t] = NoCall /\ \A u \in Tasks \ {t} : call'[u] = call[u]
  BY <1>1 DEF Abandon, Return
<1>3. HeldOf(NoCall) = {} /\ Distinct(NoCall)
  BY EmptyHandsHold DEF NoCall, NoOrder
<1>4. orphans' = orphans \cup HeldOf(call[t]) \cup (DOMAIN orders' \ DOMAIN orders)
  BY HeldIsHeldOf DEF Abandon
<1>5. QED
  BY <1>2, <1>3, <1>4, TopicTellsNoOrder, NothingTold

\* The steps that keep what the call holds.
LEMMA SameHeld ==
  ASSUME ToldIInv, EngineIInv', NEW t \in Tasks,
         UNCHANGED orphans, DOMAIN orders' = DOMAIN orders,
         \A u \in Tasks \ {t} : call'[u] = call[u],
         HeldOf(call'[t]) = HeldOf(call[t]), Distinct(call'[t]),
         UNCHANGED topic \/ \E u, type, qty : Tell(u, type, 0, qty)
  PROVE  ToldIInv'
<1>1. HeldOf(call[t]) \cap orphans = {}
  BY HeldIsHeldOf DEF ToldIInv, OneHolder
<1>2. QED
  BY <1>1, TopicTellsNoOrder, NothingTold

LEMMA BeforePushTold ==
  ASSUME ToldIInv, EngineIInv', NEW t \in Tasks,
         \/ \E m : ExecuteCommit(t, m) /\ UNCHANGED <<orders, topic, orphans>>
         \/ AccountFails(t) \/ CheckGuards(t) \/ PublishSubmitted(t)
  PROVE  ToldIInv'
<1>1. PICK C : call \in [Tasks -> CallType(C)] /\ NoCall \in CallType(C)
  BY CallsTyped DEF ToldIInv
<1>2. call[t].at \in {"idle", "account", "submit"} /\ UNCHANGED <<orders, orphans>>
  BY DEF ExecuteCommit, AccountFails, CheckGuards, PublishSubmitted
<1>3. HeldOf(call[t]) = {} /\ call[t].results = <<>> /\ call[t].order = NoOrder
  BY <1>2, EmptyBeforePush DEF ToldIInv
<1>4. NoCall.results = <<>> /\ NoCall.order = NoOrder
  BY DEF NoCall
<1>5. /\ \A u \in Tasks \ {t} : call'[u] = call[u]
      /\ call'[t].results = <<>> /\ call'[t].order = NoOrder
  <2>1. CASE \E m : ExecuteCommit(t, m)
    <3>1. PICK m : call' = [call EXCEPT ![t] = [NoCall EXCEPT !.at = "account", !.commit = m]]
      BY <2>1 DEF ExecuteCommit
    <3>2. /\ \A u \in Tasks \ {t} : call'[u] = call[u]
          /\ call'[t] = [NoCall EXCEPT !.at = "account", !.commit = m]
      BY <1>1, <3>1
    <3>3. call'[t].results = NoCall.results /\ call'[t].order = NoCall.order
      BY <3>2 DEF NoCall
    <3>4. QED
      BY <1>4, <3>2, <3>3
  <2>2. CASE AccountFails(t) \/ CheckGuards(t)
    <3>1. call[t] \in CallType(C)
      BY <1>1
    <3>2. \/ call' = [call EXCEPT ![t] = NoCall]
          \/ call' = [call EXCEPT ![t].at = "submit"]
      BY <2>2 DEF AccountFails, CheckGuards, Return
    <3>3. /\ \A u \in Tasks \ {t} : call'[u] = call[u]
          /\ call'[t] = NoCall \/ call'[t] = [call[t] EXCEPT !.at = "submit"]
      BY <1>1, <3>2
    <3>4. QED
      BY <1>3, <1>4, <3>1, <3>3 DEF CallType
  <2>3. CASE PublishSubmitted(t)
    <3>1. call[t] \in CallType(C)
      BY <1>1
    <3>2. PICK done, at : call' = [call EXCEPT ![t].done = done, ![t].at = at]
      BY <2>3 DEF PublishSubmitted
    <3>3. /\ \A u \in Tasks \ {t} : call'[u] = call[u]
          /\ call'[t] = [call[t] EXCEPT !.done = done, !.at = at]
      BY <1>1, <3>2
    <3>4. /\ call'[t].results = call[t].results /\ call'[t].order = call[t].order
      BY <3>1, <3>3 DEF CallType
    <3>5. QED
      BY <1>3, <3>3, <3>4
  <2>4. QED
    BY <2>1, <2>2, <2>3
<1>6. HeldOf(call'[t]) = {} /\ Distinct(call'[t])
  BY <1>5, EmptyHandsHold DEF NoOrder
<1>7. UNCHANGED topic \/ \E u, type, qty : Tell(u, type, 0, qty)
  BY DEF ExecuteCommit, AccountFails, CheckGuards, PublishSubmitted
<1>8. QED
  BY <1>2, <1>3, <1>5, <1>6, <1>7, SameHeld

\* The orders of the results are at the exchange, hence not the order about to
\* be taken.
LEMMA CreateOrderStep ==
  ASSUME ToldIInv, NEW t \in Tasks, CreateOrder(t)
  PROVE  /\ UNCHANGED <<topic, orphans>> /\ Current(t).qty \in Nat \ {0}
         /\ Take(Current(t), call[t].commit.strategy)
         /\ DOMAIN orders' = DOMAIN orders \cup {Len(orders')}
         /\ Len(orders') \notin DOMAIN orders
         /\ \A u \in Tasks \ {t} : call'[u] = call[u]
         /\ call'[t].commit = call[t].commit
         /\ HeldOf(call'[t]) = HeldOf(call[t]) \cup {Len(orders')} /\ Distinct(call'[t])
         /\ call[t].done + 1 \in Slots(call[t])
         /\ Slots(call'[t]) \subseteq Slots(call[t]) \ {call[t].done + 1}
<1> DEFINE k == call[t]
           n == Len(orders')
<1>1. PICK C : call \in [Tasks -> CallType(C)] /\ NoCall \in CallType(C)
  BY CallsTyped DEF ToldIInv
<1>2. /\ k.at = "push" /\ k.order = NoOrder /\ ~AllDone(t) /\ UNCHANGED <<topic, orphans>>
      /\ Take(Current(t), k.commit.strategy)
  BY DEF CreateOrder
<1>3. Current(t).qty \in Nat \ {0}
  BY <1>2, CurrentQty DEF ToldIInv
<1>4. /\ DOMAIN orders' = DOMAIN orders \cup {n} /\ n \notin DOMAIN orders
      /\ n \in Nat \ {0}
  BY <1>2, <1>3, TakeGoesOn DEF ToldIInv, EngineIInv
<1>5. PICK o \in Answer(orders', n) : call' = [call EXCEPT ![t].order = o]
  BY DEF CreateOrder
<1>6. o.id = n
  BY DEF Answer
<1>7. /\ \A u \in Tasks \ {t} : call'[u] = call[u]
      /\ call'[t].order = o /\ call'[t].results = k.results
      /\ call'[t].at = k.at /\ call'[t].done = k.done /\ call'[t].commit = k.commit
  BY <1>1, <1>5 DEF CallType
<1>8. /\ HeldOf(k) \subseteq DOMAIN orders \ orphans /\ Distinct(k)
      /\ orphans \subseteq DOMAIN orders
  BY HeldIsHeldOf DEF ToldIInv, OneHolder
<1> HIDE DEF n, k
<1>9. Live(call'[t]) = Live(k)
  BY <1>7 DEF Live
<1>10. HeldOf(call'[t]) = HeldOf(k) \cup {n}
  BY <1>2, <1>4, <1>6, <1>7, <1>9 DEF HeldOf, NoOrder
<1>11. Distinct(call'[t])
  BY <1>4, <1>6, <1>7, <1>8, <1>9 DEF Distinct, HeldOf
<1>12. k.done + 1 \in Slots(k) /\ Slots(call'[t]) \subseteq Slots(k) \ {k.done + 1}
  <2>1. /\ k.done \in Nat /\ k.done <= Len(k.commit.actions) /\ Listed(k.commit.actions)
        /\ k.done # Len(k.commit.actions)
    BY <1>1, <1>2
    DEF ToldIInv, EngineIInv, CallsSound, CallSound, CallInStep, CommitSound, CallType,
        AllDone, k
  <2>2. Len(k.commit.actions) \in Nat
    BY <2>1, ListedLen
  <2>3. o # NoOrder
    BY <1>4, <1>6 DEF NoOrder
  <2>4. QED
    BY <1>2, <1>7, <2>1, <2>2, <2>3 DEF Slots
<1>13. QED
  BY <1>2, <1>3, <1>4, <1>7, <1>10, <1>11, <1>12 DEF k, n

LEMMA CreateOrderTold ==
  ASSUME ToldIInv, EngineIInv', NEW t \in Tasks, CreateOrder(t) PROVE ToldIInv'
<1>1. HeldOf(call[t]) \subseteq DOMAIN orders \ orphans /\ orphans \subseteq DOMAIN orders
  BY HeldIsHeldOf DEF ToldIInv, OneHolder
<1>2. /\ HeldOf(call'[t]) \cap orphans = {}
      /\ DOMAIN orders' \ DOMAIN orders = {Len(orders')}
  BY <1>1, CreateOrderStep
<1>3. QED
  BY <1>2, CreateOrderStep, TopicTellsNoOrder, NothingTold

LEMMA FetchStep ==
  ASSUME ToldIInv, NEW t \in Tasks, FetchOrder(t) \/ FetchFails(t)
  PROVE  /\ UNCHANGED <<orders, topic, orphans>>
         /\ \A u \in Tasks \ {t} : call'[u] = call[u]
         /\ call'[t].commit = call[t].commit
         /\ HeldOf(call'[t]) = HeldOf(call[t]) /\ Distinct(call'[t])
         /\ Slots(call'[t]) = Slots(call[t])
<1>1. PICK C : call \in [Tasks -> CallType(C)] /\ NoCall \in CallType(C)
  BY CallsTyped DEF ToldIInv
<1>2. /\ UNCHANGED <<orders, topic, orphans>>
      /\ call[t].at = "push"
      /\ \E o, n : call' = [call EXCEPT ![t].order = o, ![t].polls = n]
  <2>1. CASE FetchOrder(t)
    <3>1. PICK o : call' = [call EXCEPT ![t].order = o, ![t].polls = call[t].polls + 1]
      BY <1>1, <2>1 DEF FetchOrder
    <3>2. QED
      BY <2>1, <3>1 DEF FetchOrder, Polling
  <2>2. CASE FetchFails(t)
    <3>1. call' = [call EXCEPT ![t].order = call[t].order, ![t].polls = call[t].polls + 1]
      BY <1>1, <2>2 DEF FetchFails, CallType
    <3>2. QED
      BY <2>2, <3>1 DEF FetchFails, Polling
  <2>3. QED
    BY <2>1, <2>2
<1>3. /\ \A u \in Tasks \ {t} : call'[u] = call[u]
      /\ call'[t].results = call[t].results /\ call'[t].at = "push"
      /\ call'[t].done = call[t].done /\ call'[t].commit = call[t].commit
  BY <1>1, <1>2 DEF CallType
<1>4. call'[t].order.id = call[t].order.id
  <2>1. CASE FetchOrder(t)
    <3>1. PICK o \in Answer(orders, call[t].order.id) : call'[t].order = o
      BY <1>1, <2>1 DEF FetchOrder, CallType
    <3>2. QED
      BY <3>1 DEF Answer
  <2>2. CASE FetchFails(t)
    BY <1>1, <2>2 DEF FetchFails, CallType
  <2>3. QED
    BY <2>1, <2>2
<1>5. Distinct(call[t])
  BY DEF ToldIInv, OneHolder
<1>6. HeldOf(call'[t]) = HeldOf(call[t]) /\ Distinct(call'[t])
  <2>1. Live(call'[t]) = Live(call[t])
    BY <1>2, <1>3 DEF Live
  <2>2. HeldOf(call'[t]) = HeldOf(call[t])
    BY <1>3, <1>4, <2>1 DEF HeldOf
  <2>3. Distinct(call'[t])
    BY <1>3, <1>4, <1>5, <2>1 DEF Distinct
  <2>4. QED
    BY <2>2, <2>3
<1>7. Slots(call'[t]) = Slots(call[t])
  <2>1. call[t].order # NoOrder /\ call[t].order.id \in DOMAIN orders
    BY DEF FetchOrder, FetchFails, Polling, ToldIInv, EngineIInv, CallsSound, CallSound,
           AnswerSound
  <2>2. call'[t].order # NoOrder
    BY <1>4, <2>1, OrdersAreNumbered DEF ToldIInv, NoOrder
  <2>3. QED
    BY <1>2, <1>3, <2>1, <2>2 DEF Slots
<1>8. QED
  BY <1>2, <1>3, <1>6, <1>7

LEMMA FetchTold ==
  ASSUME ToldIInv, EngineIInv', NEW t \in Tasks, FetchOrder(t) \/ FetchFails(t)
  PROVE  ToldIInv'
BY FetchStep, SameHeld

\* The order in hand becomes a result.
LEMMA OrderDoneStep ==
  ASSUME ToldIInv, NEW t \in Tasks, OrderDone(t)
  PROVE  /\ UNCHANGED <<orders, topic, orphans>>
         /\ \A u \in Tasks \ {t} : call'[u] = call[u]
         /\ call'[t].commit = call[t].commit
         /\ HeldOf(call'[t]) = HeldOf(call[t]) /\ Distinct(call'[t])
         /\ Slots(call'[t]) \subseteq Slots(call[t])
<1> DEFINE k == call[t]
           r == OrderToResult(k.order, Current(t))
           q == Append(k.results, r)
<1>1. PICK C : call \in [Tasks -> CallType(C)] /\ NoCall \in CallType(C)
  BY CallsTyped DEF ToldIInv
<1>2. /\ k.at = "push" /\ k.order # NoOrder /\ UNCHANGED <<orders, topic, orphans>>
      /\ call' = [call EXCEPT ![t].results = q, ![t].done = @ + 1,
                              ![t].order = NoOrder, ![t].polls = 0]
  BY DEF OrderDone
<1>3. r.order = k.order.id
  BY DEF OrderToResult
<1>4. /\ k.results \in Seq(Results) /\ k.done \in Nat /\ AnswerSound(orders, k.order)
      /\ HeldOf(k) \subseteq DOMAIN orders /\ Distinct(k)
  BY <1>1, <1>2, HeldIsHeldOf
  DEF ToldIInv, EngineIInv, CallsSound, CallSound, CallType, OneHolder
<1>5. 0 \notin DOMAIN orders /\ k.order.id \in DOMAIN orders
  BY <1>4, OrdersAreNumbered DEF ToldIInv, AnswerSound
<1>6. Listed(k.results)
  BY <1>4 DEF Listed
<1> HIDE DEF r
<1>7. /\ DOMAIN q = DOMAIN k.results \cup {Len(k.results) + 1}
      /\ \A i \in DOMAIN k.results : q[i] = k.results[i]
      /\ q[Len(k.results) + 1] = r
  BY <1>6, ListedAppend
<1> HIDE DEF q, r
<1>8. /\ \A u \in Tasks \ {t} : call'[u] = call[u]
      /\ call'[t].results = q /\ call'[t].order = NoOrder /\ call'[t].at = "push"
      /\ call'[t].done = k.done + 1 /\ call'[t].commit = k.commit
  <2>1. k \in CallType(C)
    BY <1>1
  <2>2. /\ \A u \in Tasks \ {t} : call'[u] = call[u]
        /\ call'[t] = [k EXCEPT !.results = q, !.done = @ + 1, !.order = NoOrder, !.polls = 0]
    BY <1>1, <1>2
  <2>3. \A c \in CallType(C) : \A d : LET e == [c EXCEPT !.results = q, !.done = d,
                                                     !.order = NoOrder, !.polls = 0]
          IN  /\ e.results = q /\ e.order = NoOrder /\ e.at = c.at
              /\ e.done = d /\ e.commit = c.commit
    BY DEF CallType
  <2> DEFINE d == k.done + 1
  <2>4. call'[t] = [k EXCEPT !.results = q, !.done = d, !.order = NoOrder, !.polls = 0]
    BY <2>2
  <2> HIDE DEF k, d
  <2>5. /\ call'[t].results = q /\ call'[t].order = NoOrder /\ call'[t].at = k.at
        /\ call'[t].done = d /\ call'[t].commit = k.commit
    BY <2>1, <2>3, <2>4
  <2>6. QED
    BY <1>2, <2>2, <2>5 DEF d
<1> HIDE DEF k
<1>9. Live(k) = DOMAIN k.results /\ Live(call'[t]) = DOMAIN q /\ NoOrder.id = 0
  BY <1>2, <1>8 DEF Live, NoOrder
<1>10. HeldOf(call'[t]) = HeldOf(k)
  BY <1>3, <1>5, <1>7, <1>8, <1>9 DEF HeldOf
<1>11. Distinct(call'[t])
  <2>1. \A i \in DOMAIN k.results : k.results[i].order # 0 /\ k.results[i].order # k.order.id
    BY <1>4, <1>5, <1>9 DEF Distinct, HeldOf
  <2>2. \A i, j \in DOMAIN k.results : k.results[i].order = k.results[j].order => i = j
    BY <1>4, <1>9 DEF Distinct
  <2>3. \A i \in DOMAIN q : q[i].order # 0
    BY <1>3, <1>5, <1>7, <2>1
  <2>4. \A i, j \in DOMAIN q : q[i].order = q[j].order => i = j
    BY <1>3, <1>7, <2>1, <2>2
  <2>5. QED
    BY <1>8, <1>9, <2>3, <2>4 DEF Distinct
<1>12. Slots(call'[t]) \subseteq Slots(k)
  BY <1>2, <1>4, <1>8 DEF Slots
<1>13. QED
  BY <1>2, <1>8, <1>10, <1>11, <1>12 DEF k

LEMMA OrderDoneTold ==
  ASSUME ToldIInv, EngineIInv', NEW t \in Tasks, OrderDone(t) PROVE ToldIInv'
BY OrderDoneStep, SameHeld

LEMMA PushReturnsStep ==
  ASSUME ToldIInv, NEW t \in Tasks, PushReturns(t)
  PROVE  /\ UNCHANGED <<orders, topic, orphans>>
         /\ \A u \in Tasks \ {t} : call'[u] = call[u]
         /\ call'[t].commit = call[t].commit
         /\ HeldOf(call'[t]) = HeldOf(call[t]) /\ Distinct(call'[t])
         /\ Slots(call'[t]) = {}
<1>1. PICK C : call \in [Tasks -> CallType(C)] /\ NoCall \in CallType(C)
  BY CallsTyped DEF ToldIInv
<1>2. /\ call[t].at = "push" /\ UNCHANGED <<orders, topic, orphans>>
      /\ \A u \in Tasks \ {t} : call'[u] = call[u]
      /\ call'[t].at = "outcome" /\ call'[t].done = 0
      /\ call'[t].results = call[t].results /\ call'[t].order = call[t].order
      /\ call'[t].commit = call[t].commit
  BY <1>1 DEF PushReturns, CallType
<1>3. call[t].results \in Seq(Results) /\ Distinct(call[t])
  BY <1>1 DEF ToldIInv, OneHolder, CallType
<1>4. Live(call'[t]) = Live(call[t])
  <2>1. \A i \in DOMAIN call[t].results : i > 0
    BY <1>3
  <2>2. QED
    BY <1>2, <2>1 DEF Live
<1>5. HeldOf(call'[t]) = HeldOf(call[t]) /\ Distinct(call'[t])
  BY <1>2, <1>3, <1>4 DEF HeldOf, Distinct
<1>6. Slots(call'[t]) = {}
  BY <1>2 DEF Slots
<1>7. QED
  BY <1>2, <1>5, <1>6

LEMMA PushReturnsTold ==
  ASSUME ToldIInv, EngineIInv', NEW t \in Tasks, PushReturns(t) PROVE ToldIInv'
BY PushReturnsStep, SameHeld

\* The one step that tells of an order: the call lets go of it, and nobody else
\* has it.
LEMMA PublishOutcomeStep ==
  ASSUME ToldIInv, NEW t \in Tasks, PublishOutcome(t)
  PROVE  /\ UNCHANGED <<orders, orphans>>
         /\ \A u \in Tasks \ {t} : call'[u] = call[u]
         /\ \E type, qty : \E x \in HeldOf(call[t]) :
              Tell(t, type, x, qty) /\ HeldOf(call'[t]) = HeldOf(call[t]) \ {x}
         /\ Distinct(call'[t]) /\ Slots(call'[t]) = {}
         /\ call'[t].commit = call[t].commit \/ HeldOf(call'[t]) = {}
<1> DEFINE k == call[t]
           d == k.done + 1
           r == k.results[d]
<1>0. PICK x : x = r.order
  OBVIOUS
<1>1. PICK C : call \in [Tasks -> CallType(C)] /\ NoCall \in CallType(C)
  BY CallsTyped DEF ToldIInv
<1>2. /\ k.at = "outcome" /\ UNCHANGED <<orders, orphans>>
      /\ Tell(t, OutcomeType(r.status), x, r.qty)
      /\ \/ d = Len(k.results) /\ Return(t)
         \/ d # Len(k.results) /\ call' = [call EXCEPT ![t].done = d]
  BY <1>0, <1>1 DEF PublishOutcome
<1>3. /\ k.done \in Nat /\ k.results \in Seq(Results) /\ k.done < Len(k.results)
      /\ k.order = NoOrder /\ Distinct(k) /\ HeldOf(k) \subseteq DOMAIN orders \ orphans
  BY <1>1, <1>2, HeldIsHeldOf
  DEF ToldIInv, EngineIInv, CallsSound, CallSound, CallInStep, CallType, OneHolder
<1>4. Len(k.results) \in Nat /\ DOMAIN k.results = 1 .. Len(k.results) /\ d \in Live(k)
  BY <1>2, <1>3 DEF Live
<1>5. \A u \in Tasks \ {t} : call'[u] = call[u]
  BY <1>1, <1>2 DEF Return
<1>6. HeldOf(call'[t]) = HeldOf(k) \ {x} /\ Distinct(call'[t])
  <2>1. CASE d = Len(k.results) /\ Return(t)
    <3>1. HeldOf(call'[t]) = {} /\ Distinct(call'[t])
      <4>1. call'[t] = NoCall
        BY <1>1, <2>1 DEF Return
      <4>2. NoCall.results = <<>> /\ NoCall.order.id = 0
        BY DEF NoCall, NoOrder
      <4>3. QED
        BY <4>1, <4>2, EmptyHandsHold
    <3>2. Live(k) = {d}
      BY <1>2, <1>3, <1>4, <2>1 DEF Live
    <3>3. HeldOf(k) = {x}
      BY <1>0, <1>3, <3>2 DEF HeldOf, NoOrder
    <3>4. QED
      BY <3>1, <3>3
  <2>2. CASE d # Len(k.results) /\ call' = [call EXCEPT ![t].done = d]
    <3>1. /\ call'[t].done = d /\ call'[t].at = k.at
          /\ call'[t].results = k.results /\ call'[t].order = k.order
      BY <1>1, <2>2 DEF CallType
    <3>2. Live(call'[t]) = Live(k) \ {d}
      BY <1>2, <1>3, <1>4, <3>1 DEF Live
    <3> HIDE DEF k, d, r
    <3>3. Distinct(call'[t])
      BY <1>3, <3>1, <3>2 DEF Distinct
    <3>4. \A i \in Live(k) : k.results[i].order = x => i = d
      BY <1>0, <1>3, <1>4 DEF Distinct, r
    <3>5. HeldOf(call'[t]) = HeldOf(k) \ {x}
      BY <1>0, <1>3, <1>4, <3>1, <3>2, <3>4 DEF HeldOf, NoOrder, r
    <3>6. QED
      BY <3>3, <3>5
  <2>3. QED
    BY <1>2, <2>1, <2>2
<1>7. x \in HeldOf(k)
  BY <1>0, <1>4 DEF HeldOf
<1>8. /\ Slots(call'[t]) = {}
      /\ call'[t].commit = k.commit \/ HeldOf(call'[t]) = {}
  <2>1. CASE Return(t)
    <3>1. call'[t] = NoCall
      BY <1>1, <2>1 DEF Return
    <3>2. NoCall.at = "idle" /\ NoCall.results = <<>> /\ NoCall.order.id = 0
      BY DEF NoCall, NoOrder
    <3>3. QED
      BY <3>1, <3>2, EmptyHandsHold DEF Slots
  <2>2. CASE call' = [call EXCEPT ![t].done = d]
    <3>1. call'[t].at = k.at /\ call'[t].commit = k.commit
      BY <1>1, <2>2 DEF CallType
    <3>2. QED
      BY <1>2, <3>1 DEF Slots
  <2>3. QED
    BY <1>2, <2>1, <2>2
<1>9. QED
  BY <1>2, <1>5, <1>6, <1>7, <1>8

LEMMA PublishOutcomeTold ==
  ASSUME ToldIInv, EngineIInv', NEW t \in Tasks, PublishOutcome(t) PROVE ToldIInv'
<1>1. PICK type, qty, x :
        /\ x \in HeldOf(call[t]) /\ Tell(t, type, x, qty)
        /\ HeldOf(call'[t]) = HeldOf(call[t]) \ {x}
  BY PublishOutcomeStep
<1>2. /\ UNCHANGED <<orders, orphans>> /\ Distinct(call'[t])
      /\ \A u \in Tasks \ {t} : call'[u] = call[u]
  BY PublishOutcomeStep
<1>3. x \in DOMAIN orders \ orphans /\ \A u \in Tasks \ {t} : x \notin Held(u)
  BY <1>1, HeldIsHeldOf DEF ToldIInv, OneHolder
<1>4. /\ \A u \in Tasks \ {t} : Held(u)' = Held(u)
      /\ Held(t)' = Held(t) \ {x} /\ x \in Held(t)
  <2>1. /\ \A u \in Tasks : Held(u) = HeldOf(call[u])
        /\ \A u \in Tasks : Held(u)' = HeldOf(call'[u])
    BY DEF Held, HeldOf, Live
  <2>2. QED
    BY <1>1, <1>2, <2>1
<1>5. OneHolder'
  <2>1. ASSUME NEW u \in Tasks \ {t} PROVE Distinct(call'[u])
    BY <1>2 DEF ToldIInv, OneHolder
  <2>2. QED
    BY <1>2, <1>4, <2>1 DEF ToldIInv, OneHolder
<1>6. /\ DOMAIN topic' = DOMAIN topic \cup {Len(topic) + 1}
      /\ \A i \in DOMAIN topic : topic'[i] = topic[i]
      /\ topic'[Len(topic) + 1].order = x
  BY <1>1, TopicGrows DEF ToldIInv
<1>7. /\ \A i \in DOMAIN topic' : topic'[i].order \in DOMAIN orders \cup {0}
      /\ \A id \in DOMAIN orders \ {x} : Outcomes(id)' = Outcomes(id)
      /\ Outcomes(x)' = Outcomes(x) \cup {Len(topic) + 1}
  <2>1. \A i \in DOMAIN topic : topic[i].order \in DOMAIN orders \cup {0}
    BY DEF ToldIInv, ToldOnce
  <2>2. \A id \in DOMAIN orders \ {x} : Outcomes(id)' = Outcomes(id)
    BY <1>6 DEF Outcomes
  <2>3. Outcomes(x)' = Outcomes(x) \cup {Len(topic) + 1}
    BY <1>6 DEF Outcomes
  <2>4. QED
    BY <1>3, <1>6, <2>1, <2>2, <2>3
<1>8. Pending(x) /\ ~Pending(x)'
  BY <1>2, <1>3, <1>4 DEF Pending
<1>9. \A id \in DOMAIN orders \ {x} : Pending(id)' <=> Pending(id)
  BY <1>2, <1>4 DEF Pending
<1>10. ToldOnce'
  <2>1. Outcomes(x)' = {Len(topic) + 1}
    BY <1>3, <1>7, <1>8 DEF ToldIInv, ToldOnce
  <2>2. QED
    BY <1>2, <1>7, <1>8, <1>9, <2>1 DEF ToldIInv, ToldOnce
<1>11. QED
  BY <1>5, <1>10 DEF ToldIInv

LEMMA EndsTold ==
  ASSUME ToldIInv, EngineIInv', NEW t \in Tasks,
         PublishFails(t) \/ CreateFails(t) \/ CancelFails(t) \/ Interrupted(t)
  PROVE  ToldIInv'
<1>1. Abandon(t) /\ UNCHANGED topic
  BY DEF PublishFails, CreateFails, CancelFails, Interrupted
<1>2. \/ UNCHANGED orders
      \/ /\ call[t].at = "push" /\ ~AllDone(t)
         /\ Take(Current(t), call[t].commit.strategy)
  BY DEF PublishFails, CreateFails, CancelFails, Interrupted
<1>3. DOMAIN orders \subseteq DOMAIN orders'
  BY <1>2, CurrentQty, TakeGoesOn DEF ToldIInv, EngineIInv
<1>4. QED
  BY <1>1, <1>3, AbandonTold

LEMMA EngineTold ==
  ASSUME ToldIInv, EngineIInv', NEW t \in Tasks, EngineStep(t) \/ EngineFails(t)
  PROVE  ToldIInv'
BY BeforePushTold, CreateOrderTold, FetchTold, OrderDoneTold, PushReturnsTold,
   PublishOutcomeTold, EndsTold
DEF EngineStep, EngineFails

LEMMA ExchangeTold == ASSUME ToldIInv, EngineIInv', Exchange PROVE ToldIInv'
<1>1. DOMAIN orders' = DOMAIN orders /\ UNCHANGED <<topic, call, orphans>>
  BY ExchangeGoesOn DEF ToldIInv, EngineIInv
<1>2. (\A t : Held(t)' = Held(t)) /\ \A id : Outcomes(id)' = Outcomes(id)
  BY <1>1 DEF Held, Outcomes
<1>3. QED
  BY <1>1, <1>2 DEF ToldIInv, OneHolder, ToldOnce, Pending

LEMMA StuttersTold == ASSUME ToldIInv, EngineIInv', UNCHANGED engineVars PROVE ToldIInv'
<1>1. UNCHANGED <<orders, topic, call, orphans>>
  BY DEF engineVars
<1>2. (\A t : Held(t)' = Held(t)) /\ \A id : Outcomes(id)' = Outcomes(id)
  BY <1>1 DEF Held, Outcomes
<1>3. QED
  BY <1>1, <1>2 DEF ToldIInv, OneHolder, ToldOnce, Pending

LEMMA ToldInit == LoopInit => ToldIInv
<1> SUFFICES ASSUME LoopInit PROVE ToldIInv
  OBVIOUS
<1>1. orders = <<>> /\ topic = <<>> /\ call = [t \in Tasks |-> NoCall] /\ orphans = {}
  BY DEF LoopInit, EngineInit
<1>2. HeldOf(NoCall) = {} /\ Distinct(NoCall)
  BY EmptyHandsHold DEF NoCall, NoOrder
<1>3. \A t \in Tasks : Held(t) = {} /\ Distinct(call[t])
  BY <1>1, <1>2, HeldIsHeldOf
<1>4. DOMAIN orders = {} /\ DOMAIN topic = {}
  BY <1>1
<1>5. QED
  BY <1>1, <1>3, <1>4, EngineInitIInv DEF ToldIInv, OneHolder, ToldOnce

LEMMA TradingStepTold == ToldIInv /\ [TradingNext]_allVars => ToldIInv'
<1> SUFFICES ASSUME ToldIInv, [TradingNext]_allVars PROVE ToldIInv'
  OBVIOUS
<1>1. EngineIInv'
  BY TradingStepKeeps DEF ToldIInv
<1>2. ASSUME NEW t \in Loops, LoopStep(t) PROVE ToldIInv'
  <2>1. t \in Tasks
    BY LoopAssumption
  <2>2. \/ \E m : ExecuteCommit(t, m) /\ UNCHANGED <<orders, topic, orphans>>
        \/ UNCHANGED engineVars
    BY <1>2
    DEF LoopStep, LoadStrategies, Recv, RecvLagged, RecvClosed, Hold, Signal, CandleDone
  <2>3. QED
    BY <1>1, <2>1, <2>2, BeforePushTold, StuttersTold
<1>3. ASSUME NEW t \in Tasks, Broker(t) PROVE ToldIInv'
  BY <1>1, <1>3, EngineTold DEF Broker
<1>4. ASSUME World PROVE ToldIInv'
  <2>1. ASSUME NEW t \in Loops, StreamEnds(t) \/ Shutdown(t) \/ Start(t) PROVE ToldIInv'
    <3>1. t \in Tasks
      BY LoopAssumption
    <3>2. Interrupted(t) \/ UNCHANGED engineVars
      BY <2>1 DEF StreamEnds, Shutdown, Start
    <3>3. QED
      BY <1>1, <3>1, <3>2, EndsTold, StuttersTold
  <2>2. ASSUME NEW t \in Loops, NEW symbol, Send(t, symbol) PROVE ToldIInv'
    BY <1>1, <2>2, StuttersTold DEF Send
  <2>3. ASSUME NEW t \in Tasks, NEW m, Execute(t, m) PROVE ToldIInv'
    BY <1>1, <2>3, BeforePushTold DEF Execute
  <2>4. QED
    BY <1>1, <1>4, <2>1, <2>2, <2>3, ExchangeTold DEF World
<1>5. CASE UNCHANGED allVars
  BY <1>1, <1>5, StuttersTold DEF allVars
<1>6. QED
  BY <1>2, <1>3, <1>4, <1>5 DEF TradingNext

\* ToldIInv is an invariant of live trading.
THEOREM ToldInvariant == TradingSpec => []ToldIInv
BY ToldInit, TradingStepTold, PTL DEF TradingSpec

\* For all tasks, commits, guards, faults, polling limits and shutdowns: every
\* order the exchange took has exactly one outcome event once its call is over,
\* and none while a call holds it or if its call failed or was dropped
\* (engine.rs, brokers/ccxt.rs, signal_loop.rs).
THEOREM OrdersTold == TradingSpec => []EveryOrderTold
<1>1. ToldIInv => EveryOrderTold
  <2> SUFFICES ASSUME ToldIInv, NEW id \in DOMAIN orders
               PROVE  Cardinality(Outcomes(id)) =
                        IF id \in orphans \/ \E t \in Tasks : id \in Held(t) THEN 0 ELSE 1
    BY DEF EveryOrderTold
  <2>1. CASE Pending(id)
    <3>1. Outcomes(id) = {}
      BY <2>1 DEF ToldIInv, ToldOnce
    <3>2. QED
      BY <2>1, <3>1, FS_EmptySet DEF Pending
  <2>2. CASE ~Pending(id)
    <3>1. PICK i : Outcomes(id) = {i}
      BY <2>2 DEF ToldIInv, ToldOnce
    <3>2. QED
      BY <2>2, <3>1, FS_Singleton DEF Pending
  <2>3. QED
    BY <2>1, <2>2
<1>2. QED
  BY <1>1, ToldInvariant, PTL
-----------------------------------------------------------------------------
(***************************************************************************)
(* The table of a strategy adds up.  An order is named after the strategy  *)
(* of its call, and so is all that is told of it; and every order has an   *)
(* announcement of its own, an event "Submitted" of its strategy: that of  *)
(* the action it came from, which was announced before the push.           *)
(***************************************************************************)
HeldNamed ==
  \A t \in Tasks : \A id \in HeldOf(call[t]) : orders[id].strategy = call[t].commit.strategy

EventsNamed ==
  \A i \in DOMAIN topic :
    topic[i].order \in DOMAIN orders => topic[i].strategy = orders[topic[i].order].strategy

Announced(tp, s) == {n \in DOMAIN tp : tp[n].type = "Submitted" /\ tp[n].strategy = s}

\* f gives each order its announcement, g each action that may become one.
Matching(tp, os, cs, f, g) ==
  /\ \A id \in DOMAIN os : f[id] \in Announced(tp, os[id].strategy)
  /\ \A t \in Tasks : \A i \in Slots(cs[t]) : g[t][i] \in Announced(tp, cs[t].commit.strategy)
  /\ \A id, jd \in DOMAIN os : f[id] = f[jd] => id = jd
  /\ \A t, u \in Tasks : \A i \in Slots(cs[t]), j \in Slots(cs[u]) :
       g[t][i] = g[u][j] => t = u /\ i = j
  /\ \A id \in DOMAIN os, t \in Tasks : \A i \in Slots(cs[t]) : f[id] # g[t][i]

Matched ==
  \E f \in [Nat -> Nat], g \in [Tasks -> [Nat -> Nat]] : Matching(topic, orders, call, f, g)

TableIInv == ToldIInv /\ HeldNamed /\ EventsNamed /\ Matched

\* What a step does to the call of t when it takes no order: it lets go of
\* orders and of actions, and may tell of an order it held.
LetsGo(t) ==
  /\ \A u \in Tasks \ {t} : call'[u] = call[u]
  /\ HeldOf(call'[t]) \subseteq HeldOf(call[t]) /\ Slots(call'[t]) \subseteq Slots(call[t])
  /\ \/ call'[t].commit = call[t].commit
     \/ HeldOf(call'[t]) = {} /\ Slots(call'[t]) = {}

TellsOf(t) ==
  \/ UNCHANGED topic
  \/ \E type, qty : \E id \in HeldOf(call[t]) : Tell(t, type, id, qty)

\* What is announced stays announced.
LEMMA AnnouncedStays ==
  ASSUME EngineIInv,
         \/ UNCHANGED topic
         \/ \E t, type, id, qty : Tell(t, type, id, qty)
  PROVE  \A s : Announced(topic, s) \subseteq Announced(topic', s)
<1>1. \A i \in DOMAIN topic : i \in DOMAIN topic' /\ topic'[i] = topic[i]
  BY TopicGrows
<1>2. QED
  BY <1>1 DEF Announced

\* A matching lives on when no order and no action comes in.
LEMMA MatchingStays ==
  ASSUME NEW f, NEW g, Matching(topic, orders, call, f, g),
         \A s : Announced(topic, s) \subseteq Announced(topic', s),
         OrdersGoOn, DOMAIN orders' = DOMAIN orders,
         \A u \in Tasks : /\ Slots(call'[u]) \subseteq Slots(call[u])
                          /\ \/ Slots(call'[u]) = {}
                             \/ call'[u].commit = call[u].commit
  PROVE  Matching(topic', orders', call', f, g)
<1>1. \A id \in DOMAIN orders' : f[id] \in Announced(topic', orders'[id].strategy)
  BY DEF Matching, OrdersGoOn
<1>2. \A u \in Tasks : \A i \in Slots(call'[u]) :
        g[u][i] \in Announced(topic', call'[u].commit.strategy)
  BY DEF Matching
<1>3. \A u, v \in Tasks : \A i \in Slots(call'[u]), j \in Slots(call'[v]) :
        g[u][i] = g[v][j] => u = v /\ i = j
  <2>1. TAKE u, v \in Tasks
  <2>2. TAKE i \in Slots(call'[u]), j \in Slots(call'[v])
  <2>3. i \in Slots(call[u]) /\ j \in Slots(call[v])
    OBVIOUS
  <2>4. QED
    BY <2>3 DEF Matching
<1>4. /\ \A id, jd \in DOMAIN orders' : f[id] = f[jd] => id = jd
      /\ \A id \in DOMAIN orders', u \in Tasks : \A i \in Slots(call'[u]) : f[id] # g[u][i]
  BY DEF Matching
<1>5. QED
  BY <1>1, <1>2, <1>3, <1>4 DEF Matching

LEMMA NothingTaken ==
  ASSUME TableIInv, ToldIInv', OrdersGoOn, DOMAIN orders' = DOMAIN orders,
         NEW t \in Tasks, LetsGo(t), TellsOf(t)
  PROVE  TableIInv'
<1>1. EngineIInv /\ \A u \in Tasks : HeldOf(call[u]) \subseteq DOMAIN orders
  BY HeldIsHeldOf DEF TableIInv, ToldIInv, OneHolder
<1>2. HeldNamed'
  BY <1>1 DEF HeldNamed, LetsGo, OrdersGoOn, TableIInv
<1>3. EventsNamed'
  <2>1. CASE UNCHANGED topic
    BY <2>1 DEF EventsNamed, OrdersGoOn, TableIInv
  <2>2. ASSUME NEW type, NEW qty, NEW id \in HeldOf(call[t]), Tell(t, type, id, qty)
        PROVE  EventsNamed'
    <3>1. orders[id].strategy = call[t].commit.strategy /\ id \in DOMAIN orders
      BY <1>1 DEF TableIInv, HeldNamed
    <3>2. QED
      BY <1>1, <2>2, <3>1, TopicGrows DEF EventsNamed, OrdersGoOn, TableIInv
  <2>3. QED
    BY <2>1, <2>2 DEF TellsOf
<1>4. Matched'
  <2>1. PICK f \in [Nat -> Nat], g \in [Tasks -> [Nat -> Nat]] :
          Matching(topic, orders, call, f, g)
    BY DEF TableIInv, Matched
  <2>2. \A s : Announced(topic, s) \subseteq Announced(topic', s)
    BY <1>1, AnnouncedStays DEF TellsOf
  <2>3. Matching(topic', orders', call', f, g)
    BY <2>1, <2>2, MatchingStays DEF LetsGo
  <2>4. QED
    BY <2>3 DEF Matched
<1>5. QED
  BY <1>2, <1>3, <1>4 DEF TableIInv

\* The exchange and the steps that are not of the engine.
LEMMA CallsStay ==
  ASSUME TableIInv, ToldIInv', OrdersGoOn, DOMAIN orders' = DOMAIN orders,
         UNCHANGED <<call, topic>>
  PROVE  TableIInv'
<1>1. \A u \in Tasks : HeldOf(call[u]) \subseteq DOMAIN orders
  BY HeldIsHeldOf DEF TableIInv, ToldIInv, OneHolder
<1>2. HeldNamed'
  BY <1>1 DEF HeldNamed, OrdersGoOn, TableIInv
<1>3. EventsNamed'
  BY DEF EventsNamed, OrdersGoOn, TableIInv
<1>4. PICK f \in [Nat -> Nat], g \in [Tasks -> [Nat -> Nat]] :
          Matching(topic, orders, call, f, g)
  BY DEF TableIInv, Matched
<1>5. \A s : Announced(topic, s) \subseteq Announced(topic', s)
  BY DEF Announced
<1>6. Matching(topic', orders', call', f, g)
  BY <1>4, <1>5, MatchingStays
<1>7. QED
  BY <1>2, <1>3, <1>6 DEF TableIInv, Matched

\* One more action of the commit is announced.
LEMMA OneAnnounced ==
  ASSUME TableIInv, ToldIInv', UNCHANGED orders, NEW t \in Tasks, NEW qty,
         Tell(t, "Submitted", 0, qty), NEW d \in Nat,
         \A u \in Tasks \ {t} : call'[u] = call[u], call'[t].commit = call[t].commit,
         HeldOf(call'[t]) = {}, Slots(call[t]) \subseteq Nat \ {d},
         Slots(call'[t]) \subseteq Slots(call[t]) \cup {d}
  PROVE  TableIInv'
<1> DEFINE n == Len(topic) + 1
           s == call[t].commit.strategy
<1>1. /\ EngineIInv /\ DOMAIN orders \subseteq Nat \ {0}
      /\ \A u \in Tasks : HeldOf(call[u]) \subseteq DOMAIN orders
  BY HeldIsHeldOf, OrdersAreNumbered DEF TableIInv, ToldIInv, OneHolder
<1>2. /\ DOMAIN topic' = DOMAIN topic \cup {n}
      /\ n \in Nat \ DOMAIN topic /\ DOMAIN topic \subseteq Nat
      /\ \A i \in DOMAIN topic : topic'[i] = topic[i]
      /\ topic'[n].type = "Submitted" /\ topic'[n].order = 0 /\ topic'[n].strategy = s
  BY <1>1, TopicGrows
<1> HIDE DEF n, s
<1>3. HeldNamed'
  BY <1>1 DEF HeldNamed, TableIInv
<1>4. EventsNamed'
  BY <1>1, <1>2 DEF EventsNamed, TableIInv
<1>5. Matched'
  <2>1. PICK f \in [Nat -> Nat], g \in [Tasks -> [Nat -> Nat]] :
          Matching(topic, orders, call, f, g)
    BY DEF TableIInv, Matched
  <2> DEFINE h == [g EXCEPT ![t] = [g[t] EXCEPT ![d] = n]]
  <2>2. /\ h \in [Tasks -> [Nat -> Nat]] /\ h[t][d] = n
        /\ \A i \in Nat \ {d} : h[t][i] = g[t][i]
        /\ \A u \in Tasks \ {t} : h[u] = g[u]
    BY <1>2, <2>1
  <2> HIDE DEF h
  <2>3. /\ \A x : Announced(topic, x) \subseteq Announced(topic', x)
        /\ n \in Announced(topic', s)
        /\ \A x : n \notin Announced(topic, x)
    BY <1>2 DEF Announced
  <2>4. /\ \A u \in Tasks : \A i \in Slots(call'[u]) :
             \/ i \in Slots(call[u]) /\ h[u][i] = g[u][i] /\ ~(u = t /\ i = d)
             \/ u = t /\ i = d /\ h[u][i] = n
      /\ \A u \in Tasks : call'[u].commit = call[u].commit
    BY <2>2
  <2>5. \A id \in DOMAIN orders' : f[id] \in Announced(topic', orders'[id].strategy)
    BY <2>1, <2>3 DEF Matching
  <2>6. \A u \in Tasks : \A i \in Slots(call'[u]) :
          h[u][i] \in Announced(topic', call'[u].commit.strategy)
    <3>1. TAKE u \in Tasks
    <3>2. TAKE i \in Slots(call'[u])
    <3>3. call'[u].commit = call[u].commit
      BY <2>4
    <3>4. CASE i \in Slots(call[u]) /\ h[u][i] = g[u][i]
      BY <2>1, <2>3, <3>3, <3>4 DEF Matching
    <3>5. CASE u = t /\ h[u][i] = n
      BY <2>3, <3>3, <3>5 DEF s
    <3>6. QED
      BY <2>4, <3>4, <3>5
  <2>7. /\ \A id \in DOMAIN orders : f[id] # n
        /\ \A u \in Tasks : \A i \in Slots(call[u]) : g[u][i] # n
    BY <2>1, <2>3 DEF Matching
  <2>8. \A u, v \in Tasks : \A i \in Slots(call'[u]), j \in Slots(call'[v]) :
          h[u][i] = h[v][j] => u = v /\ i = j
    <3>1. TAKE u, v \in Tasks
    <3>2. TAKE i \in Slots(call'[u]), j \in Slots(call'[v])
    <3>3. /\ \/ i \in Slots(call[u]) /\ h[u][i] = g[u][i]
             \/ u = t /\ i = d /\ h[u][i] = n
          /\ \/ j \in Slots(call[v]) /\ h[v][j] = g[v][j]
             \/ v = t /\ j = d /\ h[v][j] = n
      BY <2>4
    <3>4. /\ i \in Slots(call[u]) => g[u][i] # n
          /\ j \in Slots(call[v]) => g[v][j] # n
      BY <2>7
    <3>5. i \in Slots(call[u]) /\ j \in Slots(call[v]) /\ g[u][i] = g[v][j] => u = v /\ i = j
      BY <2>1 DEF Matching
    <3>6. QED
      BY <3>3, <3>4, <3>5
  <2>9. \A id \in DOMAIN orders', u \in Tasks : \A i \in Slots(call'[u]) : f[id] # h[u][i]
    BY <2>1, <2>4, <2>7 DEF Matching
  <2>10. Matching(topic', orders', call', f, h)
    BY <2>1, <2>5, <2>6, <2>8, <2>9 DEF Matching
  <2>11. QED
    BY <2>1, <2>2, <2>10 DEF Matched
<1>6. QED
  BY <1>3, <1>4, <1>5 DEF TableIInv

\* The exchange takes the order of action d, which its announcement is for.
LEMMA OneTaken ==
  ASSUME TableIInv, ToldIInv', OrdersSound, NEW t \in Tasks, NEW a, a.qty \in Nat \ {0},
         Take(a, call[t].commit.strategy), UNCHANGED topic, NEW d \in Slots(call[t]),
         \A u \in Tasks \ {t} : call'[u] = call[u],
         HeldOf(call'[t]) \subseteq HeldOf(call[t]) \cup {Len(orders')},
         Slots(call'[t]) \subseteq Slots(call[t]) \ {d},
         \/ call'[t].commit = call[t].commit
         \/ HeldOf(call'[t]) = {} /\ Slots(call'[t]) = {}
  PROVE  TableIInv'
<1> DEFINE n == Len(orders')
           s == call[t].commit.strategy
<1>1. /\ EngineIInv /\ DOMAIN orders \subseteq Nat \ {0}
      /\ \A u \in Tasks : HeldOf(call[u]) \subseteq DOMAIN orders
      /\ \A i \in DOMAIN topic : topic[i].order \in DOMAIN orders \cup {0}
  BY HeldIsHeldOf, OrdersAreNumbered DEF TableIInv, ToldIInv, OneHolder, ToldOnce
<1>2. /\ OrdersGoOn /\ DOMAIN orders' = DOMAIN orders \cup {n}
      /\ n \in Nat \ {0} /\ n \notin DOMAIN orders
  BY TakeGoesOn
<1>3. orders'[n].strategy = s
  <2> DEFINE o == [strategy |-> s, contract |-> a.contract, qty |-> a.qty,
                   filled |-> 0, status |-> "Open"]
  <2>1. orders' = Append(orders, o) /\ Listed(orders)
    BY DEF Take, OrdersSound
  <2>2. o.strategy = s
    OBVIOUS
  <2> HIDE DEF o, s, n
  <2>3. orders'[Len(orders) + 1] = o /\ Len(orders') = Len(orders) + 1
    BY <2>1, ListedAppend
  <2>4. QED
    BY <2>2, <2>3 DEF n
<1> HIDE DEF n
<1>4. HeldNamed'
  <2>1. \A u \in Tasks \ {t} : \A id \in HeldOf(call'[u]) :
          orders'[id].strategy = call'[u].commit.strategy
    BY <1>1, <1>2 DEF HeldNamed, TableIInv, OrdersGoOn
  <2>2. ASSUME NEW id \in HeldOf(call'[t])
        PROVE  orders'[id].strategy = call'[t].commit.strategy
    <3>1. call'[t].commit = call[t].commit /\ (id \in HeldOf(call[t]) \/ id = n)
      BY <2>2 DEF n
    <3>2. CASE id \in HeldOf(call[t])
      BY <1>1, <1>2, <3>1, <3>2 DEF HeldNamed, TableIInv, OrdersGoOn
    <3>3. CASE id = n
      BY <1>3, <3>1, <3>3
    <3>4. QED
      BY <3>1, <3>2, <3>3
  <2>3. QED
    BY <2>1, <2>2 DEF HeldNamed
<1> HIDE DEF s
<1>5. EventsNamed'
  BY <1>1, <1>2 DEF EventsNamed, OrdersGoOn, TableIInv
<1>6. Matched'
  <2>1. PICK f \in [Nat -> Nat], g \in [Tasks -> [Nat -> Nat]] :
          Matching(topic, orders, call, f, g)
    BY DEF TableIInv, Matched
  <2>2. d \in Nat
    BY DEF Slots
  <2> DEFINE h == [f EXCEPT ![n] = g[t][d]]
  <2>3. h \in [Nat -> Nat] /\ h[n] = g[t][d] /\ \A id \in DOMAIN orders : h[id] = f[id]
    BY <1>1, <1>2, <2>1, <2>2
  <2> HIDE DEF h
  <2>4. \A x : Announced(topic', x) = Announced(topic, x)
    BY DEF Announced
  <2>5. \A u \in Tasks : \A i \in Slots(call'[u]) :
          /\ i \in Slots(call[u]) /\ ~(u = t /\ i = d)
          /\ call'[u].commit = call[u].commit
    OBVIOUS
  <2>6. \A id \in DOMAIN orders' : h[id] \in Announced(topic', orders'[id].strategy)
    BY <1>2, <1>3, <2>1, <2>3, <2>4 DEF Matching, OrdersGoOn, s
  <2>7. \A u \in Tasks : \A i \in Slots(call'[u]) :
          g[u][i] \in Announced(topic', call'[u].commit.strategy)
    BY <2>1, <2>4, <2>5 DEF Matching
  <2>8. \A id, jd \in DOMAIN orders' : h[id] = h[jd] => id = jd
    BY <1>2, <2>1, <2>3 DEF Matching
  <2>9. \A u, v \in Tasks : \A i \in Slots(call'[u]), j \in Slots(call'[v]) :
          g[u][i] = g[v][j] => u = v /\ i = j
    <3>1. TAKE u, v \in Tasks
    <3>2. TAKE i \in Slots(call'[u]), j \in Slots(call'[v])
    <3>3. i \in Slots(call[u]) /\ j \in Slots(call[v])
      BY <2>5
    <3>4. HAVE g[u][i] = g[v][j]
    <3>5. QED
      BY <2>1, <3>3, <3>4 DEF Matching
  <2>10. \A id \in DOMAIN orders', u \in Tasks : \A i \in Slots(call'[u]) : h[id] # g[u][i]
    <3>1. TAKE id \in DOMAIN orders', u \in Tasks
    <3>2. TAKE i \in Slots(call'[u])
    <3>3. i \in Slots(call[u]) /\ ~(u = t /\ i = d)
      BY <2>5
    <3>4. CASE id \in DOMAIN orders
      <4>1. f[id] # g[u][i]
        BY <2>1, <3>3, <3>4 DEF Matching
      <4>2. QED
        BY <2>3, <3>4, <4>1
    <3>5. CASE id = n
      <4>1. g[t][d] # g[u][i]
        BY <2>1, <3>3 DEF Matching
      <4>2. QED
        BY <2>3, <3>5, <4>1
    <3>6. QED
      BY <1>2, <3>4, <3>5
  <2>11. Matching(topic', orders', call', h, g)
    BY <2>6, <2>7, <2>8, <2>9, <2>10 DEF Matching
  <2>12. QED
    BY <2>1, <2>3, <2>11 DEF Matched
<1>7. QED
  BY <1>4, <1>5, <1>6 DEF TableIInv

-----------------------------------------------------------------------------
(***************************************************************************)
(* The steps of the engine and of the world keep the table.                *)
(***************************************************************************)
LEMMA TableFacts ==
  ASSUME TableIInv
  PROVE  ToldIInv /\ EngineIInv /\ OrdersSound
BY DEF TableIInv, ToldIInv, EngineIInv

LEMMA NoCallHoldsNothing == HeldOf(NoCall) = {} /\ Slots(NoCall) = {}
<1>1. NoCall.results = <<>> /\ NoCall.order.id = 0 /\ NoCall.at = "idle"
  BY DEF NoCall, NoOrder
<1>2. QED
  BY <1>1, EmptyHandsHold DEF Slots

LEMMA ReturnLetsGo == ASSUME EngineIInv, NEW t \in Tasks, Return(t) PROVE LetsGo(t)
<1>1. call'[t] = NoCall /\ \A u \in Tasks \ {t} : call'[u] = call[u]
  BY CallsTyped DEF Return
<1>2. QED
  BY <1>1, NoCallHoldsNothing DEF LetsGo

LEMMA BeforePushTable ==
  ASSUME TableIInv, ToldIInv', NEW t \in Tasks,
         \/ \E m : ExecuteCommit(t, m) /\ UNCHANGED <<orders, topic, orphans>>
         \/ AccountFails(t) \/ CheckGuards(t)
  PROVE  TableIInv'
<1>1. UNCHANGED <<orders, topic>>
  BY DEF AccountFails, CheckGuards
<1>2. EngineIInv /\ OrdersSound
  BY TableFacts
<1>3. PICK C : call \in [Tasks -> CallType(C)] /\ NoCall \in CallType(C)
  BY <1>2, CallsTyped
<1>4. LetsGo(t)
  <2>1. CASE Return(t)
    BY <1>2, <2>1, ReturnLetsGo
  <2>2. ASSUME NEW m, ExecuteCommit(t, m) PROVE LetsGo(t)
    <3> DEFINE c == [NoCall EXCEPT !.at = "account", !.commit = m]
    <3>1. call'[t] = c /\ \A u \in Tasks \ {t} : call'[u] = call[u]
      BY <1>3, <2>2 DEF ExecuteCommit
    <3>2. c.at = "account" /\ c.results = <<>> /\ c.order.id = 0
      BY DEF NoCall, NoOrder
    <3> HIDE DEF c
    <3>3. HeldOf(c) = {} /\ Slots(c) = {}
      BY <3>2, EmptyHandsHold DEF Slots
    <3>4. QED
      BY <3>1, <3>3 DEF LetsGo
  <2>3. CASE call[t].at = "account" /\ call' = [call EXCEPT ![t].at = "submit"]
    <3>1. call[t].done = 0 /\ call[t].results = <<>> /\ call[t].order = NoOrder
      BY <1>2, <2>3 DEF EngineIInv, CallsSound, CallSound, CallInStep
    <3>2. /\ call'[t].at = "submit" /\ call'[t].done = 0 /\ call'[t].results = <<>>
          /\ call'[t].order = NoOrder /\ \A u \in Tasks \ {t} : call'[u] = call[u]
      BY <1>3, <2>3, <3>1 DEF CallType
    <3>3. HeldOf(call'[t]) = {} /\ Slots(call'[t]) = {}
      BY <3>2, EmptyHandsHold DEF Slots, NoOrder
    <3>4. QED
      BY <3>2, <3>3 DEF LetsGo
  <2>4. QED
    BY <2>1, <2>2, <2>3 DEF AccountFails, CheckGuards
<1>5. QED
  BY <1>1, <1>2, <1>4, OrdersStay, NothingTaken DEF TellsOf

LEMMA PublishSubmittedTable ==
  ASSUME TableIInv, ToldIInv', NEW t \in Tasks, PublishSubmitted(t) PROVE TableIInv'
<1> DEFINE k == call[t]
           d == k.done + 1
<1>1. EngineIInv /\ k.at = "submit"
  BY TableFacts DEF PublishSubmitted
<1>2. /\ UNCHANGED orders /\ \A u \in Tasks \ {t} : call'[u] = call[u]
      /\ k.done \in Nat /\ call'[t].commit = k.commit
      /\ call'[t].order = NoOrder /\ call'[t].results = <<>>
      /\ \/ call'[t].at = "submit" /\ call'[t].done = d
         \/ call'[t].at = "push" /\ call'[t].done = 0 /\ d = Len(k.commit.actions)
  BY <1>1, CallsTyped, PublishSubmittedStep
<1>3. PICK qty : Tell(t, "Submitted", 0, qty)
  BY DEF PublishSubmitted
<1>4. HeldOf(call'[t]) = {}
  BY <1>2, EmptyHandsHold DEF NoOrder
<1> HIDE DEF k
<1>5. /\ Slots(k) \subseteq Nat \ {d} /\ d \in Nat
      /\ Slots(call'[t]) \subseteq Slots(k) \cup {d}
  BY <1>1, <1>2 DEF Slots
<1>6. QED
  BY <1>2, <1>3, <1>4, <1>5, OneAnnounced DEF k

LEMMA PushTable ==
  ASSUME TableIInv, ToldIInv', NEW t \in Tasks,
         FetchOrder(t) \/ FetchFails(t) \/ OrderDone(t) \/ PushReturns(t) \/ PublishOutcome(t)
  PROVE  TableIInv'
<1>1. ToldIInv /\ OrdersSound
  BY TableFacts
<1>2. UNCHANGED orders /\ LetsGo(t) /\ TellsOf(t)
  <2>1. CASE FetchOrder(t) \/ FetchFails(t)
    BY <1>1, <2>1, FetchStep DEF LetsGo, TellsOf
  <2>2. CASE OrderDone(t)
    BY <1>1, <2>2, OrderDoneStep DEF LetsGo, TellsOf
  <2>3. CASE PushReturns(t)
    BY <1>1, <2>3, PushReturnsStep DEF LetsGo, TellsOf
  <2>4. CASE PublishOutcome(t)
    <3>1. /\ UNCHANGED orders /\ Slots(call'[t]) = {}
          /\ \A u \in Tasks \ {t} : call'[u] = call[u]
          /\ call'[t].commit = call[t].commit \/ HeldOf(call'[t]) = {}
      BY <1>1, <2>4, PublishOutcomeStep
    <3>2. PICK type, qty, x : /\ x \in HeldOf(call[t]) /\ Tell(t, type, x, qty)
                              /\ HeldOf(call'[t]) = HeldOf(call[t]) \ {x}
      BY <1>1, <2>4, PublishOutcomeStep
    <3>3. QED
      BY <3>1, <3>2 DEF LetsGo, TellsOf
  <2>5. QED
    BY <2>1, <2>2, <2>3, <2>4
<1>3. QED
  BY <1>1, <1>2, OrdersStay, NothingTaken

LEMMA CreateOrderTable ==
  ASSUME TableIInv, ToldIInv', NEW t \in Tasks, CreateOrder(t) PROVE TableIInv'
<1>1. ToldIInv /\ OrdersSound
  BY TableFacts
<1>2. PICK a, d : a = Current(t) /\ d = call[t].done + 1
  OBVIOUS
<1>3. /\ a.qty \in Nat \ {0} /\ Take(a, call[t].commit.strategy) /\ UNCHANGED topic
      /\ d \in Slots(call[t]) /\ \A u \in Tasks \ {t} : call'[u] = call[u]
      /\ HeldOf(call'[t]) \subseteq HeldOf(call[t]) \cup {Len(orders')}
      /\ Slots(call'[t]) \subseteq Slots(call[t]) \ {d}
      /\ call'[t].commit = call[t].commit
  BY <1>1, <1>2, CreateOrderStep
<1>4. QED
  BY <1>1, <1>3, OneTaken

\* The calls that fail, or are dropped, with or without an order on its way.
LEMMA EndsTable ==
  ASSUME TableIInv, ToldIInv', NEW t \in Tasks,
         PublishFails(t) \/ CreateFails(t) \/ CancelFails(t) \/ Interrupted(t)
  PROVE  TableIInv'
<1>1. EngineIInv /\ OrdersSound
  BY TableFacts
<1>2. Return(t) /\ UNCHANGED topic
  BY DEF PublishFails, CreateFails, CancelFails, Interrupted, Abandon
<1>3. \/ UNCHANGED orders
      \/ /\ call[t].at = "push" /\ ~AllDone(t) /\ call[t].order = NoOrder
         /\ Take(Current(t), call[t].commit.strategy)
  BY DEF PublishFails, CreateFails, CancelFails, Interrupted
<1>4. CASE UNCHANGED orders
  BY <1>1, <1>2, <1>4, ReturnLetsGo, OrdersStay, NothingTaken DEF TellsOf
<1>5. CASE /\ call[t].at = "push" /\ ~AllDone(t) /\ call[t].order = NoOrder
           /\ Take(Current(t), call[t].commit.strategy)
  <2>1. PICK a, d : a = Current(t) /\ d = call[t].done + 1
    OBVIOUS
  <2>2. call[t].done < Len(call[t].commit.actions) /\ a.qty \in Nat \ {0}
    BY <1>1, <1>5, <2>1, CurrentQty
  <2>3. /\ call[t].done \in Nat /\ Len(call[t].commit.actions) \in Nat
        /\ call'[t] = NoCall /\ \A u \in Tasks \ {t} : call'[u] = call[u]
    <3>1. PICK C : call \in [Tasks -> CallType(C)]
      BY <1>1, CallsTyped
    <3>2. call[t].done \in Nat /\ Listed(call[t].commit.actions)
      BY <1>1, <1>5, <3>1
      DEF EngineIInv, CallsSound, CallSound, CallInStep, CommitSound, CallType
    <3>3. QED
      BY <1>2, <3>1, <3>2, ListedLen DEF Return
  <2>4. d \in Slots(call[t])
    BY <1>5, <2>1, <2>2, <2>3 DEF Slots
  <2>5. HeldOf(call'[t]) = {} /\ Slots(call'[t]) = {}
    BY <2>3, NoCallHoldsNothing
  <2>6. QED
    BY <1>1, <1>2, <1>5, <2>1, <2>2, <2>3, <2>4, <2>5, OneTaken
<1>6. QED
  BY <1>3, <1>4, <1>5

LEMMA EngineTable ==
  ASSUME TableIInv, ToldIInv', NEW t \in Tasks, EngineStep(t) \/ EngineFails(t)
  PROVE  TableIInv'
BY BeforePushTable, PublishSubmittedTable, PushTable, CreateOrderTable, EndsTable
DEF EngineStep, EngineFails

LEMMA StuttersTable == ASSUME TableIInv, ToldIInv', UNCHANGED engineVars PROVE TableIInv'
BY TableFacts, OrdersStay, CallsStay DEF engineVars

LEMMA ExchangeTable == ASSUME TableIInv, ToldIInv', Exchange PROVE TableIInv'
BY TableFacts, ExchangeGoesOn, CallsStay

LEMMA TradingStepTable == TableIInv /\ [TradingNext]_allVars => TableIInv'
<1> SUFFICES ASSUME TableIInv, [TradingNext]_allVars PROVE TableIInv'
  OBVIOUS
<1>1. ToldIInv'
  BY TradingStepTold DEF TableIInv
<1>2. ASSUME NEW t \in Loops, LoopStep(t) PROVE TableIInv'
  <2>1. t \in Tasks
    BY LoopAssumption
  <2>2. \/ \E m : ExecuteCommit(t, m) /\ UNCHANGED <<orders, topic, orphans>>
        \/ UNCHANGED engineVars
    BY <1>2
    DEF LoopStep, LoadStrategies, Recv, RecvLagged, RecvClosed, Hold, Signal, CandleDone
  <2>3. QED
    BY <1>1, <2>1, <2>2, BeforePushTable, StuttersTable
<1>3. ASSUME NEW t \in Tasks, Broker(t) PROVE TableIInv'
  BY <1>1, <1>3, EngineTable DEF Broker
<1>4. ASSUME World PROVE TableIInv'
  <2>1. ASSUME NEW t \in Loops, StreamEnds(t) \/ Shutdown(t) \/ Start(t) PROVE TableIInv'
    <3>1. t \in Tasks
      BY LoopAssumption
    <3>2. Interrupted(t) \/ UNCHANGED engineVars
      BY <2>1 DEF StreamEnds, Shutdown, Start
    <3>3. QED
      BY <1>1, <3>1, <3>2, EndsTable, StuttersTable
  <2>2. ASSUME NEW t \in Loops, NEW symbol, Send(t, symbol) PROVE TableIInv'
    BY <1>1, <2>2, StuttersTable DEF Send
  <2>3. ASSUME NEW t \in Tasks, NEW m, Execute(t, m) PROVE TableIInv'
    BY <1>1, <2>3, BeforePushTable DEF Execute
  <2>4. QED
    BY <1>1, <1>4, <2>1, <2>2, <2>3, ExchangeTable DEF World
<1>5. CASE UNCHANGED allVars
  BY <1>1, <1>5, StuttersTable DEF allVars
<1>6. QED
  BY <1>2, <1>3, <1>4, <1>5 DEF TradingNext

LEMMA TableInit == LoopInit => TableIInv
<1> SUFFICES ASSUME LoopInit PROVE TableIInv
  OBVIOUS
<1>1. orders = <<>> /\ topic = <<>> /\ call = [t \in Tasks |-> NoCall]
  BY DEF LoopInit, EngineInit
<1>2. \A t \in Tasks : HeldOf(call[t]) = {} /\ Slots(call[t]) = {}
  BY <1>1, NoCallHoldsNothing
<1>3. DOMAIN orders = {} /\ DOMAIN topic = {}
  BY <1>1
<1>4. Matched
  <2> DEFINE f == [n \in Nat |-> n]
             g == [t \in Tasks |-> f]
  <2>1. f \in [Nat -> Nat] /\ g \in [Tasks -> [Nat -> Nat]]
    OBVIOUS
  <2> HIDE DEF f, g
  <2>2. Matching(topic, orders, call, f, g)
    BY <1>2, <1>3 DEF Matching
  <2>3. QED
    BY <2>1, <2>2 DEF Matched
<1>5. HeldNamed /\ EventsNamed
  BY <1>2, <1>3 DEF HeldNamed, EventsNamed
<1>6. QED
  BY <1>4, <1>5, ToldInit DEF TableIInv

\* TableIInv is an invariant of live trading.
THEOREM TableInvariant == TradingSpec => []TableIInv
BY TableInit, TradingStepTable, PTL DEF TradingSpec

\* Distinct outcomes of a strategy are of distinct orders of it.
LEMMA OutcomesWithinOrders ==
  ASSUME TableIInv, NEW s
  PROVE  LET count(type) == Cardinality({i \in DOMAIN topic :
                              topic[i].strategy = s /\ topic[i].type = type})
         IN  count("Filled") + count("Rejected")
               <= Cardinality({id \in DOMAIN orders : orders[id].strategy = s})
<1> DEFINE F == {i \in DOMAIN topic : topic[i].strategy = s /\ topic[i].type = "Filled"}
           R == {i \in DOMAIN topic : topic[i].strategy = s /\ topic[i].type = "Rejected"}
           O == {id \in DOMAIN orders : orders[id].strategy = s}
           m == [i \in F \cup R |-> topic[i].order]
<1>1. /\ DOMAIN orders = 1 .. Len(orders) /\ Len(orders) \in Nat
      /\ DOMAIN topic = 1 .. Len(topic) /\ Len(topic) \in Nat
  BY TableFacts, ListedLen DEF EngineIInv, OrdersSound, TopicSound
<1>2. IsFiniteSet(F) /\ IsFiniteSet(R) /\ IsFiniteSet(O)
  <2>1. IsFiniteSet(DOMAIN orders) /\ IsFiniteSet(DOMAIN topic)
    BY <1>1, FS_Interval
  <2>2. QED
    BY <2>1, FS_Subset
<1>3. \A i \in F \cup R : topic[i].order \in O /\ i \in DOMAIN topic
  <2>1. TAKE i \in F \cup R
  <2>2. TellsFinal(orders, topic[i].type, topic[i].order, topic[i].qty) /\ i \in DOMAIN topic
    BY TableFacts DEF EngineIInv, TopicSound
  <2>3. topic[i].order \in DOMAIN orders
    BY <2>2 DEF TellsFinal
  <2>4. QED
    BY <2>2, <2>3 DEF TableIInv, EventsNamed
<1>4. \A i, j \in DOMAIN topic :
        topic[i].order = topic[j].order /\ topic[i].order \in DOMAIN orders => i = j
  <2>1. TAKE i, j \in DOMAIN topic
  <2>2. HAVE topic[i].order = topic[j].order /\ topic[i].order \in DOMAIN orders
  <2>3. i \in Outcomes(topic[i].order) /\ j \in Outcomes(topic[i].order)
    BY <2>2 DEF Outcomes
  <2>4. QED
    BY <2>2, <2>3, TableFacts DEF ToldIInv, ToldOnce
<1>5. m \in Injection(F \cup R, O)
  BY <1>3, <1>4 DEF Injection, IsInjective
<1>6. Cardinality(F \cup R) <= Cardinality(O) /\ IsFiniteSet(F \cup R)
  BY <1>2, <1>5, FS_Injection
<1>7. F \cap R = {}
  OBVIOUS
<1>8. Cardinality(F \cup R) = Cardinality(F) + Cardinality(R)
  <2> HIDE DEF F, R
  <2>1. Cardinality(F) \in Nat /\ Cardinality(R) \in Nat
    BY <1>2, FS_CardinalityType
  <2>2. Cardinality(F \cup R) = Cardinality(F) + Cardinality(R) - Cardinality(F \cap R)
    BY <1>2, FS_Union
  <2>3. Cardinality(F \cap R) = 0
    BY <1>7, FS_EmptySet
  <2>4. QED
    BY <2>1, <2>2, <2>3
<1>9. QED
  BY <1>6, <1>8

\* Distinct orders of a strategy have distinct announcements of it.
LEMMA OrdersWithinTrades ==
  ASSUME TableIInv, NEW s
  PROVE  Cardinality({id \in DOMAIN orders : orders[id].strategy = s})
           <= Cardinality({i \in DOMAIN topic :
                             topic[i].strategy = s /\ topic[i].type = "Submitted"})
<1> DEFINE O == {id \in DOMAIN orders : orders[id].strategy = s}
           A == {i \in DOMAIN topic : topic[i].strategy = s /\ topic[i].type = "Submitted"}
<1>1. PICK f \in [Nat -> Nat], g \in [Tasks -> [Nat -> Nat]] :
        Matching(topic, orders, call, f, g)
  BY DEF TableIInv, Matched
<1> DEFINE m == [id \in O |-> f[id]]
<1>2. /\ \A id \in O : f[id] \in A
      /\ \A id, jd \in O : f[id] = f[jd] => id = jd
  BY <1>1 DEF Matching, Announced
<1>3. m \in Injection(O, A)
  <2> HIDE DEF O, A
  <2>1. m \in [O -> A] /\ \A id, jd \in O : m[id] = m[jd] => id = jd
    BY <1>2
  <2>2. QED
    BY <2>1 DEF Injection, IsInjective
<1>4. IsFiniteSet(A)
  <2>1. DOMAIN topic = 1 .. Len(topic) /\ Len(topic) \in Nat
    BY TableFacts, ListedLen DEF EngineIInv, TopicSound
  <2>2. IsFiniteSet(DOMAIN topic)
    BY <2>1, FS_Interval
  <2>3. QED
    BY <2>2, FS_Subset
<1>5. QED
  BY <1>3, <1>4, FS_Injection

\* For all tasks, commits, guards, faults, polling limits and shutdowns: what
\* `run` shows of a strategy adds up, never more outcomes than orders at the
\* exchange nor more orders than trades (main.rs, run_trade_status).
THEOREM TableAddsUp == TradingSpec => []StatusAddsUp
<1>1. TableIInv => StatusAddsUp
  <2> SUFFICES ASSUME TableIInv, NEW s PROVE
        LET count(type) == Cardinality({i \in DOMAIN topic :
                             topic[i].strategy = s /\ topic[i].type = type})
            n == Cardinality({id \in DOMAIN orders : orders[id].strategy = s})
        IN  count("Filled") + count("Rejected") <= n /\ n <= count("Submitted")
    BY DEF StatusAddsUp, TradeStatus
  <2>1. QED
    BY OutcomesWithinOrders, OrdersWithinTrades
<1>2. QED
  BY <1>1, TableInvariant, PTL
=============================================================================
