------------------------- MODULE MarketData_proofs --------------------------
(***************************************************************************)
(* Theorems on the market data: the stream of candles, and the history that *)
(* downloads fill.                                                         *)
(*                                                                         *)
(* The stream, for every set of intervals, channel capacity, number of     *)
(* reconnects, lags and restarts.  No minute vanishes: NoMinuteVanishes is *)
(* inductive once the queues, the partial candles and the candles have their *)
(* types, as each step moves a closed minute from one of its places to the *)
(* next, and says so of what it drops.  Each bucket is emitted once, in    *)
(* order, and lacks only lost minutes: the minutes increase from the candles *)
(* through the buffers and both queues to the clock (OrderIInv), so a bucket *)
(* lies behind all that is to come when it is given up, whether as complete *)
(* or for a successor.                                                     *)
(*                                                                         *)
(* The history, for every set of symbols and processes, any length of a page *)
(* and of a day.  A hole between two candles is accounted for, but a page may *)
(* be stored anywhere in its range, and make a hole of what was outside the *)
(* stored minutes.  So the invariant (HistoryInv) also accounts for what lies *)
(* between a candle and each range that is still to fetch (Bridged), and, as *)
(* long as nothing is stored, between the ranges of two downloads          *)
(* (NotBetween).                                                           *)
(***************************************************************************)
EXTENDS MarketStream, History, FiniteSetTheorems, SequenceTheorems, WellFoundedInduction, TLAPS

(* The stream. *)

KlineType   == [minute : Nat, closed : BOOLEAN]
PartialType == [open : Int, minutes : Seq(Nat)]
CandleType  == [interval : Intervals, open : Int, minutes : Seq(Nat)]

MarketTypes ==
  /\ clock \in Nat
  /\ wire \in Seq(KlineType)
  /\ klines \in [queue : Seq(KlineType), lagged : BOOLEAN]
  /\ buffers \in [Intervals -> PartialType]
  /\ candles \in Seq(CandleType)

MarketIInv == MarketTypes /\ NoMinuteVanishes

\* The minutes that the candles of an interval hold.
HeldBy(cs, n) ==
  UNION {Held(cs[i].minutes) : i \in {i \in DOMAIN cs : cs[i].interval = n}}

\* Those of a set of partial candles.
HeldIn(E) == UNION {Held(e.minutes) : e \in E}

-----------------------------------------------------------------------------
(***************************************************************************)
(* Which minutes a queue, a partial candle and the candles hold after the  *)
(* operations that change them.                                            *)
(***************************************************************************)
LEMMA MinutesOfEmpty == Minutes(<<>>) = {}
BY DEF Minutes

LEMMA MinutesOfOne ==
  ASSUME NEW k \in KlineType
  PROVE  Minutes(<<k>>) = IF k.closed THEN {k.minute} ELSE {}
<1>1. DOMAIN <<k>> = {1} /\ <<k>>[1] = k
  OBVIOUS
<1>2. QED
  BY <1>1 DEF Minutes

LEMMA MinutesOfAppend ==
  ASSUME NEW q \in Seq(KlineType), NEW k \in KlineType
  PROVE  Minutes(Append(q, k)) = Minutes(q) \cup Minutes(<<k>>)
<1> DEFINE r == Append(q, k)
<1>1. /\ r \in Seq(KlineType) /\ Len(r) = Len(q) + 1 /\ r[Len(q) + 1] = k
      /\ \A i \in 1 .. Len(q) : r[i] = q[i]
  BY AppendProperties
<1>2. DOMAIN r = 1 .. Len(q) + 1 /\ DOMAIN q = 1 .. Len(q) /\ Len(q) \in Nat
  BY <1>1
<1> HIDE DEF r
<1>3. Minutes(r) \subseteq Minutes(q) \cup Minutes(<<k>>)
  <2>1. SUFFICES ASSUME NEW i \in DOMAIN r, r[i].closed
                 PROVE  r[i].minute \in Minutes(q) \cup Minutes(<<k>>)
    BY DEF Minutes
  <2>2. CASE i \in 1 .. Len(q)
    BY <1>1, <1>2, <2>1, <2>2 DEF Minutes
  <2>3. CASE i = Len(q) + 1
    BY <1>1, <2>1, <2>3, MinutesOfOne
  <2>4. QED
    BY <1>2, <2>2, <2>3
<1>4. Minutes(q) \subseteq Minutes(r)
  <2>1. SUFFICES ASSUME NEW i \in DOMAIN q, q[i].closed
                 PROVE  q[i].minute \in Minutes(r)
    BY DEF Minutes
  <2>2. i \in DOMAIN r /\ r[i] = q[i]
    BY <1>1, <1>2
  <2>3. QED
    BY <2>1, <2>2 DEF Minutes
<1>5. Minutes(<<k>>) \subseteq Minutes(r)
  <2>1. Len(q) + 1 \in DOMAIN r
    BY <1>2
  <2>2. QED
    BY <1>1, <2>1, MinutesOfOne DEF Minutes
<1>6. QED
  BY <1>3, <1>4, <1>5 DEF r

LEMMA MinutesOfHeadTail ==
  ASSUME NEW q \in Seq(KlineType), q # <<>>
  PROVE  /\ Minutes(q) = Minutes(<<Head(q)>>) \cup Minutes(Tail(q))
         /\ Head(q) \in KlineType /\ Tail(q) \in Seq(KlineType)
<1>1. /\ Head(q) \in KlineType /\ Tail(q) \in Seq(KlineType)
      /\ Len(Tail(q)) = Len(q) - 1
      /\ \A i \in 1 .. Len(Tail(q)) : Tail(q)[i] = q[i + 1]
  BY HeadTailProperties
<1>2. /\ Len(q) \in Nat \ {0} /\ DOMAIN q = 1 .. Len(q) /\ Head(q) = q[1]
      /\ DOMAIN Tail(q) = 1 .. Len(q) - 1
  BY <1>1
<1>3. Minutes(q) \subseteq Minutes(<<Head(q)>>) \cup Minutes(Tail(q))
  <2>1. SUFFICES ASSUME NEW i \in DOMAIN q, q[i].closed
                 PROVE  q[i].minute \in Minutes(<<Head(q)>>) \cup Minutes(Tail(q))
    BY DEF Minutes
  <2>2. CASE i = 1
    BY <1>1, <1>2, <2>1, <2>2, MinutesOfOne
  <2>3. CASE i # 1
    <3>1. i - 1 \in DOMAIN Tail(q) /\ Tail(q)[i - 1] = q[i]
      BY <1>1, <1>2, <2>3
    <3>2. QED
      BY <2>1, <3>1 DEF Minutes
  <2>4. QED
    BY <2>2, <2>3
<1>4. Minutes(<<Head(q)>>) \subseteq Minutes(q)
  BY <1>1, <1>2, MinutesOfOne DEF Minutes
<1>5. Minutes(Tail(q)) \subseteq Minutes(q)
  <2>1. SUFFICES ASSUME NEW i \in DOMAIN Tail(q), Tail(q)[i].closed
                 PROVE  Tail(q)[i].minute \in Minutes(q)
    BY DEF Minutes
  <2>2. i + 1 \in DOMAIN q /\ Tail(q)[i] = q[i + 1]
    BY <1>1, <1>2
  <2>3. QED
    BY <2>1, <2>2 DEF Minutes
<1>6. QED
  BY <1>1, <1>3, <1>4, <1>5

LEMMA HeldByAppend ==
  ASSUME NEW s \in Seq(Nat), NEW m \in Nat
  PROVE  Held(Append(s, m)) = Held(s) \cup {m}
<1>1. /\ Append(s, m) \in Seq(Nat) /\ Len(Append(s, m)) = Len(s) + 1
      /\ Append(s, m)[Len(s) + 1] = m
      /\ \A i \in 1 .. Len(s) : Append(s, m)[i] = s[i]
  BY AppendProperties
<1>2. /\ DOMAIN Append(s, m) = 1 .. Len(s) + 1
      /\ DOMAIN s = 1 .. Len(s) /\ Len(s) \in Nat
  BY <1>1
<1>3. 1 .. Len(s) + 1 = (1 .. Len(s)) \cup {Len(s) + 1}
  BY <1>2
<1>4. QED
  BY <1>1, <1>2, <1>3 DEF Held

LEMMA HeldInFew == HeldIn({}) = {} /\ \A e : HeldIn({e}) = Held(e.minutes)
BY DEF HeldIn

\* The aggregator, for one interval.
LEMMA AbsorbHolds ==
  ASSUME NEW p \in PartialType, NEW m \in Nat, NEW n \in Intervals
  PROVE  /\ Absorb(p, m, n) \in PartialType
         /\ Held(Absorb(p, m, n).minutes) =
              IF SameBucket(p, m, n) THEN Held(p.minutes) \cup {m} ELSE {m}
<1>1. CASE SameBucket(p, m, n)
  <2>1. Absorb(p, m, n) = [p EXCEPT !.minutes = Append(p.minutes, m)]
    BY <1>1 DEF Absorb
  <2>2. p.minutes \in Seq(Nat) /\ Append(p.minutes, m) \in Seq(Nat)
    BY DEF PartialType
  <2>3. /\ Absorb(p, m, n) \in PartialType
        /\ Absorb(p, m, n).minutes = Append(p.minutes, m)
    BY <2>1, <2>2 DEF PartialType
  <2>4. QED
    BY <1>1, <2>2, <2>3, HeldByAppend
<1>2. CASE ~SameBucket(p, m, n)
  <2>1. Absorb(p, m, n) = [open |-> AlignTimestamp(m, n), minutes |-> <<m>>]
    BY <1>2 DEF Absorb
  <2>2. AlignTimestamp(m, n) \in Int
    <3>1. n \in Nat \ {0} /\ Hour \in Nat \ {0}
      BY StreamAssumption
    <3>2. m % Hour \in Nat /\ (m % Hour) \div n \in Int
      BY <3>1
    <3>3. QED
      BY <3>1, <3>2 DEF AlignTimestamp
  <2>3. <<m>> \in Seq(Nat) /\ Held(<<m>>) = {m}
    BY DEF Held
  <2>4. QED
    BY <1>2, <2>1, <2>2, <2>3 DEF PartialType
<1>3. QED
  BY <1>1, <1>2

LEMMA EmitKeeps ==
  ASSUME NEW p \in PartialType, NEW m \in Nat, NEW n \in Intervals
  PROVE  /\ Emit(p, m, n) \subseteq PartialType
         /\ After(p, m, n) \in PartialType
         /\ Held(After(p, m, n).minutes) \cup HeldIn(Emit(p, m, n))
              = Held(p.minutes) \cup {m}
<1> DEFINE a == Absorb(p, m, n)
<1>1. /\ a \in PartialType
      /\ SameBucket(p, m, n) => Held(a.minutes) = Held(p.minutes) \cup {m}
      /\ ~SameBucket(p, m, n) => Held(a.minutes) = {m}
  BY AbsorbHolds
<1>2. /\ NoPartial \in PartialType /\ Held(NoPartial.minutes) = {}
      /\ p.minutes = <<>> => Held(p.minutes) = {}
  BY DEF NoPartial, PartialType, Held
<1>3. CASE Done(p, m, n)
  <2>1. Emit(p, m, n) = {a} /\ After(p, m, n) = NoPartial
    BY <1>3 DEF Emit, After
  <2>2. SameBucket(p, m, n)
    BY <1>3 DEF Done
  <2> HIDE DEF a
  <2>3. HeldIn({a}) = Held(a.minutes)
    BY HeldInFew
  <2>4. QED
    BY <1>1, <1>2, <2>1, <2>2, <2>3
<1>4. CASE ~Done(p, m, n)
  <2>1. After(p, m, n) = a
    BY <1>4 DEF After
  <2>2. CASE SameBucket(p, m, n)
    <3>1. Emit(p, m, n) = {}
      BY <1>4, <2>2 DEF Emit
    <3> HIDE DEF a
    <3>2. QED
      BY <1>1, <2>1, <2>2, <3>1, HeldInFew
  <2>3. CASE ~SameBucket(p, m, n) /\ p.minutes # <<>>
    <3>1. Emit(p, m, n) = {p}
      BY <1>4, <2>3 DEF Emit
    <3>2. HeldIn({p}) = Held(p.minutes)
      BY HeldInFew
    <3> HIDE DEF a
    <3>3. QED
      BY <1>1, <2>1, <2>3, <3>1, <3>2
  <2>4. CASE p.minutes = <<>>
    <3>1. ~SameBucket(p, m, n)
      BY <2>4 DEF SameBucket
    <3>2. Emit(p, m, n) = {}
      BY <1>4, <2>4 DEF Emit
    <3> HIDE DEF a
    <3>3. QED
      BY <1>1, <1>2, <2>1, <2>4, <3>1, <3>2, HeldInFew
  <2>5. QED
    BY <2>2, <2>3, <2>4
<1>5. QED
  BY <1>3, <1>4

\* All intervals: finitely many candles, hence a sequence of them.
Labelled(m, n) ==
  {[interval |-> n, open |-> p.open, minutes |-> p.minutes] : p \in Emit(buffers[n], m, n)}

LEMMA EmittedFinite ==
  ASSUME MarketTypes, NEW m \in Nat
  PROVE  Emitted(m) \subseteq CandleType /\ IsFiniteSet(Emitted(m))
<1> DEFINE f == [n \in Intervals |-> Labelled(m, n)]
           All == {Labelled(m, n) : n \in Intervals}
<1>1. Emitted(m) = UNION All
  BY DEF Emitted, Labelled
<1>2. ASSUME NEW n \in Intervals PROVE Labelled(m, n) \subseteq CandleType
  <2>1. buffers[n] \in PartialType
    BY DEF MarketTypes
  <2>2. Emit(buffers[n], m, n) \subseteq PartialType
    BY <2>1, EmitKeeps
  <2>3. \A p \in PartialType : p.open \in Int /\ p.minutes \in Seq(Nat)
    BY DEF PartialType
  <2>4. QED
    BY <2>2, <2>3 DEF Labelled, CandleType
<1>3. IsFiniteSet(All)
  <2>1. IsFiniteSet(Intervals)
    <3>1. IsFiniteSet(1 .. Hour)
      BY StreamAssumption, FS_Interval
    <3>2. QED
      BY <3>1, StreamAssumption, FS_Subset
  <2>2. f \in Surjection(Intervals, All)
    BY DEF Surjection
  <2>3. QED
    BY <2>1, <2>2, FS_Surjection
<1>4. ASSUME NEW n \in Intervals PROVE IsFiniteSet(Labelled(m, n))
  <2>1. CASE Emit(buffers[n], m, n) = {}
    <3>1. Labelled(m, n) = {}
      BY <2>1 DEF Labelled
    <3>2. QED
      BY <3>1, FS_EmptySet
  <2>2. ASSUME NEW e, Emit(buffers[n], m, n) = {e}
        PROVE  IsFiniteSet(Labelled(m, n))
    <3>1. Labelled(m, n) = {[interval |-> n, open |-> e.open, minutes |-> e.minutes]}
      BY <2>2 DEF Labelled
    <3>2. QED
      BY <3>1, FS_Singleton
  <2>3. Emit(buffers[n], m, n) = {} \/ \E e : Emit(buffers[n], m, n) = {e}
    BY DEF Emit
  <2>4. QED
    BY <2>1, <2>2, <2>3
<1>5. IsFiniteSet(UNION All)
  BY <1>3, <1>4, FS_UNION
<1>6. QED
  BY <1>1, <1>2, <1>5

LEMMA OrdersAreSequences ==
  ASSUME NEW S \in SUBSET CandleType, IsFiniteSet(S), NEW s \in Orders(S)
  PROVE  s \in Seq(CandleType) /\ {s[i] : i \in DOMAIN s} = S
<1>1. Cardinality(S) \in Nat
  BY FS_CardinalityType
<1>2. s \in [1 .. Cardinality(S) -> S] /\ \A x \in S : \E i \in DOMAIN s : s[i] = x
  BY DEF Orders
<1>3. QED
  BY <1>1, <1>2

LEMMA HeldByConcat ==
  ASSUME NEW cs \in Seq(CandleType), NEW s \in Seq(CandleType), NEW n \in Intervals
  PROVE  /\ cs \o s \in Seq(CandleType)
         /\ HeldBy(cs \o s, n) = HeldBy(cs, n) \cup HeldBy(s, n)
<1> DEFINE all == cs \o s
<1>1. /\ all \in Seq(CandleType) /\ Len(all) = Len(cs) + Len(s)
      /\ \A i \in 1 .. Len(cs) + Len(s) :
           all[i] = IF i <= Len(cs) THEN cs[i] ELSE s[i - Len(cs)]
  BY ConcatProperties
<1>2. /\ Len(cs) \in Nat /\ Len(s) \in Nat
      /\ DOMAIN cs = 1 .. Len(cs) /\ DOMAIN s = 1 .. Len(s)
      /\ DOMAIN all = 1 .. Len(cs) + Len(s)
  BY <1>1
<1> HIDE DEF all
<1>3. HeldBy(all, n) \subseteq HeldBy(cs, n) \cup HeldBy(s, n)
  <2>1. SUFFICES ASSUME NEW i \in DOMAIN all, all[i].interval = n
                 PROVE  Held(all[i].minutes) \subseteq HeldBy(cs, n) \cup HeldBy(s, n)
    BY DEF HeldBy
  <2>2. CASE i <= Len(cs)
    <3>1. i \in DOMAIN cs /\ all[i] = cs[i]
      BY <1>1, <1>2, <2>2
    <3>2. QED
      BY <2>1, <3>1 DEF HeldBy
  <2>3. CASE ~(i <= Len(cs))
    <3>1. i - Len(cs) \in DOMAIN s /\ all[i] = s[i - Len(cs)]
      BY <1>1, <1>2, <2>3
    <3>2. QED
      BY <2>1, <3>1 DEF HeldBy
  <2>4. QED
    BY <2>2, <2>3
<1>4. HeldBy(cs, n) \subseteq HeldBy(all, n)
  <2>1. \A i \in DOMAIN cs : i \in DOMAIN all /\ all[i] = cs[i]
    BY <1>1, <1>2
  <2>2. QED
    BY <2>1 DEF HeldBy
<1>5. HeldBy(s, n) \subseteq HeldBy(all, n)
  <2>1. \A i \in DOMAIN s : i + Len(cs) \in DOMAIN all /\ all[i + Len(cs)] = s[i]
    BY <1>1, <1>2
  <2>2. QED
    BY <2>1 DEF HeldBy
<1>6. QED
  BY <1>1, <1>3, <1>4, <1>5 DEF all

\* What is emitted for an interval is what its partial candle gives up.
LEMMA EmittedHolds ==
  ASSUME MarketTypes, NEW m \in Nat, NEW n \in Intervals,
         NEW s \in Orders(Emitted(m))
  PROVE  /\ s \in Seq(CandleType)
         /\ HeldBy(s, n) = HeldIn(Emit(buffers[n], m, n))
<1>1. s \in Seq(CandleType) /\ {s[i] : i \in DOMAIN s} = Emitted(m)
  BY EmittedFinite, OrdersAreSequences
<1>2. HeldBy(s, n) = HeldIn({c \in Emitted(m) : c.interval = n})
  BY <1>1 DEF HeldBy, HeldIn
<1>3. {c \in Emitted(m) : c.interval = n} = Labelled(m, n)
  BY DEF Emitted, Labelled
<1>4. HeldIn(Labelled(m, n))
        = HeldIn(Emit(buffers[n], m, n))
  <2>1. \A c \in Labelled(m, n) : \E e \in Emit(buffers[n], m, n) : c.minutes = e.minutes
    BY DEF Labelled
  <2>2. \A e \in Emit(buffers[n], m, n) : \E c \in Labelled(m, n) : c.minutes = e.minutes
    <3>1. TAKE e \in Emit(buffers[n], m, n)
    <3>2. [interval |-> n, open |-> e.open, minutes |-> e.minutes] \in Labelled(m, n)
      BY DEF Labelled
    <3>3. QED
      BY <3>2
  <2>3. QED
    BY <2>1, <2>2 DEF HeldIn
<1>5. QED
  BY <1>1, <1>2, <1>3, <1>4

-----------------------------------------------------------------------------
(***************************************************************************)
(* The places of a minute, for one interval.                               *)
(***************************************************************************)
Places(n) ==
  lost \cup Minutes(wire) \cup Minutes(klines.queue) \cup Held(buffers[n].minutes)
    \cup HeldBy(candles, n)

LEMMA PlacesAreAll == NoMinuteVanishes <=> \A n \in Intervals : 0 .. clock - 1 = Places(n)
BY DEF NoMinuteVanishes, Places, HeldBy

LEMMA MarketInitIInv == MarketInit => MarketIInv
<1> SUFFICES ASSUME MarketInit PROVE MarketIInv
  OBVIOUS
<1>1. MarketTypes
  BY DEF MarketInit, MarketTypes, EmptyChannel, NoPartial, PartialType
<1>2. ASSUME NEW n \in Intervals PROVE 0 .. clock - 1 = Places(n)
  <2>1. /\ lost = {} /\ wire = <<>> /\ klines.queue = <<>> /\ candles = <<>>
        /\ buffers[n].minutes = <<>> /\ 0 .. clock - 1 = {}
    BY DEF MarketInit, EmptyChannel, NoPartial
  <2>2. Held(<<>>) = {} /\ HeldBy(<<>>, n) = {}
    BY DEF Held, HeldBy
  <2>3. QED
    BY <2>1, <2>2, MinutesOfEmpty DEF Places
<1>3. QED
  BY <1>1, <1>2, PlacesAreAll DEF MarketIInv

LEMMA PlacesAreAllNext ==
  ASSUME MarketTypes', \A n \in Intervals : (0 .. clock - 1)' = Places(n)'
  PROVE  MarketIInv'
BY DEF MarketIInv, NoMinuteVanishes, Places, HeldBy

\* A step that keeps the minutes in their places.
LEMMA PlacesKept ==
  ASSUME MarketIInv, MarketTypes', UNCHANGED clock,
         \A n \in Intervals : Places(n)' = Places(n)
  PROVE  MarketIInv'
BY PlacesAreAll, PlacesAreAllNext DEF MarketIInv

LEMMA MinuteEndsKeeps == ASSUME MarketIInv, MinuteEnds PROVE MarketIInv'
<1> DEFINE k == Kline(clock, TRUE)
<1>1. /\ clock \in Nat /\ clock' = clock + 1 /\ k \in KlineType
      /\ UNCHANGED <<klines, buffers, candles>>
  BY DEF MarketIInv, MarketTypes, MinuteEnds, Kline, KlineType
<1>2. /\ MarketTypes'
      /\ lost' \cup Minutes(wire') = lost \cup Minutes(wire) \cup {clock}
  <2>1. CASE ws.at = "streaming"
    <3>1. wire' = Append(wire, k) /\ lost' = lost /\ wire \in Seq(KlineType)
      BY <2>1 DEF MinuteEnds, MarketIInv, MarketTypes
    <3>2. Minutes(<<k>>) = {clock}
      BY <1>1, MinutesOfOne DEF Kline
    <3>3. Minutes(wire') = Minutes(wire) \cup {clock} /\ wire' \in Seq(KlineType)
      BY <1>1, <3>1, <3>2, MinutesOfAppend, AppendProperties
    <3>4. MarketTypes'
      BY <1>1, <3>3 DEF MarketIInv, MarketTypes
    <3>5. QED
      BY <3>1, <3>3, <3>4
  <2>2. CASE ws.at # "streaming"
    BY <1>1, <2>2 DEF MinuteEnds, MarketIInv, MarketTypes
  <2>3. QED
    BY <2>1, <2>2
<1>3. ASSUME NEW n \in Intervals PROVE (0 .. clock - 1)' = Places(n)'
  <2>1. 0 .. clock - 1 = Places(n) /\ Places(n)' = Places(n) \cup {clock}
    BY <1>1, <1>2, PlacesAreAll DEF MarketIInv, Places, HeldBy
  <2>2. (0 .. clock - 1)' = (0 .. clock - 1) \cup {clock}
    BY <1>1
  <2>3. QED
    BY <2>1, <2>2
<1>4. QED
  BY <1>2, <1>3, PlacesAreAllNext

LEMMA KlineUpdateKeeps == ASSUME MarketIInv, KlineUpdate PROVE MarketIInv'
<1> DEFINE k == Kline(clock, FALSE)
<1>1. /\ k \in KlineType /\ wire \in Seq(KlineType) /\ wire' = Append(wire, k)
      /\ UNCHANGED <<clock, klines, buffers, candles, lost>>
  BY DEF MarketIInv, MarketTypes, KlineUpdate, Kline, KlineType
<1>2. Minutes(<<k>>) = {}
  BY <1>1, MinutesOfOne DEF Kline
<1> HIDE DEF k
<1>3. Minutes(wire') = Minutes(wire) /\ wire' \in Seq(KlineType)
  <2>1. Minutes(wire') = Minutes(wire) \cup Minutes(<<k>>)
    BY <1>1, MinutesOfAppend
  <2>2. wire' \in Seq(KlineType)
    BY <1>1, AppendProperties
  <2>3. QED
    BY <1>2, <2>1, <2>2
<1>4. MarketTypes'
  BY <1>1, <1>3 DEF MarketIInv, MarketTypes
<1>5. ASSUME NEW n \in Intervals PROVE Places(n)' = Places(n)
  <2>1. Places(n)' = lost \cup Minutes(wire') \cup Minutes(klines.queue)
                       \cup Held(buffers[n].minutes) \cup HeldBy(candles, n)
    BY <1>1 DEF Places, HeldBy
  <2>2. QED
    BY <1>3, <2>1 DEF Places
<1>6. QED
  BY <1>1, <1>4, <1>5, PlacesKept

LEMMA StreamBreaksKeeps == ASSUME MarketIInv, StreamBreaks PROVE MarketIInv'
<1>1. /\ wire' = <<>> /\ lost' = lost \cup Minutes(wire)
      /\ UNCHANGED <<clock, klines, buffers, candles>>
  BY DEF StreamBreaks
<1>2. Minutes(wire') = {} /\ wire' \in Seq(KlineType)
  BY <1>1, MinutesOfEmpty
<1>3. MarketTypes'
  BY <1>1, <1>2 DEF MarketIInv, MarketTypes
<1>4. \A n \in Intervals : Places(n)' = Places(n)
  BY <1>1, <1>2 DEF Places, HeldBy
<1>5. QED
  BY <1>1, <1>3, <1>4, PlacesKept

\* A kline moves to the channel, and the oldest there is lost if it was full.
LEMMA ForwardKeeps == ASSUME MarketIInv, Forward PROVE MarketIInv'
<1> DEFINE k    == Head(wire)
           q    == Append(klines.queue, k)
           full == Len(q) > KlineCapacity
           gone == IF full THEN Minutes(<<Head(q)>>) ELSE {}
<1>1. /\ wire \in Seq(KlineType) /\ wire # <<>> /\ wire' = Tail(wire)
      /\ klines' = [queue |-> IF full THEN Tail(q) ELSE q, lagged |-> klines.lagged \/ full]
      /\ lost' = lost \cup gone
      /\ UNCHANGED <<clock, buffers, candles>>
  BY DEF MarketIInv, MarketTypes, Forward
<1>2. klines.queue \in Seq(KlineType) /\ klines.lagged \in BOOLEAN
  BY DEF MarketIInv, MarketTypes
<1>3. /\ k \in KlineType /\ wire' \in Seq(KlineType)
      /\ Minutes(wire) = Minutes(<<k>>) \cup Minutes(wire')
  BY <1>1, MinutesOfHeadTail
<1>4. /\ q \in Seq(KlineType) /\ q # <<>>
      /\ Minutes(q) = Minutes(klines.queue) \cup Minutes(<<k>>)
  BY <1>2, <1>3, MinutesOfAppend, AppendProperties
<1>5. Tail(q) \in Seq(KlineType) /\ Minutes(q) = Minutes(<<Head(q)>>) \cup Minutes(Tail(q))
  BY <1>4, MinutesOfHeadTail
<1> HIDE DEF k, q
<1>6. /\ klines' \in [queue : Seq(KlineType), lagged : BOOLEAN]
      /\ gone \cup Minutes(klines'.queue) = Minutes(q)
  <2>1. CASE full
    BY <1>1, <1>2, <1>5, <2>1
  <2>2. CASE ~full
    BY <1>1, <1>2, <1>4, <2>2
  <2>3. QED
    BY <2>1, <2>2
<1>7. MarketTypes'
  BY <1>1, <1>3, <1>6 DEF MarketIInv, MarketTypes
<1> HIDE DEF gone
<1>8. \A n \in Intervals : Places(n)' = Places(n)
  BY <1>1, <1>3, <1>4, <1>6 DEF Places, HeldBy
<1>9. QED
  BY <1>1, <1>7, <1>8, PlacesKept

\* A kline moves to a partial candle, and what that gives up to the candles.
LEMMA ProcessKlineKeeps == ASSUME MarketIInv, ProcessKline PROVE MarketIInv'
<1> DEFINE k == Head(klines.queue)
           m == k.minute
<1>1. /\ klines \in [queue : Seq(KlineType), lagged : BOOLEAN] /\ klines.queue # <<>>
      /\ klines' = [klines EXCEPT !.queue = Tail(klines.queue)]
      /\ UNCHANGED <<clock, wire, lost>>
  BY DEF MarketIInv, MarketTypes, ProcessKline
<1>2. /\ k \in KlineType /\ Tail(klines.queue) \in Seq(KlineType)
      /\ Minutes(klines.queue) = Minutes(<<k>>) \cup Minutes(Tail(klines.queue))
  BY <1>1, MinutesOfHeadTail
<1>3. /\ klines' \in [queue : Seq(KlineType), lagged : BOOLEAN]
      /\ Minutes(klines.queue) = Minutes(<<k>>) \cup Minutes(klines'.queue)
  BY <1>1, <1>2
<1>4. CASE ~k.closed
  <2>1. UNCHANGED <<buffers, candles>>
    BY <1>4 DEF ProcessKline
  <2>2. Minutes(<<k>>) = {}
    BY <1>2, <1>4, MinutesOfOne
  <2>3. MarketTypes'
    BY <1>1, <1>3, <2>1 DEF MarketIInv, MarketTypes
  <2>4. \A n \in Intervals : Places(n)' = Places(n)
    BY <1>1, <1>3, <2>1, <2>2 DEF Places, HeldBy
  <2>5. QED
    BY <1>1, <2>3, <2>4, PlacesKept
<1>5. CASE k.closed
  <2>1. PICK s \in Orders(Emitted(m)) : candles' = candles \o s
    BY <1>5 DEF ProcessKline
  <2>2. buffers' = [n \in Intervals |-> After(buffers[n], m, n)]
    BY <1>5 DEF ProcessKline
  <2>3. m \in Nat /\ Minutes(<<k>>) = {m}
    BY <1>2, <1>5, MinutesOfOne DEF KlineType
  <2> HIDE DEF k, m
  <2>4. MarketTypes /\ candles \in Seq(CandleType)
    BY DEF MarketIInv, MarketTypes
  <2>5. s \in Seq(CandleType)
    <3>1. Emitted(m) \in SUBSET CandleType /\ IsFiniteSet(Emitted(m))
      BY <2>3, <2>4, EmittedFinite
    <3>2. QED
      BY <3>1, OrdersAreSequences
  <2>6. MarketTypes'
    <3>1. candles' \in Seq(CandleType)
      BY <2>1, <2>4, <2>5
    <3>2. buffers' \in [Intervals -> PartialType]
      BY <2>2, <2>3, <2>4, EmitKeeps DEF MarketTypes
    <3>3. QED
      BY <1>1, <1>3, <2>4, <3>1, <3>2 DEF MarketTypes
  <2>7. ASSUME NEW n \in Intervals PROVE Places(n)' = Places(n)
    <3>1. HeldBy(candles', n) = HeldBy(candles, n) \cup HeldIn(Emit(buffers[n], m, n))
      BY <2>1, <2>3, <2>4, <2>5, EmittedHolds, HeldByConcat
    <3>2. Held(buffers'[n].minutes) \cup HeldIn(Emit(buffers[n], m, n))
            = Held(buffers[n].minutes) \cup {m}
      <4>1. buffers[n] \in PartialType
        BY <2>4 DEF MarketTypes
      <4>2. QED
        BY <2>2, <2>3, <4>1, EmitKeeps
    <3>3. Places(n)' = lost \cup Minutes(wire) \cup Minutes(klines'.queue)
                         \cup Held(buffers'[n].minutes) \cup HeldBy(candles', n)
      BY <1>1 DEF Places, HeldBy
    <3>4. QED
      BY <1>3, <2>3, <3>1, <3>2, <3>3 DEF Places
  <2>8. QED
    BY <1>1, <2>6, <2>7, PlacesKept
<1>6. QED
  BY <1>4, <1>5

\* A restart loses what was on its way and says so.
LEMMA RestartKeeps == ASSUME MarketIInv, Restart PROVE MarketIInv'
<1>1. /\ wire' = <<>> /\ klines' = EmptyChannel
      /\ buffers' = [n \in Intervals |-> NoPartial]
      /\ lost' = lost \cup Minutes(wire) \cup Minutes(klines.queue)
                   \cup UNION {Held(buffers[n].minutes) : n \in Intervals}
      /\ UNCHANGED <<clock, candles>>
  BY DEF Restart, Held
<1>2. MarketTypes'
  BY <1>1 DEF MarketIInv, MarketTypes, EmptyChannel, NoPartial, PartialType
<1>3. ASSUME NEW n \in Intervals PROVE (0 .. clock - 1)' = Places(n)'
  <2>1. \A i \in Intervals : 0 .. clock - 1 = Places(i)
    BY PlacesAreAll DEF MarketIInv
  <2>2. UNION {Held(buffers[i].minutes) : i \in Intervals} \subseteq 0 .. clock - 1
    BY <2>1 DEF Places
  <2>3. /\ Minutes(wire') = {} /\ Minutes(klines'.queue) = {}
        /\ Held(buffers'[n].minutes) = {}
    BY <1>1, MinutesOfEmpty DEF EmptyChannel, NoPartial, Held
  <2>4. Places(n)' = lost' \cup HeldBy(candles, n)
    BY <1>1, <2>3 DEF Places, HeldBy
  <2>5. 0 .. clock - 1 = Places(n) /\ UNCHANGED clock
    BY <1>1, <2>1
  <2>6. Held(buffers[n].minutes) \subseteq UNION {Held(buffers[i].minutes) : i \in Intervals}
    OBVIOUS
  <2>7. QED
    BY <1>1, <2>2, <2>4, <2>5, <2>6 DEF Places
<1>4. QED
  BY <1>2, <1>3, PlacesAreAllNext

\* The steps that move no kline.
LEMMA OthersKeep ==
  ASSUME MarketIInv,
         \/ Connected \/ ConnectFails \/ Reconnect \/ AggregatorLagged
         \/ Persist \/ PersisterLagged \/ UNCHANGED marketVars
  PROVE  MarketIInv'
<1>1. /\ UNCHANGED <<clock, wire, buffers, candles, lost>>
      /\ klines' = klines \/ klines' = [klines EXCEPT !.lagged = FALSE]
  BY DEF Connected, ConnectFails, Reconnect, AggregatorLagged, Persist, PersisterLagged,
         marketVars
<1>2. klines' \in [queue : Seq(KlineType), lagged : BOOLEAN] /\ klines'.queue = klines.queue
  BY <1>1 DEF MarketIInv, MarketTypes
<1>3. MarketTypes'
  BY <1>1, <1>2 DEF MarketIInv, MarketTypes
<1>4. \A n \in Intervals : Places(n)' = Places(n)
  BY <1>1, <1>2 DEF Places, HeldBy
<1>5. QED
  BY <1>1, <1>3, <1>4, PlacesKept

\* MarketIInv is an invariant of the market stream.
THEOREM MarketInvariant == MarketSpec => []MarketIInv
<1>1. MarketIInv /\ [MarketNext]_marketVars => MarketIInv'
  BY MinuteEndsKeeps, KlineUpdateKeeps, StreamBreaksKeeps, ForwardKeeps, ProcessKlineKeeps,
     RestartKeeps, OthersKeep
  DEF MarketNext
<1>2. QED
  BY <1>1, MarketInitIInv, PTL DEF MarketSpec

\* For every contract's stream, set of intervals, capacities and failures: a
\* minute that closed is under way, in a partial candle, in a candle or lost,
\* for each interval (aggregator.rs, reconnect.rs, daemon.rs).
THEOREM MinutesAccounted == MarketSpec => []NoMinuteVanishes
<1>1. MarketIInv => NoMinuteVanishes
  BY DEF MarketIInv
<1>2. QED
  BY <1>1, MarketInvariant, PTL

-----------------------------------------------------------------------------
(***************************************************************************)
(* Buckets.                                                                *)
(***************************************************************************)
LEMMA TimesMonotone ==
  ASSUME NEW n \in Nat, NEW a \in Int, NEW b \in Int, a <= b
  PROVE  n * a <= n * b
<1>1. n * (b - a) >= 0
  OBVIOUS
<1>2. n * b = n * a + n * (b - a)
  OBVIOUS
<1>3. QED
  BY <1>1, <1>2

\* The bucket of a minute is that of its quotient, since an hour is whole buckets.
LEMMA AlignIsQuotient ==
  ASSUME NEW n \in Intervals, NEW m \in Nat
  PROVE  /\ n \in Nat \ {0} /\ m \div n \in Nat
         /\ AlignTimestamp(m, n) = n * (m \div n)
         /\ n * (m \div n) <= m /\ m <= n * (m \div n) + n - 1
<1>1. n \in Nat \ {0} /\ Hour \in Nat \ {0} /\ Hour % n = 0
  BY StreamAssumption
<1> DEFINE r == m % Hour
           h == Hour \div n
           q == m \div Hour
<1>2. r \in Nat /\ q \in Nat /\ m = Hour * q + r
  BY <1>1
<1>3. h \in Nat /\ Hour = n * h
  BY <1>1
<1>4. r \div n \in Nat /\ n * (r \div n) <= r /\ r <= n * (r \div n) + n - 1
  BY <1>1, <1>2
<1>5. m \div n \in Nat /\ n * (m \div n) <= m /\ m <= n * (m \div n) + n - 1
  BY <1>1
<1> DEFINE d == r \div n
           a == h * q + d
<1>6. a \in Nat /\ n * a = Hour * q + n * d
  <2>1. \A x, y \in Nat :
          h * x \in Nat /\ n * (h * x + y) = (n * h) * x + n * y
    BY <1>1, <1>3
  <2>2. d \in Nat
    BY <1>4
  <2> HIDE DEF q, r, h, d
  <2>3. h * q \in Nat /\ n * (h * q + d) = (n * h) * q + n * d
    BY <1>2, <2>1, <2>2
  <2>4. QED
    BY <1>3, <2>2, <2>3
<1>7. AlignTimestamp(m, n) = n * a
  BY <1>1, <1>2, <1>4, <1>6 DEF AlignTimestamp
<1>8. n * a <= m /\ m <= n * a + n - 1
  <2>1. Hour * q \in Nat /\ n * d \in Nat
    BY <1>1, <1>2, <1>4
  <2> DEFINE x == Hour * q
             y == n * d
  <2>2. /\ x \in Nat /\ y \in Nat /\ r \in Nat /\ n \in Nat
        /\ m = x + r /\ y <= r /\ r <= y + n - 1 /\ n * a = x + y
    BY <1>1, <1>2, <1>4, <1>6, <2>1
  <2> HIDE DEF x, y, a, d, r, q
  <2>3. QED
    BY <2>2
<1> HIDE DEF a, d, r, h, q
<1>9. a = m \div n
  <2> DEFINE b == m \div n
  <2> b \in Nat /\ n * b <= m /\ m <= n * b + n - 1
    BY <1>5
  <2> HIDE DEF b
  <2>1. ~(a + 1 <= b)
    <3>1. a + 1 <= b => n * (a + 1) <= n * b
      BY <1>1, <1>6, TimesMonotone
    <3>2. n * (a + 1) = n * a + n
      BY <1>1, <1>6
    <3>3. QED
      BY <1>1, <1>6, <1>8, <3>1, <3>2
  <2>2. ~(b + 1 <= a)
    <3>1. b + 1 <= a => n * (b + 1) <= n * a
      BY <1>1, <1>6, TimesMonotone
    <3>2. n * (b + 1) = n * b + n
      BY <1>1
    <3>3. QED
      BY <1>1, <1>6, <1>8, <3>1, <3>2
  <2>3. a = b
    BY <1>6, <2>1, <2>2
  <2>4. QED
    BY <2>3 DEF b
<1>10. QED
  BY <1>1, <1>5, <1>7, <1>9

\* Buckets: each minute is in its own, in their order, and they are disjoint.
LEMMA AlignFacts ==
  ASSUME NEW n \in Intervals, NEW m \in Nat, NEW k \in Nat
  PROVE  /\ n \in Nat \ {0} /\ AlignTimestamp(m, n) \in Nat
         /\ m \in Bucket(AlignTimestamp(m, n), n)
         /\ m <= k => AlignTimestamp(m, n) <= AlignTimestamp(k, n)
         /\ k \in Bucket(AlignTimestamp(m, n), n) => AlignTimestamp(k, n) = AlignTimestamp(m, n)
<1> DEFINE a == m \div n
           b == k \div n
<1>1. /\ n \in Nat \ {0} /\ a \in Nat /\ b \in Nat
      /\ AlignTimestamp(m, n) = n * a /\ AlignTimestamp(k, n) = n * b
      /\ n * a <= m /\ m <= n * a + n - 1 /\ n * b <= k /\ k <= n * b + n - 1
  BY AlignIsQuotient
<1> HIDE DEF a, b
<1>2. n * a \in Nat /\ n * b \in Nat /\ n * (a + 1) = n * a + n /\ n * (b + 1) = n * b + n
  BY <1>1
<1>3. a + 1 <= b => n * a + n <= n * b
  BY <1>1, <1>2, TimesMonotone
<1>4. b + 1 <= a => n * b + n <= n * a
  BY <1>1, <1>2, TimesMonotone
<1>5. a = b \/ a + 1 <= b \/ b + 1 <= a
  BY <1>1
<1>6. m \in Bucket(AlignTimestamp(m, n), n)
  BY <1>1, <1>2 DEF Bucket
<1>7. m <= k => AlignTimestamp(m, n) <= AlignTimestamp(k, n)
  BY <1>1, <1>2, <1>3, <1>4, <1>5
<1>8. k \in Bucket(AlignTimestamp(m, n), n) => AlignTimestamp(k, n) = AlignTimestamp(m, n)
  BY <1>1, <1>2, <1>3, <1>4, <1>5 DEF Bucket
<1>9. QED
  BY <1>1, <1>2, <1>6, <1>7, <1>8

-----------------------------------------------------------------------------
(***************************************************************************)
(* The order of the minutes.                                               *)
(***************************************************************************)
\* The minutes that the aggregator has yet to see.
Coming == Minutes(klines.queue) \cup Minutes(wire) \cup {t \in Nat : t >= clock}

Increasing(q) ==
  \A i, j \in DOMAIN q : i < j /\ q[i].closed /\ q[j].closed => q[i].minute < q[j].minute

InTurn ==
  /\ Increasing(klines.queue) /\ Increasing(wire)
  /\ \A a \in Minutes(klines.queue), b \in Minutes(wire) : a < b
  /\ \A a \in Minutes(klines.queue) \cup Minutes(wire) : a < clock

\* The minutes of a partial or an emitted candle: of its bucket, in order.
OneBucket(p, n) ==
  /\ \A i \in DOMAIN p.minutes : /\ AlignTimestamp(p.minutes[i], n) = p.open
                                 /\ p.minutes[i] >= p.open + i - 1
  /\ \A i, j \in DOMAIN p.minutes : i < j => p.minutes[i] < p.minutes[j]

PartialInTurn(n) ==
  /\ OneBucket(buffers[n], n)
  /\ \A x \in Held(buffers[n].minutes), t \in Coming : x < t

\* The bucket of a candle lies behind whatever comes and behind the partial one.
CandlesInTurn(n) ==
  \A i \in DOMAIN candles : candles[i].interval = n =>
    /\ candles[i].minutes # <<>> /\ OneBucket(candles[i], n)
    /\ \A t \in Coming : candles[i].open < AlignTimestamp(t, n)
    /\ buffers[n].minutes # <<>> => candles[i].open < buffers[n].open

OrderIInv ==
  /\ MarketIInv /\ InTurn
  /\ \A n \in Intervals : PartialInTurn(n) /\ CandlesInTurn(n)
  /\ unread \in Nat \ {0} /\ EachBucketOnce

LEMMA IncreasingAppend ==
  ASSUME NEW q \in Seq(KlineType), NEW k \in KlineType, Increasing(q),
         \A a \in Minutes(q), b \in Minutes(<<k>>) : a < b
  PROVE  Increasing(Append(q, k))
<1> DEFINE r == Append(q, k)
<1>1. /\ r \in Seq(KlineType) /\ Len(r) = Len(q) + 1 /\ r[Len(q) + 1] = k
      /\ \A i \in 1 .. Len(q) : r[i] = q[i]
  BY AppendProperties
<1>2. DOMAIN r = 1 .. Len(q) + 1 /\ DOMAIN q = 1 .. Len(q) /\ Len(q) \in Nat
  BY <1>1
<1> HIDE DEF r
<1>3. SUFFICES ASSUME NEW i \in DOMAIN r, NEW j \in DOMAIN r, i < j, r[i].closed, r[j].closed
               PROVE  r[i].minute < r[j].minute
  BY DEF Increasing, r
<1>4. i \in DOMAIN q /\ r[i] = q[i]
  BY <1>1, <1>2, <1>3
<1>5. CASE j \in DOMAIN q
  BY <1>1, <1>2, <1>3, <1>4, <1>5 DEF Increasing
<1>6. CASE j \notin DOMAIN q
  <2>1. r[j] = k
    BY <1>1, <1>2, <1>6
  <2>2. q[i].minute \in Minutes(q)
    BY <1>3, <1>4 DEF Minutes
  <2>3. k.minute \in Minutes(<<k>>)
    BY <1>3, <2>1, MinutesOfOne
  <2>4. QED
    BY <1>4, <2>1, <2>2, <2>3
<1>7. QED
  BY <1>5, <1>6

LEMMA IncreasingTail ==
  ASSUME NEW q \in Seq(KlineType), q # <<>>, Increasing(q)
  PROVE  /\ Increasing(Tail(q))
         /\ \A a \in Minutes(<<Head(q)>>), b \in Minutes(Tail(q)) : a < b
<1>1. /\ Head(q) \in KlineType /\ Tail(q) \in Seq(KlineType)
      /\ Len(Tail(q)) = Len(q) - 1
      /\ \A i \in 1 .. Len(Tail(q)) : Tail(q)[i] = q[i + 1]
  BY HeadTailProperties
<1>2. /\ Len(q) \in Nat \ {0} /\ DOMAIN q = 1 .. Len(q) /\ Head(q) = q[1]
      /\ DOMAIN Tail(q) = 1 .. Len(q) - 1
  BY <1>1
<1>3. \A i \in DOMAIN Tail(q) : i \in Nat \ {0} /\ i + 1 \in DOMAIN q /\ Tail(q)[i] = q[i + 1]
  BY <1>1, <1>2
<1>4. Increasing(Tail(q))
  BY <1>3 DEF Increasing
<1>5. \A a \in Minutes(<<Head(q)>>), b \in Minutes(Tail(q)) : a < b
  <2>1. SUFFICES ASSUME NEW a \in Minutes(<<Head(q)>>), NEW b \in Minutes(Tail(q)) PROVE a < b
    OBVIOUS
  <2>2. q[1].closed /\ a = q[1].minute /\ 1 \in DOMAIN q
    <3>1. Minutes(<<Head(q)>>) = IF Head(q).closed THEN {Head(q).minute} ELSE {}
      BY <1>1, MinutesOfOne
    <3>2. QED
      BY <1>2, <2>1, <3>1
  <2>3. PICK i \in DOMAIN Tail(q) : Tail(q)[i].closed /\ Tail(q)[i].minute = b
    BY DEF Minutes
  <2>4. 1 < i + 1 /\ i + 1 \in DOMAIN q /\ q[i + 1].closed /\ q[i + 1].minute = b
    BY <1>3, <2>3
  <2>5. QED
    BY <2>2, <2>4 DEF Increasing
<1>6. QED
  BY <1>4, <1>5

LEMMA MinutesAreNat == ASSUME NEW q \in Seq(KlineType) PROVE Minutes(q) \subseteq Nat
<1>1. \A i \in DOMAIN q : q[i] \in KlineType
  OBVIOUS
<1>2. \A k \in KlineType : k.minute \in Nat
  BY DEF KlineType
<1>3. QED
  BY <1>1, <1>2 DEF Minutes

\* A step of the aggregator for one interval, with a minute later than those it has.
LEMMA AbsorbInTurn ==
  ASSUME NEW p \in PartialType, NEW n \in Intervals, NEW m \in Nat, OneBucket(p, n),
         \A x \in Held(p.minutes) : x < m
  PROVE  /\ OneBucket(Absorb(p, m, n), n) /\ Absorb(p, m, n).minutes # <<>>
         /\ Absorb(p, m, n).open = AlignTimestamp(m, n)
         /\ \A x \in Held(Absorb(p, m, n).minutes) : x <= m
<1> DEFINE a == Absorb(p, m, n)
           A == AlignTimestamp(m, n)
           s == p.minutes
<1>1. /\ n \in Nat \ {0} /\ A \in Nat /\ A <= m /\ m <= A + n - 1
  BY AlignFacts DEF Bucket
<1>2. s \in Seq(Nat) /\ Len(s) \in Nat /\ DOMAIN s = 1 .. Len(s) /\ p.open \in Int
  BY DEF PartialType
<1>3. \A x \in Held(a.minutes) : x <= m
  <2>1. Held(a.minutes) = IF SameBucket(p, m, n) THEN Held(s) \cup {m} ELSE {m}
    BY AbsorbHolds
  <2>2. Held(s) \subseteq Nat
    BY <1>2 DEF Held
  <2> HIDE DEF a
  <2>3. QED
    BY <2>1, <2>2
<1>4. CASE SameBucket(p, m, n)
  <2> DEFINE r == Append(s, m)
  <2>1. a.minutes = r /\ a.open = p.open /\ p.open = A /\ s # <<>>
    BY <1>4 DEF Absorb, SameBucket, PartialType
  <2>2. /\ r \in Seq(Nat) /\ Len(r) = Len(s) + 1 /\ r[Len(s) + 1] = m
        /\ \A i \in 1 .. Len(s) : r[i] = s[i]
    BY <1>2, AppendProperties
  <2>3. DOMAIN r = 1 .. Len(s) + 1 /\ r # <<>>
    BY <1>2, <2>2
  <2>4. \A i \in DOMAIN s : s[i] \in Nat /\ s[i] < m
    BY <1>2 DEF Held
  <2>5. m >= A + Len(s)
    <3>1. Len(s) \in DOMAIN s
      BY <1>2, <2>1
    <3>2. s[Len(s)] >= A + Len(s) - 1
      BY <2>1, <3>1 DEF OneBucket
    <3>3. s[Len(s)] \in Nat /\ s[Len(s)] < m
      BY <2>4, <3>1
    <3> HIDE DEF A
    <3>4. QED
      BY <1>1, <1>2, <3>2, <3>3
  <2> HIDE DEF a, r, A
  <2>6. ASSUME NEW i \in DOMAIN r
        PROVE  AlignTimestamp(r[i], n) = A /\ r[i] >= A + i - 1
    <3>1. CASE i \in DOMAIN s
      <4>1. r[i] = s[i] /\ AlignTimestamp(s[i], n) = p.open /\ s[i] >= p.open + i - 1
        BY <1>2, <2>2, <3>1 DEF OneBucket
      <4>2. QED
        BY <2>1, <4>1
    <3>2. CASE i = Len(s) + 1
      BY <1>1, <1>2, <2>2, <2>5, <3>2 DEF A
    <3>3. QED
      BY <1>2, <2>3, <3>1, <3>2
  <2>7. ASSUME NEW i \in DOMAIN r, NEW j \in DOMAIN r, i < j PROVE r[i] < r[j]
    <3>1. i \in DOMAIN s /\ r[i] = s[i]
      <4>1. i \in 1 .. Len(s) + 1 /\ j \in 1 .. Len(s) + 1 /\ i < j
        BY <2>3, <2>7
      <4>2. i \in 1 .. Len(s)
        BY <1>2, <4>1
      <4>3. QED
        BY <1>2, <2>2, <4>2
    <3>2. CASE j \in DOMAIN s
      BY <1>2, <2>2, <2>7, <3>1, <3>2 DEF OneBucket
    <3>3. CASE j = Len(s) + 1
      BY <2>2, <2>4, <3>1, <3>3
    <3>4. QED
      BY <1>2, <2>3, <3>2, <3>3
  <2>8. OneBucket(a, n)
    BY <2>1, <2>6, <2>7 DEF OneBucket
  <2>9. QED
    BY <1>3, <2>1, <2>3, <2>8 DEF A, a
<1>5. CASE ~SameBucket(p, m, n)
  <2>1. a.minutes = <<m>> /\ a.open = A
    BY <1>5 DEF Absorb
  <2>2. DOMAIN <<m>> = {1} /\ <<m>>[1] = m /\ <<m>> # <<>>
    OBVIOUS
  <2> HIDE DEF a
  <2>3. OneBucket(a, n)
    BY <1>1, <2>1, <2>2 DEF OneBucket
  <2>4. QED
    BY <1>3, <2>1, <2>2, <2>3 DEF a
<1>6. QED
  BY <1>4, <1>5

LEMMA EmitInTurn ==
  ASSUME NEW p \in PartialType, NEW n \in Intervals, NEW m \in Nat, OneBucket(p, n),
         \A x \in Held(p.minutes) : x < m
  PROVE  /\ OneBucket(After(p, m, n), n)
         /\ \A x \in Held(After(p, m, n).minutes) : x <= m
         /\ After(p, m, n).minutes # <<>> => After(p, m, n).open = AlignTimestamp(m, n)
         /\ \A e \in Emit(p, m, n) :
              /\ e.minutes # <<>> /\ OneBucket(e, n)
              /\ p.minutes # <<>> /\ e.open = p.open
              /\ \A t \in Nat : m < t => e.open < AlignTimestamp(t, n)
              /\ After(p, m, n).minutes # <<>> => e.open < After(p, m, n).open
<1> DEFINE a == Absorb(p, m, n)
           A == AlignTimestamp(m, n)
<1>1. /\ OneBucket(a, n) /\ a.minutes # <<>> /\ a.open = A /\ a \in PartialType
      /\ \A x \in Held(a.minutes) : x <= m
  BY AbsorbInTurn, AbsorbHolds
<1>2. n \in Nat \ {0} /\ A \in Nat /\ m \in Bucket(A, n)
  BY AlignFacts
<1>3. \A t \in Nat : AlignTimestamp(t, n) \in Nat
  BY AlignFacts
<1>4. \A t \in Nat : m <= t => A <= AlignTimestamp(t, n)
  BY AlignFacts
<1>5. CASE Done(p, m, n)
  <2>1. Emit(p, m, n) = {a} /\ After(p, m, n) = NoPartial
    BY <1>5 DEF Emit, After
  <2>2. p.minutes # <<>> /\ p.open = A /\ Len(a.minutes) >= n
    BY <1>5 DEF Done, SameBucket, Complete
  <2>3. OneBucket(NoPartial, n) /\ Held(NoPartial.minutes) = {} /\ NoPartial.minutes = <<>>
    BY DEF OneBucket, NoPartial, Held
  <2>4. ASSUME NEW t \in Nat, m < t PROVE A < AlignTimestamp(t, n)
    <3>1. m >= A + n - 1
      <4>1. a.minutes \in Seq(Nat)
        BY <1>1 DEF PartialType
      <4>2. n \in DOMAIN a.minutes
        BY <1>2, <2>2, <4>1
      <4>3. a.minutes[n] >= a.open + n - 1 /\ a.minutes[n] <= m /\ a.minutes[n] \in Nat
        BY <1>1, <4>1, <4>2 DEF OneBucket, Held
      <4> HIDE DEF a, A
      <4>4. QED
        BY <1>1, <1>2, <4>3
    <3>2. t \in Bucket(AlignTimestamp(t, n), n) /\ A <= AlignTimestamp(t, n)
      BY <1>4, <2>4, AlignFacts
    <3> HIDE DEF A
    <3>3. t <= AlignTimestamp(t, n) + n - 1
      BY <3>2 DEF Bucket
    <3>4. QED
      BY <1>2, <1>3, <2>4, <3>1, <3>2, <3>3
  <2> HIDE DEF a, A
  <2>5. QED
    BY <1>1, <2>1, <2>2, <2>3, <2>4
<1>6. CASE ~Done(p, m, n)
  <2>1. After(p, m, n) = a
    BY <1>6 DEF After
  <2>2. ASSUME NEW e \in Emit(p, m, n)
        PROVE  e = p /\ p.minutes # <<>> /\ p.open # A
    BY <1>6, <2>2 DEF Emit, SameBucket
  <2>3. ASSUME p.minutes # <<>>, p.open # A PROVE p.open < A
    <3>1. p.minutes \in Seq(Nat) /\ 1 \in DOMAIN p.minutes
      BY <2>3 DEF PartialType
    <3>2. p.minutes[1] \in Nat /\ p.minutes[1] < m /\ AlignTimestamp(p.minutes[1], n) = p.open
      BY <3>1 DEF OneBucket, Held
    <3>3. p.open <= A
      BY <3>2, AlignFacts
    <3>4. p.open \in Int
      BY DEF PartialType
    <3> HIDE DEF A
    <3>5. QED
      BY <1>2, <2>3, <3>3, <3>4
  <2>4. ASSUME NEW t \in Nat, m < t PROVE A <= AlignTimestamp(t, n)
    BY <1>4, <2>4
  <2>5. p.open \in Int
    BY DEF PartialType
  <2> HIDE DEF a, A
  <2>6. ASSUME NEW e \in Emit(p, m, n)
        PROVE  /\ e.minutes # <<>> /\ OneBucket(e, n)
               /\ p.minutes # <<>> /\ e.open = p.open /\ e.open < A
               /\ \A t \in Nat : m < t => e.open < AlignTimestamp(t, n)
    <3>1. e = p /\ p.minutes # <<>> /\ p.open < A
      BY <2>2, <2>3, <2>6
    <3>2. ASSUME NEW t \in Nat, m < t PROVE p.open < AlignTimestamp(t, n)
      <4>1. A <= AlignTimestamp(t, n) /\ AlignTimestamp(t, n) \in Nat
        BY <1>3, <2>4, <3>2
      <4>2. QED
        BY <1>2, <2>5, <3>1, <4>1
    <3>3. QED
      BY <3>1, <3>2
  <2>7. QED
    BY <1>1, <2>1, <2>6 DEF A
<1>7. QED
  BY <1>5, <1>6

-----------------------------------------------------------------------------
(***************************************************************************)
(* The steps.  What comes only shrinks, so a step that emits nothing keeps *)
(* the order.                                                              *)
(***************************************************************************)
LEMMA OrderStays ==
  ASSUME OrderIInv, MarketIInv', InTurn', Coming' \subseteq Coming, UNCHANGED candles,
         \A n \in Intervals : buffers'[n] = buffers[n] \/ buffers'[n] = NoPartial,
         unread' \in Nat \ {0}, rows' \subseteq {candles[i] : i \in DOMAIN candles}
  PROVE  OrderIInv'
<1>1. EachBucketOnce'
  BY DEF OrderIInv, EachBucketOnce
<1>2. ASSUME NEW n \in Intervals PROVE PartialInTurn(n)' /\ CandlesInTurn(n)'
  <2>1. NoPartial.minutes = <<>> /\ DOMAIN NoPartial.minutes = {} /\ Held(NoPartial.minutes) = {}
    BY DEF NoPartial, Held
  <2>2. PartialInTurn(n) /\ CandlesInTurn(n)
    BY DEF OrderIInv
  <2>3. PartialInTurn(n)'
    <3>1. CASE buffers'[n] = buffers[n]
      BY <2>2, <3>1 DEF PartialInTurn, OneBucket
    <3>2. CASE buffers'[n] = NoPartial
      BY <2>1, <3>2 DEF PartialInTurn, OneBucket
    <3>3. QED
      BY <3>1, <3>2
  <2>4. CandlesInTurn(n)'
    BY <2>1, <2>2 DEF CandlesInTurn, OneBucket
  <2>5. QED
    BY <2>3, <2>4
<1>3. QED
  BY <1>1, <1>2 DEF OrderIInv

LEMMA OrderInit == MarketInit => OrderIInv
<1> SUFFICES ASSUME MarketInit PROVE OrderIInv
  OBVIOUS
<1>1. MarketIInv
  BY MarketInitIInv
<1>2. /\ clock = 0 /\ wire = <<>> /\ klines.queue = <<>> /\ candles = <<>> /\ rows = {}
      /\ unread = 1 /\ \A n \in Intervals : buffers[n].minutes = <<>>
  BY DEF MarketInit, EmptyChannel, NoPartial
<1>3. InTurn
  BY <1>2, MinutesOfEmpty DEF InTurn, Increasing
<1>4. ASSUME NEW n \in Intervals PROVE PartialInTurn(n) /\ CandlesInTurn(n)
  BY <1>2 DEF PartialInTurn, CandlesInTurn, OneBucket, Held
<1>5. EachBucketOnce
  BY <1>2 DEF EachBucketOnce
<1>6. QED
  BY <1>1, <1>2, <1>3, <1>4, <1>5 DEF OrderIInv

LEMMA OrderTypes ==
  ASSUME OrderIInv
  PROVE  /\ clock \in Nat /\ wire \in Seq(KlineType) /\ klines.queue \in Seq(KlineType)
         /\ Minutes(wire) \subseteq Nat /\ Minutes(klines.queue) \subseteq Nat
         /\ rows \subseteq {candles[i] : i \in DOMAIN candles}
<1>1. clock \in Nat /\ wire \in Seq(KlineType) /\ klines.queue \in Seq(KlineType)
  BY DEF OrderIInv, MarketIInv, MarketTypes
<1>2. QED
  BY <1>1, MinutesAreNat DEF OrderIInv, EachBucketOnce

\* A kline that is sent.
LEMMA SendInTurn ==
  ASSUME OrderIInv, NEW closed \in BOOLEAN
  PROVE  LET k == Kline(clock, closed)
         IN  /\ Increasing(Append(wire, k))
             /\ Minutes(Append(wire, k)) = Minutes(wire) \cup (IF closed THEN {clock} ELSE {})
<1> DEFINE k == Kline(clock, closed)
<1>1. k \in KlineType /\ wire \in Seq(KlineType) /\ k.closed = closed /\ k.minute = clock
  BY OrderTypes DEF Kline, KlineType
<1>2. Minutes(<<k>>) = IF closed THEN {clock} ELSE {}
  BY <1>1, MinutesOfOne
<1> HIDE DEF k
<1>3. \A a \in Minutes(wire), b \in Minutes(<<k>>) : a < b
  BY <1>2 DEF OrderIInv, InTurn
<1>4. Increasing(wire)
  BY DEF OrderIInv, InTurn
<1>5. QED
  BY <1>1, <1>2, <1>3, <1>4, IncreasingAppend, MinutesOfAppend DEF k

LEMMA MinuteEndsInTurn == ASSUME OrderIInv, MinuteEnds, MarketIInv' PROVE OrderIInv'
<1>1. /\ clock' = clock + 1 /\ UNCHANGED <<klines, buffers, candles, unread, rows>>
      /\ wire' = Append(wire, Kline(clock, TRUE)) \/ wire' = wire
  BY DEF MinuteEnds
<1>2. /\ Increasing(wire') /\ Minutes(wire') \subseteq Minutes(wire) \cup {clock}
  <2>1. Increasing(wire)
    BY DEF OrderIInv, InTurn
  <2>2. QED
    BY <1>1, <2>1, SendInTurn
<1>3. InTurn /\ clock \in Nat /\ Minutes(wire) \subseteq Nat /\ Minutes(klines.queue) \subseteq Nat
  BY OrderTypes DEF OrderIInv
<1>4. Increasing(klines'.queue)
  BY <1>1, <1>3 DEF InTurn
<1>5. ASSUME NEW a \in Minutes(klines'.queue) PROVE a < clock' /\ \A b \in Minutes(wire') : a < b
  <2>1. a \in Minutes(klines.queue) /\ a \in Nat /\ a < clock /\ \A b \in Minutes(wire) : a < b
    BY <1>1, <1>3, <1>5 DEF InTurn
  <2>2. QED
    BY <1>1, <1>2, <1>3, <2>1
<1>6. ASSUME NEW b \in Minutes(wire') PROVE b < clock'
  BY <1>1, <1>2, <1>3, <1>6 DEF InTurn
<1>7. InTurn'
  BY <1>2, <1>4, <1>5, <1>6 DEF InTurn
<1>8. Coming' \subseteq Coming
  BY <1>1, <1>2, <1>3 DEF Coming
<1>9. QED
  BY <1>1, <1>7, <1>8, OrderStays, OrderTypes DEF OrderIInv

LEMMA KlineUpdateInTurn == ASSUME OrderIInv, KlineUpdate, MarketIInv' PROVE OrderIInv'
<1>1. /\ wire' = Append(wire, Kline(clock, FALSE))
      /\ UNCHANGED <<clock, klines, buffers, candles, unread, rows>>
  BY DEF KlineUpdate
<1>2. Increasing(wire') /\ Minutes(wire') = Minutes(wire)
  BY <1>1, SendInTurn
<1>3. InTurn' /\ Coming' = Coming
  BY <1>1, <1>2 DEF OrderIInv, InTurn, Coming
<1>4. QED
  BY <1>1, <1>3, OrderStays, OrderTypes DEF OrderIInv

LEMMA StreamBreaksInTurn == ASSUME OrderIInv, StreamBreaks, MarketIInv' PROVE OrderIInv'
<1>1. wire' = <<>> /\ UNCHANGED <<clock, klines, buffers, candles, unread, rows>>
  BY DEF StreamBreaks
<1>2. Increasing(wire') /\ Minutes(wire') = {}
  BY <1>1, MinutesOfEmpty DEF Increasing
<1>3. InTurn' /\ Coming' \subseteq Coming
  BY <1>1, <1>2 DEF OrderIInv, InTurn, Coming
<1>4. QED
  BY <1>1, <1>3, OrderStays, OrderTypes DEF OrderIInv

LEMMA ForwardInTurn == ASSUME OrderIInv, Forward, MarketIInv' PROVE OrderIInv'
<1> DEFINE k == Head(wire)
           q == Append(klines.queue, k)
<1>1. /\ wire # <<>> /\ wire' = Tail(wire)
      /\ klines'.queue = q \/ klines'.queue = Tail(q)
      /\ UNCHANGED <<clock, buffers, candles, unread, rows>>
  BY DEF Forward
<1>2. /\ InTurn /\ wire \in Seq(KlineType) /\ klines.queue \in Seq(KlineType)
      /\ Minutes(klines.queue) \subseteq Nat /\ Minutes(wire) \subseteq Nat
  BY OrderTypes DEF OrderIInv
<1>3. /\ k \in KlineType /\ Minutes(wire) = Minutes(<<k>>) \cup Minutes(wire')
      /\ Increasing(wire') /\ \A a \in Minutes(<<k>>), b \in Minutes(wire') : a < b
  BY <1>1, <1>2, MinutesOfHeadTail, IncreasingTail DEF InTurn
<1>4. Increasing(q) /\ Minutes(q) = Minutes(klines.queue) \cup Minutes(<<k>>)
  BY <1>2, <1>3, IncreasingAppend, MinutesOfAppend DEF InTurn
<1>5. q \in Seq(KlineType) /\ q # <<>>
  BY <1>2, <1>3, AppendProperties
<1> HIDE DEF k, q
<1>6. Increasing(Tail(q)) /\ Minutes(Tail(q)) \subseteq Minutes(q)
  BY <1>4, <1>5, IncreasingTail, MinutesOfHeadTail
<1>7. Increasing(klines'.queue) /\ Minutes(klines'.queue) \subseteq Minutes(q)
  BY <1>1, <1>4, <1>6
<1>8. InTurn'
  <2>1. \A a \in Minutes(q), b \in Minutes(wire') : a < b
    BY <1>2, <1>3, <1>4 DEF InTurn
  <2>2. \A a \in Minutes(q) \cup Minutes(wire') : a < clock
    BY <1>2, <1>3, <1>4 DEF InTurn
  <2>3. QED
    BY <1>1, <1>3, <1>7, <2>1, <2>2 DEF InTurn
<1>9. Coming' \subseteq Coming
  BY <1>1, <1>3, <1>4, <1>7 DEF Coming
<1>10. QED
  BY <1>1, <1>8, <1>9, OrderStays, OrderTypes DEF OrderIInv

LEMMA RestartInTurn == ASSUME OrderIInv, Restart, MarketIInv' PROVE OrderIInv'
<1>1. /\ wire' = <<>> /\ klines'.queue = <<>> /\ buffers' = [n \in Intervals |-> NoPartial]
      /\ unread' = Len(candles) + 1 /\ UNCHANGED <<clock, candles, rows>>
  BY DEF Restart, EmptyChannel
<1>2. /\ Increasing(wire') /\ Minutes(wire') = {}
      /\ Increasing(klines'.queue) /\ Minutes(klines'.queue) = {}
  BY <1>1, MinutesOfEmpty DEF Increasing
<1>3. InTurn' /\ Coming' \subseteq Coming
  BY <1>1, <1>2 DEF InTurn, Coming
<1>4. candles \in Seq(CandleType)
  BY DEF OrderIInv, MarketIInv, MarketTypes
<1>5. unread' \in Nat \ {0}
  BY <1>1, <1>4
<1>6. QED
  BY <1>1, <1>3, <1>5, OrderStays, OrderTypes

LEMMA PersistInTurn ==
  ASSUME OrderIInv, Persist \/ PersisterLagged, MarketIInv'
  PROVE  OrderIInv'
<1>1. UNCHANGED <<clock, wire, klines, buffers, candles>>
  BY DEF Persist, PersisterLagged
<1>2. candles \in Seq(CandleType) /\ unread \in Nat \ {0} /\ CandleCapacity \in Nat \ {0}
  BY StreamAssumption DEF OrderIInv, MarketIInv, MarketTypes
<1>3. unread' \in Nat \ {0}
  <2>1. CASE Persist
    BY <1>2, <2>1 DEF Persist
  <2>2. CASE PersisterLagged
    BY <1>2, <2>2 DEF PersisterLagged, PersisterLags
  <2>3. QED
    BY <2>1, <2>2
<1>4. rows' \subseteq {candles[i] : i \in DOMAIN candles}
  <2>1. CASE Persist
    <3>1. rows' = rows \/ rows' = rows \cup {candles[unread]}
      BY <2>1 DEF Persist, InsertCandle
    <3>2. unread \in DOMAIN candles
      BY <1>2, <2>1 DEF Persist
    <3>3. QED
      BY <3>1, <3>2, OrderTypes
  <2>2. CASE PersisterLagged
    BY <2>2, OrderTypes DEF PersisterLagged
  <2>3. QED
    BY <2>1, <2>2
<1>5. InTurn' /\ Coming' = Coming
  BY <1>1 DEF OrderIInv, InTurn, Coming
<1>6. QED
  BY <1>1, <1>3, <1>4, <1>5, OrderStays

LEMMA OthersInTurn ==
  ASSUME OrderIInv, MarketIInv',
         Connected \/ ConnectFails \/ Reconnect \/ AggregatorLagged \/ UNCHANGED marketVars
  PROVE  OrderIInv'
<1>1. /\ UNCHANGED <<clock, wire, buffers, candles, unread, rows>>
      /\ klines' = klines \/ klines' = [klines EXCEPT !.lagged = FALSE]
  BY DEF Connected, ConnectFails, Reconnect, AggregatorLagged, marketVars
<1>2. klines'.queue = klines.queue
  BY <1>1 DEF OrderIInv, MarketIInv, MarketTypes
<1>3. InTurn' /\ Coming' = Coming
  BY <1>1, <1>2 DEF OrderIInv, InTurn, Coming
<1>4. QED
  BY <1>1, <1>3, OrderStays, OrderTypes DEF OrderIInv

LEMMA CandleFields ==
  ASSUME NEW cs \in Seq(CandleType), NEW i \in DOMAIN cs
  PROVE  cs[i] \in CandleType /\ cs[i].interval \in Intervals /\ cs[i].minutes \in Seq(Nat)
<1>1. cs[i] \in CandleType
  OBVIOUS
<1>2. \A e \in CandleType : e.interval \in Intervals /\ e.minutes \in Seq(Nat)
  BY DEF CandleType
<1>3. QED
  BY <1>1, <1>2

\* At most one candle of an interval is emitted for a kline.
LEMMA OneOfInterval ==
  ASSUME MarketTypes, NEW m \in Nat, NEW s \in Orders(Emitted(m)),
         NEW i \in DOMAIN s, NEW j \in DOMAIN s, s[i].interval = s[j].interval
  PROVE  i = j
<1> DEFINE S == Emitted(m)
           K == 1 .. Cardinality(S)
<1>1. S \subseteq CandleType /\ IsFiniteSet(S) /\ Cardinality(S) \in Nat
  BY EmittedFinite, FS_CardinalityType
<1>2. s \in [K -> S] /\ \A x \in S : \E l \in DOMAIN s : s[l] = x
  BY DEF Orders
<1>3. IsFiniteSet(K) /\ Cardinality(K) = Cardinality(S)
  BY <1>1, FS_Interval
<1>4. s \in Injection(K, S)
  <2>1. s \in Surjection(K, S)
    BY <1>2 DEF Surjection
  <2>2. QED
    BY <1>1, <1>3, <2>1, FS_SurjSameCardinalityImpliesInj
<1>5. PICK n \in Intervals : s[i] \in Labelled(m, n)
  BY <1>2 DEF Emitted, Labelled
<1>6. s[j] \in Labelled(m, n)
  <2>1. PICK l \in Intervals : s[j] \in Labelled(m, l)
    BY <1>2 DEF Emitted, Labelled
  <2>2. s[i].interval = n /\ s[j].interval = l
    BY <1>5, <2>1 DEF Labelled
  <2>3. QED
    BY <2>1, <2>2
<1>7. s[i] = s[j]
  <2>1. \A e, d \in Emit(buffers[n], m, n) : e = d
    BY DEF Emit
  <2>2. QED
    BY <1>5, <1>6, <2>1 DEF Labelled
<1>8. i \in K /\ j \in K
  BY <1>2
<1> HIDE DEF K, S
<1>9. \A x, y \in K : s[x] = s[y] => x = y
  BY <1>4 DEF Injection, IsInjective
<1>10. QED
  BY <1>7, <1>8, <1>9

LEMMA ProcessKlineInTurn == ASSUME OrderIInv, ProcessKline, MarketIInv' PROVE OrderIInv'
<1> DEFINE k == Head(klines.queue)
           m == k.minute
<1>1. /\ klines \in [queue : Seq(KlineType), lagged : BOOLEAN] /\ klines.queue # <<>>
      /\ klines' = [klines EXCEPT !.queue = Tail(klines.queue)]
      /\ UNCHANGED <<clock, wire, unread, rows>>
  BY DEF OrderIInv, MarketIInv, MarketTypes, ProcessKline
<1>2. /\ InTurn /\ MarketTypes /\ clock \in Nat /\ wire \in Seq(KlineType)
      /\ klines.queue \in Seq(KlineType)
      /\ Minutes(klines.queue) \subseteq Nat /\ Minutes(wire) \subseteq Nat
  BY OrderTypes DEF OrderIInv, MarketIInv
<1>3. klines'.queue = Tail(klines.queue)
  BY <1>1
<1>4. /\ k \in KlineType /\ Minutes(klines.queue) = Minutes(<<k>>) \cup Minutes(klines'.queue)
      /\ Increasing(klines'.queue)
      /\ \A a \in Minutes(<<k>>), b \in Minutes(klines'.queue) : a < b
  BY <1>1, <1>2, <1>3, MinutesOfHeadTail, IncreasingTail DEF InTurn
<1>5. InTurn' /\ Coming' \subseteq Coming
  BY <1>1, <1>2, <1>4 DEF InTurn, Coming
<1>6. CASE ~k.closed
  <2>1. UNCHANGED <<buffers, candles>>
    BY <1>6 DEF ProcessKline
  <2>2. QED
    BY <1>1, <1>5, <2>1, OrderStays, OrderTypes DEF OrderIInv
<1>7. CASE k.closed
  <2>1. PICK s \in Orders(Emitted(m)) : candles' = candles \o s
    BY <1>7 DEF ProcessKline
  <2>2. buffers' = [n \in Intervals |-> After(buffers[n], m, n)]
    BY <1>7 DEF ProcessKline
  <2>3. m \in Nat /\ m \in Coming /\ \A t \in Coming' : t \in Nat /\ m < t
    <3>1. Minutes(<<k>>) = {m}
      BY <1>4, <1>7, MinutesOfOne
    <3>2. m \in Minutes(klines.queue) /\ m \in Nat /\ m < clock
      BY <1>2, <1>4, <3>1 DEF InTurn
    <3>3. \A t \in Minutes(wire) \cup Minutes(klines'.queue) : t \in Nat /\ m < t
      BY <1>2, <1>4, <3>1, <3>2 DEF InTurn
    <3>4. QED
      BY <1>1, <1>2, <3>2, <3>3 DEF Coming
  <2> HIDE DEF k, m
  <2>4. /\ candles \in Seq(CandleType) /\ s \in Seq(CandleType)
        /\ {s[i] : i \in DOMAIN s} = Emitted(m)
    <3>1. Emitted(m) \in SUBSET CandleType /\ IsFiniteSet(Emitted(m))
      BY <1>2, <2>3, EmittedFinite
    <3>2. QED
      BY <1>2, <3>1, OrdersAreSequences DEF MarketTypes
  <2>5. /\ Len(candles) \in Nat /\ Len(s) \in Nat
        /\ DOMAIN candles = 1 .. Len(candles) /\ DOMAIN s = 1 .. Len(s)
        /\ DOMAIN candles' = 1 .. Len(candles) + Len(s)
        /\ \A i \in DOMAIN candles : i \in DOMAIN candles' /\ candles'[i] = candles[i]
        /\ \A i \in DOMAIN candles' : i > Len(candles) =>
             i - Len(candles) \in DOMAIN s /\ candles'[i] = s[i - Len(candles)]
    <3>1. /\ candles' \in Seq(CandleType) /\ Len(candles') = Len(candles) + Len(s)
          /\ \A i \in 1 .. Len(candles) + Len(s) :
               candles'[i] = IF i <= Len(candles) THEN candles[i] ELSE s[i - Len(candles)]
      BY <2>1, <2>4, ConcatProperties
    <3>2. QED
      BY <2>4, <3>1
  \* What the step does for one interval.
  <2>6. ASSUME NEW n \in Intervals
        PROVE  /\ OneBucket(buffers'[n], n)
               /\ \A x \in Held(buffers'[n].minutes) : x \in Nat /\ x <= m
               /\ buffers'[n].minutes # <<>> => buffers'[n].open = AlignTimestamp(m, n)
               /\ \A i \in DOMAIN s : s[i].interval = n =>
                    /\ s[i].minutes # <<>> /\ OneBucket(s[i], n)
                    /\ buffers[n].minutes # <<>> /\ s[i].open = buffers[n].open
                    /\ \A t \in Nat : m < t => s[i].open < AlignTimestamp(t, n)
                    /\ buffers'[n].minutes # <<>> => s[i].open < buffers'[n].open
    <3> DEFINE p == buffers[n]
    <3>1. p \in PartialType /\ OneBucket(p, n) /\ \A x \in Held(p.minutes) : x < m
      BY <1>2, <2>3 DEF MarketTypes, OrderIInv, PartialInTurn
    <3>2. buffers'[n] = After(p, m, n)
      BY <2>2
    <3>3. After(p, m, n) \in PartialType
      BY <2>3, <3>1, EmitKeeps
    <3>4. \A x \in Held(buffers'[n].minutes) : x \in Nat
      BY <3>2, <3>3 DEF PartialType, Held
    <3>5. ASSUME NEW i \in DOMAIN s, s[i].interval = n
          PROVE  \E e \in Emit(p, m, n) : s[i].open = e.open /\ s[i].minutes = e.minutes
      <4>1. s[i] \in Emitted(m)
        BY <2>4
      <4>2. s[i] \in Labelled(m, n)
        BY <3>5, <4>1 DEF Emitted, Labelled
      <4>3. QED
        BY <4>2 DEF Labelled
    <3> HIDE DEF p
    <3>6. /\ OneBucket(After(p, m, n), n)
          /\ \A x \in Held(After(p, m, n).minutes) : x <= m
          /\ After(p, m, n).minutes # <<>> => After(p, m, n).open = AlignTimestamp(m, n)
          /\ \A e \in Emit(p, m, n) :
               /\ e.minutes # <<>> /\ OneBucket(e, n)
               /\ p.minutes # <<>> /\ e.open = p.open
               /\ \A t \in Nat : m < t => e.open < AlignTimestamp(t, n)
               /\ After(p, m, n).minutes # <<>> => e.open < After(p, m, n).open
      BY <2>3, <3>1, EmitInTurn
    <3>7. ASSUME NEW i \in DOMAIN s, s[i].interval = n
          PROVE  /\ s[i].minutes # <<>> /\ OneBucket(s[i], n)
                 /\ p.minutes # <<>> /\ s[i].open = p.open
                 /\ \A t \in Nat : m < t => s[i].open < AlignTimestamp(t, n)
                 /\ buffers'[n].minutes # <<>> => s[i].open < buffers'[n].open
      BY <3>2, <3>5, <3>6, <3>7 DEF OneBucket
    <3>8. QED
      BY <3>2, <3>4, <3>6, <3>7 DEF p
  <2>7. ASSUME NEW n \in Intervals PROVE PartialInTurn(n)'
    <3>1. ASSUME NEW x \in Held(buffers'[n].minutes), NEW t \in Coming' PROVE x < t
      <4>1. x \in Nat /\ x <= m
        BY <2>6, <3>1
      <4>2. t \in Nat /\ m < t /\ m \in Nat
        BY <2>3, <3>1
      <4>3. QED
        BY <4>1, <4>2
    <3>2. QED
      BY <2>6, <3>1 DEF PartialInTurn, OneBucket
  <2>8. ASSUME NEW n \in Intervals PROVE CandlesInTurn(n)'
    <3>1. CandlesInTurn(n)
      BY DEF OrderIInv
    <3>2. ASSUME NEW i \in DOMAIN candles', candles'[i].interval = n
          PROVE  /\ candles'[i].minutes # <<>> /\ OneBucket(candles'[i], n)
                 /\ \A t \in Coming' : candles'[i].open < AlignTimestamp(t, n)
                 /\ buffers'[n].minutes # <<>> => candles'[i].open < buffers'[n].open
      <4>1. CASE i \in DOMAIN candles
        <5>1. candles'[i] = candles[i]
          BY <2>5, <4>1
        <5>2. QED
          BY <1>5, <2>3, <2>6, <3>1, <3>2, <4>1, <5>1 DEF CandlesInTurn
      <4>2. CASE i \notin DOMAIN candles
        <5>1. i > Len(candles)
          BY <2>5, <4>2
        <5>2. PICK j \in DOMAIN s : candles'[i] = s[j]
          BY <2>5, <5>1
        <5>3. QED
          BY <2>3, <2>6, <3>2, <5>2
      <4>3. QED
        BY <4>1, <4>2
    <3>3. QED
      BY <3>2 DEF CandlesInTurn, OneBucket
  <2>9. EachBucketOnce'
    <3>1. ASSUME NEW i \in DOMAIN candles', NEW j \in DOMAIN candles', i < j,
                 candles'[i].interval = candles'[j].interval
          PROVE  candles'[i].open < candles'[j].open
      <4>1. CASE j \in DOMAIN candles
        <5>1. i \in DOMAIN candles
          BY <2>5, <3>1, <4>1
        <5>2. candles'[i] = candles[i] /\ candles'[j] = candles[j]
          BY <2>5, <4>1, <5>1
        <5>3. QED
          BY <3>1, <4>1, <5>1, <5>2 DEF OrderIInv, EachBucketOnce
      <4>2. CASE j \notin DOMAIN candles /\ i \in DOMAIN candles
        <5>1. j > Len(candles)
          BY <2>5, <4>2
        <5>2. PICK l \in DOMAIN s : candles'[j] = s[l]
          BY <2>5, <5>1
        <5>3. candles'[i] = candles[i]
          BY <2>5, <4>2
        <5>4. PICK n \in Intervals : candles[i].interval = n
          BY <2>4, <4>2, CandleFields
        <5>5. /\ s[l].interval = n /\ buffers[n].minutes # <<>>
              /\ s[l].open = buffers[n].open
          BY <2>6, <3>1, <5>2, <5>3, <5>4
        <5>6. candles[i].open < buffers[n].open
          BY <4>2, <5>4, <5>5 DEF OrderIInv, CandlesInTurn
        <5>7. QED
          BY <5>2, <5>3, <5>5, <5>6
      <4>3. CASE j \notin DOMAIN candles /\ i \notin DOMAIN candles
        <5>1. i > Len(candles) /\ j > Len(candles)
          BY <2>5, <4>3
        <5>2. /\ i - Len(candles) \in DOMAIN s /\ candles'[i] = s[i - Len(candles)]
              /\ j - Len(candles) \in DOMAIN s /\ candles'[j] = s[j - Len(candles)]
          BY <2>5, <5>1
        <5>3. i - Len(candles) = j - Len(candles)
          BY <1>2, <2>3, <3>1, <5>2, OneOfInterval
        <5>4. QED
          BY <2>5, <3>1, <5>3
      <4>4. QED
        BY <4>1, <4>2, <4>3
    <3>2. rows' \subseteq {candles'[i] : i \in DOMAIN candles'}
      BY <1>1, <2>5, OrderTypes
    <3>3. QED
      BY <3>1, <3>2 DEF EachBucketOnce
  <2>10. QED
    BY <1>1, <1>5, <2>7, <2>8, <2>9 DEF OrderIInv
<1>8. QED
  BY <1>6, <1>7

\* OrderIInv is an invariant of the market stream.
THEOREM OrderInvariant == MarketSpec => []OrderIInv
<1>1. OrderIInv /\ MarketIInv' /\ [MarketNext]_marketVars => OrderIInv'
  BY MinuteEndsInTurn, KlineUpdateInTurn, StreamBreaksInTurn, ForwardInTurn,
     ProcessKlineInTurn, PersistInTurn, RestartInTurn, OthersInTurn
  DEF MarketNext
<1>2. QED
  BY <1>1, OrderInit, MarketInvariant, PTL DEF MarketSpec

\* For every contract's stream: no bucket is emitted twice, those of an interval
\* come in order, and the stored rows are emitted candles (aggregator.rs,
\* persister.rs).
THEOREM BucketsInOrder == MarketSpec => []EachBucketOnce
<1>1. OrderIInv => EachBucketOnce
  BY DEF OrderIInv
<1>2. QED
  BY <1>1, OrderInvariant, PTL

\* For every contract's stream: a candle holds minutes of its bucket, in order,
\* and lacks only lost ones, since a later bucket starts only when no minute of
\* it is still to come (aggregator.rs).
THEOREM CandlesTellTruth == MarketSpec => []CandlesTruthful
<1>1. OrderIInv => CandlesTruthful
  <2>1. SUFFICES ASSUME OrderIInv, NEW i \in DOMAIN candles
                 PROVE  LET c == candles[i]
                        IN  /\ \A j, k \in DOMAIN c.minutes : j < k => c.minutes[j] < c.minutes[k]
                            /\ Held(c.minutes) \subseteq Bucket(c.open, c.interval)
                            /\ Bucket(c.open, c.interval) \ Held(c.minutes) \subseteq lost
    BY DEF CandlesTruthful
  <2> DEFINE c == candles[i]
             n == c.interval
  <2>2. /\ c \in CandleType /\ n \in Intervals /\ c.minutes \in Seq(Nat)
        /\ buffers[n] \in PartialType /\ clock \in Nat /\ candles \in Seq(CandleType)
    <3>1. /\ buffers \in [Intervals -> PartialType] /\ clock \in Nat
          /\ candles \in Seq(CandleType)
      BY <2>1 DEF OrderIInv, MarketIInv, MarketTypes
    <3>2. c \in CandleType /\ n \in Intervals /\ c.minutes \in Seq(Nat)
      BY <2>1, <3>1, CandleFields
    <3>3. QED
      BY <3>1, <3>2
  <2>3. /\ c.minutes # <<>> /\ OneBucket(c, n)
        /\ \A t \in Coming : c.open < AlignTimestamp(t, n)
        /\ buffers[n].minutes # <<>> => c.open < buffers[n].open
        /\ OneBucket(buffers[n], n)
    BY <2>1, <2>2 DEF OrderIInv, CandlesInTurn, PartialInTurn
  <2>4. \A x \in Held(c.minutes) : x \in Nat /\ AlignTimestamp(x, n) = c.open
    BY <2>2, <2>3 DEF OneBucket, Held
  <2>5. PICK y \in Nat : AlignTimestamp(y, n) = c.open
    <3>1. 1 \in DOMAIN c.minutes
      BY <2>2, <2>3
    <3>2. QED
      BY <2>4, <3>1 DEF Held
  <2> HIDE DEF n, c
  <2>6. c.open \in Nat /\ n \in Nat \ {0}
    BY <2>2, <2>5, AlignFacts
  <2>7. Held(c.minutes) \subseteq Bucket(c.open, n)
    BY <2>2, <2>4, AlignFacts
  <2>8. ASSUME NEW x \in Bucket(c.open, n), x \notin Held(c.minutes)
        PROVE  x \in lost
    <3>1. x \in Nat
      BY <2>6 DEF Bucket
    <3>2. AlignTimestamp(x, n) = c.open
      BY <2>2, <2>5, <2>8, <3>1, AlignFacts
    <3>3. x \notin Coming
      BY <2>3, <2>6, <3>2
    <3>4. x \in 0 .. clock - 1
      BY <2>2, <3>1, <3>3 DEF Coming
    <3>5. x \in Places(n)
      BY <2>1, <2>2, <3>4, PlacesAreAll DEF OrderIInv, MarketIInv
    <3>6. x \notin Held(buffers[n].minutes)
      <4>1. SUFFICES ASSUME x \in Held(buffers[n].minutes) PROVE FALSE
        OBVIOUS
      <4>2. AlignTimestamp(x, n) = buffers[n].open /\ buffers[n].minutes # <<>>
        BY <2>3, <4>1 DEF OneBucket, Held
      <4>3. QED
        BY <2>3, <2>6, <3>2, <4>2
    <3>7. x \notin HeldBy(candles, n)
      <4>1. SUFFICES ASSUME NEW j \in DOMAIN candles, candles[j].interval = n,
                            x \in Held(candles[j].minutes)
                     PROVE  FALSE
        BY DEF HeldBy
      <4>2. OneBucket(candles[j], n)
        BY <2>1, <2>2, <4>1 DEF OrderIInv, CandlesInTurn
      <4>3. candles[j].open = c.open
        BY <3>2, <4>1, <4>2 DEF OneBucket, Held
      <4>4. i = j
        <5>1. i \in Nat /\ j \in Nat /\ candles[i].interval = candles[j].interval
          BY <2>1, <2>2, <4>1 DEF c, n
        <5>2. candles[i].open = candles[j].open /\ candles[i].open \in Nat
          BY <2>6, <4>3 DEF c
        <5>3. /\ i < j => candles[i].open < candles[j].open
              /\ j < i => candles[j].open < candles[i].open
          BY <2>1, <4>1, <5>1 DEF OrderIInv, EachBucketOnce
        <5>4. QED
          BY <5>1, <5>2, <5>3
      <4>5. QED
        BY <2>8, <4>1, <4>4 DEF c
    <3>8. QED
      BY <3>3, <3>5, <3>6, <3>7 DEF Places, Coming
  <2>9. \A j, k \in DOMAIN c.minutes : j < k => c.minutes[j] < c.minutes[k]
    BY <2>3 DEF OneBucket
  <2>10. QED
    BY <2>7, <2>8, <2>9 DEF c, n
<1>2. QED
  BY <1>1, OrderInvariant, PTL

-----------------------------------------------------------------------------
(* The history.  Only downloads from Binance have ranges that matter. *)

FromBinance == {s \in Symbols : SourceOf[s] = "binance"}
Queue(d) == IF SourceOf[download[d].symbol] = "binance" THEN download[d].ranges ELSE <<>>

RowType   == [interval : {"1m", "1d"}, ts : Int, cut : BOOLEAN]
RangeType == [from : Int, to : Int]
DownloadType ==
  [at : {"idle", "begun", "bounds", "fetch", "store"}, symbol : Symbols \cup {NoDownload.symbol},
   start : Int, end : Int, min : Int, interval : {"1m", "1d"}, ranges : Seq(RangeType),
   page : SUBSET RowType]

HistoryTyped ==
  /\ now \in Int /\ starts \in Int
  /\ table \in [Symbols -> SUBSET RowType]
  /\ download \in [Downloads -> DownloadType]

\* What a fetched page holds can be stored.
Storable(page) ==
  /\ \A c \in page : HasCandle(c.ts)
  /\ \A c, b \in page : c.interval = b.interval /\ c.ts = b.ts => c = b

\* A page holds what the exchange has of the range, up to its last candle.
PageOK(page, range) ==
  /\ page # {}
  /\ \A c \in page : c.interval = "1m" /\ c.ts \in range.from .. range.to
  /\ \A c \in page, m \in Int :
       range.from <= m /\ m <= c.ts => m < Listed \/ m \in Quiet \/ \E b \in page : b.ts = m

DownloadOK(d) ==
  /\ download[d].at # "idle" => download[d].symbol \in Symbols
  /\ download[d].at \in {"idle", "begun", "bounds"} => download[d].ranges = <<>>
  /\ download[d].at = "bounds" =>
       /\ Binance(d)
       /\ download[d].min # None => download[d].min \in Stamps(download[d].symbol, "1m")
  /\ download[d].at = "store" => Storable(download[d].page)
  /\ download[d].at = "store" /\ Binance(d) =>
       download[d].ranges # <<>> /\ PageOK(download[d].page, Head(download[d].ranges))
  /\ \A i \in 1 .. Len(Queue(d)) - 1 : Queue(d)[i].to <= now
  /\ Queue(d) # <<>> /\ Stamps(download[d].symbol, "1m") = {} => Len(Queue(d)) = 1

\* A minute that is accounted for.
Wanted(d, s, m) ==
  /\ download[d].symbol = s
  /\ \E i \in 1 .. Len(Queue(d)) : Queue(d)[i].from <= m /\ m <= Queue(d)[i].to
Fine(s, m) ==
  \/ m < Listed \/ m \in Quiet \/ m \in Stamps(s, "1m")
  \/ <<s, m>> \in unfinished \/ \E d \in Downloads : Wanted(d, s, m)

\* From a candle that is stored to a range, or from the one range to the other.
Beside(r, t, m) ==
  /\ r.from <= r.to
  /\ (t < m /\ m < r.from) \/ (r.to < m /\ m < t)
Amid(r, q, m) ==
  /\ r.from <= r.to /\ q.from <= q.to
  /\ (r.to < m /\ m < q.from) \/ (q.to < m /\ m < r.from)

HoleFree(s) ==
  \A t, u \in Stamps(s, "1m") : \A m \in Int : t < m /\ m < u => Fine(s, m)
Bridged(d) ==
  \A i \in 1 .. Len(Queue(d)) : \A t \in Stamps(download[d].symbol, "1m"), m \in Int :
    Beside(Queue(d)[i], t, m) => Fine(download[d].symbol, m)
NotBetween(d, e) ==
  download[d].symbol = download[e].symbol /\ Stamps(download[d].symbol, "1m") = {} =>
    \A i \in 1 .. Len(Queue(d)), j \in 1 .. Len(Queue(e)) : \A m \in Int :
      Amid(Queue(d)[i], Queue(e)[j], m) => <<download[d].symbol, m>> \in unfinished

HistoryInv ==
  /\ HistoryTyped
  /\ \A d \in Downloads : DownloadOK(d)
  /\ HistoryTypeOK
  /\ \A s \in FromBinance : HoleFree(s)
  /\ \A d \in Downloads : Bridged(d)
  /\ \A d, e \in Downloads : d # e => NotBetween(d, e)

LEMMA LeastNumber ==
  ASSUME NEW T, T \subseteq Nat, T # {}
  PROVE  \E n \in T : \A m \in T : n <= m
<1>1. \A m, n \in Nat : m < n => <<m, n>> \in OpToRel(<, Nat)
  <2>1. OpToRel(<, Nat) = {x \in Nat \X Nat : x[1] < x[2]}
    BY Zenon DEF OpToRel
  <2>2. QED
    BY <2>1
<1>2. PICK n \in T : \A m \in T : ~ (<<m, n>> \in OpToRel(<, Nat))
  BY WFMin, NatLessThanWellFounded
<1>3. \A m \in T : ~(m < n)
  BY <1>1, <1>2, Zenon
<1>4. \A m \in T : n <= m
  BY <1>3
<1>5. QED
  BY <1>4

\* A set of numbers that reaches up to no number but 0 and with each to the next
\* holds them all.

-----------------------------------------------------------------------------
\* What a download has still to fetch, as a queue of ranges.
LEMMA RestIs ==
  ASSUME NEW d \in Downloads, HistoryTyped, NEW s, NEW m \in Int
  PROVE  <<s, m>> \in Rest(d) <=> Wanted(d, s, m)
<1>1. download[d].ranges \in Seq(RangeType)
  BY DEF HistoryTyped, DownloadType
<1>2. \A i \in 1 .. Len(download[d].ranges) : download[d].ranges[i] \in RangeType
  BY <1>1
<1>3. CASE SourceOf[download[d].symbol] = "binance"
  <2>1. Queue(d) = download[d].ranges /\ Rest(d) = MinutesOf(download[d].symbol, Range(download[d].ranges))
    BY <1>3 DEF Queue, Rest
  <2>2. Range(download[d].ranges) = {download[d].ranges[i] : i \in 1 .. Len(download[d].ranges)}
    BY <1>1 DEF Range
  <2>3. <<s, m>> \in MinutesOf(download[d].symbol, Range(download[d].ranges))
          <=> \E r \in Range(download[d].ranges) : \E k \in r.from .. r.to : <<s, m>> = <<download[d].symbol, k>>
    BY DEF MinutesOf
  <2>4. \A r \in RangeType : (\E k \in r.from .. r.to : <<s, m>> = <<download[d].symbol, k>>)
                         <=> s = download[d].symbol /\ r.from <= m /\ m <= r.to
    BY DEF RangeType
  <2>5. Range(download[d].ranges) \subseteq RangeType
    BY <1>2, <2>2
  <2>6. <<s, m>> \in Rest(d)
          <=> \E r \in Range(download[d].ranges) : s = download[d].symbol /\ r.from <= m /\ m <= r.to
    BY <2>1, <2>3, <2>4, <2>5
  <2>7. <<s, m>> \in Rest(d)
          <=> \E i \in 1 .. Len(download[d].ranges) :
                s = download[d].symbol /\ download[d].ranges[i].from <= m /\ m <= download[d].ranges[i].to
    BY <2>2, <2>6
  <2>8. QED
    BY <2>1, <2>7, Zenon DEF Wanted
<1>4. CASE SourceOf[download[d].symbol] # "binance"
  <2>1. Queue(d) = <<>> /\ Rest(d) = {}
    BY <1>4 DEF Queue, Rest
  <2>2. 1 .. Len(Queue(d)) = {}
    BY <2>1
  <2>3. QED
    BY <2>1, <2>2, Zenon DEF Wanted
<1>5. QED
  BY <1>3, <1>4

\* The ends of what is stored.
LEMMA LeastStamp ==
  ASSUME NEW T, T \subseteq Int, T # {}, NEW low \in Int, \A t \in T : low <= t
  PROVE  \E n \in T : \A m \in T : n <= m
<1> DEFINE S == {n \in Nat : low + n \in T}
<1>1. PICK t \in T : TRUE
  OBVIOUS
<1>2. t - low \in S /\ S \subseteq Nat
  OBVIOUS
<1>3. S # {}
  BY <1>2
<1> HIDE DEF S
<1>4. PICK n \in S : \A m \in S : n <= m
  BY <1>2, <1>3, LeastNumber, Zenon
<1> USE DEF S
<1>5. low + n \in T
  OBVIOUS
<1>6. \A m \in T : m - low \in S
  OBVIOUS
<1>7. \A m \in T : low + n <= m
  BY <1>4, <1>6
<1>8. QED
  BY <1>5, <1>7

LEMMA GreatestStamp ==
  ASSUME NEW T, T \subseteq Int, T # {}, NEW high \in Int, \A t \in T : t <= high
  PROVE  \E n \in T : \A m \in T : m <= n
<1> DEFINE S == {n \in Int : 0 - n \in T}
<1>1. S \subseteq Int
  OBVIOUS
<1>2. S # {}
  <2>1. PICK t \in T : TRUE
    OBVIOUS
  <2>2. 0 - t \in S
    OBVIOUS
  <2>3. QED
    BY <2>2
<1>3. 0 - high \in Int /\ \A t \in S : 0 - high <= t
  OBVIOUS
<1> HIDE DEF S
<1>4. PICK n \in S : \A m \in S : n <= m
  BY <1>1, <1>2, <1>3, LeastStamp
<1> USE DEF S
<1>5. 0 - n \in T
  OBVIOUS
<1>6. \A m \in T : 0 - m \in S
  OBVIOUS
<1>7. \A m \in T : m <= 0 - n
  BY <1>4, <1>6
<1>8. QED
  BY <1>5, <1>7

LEMMA MaxIs ==
  ASSUME NEW T, T \subseteq Int, T # {}, NEW high \in Int, \A t \in T : t <= high
  PROVE  Max(T) \in T /\ \A t \in T : t <= Max(T)
<1>1. \E n \in T : \A m \in T : n >= m
  BY GreatestStamp
<1>2. Max(T) \in T /\ \A t \in T : Max(T) >= t
  BY <1>1, Zenon DEF Max
<1>3. QED
  BY <1>2

LEMMA MinIs ==
  ASSUME NEW T, T \subseteq Int, T # {}, NEW low \in Int, \A t \in T : low <= t
  PROVE  Min(T) \in T /\ \A t \in T : Min(T) <= t
<1>1. \E n \in T : \A m \in T : n <= m
  BY LeastStamp
<1>2. QED
  BY <1>1, Zenon DEF Min

\* What is stored of a symbol lies between the first minute and now.
LEMMA Stored ==
  ASSUME HistoryTyped, HistoryTypeOK, NEW s \in Symbols, NEW interval
  PROVE  Stamps(s, interval) \subseteq Int /\ \A t \in Stamps(s, interval) : Listed <= t /\ t <= now
<1>1. table[s] \subseteq RowType /\ \A r \in table[s] : HasCandle(r.ts)
  BY DEF HistoryTyped, HistoryTypeOK
<1>2. \A t \in Stamps(s, interval) : \E r \in table[s] : t = r.ts
  BY DEF Stamps
<1>3. \A r \in table[s] : r.ts \in Int /\ Listed <= r.ts /\ r.ts <= now
  BY <1>1, HistoryAssumption DEF RowType, HasCandle, HistoryTyped
<1>4. QED
  BY <1>2, <1>3

LEMMA BoundsAre ==
  ASSUME HistoryTyped, HistoryTypeOK, NEW s \in Symbols, NEW interval, Stamps(s, interval) # {}
  PROVE  /\ MinTs(s, interval) \in Stamps(s, interval) /\ MaxTs(s, interval) \in Stamps(s, interval)
         /\ \A t \in Stamps(s, interval) : t \in Int /\ MinTs(s, interval) <= t /\ t <= MaxTs(s, interval)
<1> DEFINE T == Stamps(s, interval)
<1>1. Listed \in Int /\ now \in Int
  BY HistoryAssumption DEF HistoryTyped
<1>2. T \subseteq Int /\ \A t \in T : Listed <= t /\ t <= now
  BY Stored
<1>3. MinTs(s, interval) = Min(T) /\ MaxTs(s, interval) = Max(T) /\ T # {}
  BY DEF MinTs, MaxTs
<1> HIDE DEF T
<1>4. Min(T) \in T /\ \A t \in T : Min(T) <= t
  BY <1>1, <1>2, <1>3, MinIs
<1>5. Max(T) \in T /\ \A t \in T : t <= Max(T)
  BY <1>1, <1>2, <1>3, MaxIs
<1>6. /\ MinTs(s, interval) \in T /\ MaxTs(s, interval) \in T
      /\ \A t \in T : t \in Int /\ MinTs(s, interval) <= t /\ t <= MaxTs(s, interval)
  BY <1>2, <1>3, <1>4, <1>5
<1>7. QED
  BY <1>6 DEF T


\* A page is empty only where the exchange has nothing, and otherwise it holds all
\* of the range up to its last candle.
LEMMA PagesAre ==
  ASSUME NEW from \in Int, NEW to \in Int, now \in Int
  PROVE  /\ FetchPage(from, to) \subseteq RowType /\ Storable(FetchPage(from, to))
         /\ FetchPage(from, to) = {} => \A m \in from .. to : ~HasCandle(m)
         /\ FetchPage(from, to) # {} => PageOK(FetchPage(from, to), [from |-> from, to |-> to])
<1> DEFINE A == {m \in from .. to : HasCandle(m)}
<1> DEFINE Before(m) == {k \in A : k < m}
<1> DEFINE P == FetchPage(from, to)
<1>1. PageLimit \in Nat /\ PageLimit >= 1 /\ Listed \in Int
  BY HistoryAssumption
<1>2. A \subseteq Int /\ \A m \in A : from <= m /\ m <= to /\ m >= Listed /\ m <= now /\ m \notin Quiet
  BY DEF HasCandle
<1>3. IsFiniteSet(A)
  <2>1. IsFiniteSet(from .. to)
    BY FS_Interval
  <2>2. QED
    BY <2>1, FS_Subset
<1>4. \A m \in Int : IsFiniteSet(Before(m)) /\ Cardinality(Before(m)) \in Nat
  BY <1>3, FS_Subset, FS_CardinalityType
<1>5. P = {Candle(m, "1m", 1) : m \in {m \in A : Cardinality(Before(m)) < PageLimit}}
  BY Zenon DEF FetchPage
<1>6. \A m \in A : Candle(m, "1m", 1) \in RowType /\ Candle(m, "1m", 1).ts = m
                   /\ Candle(m, "1m", 1).interval = "1m" /\ HasCandle(m)
  BY <1>2 DEF Candle, RowType
<1>7. \A c \in P : c \in RowType /\ c.interval = "1m" /\ c.ts \in A /\ Cardinality(Before(c.ts)) < PageLimit
                   /\ HasCandle(c.ts) /\ c = Candle(c.ts, "1m", 1)
  BY <1>5, <1>6
<1>8. \A m \in A : Cardinality(Before(m)) < PageLimit => \E b \in P : b.ts = m
  BY <1>5, <1>6
<1> HIDE DEF P
<1>9. P = {} => A = {}
  <2> SUFFICES ASSUME A # {} PROVE P # {}
    OBVIOUS
  <2>1. \A m \in A : from <= m
    BY <1>2
  <2> HIDE DEF A
  <2>2. PICK n \in A : \A m \in A : n <= m
    BY <1>2, <2>1, LeastStamp
  <2>3. Before(n) = {}
    <3>1. \A k \in A : ~(k < n)
      BY <1>2, <2>2
    <3>2. QED
      BY <3>1, Zenon
  <2>4. Cardinality(Before(n)) = 0
    BY <2>3, FS_EmptySet, Zenon
  <2>5. Cardinality(Before(n)) < PageLimit
    BY <1>1, <2>4
  <2>6. QED
    BY <1>8, <2>2, <2>5
<1>10. ASSUME NEW c \in P, NEW m \in Int, from <= m, m <= c.ts
       PROVE  m < Listed \/ m \in Quiet \/ \E b \in P : b.ts = m
  <2> SUFFICES ASSUME m >= Listed, m \notin Quiet PROVE \E b \in P : b.ts = m
    BY <1>1
  <2>1. c.ts \in A /\ c.ts \in Int /\ Cardinality(Before(c.ts)) < PageLimit
    BY <1>2, <1>7
  <2>2. m <= to /\ m <= now
    BY <1>2, <1>10, <2>1
  <2>3. m \in A
    BY <1>10, <2>2 DEF HasCandle
  <2>4. Before(m) \subseteq Before(c.ts)
    BY <1>2, <1>10, <2>1
  <2>5. Cardinality(Before(m)) <= Cardinality(Before(c.ts))
    BY <1>4, <2>1, <2>4, FS_Subset
  <2>6. Cardinality(Before(m)) < PageLimit
    BY <1>1, <1>4, <2>1, <2>5
  <2>7. QED
    BY <1>8, <2>3, <2>6
<1>11. P # {} => PageOK(P, [from |-> from, to |-> to])
  <2> DEFINE range == [from |-> from, to |-> to]
  <2>1. range.from = from /\ range.to = to
    OBVIOUS
  <2>2. \A c \in P : c.interval = "1m" /\ c.ts \in from .. to
    BY <1>2, <1>7
  <2> HIDE DEF A, Before, range
  <2>3. QED
    BY <1>10, <2>1, <2>2 DEF PageOK
<1>12. P \subseteq RowType /\ Storable(P)
  <2>1. \A c \in P : c \in RowType /\ HasCandle(c.ts) /\ c = Candle(c.ts, "1m", 1)
    BY <1>7
  <2>2. QED
    BY <2>1, Zenon DEF Storable
<1>13. QED
  BY <1>9, <1>11, <1>12 DEF P

-----------------------------------------------------------------------------
\* A download that a step leaves alone.
LEMMA OthersOK ==
  ASSUME HistoryTyped, now' \in Int, now <= now',
         \A s \in FromBinance : Stamps(s, "1m") \subseteq Stamps(s, "1m")',
         NEW d \in Downloads, DownloadOK(d), download'[d] = download[d]
  PROVE  DownloadOK(d)'
<1>1. now \in Int
  BY DEF HistoryTyped
<1>2. (Queue(d)') = Queue(d) /\ (Binance(d)' <=> Binance(d))
  BY DEF Queue, Binance
<1>3. download[d].ranges \in Seq(RangeType)
  BY DEF HistoryTyped, DownloadType
<1>4. Queue(d) \in Seq(RangeType)
  BY <1>3 DEF Queue
<1>5. \A i \in 1 .. Len(Queue(d)) - 1 : Queue(d)[i] \in RangeType
  BY <1>4
<1>6. \A i \in 1 .. Len(Queue(d)') - 1 : Queue(d)'[i].to <= now'
  <2>1. \A i \in 1 .. Len(Queue(d)) - 1 : Queue(d)[i].to \in Int /\ Queue(d)[i].to <= now
    BY <1>5 DEF DownloadOK, RangeType
  <2>2. QED
    BY <1>1, <1>2, <2>1
<1>7. Queue(d) # <<>> => download[d].symbol \in FromBinance
  <2> SUFFICES ASSUME Queue(d) # <<>> PROVE download[d].symbol \in FromBinance
    OBVIOUS
  <2>1. SourceOf[download[d].symbol] = "binance" /\ download[d].ranges # <<>>
    BY DEF Queue
  <2>2. download[d].at # "idle"
    BY <2>1 DEF DownloadOK
  <2>3. QED
    BY <2>1, <2>2 DEF DownloadOK, FromBinance
<1>8. Queue(d)' # <<>> /\ Stamps(download[d].symbol, "1m")' = {} => Len(Queue(d)') = 1
  BY <1>2, <1>7 DEF DownloadOK
<1>9. \A p, r : r \in RangeType /\ p \subseteq RowType /\ PageOK(p, r) => PageOK(p, r)'
  BY <1>1 DEF PageOK, RowType
<1>10. download[d].at = "store" /\ Binance(d) =>
         download[d].ranges # <<>> /\ PageOK(download[d].page, Head(download[d].ranges))'
  <2>1. download[d].page \subseteq RowType
    BY DEF HistoryTyped, DownloadType
  <2>2. download[d].ranges # <<>> => Head(download[d].ranges) \in RangeType
    BY <1>3
  <2>3. QED
    BY <1>9, <2>1, <2>2 DEF DownloadOK
<1>11. download[d].at = "bounds" =>
         /\ Binance(d)
         /\ download[d].min # None => download[d].min \in Stamps(download[d].symbol, "1m")'
  <2> SUFFICES ASSUME download[d].at = "bounds"
               PROVE  /\ Binance(d)
                      /\ download[d].min # None => download[d].min \in Stamps(download[d].symbol, "1m")'
    OBVIOUS
  <2>1. download[d].symbol \in FromBinance
    BY DEF DownloadOK, FromBinance, Binance
  <2>2. QED
    BY <2>1 DEF DownloadOK
<1>12. download[d].at = "store" => Storable(download[d].page)'
  <2> SUFFICES ASSUME download[d].at = "store" PROVE Storable(download[d].page)'
    OBVIOUS
  <2>1. Storable(download[d].page) /\ download[d].page \subseteq RowType
    BY DEF DownloadOK, HistoryTyped, DownloadType
  <2>2. \A c \in download[d].page : HasCandle(c.ts) => HasCandle(c.ts)'
    BY <1>1, <2>1, HistoryAssumption DEF HasCandle, RowType
  <2>3. QED
    BY <2>1, <2>2 DEF Storable, HasCandle
<1>13. QED
  BY <1>2, <1>6, <1>8, <1>10, <1>11, <1>12 DEF DownloadOK, PageOK, Stamps, Storable, HasCandle


\* Who has something to fetch is a download of Binance.
LEMMA QueueOwner ==
  ASSUME NEW d \in Downloads, HistoryTyped, DownloadOK(d)
  PROVE  /\ Queue(d) \in Seq(RangeType) /\ Len(Queue(d)) \in Nat
         /\ Len(Queue(d)) # 0 => /\ download[d].symbol \in FromBinance /\ download[d].at # "idle"
                                 /\ Queue(d) = download[d].ranges
<1>1. download[d].ranges \in Seq(RangeType)
  BY DEF HistoryTyped, DownloadType
<1>2. Queue(d) \in Seq(RangeType)
  BY <1>1 DEF Queue
<1>3. ASSUME Len(Queue(d)) # 0
      PROVE  /\ download[d].symbol \in FromBinance /\ download[d].at # "idle"
             /\ Queue(d) = download[d].ranges
  <2>1. Queue(d) # <<>>
    BY <1>3
  <2>2. SourceOf[download[d].symbol] = "binance" /\ download[d].ranges # <<>> /\ Queue(d) = download[d].ranges
    BY <2>1 DEF Queue
  <2>3. download[d].at # "idle"
    BY <2>2 DEF DownloadOK
  <2>4. QED
    BY <2>2, <2>3 DEF DownloadOK, FromBinance
<1>4. QED
  BY <1>2, <1>3

\* A step that stores nothing and starts no range keeps the invariant, when what it
\* drops of the ranges is accounted for or still to come.
Calm(d) ==
  \A i \in 1 .. Len(Queue(d)') :
    download'[d].symbol = download[d].symbol /\ \E j \in 1 .. Len(Queue(d)) : Queue(d)'[i] = Queue(d)[j]
Later(s, m) == m > now /\ \A d \in Downloads : download'[d].symbol = s => Len(Queue(d)') = 0
FineKept(s) == \A m \in Int : Fine(s, m) => Fine(s, m)' \/ Later(s, m)
StampsKept == \A s \in FromBinance : Stamps(s, "1m")' = Stamps(s, "1m")

LEMMA CalmStep ==
  ASSUME HistoryInv, HistoryTyped', HistoryTypeOK', StampsKept, unfinished \subseteq unfinished', now <= now',
         \A d \in Downloads : DownloadOK(d)',
         \A d \in Downloads : Calm(d),
         \A s \in FromBinance : FineKept(s)
  PROVE  HistoryInv'
<1>1. now \in Int /\ now' \in Int /\ HistoryTyped
  BY DEF HistoryInv, HistoryTyped
<1>2. \A s \in FromBinance : s \in Symbols
  BY DEF FromBinance
<1>3. \A s \in FromBinance : Stamps(s, "1m") \subseteq Int /\ \A t \in Stamps(s, "1m") : t <= now
  BY <1>1, <1>2, Stored DEF HistoryInv
<1>5. \A s \in FromBinance : HoleFree(s)'
  <2> SUFFICES ASSUME NEW s \in FromBinance, NEW t \in Stamps(s, "1m"), NEW u \in Stamps(s, "1m"),
                      NEW m \in Int, t < m, m < u
               PROVE  Fine(s, m)'
    BY DEF HoleFree, StampsKept
  <2>1. Fine(s, m)
    BY DEF HistoryInv, HoleFree
  <2>2. ~(m > now)
    BY <1>1, <1>2, <1>3
  <2>3. QED
    BY <2>1, <2>2 DEF FineKept, Later
<1>6. \A d \in Downloads : Bridged(d)'
  <2> SUFFICES ASSUME NEW d \in Downloads, NEW i \in 1 .. Len(Queue(d)'),
                      NEW t \in Stamps(download[d].symbol, "1m")', NEW m \in Int,
                      Beside(Queue(d)'[i], t, m)
               PROVE  Fine(download[d].symbol, m)'
    BY DEF Bridged, Beside
  <2>1. PICK j \in 1 .. Len(Queue(d)) : Queue(d)'[i] = Queue(d)[j]
    BY DEF Calm
  <2>2. download'[d].symbol = download[d].symbol
    BY DEF Calm
  <2>3. PICK s : s = download[d].symbol
    OBVIOUS
  <2>4. s \in FromBinance
    <3>1. DownloadOK(d)
      BY DEF HistoryInv
    <3>2. QED
      BY <1>1, <2>1, <2>3, <3>1, QueueOwner
  <2>5. t \in Stamps(s, "1m")
    BY <2>2, <2>3, <2>4 DEF StampsKept, Stamps
  <2>6. Fine(s, m)
    <3>1. Bridged(d)
      BY DEF HistoryInv
    <3>2. Beside(Queue(d)[j], t, m)
      BY <2>1
    <3>3. QED
      BY <2>1, <2>3, <2>5, <3>1, <3>2 DEF Bridged
  <2>7. ~Later(s, m)
    <3>1. download'[d].symbol = s /\ Len(Queue(d)') # 0
      BY <2>2, <2>3
    <3>2. QED
      BY <3>1 DEF Later
  <2>8. Fine(s, m)'
    BY <2>4, <2>6, <2>7 DEF FineKept
  <2>9. QED
    BY <2>2, <2>3, <2>8 DEF Fine, Wanted, Stamps
<1>7. ASSUME NEW d \in Downloads, NEW e \in Downloads, d # e
      PROVE  NotBetween(d, e)'
  <2> SUFFICES ASSUME download'[d].symbol = download'[e].symbol, Stamps(download[d].symbol, "1m")' = {},
                      NEW i \in 1 .. Len(Queue(d)'), NEW j \in 1 .. Len(Queue(e)'), NEW m \in Int,
                      Amid(Queue(d)'[i], Queue(e)'[j], m)
               PROVE  <<download'[d].symbol, m>> \in unfinished'
    BY DEF NotBetween, Amid
  <2>1. PICK k \in 1 .. Len(Queue(d)) : Queue(d)'[i] = Queue(d)[k]
    BY DEF Calm
  <2>2. PICK l \in 1 .. Len(Queue(e)) : Queue(e)'[j] = Queue(e)[l]
    BY DEF Calm
  <2>3. download'[d].symbol = download[d].symbol /\ download'[e].symbol = download[e].symbol
    BY DEF Calm
  <2>4. PICK s : s = download[d].symbol
    OBVIOUS
  <2>5. s \in FromBinance
    <3>1. DownloadOK(d)
      BY DEF HistoryInv
    <3>2. QED
      BY <1>1, <2>1, <2>4, <3>1, QueueOwner
  <2>6. Stamps(s, "1m") = {}
    BY <2>3, <2>4, <2>5 DEF StampsKept, Stamps
  <2>7. NotBetween(d, e) /\ Amid(Queue(d)[k], Queue(e)[l], m)
    BY <1>7, <2>1, <2>2 DEF HistoryInv
  <2>8. <<s, m>> \in unfinished
    BY <2>3, <2>4, <2>6, <2>7 DEF NotBetween
  <2>9. QED
    BY <2>3, <2>4, <2>8
<1>8. QED
  BY <1>5, <1>6, <1>7 DEF HistoryInv

-----------------------------------------------------------------------------
\* A step that moves one download, or none.
LEMMA QuietStep ==
  ASSUME HistoryInv, HistoryTyped', HistoryTypeOK', StampsKept, unfinished' = unfinished, now <= now',
         \A d \in Downloads : DownloadOK(d)',
         \A d \in Downloads : \/ Queue(d)' = Queue(d) /\ download'[d].symbol = download[d].symbol
                              \/ Queue(d)' = <<>> /\ Queue(d) = <<>>
  PROVE  HistoryInv'
<1>1. \A d \in Downloads : Calm(d)
  <2> SUFFICES ASSUME NEW d \in Downloads PROVE Calm(d)
    OBVIOUS
  <2>1. CASE Queue(d)' = Queue(d) /\ download'[d].symbol = download[d].symbol
    BY <2>1, Zenon DEF Calm
  <2>2. CASE Queue(d)' = <<>> /\ Queue(d) = <<>>
    <3>1. 1 .. Len(Queue(d)') = {}
      BY <2>2
    <3>2. QED
      BY <3>1, Zenon DEF Calm
  <2>3. QED
    BY <2>1, <2>2
<1>2. ASSUME NEW s \in FromBinance, NEW m \in Int, Fine(s, m)
      PROVE  Fine(s, m)'
  <2>1. CASE m < Listed \/ m \in Quiet \/ m \in Stamps(s, "1m") \/ <<s, m>> \in unfinished
    BY <2>1 DEF Fine, StampsKept
  <2>2. ASSUME NEW d \in Downloads, Wanted(d, s, m)
        PROVE  Fine(s, m)'
    <3>1. Queue(d) # <<>>
      BY <2>2 DEF Wanted
    <3>2. Queue(d)' = Queue(d) /\ download'[d].symbol = download[d].symbol
      BY <3>1
    <3>3. Wanted(d, s, m)'
      BY <2>2, <3>2, Zenon DEF Wanted
    <3>4. QED
      BY <3>3, Zenon DEF Fine
  <2>3. QED
    BY <1>2, <2>1, <2>2, Zenon DEF Fine
<1>3. \A s \in FromBinance : FineKept(s)
  BY <1>2, Zenon DEF FineKept
<1>4. unfinished \subseteq unfinished'
  OBVIOUS
<1>5. QED
  BY <1>1, <1>3, <1>4, CalmStep

Moves(d, new) ==
  /\ d \in Downloads /\ new \in DownloadType /\ Step(d, new)
  /\ now' = now /\ starts' \in Int /\ table' \in [Symbols -> SUBSET RowType]

LEMMA OneMoves ==
  ASSUME HistoryTyped, NEW d, NEW new, Moves(d, new)
  PROVE  /\ HistoryTyped' /\ download'[d] = new /\ now' \in Int /\ now <= now'
         /\ \A e \in Downloads : e # d => download'[e] = download[e]
BY DEF HistoryTyped, Moves, Step

LEMMA QuietMove ==
  ASSUME HistoryInv, NEW d, NEW new, Moves(d, new), StampsKept, HistoryTypeOK', unfinished' = unfinished,
         DownloadOK(d)',
         \/ new.ranges = download[d].ranges /\ new.symbol = download[d].symbol
         \/ Queue(d)' = <<>> /\ Queue(d) = <<>>
  PROVE  HistoryInv'
<1>1. HistoryTyped /\ d \in Downloads
  BY DEF HistoryInv, Moves
<1>2. /\ HistoryTyped' /\ download'[d] = new /\ now' \in Int /\ now <= now'
      /\ \A e \in Downloads : e # d => download'[e] = download[e]
  BY <1>1, OneMoves, Zenon
<1>3. \A s \in FromBinance : Stamps(s, "1m") \subseteq Stamps(s, "1m")'
  BY DEF StampsKept
<1>4. ASSUME NEW e \in Downloads PROVE DownloadOK(e)'
  <2>1. CASE e = d
    BY <2>1
  <2>2. CASE e # d
    <3>1. DownloadOK(e) /\ download'[e] = download[e]
      BY <1>2, <2>2 DEF HistoryInv
    <3>2. QED
      BY <1>1, <1>2, <1>3, <3>1, OthersOK
  <2>3. QED
    BY <2>1, <2>2
<1>5. ASSUME NEW e \in Downloads
      PROVE  \/ Queue(e)' = Queue(e) /\ download'[e].symbol = download[e].symbol
             \/ Queue(e)' = <<>> /\ Queue(e) = <<>>
  <2>1. CASE e # d
    BY <1>2, <2>1 DEF Queue
  <2>2. CASE e = d
    BY <1>2, <2>2 DEF Queue
  <2>3. QED
    BY <2>1, <2>2
<1>6. QED
  BY <1>2, <1>4, <1>5, QuietStep

\* Rows that stay, and those that a page is added to.
LEMMA RowsSame ==
  ASSUME HistoryInv, table' = table, now' \in Int, now <= now'
  PROVE  StampsKept /\ HistoryTypeOK'
<1>1. StampsKept
  BY DEF StampsKept, Stamps
<1>2. HistoryTyped /\ HistoryTypeOK /\ now \in Int
  BY DEF HistoryInv, HistoryTyped
<1>3. \A s \in Symbols : \A r \in table[s] : HasCandle(r.ts)'
  <2>1. \A s \in Symbols : \A r \in table[s] : r.ts \in Int /\ HasCandle(r.ts)
    BY <1>2 DEF HistoryTyped, RowType, HistoryTypeOK
  <2>2. QED
    BY <1>2, <2>1, HistoryAssumption DEF HasCandle
<1>4. HistoryTypeOK'
  BY <1>2, <1>3 DEF HistoryTypeOK, HasCandle
<1>5. QED
  BY <1>1, <1>4

LEMMA Inserted ==
  ASSUME HistoryTyped, HistoryTypeOK, NEW s \in Symbols, NEW page \in SUBSET RowType, Storable(page),
         InsertCandles(s, page), now' = now
  PROVE  /\ table' \in [Symbols -> SUBSET RowType] /\ HistoryTypeOK'
         /\ \A r \in Symbols \ {s} : table'[r] = table[r]
         /\ \A i : Stamps(s, i)' = Stamps(s, i) \cup {c.ts : c \in {c \in page : c.interval = i}}
<1> DEFINE new == {c \in page : \A r \in table[s] : r.interval # c.interval \/ r.ts # c.ts}
<1>1. table' = [table EXCEPT ![s] = @ \cup new] /\ table \in [Symbols -> SUBSET RowType]
  BY DEF InsertCandles, HistoryTyped
<1>2. new \subseteq RowType
  OBVIOUS
<1> HIDE DEF new
<1>3. /\ table' \in [Symbols -> SUBSET RowType] /\ table'[s] = table[s] \cup new
      /\ \A r \in Symbols \ {s} : table'[r] = table[r]
  BY <1>1, <1>2
<1> USE DEF new
<1>4. \A c, b \in table[s] \cup new : c.interval = b.interval /\ c.ts = b.ts => c = b
  <2> SUFFICES ASSUME NEW c \in table[s] \cup new, NEW b \in table[s] \cup new,
                      c.interval = b.interval, c.ts = b.ts
               PROVE  c = b
    OBVIOUS
  <2>1. CASE c \in table[s] /\ b \in table[s]
    BY <2>1 DEF HistoryTypeOK
  <2>2. CASE c \in new /\ b \in new
    BY <2>2 DEF Storable
  <2>3. QED
    BY <2>1, <2>2
<1>5. \A r \in table[s] \cup new : HasCandle(r.ts)
  BY DEF HistoryTypeOK, Storable
<1>6. HistoryTypeOK'
  <2> HIDE DEF new
  <2> SUFFICES ASSUME NEW r \in Symbols
               PROVE  /\ \A c \in table'[r] : HasCandle(c.ts)'
                      /\ \A c, b \in table'[r] : c.interval = b.interval /\ c.ts = b.ts => c = b
    BY DEF HistoryTypeOK, HasCandle
  <2>1. \A m : HasCandle(m)' <=> HasCandle(m)
    BY DEF HasCandle
  <2>2. CASE r = s
    BY <1>3, <1>4, <1>5, <2>1, <2>2 DEF HasCandle
  <2>3. CASE r # s
    BY <1>3, <2>1, <2>3 DEF HistoryTypeOK, HasCandle
  <2>4. QED
    BY <2>2, <2>3
<1>7. ASSUME NEW i
      PROVE  Stamps(s, i)' = Stamps(s, i) \cup {c.ts : c \in {c \in page : c.interval = i}}
  <2>1. Stamps(s, i)' = {r.ts : r \in {r \in table[s] \cup new : r.interval = i}}
    BY <1>3 DEF Stamps
  <2>2. \A t \in Stamps(s, i)' : t \in Stamps(s, i) \cup {c.ts : c \in {c \in page : c.interval = i}}
    BY <2>1 DEF Stamps
  <2>3. \A t \in Stamps(s, i) : t \in Stamps(s, i)'
    BY <2>1 DEF Stamps
  <2>4. ASSUME NEW c \in page, c.interval = i PROVE c.ts \in Stamps(s, i)'
    <3>1. CASE c \in new
      BY <2>1, <2>4, <3>1
    <3>2. CASE c \notin new
      <4>1. PICK r \in table[s] : r.interval = c.interval /\ r.ts = c.ts
        BY <3>2
      <4>2. QED
        BY <2>1, <2>4, <4>1
    <3>3. QED
      BY <3>1, <3>2
  <2>5. QED
    BY <2>2, <2>3, <2>4
<1>8. QED
  BY <1>3, <1>6, <1>7

LEMMA NoDownloadTyped ==
  /\ NoDownload \in DownloadType /\ NoDownload.at = "idle" /\ NoDownload.ranges = <<>>
  /\ NoDownload.page = {}
BY DEF NoDownload, DownloadType, None

\* The first steps, and those that end a download.
LEMMA TimeKeeps ==
  ASSUME HistoryInv, now' \in Int, now <= now',
         download' = download /\ table' = table /\ starts' = starts /\ unfinished' = unfinished
  PROVE  HistoryInv'
<1>1. HistoryTyped /\ now \in Int
  BY DEF HistoryInv, HistoryTyped
<1>2. HistoryTyped' /\ now <= now' /\ now' \in Int
  BY <1>1 DEF HistoryTyped
<1>3. download' = download /\ table' = table /\ unfinished' = unfinished
  OBVIOUS
<1>4. \A s \in FromBinance : Stamps(s, "1m") \subseteq Stamps(s, "1m")'
  BY <1>3 DEF Stamps
<1>5. \A d \in Downloads : DownloadOK(d)'
  <2> SUFFICES ASSUME NEW d \in Downloads PROVE DownloadOK(d)'
    OBVIOUS
  <2>1. DownloadOK(d) /\ download'[d] = download[d]
    BY <1>3 DEF HistoryInv
  <2>2. QED
    BY <1>1, <1>2, <1>4, <2>1, OthersOK
<1>6. \A d \in Downloads : Queue(d)' = Queue(d) /\ download'[d].symbol = download[d].symbol
  BY <1>3 DEF Queue
<1>7. QED
  BY <1>2, <1>3, <1>5, <1>6, RowsSame, QuietStep

LEMMA BegunOK ==
  ASSUME NEW s \in Symbols, NEW start \in Int, NEW end \in Int
  PROVE  /\ Begin(s, start, end) \in DownloadType /\ Begin(s, start, end).at = "begun"
         /\ Begin(s, start, end).ranges = <<>> /\ Begin(s, start, end).symbol = s
BY NoDownloadTyped DEF Begin, DownloadType

LEMMA EmptyOK ==
  ASSUME NEW d \in Downloads, download'[d].at \in {"idle", "begun"}, download'[d].ranges = <<>>,
         download'[d].at # "idle" => download'[d].symbol \in Symbols
  PROVE  DownloadOK(d)' /\ Queue(d)' = <<>>
<1>1. Queue(d)' = <<>>
  BY DEF Queue
<1>2. \A i \in 1 .. Len(Queue(d)') - 1 : Queue(d)'[i].to <= now'
  BY <1>1
<1>3. QED
  BY <1>1, <1>2 DEF DownloadOK

LEMMA DataFetchKeeps ==
  ASSUME HistoryInv, NEW d \in Downloads, NEW s \in Symbols, NEW start \in Int, NEW end \in Int,
         DataFetch(d, s, start, end)
  PROVE  HistoryInv'
<1>1. HistoryTyped /\ DownloadOK(d)
  BY DEF HistoryInv
<1>2. Moves(d, Begin(s, start, end))
  <2>1. Begin(s, start, end) \in DownloadType
    BY BegunOK
  <2>2. Step(d, Begin(s, start, end)) /\ now' = now /\ table' = table /\ starts' = starts + 1
    BY DEF DataFetch
  <2>3. QED
    BY <1>1, <2>1, <2>2 DEF Moves, HistoryTyped
<1>3. download'[d] = Begin(s, start, end)
  BY <1>1, <1>2, OneMoves
<1>4. DownloadOK(d)' /\ Queue(d)' = <<>>
  BY <1>3, BegunOK, EmptyOK
<1>5. Queue(d) = <<>>
  BY <1>1 DEF DataFetch, DownloadOK, Queue
<1>6. StampsKept /\ HistoryTypeOK' /\ unfinished' = unfinished
  BY <1>1, RowsSame DEF DataFetch, HistoryTyped
<1>7. QED
  BY <1>2, <1>4, <1>5, <1>6, QuietMove

LEMMA ParallelKeeps ==
  ASSUME HistoryInv, NEW symbols \in SUBSET Symbols, NEW start \in Int, NEW end \in Int,
         DownloadSymbolsParallel(symbols, start, end)
  PROVE  HistoryInv'
<1>1. HistoryTyped /\ now \in Int /\ \A d \in Downloads : DownloadOK(d)
  BY DEF HistoryInv, HistoryTyped
<1>2. now' = now /\ table' = table /\ unfinished' = unfinished /\ starts' = starts + 1
  BY DEF DownloadSymbolsParallel
<1> DEFINE last == IF end = None THEN Today ELSE end
<1>3. last \in Int
  BY <1>1, HistoryAssumption DEF Today
<1>4. PICK from \in [symbols -> 0 .. LastDay] :
        download' = [d \in Downloads |->
            IF \E s \in symbols : Setup[s] = d
            THEN LET s == CHOOSE s \in symbols : Setup[s] = d
                 IN  Begin(s, from[s], last)
            ELSE download[d]]
  BY Zenon DEF DownloadSymbolsParallel
<1> HIDE DEF last
<1>5. ASSUME NEW d \in Downloads
      PROVE  \/ download'[d] = download[d]
             \/ /\ download[d].at = "idle"
                /\ \E s \in Symbols, n \in Int : download'[d] = Begin(s, n, last)
  <2>1. CASE ~ \E s \in symbols : Setup[s] = d
    BY <1>4, <2>1, Zenon
  <2>2. CASE \E s \in symbols : Setup[s] = d
    <3>1. PICK s : s = CHOOSE r \in symbols : Setup[r] = d
      OBVIOUS
    <3>2. s \in symbols /\ Setup[s] = d
      BY <2>2, <3>1, Zenon
    <3>3. download'[d] = Begin(s, from[s], last)
      BY <1>4, <2>2, <3>1, Zenon
    <3>4. from[s] \in Int
      BY <3>2, HistoryAssumption
    <3>5. download[d].at = "idle"
      BY <3>2, Zenon DEF DownloadSymbolsParallel
    <3>6. QED
      BY <3>2, <3>3, <3>4, <3>5
  <2>3. QED
    BY <2>1, <2>2
<1>6. download' \in [Downloads -> DownloadType]
  <2>1. DOMAIN download' = Downloads /\ download' = [d \in Downloads |-> download'[d]]
    BY <1>4, Zenon
  <2>2. \A d \in Downloads : download'[d] \in DownloadType
    BY <1>1, <1>3, <1>5, BegunOK DEF HistoryTyped
  <2>3. QED
    BY <2>1, <2>2, Zenon
<1>7. HistoryTyped'
  BY <1>1, <1>2, <1>6 DEF HistoryTyped
<1>8. \A s \in FromBinance : Stamps(s, "1m") \subseteq Stamps(s, "1m")'
  BY <1>2 DEF Stamps
<1>9. ASSUME NEW d \in Downloads
      PROVE  /\ DownloadOK(d)'
             /\ \/ Queue(d)' = Queue(d) /\ download'[d].symbol = download[d].symbol
                \/ Queue(d)' = <<>> /\ Queue(d) = <<>>
  <2>1. CASE download'[d] = download[d]
    <3>1. DownloadOK(d)'
      BY <1>1, <1>2, <1>8, <2>1, OthersOK
    <3>2. QED
      BY <2>1, <3>1 DEF Queue
  <2>2. ASSUME NEW s \in Symbols, NEW n \in Int, download'[d] = Begin(s, n, last), download[d].at = "idle"
        PROVE  DownloadOK(d)' /\ Queue(d)' = <<>> /\ Queue(d) = <<>>
    <3>1. DownloadOK(d)' /\ Queue(d)' = <<>>
      <4>1. /\ Begin(s, n, last).at = "begun" /\ Begin(s, n, last).ranges = <<>>
            /\ Begin(s, n, last).symbol = s
        BY <1>3, BegunOK
      <4>2. download'[d].at = "begun" /\ download'[d].ranges = <<>> /\ download'[d].symbol = s
        BY <2>2, <4>1, Zenon
      <4>3. QED
        BY <4>2, EmptyOK
    <3>2. Queue(d) = <<>>
      BY <1>1, <2>2 DEF DownloadOK, Queue
    <3>3. QED
      BY <3>1, <3>2
  <2>3. QED
    BY <1>5, <2>1, <2>2, Zenon
<1>10. QED
  BY <1>1, <1>2, <1>7, <1>9, RowsSame, QuietStep

LEMMA ReadMinTsKeeps ==
  ASSUME HistoryInv, NEW d \in Downloads, ReadMinTs(d)
  PROVE  HistoryInv'
<1> DEFINE j == [download[d] EXCEPT !.at = "bounds", !.min = MinTs(download[d].symbol, "1m")]
<1>1. HistoryTyped /\ DownloadOK(d) /\ download[d].at = "begun" /\ Binance(d) /\ download[d] \in DownloadType
  BY DEF HistoryInv, HistoryTyped, ReadMinTs
<1>2. PICK s : s = download[d].symbol
  OBVIOUS
<1>3. s \in FromBinance /\ download[d].ranges = <<>>
  BY <1>1, <1>2 DEF DownloadOK, FromBinance, Binance
<1>4. MinTs(s, "1m") \in Int /\ (MinTs(s, "1m") # None => MinTs(s, "1m") \in Stamps(s, "1m"))
  <2>1. CASE Stamps(s, "1m") = {}
    BY <2>1 DEF MinTs, None
  <2>2. CASE Stamps(s, "1m") # {}
    BY <1>1, <1>3, <2>2, BoundsAre DEF HistoryInv, FromBinance
  <2>3. QED
    BY <2>1, <2>2
<1>5. j \in DownloadType /\ j.at = "bounds" /\ j.min = MinTs(s, "1m") /\ j.ranges = <<>> /\ j.symbol = s
  BY <1>1, <1>2, <1>3, <1>4 DEF DownloadType
<1>6. Step(d, j) /\ now' = now /\ table' = table /\ starts' = starts /\ unfinished' = unfinished
  BY DEF ReadMinTs
<1> HIDE DEF j
<1>7. Moves(d, j)
  BY <1>1, <1>5, <1>6 DEF Moves, HistoryTyped
<1>8. download'[d] = j
  BY <1>1, <1>7, OneMoves
<1>9. Stamps(s, "1m")' = Stamps(s, "1m")
  BY <1>6 DEF Stamps
<1>10. Queue(d)' = <<>> /\ Queue(d) = <<>>
  BY <1>3, <1>5, <1>8 DEF Queue
<1>11. \A i \in 1 .. Len(Queue(d)') - 1 : Queue(d)'[i].to <= now'
  BY <1>10
<1>12. DownloadOK(d)'
  BY <1>3, <1>4, <1>5, <1>8, <1>9, <1>10, <1>11 DEF DownloadOK, Binance, FromBinance, Stamps
<1>13. StampsKept /\ HistoryTypeOK'
  BY <1>1, <1>6, RowsSame DEF HistoryTyped
<1>14. QED
  BY <1>6, <1>7, <1>10, <1>12, <1>13, QuietMove

LEMMA IdleKeeps ==
  ASSUME HistoryInv, NEW d \in Downloads, Step(d, NoDownload), Queue(d) = <<>>,
         now' = now, starts' = starts, table' \in [Symbols -> SUBSET RowType], StampsKept,
         HistoryTypeOK', unfinished' = unfinished
  PROVE  HistoryInv'
<1>1. HistoryTyped
  BY DEF HistoryInv
<1>2. Moves(d, NoDownload)
  BY <1>1, NoDownloadTyped DEF Moves, HistoryTyped
<1>3. download'[d] = NoDownload
  BY <1>1, <1>2, OneMoves
<1>4. DownloadOK(d)' /\ Queue(d)' = <<>>
  BY <1>3, NoDownloadTyped, EmptyOK
<1>5. QED
  BY <1>2, <1>4, QuietMove

LEMMA FetchReturnsKeeps ==
  ASSUME HistoryInv, NEW d \in Downloads, FetchReturns(d)
  PROVE  HistoryInv'
<1>1. HistoryTyped
  BY DEF HistoryInv
<1>2. Queue(d) = <<>>
  BY DEF FetchReturns, Queue
<1>3. /\ Step(d, NoDownload) /\ now' = now /\ starts' = starts /\ table' = table
      /\ unfinished' = unfinished
  BY DEF FetchReturns
<1>4. table' \in [Symbols -> SUBSET RowType] /\ StampsKept /\ HistoryTypeOK'
  BY <1>1, <1>3, RowsSame DEF HistoryTyped
<1>5. QED
  BY <1>2, <1>3, <1>4, IdleKeeps

\* A download from Yahoo has no ranges that matter.
LEMMA YahooOK ==
  ASSUME NEW d \in Downloads, download'[d].symbol \in Symbols, SourceOf[download'[d].symbol] # "binance",
         download'[d].at \in {"fetch", "store"}, download'[d].at = "store" => Storable(download[d].page)'
  PROVE  DownloadOK(d)' /\ Queue(d)' = <<>>
<1>1. Queue(d)' = <<>>
  BY DEF Queue
<1>2. \A i \in 1 .. Len(Queue(d)') - 1 : Queue(d)'[i].to <= now'
  BY <1>1
<1>3. QED
  BY <1>1, <1>2 DEF DownloadOK, Binance

LEMMA YahooResumeKeeps ==
  ASSUME HistoryInv, NEW d \in Downloads, YahooResume(d)
  PROVE  HistoryInv'
<1>1. HistoryTyped /\ DownloadOK(d) /\ download[d].at = "begun" /\ ~Binance(d) /\ download[d] \in DownloadType
  BY DEF HistoryInv, HistoryTyped, YahooResume
<1>2. Queue(d) = <<>> /\ download[d].symbol \in Symbols
  BY <1>1 DEF DownloadOK, Queue
<1>3. table' = table /\ now' = now /\ starts' = starts /\ unfinished' = unfinished
  BY DEF YahooResume
<1>4. table' \in [Symbols -> SUBSET RowType] /\ StampsKept /\ HistoryTypeOK'
  BY <1>1, <1>3, RowsSame DEF HistoryTyped
<1> DEFINE interval == YahooInterval(download[d])
<1> DEFINE max == MaxTs(download[d].symbol, interval)
<1> DEFINE from == Max({StartOf(download[d].start), IF max = None THEN 0 ELSE max + Length(interval)})
<1> DEFINE to == EndOf(download[d].end)
<1> DEFINE j == [download[d] EXCEPT !.at = "fetch", !.interval = interval,
                   !.ranges = <<[from |-> from, to |-> to]>>]
<1>5. Step(d, NoDownload) \/ Step(d, j)
  BY Zenon DEF YahooResume
<1>6. ASSUME Step(d, j) PROVE HistoryInv'
  <2>1. interval \in {"1m", "1d"}
    BY DEF YahooInterval
  <2> HIDE DEF interval
  <2>2. max \in Int
    <3>1. CASE Stamps(download[d].symbol, interval) = {}
      BY <3>1 DEF MaxTs, None
    <3>2. CASE Stamps(download[d].symbol, interval) # {}
      BY <1>1, <1>2, <3>2, BoundsAre DEF HistoryInv
    <3>3. QED
      BY <3>1, <3>2
  <2> HIDE DEF max
  <2>3. download[d].start \in Int /\ download[d].end \in Int /\ DayLength \in Int /\ Length(interval) \in Int
    BY <1>1, HistoryAssumption DEF DownloadType, Length
  <2>4. StartOf(download[d].start) \in Int /\ to \in Int
    BY <2>3 DEF StartOf, EndOf
  <2>5. from \in Int
    <3>1. PICK a \in Int : a = StartOf(download[d].start)
      BY <2>4
    <3>2. PICK b \in Int : b = IF max = None THEN 0 ELSE max + Length(interval)
      BY <2>2, <2>3
    <3>3. from = Max({a, b})
      BY <3>1, <3>2
    <3>4. {a, b} \subseteq Int /\ {a, b} # {} /\ \E h \in Int : \A t \in {a, b} : t <= h
      OBVIOUS
    <3>5. Max({a, b}) \in {a, b}
      BY <3>4, MaxIs
    <3>6. QED
      BY <3>3, <3>5
  <2> HIDE DEF from, to
  <2>6. j \in DownloadType /\ j.at = "fetch" /\ j.symbol = download[d].symbol
    <3>1. <<[from |-> from, to |-> to]>> \in Seq(RangeType)
      BY <2>4, <2>5 DEF RangeType
    <3>2. QED
      BY <1>1, <2>1, <3>1 DEF DownloadType
  <2> HIDE DEF j
  <2>7. Moves(d, j)
    BY <1>1, <1>3, <1>4, <1>6, <2>6 DEF Moves, HistoryTyped
  <2>8. download'[d] = j
    BY <1>1, <2>7, OneMoves
  <2>9. DownloadOK(d)' /\ Queue(d)' = <<>>
    BY <1>1, <1>2, <2>6, <2>8, YahooOK DEF Binance
  <2>10. QED
    BY <1>2, <1>3, <1>4, <2>7, <2>9, QuietMove
<1>7. QED
  BY <1>2, <1>3, <1>4, <1>5, <1>6, IdleKeeps


LEMMA YahooFetchKeeps ==
  ASSUME HistoryInv, NEW d \in Downloads, YahooFetch(d)
  PROVE  HistoryInv'
<1>1. HistoryTyped /\ DownloadOK(d) /\ download[d].at = "fetch" /\ ~Binance(d) /\ download[d] \in DownloadType
  BY DEF HistoryInv, HistoryTyped, YahooFetch
<1>2. Queue(d) = <<>> /\ download[d].symbol \in Symbols
  BY <1>1 DEF DownloadOK, Queue, Binance
<1>3. table' = table /\ now' = now /\ starts' = starts /\ unfinished' = unfinished
  BY DEF YahooFetch
<1>4. table' \in [Symbols -> SUBSET RowType] /\ StampsKept /\ HistoryTypeOK'
  BY <1>1, <1>3, RowsSame DEF HistoryTyped
<1>5. PICK from, to, interval : /\ interval = download[d].interval
                               /\ Step(d, [download[d] EXCEPT !.at = "store", !.page = YahooPage(from, to, interval)])
  BY DEF YahooFetch
<1>0. PICK page : page = YahooPage(from, to, interval)
  OBVIOUS
<1> DEFINE j == [download[d] EXCEPT !.at = "store", !.page = page]
<1>6. page \in SUBSET RowType /\ Storable(page)
  <2>1. interval \in {"1m", "1d"}
    BY <1>1, <1>5 DEF DownloadType
  <2>2. \A c \in page : \E m \in Int : HasCandle(m) /\ c = Candle(m, interval, Length(interval))
    BY <1>0 DEF YahooPage
  <2>3. \A m \in Int : /\ Candle(m, interval, Length(interval)) \in RowType
                       /\ Candle(m, interval, Length(interval)).ts = m
    BY <2>1 DEF Candle, RowType
  <2>4. \A c \in page : HasCandle(c.ts) /\ c \in RowType /\ c = Candle(c.ts, interval, Length(interval))
    BY <2>2, <2>3
  <2>5. QED
    BY <2>4 DEF Storable
<1>7. j \in DownloadType /\ j.at = "store" /\ j.symbol = download[d].symbol /\ j.page = page
  BY <1>1, <1>6 DEF DownloadType
<1>8. Step(d, j)
  BY <1>0, <1>5
<1> HIDE DEF j
<1>9. Moves(d, j)
  BY <1>1, <1>3, <1>4, <1>7, <1>8 DEF Moves, HistoryTyped
<1>10. download'[d] = j
  BY <1>1, <1>9, OneMoves
<1>11. Storable(page)'
  BY <1>3, <1>6 DEF Storable, HasCandle
<1>12. Storable(download[d].page)'
  BY <1>7, <1>10, <1>11 DEF Storable, HasCandle
<1>13. DownloadOK(d)' /\ Queue(d)' = <<>>
  BY <1>1, <1>2, <1>7, <1>10, <1>12, YahooOK DEF Binance
<1>14. QED
  BY <1>2, <1>3, <1>4, <1>9, <1>13, QuietMove

LEMMA YahooStoreKeeps ==
  ASSUME HistoryInv, NEW d \in Downloads, YahooStore(d)
  PROVE  HistoryInv'
<1>1. HistoryTyped /\ HistoryTypeOK /\ DownloadOK(d) /\ ~Binance(d) /\ download[d] \in DownloadType
  BY DEF HistoryInv, HistoryTyped, YahooStore
<1>2. PICK s : s = download[d].symbol
  OBVIOUS
<1>3. Queue(d) = <<>> /\ s \in Symbols /\ SourceOf[s] # "binance" /\ Storable(download[d].page)
  BY <1>1, <1>2 DEF DownloadOK, Queue, Binance, YahooStore
<1>4. Step(d, NoDownload) /\ now' = now /\ starts' = starts /\ unfinished' = unfinished
  BY DEF YahooStore
<1>5. InsertCandles(s, download[d].page) /\ download[d].page \in SUBSET RowType
  BY <1>1, <1>2 DEF YahooStore, DownloadType
<1>6. /\ table' \in [Symbols -> SUBSET RowType] /\ HistoryTypeOK'
      /\ \A r \in Symbols \ {s} : table'[r] = table[r]
  BY <1>1, <1>3, <1>4, <1>5, Inserted
<1>7. StampsKept
  BY <1>3, <1>6 DEF StampsKept, Stamps, FromBinance
<1>8. QED
  BY <1>3, <1>4, <1>6, <1>7, IdleKeeps

-----------------------------------------------------------------------------
\* What a step of one download does not change of the others.
StampsGrow == \A s \in FromBinance : Stamps(s, "1m") \subseteq Stamps(s, "1m")'

LEMMA MovesOthers ==
  ASSUME HistoryInv, NEW d, NEW new, Moves(d, new), StampsGrow
  PROVE  \A e \in Downloads : e # d =>
           DownloadOK(e)' /\ Queue(e)' = Queue(e) /\ download'[e] = download[e]
<1> SUFFICES ASSUME NEW e \in Downloads, e # d
             PROVE  DownloadOK(e)' /\ Queue(e)' = Queue(e) /\ download'[e] = download[e]
  OBVIOUS
<1>1. HistoryTyped /\ DownloadOK(e)
  BY DEF HistoryInv
<1>2. download'[e] = download[e] /\ now' \in Int /\ now <= now'
  BY <1>1, OneMoves
<1>3. DownloadOK(e)'
  BY <1>1, <1>2, OthersOK DEF StampsGrow
<1>4. QED
  BY <1>2, <1>3 DEF Queue

LEMMA FineOthers ==
  ASSUME HistoryInv, NEW d, NEW new, Moves(d, new), StampsGrow, unfinished \subseteq unfinished',
         NEW s \in FromBinance, NEW m \in Int, Fine(s, m), ~Wanted(d, s, m)
  PROVE  Fine(s, m)'
<1>1. CASE m < Listed \/ m \in Quiet \/ m \in Stamps(s, "1m") \/ <<s, m>> \in unfinished
  BY <1>1 DEF Fine, StampsGrow
<1>2. ASSUME NEW e \in Downloads, Wanted(e, s, m)
      PROVE  Fine(s, m)'
  <2>1. e # d
    BY <1>2
  <2>2. Queue(e)' = Queue(e) /\ download'[e] = download[e]
    BY <2>1, MovesOthers
  <2>3. Wanted(e, s, m)'
    BY <1>2, <2>2, Zenon DEF Wanted
  <2>4. QED
    BY <2>3, Zenon DEF Fine
<1>3. QED
  BY <1>1, <1>2, Zenon DEF Fine

\* The candles and the ranges that a download has after a step.
LEMMA BridgedNow ==
  ASSUME NEW d \in Downloads, NEW p, NEW s, NEW T,
         Queue(d)' = p, download'[d].symbol = s, Stamps(s, "1m")' = T,
         \A i \in 1 .. Len(p), t \in T, m \in Int : Beside(p[i], t, m) => Fine(s, m)'
  PROVE  Bridged(d)'
<1> SUFFICES ASSUME NEW i \in 1 .. Len(Queue(d)'),
                    NEW t \in Stamps(download[d].symbol, "1m")', NEW m \in Int,
                    Beside(Queue(d)'[i], t, m)
             PROVE  Fine(download[d].symbol, m)'
  BY DEF Bridged, Beside
<1>1. Stamps(download[d].symbol, "1m")' = Stamps(s, "1m")'
  BY DEF Stamps
<1>2. Fine(s, m)'
  BY <1>1
<1>3. QED
  BY <1>2 DEF Fine, Wanted, Stamps

\* A page arrives.
LEMMA FetchKeeps ==
  ASSUME HistoryInv, NEW d \in Downloads, Fetch(d)
  PROVE  HistoryInv'
<1>1. HistoryTyped /\ DownloadOK(d) /\ download[d].at = "fetch" /\ Binance(d) /\ download[d] \in DownloadType
      /\ download[d].ranges # <<>> /\ now \in Int
  BY DEF HistoryInv, HistoryTyped, Fetch
<1>2. PICK r, q, s : r = Head(download[d].ranges) /\ q = download[d].ranges /\ s = download[d].symbol
  OBVIOUS
<1>3. q \in Seq(RangeType) /\ q # <<>> /\ r = q[1] /\ Len(q) \in Nat /\ Len(q) >= 1 /\ r \in RangeType
  BY <1>1, <1>2 DEF DownloadType
<1>4. s \in FromBinance /\ Queue(d) = q
  BY <1>1, <1>2 DEF DownloadOK, FromBinance, Binance, Queue
<1>5. r.from \in Int /\ r.to \in Int /\ r = [from |-> r.from, to |-> r.to]
  BY <1>3 DEF RangeType
<1>6. PICK page : page = FetchPage(r.from, r.to)
  OBVIOUS
<1>7. /\ page \in SUBSET RowType /\ Storable(page)
      /\ page = {} => \A m \in r.from .. r.to : ~HasCandle(m)
      /\ page # {} => PageOK(page, r)
  BY <1>1, <1>5, <1>6, PagesAre
<1>8. now' = now /\ table' = table /\ starts' = starts
  BY DEF Fetch
<1>9. table' \in [Symbols -> SUBSET RowType] /\ StampsKept /\ HistoryTypeOK' /\ StampsGrow
  BY <1>1, <1>8, RowsSame DEF HistoryTyped, StampsKept, StampsGrow
<1>10. ASSUME page # {} PROVE HistoryInv'
  <2> DEFINE j == [download[d] EXCEPT !.at = "store", !.page = page]
  <2>1. Step(d, j) /\ unfinished' = unfinished
    BY <1>2, <1>6, <1>10 DEF Fetch
  <2>2. j \in DownloadType /\ j.at = "store" /\ j.symbol = s /\ j.page = page /\ j.ranges = q
    BY <1>1, <1>2, <1>7 DEF DownloadType
  <2> HIDE DEF j
  <2>3. Moves(d, j)
    BY <1>1, <1>8, <1>9, <2>1, <2>2 DEF Moves, HistoryTyped
  <2>4. download'[d] = j
    BY <1>1, <2>3, OneMoves
  <2>5. Storable(page)' /\ PageOK(page, r)'
    BY <1>7, <1>8, <1>10 DEF Storable, PageOK, HasCandle
  <2>6. Queue(d)' = q
    BY <1>4, <2>2, <2>4 DEF Queue, FromBinance
  <2>7. Stamps(s, "1m")' = Stamps(s, "1m")
    BY <1>4, <1>9 DEF StampsKept
  <2>8. \A i \in 1 .. Len(Queue(d)') - 1 : Queue(d)'[i].to <= now'
    BY <1>1, <1>4, <1>8, <2>6 DEF DownloadOK
  <2>9. Queue(d)' # <<>> /\ Stamps(download[d].symbol, "1m")' = {} => Len(Queue(d)') = 1
    BY <1>1, <1>2, <1>4, <2>2, <2>4, <2>6, <2>7 DEF DownloadOK, Stamps
  <2>10. /\ download'[d].ranges # <<>> /\ PageOK(download[d].page, Head(download[d].ranges))'
         /\ Storable(download[d].page)' /\ download'[d].symbol \in Symbols
    BY <1>2, <1>3, <1>4, <2>2, <2>4, <2>5 DEF PageOK, Storable, HasCandle, FromBinance
  <2>11. DownloadOK(d)'
    BY <2>2, <2>4, <2>8, <2>9, <2>10 DEF DownloadOK
  <2>12. QED
    BY <1>2, <1>9, <2>1, <2>2, <2>3, <2>11, QuietMove
<1>11. ASSUME page = {} PROVE HistoryInv'
  <2> DEFINE j == [download[d] EXCEPT !.ranges = Tail(@)]
  <2>1. Step(d, j) /\ unfinished' = unfinished \cup ToCome(d, r)
    BY <1>2, <1>6, <1>11 DEF Fetch
  <2>2. PICK p : p = Tail(q)
    OBVIOUS
  <2>3. /\ p \in Seq(RangeType) /\ Len(p) = Len(q) - 1 /\ \A i \in 1 .. Len(p) : i + 1 \in 1 .. Len(q) /\ p[i] = q[i + 1]
        /\ \A i \in 2 .. Len(q) : i - 1 \in 1 .. Len(p) /\ p[i - 1] = q[i]
    BY <1>3, <2>2
  <2>4. j \in DownloadType /\ j.at = "fetch" /\ j.symbol = s /\ j.ranges = p
    BY <1>1, <1>2, <2>2, <2>3 DEF DownloadType
  <2> HIDE DEF j
  <2>5. Moves(d, j)
    BY <1>1, <1>8, <1>9, <2>1, <2>4 DEF Moves, HistoryTyped
  <2>6. download'[d] = j /\ HistoryTyped'
    BY <1>1, <2>5, OneMoves
  <2>7. Queue(d)' = p /\ download'[d].symbol = s
    BY <1>4, <2>4, <2>6 DEF Queue, FromBinance
  <2>8. unfinished \subseteq unfinished'
    BY <2>1
  <2>9. \A i \in 1 .. Len(q) - 1 : q[i].to <= now
    BY <1>1, <1>4 DEF DownloadOK
  <2>10. \A i \in 1 .. Len(Queue(d)') - 1 : Queue(d)'[i].to <= now'
    <3>1. ASSUME NEW i \in 1 .. Len(p) - 1 PROVE p[i].to <= now
      <4>1. Len(q) \in Nat /\ Len(p) \in Nat /\ Len(p) = Len(q) - 1
        BY <1>3, <2>3
      <4>2. i \in 1 .. Len(p) /\ i + 1 \in 1 .. Len(q) - 1
        BY <4>1, <3>1
      <4>3. p[i] = q[i + 1]
        BY <2>3, <4>2
      <4>4. QED
        BY <2>9, <4>2, <4>3
    <3>2. QED
      BY <1>8, <2>7, <3>1
  <2>11. Queue(d)' # <<>> /\ Stamps(download[d].symbol, "1m")' = {} => Len(Queue(d)') = 1
    <3>1. Stamps(s, "1m") = {} => Len(q) = 1
      BY <1>1, <1>2, <1>3, <1>4 DEF DownloadOK
    <3>2. Len(q) = 1 => p = <<>>
      BY <1>3, <2>3
    <3>3. Stamps(download[d].symbol, "1m")' = Stamps(s, "1m")
      BY <1>4, <1>9, <2>7 DEF StampsKept, Stamps
    <3>4. QED
      BY <2>7, <3>1, <3>2, <3>3
  <2>12. DownloadOK(d)'
    BY <1>4, <2>4, <2>6, <2>7, <2>10, <2>11 DEF DownloadOK, FromBinance
  <2>13. \A e \in Downloads : DownloadOK(e)'
    BY <1>9, <2>5, <2>12, MovesOthers, Zenon
  <2>14. \A e \in Downloads : Calm(e)
    <3> SUFFICES ASSUME NEW e \in Downloads PROVE Calm(e)
      OBVIOUS
    <3>1. CASE e = d
      <4>1. \A i \in 1 .. Len(p) : \E k \in 1 .. Len(q) : p[i] = q[k]
        BY <2>3
      <4>2. Queue(d) = q /\ download'[d].symbol = download[d].symbol
        BY <1>2, <1>4, <2>7
      <4>3. Calm(d)
        BY <2>7, <4>1, <4>2, Zenon DEF Calm
      <4>4. QED
        BY <3>1, <4>3
    <3>2. CASE e # d
      <4>1. Queue(e)' = Queue(e) /\ download'[e] = download[e]
        BY <1>9, <2>5, <3>2, MovesOthers
      <4>2. QED
        BY <4>1, Zenon DEF Calm
    <3>3. QED
      BY <3>1, <3>2
  <2>15. ASSUME NEW x \in FromBinance, NEW m \in Int, Fine(x, m)
         PROVE  Fine(x, m)' \/ Later(x, m)
    <3>1. CASE ~Wanted(d, x, m)
      BY <1>9, <2>5, <2>8, <2>15, <3>1, FineOthers, Zenon
    <3>2. CASE Wanted(d, x, m)
      <4>1. x = s
        BY <1>2, <3>2 DEF Wanted
      <4>2. PICK i \in 1 .. Len(q) : q[i].from <= m /\ m <= q[i].to
        BY <1>4, <3>2 DEF Wanted
      <4>3. CASE i # 1
        <5>1. i - 1 \in 1 .. Len(p) /\ p[i - 1].from <= m /\ m <= p[i - 1].to
          BY <1>3, <2>3, <4>2, <4>3
        <5>2. Wanted(d, x, m)'
          BY <2>7, <4>1, <5>1, Zenon DEF Wanted
        <5>3. QED
          BY <5>2 DEF Fine
      <4>4. CASE i = 1
        <5>1. r.from <= m /\ m <= r.to
          BY <1>3, <4>2, <4>4
        <5>2. CASE m <= now
          <6>1. ~HasCandle(m)
            BY <1>5, <1>7, <1>11, <5>1
          <6>2. m < Listed \/ m \in Quiet
            BY <5>2, <6>1, HistoryAssumption DEF HasCandle
          <6>3. QED
            BY <6>2 DEF Fine
        <5>3. CASE m > now
          <6>1. Len(q) = 1
            <7>1. Len(q) >= 2 => q[1].to <= now
              BY <1>3, <2>9
            <7>2. q[1].to = r.to /\ ~(r.to <= now)
              BY <1>1, <1>3, <1>5, <5>1, <5>3
            <7>3. ~(Len(q) >= 2)
              BY <7>1, <7>2, Zenon
            <7>4. \A n \in Nat : n >= 1 /\ ~(n >= 2) => n = 1
              OBVIOUS
            <7>5. QED
              BY <1>3, <7>3, <7>4, Zenon
          <6>2. Len(Queue(d)') = 0
            BY <2>3, <2>7, <6>1
          <6>3. CASE Overlapped(d)
            <7>1. \E k \in r.from .. r.to : <<s, m>> = <<s, k>>
              BY <1>5, <5>1
            <7>2. <<s, m>> \in MinutesOf(s, {r})
              BY <7>1, Zenon DEF MinutesOf
            <7>3. <<s, m>> \in ToCome(d, r)
              BY <1>2, <5>3, <6>3, <7>2 DEF ToCome
            <7>4. QED
              BY <2>1, <4>1, <7>3 DEF Fine
          <6>4. CASE ~Overlapped(d)
            <7>1. ASSUME NEW e \in Downloads, download'[e].symbol = s
                  PROVE  Len(Queue(e)') = 0
              <8>1. CASE e = d
                BY <6>2, <8>1
              <8>2. CASE e # d
                <9>1. Queue(e)' = Queue(e) /\ download'[e] = download[e] /\ DownloadOK(e)
                  BY <1>9, <2>5, <8>2, MovesOthers DEF HistoryInv
                <9>2. download[e].at = "idle"
                  BY <1>2, <6>4, <7>1, <8>2, <9>1 DEF Overlapped
                <9>3. Queue(e) = <<>>
                  BY <9>1, <9>2 DEF DownloadOK, Queue
                <9>4. QED
                  BY <9>1, <9>3
              <8>3. QED
                BY <8>1, <8>2
            <7>2. QED
              BY <4>1, <5>3, <7>1 DEF Later
          <6>5. QED
            BY <6>3, <6>4
        <5>4. QED
          BY <1>1, <5>2, <5>3
      <4>5. QED
        BY <4>3, <4>4
    <3>3. QED
      BY <3>1, <3>2
  <2>16. \A x \in FromBinance : FineKept(x)
    BY <2>15, Zenon DEF FineKept
  <2>17. now <= now'
    BY <1>1, <1>8
  <2>18. QED
    BY <1>9, <2>6, <2>8, <2>13, <2>14, <2>16, <2>17, CalmStep
<1>12. QED
  BY <1>10, <1>11

\* A download fails.
LEMMA FailsKeeps ==
  ASSUME HistoryInv, NEW d \in Downloads, Fails(d)
  PROVE  HistoryInv'
<1>1. HistoryTyped /\ now \in Int
  BY DEF HistoryInv, HistoryTyped
<1>2. /\ Step(d, NoDownload) /\ now' = now /\ starts' = starts /\ table' = table
      /\ unfinished' = unfinished \cup Rest(d)
  BY DEF Fails
<1>3. table' \in [Symbols -> SUBSET RowType] /\ StampsKept /\ HistoryTypeOK' /\ StampsGrow
  BY <1>1, <1>2, RowsSame DEF HistoryTyped, StampsKept, StampsGrow
<1>4. Moves(d, NoDownload)
  BY <1>1, <1>2, <1>3, NoDownloadTyped DEF Moves, HistoryTyped
<1>5. download'[d] = NoDownload /\ HistoryTyped' /\ now <= now'
  BY <1>1, <1>4, OneMoves
<1>6. DownloadOK(d)' /\ Queue(d)' = <<>>
  BY <1>5, NoDownloadTyped, EmptyOK
<1>7. \A e \in Downloads : DownloadOK(e)'
  BY <1>3, <1>4, <1>6, MovesOthers, Zenon
<1>8. unfinished \subseteq unfinished'
  BY <1>2
<1>9. \A e \in Downloads : Calm(e)
  <2> SUFFICES ASSUME NEW e \in Downloads PROVE Calm(e)
    OBVIOUS
  <2>1. CASE e = d
    <3>1. 1 .. Len(Queue(e)') = {}
      BY <1>6, <2>1
    <3>2. QED
      BY <3>1, Zenon DEF Calm
  <2>2. CASE e # d
    <3>1. Queue(e)' = Queue(e) /\ download'[e] = download[e]
      BY <1>3, <1>4, <2>2, MovesOthers
    <3>2. QED
      BY <3>1, Zenon DEF Calm
  <2>3. QED
    BY <2>1, <2>2
<1>10. ASSUME NEW s \in FromBinance, NEW m \in Int, Fine(s, m)
       PROVE  Fine(s, m)'
  <2>1. CASE ~Wanted(d, s, m)
    BY <1>3, <1>4, <1>8, <1>10, <2>1, FineOthers, Zenon
  <2>2. CASE Wanted(d, s, m)
    <3>1. <<s, m>> \in Rest(d)
      BY <1>1, <2>2, RestIs
    <3>2. QED
      BY <1>2, <3>1 DEF Fine
  <2>3. QED
    BY <2>1, <2>2
<1>11. \A s \in FromBinance : FineKept(s)
  BY <1>10, Zenon DEF FineKept
<1>12. QED
  BY <1>3, <1>5, <1>7, <1>8, <1>9, <1>11, CalmStep

-----------------------------------------------------------------------------
LEMMA Concats ==
  ASSUME NEW S, NEW a \in S, NEW b \in S
  PROVE  <<>> \o <<b>> = <<b>> /\ <<a>> \o <<b>> = <<a, b>> /\ <<b>> \in Seq(S) /\ <<a, b>> \in Seq(S)
<1>1. <<a>> \in Seq(S) /\ <<b>> \in Seq(S) /\ <<a, b>> \in Seq(S)
  OBVIOUS
<1>2. <<>> \o <<b>> = <<b>>
  OBVIOUS
<1>3. Append(<<a>>, b) = <<a>> \o <<b>>
  BY <1>1, AppendIsConcat
<1>4. Append(<<a>>, b) = <<a, b>>
  <2>1. PICK p, q : p = Append(<<a>>, b) /\ q = <<a, b>>
    OBVIOUS
  <2>2. p \in Seq(S) /\ Len(p) = 2 /\ p[1] = a /\ p[2] = b
    BY <2>1
  <2>3. q \in Seq(S) /\ Len(q) = 2 /\ q[1] = a /\ q[2] = b
    BY <2>1
  <2>4. \A i \in 1 .. Len(p) : p[i] = q[i]
    BY <2>2, <2>3
  <2>5. p = q
    BY <2>2, <2>3, <2>4, SeqEqual
  <2>6. QED
    BY <2>1, <2>5
<1>5. QED
  BY <1>1, <1>2, <1>3, <1>4

LEMMA OneOfTwo ==
  ASSUME NEW a, NEW b, NEW q, q = <<a, b>>, NEW i \in 1 .. Len(q)
  PROVE  q[i] = a \/ q[i] = b
OBVIOUS

LEMMA OnlyOne ==
  ASSUME NEW b, NEW q, q = <<b>>, NEW i \in 1 .. Len(q)
  PROVE  q[i] = b
OBVIOUS

\* The ranges are asked for: no minute between two candles is left out.
LEMMA ReadMaxTsKeeps ==
  ASSUME HistoryInv, NEW d \in Downloads, ReadMaxTs(d)
  PROVE  HistoryInv'
<1>1. HistoryTyped /\ HistoryTypeOK /\ DownloadOK(d) /\ download[d].at = "bounds" /\ Binance(d)
      /\ download[d] \in DownloadType /\ now \in Int /\ Bridged(d)
  BY DEF HistoryInv, HistoryTyped, ReadMaxTs, DownloadOK
<1>2. PICK s, min, max, start, end :
        /\ s = download[d].symbol /\ min = download[d].min /\ max = MaxTs(s, "1m")
        /\ start = StartOf(download[d].start) /\ end = EndOf(download[d].end)
  OBVIOUS
<1>3. s \in FromBinance /\ s \in Symbols /\ download[d].ranges = <<>> /\ Queue(d) = <<>>
  BY <1>1, <1>2 DEF DownloadOK, FromBinance, Binance, Queue
<1>4. PICK T : T = Stamps(s, "1m")
  OBVIOUS
<1>5. T \subseteq Int /\ \A t \in T : Listed <= t /\ t <= now
  BY <1>1, <1>3, <1>4, Stored
<1>6. /\ max # None <=> T # {}
      /\ max \in Int
      /\ T # {} => max \in T /\ \A t \in T : t <= max
  <2>1. CASE T = {}
    BY <1>2, <1>4, <2>1 DEF MaxTs, None
  <2>2. CASE T # {}
    <3>1. max \in T /\ \A t \in T : t <= max
      BY <1>1, <1>2, <1>3, <1>4, <2>2, BoundsAre
    <3>2. QED
      BY <1>5, <2>2, <3>1, HistoryAssumption DEF None
  <2>3. QED
    BY <2>1, <2>2
<1>7. min \in Int /\ (min # None => min \in T)
  BY <1>1, <1>2, <1>4 DEF DownloadOK, DownloadType
<1>8. start \in Int /\ end \in Int
  <2>1. download[d].start \in Int /\ download[d].end \in Int /\ DayLength \in Int
    BY <1>1, HistoryAssumption DEF DownloadType
  <2>2. QED
    BY <1>2, <2>1 DEF StartOf, EndOf
<1>9. PICK q : q = Gaps(start, end, min, max)
  OBVIOUS
<1> DEFINE head == [from |-> start, to |-> min - 1]
<1> DEFINE tail == [from |-> IF max = None THEN start ELSE max + 1, to |-> end]
<1> DEFINE early == min # None /\ start < min
<1>10. head \in RangeType /\ tail \in RangeType
  BY <1>6, <1>7, <1>8 DEF RangeType
<1>11. q = (IF early THEN <<head>> ELSE <<>>) \o <<tail>>
  BY <1>9 DEF Gaps
<1>13. /\ early => q = <<head, tail>>
       /\ ~early => q = <<tail>>
       /\ q \in Seq(RangeType)
  <2> HIDE DEF head, tail, early
  <2>1. CASE early
    BY <1>10, <1>11, <2>1, Concats
  <2>2. CASE ~early
    BY <1>10, <1>11, <2>2, Concats
  <2>3. QED
    BY <2>1, <2>2
<1> DEFINE j == [download[d] EXCEPT !.at = "fetch", !.ranges = q]
<1>12. /\ Step(d, j) /\ now' = now /\ table' = table /\ starts' = starts
       /\ unfinished' = unfinished \cup IF max = None THEN Apart(d, q) ELSE {}
  BY <1>2, <1>9 DEF ReadMaxTs
<1>14. j \in DownloadType /\ j.at = "fetch" /\ j.symbol = s /\ j.ranges = q
  BY <1>1, <1>2, <1>13 DEF DownloadType
<1> HIDE DEF j
<1>15. table' \in [Symbols -> SUBSET RowType] /\ StampsKept /\ HistoryTypeOK' /\ StampsGrow
  BY <1>1, <1>12, RowsSame DEF HistoryTyped, StampsKept, StampsGrow
<1>16. Moves(d, j)
  BY <1>1, <1>12, <1>14, <1>15 DEF Moves, HistoryTyped
<1>17. download'[d] = j /\ HistoryTyped' /\ \A e \in Downloads : e # d => download'[e] = download[e]
  BY <1>1, <1>16, OneMoves
<1>18. Queue(d)' = q /\ download'[d].symbol = s
  BY <1>3, <1>14, <1>17 DEF Queue, FromBinance
<1>19. Stamps(s, "1m")' = T
  BY <1>3, <1>4, <1>15 DEF StampsKept
<1>20. unfinished \subseteq unfinished'
  BY <1>12
<1>22. \A x \in FromBinance, m \in Int : Fine(x, m) => Fine(x, m)'
  <2> SUFFICES ASSUME NEW x \in FromBinance, NEW m \in Int, Fine(x, m) PROVE Fine(x, m)'
    OBVIOUS
  <2>1. ~Wanted(d, x, m)
    <3>1. 1 .. Len(Queue(d)) = {}
      BY <1>3
    <3>2. QED
      BY <3>1, Zenon DEF Wanted
  <2>2. QED
    BY <1>15, <1>16, <1>20, <2>1, FineOthers
<1>23. \A x \in FromBinance : HoleFree(x)'
  <2> SUFFICES ASSUME NEW x \in FromBinance, NEW t \in Stamps(x, "1m"), NEW u \in Stamps(x, "1m"),
                      NEW m \in Int, t < m, m < u
               PROVE  Fine(x, m)'
    BY <1>15 DEF HoleFree, StampsKept
  <2>1. Fine(x, m)
    BY DEF HistoryInv, HoleFree
  <2>2. QED
    BY <1>22, <2>1
<1>24. \A t, u \in T, m \in Int : t <= m /\ m <= u => Fine(s, m)'
  <2> SUFFICES ASSUME NEW t \in T, NEW u \in T, NEW m \in Int, t <= m, m <= u
               PROVE  Fine(s, m)'
    OBVIOUS
  <2>1. CASE m \in T
    BY <1>19, <2>1 DEF Fine
  <2>2. CASE m \notin T
    <3>1. t < m /\ m < u
      BY <1>5, <2>2
    <3>2. Fine(s, m)'
      <4>1. HoleFree(s)'
        BY <1>3, <1>23
      <4>2. QED
        BY <1>19, <3>1, <4>1 DEF HoleFree
    <3>3. QED
      BY <3>2
  <2>3. QED
    BY <2>1, <2>2
<1>25. DownloadOK(d)'
  <2>1. \A i \in 1 .. Len(q) - 1 : q[i].to <= now
    <3>1. CASE early
      <4>1. q[1].to = min - 1 /\ Len(q) = 2
        BY <1>13, <3>1
      <4>2. min \in Int /\ min <= now
        BY <1>5, <1>7, <3>1
      <4>3. q[1].to <= now
        BY <1>1, <4>1, <4>2
      <4>4. QED
        BY <4>1, <4>3
    <3>2. CASE ~early
      <4>1. Len(q) = 1
        BY <1>13, <3>2
      <4>2. QED
        BY <4>1
    <3>3. QED
      BY <3>1, <3>2
  <2>2. T = {} => Len(q) = 1
    BY <1>7, <1>13
  <2>3. \A i \in 1 .. Len(Queue(d)') - 1 : Queue(d)'[i].to <= now'
    BY <1>12, <1>18, <2>1
  <2>4. Queue(d)' # <<>> /\ Stamps(download[d].symbol, "1m")' = {} => Len(Queue(d)') = 1
    BY <1>18, <1>19, <2>2 DEF Stamps
  <2>5. QED
    BY <1>3, <1>14, <1>17, <2>3, <2>4 DEF DownloadOK
<1>26. \A e \in Downloads : DownloadOK(e)'
  BY <1>15, <1>16, <1>25, MovesOthers, Zenon
<1>27. ASSUME NEW t \in T, NEW m \in Int, NEW i \in 1 .. Len(q), Beside(q[i], t, m)
       PROVE  Fine(s, m)'
  <2>1. max \in T /\ t <= max /\ max \in Int /\ t \in Int /\ max # None
    BY <1>5, <1>6
  <2>2. CASE q[i] = tail
    <3>1. q[i].from = max + 1 /\ q[i].to = end
      BY <2>1, <2>2
    <3>2. t <= m /\ m <= max
      BY <1>8, <1>27, <2>1, <3>1 DEF Beside
    <3>3. QED
      BY <1>24, <2>1, <3>2
  <2>3. CASE q[i] = head /\ early
    <3>1. q[i].from = start /\ q[i].to = min - 1 /\ min \in T /\ start < min
      BY <1>7, <2>3
    <3>2. (t < m /\ m < start) \/ (min - 1 < m /\ m < t)
      BY <1>27, <3>1 DEF Beside
    <3>4. min \in Int /\ start \in Int /\ t \in Int /\ m \in Int
      BY <1>7, <1>8, <2>1
    <3>5. (t <= m /\ m <= min) \/ (min <= m /\ m <= t)
      BY <3>1, <3>2, <3>4
    <3>6. QED
      BY <1>24, <3>1, <3>5
  <2>4. q[i] = tail \/ (q[i] = head /\ early)
    <3> HIDE DEF head, tail, early
    <3>1. CASE early
      BY <1>13, <3>1, OneOfTwo
    <3>2. CASE ~early
      BY <1>13, <3>2, OnlyOne
    <3>3. QED
      BY <3>1, <3>2
  <2>5. QED
    BY <2>2, <2>3, <2>4
<1>28. ASSUME NEW e \in Downloads
       PROVE  Bridged(e)'
  <2>1. CASE e = d
    BY <1>18, <1>19, <1>27, <2>1, BridgedNow
  <2>2. CASE e # d
    <3>1. Queue(e)' = Queue(e) /\ download'[e] = download[e] /\ DownloadOK(e) /\ Bridged(e)
      BY <1>15, <1>16, <2>2, MovesOthers DEF HistoryInv
    <3>2. PICK x : x = download[e].symbol
      OBVIOUS
    <3> SUFFICES ASSUME NEW i \in 1 .. Len(Queue(e)), NEW t \in Stamps(x, "1m")', NEW m \in Int,
                        Beside(Queue(e)[i], t, m)
                 PROVE  Fine(x, m)'
      BY <3>1, <3>2, BridgedNow
    <3>3. x \in FromBinance
      BY <1>1, <3>1, <3>2, QueueOwner
    <3>4. t \in Stamps(x, "1m")
      BY <1>15, <3>3 DEF StampsKept
    <3>5. Fine(x, m)
      BY <3>1, <3>2, <3>4 DEF Bridged
    <3>6. QED
      BY <1>22, <3>3, <3>5
  <2>3. QED
    BY <2>1, <2>2
<1>29. ASSUME NEW e \in Downloads, e # d, download[e].symbol = s, T = {},
              NEW i \in 1 .. Len(q), NEW k \in 1 .. Len(Queue(e)), NEW m \in Int,
              Amid(q[i], Queue(e)[k], m) \/ Amid(Queue(e)[k], q[i], m)
       PROVE  <<s, m>> \in unfinished'
  <2>1. Queue(e) = download[e].ranges /\ Queue(e) \in Seq(RangeType)
    BY <1>1, <1>29, QueueOwner DEF HistoryInv
  <2>2. PICK a, b : a = q[i] /\ b = Queue(e)[k]
    OBVIOUS
  <2>3. a \in RangeType /\ b \in RangeType /\ a \in Range(q) /\ b \in Range(download[e].ranges)
    BY <1>13, <2>1, <2>2 DEF Range
  <2>4. m \in (a.to + 1 .. b.from - 1) \cup (b.to + 1 .. a.from - 1)
    BY <1>29, <2>2, <2>3 DEF Amid, RangeType
  <2>5. <<s, m>> \in Between(s, a, b)
    BY <2>4, Zenon DEF Between
  <2>6. e \in {f \in Downloads \ {d} : download[f].symbol = download[d].symbol}
    BY <1>2, <1>29
  <2>7. <<s, m>> \in UNION {Between(download[d].symbol, r, p) : r \in Range(q), p \in Range(download[e].ranges)}
    BY <1>2, <2>3, <2>5
  <2>8. <<s, m>> \in Apart(d, q)
    <3>1. Apart(d, q) = UNION {UNION {Between(download[d].symbol, r, p) :
                                        r \in Range(q), p \in Range(download[g].ranges)} :
                                 g \in {f \in Downloads \ {d} : download[f].symbol = download[d].symbol}}
      BY DEF Apart
    <3>2. QED
      BY <2>6, <2>7, <3>1
  <2>9. QED
    BY <1>6, <1>12, <1>29, <2>8
<1>30. ASSUME NEW e \in Downloads, NEW f \in Downloads, e # f
       PROVE  NotBetween(e, f)'
  <2> SUFFICES ASSUME download'[e].symbol = download'[f].symbol, Stamps(download[e].symbol, "1m")' = {},
                      NEW i \in 1 .. Len(Queue(e)'), NEW k \in 1 .. Len(Queue(f)'), NEW m \in Int,
                      Amid(Queue(e)'[i], Queue(f)'[k], m)
               PROVE  <<download'[e].symbol, m>> \in unfinished'
    BY DEF NotBetween, Amid
  <2>1. \A g \in Downloads : g # d => Queue(g)' = Queue(g) /\ download'[g] = download[g]
    BY <1>15, <1>16, MovesOthers
  <2>2. CASE e = d
    <3>1. Queue(f)' = Queue(f) /\ download[f].symbol = s /\ f # d
      BY <1>18, <1>30, <2>1, <2>2
    <3>2. T = {}
      BY <1>18, <1>19, <2>2 DEF Stamps
    <3>3. Amid(q[i], Queue(f)[k], m) /\ i \in 1 .. Len(q) /\ k \in 1 .. Len(Queue(f))
      BY <1>18, <2>2, <3>1
    <3>4. QED
      BY <1>18, <1>29, <2>2, <3>1, <3>2, <3>3
  <2>3. CASE f = d
    <3>1. Queue(e)' = Queue(e) /\ download[e].symbol = s /\ e # d /\ download'[e].symbol = s
      BY <1>18, <1>30, <2>1, <2>3
    <3>2. T = {}
      BY <1>19, <3>1 DEF Stamps
    <3>3. Amid(Queue(e)[i], q[k], m) /\ k \in 1 .. Len(q) /\ i \in 1 .. Len(Queue(e))
      BY <1>18, <2>3, <3>1
    <3>4. QED
      BY <1>29, <3>1, <3>2, <3>3
  <2>4. CASE e # d /\ f # d
    <3>1. Queue(e)' = Queue(e) /\ download'[e] = download[e] /\ Queue(f)' = Queue(f) /\ download'[f] = download[f]
      BY <2>1, <2>4
    <3>2. PICK x : x = download[e].symbol
      OBVIOUS
    <3>3. x \in FromBinance
      BY <1>1, <3>1, <3>2, QueueOwner DEF HistoryInv
    <3>4. Stamps(x, "1m") = {}
      BY <1>15, <3>1, <3>2, <3>3 DEF StampsKept, Stamps
    <3>5. NotBetween(e, f)
      BY <1>30 DEF HistoryInv
    <3>6. <<x, m>> \in unfinished
      BY <3>1, <3>2, <3>4, <3>5 DEF NotBetween
    <3>7. QED
      BY <1>20, <3>1, <3>2, <3>6
  <2>5. QED
    BY <2>2, <2>3, <2>4
<1>31. QED
  BY <1>15, <1>17, <1>23, <1>26, <1>28, <1>30 DEF HistoryInv

\* A page is stored, and the cursor moves past it.
LEMMA StoreKeeps ==
  ASSUME HistoryInv, NEW d \in Downloads, Store(d)
  PROVE  HistoryInv'
<1>1. HistoryTyped /\ HistoryTypeOK /\ DownloadOK(d) /\ download[d].at = "store" /\ Binance(d)
      /\ download[d] \in DownloadType /\ now \in Int /\ Bridged(d)
  BY DEF HistoryInv, HistoryTyped, Store
<1>2. PICK s, q, r, page : /\ s = download[d].symbol /\ q = download[d].ranges /\ r = Head(q)
                           /\ page = download[d].page
  OBVIOUS
<1>3. s \in FromBinance /\ s \in Symbols /\ Queue(d) = q
  BY <1>1, <1>2 DEF DownloadOK, FromBinance, Binance, Queue
<1>4. /\ q \in Seq(RangeType) /\ Len(q) \in Nat /\ Len(q) >= 1 /\ 1 \in 1 .. Len(q) /\ r = q[1]
      /\ r \in RangeType /\ r.from \in Int /\ r.to \in Int
      /\ \A i \in 1 .. Len(q) : q[i] \in RangeType
  <2>1. q \in Seq(RangeType) /\ q # <<>>
    BY <1>1, <1>2 DEF DownloadType, DownloadOK
  <2>2. /\ Len(q) \in Nat /\ Len(q) >= 1 /\ r = q[1]
        /\ \A i \in 1 .. Len(q) : q[i] \in RangeType
    BY <1>2, <2>1
  <2>3. r \in RangeType
    BY <2>2
  <2>4. QED
    BY <2>1, <2>2, <2>3 DEF RangeType
<1>5. page \in SUBSET RowType /\ Storable(page) /\ PageOK(page, r)
  BY <1>1, <1>2 DEF DownloadOK, DownloadType
<1>6. PICK N : N = {c.ts : c \in page}
  OBVIOUS
<1>7. /\ N # {} /\ N \subseteq Int /\ \A t \in N : r.from <= t /\ t <= r.to
      /\ \A t \in N, m \in Int : r.from <= m /\ m <= t => m < Listed \/ m \in Quiet \/ m \in N
  BY <1>4, <1>5, <1>6 DEF PageOK, RowType
<1>8. PICK c \in N : /\ CursorAfter(page) = c + 2 /\ \A t \in N : t <= c
                    /\ PassedOver(d) = {<<s, m>> : m \in {c + 1} \cap (r.from .. r.to)}
  <2>1. CursorAfter(page) = Max(N) + 2
    BY <1>6, Zenon DEF CursorAfter
  <2>2. Max(N) \in N /\ \A t \in N : t <= Max(N)
    BY <1>4, <1>7, MaxIs
  <2>3. PassedOver(d) = {<<s, m>> : m \in {Max(N) + 1} \cap (r.from .. r.to)}
    BY <1>2, <1>6, Zenon DEF PassedOver
  <2>4. QED
    BY <1>7, <2>1, <2>2, <2>3
<1>9. c \in Int /\ r.from <= c /\ c <= r.to
  BY <1>7, <1>8
<1>10. PICK p : p = [q EXCEPT ![1].from = c + 2]
  OBVIOUS
<1>11. /\ p \in Seq(RangeType) /\ Len(p) = Len(q) /\ p[1].from = c + 2 /\ p[1].to = r.to
       /\ \A i \in 1 .. Len(q) : i # 1 => p[i] = q[i]
       /\ \A i \in 1 .. Len(q) : p[i].to = q[i].to
  <2>1. p = [q EXCEPT ![1] = [r EXCEPT !.from = c + 2]]
    BY <1>4, <1>10
  <2>2. PICK v : v = [r EXCEPT !.from = c + 2]
    OBVIOUS
  <2>3. v = [from |-> c + 2, to |-> r.to]
    BY <1>4, <2>2 DEF RangeType
  <2>4. v \in RangeType /\ v.from = c + 2 /\ v.to = r.to /\ p = [q EXCEPT ![1] = v]
    BY <1>4, <1>9, <2>1, <2>2, <2>3 DEF RangeType
  <2>5. QED
    BY <1>4, <2>4
<1> DEFINE j == [download[d] EXCEPT !.at = "fetch", !.page = {}, !.ranges = p]
<1>12. /\ Step(d, j) /\ now' = now /\ starts' = starts
       /\ unfinished' = unfinished \cup PassedOver(d)
       /\ InsertCandles(s, page)
  BY <1>2, <1>8, <1>10 DEF Store
<1>13. j \in DownloadType /\ j.at = "fetch" /\ j.symbol = s /\ j.ranges = p
  BY <1>1, <1>2, <1>11 DEF DownloadType
<1> HIDE DEF j
<1>14. PICK T : T = Stamps(s, "1m")
  OBVIOUS
<1>15. /\ table' \in [Symbols -> SUBSET RowType] /\ HistoryTypeOK'
       /\ \A x \in Symbols \ {s} : table'[x] = table[x]
       /\ Stamps(s, "1m")' = T \cup N
  <2>1. /\ table' \in [Symbols -> SUBSET RowType] /\ HistoryTypeOK'
        /\ \A x \in Symbols \ {s} : table'[x] = table[x]
        /\ Stamps(s, "1m")' = Stamps(s, "1m") \cup {b.ts : b \in {b \in page : b.interval = "1m"}}
    BY <1>1, <1>3, <1>5, <1>12, Inserted
  <2>2. {b \in page : b.interval = "1m"} = page
    BY <1>5 DEF PageOK
  <2>3. QED
    BY <1>6, <1>14, <2>1, <2>2
<1>16. \A x \in FromBinance : x # s => Stamps(x, "1m")' = Stamps(x, "1m")
  BY <1>15 DEF Stamps, FromBinance
<1>17. StampsGrow
  BY <1>14, <1>15, <1>16 DEF StampsGrow
<1>18. Moves(d, j)
  BY <1>1, <1>12, <1>13, <1>15 DEF Moves, HistoryTyped
<1>19. download'[d] = j /\ HistoryTyped'
  BY <1>1, <1>18, OneMoves
<1>20. \A e \in Downloads : e # d => DownloadOK(e)' /\ Queue(e)' = Queue(e) /\ download'[e] = download[e]
  BY <1>17, <1>18, MovesOthers
<1>21. Queue(d)' = p /\ download'[d].symbol = s
  BY <1>3, <1>13, <1>19 DEF Queue, FromBinance
<1>22. T \subseteq Int
  BY <1>1, <1>3, <1>14, Stored
<1>23. unfinished \subseteq unfinished'
  BY <1>12
<1>24. DownloadOK(d)'
  <2>1. \A i \in 1 .. Len(q) - 1 : q[i].to <= now
    BY <1>1, <1>3 DEF DownloadOK
  <2>2. \A i \in 1 .. Len(Queue(d)') - 1 : Queue(d)'[i].to <= now'
    <3>1. \A i \in 1 .. Len(p) - 1 : p[i].to <= now
      BY <1>4, <1>11, <2>1
    <3>2. QED
      BY <1>12, <1>21, <3>1
  <2>3. Stamps(download[d].symbol, "1m")' # {}
    BY <1>7, <1>15, <1>21 DEF Stamps
  <2>4. QED
    BY <1>3, <1>13, <1>19, <2>2, <2>3 DEF DownloadOK
<1>25. \A e \in Downloads : DownloadOK(e)'
  BY <1>20, <1>24, Zenon
<1>26. ASSUME NEW m \in Int, r.from <= m, m <= r.to
       PROVE  Fine(s, m)'
  <2>1. CASE m <= c
    <3>1. m < Listed \/ m \in Quiet \/ m \in N
      BY <1>7, <1>8, <1>26, <2>1
    <3>2. QED
      BY <1>15, <3>1 DEF Fine
  <2>2. CASE m > c + 1
    <3>1. p[1].from <= m /\ m <= p[1].to /\ 1 \in 1 .. Len(p)
      BY <1>4, <1>9, <1>11, <1>26, <2>2
    <3>2. Wanted(d, s, m)'
      BY <1>21, <3>1, Zenon DEF Wanted
    <3>3. QED
      BY <3>2, Zenon DEF Fine
  <2>3. CASE m = c + 1
    <3>1. m \in {c + 1} \cap (r.from .. r.to)
      BY <1>4, <1>26, <2>3
    <3>2. <<s, m>> \in PassedOver(d)
      BY <1>8, <3>1
    <3>3. <<s, m>> \in unfinished'
      BY <1>12, <3>2
    <3>4. QED
      BY <3>3, Zenon DEF Fine
  <2>4. QED
    BY <1>9, <2>1, <2>2, <2>3
<1>27. ASSUME NEW x \in FromBinance, NEW m \in Int, Fine(x, m)
       PROVE  Fine(x, m)'
  <2>1. CASE ~Wanted(d, x, m)
    BY <1>17, <1>18, <1>23, <1>27, <2>1, FineOthers
  <2>2. CASE Wanted(d, x, m)
    <3>1. x = s
      BY <1>2, <2>2 DEF Wanted
    <3>2. PICK i \in 1 .. Len(q) : q[i].from <= m /\ m <= q[i].to
      BY <1>3, <2>2 DEF Wanted
    <3>3. CASE i = 1
      BY <1>4, <1>26, <3>1, <3>2, <3>3
    <3>4. CASE i # 1
      <4>1. i \in 1 .. Len(p) /\ p[i].from <= m /\ m <= p[i].to
        BY <1>11, <3>2, <3>4
      <4>2. Wanted(d, x, m)'
        BY <1>21, <3>1, <4>1, Zenon DEF Wanted
      <4>3. QED
        BY <4>2, Zenon DEF Fine
    <3>5. QED
      BY <3>3, <3>4
  <2>3. QED
    BY <2>1, <2>2
<1>28. ASSUME NEW t \in T \cup N, NEW m \in Int, Beside(r, t, m)
       PROVE  Fine(s, m)'
  <2>1. CASE t \in N
    BY <1>4, <1>7, <1>28, <2>1 DEF Beside
  <2>2. CASE t \in T
    <3>1. Beside(Queue(d)[1], t, m) /\ 1 \in 1 .. Len(Queue(d)) /\ t \in Stamps(download[d].symbol, "1m")
      BY <1>2, <1>3, <1>4, <1>14, <1>28, <2>2
    <3>2. Fine(s, m)
      BY <1>1, <1>2, <3>1 DEF Bridged
    <3>3. QED
      BY <1>3, <1>27, <3>2
  <2>3. QED
    BY <2>1, <2>2
<1>29. ASSUME NEW a \in RangeType,
              \A t \in T, m \in Int : Beside(a, t, m) => Fine(s, m),
              T = {} => \A m \in Int : Amid(r, a, m) => Fine(s, m),
              NEW t \in T \cup N, NEW m \in Int, Beside(a, t, m)
       PROVE  Fine(s, m)'
  <2>1. a.from \in Int /\ a.to \in Int /\ t \in Int
    BY <1>7, <1>22 DEF RangeType
  <2>2. CASE t \in T
    BY <1>3, <1>27, <1>29, <2>2
  <2>3. ASSUME t \in N, ~(r.from <= m /\ m <= r.to)
        PROVE  Fine(s, m)'
    <3>1. r.from <= t /\ t <= r.to /\ r.from <= r.to
      BY <1>4, <1>7, <1>9, <2>1, <2>3
    <3>2. Amid(r, a, m) /\ a.from <= a.to
      BY <1>4, <1>29, <2>1, <2>3, <3>1 DEF Amid, Beside
    <3>3. CASE T = {}
      BY <1>3, <1>27, <1>29, <3>2, <3>3
    <3>4. ASSUME NEW o \in T PROVE Fine(s, m)'
      <4>1. o \in Int
        BY <1>22
      <4>2. o = m \/ Beside(a, o, m) \/ Beside(r, o, m)
        BY <1>4, <2>1, <3>1, <3>2, <4>1 DEF Amid, Beside
      <4>3. CASE o = m
        BY <1>15, <4>3 DEF Fine
      <4>4. CASE Beside(a, o, m)
        BY <1>3, <1>27, <1>29, <4>4
      <4>5. CASE Beside(r, o, m)
        BY <1>28, <4>5
      <4>6. QED
        BY <4>2, <4>3, <4>4, <4>5
    <3>5. QED
      BY <3>3, <3>4
  <2>4. QED
    BY <1>26, <2>2, <2>3
<1>30. HoleFree(s)'
  <2> SUFFICES ASSUME NEW t \in T \cup N, NEW u \in T \cup N, NEW m \in Int, t < m, m < u
               PROVE  Fine(s, m)'
    BY <1>15 DEF HoleFree
  <2>1. CASE t \in T /\ u \in T
    <3>1. HoleFree(s)
      BY <1>3 DEF HistoryInv
    <3>2. Fine(s, m)
      BY <1>14, <2>1, <3>1 DEF HoleFree
    <3>3. QED
      BY <1>3, <1>27, <3>2
  <2>2. CASE r.from <= m /\ m <= r.to
    BY <1>26, <2>2
  <2>3. ASSUME t \in N \/ u \in N, ~(r.from <= m /\ m <= r.to)
        PROVE  Fine(s, m)'
    <3>1. r.from <= r.to /\ t \in Int /\ u \in Int
      BY <1>4, <1>7, <1>9, <1>22
    <3>2. Beside(r, t, m) \/ Beside(r, u, m)
      BY <1>4, <1>7, <2>3, <3>1 DEF Beside
    <3>3. QED
      BY <1>28, <3>2
  <2>4. QED
    BY <2>1, <2>2, <2>3
<1>31. \A x \in FromBinance : HoleFree(x)'
  <2> SUFFICES ASSUME NEW x \in FromBinance, x # s PROVE HoleFree(x)'
    BY <1>30
  <2> SUFFICES ASSUME NEW t \in Stamps(x, "1m"), NEW u \in Stamps(x, "1m"), NEW m \in Int, t < m, m < u
               PROVE  Fine(x, m)'
    BY <1>16 DEF HoleFree
  <2>1. Fine(x, m)
    BY DEF HistoryInv, HoleFree
  <2>2. QED
    BY <1>27, <2>1
<1>32. Bridged(d)'
  <2> SUFFICES ASSUME NEW i \in 1 .. Len(p), NEW t \in T \cup N, NEW m \in Int, Beside(p[i], t, m)
               PROVE  Fine(s, m)'
    BY <1>3, <1>15, <1>21, BridgedNow
  <2>1. t \in Int
    BY <1>7, <1>22
  <2>2. CASE i = 1
    <3>1. p[i].from = c + 2 /\ p[i].to = r.to
      BY <1>11, <2>2
    <3>2. Beside(r, t, m) \/ (r.from <= m /\ m <= r.to)
      BY <1>4, <1>9, <2>1, <3>1 DEF Beside
    <3>3. QED
      BY <1>26, <1>28, <3>2
  <2>3. CASE i # 1
    <3>1. p[i] = q[i] /\ i \in 1 .. Len(q) /\ q[i] \in RangeType
      BY <1>4, <1>11, <2>3
    <3>2. \A o \in T, n \in Int : Beside(q[i], o, n) => Fine(s, n)
      BY <1>1, <1>2, <1>3, <1>14, <3>1 DEF Bridged
    <3>3. T # {}
      <4>1. Len(q) # 1 /\ Queue(d) # <<>>
        BY <1>3, <1>4, <2>3, <3>1
      <4>2. QED
        BY <1>1, <1>2, <1>3, <1>14, <4>1 DEF DownloadOK
    <3>4. QED
      BY <1>29, <3>1, <3>2, <3>3
  <2>4. QED
    BY <2>2, <2>3
<1>33. ASSUME NEW e \in Downloads, e # d
       PROVE  Bridged(e)'
  <2>1. Queue(e)' = Queue(e) /\ download'[e] = download[e] /\ DownloadOK(e) /\ Bridged(e)
    BY <1>20, <1>33 DEF HistoryInv
  <2>2. PICK x : x = download[e].symbol
    OBVIOUS
  <2> SUFFICES ASSUME NEW i \in 1 .. Len(Queue(e)), NEW t \in Stamps(x, "1m")', NEW m \in Int,
                      Beside(Queue(e)[i], t, m)
               PROVE  Fine(x, m)'
    BY <2>1, <2>2, BridgedNow
  <2>3. x \in FromBinance /\ Queue(e)[i] \in RangeType
    BY <1>1, <2>1, <2>2, QueueOwner
  <2>4. CASE x # s
    <3>1. t \in Stamps(x, "1m")
      BY <1>16, <2>3, <2>4
    <3>2. Fine(x, m)
      BY <2>1, <2>2, <3>1 DEF Bridged
    <3>3. QED
      BY <1>27, <2>3, <3>2
  <2>5. CASE x = s
    <3>1. \A o \in T, n \in Int : Beside(Queue(e)[i], o, n) => Fine(s, n)
      BY <1>14, <2>1, <2>2, <2>5 DEF Bridged
    <3>2. ASSUME T = {}, NEW n \in Int, Amid(r, Queue(e)[i], n)
          PROVE  Fine(s, n)
      <4>1. NotBetween(d, e)
        BY <1>33 DEF HistoryInv
      <4>2. <<s, n>> \in unfinished
        BY <1>2, <1>3, <1>4, <1>14, <2>2, <2>5, <3>2, <4>1 DEF NotBetween
      <4>3. QED
        BY <4>2 DEF Fine
    <3>3. t \in T \cup N
      BY <1>15, <2>5
    <3>4. Fine(s, m)'
      BY <1>29, <2>3, <3>1, <3>2, <3>3
    <3>5. QED
      BY <2>5, <3>4
  <2>6. QED
    BY <2>4, <2>5
<1>34. ASSUME NEW e \in Downloads, NEW f \in Downloads, e # f
       PROVE  NotBetween(e, f)'
  <2> SUFFICES ASSUME download'[e].symbol = download'[f].symbol, Stamps(download[e].symbol, "1m")' = {},
                      NEW i \in 1 .. Len(Queue(e)'), NEW k \in 1 .. Len(Queue(f)'), NEW m \in Int,
                      Amid(Queue(e)'[i], Queue(f)'[k], m)
               PROVE  <<download'[e].symbol, m>> \in unfinished'
    BY DEF NotBetween, Amid
  <2>1. download'[e].symbol # s
    BY <1>7, <1>15 DEF Stamps
  <2>2. e # d /\ f # d
    BY <1>21, <2>1
  <2>3. Queue(e)' = Queue(e) /\ download'[e] = download[e] /\ Queue(f)' = Queue(f) /\ download'[f] = download[f]
    BY <1>20, <2>2
  <2>4. PICK x : x = download[e].symbol
    OBVIOUS
  <2>5. x \in FromBinance /\ x # s
    BY <1>1, <2>1, <2>3, <2>4, QueueOwner DEF HistoryInv
  <2>6. Stamps(x, "1m") = {}
    BY <1>16, <2>3, <2>4, <2>5 DEF Stamps
  <2>7. NotBetween(e, f)
    BY <1>34 DEF HistoryInv
  <2>8. <<x, m>> \in unfinished
    BY <2>3, <2>4, <2>6, <2>7 DEF NotBetween
  <2>9. QED
    BY <1>23, <2>3, <2>4, <2>8
<1>35. QED
  BY <1>15, <1>19, <1>25, <1>31, <1>32, <1>33, <1>34 DEF HistoryInv

-----------------------------------------------------------------------------
LEMMA HistoryInvInit == HistoryInit => HistoryInv
<1> SUFFICES ASSUME HistoryInit PROVE HistoryInv
  OBVIOUS
<1>1. now = 0 /\ starts = 0 /\ table = [s \in Symbols |-> {}] /\ download = [d \in Downloads |-> NoDownload]
  BY DEF HistoryInit
<1>2. HistoryTyped
  BY <1>1, NoDownloadTyped DEF HistoryTyped
<1>3. HistoryTypeOK
  BY <1>1 DEF HistoryTypeOK
<1>4. \A s \in Symbols : Stamps(s, "1m") = {}
  BY <1>1 DEF Stamps
<1>5. \A s \in FromBinance : HoleFree(s)
  BY <1>4 DEF FromBinance, HoleFree
<1>6. \A d \in Downloads : Queue(d) = <<>> /\ download[d].at = "idle" /\ download[d].ranges = <<>>
  BY <1>1, NoDownloadTyped DEF Queue
<1>7. \A d \in Downloads : 1 .. Len(Queue(d)) = {} /\ 1 .. Len(Queue(d)) - 1 = {}
  BY <1>6
<1>8. \A d \in Downloads : DownloadOK(d)
  BY <1>6, <1>7 DEF DownloadOK
<1>9. \A d \in Downloads : Bridged(d)
  BY <1>7, Zenon DEF Bridged
<1>10. \A d, e \in Downloads : NotBetween(d, e)
  BY <1>7, Zenon DEF NotBetween
<1>11. QED
  BY <1>2, <1>3, <1>5, <1>8, <1>9, <1>10, Zenon DEF HistoryInv

LEMMA HistoryInvNext == HistoryInv /\ [HistoryNext]_historyVars => HistoryInv'
<1> SUFFICES ASSUME HistoryInv, [HistoryNext]_historyVars PROVE HistoryInv'
  OBVIOUS
<1>1. CASE Tick
  <2>1. now \in Int
    BY DEF HistoryInv, HistoryTyped
  <2>2. now' \in Int /\ now <= now'
    BY <1>1, <2>1 DEF Tick
  <2>3. download' = download /\ table' = table /\ starts' = starts /\ unfinished' = unfinished
    BY <1>1 DEF Tick
  <2>4. QED
    BY <2>2, <2>3, TimeKeeps
<1>2. ASSUME NEW symbols \in SUBSET Symbols, StepMarketData(symbols) \/ SetupData(symbols)
      PROVE  HistoryInv'
  <2>1. None \in Int /\ \A n \in 0 .. LastDay : n \in Int
    BY HistoryAssumption DEF None
  <2>2. \E start, end \in Int : DownloadSymbolsParallel(symbols, start, end)
    BY <1>2, <2>1, Zenon DEF StepMarketData, SetupData
  <2>3. QED
    BY <2>2, ParallelKeeps, Zenon
<1>3. ASSUME NEW d \in Downloads, DownloadStep(d) PROVE HistoryInv'
  BY <1>3, ReadMinTsKeeps, ReadMaxTsKeeps, FetchKeeps, StoreKeeps, FetchReturnsKeeps,
     YahooResumeKeeps, YahooFetchKeeps, YahooStoreKeeps, Zenon DEF DownloadStep
<1>4. ASSUME NEW d \in Downloads, Fails(d) PROVE HistoryInv'
  BY <1>4, FailsKeeps
<1>5. ASSUME NEW d \in Processes, NEW s \in Symbols, NEW start \in 0 .. LastDay, NEW end \in 0 .. LastDay,
             DataFetch(d, s, start, end)
      PROVE  HistoryInv'
  <2>1. d \in Downloads /\ start \in Int /\ end \in Int
    BY HistoryAssumption DEF Downloads
  <2>2. QED
    BY <1>5, <2>1, DataFetchKeeps
<1>6. CASE UNCHANGED historyVars
  <2>1. now' = now /\ table' = table /\ download' = download /\ starts' = starts /\ unfinished' = unfinished
    BY <1>6 DEF historyVars
  <2>2. now' \in Int /\ now <= now'
    BY <2>1 DEF HistoryInv, HistoryTyped
  <2>3. QED
    BY <2>1, <2>2, TimeKeeps
<1>7. QED
  BY <1>1, <1>2, <1>3, <1>4, <1>5, <1>6, Zenon DEF HistoryNext

\* The invariant says that every hole is accounted for.
LEMMA HolesFollow == HistoryInv => HolesAreUnfinished
<1> SUFFICES ASSUME HistoryInv, NEW s \in FromBinance, NEW m \in Coverage(s)
             PROVE  \/ ~HasCandle(m) \/ m \in Stamps(s, "1m")
                    \/ <<s, m>> \in unfinished \cup UNION {Rest(d) : d \in Downloads}
  BY DEF HolesAreUnfinished, FromBinance
<1>1. s \in Symbols /\ HistoryTyped /\ HistoryTypeOK
  BY DEF FromBinance, HistoryInv
<1>2. CASE Stamps(s, "1m") = {}
  <2>1. MinTs(s, "1m") = None /\ MaxTs(s, "1m") = None
    BY <1>2 DEF MinTs, MaxTs
  <2>2. m = -1
    BY <2>1 DEF Coverage, None
  <2>3. QED
    BY <2>2, HistoryAssumption DEF HasCandle
<1>3. CASE Stamps(s, "1m") # {}
  <2>1. PICK low, high : low = MinTs(s, "1m") /\ high = MaxTs(s, "1m")
    OBVIOUS
  <2>2. low \in Stamps(s, "1m") /\ high \in Stamps(s, "1m") /\ low \in Int /\ high \in Int
    BY <1>1, <1>3, <2>1, BoundsAre
  <2>3. m \in Int /\ low <= m /\ m <= high
    BY <2>1, <2>2 DEF Coverage
  <2>4. CASE m = low \/ m = high
    BY <2>2, <2>4
  <2>5. CASE low < m /\ m < high
    <3>1. Fine(s, m)
      BY <2>2, <2>3, <2>5 DEF HistoryInv, HoleFree
    <3>2. m < Listed => ~HasCandle(m)
      BY <2>3, HistoryAssumption DEF HasCandle
    <3>3. m \in Quiet => ~HasCandle(m)
      BY DEF HasCandle
    <3>4. \A d \in Downloads : Wanted(d, s, m) => <<s, m>> \in Rest(d)
      BY <1>1, <2>3, RestIs
    <3>5. QED
      BY <3>1, <3>2, <3>3, <3>4, Zenon DEF Fine
  <2>6. QED
    BY <2>2, <2>3, <2>4, <2>5
<1>4. QED
  BY <1>2, <1>3

\* What is stored is what the exchange has, one row a timestamp, through every failed or
\* repeated download: insert_candles and its ON CONFLICT DO NOTHING
\* (store/candle.rs), under the fetchers of fetcher/binance.rs and fetcher/yahoo.rs.
THEOREM HistoryTypesHold == HistorySpec => []HistoryTypeOK
<1>1. HistoryInv => HistoryTypeOK
  BY DEF HistoryInv
<1>2. QED
  BY <1>1, HistoryInvInit, HistoryInvNext, PTL DEF HistorySpec

\* fetcher/binance.rs:119-233 and store/candle.rs:48-90: whatever ranges are asked for, and
\* however many downloads of a symbol interleave or fail, a minute that the table jumps
\* over is one that a download is still to fetch, or that one left behind.
THEOREM HolesAreUnfinishedHolds == HistorySpec => []HolesAreUnfinished
<1>1. QED
  BY HistoryInvInit, HistoryInvNext, HolesFollow, PTL DEF HistorySpec
=============================================================================
