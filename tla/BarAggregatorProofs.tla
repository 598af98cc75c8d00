------------------------- MODULE BarAggregatorProofs -------------------------
(* Theorems about BarAggregator: for any Need, any prices and any feed.       *)
EXTENDS BarAggregator, SequenceTheorems, TLAPS

(* What Next delivers are bars. *)
LEMMA FeedBarType == FeedBar \subseteq Bar
  BY CandleAssumption, NeedAssumption DEF FeedBar, Bar

(* Aggregation stays within the bars. *)
LEMMA AggregateType ==
    ASSUME NEW b \in Bar
    PROVE  /\ TimePointCast(b.time) \in Int
           /\ Opened(b) \in Bar
           /\ \A c \in Bar : Extended(c, b) \in Bar
  <1>1. TimePointCast(b.time) \in Int
    BY NeedAssumption DEF TimePointCast, Bar
  <1>2. Opened(b) \in Bar
    BY <1>1 DEF Opened, Bar
  <1>3. ASSUME NEW c \in Bar PROVE Extended(c, b) \in Bar
    BY DEF Extended, Bar
  <1> QED
    BY <1>1, <1>2, <1>3

(* The window is empty before the first bar, so a window that is not has an   *)
(* aggregated bar to extend.                                                  *)
WindowHasBar == inWindow > 0 => current # NoBar

(* What on_bar() does with a bar it takes, as far as types go. *)
LEMMA AbsorbType ==
    ASSUME TypeOK, WindowHasBar, NEW b \in Bar, Absorb(b)
    PROVE  /\ current' \in Bar
           /\ last' \in Bar
           /\ taken' \in Seq(Bar)
           /\ Len(taken') = Len(taken) + 1
           /\ sold' \in Seq(Nat)
           /\ Len(sold') = Len(taken') + 1
  <1>1. current' \in Bar
    <2>1. CASE inWindow = 0
      BY <2>1, AggregateType DEF Absorb
    <2>2. CASE inWindow # 0
      <3>1. current \in Bar
        BY <2>2 DEF TypeOK, WindowHasBar
      <3> QED
        BY <2>2, <3>1, AggregateType DEF Absorb
    <2> QED
      BY <2>1, <2>2
  <1>2. taken' \in Seq(Bar) /\ Len(taken') = Len(taken) + 1
    BY DEF Absorb, TypeOK
  <1>3. sold[Len(sold)] \in Nat /\ b.volume \in Nat
    <2>1. Len(sold) \in 1 .. Len(sold)
      BY LenProperties DEF TypeOK
    <2> QED
      BY <2>1, ElementOfSeq DEF TypeOK, Bar
  <1>4. sold[Len(sold)] + b.volume \in Nat
    BY <1>3
  <1>5. sold' \in Seq(Nat) /\ Len(sold') = Len(sold) + 1
    BY <1>4, AppendProperties DEF Absorb, TypeOK
  <1> QED
    BY <1>1, <1>2, <1>5 DEF Absorb, TypeOK

(* Every step keeps the types. *)
LEMMA TypeStep ==
    ASSUME TypeOK, WindowHasBar, [Next]_vars
    PROVE  TypeOK' /\ WindowHasBar'
  <1>1. CASE UNCHANGED vars
    BY <1>1 DEF TypeOK, WindowHasBar, vars
  <1>2. ASSUME NEW b \in Bar, OnBar(b)
        PROVE  TypeOK' /\ WindowHasBar'
    <2>1. heard' \in [Symbol -> Int] /\ StreakWith(b) \in Nat
      <3>1. Deliver(b)
        BY <1>2 DEF OnBar, RefuseBar, ExtendWindow, EmitBar, EmitThrows
      <3>2. b.symbol \in Symbol /\ b.time \in Int
        BY DEF Bar
      <3>3. heard' \in [Symbol -> Int]
        BY <3>1, <3>2 DEF Deliver, TypeOK
      <3>4. StreakWith(b) \in Nat
        BY DEF StreakWith, TypeOK
      <3> QED
        BY <3>3, <3>4
    <2>2. CASE RefuseBar(b)
      BY <2>1, <2>2 DEF RefuseBar, state, history, TypeOK, WindowHasBar
    <2>3. CASE ExtendWindow(b)
      <3>1. Absorb(b)
        BY <2>3 DEF ExtendWindow
      <3> QED
        BY <2>1, <2>3, <3>1, AbsorbType, NoBarAssumption DEF ExtendWindow, TypeOK, WindowHasBar
    <2>4. CASE EmitBar(b)
      <3>1. Absorb(b)
        BY <2>4 DEF EmitBar
      <3>2. Len(taken) \in Nat /\ begun \in Nat
        BY LenProperties DEF TypeOK
      <3>3. [bar |-> current', from |-> begun + 1, to |-> Len(taken) + 1] \in Bundle
        BY <3>1, <3>2, AbsorbType DEF Bundle
      <3>4. bundles' \in Seq(Bundle)
        BY <2>4, <3>3 DEF EmitBar, TypeOK
      <3> QED
        BY <2>1, <2>4, <3>1, <3>2, <3>4, AbsorbType DEF EmitBar, TypeOK, WindowHasBar
    <2>5. CASE EmitThrows(b)
      <3>1. Absorb(b)
        BY <2>5 DEF EmitThrows
      <3> QED
        BY <2>1, <2>5, <3>1, AbsorbType, NeedAssumption, NoBarAssumption
           DEF EmitThrows, TypeOK, WindowHasBar
    <2> QED
      BY <1>2, <2>2, <2>3, <2>4, <2>5 DEF OnBar
  <1> QED
    BY <1>1, <1>2, FeedBarType DEF Next

(* The types hold at first. *)
LEMMA TypeInit == Init => TypeOK /\ WindowHasBar
  <1> SUFFICES ASSUME Init PROVE TypeOK /\ WindowHasBar
    OBVIOUS
  <1>1. taken \in Seq(Bar) /\ bundles \in Seq(Bundle) /\ Len(taken) = 0
    BY EmptySeq DEF Init
  <1>2. sold \in Seq(Nat) /\ Len(sold) = 1
    BY DEF Init
  <1> QED
    BY <1>1, <1>2 DEF Init, TypeOK, WindowHasBar

(* The types of all the variables, at all times. *)
THEOREM TypeCorrect == Spec => []TypeOK
  <1>1. TypeOK /\ WindowHasBar /\ [Next]_vars => (TypeOK /\ WindowHasBar)'
    BY TypeStep
  <1> QED
    BY TypeInit, <1>1, PTL DEF Spec

-----------------------------------------------------------------------------
(* What an aggregated bar says of the accepted bars. *)

(* A bar accepted later changes nothing about those before it. *)
LEMMA SummaryKept ==
    ASSUME NEW a, NEW ts \in Seq(Bar), NEW v \in Seq(Nat), Len(v) = Len(ts) + 1,
           NEW b \in Bar, NEW total \in Nat,
           NEW from \in 1 .. Len(ts), NEW to \in from .. Len(ts),
           Summarises(a, from, to, ts, v)
    PROVE  Summarises(a, from, to, Append(ts, b), Append(v, total))
  <1> DEFINE ts2 == Append(ts, b)
             v2 == Append(v, total)
  <1>1. Len(ts) \in Nat
    BY LenProperties
  <1>2. \A n \in from .. to : ts2[n] = ts[n]
    BY <1>1
  <1>3. v2[from] = v[from] /\ v2[to + 1] = v[to + 1]
    BY <1>1
  <1>4. from \in from .. to /\ to \in from .. to
    BY <1>1
  <1> HIDE DEF ts2, v2
  <1>5. Summarises(a, from, to, ts2, v2)
    BY <1>2, <1>3, <1>4 DEF Summarises
  <1> QED
    BY <1>5 DEF ts2, v2

(* The first bar of a window summarises itself. *)
LEMMA SummaryOpens ==
    ASSUME NEW ts \in Seq(Bar), NEW v \in Seq(Nat), Len(v) = Len(ts) + 1, NEW b \in Bar
    PROVE  Summarises(Opened(b), Len(ts) + 1, Len(ts) + 1,
                      Append(ts, b), Append(v, v[Len(v)] + b.volume))
  <1> DEFINE k == Len(ts) + 1
             ts2 == Append(ts, b)
             v2 == Append(v, v[Len(v)] + b.volume)
  <1>1. Len(ts) \in Nat
    BY LenProperties
  <1>2. v[Len(v)] \in Nat /\ b.volume \in Nat
    BY <1>1, ElementOfSeq DEF Bar
  <1>3. ts2[k] = b
    BY <1>1
  <1>4. v2[k] = v[Len(v)] /\ v2[k + 1] = v[Len(v)] + b.volume
    BY <1>1, <1>2
  <1>5. k \in Nat /\ k .. k = {k}
    BY <1>1
  <1>6. b.low \in Int /\ b.high \in Int
    BY DEF Bar
  <1> HIDE DEF k, ts2, v2
  <1>7. Summarises(Opened(b), k, k, ts2, v2)
    BY <1>2, <1>3, <1>4, <1>5, <1>6 DEF Summarises, Opened
  <1> QED
    BY <1>7 DEF k, ts2, v2

(* A difference grows with its first number. *)
LEMMA DifferenceGrows == \A x, y, z \in Nat : (x + y) - z = (x - z) + y
  OBVIOUS

(* One more volume. *)
LEMMA OneMoreVolume ==
    \A vs \in Seq(Nat), x \in Nat :
        Append(vs, x)[Len(vs) + 1] = x /\ \A n \in 1 .. Len(vs) : Append(vs, x)[n] = vs[n]
  BY AppendProperties

(* The lower and the higher of two prices. *)
LEMMA LowAndHigh ==
    \A x, y \in Int :
        /\ LET low == IF y < x THEN y ELSE x IN low \in Int /\ low <= x /\ low <= y
        /\ LET high == IF x < y THEN y ELSE x IN high \in Int /\ x <= high /\ y <= high
  OBVIOUS

(* Extending the aggregated bar by the next bar extends what it summarises. *)
LEMMA SummaryExtends ==
    ASSUME NEW ts \in Seq(Bar), NEW v \in Seq(Nat), Len(v) = Len(ts) + 1,
           NEW a \in Bar, NEW b \in Bar, NEW from \in 1 .. Len(ts),
           Summarises(a, from, Len(ts), ts, v)
    PROVE  Summarises(Extended(a, b), from, Len(ts) + 1,
                      Append(ts, b), Append(v, v[Len(v)] + b.volume))
  <1> DEFINE k == Len(ts)
             ts2 == Append(ts, b)
             v2 == Append(v, v[Len(v)] + b.volume)
             e == Extended(a, b)
  <1>1. k \in Nat /\ from \in Nat /\ from <= k /\ from >= 1
    BY LenProperties
  <1>2. /\ v[Len(v)] \in Nat /\ b.volume \in Nat
        /\ v[from] \in Nat
    <2>1. Len(v) \in 1 .. Len(v) /\ from \in 1 .. Len(v)
      BY <1>1
    <2>2. v[Len(v)] \in Nat /\ v[from] \in Nat
      BY <2>1, ElementOfSeq
    <2> QED
      BY <2>2 DEF Bar
  <1>3. ts2[k + 1] = b /\ \A n \in from .. k : ts2[n] = ts[n]
    <2>1. \A n \in from .. k : n \in 1 .. k
      BY <1>1
    <2>2. ts2[k + 1] = b /\ \A n \in 1 .. k : ts2[n] = ts[n]
      BY <1>1
    <2> QED
      BY <2>1, <2>2
  <1>4. v2[k + 2] = v[Len(v)] + b.volume /\ v2[from] = v[from]
    <2>1. Len(v) = k + 1 /\ k + 2 = Len(v) + 1 /\ from \in 1 .. Len(v)
      BY <1>1
    <2>2. v[Len(v)] + b.volume \in Nat
      BY <1>2
    <2>3. v2[Len(v) + 1] = v[Len(v)] + b.volume /\ \A n \in 1 .. Len(v) : v2[n] = v[n]
      BY <2>2, OneMoreVolume, Zenon
    <2> QED
      BY <2>1, <2>2, <2>3
  <1>5. a.volume = v[Len(v)] - v[from]
    BY DEF Summarises
  <1>6. /\ a.low \in Int /\ a.high \in Int /\ b.low \in Int /\ b.high \in Int
        /\ \A n \in from .. k : ts[n] \in Bar
    <2>1. \A n \in from .. k : n \in 1 .. k
      BY <1>1
    <2>2. \A n \in 1 .. k : ts[n] \in Bar
      BY ElementOfSeq
    <2> QED
      BY <2>1, <2>2 DEF Bar
  <1>7. \A n \in from .. k + 1 : n = k + 1 \/ n \in from .. k
    BY <1>1
  <1>8. from \in from .. k /\ k + 1 \in from .. k + 1 /\ from .. k \subseteq from .. k + 1
    BY <1>1
  <1>9. /\ a.symbol = ts[from].symbol
        /\ a.time = TimePointCast(ts[from].time)
        /\ a.open = ts[from].open
        /\ \A n \in from .. k : a.low <= ts[n].low /\ ts[n].high <= a.high
        /\ \E n \in from .. k : a.high = ts[n].high
        /\ \E n \in from .. k : a.low = ts[n].low
    BY DEF Summarises
  <1>10. \A n \in from .. k : ts[n].low \in Int /\ ts[n].high \in Int
    BY <1>6 DEF Bar
  <1>5a. v2[k + 2] - v2[from] = a.volume + b.volume
    <2> HIDE DEF v2, k
    <2>1. (v[Len(v)] + b.volume) - v[from] = (v[Len(v)] - v[from]) + b.volume
      BY <1>2, DifferenceGrows, Zenon
    <2> QED
      BY <1>4, <1>5, <2>1, Zenon
  <1> HIDE DEF k, ts2, v2
  <1> HIDE DEF e
  <1>11. \A n \in from .. k + 1 : e.low <= ts2[n].low /\ ts2[n].high <= e.high
    <2>1. /\ e.low \in Int /\ e.low <= a.low /\ e.low <= b.low
          /\ e.high \in Int /\ a.high <= e.high /\ b.high <= e.high
      <3>1. /\ e.low = IF b.low < a.low THEN b.low ELSE a.low
            /\ e.high = IF a.high < b.high THEN b.high ELSE a.high
        BY DEF e, Extended
      <3>2. a.low \in Int /\ b.low \in Int /\ a.high \in Int /\ b.high \in Int
        BY <1>6
      <3> QED
        BY <3>1, <3>2, LowAndHigh, Zenon
    <2>2. \A n \in from .. k : e.low <= ts[n].low /\ ts[n].high <= e.high
      <3> SUFFICES ASSUME NEW n \in from .. k
                   PROVE  e.low <= ts[n].low /\ ts[n].high <= e.high
        OBVIOUS
      <3>1. a.low <= ts[n].low /\ ts[n].high <= a.high
        BY <1>9
      <3>2. ts[n].low \in Int /\ ts[n].high \in Int
        BY <1>10
      <3>3. \A x, y, z \in Int : x <= y /\ y <= z => x <= z
        OBVIOUS
      <3> QED
        BY <2>1, <3>1, <3>2, <3>3, <1>6
    <2> QED
      BY <2>1, <2>2, <1>3, <1>7
  <1>12. \E n \in from .. k + 1 : e.high = ts2[n].high
    <2>1. e.high = b.high \/ e.high = a.high
      BY DEF e, Extended
    <2> QED
      BY <2>1, <1>3, <1>8, <1>9
  <1>13. \E n \in from .. k + 1 : e.low = ts2[n].low
    <2>1. e.low = b.low \/ e.low = a.low
      BY DEF e, Extended
    <2> QED
      BY <2>1, <1>3, <1>8, <1>9
  <1>14. e.volume = v2[(k + 1) + 1] - v2[from]
    <2>1. (k + 1) + 1 = k + 2
      BY <1>1
    <2> QED
      BY <1>5a, <2>1 DEF e, Extended
  <1>15. /\ e.symbol = ts2[from].symbol
         /\ e.time = TimePointCast(ts2[from].time)
         /\ e.open = ts2[from].open
         /\ e.close = ts2[k + 1].close
    BY <1>3, <1>8, <1>9 DEF e, Extended
  <1>16. Summarises(e, from, k + 1, ts2, v2)
    BY <1>11, <1>12, <1>13, <1>14, <1>15 DEF Summarises
  <1> QED
    BY <1>16 DEF k, ts2, v2, e

-----------------------------------------------------------------------------
(* Every bundle lies before the current window. *)
BundlesBegun == \A n \in 1 .. Len(bundles) : bundles[n].from \in Nat \ {0} /\ bundles[n].to <= begun

PartitionInv == TypeOK /\ WindowHasBar /\ BundlesBegun /\ BundlesPartition

(* The bundles before the last still summarise what they did when on_bar()    *)
(* takes a bar.                                                               *)
LEMMA BundlesKept ==
    ASSUME PartitionInv, NEW b \in Bar, Absorb(b)
    PROVE  \A n \in 1 .. Len(bundles) :
              Summarises(bundles[n].bar, bundles[n].from, bundles[n].to, taken', sold')
  <1> SUFFICES ASSUME NEW n \in 1 .. Len(bundles)
               PROVE  Summarises(bundles[n].bar, bundles[n].from, bundles[n].to, taken', sold')
    OBVIOUS
  <1>1. taken \in Seq(Bar) /\ sold \in Seq(Nat) /\ Len(sold) = Len(taken) + 1
    BY DEF PartitionInv, TypeOK
  <1>2. Len(taken) \in Nat /\ begun \in Nat /\ begun <= Len(taken)
    BY <1>1, LenProperties DEF PartitionInv, TypeOK, BundlesPartition
  <1>3. bundles[n].to = bundles[n].from + Need - 1 /\ bundles[n].from \in Nat \ {0}
        /\ bundles[n].to <= begun
    BY DEF PartitionInv, BundlesPartition, BundlesBegun
  <1>4. bundles[n].from \in 1 .. Len(taken) /\ bundles[n].to \in bundles[n].from .. Len(taken)
    BY <1>2, <1>3, NeedAssumption
  <1>5. Summarises(bundles[n].bar, bundles[n].from, bundles[n].to, taken, sold)
    BY DEF PartitionInv, BundlesPartition
  <1>6. sold[Len(sold)] \in Nat /\ b.volume \in Nat
    <2>1. Len(sold) \in 1 .. Len(sold)
      BY <1>1, <1>2
    <2> QED
      BY <1>1, <2>1, ElementOfSeq DEF Bar
  <1>7. sold[Len(sold)] + b.volume \in Nat
    BY <1>6
  <1>8. taken' = Append(taken, b) /\ sold' = Append(sold, sold[Len(sold)] + b.volume)
    BY DEF Absorb
  <1> QED
    BY <1>1, <1>4, <1>5, <1>7, <1>8, SummaryKept

(* The aggregated bar summarises the window and the bar that joins it. *)
LEMMA WindowExtended ==
    ASSUME PartitionInv, NEW b \in Bar, Absorb(b)
    PROVE  Summarises(current', begun + 1, Len(taken) + 1, taken', sold')
  <1>1. taken \in Seq(Bar) /\ sold \in Seq(Nat) /\ Len(sold) = Len(taken) + 1
    BY DEF PartitionInv, TypeOK
  <1>2. /\ Len(taken) \in Nat /\ begun \in Nat /\ inWindow \in Nat
        /\ Len(taken) = begun + inWindow
    BY <1>1, LenProperties DEF PartitionInv, TypeOK, BundlesPartition
  <1>3. taken' = Append(taken, b) /\ sold' = Append(sold, sold[Len(sold)] + b.volume)
    BY DEF Absorb
  <1>4. CASE inWindow = 0
    <2>1. current' = Opened(b) /\ begun + 1 = Len(taken) + 1
      BY <1>2, <1>4 DEF Absorb
    <2> QED
      BY <1>1, <1>3, <2>1, SummaryOpens
  <1>5. CASE inWindow # 0
    <2>1. current' = Extended(current, b) /\ begun + 1 \in 1 .. Len(taken)
      BY <1>2, <1>5 DEF Absorb
    <2>2. current \in Bar
      BY <1>2, <1>5 DEF PartitionInv, TypeOK, WindowHasBar
    <2>3. Summarises(current, begun + 1, Len(taken), taken, sold)
      BY <1>2, <1>5 DEF PartitionInv, BundlesPartition
    <2> QED
      BY <1>1, <1>3, <2>1, <2>2, <2>3, SummaryExtends
  <1> QED
    BY <1>4, <1>5

(* A bar taken into a window that is not emitted, whether it is full or not. *)
LEMMA PartitionGrows ==
    ASSUME PartitionInv, NEW b \in Bar, Absorb(b), inWindow' = inWindow + 1,
           UNCHANGED <<bundles, begun>>
    PROVE  BundlesBegun' /\ BundlesPartition'
  <1>1. Len(taken') = Len(taken) + 1
    BY AbsorbType DEF PartitionInv
  <1>2. Len(taken) = begun + inWindow /\ begun \in Nat /\ inWindow \in Nat
    BY DEF PartitionInv, BundlesPartition, TypeOK
  <1>3. Len(taken') = begun' + inWindow'
    BY <1>1, <1>2
  <1>4. Summarises(current', begun' + 1, Len(taken'), taken', sold')
    BY <1>1, WindowExtended
  <1>5. BundlesBegun'
    BY DEF PartitionInv, BundlesBegun
  <1>6. \A n \in 1 .. Len(bundles') :
          /\ bundles'[n].to = bundles'[n].from + Need - 1
          /\ Summarises(bundles'[n].bar, bundles'[n].from, bundles'[n].to, taken', sold')
          /\ bundles'[n].from = IF n = 1 THEN 1 ELSE bundles'[n - 1].to + 1
    BY BundlesKept DEF PartitionInv, BundlesPartition
  <1>7. begun' = IF bundles' = <<>> THEN 0 ELSE bundles'[Len(bundles')].to
    BY DEF PartitionInv, BundlesPartition
  <1> QED
    BY <1>3, <1>4, <1>5, <1>6, <1>7 DEF BundlesPartition

(* The window is full and is emitted as a bundle. *)
LEMMA PartitionEmits ==
    ASSUME PartitionInv, NEW b \in Bar, EmitBar(b)
    PROVE  BundlesBegun' /\ BundlesPartition'
  <1> DEFINE new == [bar |-> current', from |-> begun + 1, to |-> Len(taken) + 1]
             k == Len(bundles)
  <1>1. Absorb(b) /\ inWindow + 1 = Need /\ inWindow' = 0 /\ bundles' = Append(bundles, new)
        /\ begun' = Len(taken) + 1
    BY DEF EmitBar
  <1>2. Len(taken') = Len(taken) + 1
    BY <1>1, AbsorbType DEF PartitionInv
  <1>3. /\ Len(taken) = begun + inWindow
        /\ begun \in Nat /\ inWindow \in Nat /\ bundles \in Seq(Bundle)
        /\ begun = IF bundles = <<>> THEN 0 ELSE bundles[k].to
        /\ \A n \in 1 .. k :
              /\ bundles[n].to = bundles[n].from + Need - 1
              /\ bundles[n].from = IF n = 1 THEN 1 ELSE bundles[n - 1].to + 1
              /\ bundles[n].from \in Nat \ {0}
              /\ bundles[n].to <= begun
    BY DEF PartitionInv, BundlesPartition, TypeOK, BundlesBegun
  <1>4. k \in Nat /\ (k = 0 <=> bundles = <<>>)
    BY <1>3, LenProperties, EmptySeq
  <1>5. /\ Len(bundles') = k + 1 /\ bundles'[k + 1] = new
        /\ \A n \in 1 .. k : bundles'[n] = bundles[n]
    BY <1>1, <1>3, <1>4
  <1>6. Summarises(new.bar, new.from, new.to, taken', sold')
    BY <1>1, WindowExtended
  <1>7. \A n \in 1 .. k : Summarises(bundles[n].bar, bundles[n].from, bundles[n].to, taken', sold')
    BY <1>1, BundlesKept
  <1>8. new.to = new.from + Need - 1 /\ new.from \in Nat \ {0} /\ new.to = begun'
    <2>1. Len(taken) + 1 = (begun + 1) + Need - 1 /\ begun + 1 \in Nat \ {0}
      <3>1. inWindow + 1 = Need
        BY <1>1
      <3>2. Len(taken) = begun + inWindow /\ begun \in Nat /\ inWindow \in Nat
        BY <1>3
      <3> QED
        BY <3>1, <3>2
    <2>2. begun' = Len(taken) + 1
      BY <1>1
    <2> QED
      BY <2>1, <2>2
  <1>9. new.from = IF k = 0 THEN 1 ELSE bundles[k].to + 1
    <2>1. new.from = begun + 1
      OBVIOUS
    <2>2. begun = IF k = 0 THEN 0 ELSE bundles[k].to
      BY <1>3, <1>4, Zenon
    <2>3. 0 + 1 = 1
      OBVIOUS
    <2> QED
      BY <2>1, <2>2, <2>3, Zenon
  <1>10. begun <= begun' /\ begun \in Int /\ begun' \in Int
    <2>1. begun' = Len(taken) + 1 /\ Len(taken) = begun + inWindow
      BY <1>1, <1>3
    <2>2. begun \in Nat /\ inWindow \in Nat
      BY <1>3
    <2> QED
      BY <2>1, <2>2
  <1> HIDE DEF new, k
  <1>11. \A n \in 1 .. k + 1 : n = k + 1 \/ n \in 1 .. k
    BY <1>4
  <1>12. \A n \in 1 .. k + 1 :
           /\ bundles'[n].to = bundles'[n].from + Need - 1
           /\ Summarises(bundles'[n].bar, bundles'[n].from, bundles'[n].to, taken', sold')
           /\ bundles'[n].from = IF n = 1 THEN 1 ELSE bundles'[n - 1].to + 1
    <2> SUFFICES ASSUME NEW n \in 1 .. k + 1
                 PROVE  /\ bundles'[n].to = bundles'[n].from + Need - 1
                        /\ Summarises(bundles'[n].bar, bundles'[n].from, bundles'[n].to,
                                      taken', sold')
                        /\ bundles'[n].from = IF n = 1 THEN 1 ELSE bundles'[n - 1].to + 1
      OBVIOUS
    <2>1. CASE n = k + 1
      <3>1. (n = 1 <=> k = 0) /\ n - 1 = k /\ (k # 0 => k \in 1 .. k)
        BY <1>4, <2>1
      <3>2. bundles'[n] = new /\ (k # 0 => bundles'[n - 1] = bundles[k])
        BY <1>5, <2>1, <3>1
      <3> QED
        BY <1>6, <1>8, <1>9, <3>1, <3>2
    <2>2. CASE n \in 1 .. k
      <3>1. n # 1 => n - 1 \in 1 .. k
        BY <1>4, <2>2
      <3>2. bundles'[n] = bundles[n] /\ (n # 1 => bundles'[n - 1] = bundles[n - 1])
        BY <1>5, <2>2, <3>1
      <3> QED
        BY <1>3, <1>7, <2>2, <3>2
    <2> QED
      BY <1>11, <2>1, <2>2
  <1>13. BundlesBegun'
    <2> SUFFICES ASSUME NEW n \in 1 .. k + 1
                 PROVE  bundles'[n].from \in Nat \ {0} /\ bundles'[n].to <= begun'
      BY <1>5 DEF BundlesBegun
    <2>1. CASE n = k + 1
      BY <1>5, <1>8, <1>10, <2>1
    <2>2. CASE n \in 1 .. k
      <3>1. bundles'[n] = bundles[n] /\ bundles[n].from \in Nat \ {0}
            /\ bundles[n].to = bundles[n].from + Need - 1 /\ bundles[n].to <= begun
        BY <1>3, <1>5, <2>2
      <3>2. bundles[n].to \in Int
        BY <3>1, NeedAssumption
      <3> QED
        BY <1>10, <3>1, <3>2
    <2> QED
      BY <1>11, <2>1, <2>2
  <1>14. begun' = IF bundles' = <<>> THEN 0 ELSE bundles'[Len(bundles')].to
    <2>1. bundles' # <<>>
      BY <1>4, <1>5, EmptySeq
    <2> QED
      BY <2>1, <1>5, <1>8
  <1>15. Len(taken') = begun' + inWindow' /\ ~(inWindow' > 0)
    BY <1>1, <1>2, <1>3
  <1> QED
    BY <1>5, <1>12, <1>13, <1>14, <1>15 DEF BundlesPartition

(* The invariant is inductive. *)
LEMMA PartitionStep ==
    ASSUME PartitionInv, [Next]_vars
    PROVE  PartitionInv'
  <1>1. TypeOK' /\ WindowHasBar'
    BY TypeStep DEF PartitionInv
  <1>2. CASE UNCHANGED vars
    BY <1>1, <1>2 DEF PartitionInv, BundlesBegun, BundlesPartition, vars
  <1>3. ASSUME NEW b \in Bar, OnBar(b)
        PROVE  BundlesBegun' /\ BundlesPartition'
    <2>1. CASE RefuseBar(b)
      BY <2>1 DEF RefuseBar, state, history, PartitionInv, BundlesBegun, BundlesPartition
    <2>2. CASE ExtendWindow(b)
      BY <2>2, PartitionGrows DEF ExtendWindow
    <2>3. CASE EmitBar(b)
      BY <2>3, PartitionEmits
    <2>4. CASE EmitThrows(b)
      <3>1. inWindow' = inWindow + 1
        BY <2>4 DEF EmitThrows
      <3> QED
        BY <2>4, <3>1, PartitionGrows DEF EmitThrows
    <2> QED
      BY <1>3, <2>1, <2>2, <2>3, <2>4 DEF OnBar
  <1> QED
    BY <1>1, <1>2, <1>3, FeedBarType DEF Next, PartitionInv

(* The invariant holds at first. *)
LEMMA PartitionInit == Init => PartitionInv
  <1> SUFFICES ASSUME Init PROVE BundlesBegun /\ BundlesPartition
    BY TypeInit DEF PartitionInv
  <1>1. bundles = <<>> /\ Len(bundles) = 0 /\ begun = 0 /\ Len(taken) = 0 /\ inWindow = 0
    BY DEF Init
  <1>2. ~(\E n \in 1 .. Len(bundles) : TRUE)
    <2>1. 1 .. 0 = {}
      OBVIOUS
    <2> QED
      BY <1>1, <2>1
  <1>3. BundlesBegun
    BY <1>2 DEF BundlesBegun
  <1>4. Len(taken) = begun + inWindow /\ ~(inWindow > 0)
    BY <1>1
  <1>5. begun = IF bundles = <<>> THEN 0 ELSE bundles[Len(bundles)].to
    BY <1>1
  <1> QED
    BY <1>2, <1>3, <1>4, <1>5 DEF BundlesPartition

(* For every Need and every feed, throwing subscribers included: each bar     *)
(* on_bar() accepts is counted in exactly one aggregated bar, in order, and   *)
(* the aggregated bar says of its bars what it should.                        *)
THEOREM Partition == Spec => []BundlesPartition
  <1>1. PartitionInv /\ [Next]_vars => PartitionInv'
    BY PartitionStep
  <1>2. PartitionInv => BundlesPartition
    BY DEF PartitionInv
  <1> QED
    BY PartitionInit, <1>1, <1>2, PTL DEF Spec

-----------------------------------------------------------------------------
(* _last_input_bar is the bar accepted last, and the feed has not fallen back *)
(* behind it.                                                                 *)
LastIsHeard ==
    /\ last = NoBar => taken = <<>>
    /\ last # NoBar => /\ taken # <<>>
                       /\ last = taken[Len(taken)]
                       /\ InOrder => last.time <= heard[last.symbol]

RowInv == TypeOK /\ WindowHasBar /\ LastIsHeard /\ MinutesInARow

(* A bar accepted after another continues it. *)
LEMMA RowGrows ==
    ASSUME RowInv, NEW b \in Bar, Deliver(b), ~Refuses(b), Absorb(b)
    PROVE  LastIsHeard' /\ MinutesInARow'
  <1> DEFINE k == Len(taken)
  <1>1. taken \in Seq(Bar) /\ k \in Nat
    BY LenProperties DEF RowInv, TypeOK
  <1>2. b.symbol \in Symbol /\ b.time \in Int /\ heard \in [Symbol -> Int]
    BY DEF RowInv, TypeOK, Bar
  <1>3. last' = b /\ taken' = Append(taken, b)
    BY DEF Absorb
  <1>4. /\ Len(taken') = k + 1 /\ taken'[k + 1] = b /\ taken' # <<>>
        /\ \A n \in 1 .. k : taken'[n] = taken[n]
    BY <1>1, <1>3, EmptySeq
  <1>5. heard'[b.symbol] = b.time
    BY <1>2 DEF Deliver
  <1>6. LastIsHeard'
    BY <1>2, <1>3, <1>4, <1>5, NoBarAssumption DEF LastIsHeard
  <1>7. MinutesInARow'
    <2> SUFFICES ASSUME InOrder, NEW n \in 1 .. k
                 PROVE  /\ taken'[n + 1].symbol = taken'[n].symbol
                        /\ taken'[n + 1].time = taken'[n].time + 1
      BY <1>1, <1>4 DEF MinutesInARow
    <2>1. CASE n = k
      <3>1. last \in Bar /\ last = taken[k] /\ last.time <= heard[last.symbol]
        <4>1. last # NoBar
          BY <1>1, EmptySeq DEF RowInv, LastIsHeard
        <4> QED
          BY <4>1 DEF RowInv, LastIsHeard, TypeOK
      <3>2. IsConsecutive(last, b)
        BY <3>1, NoBarAssumption DEF Refuses
      <3>3. heard[b.symbol] <= b.time
        BY <1>2 DEF Deliver
      <3>4. last.symbol = b.symbol /\ last.time + 1 = b.time
        <4>1. last.symbol = b.symbol
          BY <3>2 DEF IsConsecutive
        <4>2. last.time + 1 = b.time \/ b.time + 1 = last.time
          BY <3>2 DEF IsConsecutive
        <4>3. last.time \in Int /\ heard[b.symbol] \in Int
          BY <1>2, <3>1 DEF Bar
        <4>4. last.time <= heard[b.symbol]
          BY <3>1, <4>1
        <4> QED
          BY <1>2, <3>3, <4>1, <4>2, <4>3, <4>4
      <3>5. taken'[n] = last /\ taken'[n + 1] = b
        BY <1>4, <2>1, <3>1
      <3> QED
        BY <3>4, <3>5
    <2>2. CASE n # k
      <3>1. n \in 1 .. k - 1 /\ n + 1 \in 1 .. k
        BY <1>1, <2>2
      <3>2. taken'[n] = taken[n] /\ taken'[n + 1] = taken[n + 1]
        BY <1>4, <3>1
      <3> QED
        BY <3>1, <3>2 DEF RowInv, MinutesInARow
    <2> QED
      BY <2>1, <2>2
  <1> QED
    BY <1>6, <1>7

(* The invariant is inductive. *)
LEMMA RowStep ==
    ASSUME RowInv, [Next]_vars
    PROVE  RowInv'
  <1>1. TypeOK' /\ WindowHasBar'
    BY TypeStep DEF RowInv
  <1>2. CASE UNCHANGED vars
    BY <1>1, <1>2 DEF RowInv, LastIsHeard, MinutesInARow, vars
  <1>3. ASSUME NEW b \in Bar, OnBar(b)
        PROVE  LastIsHeard' /\ MinutesInARow'
    <2>1. CASE RefuseBar(b)
      <3>1. UNCHANGED <<last, taken>> /\ Deliver(b)
        BY <2>1 DEF RefuseBar, state, history
      <3>2. MinutesInARow'
        BY <3>1 DEF RowInv, MinutesInARow
      <3>3. \A s \in Symbol : InOrder => heard[s] <= heard'[s]
        BY <3>1 DEF Deliver, RowInv, TypeOK, Bar
      <3>4. LastIsHeard'
        <4>1. CASE last = NoBar
          BY <3>1, <4>1 DEF RowInv, LastIsHeard
        <4>2. CASE last # NoBar
          <5>1. last.symbol \in Symbol /\ last.time \in Int
            BY <4>2 DEF RowInv, TypeOK, Bar
          <5>2. heard[last.symbol] \in Int /\ heard'[last.symbol] \in Int
            BY <1>1, <5>1 DEF RowInv, TypeOK
          <5>3. InOrder => last.time <= heard'[last.symbol]
            BY <3>3, <4>2, <5>1, <5>2 DEF RowInv, LastIsHeard
          <5> QED
            BY <3>1, <4>2, <5>3 DEF RowInv, LastIsHeard
        <4> QED
          BY <4>1, <4>2
      <3> QED
        BY <3>2, <3>4
    <2>2. CASE ExtendWindow(b)
      BY <2>2, RowGrows DEF ExtendWindow
    <2>3. CASE EmitBar(b)
      BY <2>3, RowGrows DEF EmitBar
    <2>4. CASE EmitThrows(b)
      BY <2>4, RowGrows DEF EmitThrows
    <2> QED
      BY <1>3, <2>1, <2>2, <2>3, <2>4 DEF OnBar
  <1> QED
    BY <1>1, <1>2, <1>3, FeedBarType DEF Next, RowInv

(* The invariant holds at first. *)
LEMMA RowInit == Init => RowInv
  <1> SUFFICES ASSUME Init PROVE LastIsHeard /\ MinutesInARow
    BY TypeInit DEF RowInv
  <1>1. taken = <<>> /\ last = NoBar /\ Len(taken) = 0
    BY DEF Init
  <1>2. 1 .. Len(taken) - 1 = {}
    BY <1>1
  <1> QED
    BY <1>1, <1>2 DEF LastIsHeard, MinutesInARow

(* For every number of symbols and minutes: from a feed in order, on_bar()    *)
(* accepts one symbol's bars only, each a minute after the one before it.     *)
THEOREM NoMinuteMissing == Spec => []MinutesInARow
  <1>1. RowInv /\ [Next]_vars => RowInv'
    BY RowStep
  <1>2. RowInv => MinutesInARow
    BY DEF RowInv
  <1> QED
    BY RowInit, <1>1, <1>2, PTL DEF Spec

-----------------------------------------------------------------------------
(* The labels of the aggregated bars. *)

(* A multiple of the unit moves the minute and its label alike. *)
LEMMA ProductOfSum == \A u, x, y \in Int : u * (x + y) = u * x + u * y
  OBVIOUS

LEMMA AtLeastOneUnit ==
    ASSUME NEW u \in Nat \ {0}, NEW d \in Nat \ {0} PROVE u <= u * d
  <1>1. d - 1 \in Nat /\ u * d = u * (d - 1) + u * 1
    BY ProductOfSum
  <1>2. u * (d - 1) \in Nat
    BY <1>1
  <1> QED
    BY <1>1, <1>2

(* A remainder is the only one. *)
LEMMA OneRemainder ==
    ASSUME NEW u \in Nat \ {0}, NEW x \in Int, NEW y \in Int, NEW r \in 0 .. u - 1,
           NEW s \in 0 .. u - 1, u * x + r = u * y + s
    PROVE  r = s
  <1>1. u * x \in Int /\ u * y \in Int /\ u * (x - y) \in Int /\ u * (y - x) \in Int
    OBVIOUS
  <1>2. u * x = u * y + u * (x - y) /\ u * y = u * x + u * (y - x)
    <2>1. x = y + (x - y) /\ y = x + (y - x) /\ x - y \in Int /\ y - x \in Int
      OBVIOUS
    <2> QED
      BY <2>1, ProductOfSum
  <1>3. CASE x > y
    <2>1. u <= u * (x - y)
      BY <1>3, AtLeastOneUnit
    <2> QED
      BY <1>1, <1>2, <2>1
  <1>4. CASE y > x
    <2>1. u <= u * (y - x)
      BY <1>4, AtLeastOneUnit
    <2> QED
      BY <1>1, <1>2, <2>1
  <1>5. CASE x = y
    BY <1>1, <1>5
  <1> QED
    BY <1>3, <1>4, <1>5

(* What div and mod are. *)
LEMMA Division ==
    ASSUME NEW u \in Nat \ {0}, NEW t \in Int
    PROVE  /\ t \div u \in Int /\ t % u \in 0 .. u - 1
           /\ t = u * (t \div u) + (t % u)
  OBVIOUS

LEMMA CastMoves ==
    ASSUME NEW t \in Int PROVE TimePointCast(t + Need) = TimePointCast(t) + Need
  <1> DEFINE q == t \div Unit
             k == Need \div Unit
             p == (t + Need) \div Unit
  <1>1. Unit \in Nat \ {0} /\ Need \in Int /\ t + Need \in Int
    BY NeedAssumption
  <1>2. q \in Int /\ t % Unit \in 0 .. Unit - 1 /\ t = Unit * q + (t % Unit)
    BY <1>1, Division
  <1>3. k \in Int /\ Need = Unit * k
    BY <1>1, Division, UnitAssumption
  <1>4. p \in Int /\ (t + Need) % Unit \in 0 .. Unit - 1
        /\ t + Need = Unit * p + ((t + Need) % Unit)
    BY <1>1, Division
  <1> HIDE DEF q, k, p
  <1>5. Unit * (q + k) = Unit * q + Unit * k /\ Unit * q \in Int /\ Unit * k \in Int
    BY <1>1, <1>2, <1>3, ProductOfSum
  <1>6. Unit * (q + k) + (t % Unit) = t + Need
    BY <1>1, <1>2, <1>3, <1>5
  <1>7. (t + Need) % Unit = t % Unit
    <2>1. q + k \in Int
      BY <1>2, <1>3
    <2> QED
      BY <1>1, <1>2, <1>4, <1>6, <2>1, OneRemainder
  <1> QED
    BY <1>1, <1>2, <1>4, <1>7 DEF TimePointCast

(* The minutes accepted count on from the first. *)
MinutesCount == InOrder => \A n \in 1 .. Len(taken) : taken[n].time = taken[1].time + (n - 1)

(* Bars have minutes. *)
LEMMA TimesOfBars ==
    ASSUME NEW s \in Seq(Bar) PROVE \A n \in 1 .. Len(s) : s[n].time \in Int
  <1>1. \A n \in 1 .. Len(s) : s[n] \in Bar
    BY ElementOfSeq
  <1>2. \A b \in Bar : b.time \in Int
    BY DEF Bar
  <1> QED
    BY <1>1, <1>2

(* A step accepts a bar or none. *)
LEMMA AcceptsOne ==
    ASSUME [Next]_vars PROVE taken' = taken \/ \E b \in Bar : taken' = Append(taken, b)
  <1>1. ASSUME NEW b \in FeedBar, OnBar(b)
        PROVE  taken' = taken \/ taken' = Append(taken, b)
    BY <1>1 DEF OnBar, RefuseBar, ExtendWindow, EmitBar, EmitThrows, Absorb, history
  <1>2. CASE UNCHANGED vars
    BY <1>2 DEF vars
  <1> QED
    BY <1>1, <1>2, FeedBarType DEF Next

LEMMA CountStep ==
    ASSUME RowInv, RowInv', MinutesCount, [Next]_vars
    PROVE  MinutesCount'
  <1>1. CASE taken' = taken
    BY <1>1 DEF MinutesCount
  <1>2. ASSUME NEW b \in Bar, taken' = Append(taken, b) PROVE MinutesCount'
    <2> DEFINE k == Len(taken)
    <2>1. taken \in Seq(Bar) /\ k \in Nat
      BY LenProperties DEF RowInv, TypeOK
    <2>2. /\ Len(taken') = k + 1 /\ taken'[k + 1] = b
          /\ \A n \in 1 .. k : taken'[n] = taken[n]
      BY <1>2, <2>1, AppendProperties
    <2>3. b.time \in Int /\ \A n \in 1 .. k : taken[n].time \in Int
      BY <2>1, TimesOfBars DEF Bar
    <2> SUFFICES ASSUME InOrder, NEW n \in 1 .. k + 1
                 PROVE  taken'[n].time = taken'[1].time + (n - 1)
      BY <2>2 DEF MinutesCount
    <2> HIDE DEF k
    <2>4. CASE n <= k
      <3>1. n \in 1 .. k /\ 1 \in 1 .. k
        BY <2>1, <2>4
      <3>2. taken[n].time = taken[1].time + (n - 1)
        BY <3>1 DEF MinutesCount, k
      <3> QED
        BY <2>2, <3>1, <3>2
    <2>5. CASE n = k + 1 /\ k > 0
      <3>1. k \in 1 .. k /\ 1 \in 1 .. k
        BY <2>1, <2>5
      <3>2. taken[k].time = taken[1].time + (k - 1)
        BY <3>1 DEF MinutesCount, k
      <3>3. taken'[k + 1].time = taken'[k].time + 1
        <4>1. k \in 1 .. Len(taken') - 1
          BY <2>1, <2>2, <3>1
        <4> QED
          BY <4>1 DEF RowInv, MinutesInARow
      <3>4. taken[1].time \in Int
        BY <2>3, <3>1
      <3>5. taken'[k] = taken[k] /\ taken'[1] = taken[1]
        BY <2>2, <3>1
      <3> QED
        BY <2>1, <2>5, <3>2, <3>3, <3>4, <3>5
    <2>6. CASE n = k + 1 /\ k = 0
      BY <2>2, <2>3, <2>6
    <2> QED
      BY <2>1, <2>4, <2>5, <2>6
  <1> QED
    BY <1>1, <1>2, AcceptsOne

(* Bundles that cut minutes in a row are labelled evenly. *)
LEMMA LabelsOfRow ==
    ASSUME PartitionInv, MinutesCount
    PROVE  LabelsEvenlySpaced
  <1> SUFFICES ASSUME InOrder, NEW n \in 1 .. Len(bundles) - 1
               PROVE  bundles[n + 1].bar.time = bundles[n].bar.time + Need
    BY DEF LabelsEvenlySpaced
  <1> DEFINE i == bundles[n].from
             j == bundles[n + 1].from
  <1>1. Len(bundles) \in Nat /\ n \in 1 .. Len(bundles) /\ n + 1 \in 1 .. Len(bundles)
    BY LenProperties DEF PartitionInv, TypeOK
  <1>2. /\ bundles[n].to = i + Need - 1 /\ bundles[n + 1].to = j + Need - 1
        /\ bundles[n].bar.time = TimePointCast(taken[i].time)
        /\ bundles[n + 1].bar.time = TimePointCast(taken[j].time)
        /\ j = bundles[n].to + 1
    BY <1>1 DEF PartitionInv, BundlesPartition, Summarises
  <1>3. i \in Nat \ {0} /\ j \in Nat \ {0} /\ bundles[n + 1].to <= begun
    BY <1>1 DEF PartitionInv, BundlesBegun
  <1>4. Len(taken) = begun + inWindow /\ begun \in Nat /\ inWindow \in Nat /\ Len(taken) \in Nat
    BY LenProperties DEF PartitionInv, TypeOK, BundlesPartition
  <1> HIDE DEF i, j
  <1>5. j = i + Need /\ i \in 1 .. Len(taken) /\ j \in 1 .. Len(taken) /\ 1 \in 1 .. Len(taken)
    BY <1>2, <1>3, <1>4, NeedAssumption
  <1>6. taken[i].time \in Int /\ taken[1].time \in Int
    BY <1>5, TimesOfBars DEF PartitionInv, TypeOK
  <1>7. taken[j].time = taken[i].time + Need
    <2>1. taken[i].time = taken[1].time + (i - 1) /\ taken[j].time = taken[1].time + (j - 1)
      BY <1>5 DEF MinutesCount
    <2> QED
      BY <1>3, <1>5, <1>6, <2>1, NeedAssumption
  <1> QED
    BY <1>2, <1>6, <1>7, CastMoves

(* For every Count, unit and feed in order, whoever throws: no two aggregated *)
(* bars have one label, and no label is skipped between them.                 *)
THEOREM LabelsAreEven == Spec => []LabelsEvenlySpaced
  <1>1. Init => MinutesCount
    BY DEF Init, MinutesCount
  <1>2. /\ PartitionInv /\ RowInv /\ MinutesCount /\ [Next]_vars
        => (PartitionInv /\ RowInv /\ MinutesCount)'
    BY PartitionStep, RowStep, CountStep
  <1>3. PartitionInv /\ MinutesCount => LabelsEvenlySpaced
    BY LabelsOfRow
  <1> QED
    BY PartitionInit, RowInit, <1>1, <1>2, <1>3, PTL DEF Spec

-----------------------------------------------------------------------------
(* The gap that is never closed. *)

(* A minute of the last accepted bar's symbol has been left out: the feed is  *)
(* past the only minute that on_bar() would accept.                           *)
Gap == last # NoBar /\ last.time + 1 < heard[last.symbol]

(* While there is a gap every bar is refused, and refusing keeps the gap.     *)
LEMMA GapStep ==
    ASSUME InOrder, TypeOK, Gap, [Next]_vars
    PROVE  Gap' /\ UNCHANGED <<state, history>>
  <1>1. CASE UNCHANGED vars
    BY <1>1 DEF Gap, vars, state, history
  <1>2. ASSUME NEW b \in Bar, OnBar(b)
        PROVE  Gap' /\ UNCHANGED <<state, history>>
    <2>1. last \in Bar /\ last.symbol \in Symbol /\ last.time \in Int /\ b.symbol \in Symbol
          /\ b.time \in Int
      BY <1>2 DEF Gap, TypeOK, Bar
    <2>2. heard[b.symbol] \in Int /\ heard[last.symbol] \in Int
      BY <2>1 DEF TypeOK
    <2>3. Deliver(b)
      BY <1>2 DEF OnBar, RefuseBar, ExtendWindow, EmitBar, EmitThrows
    <2>4. heard[b.symbol] <= b.time /\ heard' = [heard EXCEPT ![b.symbol] = b.time]
      BY <2>3 DEF Deliver
    <2>5. Refuses(b)
      <3>1. ~IsConsecutive(last, b)
        BY <2>1, <2>2, <2>4 DEF Gap, IsConsecutive
      <3> QED
        BY <3>1 DEF Gap, Refuses
    <2>6. UNCHANGED <<state, history>>
      BY <1>2, <2>5 DEF OnBar, RefuseBar, ExtendWindow, EmitBar, EmitThrows
    <2>7. last' = last
      BY <2>6 DEF state
    <2>8. heard'[last.symbol] >= heard[last.symbol] /\ heard'[last.symbol] \in Int
      BY <2>1, <2>2, <2>4 DEF TypeOK
    <2> QED
      BY <2>1, <2>2, <2>6, <2>7, <2>8 DEF Gap
  <1> QED
    BY <1>1, <1>2, FeedBarType DEF Next

(* One missing minute ends the consolidation for good: from a feed in order,  *)
(* on_bar() refuses every later bar, whichever they are, and no window is     *)
(* ever emitted again.  Run bars_gap shows one such behaviour.                *)
THEOREM GapIsFinal ==
    ASSUME InOrder
    PROVE  Spec => [][Gap => Gap' /\ UNCHANGED <<state, history>>]_vars
  <1>1. TypeOK /\ [Next]_vars => (Gap => Gap' /\ UNCHANGED <<state, history>>)
    BY GapStep
  <1> QED
    BY TypeCorrect, <1>1, PTL DEF Spec
=============================================================================
