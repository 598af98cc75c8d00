---------------------------- MODULE PipelineProofs ----------------------------
(* The pipeline is an aggregator and an engine: each keeps to its own         *)
(* specification, so that what is proved of either holds of it in the         *)
(* pipeline.  From both follows what the engine's bars stand for, and when    *)
(* the first reading comes, for any windows, periods and feeds.               *)
EXTENDS Pipeline, BarAggregatorProofs

EP == INSTANCE IndicatorEngineProofs WITH
          Candle <- EngineCandle, bars <- given, heard <- readings

LEMMA AggregatorStep == [PipelineNext]_<<vars, engine>> => [Next]_vars
<1> SUFFICES ASSUME [PipelineNext]_<<vars, engine>> PROVE [Next]_vars
  OBVIOUS
<1>1. CASE \E list \in Configs : MakeEngine(list)
  BY <1>1 DEF MakeEngine
<1>2. ASSUME NEW b \in FeedBar, TakeBar(b) \/ PassBar(b) \/ PassThrows(b)
      PROVE  Next
  BY <1>2 DEF TakeBar, PassBar, PassThrows, OnBar, Next
<1>3. CASE UNCHANGED <<vars, engine>>
  BY <1>3
<1> QED
  BY <1>1, <1>2, <1>3 DEF PipelineNext

(* The aggregator of a pipeline is a BarAggregator.                           *)
THEOREM AggregatorInPipeline == PipelineSpec => Spec
<1>1. PipelineInit => Init
  BY DEF PipelineInit
<1> QED
  BY <1>1, AggregatorStep, PTL DEF PipelineSpec, Spec

-----------------------------------------------------------------------------
(* Every bar of the engine has the parts of candles. *)
WindowOfCandles == current # NoBar => Parts(current) \in EngineCandle

LEMMA OpensWithCandles ==
    ASSUME NEW b \in FeedBar
    PROVE  Parts(Opened(b)) \in EngineCandle
BY DEF Parts, Opened, FeedBar, EngineCandle

LEMMA ExtendsWithCandles ==
    ASSUME NEW b \in FeedBar, Parts(current) \in EngineCandle
    PROVE  Parts(Extended(current, b)) \in EngineCandle
<1>1. /\ current.high \in {d.high : d \in Candle}
      /\ current.low \in {d.low : d \in Candle}
  BY DEF EngineCandle, Parts
<1> QED
  BY <1>1 DEF Extended, FeedBar, Parts, EngineCandle

LEMMA CandlesStep ==
    ASSUME TypeOK, WindowHasBar, WindowOfCandles, [PipelineNext]_<<vars, engine>>
    PROVE  WindowOfCandles'
<1>1. CASE \E list \in Configs : MakeEngine(list)
  BY <1>1 DEF MakeEngine, vars, WindowOfCandles
<1>2. ASSUME NEW b \in FeedBar, TakeBar(b) \/ PassBar(b) \/ PassThrows(b)
      PROVE  WindowOfCandles'
  <2>1. current' = current \/ Absorb(b)
    BY <1>2 DEF TakeBar, PassBar, PassThrows, RefuseBar, ExtendWindow, EmitBar, EmitThrows, state
  <2>2. CASE current' = current
    BY <2>2 DEF WindowOfCandles
  <2>3. CASE Absorb(b) /\ inWindow = 0
    BY <2>3, OpensWithCandles DEF WindowOfCandles, Absorb
  <2>4. CASE Absorb(b) /\ inWindow # 0
    <3>1. current # NoBar
      BY <2>4, NoBarAssumption DEF WindowHasBar, TypeOK
    <3> QED
      BY <2>4, <3>1, ExtendsWithCandles DEF WindowOfCandles, Absorb
  <2> QED
    BY <2>1, <2>2, <2>3, <2>4
<1>3. CASE UNCHANGED <<vars, engine>>
  BY <1>3 DEF vars, WindowOfCandles
<1> QED
  BY <1>1, <1>2, <1>3 DEF PipelineNext

LEMMA EngineStep ==
    ASSUME TypeOK, WindowHasBar, WindowOfCandles', [PipelineNext]_<<vars, engine>>
    PROVE  [Engine!Next]_(Engine!vars)
<1>1. CASE \E list \in Configs : MakeEngine(list)
  BY <1>1 DEF MakeEngine, Engine!Next
<1>2. ASSUME NEW b \in FeedBar, TakeBar(b) \/ PassBar(b) \/ PassThrows(b)
      PROVE  [Engine!Next]_(Engine!vars)
  <2>1. CASE TakeBar(b)
    BY <2>1 DEF TakeBar, engine, Engine!vars
  <2>2. CASE PassBar(b) \/ PassThrows(b)
    <3>1. Absorb(b) /\ Engine!OnBar(Parts(current'))
      BY <2>2 DEF PassBar, PassThrows, EmitBar, EmitThrows
    <3>2. current' \in Bar
      BY <3>1, FeedBarType, AbsorbType
    <3> QED
      BY <3>1, <3>2, NoBarAssumption DEF WindowOfCandles, Engine!Next
  <2> QED
    BY <1>2, <2>1, <2>2
<1>3. CASE UNCHANGED <<vars, engine>>
  BY <1>3 DEF engine, Engine!vars
<1> QED
  BY <1>1, <1>2, <1>3 DEF PipelineNext

LEMMA CandlesAlways == PipelineSpec => [](TypeOK /\ WindowHasBar /\ WindowOfCandles)
<1>1. PipelineInit => TypeOK /\ WindowHasBar /\ WindowOfCandles
  BY TypeInit DEF PipelineInit, Init, WindowOfCandles
<1>2. TypeOK /\ WindowHasBar /\ WindowOfCandles /\ [PipelineNext]_<<vars, engine>>
      => (TypeOK /\ WindowHasBar /\ WindowOfCandles)'
  BY AggregatorStep, TypeStep, CandlesStep
<1> QED
  BY <1>1, <1>2, PTL DEF PipelineSpec

(* The engine of a pipeline is an IndicatorEngine: the aggregator gives it no *)
(* bar but those that its specification allows.                               *)
THEOREM EngineInPipeline == PipelineSpec => Engine!Spec
<1>1. PipelineInit => Engine!Init
  BY DEF PipelineInit
<1>2. TypeOK /\ WindowHasBar /\ WindowOfCandles' /\ [PipelineNext]_<<vars, engine>>
      => [Engine!Next]_(Engine!vars)
  BY EngineStep
<1> QED
  BY <1>1, <1>2, CandlesAlways, PTL DEF PipelineSpec, Engine!Spec

-----------------------------------------------------------------------------
(* What the bars of the engine stand for *)

(* The aggregator and the engine count alike; a window that is as full as     *)
(* needed is one out of which a subscriber of the engine has thrown.          *)
Together ==
    /\ given \in Seq(EngineCandle)
    /\ begun = Need * Len(bundles)
    /\ EngineBarsSummarise
    /\ inWindow >= Need => built /\ Engine!IsReady

PipelineInv == PartitionInv /\ WindowOfCandles /\ Together

(* The minutes of the n-th bar are n * Need at most, and at least one. *)
LEMMA Minutes ==
    ASSUME NEW n \in Nat \ {0}
    PROVE  /\ n * Need \in Nat /\ (n - 1) * Need \in Nat
           /\ n * Need = (n - 1) * Need + Need
           /\ n * Need \in (n - 1) * Need + 1 .. n * Need
           /\ \A k \in (n - 1) * Need + 1 .. n * Need : k \in 1 .. n * Need
<1>1. Need \in Nat \ {0} /\ n - 1 \in Nat
  BY NeedAssumption
<1>2. n * Need \in Nat /\ (n - 1) * Need \in Nat
  BY <1>1
<1>3. n * Need = (n - 1) * Need + Need
  BY <1>1
<1> QED
  BY <1>1, <1>2, <1>3

LEMMA MoreMinutes ==
    ASSUME NEW m \in Nat, NEW n \in Nat, m <= n
    PROVE  m * Need <= n * Need /\ Need * m = m * Need
BY NeedAssumption

LEMMA StandsKept ==
    ASSUME NEW ts \in Seq(Bar), NEW b \in Bar, NEW e, NEW n \in Nat \ {0},
           n * Need <= Len(ts), StandsFor(e, n, ts)
    PROVE  StandsFor(e, n, Append(ts, b))
<1> DEFINE minutes == (n - 1) * Need + 1 .. n * Need
<1>1. n * Need \in minutes /\ \A k \in minutes : k \in 1 .. Len(ts)
  BY Minutes
<1>2. \A k \in minutes : Append(ts, b)[k] = ts[k]
  BY <1>1
<1> QED
  BY <1>1, <1>2 DEF StandsFor

LEMMA SummaryStands ==
    ASSUME NEW a, NEW n \in Nat \ {0}, NEW ts, NEW v,
           Summarises(a, (n - 1) * Need + 1, n * Need, ts, v)
    PROVE  StandsFor(Parts(a), n, ts)
BY DEF Summarises, StandsFor, Parts

(* A bar goes to the engine: it stands for the window that it closes. *)
LEMMA PassTogether ==
    ASSUME PipelineInv, PartitionInv', NEW b \in Bar, PassBar(b) \/ PassThrows(b),
           Parts(current') \in EngineCandle
    PROVE  Together'
<1> DEFINE k == Len(given)
<1>1. /\ given \in Seq(EngineCandle) /\ k \in Nat
      /\ Need \in Nat \ {0}
      /\ taken \in Seq(Bar) /\ Len(taken) \in Nat /\ inWindow \in Nat
      /\ bundles \in Seq(Bundle) /\ Len(bundles) \in Nat
  <2>1. Need \in Nat \ {0}
    BY NeedAssumption
  <2>2. given \in Seq(EngineCandle)
    BY Zenon DEF PipelineInv, Together
  <2>3. taken \in Seq(Bar) /\ inWindow \in Nat /\ bundles \in Seq(Bundle)
    BY Zenon DEF PipelineInv, PartitionInv, TypeOK
  <2>4. k \in Nat /\ Len(taken) \in Nat /\ Len(bundles) \in Nat
    BY <2>2, <2>3
  <2> QED
    BY <2>1, <2>2, <2>3, <2>4
<1>2. /\ inWindow + 1 = Need /\ Absorb(b)
      /\ given' = Append(given, Parts(current'))
  BY DEF PassBar, PassThrows, EmitBar, EmitThrows, Engine!OnBar
<1>3. k = Len(bundles) /\ begun = Need * k /\ Len(taken) = begun + inWindow
  BY <1>1, <1>2 DEF PipelineInv, Together, EngineBarsSummarise, PartitionInv, BundlesPartition
<1>4. /\ taken' = Append(taken, b) /\ Len(taken') = Len(taken) + 1
  BY <1>1, <1>2 DEF Absorb
<1>5. /\ k + 1 \in Nat \ {0} /\ (k + 1) - 1 = k
      /\ (k + 1) * Need = k * Need + Need /\ k * Need \in Nat /\ Need * k = k * Need
      /\ Need * (k + 1) = (k + 1) * Need
  BY <1>1, Minutes, MoreMinutes
<1>6. begun = k * Need /\ Len(taken) + 1 = (k + 1) * Need
  BY <1>1, <1>2, <1>3, <1>5
<1>7. Summarises(current', ((k + 1) - 1) * Need + 1, (k + 1) * Need, taken', sold')
  <2>1. CASE PassBar(b)
    <3>1. bundles' = Append(bundles, [bar |-> current', from |-> begun + 1, to |-> Len(taken) + 1])
      BY <2>1 DEF PassBar, EmitBar
    <3>2. Len(bundles') = k + 1 /\ k + 1 \in 1 .. Len(bundles')
          /\ bundles'[k + 1] = [bar |-> current', from |-> begun + 1, to |-> Len(taken) + 1]
      BY <3>1, <1>1, <1>3
    <3>3. Summarises(bundles'[k + 1].bar, bundles'[k + 1].from, bundles'[k + 1].to, taken', sold')
      BY <3>2 DEF PartitionInv, BundlesPartition
    <3> QED
      BY <3>2, <3>3, <1>5, <1>6
  <2>2. CASE PassThrows(b)
    <3>1. inWindow' = Need /\ begun' = begun
      BY <2>2 DEF PassThrows, EmitThrows
    <3>2. Summarises(current', begun + 1, Len(taken) + 1, taken', sold')
      BY <3>1, <1>1, <1>4 DEF PartitionInv, BundlesPartition
    <3> QED
      BY <3>2, <1>5, <1>6
  <2> QED
    BY <2>1, <2>2
<1>8. StandsFor(Parts(current'), k + 1, taken')
  BY <1>5, <1>7, SummaryStands
<1>9. /\ given' \in Seq(EngineCandle) /\ Len(given') = k + 1
      /\ given'[k + 1] = Parts(current')
      /\ \A n \in 1 .. k : given'[n] = given[n]
  BY <1>1, <1>2
<1>10. \A n \in 1 .. Len(given') : StandsFor(given'[n], n, taken')
  <2>1. ASSUME NEW n \in 1 .. k PROVE StandsFor(given'[n], n, taken')
    <3>1. n \in Nat \ {0} /\ n <= k
      BY <1>1
    <3>2. n * Need <= Len(taken)
      BY <3>1, <1>1, <1>3, <1>5, MoreMinutes, Minutes
    <3>3. StandsFor(given[n], n, taken)
      BY <2>1 DEF PipelineInv, Together, EngineBarsSummarise
    <3> QED
      BY <3>1, <3>2, <3>3, <1>1, <1>4, <1>9, StandsKept
  <2>2. \A n \in 1 .. k + 1 : n \in 1 .. k \/ n = k + 1
    BY <1>1
  <2> QED
    BY <2>1, <2>2, <1>8, <1>9
<1>11. /\ Len(given') = IF inWindow' < Need THEN Len(bundles') ELSE Len(bundles') + 1
       /\ begun' = Need * Len(bundles')
  <2>1. CASE PassBar(b)
    <3>1. inWindow' = 0 /\ begun' = Len(taken) + 1 /\ Len(bundles') = Len(bundles) + 1
      BY <2>1, <1>1 DEF PassBar, EmitBar
    <3> QED
      BY <3>1, <1>1, <1>3, <1>5, <1>6, <1>9, SMTT(20)
  <2>2. CASE PassThrows(b)
    <3>1. inWindow' = Need /\ begun' = begun /\ bundles' = bundles
      BY <2>2 DEF PassThrows, EmitThrows
    <3> QED
      BY <3>1, <1>1, <1>3, <1>9
  <2> QED
    BY <2>1, <2>2
<1>12. inWindow' >= Need => built' /\ Engine!IsReady'
  <2>1. CASE PassBar(b)
    BY <2>1, <1>1 DEF PassBar, EmitBar
  <2>2. CASE PassThrows(b)
    BY <2>2 DEF PassThrows, Engine!OnBar
  <2> QED
    BY <2>1, <2>2
<1> QED
  BY <1>9, <1>10, <1>11, <1>12 DEF Together, EngineBarsSummarise

LEMMA TogetherStep == PipelineInv /\ [PipelineNext]_<<vars, engine>> => PipelineInv'
<1> SUFFICES ASSUME PipelineInv, [PipelineNext]_<<vars, engine>> PROVE PipelineInv'
  OBVIOUS
<1>1. PartitionInv'
  BY AggregatorStep, PartitionStep DEF PipelineInv
<1>2. WindowOfCandles'
  BY CandlesStep DEF PipelineInv, PartitionInv
<1>3. CASE UNCHANGED vars /\ UNCHANGED <<given, built, names, period, count>>
  BY <1>1, <1>2, <1>3 DEF PipelineInv, Together, EngineBarsSummarise, vars, Engine!IsReady, Engine!IsFull
<1>4. ASSUME NEW list \in Configs, MakeEngine(list) PROVE Together'
  <2>1. /\ UNCHANGED <<current, inWindow, taken, bundles, begun, given>>
        /\ ~built
    BY <1>4 DEF MakeEngine, vars, Engine!Construct
  <2> QED
    BY <2>1 DEF PipelineInv, Together, EngineBarsSummarise
<1>5. ASSUME NEW b \in Bar, TakeBar(b) PROVE Together'
  <2>1. /\ UNCHANGED <<bundles, begun, given, built, names, period, count>>
        /\ taken' = taken \/ taken' = Append(taken, b)
        /\ inWindow' = inWindow \/ (inWindow' = inWindow + 1 /\ inWindow + 1 # Need)
    BY <1>5 DEF TakeBar, RefuseBar, ExtendWindow, Absorb, engine, state, history
  <2>2. /\ taken \in Seq(Bar) /\ Len(taken) \in Nat /\ inWindow \in Nat /\ Need \in Nat \ {0}
        /\ Len(given) \in Nat /\ Len(bundles) \in Nat
        /\ Len(taken) = begun + inWindow
    <3>1. TypeOK /\ BundlesPartition /\ given \in Seq(EngineCandle)
      BY Zenon DEF PipelineInv, PartitionInv, Together
    <3>2. taken \in Seq(Bar) /\ inWindow \in Nat /\ Len(taken) = begun + inWindow
      BY <3>1, Zenon DEF TypeOK, BundlesPartition
    <3>3. Len(bundles) \in Nat /\ Len(given) \in Nat
      BY <3>1 DEF TypeOK
    <3> QED
      BY <3>2, <3>3, NeedAssumption
  <2>3. inWindow' < Need <=> inWindow < Need
    BY <2>1, <2>2
  <2>4. ASSUME NEW n \in 1 .. Len(given) PROVE StandsFor(given[n], n, taken')
    <3>1. n \in Nat \ {0} /\ n <= Len(given)
      BY <2>2
    <3>2. Len(given) * Need <= Len(taken)
      <4>1. CASE inWindow < Need
        <5>1. Len(given) = Len(bundles) /\ begun = Need * Len(bundles)
          BY <4>1 DEF PipelineInv, Together, EngineBarsSummarise
        <5>2. Need * Len(bundles) = Len(bundles) * Need /\ Len(bundles) * Need \in Nat
          BY <2>2, MoreMinutes
        <5> QED
          BY <5>1, <5>2, <2>2
      <4>2. CASE inWindow >= Need
        <5>1. Len(given) = Len(bundles) + 1 /\ begun = Need * Len(bundles)
          BY <4>2, <2>2 DEF PipelineInv, Together, EngineBarsSummarise
        <5>2. (Len(bundles) + 1) * Need = Len(bundles) * Need + Need /\ Len(bundles) * Need \in Nat
              /\ Need * Len(bundles) = Len(bundles) * Need
          BY <2>2, MoreMinutes
        <5> QED
          BY <4>2, <5>1, <5>2, <2>2
      <4> QED
        BY <4>1, <4>2, <2>2
    <3>3. n * Need <= Len(taken)
      BY <3>1, <3>2, <2>2, MoreMinutes
    <3>4. StandsFor(given[n], n, taken)
      BY DEF PipelineInv, Together, EngineBarsSummarise
    <3> QED
      BY <3>1, <3>3, <3>4, <2>1, <2>2, StandsKept
  <2>5. Len(given') = IF inWindow' < Need THEN Len(bundles') ELSE Len(bundles') + 1
    BY <2>1, <2>3 DEF PipelineInv, Together, EngineBarsSummarise
  <2>6. inWindow' >= Need => built' /\ Engine!IsReady'
    <3>1. Engine!IsReady' <=> Engine!IsReady
      BY <2>1 DEF Engine!IsReady, Engine!IsFull
    <3>2. inWindow' >= Need => inWindow >= Need
      BY <2>1, <2>2
    <3> QED
      BY <2>1, <3>1, <3>2 DEF PipelineInv, Together
  <2> QED
    BY <2>1, <2>4, <2>5, <2>6 DEF PipelineInv, Together, EngineBarsSummarise
<1>6. ASSUME NEW b \in Bar, PassBar(b) \/ PassThrows(b) PROVE Together'
  <2>1. current' \in Bar
    <3>1. Absorb(b)
      BY <1>6 DEF PassBar, PassThrows, EmitBar, EmitThrows
    <3> QED
      BY <3>1, AbsorbType DEF PipelineInv, PartitionInv
  <2>2. Parts(current') \in EngineCandle
    BY <2>1, <1>2, NoBarAssumption DEF WindowOfCandles
  <2> QED
    BY <1>1, <1>6, <2>2, PassTogether
<1>7. Together'
  <2>1. ASSUME NEW b \in FeedBar, TakeBar(b) \/ PassBar(b) \/ PassThrows(b)
        PROVE  Together'
    <3>1. b \in Bar
      BY FeedBarType
    <3> QED
      BY <2>1, <3>1, <1>5, <1>6
  <2>2. CASE UNCHANGED <<vars, engine>>
    BY <2>2, <1>3 DEF engine, PipelineInv
  <2> QED
    BY <1>4, <2>1, <2>2 DEF PipelineNext
<1> QED
  BY <1>1, <1>2, <1>7 DEF PipelineInv

LEMMA TogetherInit == PipelineInit => PipelineInv
<1> SUFFICES ASSUME PipelineInit PROVE PipelineInv
  OBVIOUS
<1>1. PartitionInv
  BY PartitionInit DEF PipelineInit
<1>2. current = NoBar /\ bundles = <<>> /\ begun = 0 /\ inWindow = 0 /\ given = <<>>
  BY DEF PipelineInit, Init, Engine!Init
<1>3. Len(given) = 0 /\ Len(bundles) = 0 /\ Need \in Nat \ {0} /\ Need * 0 = 0
  BY <1>2, NeedAssumption
<1>4. Together
  BY <1>2, <1>3 DEF Together, EngineBarsSummarise
<1> QED
  BY <1>1, <1>2, <1>4 DEF PipelineInv, WindowOfCandles

LEMMA PipelineInvAlways == PipelineSpec => []PipelineInv
<1> QED
  BY TogetherInit, TogetherStep, PTL DEF PipelineSpec

(* Each bar of the engine summarises Need accepted minutes, without overlap   *)
(* and without a gap, also once a subscriber of the engine has thrown.        *)
THEOREM EngineGetsSummaries == PipelineSpec => []EngineBarsSummarise
<1>1. PipelineInv => EngineBarsSummarise
  BY DEF PipelineInv, Together
<1> QED
  BY <1>1, PipelineInvAlways, PTL

-----------------------------------------------------------------------------
(* When the first reading comes.  EP is the engine, as its proofs know it.    *)

LEMMA SameFractions ==
    /\ \A n : Engine!Whole(n) = EP!Whole(n)
    /\ \A n, d : Engine!Frac(n, d) = EP!Frac(n, d)
    /\ \A p, q : /\ Engine!Plus(p, q) = EP!Plus(p, q)
                 /\ Engine!Minus(p, q) = EP!Minus(p, q)
                 /\ Engine!Times(p, q) = EP!Times(p, q)
<1>1. \A n, d : Engine!Frac(n, d) = EP!Frac(n, d)
  BY Zenon DEF Engine!Frac, EP!Frac
<1> QED
  BY <1>1, Zenon DEF Engine!Whole, EP!Whole, Engine!Plus, EP!Plus, Engine!Minus, EP!Minus,
                     Engine!Times, EP!Times

LEMMA SameSeries ==
    /\ Engine!Series = EP!Series
    /\ \A s : /\ Engine!OwnerOf(s) = EP!OwnerOf(s)
              /\ Engine!SeriesOf(s) = EP!SeriesOf(s)
              /\ Engine!IsFull(s) <=> EP!IsFull(s)
              /\ Engine!NextCount(s) = EP!NextCount(s)
BY Zenon DEF Engine!Series, EP!Series, Engine!OwnerOf, EP!OwnerOf, Engine!SeriesOf, EP!SeriesOf,
             Engine!IsFull, EP!IsFull, Engine!NextCount, EP!NextCount

LEMMA SameReady == Engine!IsReady <=> EP!IsReady
BY SameSeries, Zenon DEF Engine!IsReady, EP!IsReady

LEMMA SameNeeds == \A name : Engine!BarsNeeded(name) = EP!BarsNeeded(name)
BY Zenon DEF Engine!BarsNeeded, EP!BarsNeeded, Engine!Later, EP!Later

LEMMA SameInit == Engine!Init <=> EP!Init
BY SameFractions, SameSeries, Zenon DEF Engine!Init, EP!Init

LEMMA SameConstruct == \A list : Engine!Construct(list) <=> EP!Construct(list)
BY Zenon DEF Engine!Construct, EP!Construct, Engine!Creatable, EP!Creatable,
             Engine!Registered, EP!Registered, Engine!SeriesOf, EP!SeriesOf, Engine!Key, EP!Key,
             Engine!LastOf, EP!LastOf, Engine!OwnerOf, EP!OwnerOf, Engine!Series, EP!Series

LEMMA SameWrites ==
    /\ Engine!Written = EP!Written
    /\ \A s, bar : Engine!WriteOf(s, bar) = EP!WriteOf(s, bar)
    /\ \A name, of : Engine!Reading(name, of) = EP!Reading(name, of)
<1>1. Engine!Written = EP!Written
  BY SameSeries, Zenon DEF Engine!Written, EP!Written, Engine!SignalDue, EP!SignalDue
<1>2. \A bar, close : Engine!CalcTr(bar, close) = EP!CalcTr(bar, close)
  BY Zenon DEF Engine!CalcTr, EP!CalcTr, Engine!Largest, EP!Largest, Engine!Distance, EP!Distance
<1>3. \A s, x : /\ Engine!MeanWith(s, x) = EP!MeanWith(s, x)
                /\ Engine!Smoothed(s, x) = EP!Smoothed(s, x)
  BY SameFractions, SameSeries, Zenon
     DEF Engine!MeanWith, EP!MeanWith, Engine!Smoothed, EP!Smoothed
<1>4. \A s, x : Engine!EmaWrite(s, x) = EP!EmaWrite(s, x)
  BY <1>3, SameSeries, Zenon DEF Engine!EmaWrite, EP!EmaWrite
<1>5. \A s, bar : Engine!WriteOf(s, bar) = EP!WriteOf(s, bar)
  BY <1>2, <1>3, <1>4, SameFractions, Zenon DEF Engine!WriteOf, EP!WriteOf
<1>6. \A name, of : Engine!Reading(name, of) = EP!Reading(name, of)
  BY SameFractions, Zenon DEF Engine!Reading, EP!Reading
<1> QED
  BY <1>1, <1>5, <1>6

LEMMA SameOnBar == \A bar : Engine!OnBar(bar) <=> EP!OnBar(bar)
<1>1. Engine!IsReady' <=> EP!IsReady'
  BY SameReady, PTL
<1>2. Engine!Notify <=> EP!Notify
  BY <1>1, SameWrites, Zenon DEF Engine!Notify, EP!Notify
<1> QED
  BY <1>2, SameWrites, SameSeries, Zenon DEF Engine!OnBar, EP!OnBar

LEMMA SameEngine == Engine!Spec <=> EP!Spec
<1>1. [Engine!Next]_(Engine!vars) <=> [EP!Next]_(EP!vars)
  BY SameConstruct, SameOnBar DEF Engine!Next, EP!Next, Engine!vars, EP!vars
<1> QED
  BY <1>1, SameInit, PTL DEF Engine!Spec, EP!Spec

(* The closes of candles are not negative, and periods are positive. *)
LEMMA EngineMayRun == EP!ConfigsAssumption /\ EP!CandleAssumption /\ EP!MaxBarsAssumption
<1>1. \A c \in Candle : c.high \in Int /\ c.low \in Int /\ c.close \in Nat
  BY EngineAssumption, CandleAssumption
<1>2. EP!CandleAssumption
  BY <1>1 DEF EngineCandle, EP!CandleAssumption
<1> QED
  BY <1>2, EngineAssumption DEF EP!ConfigsAssumption, EP!MaxBarsAssumption

(* In minutes: the engine has n bars once n * Need of them are accepted. *)
LEMMA BarsAndMinutes ==
    ASSUME PipelineInv, NEW n \in Nat, inWindow < Need \/ n <= Len(given)
    PROVE  Len(given) >= n <=> Len(taken) >= Need * n
<1> DEFINE k == Len(given)
<1>1. /\ k \in Nat /\ Need \in Nat \ {0} /\ inWindow \in Nat /\ Len(bundles) \in Nat
      /\ Len(taken) = begun + inWindow /\ begun = Need * Len(bundles)
      /\ k = IF inWindow < Need THEN Len(bundles) ELSE Len(bundles) + 1
  BY NeedAssumption
     DEF PipelineInv, PartitionInv, TypeOK, Together, BundlesPartition, EngineBarsSummarise
<1>2. Need * Len(bundles) = Len(bundles) * Need /\ Need * n = n * Need
  BY <1>1, MoreMinutes
<1>3. (Len(bundles) + 1) * Need = Len(bundles) * Need + Need
      /\ n * Need \in Nat /\ Len(bundles) * Need \in Nat
  BY <1>1
<1>4. CASE inWindow < Need
  <2>1. CASE n <= Len(bundles)
    BY <2>1, <1>1, <1>2, <1>3, <1>4, MoreMinutes
  <2>2. CASE n >= Len(bundles) + 1
    <3>1. (Len(bundles) + 1) * Need <= n * Need
      BY <2>2, <1>1, MoreMinutes
    <3> QED
      BY <2>2, <3>1, <1>1, <1>2, <1>3, <1>4
  <2> QED
    BY <2>1, <2>2, <1>1
<1>5. CASE inWindow >= Need
  <2>1. n * Need <= (Len(bundles) + 1) * Need
    BY <1>1, <1>5, MoreMinutes
  <2> QED
    BY <2>1, <1>1, <1>2, <1>3, <1>5
<1> QED
  BY <1>1, <1>4, <1>5

LEMMA ReadingsTell ==
    ASSUME PipelineInv, EP!CountersInv, EP!HeardInv
    PROVE  FirstReading
<1> SUFFICES ASSUME built, names # {}
             PROVE  readings # <<>> <=> \A name \in names : Len(taken) >= Need * Engine!BarsNeeded(name)
  BY DEF FirstReading
<1> DEFINE k == Len(given)
           need(name) == Engine!BarsNeeded(name)
           due == {n \in 1 .. k : \A name \in names : n >= need(name)}
<1>1. k \in Nat
  BY DEF PipelineInv, Together
<1>2. \A name \in names : need(name) \in Nat \ {0}
  <2>1. ASSUME NEW name \in names PROVE need(name) \in Nat \ {0}
    <3>1. name \in {"EMA", "ATR", "MACD"} /\ \A s \in EP!Series : period[s] \in Nat
      BY DEF EP!CountersInv, EP!Shape, EP!Registered
    <3>2. \A s \in EP!Series : EP!OwnerOf(s) \in names => period[s] # 0
      BY DEF EP!CountersInv, EP!Shape
    <3>3. EP!BarsNeeded(name) \in Nat \ {0}
      BY <3>1, <3>2 DEF EP!BarsNeeded, EP!Later, EP!Series, EP!OwnerOf
    <3> QED
      BY <3>3, SameNeeds
  <2> QED
    BY <2>1
<1>3. Len(readings) = EP!Cardinality(due)
  BY SameNeeds DEF EP!HeardInv, EP!UpdatesEveryBar
<1>4. readings # <<>> <=> due # {}
  <2>1. PICK S : readings \in Seq(S)
    BY DEF EP!HeardInv
  <2>2. EP!IsFiniteSet(due)
    <3>1. EP!IsFiniteSet(1 .. k)
      <4> HIDE DEF k
      <4>1. 1 \in Int /\ k \in Int
        BY <1>1
      <4> QED
        BY <4>1, EngineMayRun, EP!FS_Interval, Zenon
    <3>2. due \subseteq 1 .. k
      OBVIOUS
    <3> QED
      BY <3>1, <3>2, EngineMayRun, EP!FS_Subset
  <2>3. EP!Cardinality(due) = 0 <=> due = {}
    BY <2>2, EngineMayRun, EP!FS_EmptySet
  <2> QED
    BY <2>1, <2>3, <1>3
<1>5. due # {} <=> \A name \in names : k >= need(name)
  <2>1. ASSUME NEW n \in due PROVE \A name \in names : k >= need(name)
    BY <1>1, <1>2
  <2>2. ASSUME \A name \in names : k >= need(name) PROVE k \in due
    <3>1. PICK name \in names : TRUE
      OBVIOUS
    <3>2. k >= 1
      BY <1>1, <1>2, <2>2, <3>1
    <3> QED
      BY <1>1, <2>2, <3>2
  <2> QED
    BY <2>1, <2>2
<1>6. inWindow >= Need => \A name \in names : need(name) <= k
  <2>1. inWindow >= Need => EP!IsReady
    BY SameReady DEF PipelineInv, Together
  <2>2. EP!ReadyWhenNeeded
    BY EngineMayRun, EP!CountersTell
  <2>3. EP!IsReady => \A name \in names : k >= EP!BarsNeeded(name)
    BY <2>2 DEF EP!ReadyWhenNeeded
  <2> QED
    BY <1>1, <1>2, <2>1, <2>3, SameNeeds
<1>7. \A name \in names : k >= need(name) <=> Len(taken) >= Need * need(name)
  <2>1. inWindow \in Nat /\ Need \in Nat
    BY NeedAssumption DEF PipelineInv, PartitionInv, TypeOK
  <2> TAKE name \in names
  <2>2. need(name) \in Nat
    BY <1>2
  <2>3. inWindow < Need \/ need(name) <= k
    BY <1>6, <2>1
  <2> HIDE DEF need, due
  <2> QED
    BY <2>2, <2>3, BarsAndMinutes
<1> QED
  BY <1>4, <1>5, <1>7

(* The subscribers hear for the first time with the minute that completes     *)
(* the bars of the slowest indicator.                                         *)
THEOREM FirstReadingOnTime == PipelineSpec => []FirstReading
<1>1. EP!Spec => []EP!CountersInv
  BY EngineMayRun, EP!CountersAlways, Zenon
<1>2. EP!Spec => []EP!HeardInv
  BY EngineMayRun, EP!HeardAlways, Zenon
<1>3. PipelineInv /\ EP!CountersInv /\ EP!HeardInv => FirstReading
  BY ReadingsTell
<1> QED
  BY <1>1, <1>2, <1>3, SameEngine, EngineInPipeline, PipelineInvAlways, PTL

-----------------------------------------------------------------------------
(* What the readings stand for *)

LEMMA SameEma == \A xs, p : Engine!Ema(xs, p) = EP!Ema(xs, p)
<1>1. \A xs : Engine!Total(xs) = EP!Total(xs)
  BY Zenon DEF Engine!Total, EP!Total, Engine!Plus, EP!Plus, Engine!Whole, EP!Whole,
               Engine!Frac, EP!Frac
<1>2. \A p, n : Engine!Power(p, n) = EP!Power(p, n)
  BY ZenonT(40) DEF Engine!Power, EP!Power, Engine!Times, EP!Times, Engine!Whole, EP!Whole,
               Engine!Frac, EP!Frac
<1>3. \A i, k, p, alpha : Engine!Weight(i, k, p, alpha) = EP!Weight(i, k, p, alpha)
  BY <1>2, SameFractions DEF Engine!Weight, EP!Weight
<1>4. \A xs, p, alpha : Engine!Average(xs, p, alpha) = EP!Average(xs, p, alpha)
  BY <1>1, <1>3, SameFractions, Zenon DEF Engine!Average, EP!Average
<1> QED
  BY <1>4, SameFractions, Zenon DEF Engine!Ema, EP!Ema

(* Each bar of the engine closes with the last of its minutes. *)
LEMMA ClosesAreMinutes ==
    ASSUME PipelineInv
    PROVE  [n \in 1 .. Len(given) |-> Engine!Whole(taken[n * Need].close)] = EP!Closes(Len(given))
<1>1. \A n \in 1 .. Len(given) : given[n].close = taken[n * Need].close
  BY DEF PipelineInv, Together, EngineBarsSummarise, StandsFor
<1> QED
  BY <1>1, SameFractions DEF EP!Closes

(* The moving averages of the pipeline are those of the closes of every       *)
(* Need-th accepted minute, for any feed, periods and window: no minute that  *)
(* counts is left out, and none counts twice, also when subscribers throw.    *)
THEOREM ReadingsOfMinutes == PipelineSpec => []AveragesOfMinutes
<1>1. EP!Spec => []EP!MatchesTextbook
  BY EngineMayRun, EP!ReadingsAreTextbook, Zenon
<1>2. PipelineInv /\ EP!MatchesTextbook => AveragesOfMinutes
  <2> SUFFICES ASSUME PipelineInv, EP!MatchesTextbook,
                      NEW s \in {"EMA", "fast", "slow"},
                      Engine!OwnerOf(s) \in names, given # <<>>
               PROVE  value[s] = Engine!Ema(
                          [n \in 1 .. Len(given) |-> Engine!Whole(taken[n * Need].close)], period[s])
    BY Zenon DEF AveragesOfMinutes
  <2>1. EP!OwnerOf(s) \in names
    BY SameSeries
  <2>2. value[s] = EP!Ema(EP!Closes(Len(given)), period[s])
    BY <2>1, Zenon DEF EP!MatchesTextbook
  <2> QED
    BY <2>2, ClosesAreMinutes, SameEma, Zenon
<1> QED
  BY <1>1, <1>2, SameEngine, EngineInPipeline, PipelineInvAlways, PTL

-----------------------------------------------------------------------------
(* The gap, as the engine sees it. *)

(* While there is a gap the engine gets no bar. *)
LEMMA NoBarInGap ==
    ASSUME InOrder, TypeOK, Gap, [PipelineNext]_<<vars, engine>>
    PROVE  Gap' /\ UNCHANGED <<given, readings>>
<1>1. Gap' /\ UNCHANGED <<state, history>>
  BY AggregatorStep, GapStep
<1>2. CASE \E list \in Configs : MakeEngine(list)
  BY <1>1, <1>2 DEF MakeEngine, Engine!Construct
<1>3. ASSUME NEW b \in FeedBar, TakeBar(b) PROVE UNCHANGED <<given, readings>>
  BY <1>3 DEF TakeBar, engine
<1>4. ASSUME NEW b \in FeedBar, EmitBar(b) \/ EmitThrows(b) PROVE FALSE
  <2>1. taken' = Append(taken, b) /\ taken' = taken
    BY <1>1, <1>4 DEF EmitBar, EmitThrows, Absorb, history
  <2>2. taken \in Seq(Bar) /\ b \in Bar
    BY FeedBarType DEF TypeOK
  <2>3. Len(Append(taken, b)) = Len(taken) + 1 /\ Len(taken) \in Nat
    BY <2>2
  <2> QED
    BY <2>1, <2>3
<1>5. CASE UNCHANGED <<vars, engine>>
  BY <1>1, <1>5 DEF engine
<1>6. ASSUME NEW b \in FeedBar, PassBar(b) \/ PassThrows(b) PROVE FALSE
  BY <1>4, <1>6 DEF PassBar, PassThrows
<1>7. CASE PipelineNext
  BY <1>1, <1>2, <1>3, <1>6, <1>7 DEF PipelineNext
<1> QED
  BY <1>1, <1>5, <1>7

(* After one missing minute the engine's subscribers hear nothing any more,   *)
(* whichever bars the feed brings and whatever the engine is made of.         *)
THEOREM GapSilencesEngine ==
    ASSUME InOrder
    PROVE  PipelineSpec => [][Gap => Gap' /\ UNCHANGED <<given, readings>>]_<<vars, engine>>
<1>1. TypeOK /\ [PipelineNext]_<<vars, engine>> => (Gap => Gap' /\ UNCHANGED <<given, readings>>)
  BY NoBarInGap
<1>2. PipelineSpec => []TypeOK
  BY AggregatorInPipeline, TypeCorrect, PTL
<1> QED
  BY <1>1, <1>2, PTL DEF PipelineSpec
=============================================================================
