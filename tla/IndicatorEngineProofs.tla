------------------------ MODULE IndicatorEngineProofs ------------------------
(* The engine becomes ready with exactly the bar its slowest indicator needs, *)
(* calls its subscribers once for each bar from then on, and every indicator  *)
(* is the weighted sum that its textbook definition says, for any             *)
(* configurations, periods and prices.                                        *)
(*                                                                            *)
(* Induction over the bars is an invariant; over the terms of a sum it is the *)
(* argument that a set of naturals, here of counterexamples, has a least one. *)
EXTENDS IndicatorEngine, SequenceTheorems, FiniteSetTheorems, WellFoundedInduction, TLAPS

(* What the variables look like, and what they are before the construction. *)
Shape ==
    /\ built \in BOOLEAN
    /\ names \subseteq Registered
    /\ period \in [Series -> Nat]
    /\ \A s \in Series : OwnerOf(s) \in names => period[s] # 0
    /\ count \in [Series -> Nat]
    /\ prevClose \in Int
    /\ bars \in Seq(Candle)
    /\ ~built => /\ names = {} /\ bars = <<>> /\ heard = <<>>
                 /\ prevClose = -1 /\ count = [s \in Series |-> 0]

(* n, as far as a counter with a limit of p can tell. *)
UpTo(n, p) == IF n < 0 THEN 0 ELSE IF n < p THEN n ELSE p

(* The counters: ATR's runs one bar late, the signal line's as many as the    *)
(* slower of the two averages needs.                                          *)
Counters ==
    /\ \A s \in {"EMA", "fast", "slow"} :
          OwnerOf(s) \in names => count[s] = UpTo(Len(bars), period[s])
    /\ "ATR" \in names =>
          /\ prevClose = -1 <=> Len(bars) = 0
          /\ count["ATR"] = UpTo(Len(bars) - 1, period["ATR"])
    /\ "MACD" \in names =>
          count["signal"] =
              UpTo(Len(bars) - Later(period["fast"], period["slow"]), period["signal"])

CountersInv == Shape /\ Counters

(* A set of naturals has a least one. *)
LEMMA LeastNatural ==
    ASSUME NEW T, T \subseteq Nat, T # {} PROVE \E n \in T : \A m \in T : n <= m
  <1>1. \E n \in T : \A m \in T : ~(<<m, n>> \in OpToRel(<, Nat))
    BY NatLessThanWellFounded, WFMin, Zenon
  <1>2. PICK n \in T : \A m \in T : ~(m < n)
    BY <1>1 DEF OpToRel
  <1> QED
    BY <1>2

(* A name that occurs in a list of configurations occurs somewhere last. *)
LEMMA LastOccurs ==
    ASSUME NEW list, Len(list) \in Nat, NEW name,
           NEW i \in 1 .. Len(list), list[i].name = name
    PROVE  \E k \in 1 .. Len(list) :
              list[k].name = name /\ \A j \in k + 1 .. Len(list) : list[j].name # name
  <1> DEFINE T == {n \in Nat : \E k \in 1 .. Len(list) :
                                  n = Len(list) - k /\ list[k].name = name}
  <1>1. T \subseteq Nat /\ T # {}
    <2>1. Len(list) - i \in T
      OBVIOUS
    <2> QED
      BY <2>1
  <1>2. PICK n \in T : \A m \in T : n <= m
    <2> HIDE DEF T
    <2> QED
      BY <1>1, LeastNatural
  <1>4. PICK k \in 1 .. Len(list) : n = Len(list) - k /\ list[k].name = name
    OBVIOUS
  <1>5. ASSUME NEW j \in k + 1 .. Len(list), list[j].name = name PROVE FALSE
    <2>1. Len(list) - j \in T
      BY <1>5
    <2>2. ~(n <= Len(list) - j)
      BY <1>4
    <2> HIDE DEF T
    <2> QED
      BY <2>1, <2>2, <1>2
  <1> QED
    BY <1>4, <1>5

(* The constructor gives every series of an indicator a positive period. *)
LEMMA ConstructShape ==
    ASSUME Shape, NEW list \in Configs, Construct(list)
    PROVE  Shape'
  <1>1. names' \subseteq Registered
    BY DEF Construct, Creatable
  <1>2. ASSUME NEW s \in Series, OwnerOf(s) \in names'
        PROVE  LastOf(list, OwnerOf(s))[Key(s)] \in Nat \ {0}
    <2>1. PICK i \in 1 .. Len(list) : list[i].name = OwnerOf(s)
      BY <1>2 DEF Construct
    <2> DEFINE IsLast(k) == /\ list[k].name = OwnerOf(s)
                            /\ \A j \in k + 1 .. Len(list) : list[j].name # OwnerOf(s)
               at == CHOOSE k \in 1 .. Len(list) : IsLast(k)
    <2>2. \E k \in 1 .. Len(list) : IsLast(k)
      BY <2>1, LastOccurs, ConfigsAssumption
    <2>3. at \in 1 .. Len(list) /\ list[at].name = OwnerOf(s)
      BY <2>2
    <2>4. s \in SeriesOf(OwnerOf(s))
      BY DEF SeriesOf, OwnerOf, Series
    <2>5. Key(s) \in DOMAIN list[at].params
      BY <2>3, <2>4 DEF Construct, Creatable
    <2>6. LastOf(list, OwnerOf(s)) = list[at].params
      BY DEF LastOf
    <2> QED
      BY <2>3, <2>5, <2>6, ConfigsAssumption
  <1>3. period' = [s \in Series |-> IF OwnerOf(s) \in names'
                                    THEN LastOf(list, OwnerOf(s))[Key(s)] ELSE 0]
    BY DEF Construct
  <1>4. period' \in [Series -> Nat] /\ \A s \in Series : OwnerOf(s) \in names' => period'[s] # 0
    BY <1>2, <1>3
  <1> QED
    BY <1>1, <1>4 DEF Construct, Shape

(* Before the first bar all counters stand at zero. *)
LEMMA ConstructCounters ==
    ASSUME Shape, NEW list \in Configs, Construct(list), Shape'
    PROVE  Counters'
  <1>1. /\ Len(bars') = 0 /\ prevClose' = -1
        /\ \A s \in Series : count'[s] = 0
    BY DEF Construct, Shape
  <1>2. \A s \in Series : period'[s] \in Nat
    BY DEF Shape
  <1>3. UpTo(0, 0) = 0 /\ \A p \in Nat : UpTo(0, p) = 0 /\ UpTo(0 - 1, p) = 0
    BY DEF UpTo
  <1>4. UpTo(0 - Later(period'["fast"], period'["slow"]), period'["signal"]) = 0
    BY <1>2 DEF UpTo, Later, Series
  <1> QED
    BY <1>1, <1>2, <1>3, <1>4 DEF Counters, Series

(* What a bar does to one counter. *)
LEMMA CountStep ==
    ASSUME Shape, NEW bar \in Candle, OnBar(bar), NEW s \in Series
    PROVE  count'[s] = IF s \in Written /\ count[s] < period[s] THEN count[s] + 1 ELSE count[s]
  BY DEF OnBar, NextCount, IsFull, Shape

(* A bar moves each counter to where the number of bars says it is. *)
LEMMA OnBarCounters ==
    ASSUME CountersInv, NEW bar \in Candle, OnBar(bar)
    PROVE  CountersInv'
  <1> DEFINE k == Len(bars)
  <1>1. /\ bars' = Append(bars, bar) /\ names' = names /\ period' = period /\ built' = built /\ built
        /\ count' \in [Series -> Nat] /\ prevClose' = IF "ATR" \in names THEN bar.close ELSE prevClose
    <2>1. \A s \in Series : count[s] \in Nat /\ NextCount(s) \in Nat
      BY DEF CountersInv, Shape, NextCount
    <2> QED
      BY <2>1 DEF OnBar
  <1>2. k \in Nat /\ bars' \in Seq(Candle) /\ Len(bars') = k + 1
    BY <1>1 DEF CountersInv, Shape
  <1>3. bar.close \in Nat
    BY CandleAssumption
  <1>4. Shape'
    BY <1>1, <1>2, <1>3 DEF CountersInv, Shape
  <1>5. \A s \in Series : count[s] \in Nat /\ period[s] \in Nat
    BY DEF CountersInv, Shape
  <1>6. ASSUME NEW s \in {"EMA", "fast", "slow"}, OwnerOf(s) \in names
        PROVE  count'[s] = UpTo(k + 1, period[s])
    <2>1. s \in Written /\ s \in Series
      BY <1>6 DEF Written, Series
    <2>2. count'[s] = IF count[s] < period[s] THEN count[s] + 1 ELSE count[s]
      BY <2>1, CountStep DEF CountersInv
    <2>3. count[s] = UpTo(k, period[s])
      BY <1>6 DEF CountersInv, Counters
    <2> QED
      BY <2>1, <2>2, <2>3, <1>2, <1>5 DEF UpTo
  <1>7. ASSUME "ATR" \in names
        PROVE  (prevClose' = -1 <=> Len(bars') = 0) /\ count'["ATR"] = UpTo(k, period["ATR"])
    <2>1. "ATR" \in Written <=> k # 0
      BY <1>7, <1>2 DEF Written, Series, OwnerOf, CountersInv, Counters
    <2>2. count'["ATR"] = IF k # 0 /\ count["ATR"] < period["ATR"]
                          THEN count["ATR"] + 1 ELSE count["ATR"]
      BY <2>1, CountStep DEF CountersInv, Series
    <2>3. count["ATR"] = UpTo(k - 1, period["ATR"])
      BY <1>7 DEF CountersInv, Counters
    <2>4. count'["ATR"] = UpTo(k, period["ATR"])
      BY <2>2, <2>3, <1>2, <1>5 DEF UpTo, Series
    <2>5. prevClose' # -1 /\ Len(bars') # 0
      BY <1>1, <1>2, <1>3, <1>7
    <2> QED
      BY <2>4, <2>5
  <1>8. ASSUME "MACD" \in names
        PROVE  count'["signal"] =
                  UpTo(k + 1 - Later(period["fast"], period["slow"]), period["signal"])
    <2>1. /\ count["fast"] = UpTo(k, period["fast"])
          /\ count["slow"] = UpTo(k, period["slow"])
          /\ count["signal"] = UpTo(k - Later(period["fast"], period["slow"]), period["signal"])
      BY <1>8 DEF CountersInv, Counters, OwnerOf
    <2>2. "signal" \in Written <=> count["fast"] >= period["fast"] /\ count["slow"] >= period["slow"]
      BY <1>8 DEF Written, SignalDue, IsFull, Series, OwnerOf
    <2>3. "signal" \in Written <=> k >= Later(period["fast"], period["slow"])
      BY <2>1, <2>2, <1>2, <1>5 DEF UpTo, Later, Series
    <2>4. count'["signal"] = IF "signal" \in Written /\ count["signal"] < period["signal"]
                             THEN count["signal"] + 1 ELSE count["signal"]
      BY CountStep DEF CountersInv, Series
    <2>5. Later(period["fast"], period["slow"]) \in Nat /\ period["signal"] \in Nat
      BY <1>5 DEF Later, Series
    <2> QED
      BY <2>1, <2>3, <2>4, <2>5, <1>2 DEF UpTo
  <1>9. Counters'
    <2>1. \A s \in {"EMA", "fast", "slow"} :
             OwnerOf(s) \in names' => count'[s] = UpTo(Len(bars'), period'[s])
      BY <1>1, <1>2, <1>6
    <2>2. "ATR" \in names' => /\ prevClose' = -1 <=> Len(bars') = 0
                              /\ count'["ATR"] = UpTo(Len(bars') - 1, period'["ATR"])
      <3>1. Len(bars') - 1 = k
        BY <1>2
      <3> QED
        BY <1>1, <1>7, <3>1
    <2>3. "MACD" \in names' =>
             count'["signal"] =
                 UpTo(Len(bars') - Later(period'["fast"], period'["slow"]), period'["signal"])
      <3>1. Len(bars') = k + 1 /\ names' = names /\ period' = period
        BY <1>1, <1>2
      <3>2. ASSUME "MACD" \in names'
            PROVE  count'["signal"] =
                       UpTo(Len(bars') - Later(period'["fast"], period'["slow"]), period'["signal"])
        <4>1. count'["signal"] = UpTo(k + 1 - Later(period["fast"], period["slow"]), period["signal"])
          BY <1>8, <3>1, <3>2
        <4>2. UpTo(k + 1 - Later(period["fast"], period["slow"]), period["signal"]) =
              UpTo(Len(bars') - Later(period'["fast"], period'["slow"]), period'["signal"])
          <5>1. Later(period["fast"], period["slow"]) \in Nat
            BY <1>5 DEF Later, Series
          <5>2. Later(period'["fast"], period'["slow"]) = Later(period["fast"], period["slow"])
            BY <3>1
          <5>3. Len(bars') - Later(period'["fast"], period'["slow"]) =
                k + 1 - Later(period["fast"], period["slow"])
            BY <1>2, <3>1, <5>1, <5>2
          <5> QED
            BY <3>1, <5>3
        <4> QED
          BY <4>1, <4>2
      <3> QED
        BY <3>2
    <2> QED
      BY <2>1, <2>2, <2>3 DEF Counters, UpTo, Later, OwnerOf
  <1> QED
    BY <1>4, <1>9 DEF CountersInv

(* The counters are right at the start. *)
LEMMA CountersInit == Init => CountersInv
  <1> SUFFICES ASSUME Init PROVE CountersInv
    OBVIOUS
  <1>1. Shape
    <2>1. built \in BOOLEAN
      BY DEF Init
    <2>5. names \subseteq Registered /\ prevClose \in Int
      BY DEF Init
    <2>2. period \in [Series -> Nat] /\ count \in [Series -> Nat]
      BY DEF Init
    <2>3. bars \in Seq(Candle)
      BY EmptySeq DEF Init
    <2>4. \A s \in Series : OwnerOf(s) \in names => period[s] # 0
      BY DEF Init
    <2> QED
      BY <2>1, <2>2, <2>3, <2>4, <2>5 DEF Init, Shape
  <1>2. Counters
    BY DEF Init, Counters
  <1> QED
    BY <1>1, <1>2 DEF CountersInv

(* Every step keeps them right. *)
LEMMA CountersStep == CountersInv /\ [Next]_vars => CountersInv'
  <1> SUFFICES ASSUME CountersInv, [Next]_vars PROVE CountersInv'
    OBVIOUS
  <1>1. CASE \E list \in Configs : Construct(list)
    BY <1>1, ConstructShape, ConstructCounters DEF CountersInv
  <1>2. CASE \E bar \in Candle : OnBar(bar)
    BY <1>2, OnBarCounters
  <1>3. CASE UNCHANGED vars
    BY <1>3 DEF vars, CountersInv, Shape, Counters
  <1> QED
    BY <1>1, <1>2, <1>3 DEF Next

(* Ready with the bar that the slowest indicator needs. *)
ReadyWhenNeeded ==
    built => (IsReady <=> \A name \in names : Len(bars) >= BarsNeeded(name))

(* The counters tell when an indicator is ready. *)
LEMMA CountersTell == CountersInv => ReadyWhenNeeded
  <1> SUFFICES ASSUME CountersInv, NEW name \in names
               PROVE  (\A s \in SeriesOf(name) : IsFull(s)) <=> Len(bars) >= BarsNeeded(name)
    BY DEF ReadyWhenNeeded, IsReady
  <1>1. /\ Len(bars) \in Nat
        /\ \A s \in Series : period[s] \in Nat
        /\ \A s \in Series : OwnerOf(s) \in names => period[s] # 0
        /\ name \in {"EMA", "ATR", "MACD"}
    BY DEF CountersInv, Shape, Registered
  <1>2. CASE name = "EMA"
    <2>1. count["EMA"] = UpTo(Len(bars), period["EMA"])
      BY <1>2 DEF CountersInv, Counters, OwnerOf
    <2> QED
      BY <1>1, <1>2, <2>1 DEF UpTo, SeriesOf, IsFull, BarsNeeded, Series
  <1>3. CASE name = "ATR"
    <2>1. count["ATR"] = UpTo(Len(bars) - 1, period["ATR"]) /\ period["ATR"] # 0
      BY <1>1, <1>3 DEF CountersInv, Counters, OwnerOf, Series
    <2> QED
      BY <1>1, <1>3, <2>1 DEF UpTo, SeriesOf, IsFull, BarsNeeded, Series
  <1>4. CASE name = "MACD"
    <2>1. /\ count["fast"] = UpTo(Len(bars), period["fast"])
          /\ count["slow"] = UpTo(Len(bars), period["slow"])
          /\ count["signal"] =
                 UpTo(Len(bars) - Later(period["fast"], period["slow"]), period["signal"])
      BY <1>4 DEF CountersInv, Counters, OwnerOf
    <2>2. /\ period["fast"] \in Nat /\ period["slow"] \in Nat
          /\ period["signal"] \in Nat /\ period["signal"] # 0
      BY <1>1, <1>4 DEF Series, OwnerOf
    <2>3. (\A s \in SeriesOf(name) : IsFull(s)) <=> /\ count["fast"] >= period["fast"]
                                                    /\ count["slow"] >= period["slow"]
                                                    /\ count["signal"] >= period["signal"]
      BY <1>4 DEF SeriesOf, IsFull
    <2> QED
      BY <1>1, <1>4, <2>1, <2>2, <2>3 DEF UpTo, Later, BarsNeeded
  <1> QED
    BY <1>1, <1>2, <1>3, <1>4

LEMMA CountersAlways == Spec => []CountersInv
  <1> QED
    BY CountersInit, CountersStep, PTL DEF Spec

(* What the constructor leaves: the names of the list, and for each series    *)
(* the period that the last configuration of its name asks for.               *)
ConfiguredInv ==
    built =>
        /\ Len(configured) \in Nat
        /\ \A i \in 1 .. Len(configured) : Creatable(configured[i])
        /\ names = {configured[i].name : i \in 1 .. Len(configured)}
        /\ \A s \in Series : OwnerOf(s) \in names =>
               period[s] = LastOf(configured, OwnerOf(s))[Key(s)]

LEMMA ConfiguredStep == ConfiguredInv /\ [Next]_vars => ConfiguredInv'
  <1> SUFFICES ASSUME ConfiguredInv, [Next]_vars PROVE ConfiguredInv'
    OBVIOUS
  <1>1. ASSUME NEW list \in Configs, Construct(list) PROVE ConfiguredInv'
    <2>1. configured' = list /\ Len(list) \in Nat
      BY <1>1, ConfigsAssumption DEF Construct
    <2>2. /\ \A i \in 1 .. Len(list) : Creatable(list[i])
          /\ names' = {list[i].name : i \in 1 .. Len(list)}
      BY <1>1 DEF Construct
    <2>3. \A s \in Series : OwnerOf(s) \in names' => period'[s] = LastOf(list, OwnerOf(s))[Key(s)]
      BY <1>1 DEF Construct
    <2> QED
      BY <2>1, <2>2, <2>3 DEF ConfiguredInv
  <1>2. ASSUME NEW bar \in Candle, OnBar(bar) PROVE ConfiguredInv'
    <2>1. UNCHANGED <<built, names, period, configured>>
      BY <1>2 DEF OnBar
    <2> QED
      BY <2>1 DEF ConfiguredInv
  <1>3. CASE UNCHANGED vars
    BY <1>3 DEF vars, ConfiguredInv
  <1> QED
    BY <1>1, <1>2, <1>3 DEF Next

(* The last configuration of its name is the one that counts. *)
LEMMA LastIsInForce ==
    ASSUME NEW list, Len(list) \in Nat, NEW i \in 1 .. Len(list),
           \A j \in i + 1 .. Len(list) : list[j].name # list[i].name
    PROVE  LastOf(list, list[i].name) = list[i].params
  <1> DEFINE IsLast(k) == /\ list[k].name = list[i].name
                          /\ \A j \in k + 1 .. Len(list) : list[j].name # list[i].name
  <1>1. IsLast(i)
    OBVIOUS
  <1>2. ASSUME NEW k \in 1 .. Len(list), IsLast(k) PROVE k = i
    <2>1. CASE k < i
      BY <1>2, <2>1
    <2>2. CASE i < k
      BY <1>2, <2>2
    <2> QED
      BY <2>1, <2>2
  <1>3. (CHOOSE k \in 1 .. Len(list) : IsLast(k)) = i
    BY <1>1, <1>2
  <1> QED
    BY <1>3 DEF LastOf

(* A configuration in force needs the bars that its indicator does. *)
LEMMA InForceNeeds ==
    ASSUME ConfiguredInv, built, NEW i \in InForce
    PROVE  /\ configured[i].name \in names
           /\ BarsNeeded(configured[i].name) = BarsOf(configured[i])
  <1> DEFINE c == configured[i]
  <1>1. /\ i \in 1 .. Len(configured) /\ Len(configured) \in Nat
        /\ \A j \in i + 1 .. Len(configured) : configured[j].name # c.name
    BY DEF InForce, ConfiguredInv
  <1>2. c.name \in names /\ c.name \in {"EMA", "ATR", "MACD"}
    BY <1>1 DEF ConfiguredInv, Creatable, Registered
  <1>3. LastOf(configured, c.name) = c.params
    BY <1>1, LastIsInForce
  <1>4. \A s \in Series : OwnerOf(s) = c.name => period[s] = c.params[Key(s)]
    BY <1>2, <1>3 DEF ConfiguredInv
  <1> SUFFICES c.name \in names /\ BarsNeeded(c.name) = BarsOf(c)
    OBVIOUS
  <1> HIDE DEF c
  <1>5. CASE c.name = "EMA"
    BY <1>2, <1>4, <1>5 DEF BarsNeeded, BarsOf, Series, OwnerOf, Key
  <1>6. CASE c.name = "ATR"
    BY <1>2, <1>4, <1>6 DEF BarsNeeded, BarsOf, Series, OwnerOf, Key
  <1>7. CASE c.name = "MACD"
    <2>1. /\ period["fast"] = c.params["fast_period"]
          /\ period["slow"] = c.params["slow_period"]
          /\ period["signal"] = c.params["signal_period"]
      BY <1>4, <1>7 DEF Series, OwnerOf, Key
    <2> QED
      BY <1>2, <1>7, <2>1 DEF BarsNeeded, BarsOf
  <1> QED
    BY <1>2, <1>5, <1>6, <1>7

(* Every indicator there is has a configuration in force. *)
LEMMA NamesInForce ==
    ASSUME ConfiguredInv, built, NEW name \in names
    PROVE  \E i \in InForce : configured[i].name = name
  <1>1. Len(configured) \in Nat /\ \E i \in 1 .. Len(configured) : configured[i].name = name
    BY DEF ConfiguredInv
  <1>2. \A list : Len(list) \in Nat /\ (\E i \in 1 .. Len(list) : list[i].name = name) =>
                   \E k \in 1 .. Len(list) :
                      list[k].name = name /\ \A j \in k + 1 .. Len(list) : list[j].name # name
    BY LastOccurs
  <1>3. PICK k \in 1 .. Len(configured) :
             /\ configured[k].name = name
             /\ \A j \in k + 1 .. Len(configured) : configured[j].name # name
    BY <1>1, <1>2, Zenon
  <1> QED
    BY <1>3 DEF InForce

(* The engine is ready with exactly the bar that the slowest of the           *)
(* configurations in force needs, whatever list it was made from.             *)
THEOREM ReadyInTime == Spec => []ReadyOnTime
  <1>1. Init => ConfiguredInv
    BY DEF Init, ConfiguredInv
  <1>2. CountersInv /\ ConfiguredInv => ReadyOnTime
    <2> SUFFICES ASSUME CountersInv, ConfiguredInv, built
                 PROVE  IsReady <=> \A i \in InForce : Len(bars) >= BarsOf(configured[i])
      BY DEF ReadyOnTime
    <2>1. IsReady <=> \A name \in names : Len(bars) >= BarsNeeded(name)
      BY CountersTell DEF ReadyWhenNeeded
    <2>2. \A i \in InForce : configured[i].name \in names /\ BarsNeeded(configured[i].name) = BarsOf(configured[i])
      BY InForceNeeds
    <2>3. \A name \in names : \E i \in InForce : configured[i].name = name
      BY NamesInForce
    <2> QED
      BY <2>1, <2>2, <2>3
  <1> QED
    BY CountersAlways, <1>1, ConfiguredStep, <1>2, PTL DEF Spec
-----------------------------------------------------------------------------
(* The subscribers' calls *)

Enough(n) == \A name \in names : n >= BarsNeeded(name)

(* The bars that should have been heard of. *)
Due == {n \in 1 .. Len(bars) : Enough(n)}

HeardInv == (\E S : heard \in Seq(S)) /\ UpdatesEveryBar

(* The bars an indicator needs are a number. *)
LEMMA NeededIsNat ==
    ASSUME Shape, NEW name \in names
    PROVE  BarsNeeded(name) \in Nat
  <1>1. name \in {"EMA", "ATR", "MACD"} /\ \A s \in Series : period[s] \in Nat
    BY DEF Shape, Registered
  <1> QED
    BY <1>1 DEF BarsNeeded, Later, Series

(* on_bar() calls the subscribers exactly when the new bar is enough. *)
LEMMA OnBarHeard ==
    ASSUME CountersInv, HeardInv, NEW bar \in Candle, OnBar(bar), CountersInv'
    PROVE  HeardInv'
  <1> DEFINE k == Len(bars)
             reading == [name \in names |-> Reading(name, value')]
  <1>1. /\ built /\ built' /\ names' = names /\ period' = period
        /\ k \in Nat /\ Len(bars') = k + 1
    BY DEF OnBar, CountersInv, Shape
  <1>2. \A name \in names : BarsNeeded(name) \in Nat /\ BarsNeeded(name)' = BarsNeeded(name)
    BY <1>1, NeededIsNat DEF CountersInv, BarsNeeded
  <1>3. IsReady' <=> Enough(k + 1)
    <2>1. (CountersInv => ReadyWhenNeeded)'
      BY CountersTell, PTL
    <2>2. ReadyWhenNeeded'
      BY <2>1
    <2> QED
      BY <1>1, <1>2, <2>2 DEF ReadyWhenNeeded, Enough
  <1>4. \A n \in 1 .. k + 1 : Enough(n)' <=> Enough(n)
    BY <1>1, <1>2 DEF Enough
  <1>5. IsFiniteSet(Due) /\ k + 1 \notin Due
    <2>1. IsFiniteSet(1 .. k)
      BY <1>1, FS_Interval
    <2>2. Due \subseteq 1 .. k
      BY DEF Due
    <2>3. IsFiniteSet(Due)
      BY <2>1, <2>2, FS_Subset, Zenon
    <2>4. k + 1 \notin 1 .. k
      BY <1>1
    <2> QED
      BY <2>2, <2>3, <2>4
  <1>6. PICK S : heard \in Seq(S)
    BY DEF HeardInv
  <1>7. Len(heard) = Cardinality(Due)
    BY <1>1 DEF HeardInv, UpdatesEveryBar, Due, Enough
  <1>8. CASE Enough(k + 1)
    <2>1. heard' = Append(heard, reading)
      BY <1>1, <1>3, <1>8 DEF OnBar, Notify
    <2>2. Due' = Due \cup {k + 1}
      BY <1>1, <1>4, <1>8 DEF Due
    <2>3. Cardinality(Due') = Cardinality(Due) + 1
      BY <2>2, <1>5, FS_AddElement
    <2>4. heard \in Seq(S \cup {reading}) /\ reading \in S \cup {reading}
      BY <1>6, SeqMonotonic
    <2>5. /\ heard' \in Seq(S \cup {reading})
          /\ Len(heard') = Len(heard) + 1
          /\ heard'[Len(heard) + 1] = reading
      BY <2>1, <2>4, AppendProperties
    <2>6. Len(heard') = Cardinality(Due')
      BY <1>7, <2>3, <2>5
    <2>7. heard'[Len(heard')] = [name \in names' |-> Reading(name, value')]
      BY <2>5, <1>1
    <2> QED
      BY <2>5, <2>6, <2>7 DEF HeardInv, UpdatesEveryBar, Due, Enough
  <1>9. CASE ~Enough(k + 1)
    <2>1. heard' = heard
      BY <1>3, <1>9 DEF OnBar, Notify
    <2>2. PICK name \in names : ~(k + 1 >= BarsNeeded(name))
      BY <1>9 DEF Enough
    <2>3. \A n \in 1 .. k + 1 : ~Enough(n)
      BY <1>1, <1>2, <2>2 DEF Enough
    <2>4. Due = {} /\ Due' = {}
      BY <1>1, <1>4, <2>3 DEF Due
    <2>5. Len(heard) = 0
      BY <1>7, <2>4, FS_EmptySet
    <2>6. heard = <<>>
      BY <1>6, <2>5, EmptySeq
    <2> QED
      BY <1>6, <2>1, <2>4, <2>5, <2>6, FS_EmptySet DEF HeardInv, UpdatesEveryBar, Due, Enough
  <1> QED
    BY <1>8, <1>9

(* Nobody has heard anything before the first bar. *)
LEMMA NothingHeard ==
    ASSUME heard = <<>>, bars = <<>>
    PROVE  HeardInv
  <1>1. heard \in Seq({})
    BY EmptySeq
  <1>2. {n \in 1 .. Len(bars) : \A name \in names : n >= BarsNeeded(name)} = {}
    <2>1. 1 .. Len(bars) = {}
      BY EmptySeq
    <2> QED
      BY <2>1
  <1>3. Len(heard) = 0
    BY EmptySeq
  <1> QED
    BY <1>1, <1>2, <1>3, FS_EmptySet DEF HeardInv, UpdatesEveryBar

LEMMA HeardAlways == Spec => []HeardInv
  <1>1. Init => HeardInv
    BY NothingHeard DEF Init
  <1>2. CountersInv /\ HeardInv /\ [Next]_vars => HeardInv'
    <2> SUFFICES ASSUME CountersInv, HeardInv, [Next]_vars PROVE HeardInv'
      OBVIOUS
    <2>1. CountersInv'
      BY CountersStep
    <2>2. CASE \E list \in Configs : Construct(list)
      <3>1. heard' = <<>> /\ bars' = <<>>
        BY <2>2 DEF Construct, CountersInv, Shape
      <3>2. (heard = <<>> /\ bars = <<>> => HeardInv)'
        BY NothingHeard, PTL
      <3> QED
        BY <3>1, <3>2
    <2>3. CASE \E bar \in Candle : OnBar(bar)
      BY <2>1, <2>3, OnBarHeard
    <2>4. CASE UNCHANGED vars
      BY <2>4 DEF vars, HeardInv, UpdatesEveryBar, BarsNeeded, Reading
    <2> QED
      BY <2>2, <2>3, <2>4 DEF Next
  <1> QED
    BY CountersInit, CountersStep, <1>1, <1>2, PTL DEF Spec

(* The subscribers are called once for every bar from the moment the engine   *)
(* is ready, with the readings that stand for that bar.                       *)
THEOREM EveryBarIsHeard == Spec => []UpdatesEveryBar
  <1>1. HeardInv => UpdatesEveryBar
    BY DEF HeardInv
  <1> QED
    BY HeardAlways, <1>1, PTL

-----------------------------------------------------------------------------
(* Fractions *)

Positive == Nat \ {0}

(* The values that the averages work with. *)
Fraction == {Frac(n, d) : n \in Int, d \in Positive}

(* A remainder of zero, in terms of a product. *)
LEMMA Divisible == \A n \in Int : \A d \in Positive : n % d = 0 <=> \E j \in Int : n = j * d
  <1> SUFFICES ASSUME NEW n \in Int, NEW d \in Positive PROVE n % d = 0 <=> \E j \in Int : n = j * d
    OBVIOUS
  <1>1. d \in Nat /\ d > 0
    BY DEF Positive
  <1>2. \A j \in Int : (j * d) % d = 0
    BY <1>1
  <1>3. n % d = 0 => \E j \in Int : n = j * d
    BY <1>1
  <1> QED
    BY <1>2, <1>3

(* The denominators that make n / d a fraction of integers. *)
Denominators(n, d) == {k \in Positive : (n * k) % d = 0}

(* Frac() takes the least of them. *)
LEMMA Den ==
    ASSUME NEW n \in Int, NEW d \in Positive
    PROVE  /\ Frac(n, d).den \in Denominators(n, d)
           /\ \A k \in Denominators(n, d) : Frac(n, d).den <= k
           /\ Frac(n, d).num = (n * Frac(n, d).den) \div d
  <1> DEFINE Least(k) == (n * k) % d = 0 /\ \A j \in 1 .. k - 1 : (n * j) % d # 0
             den == CHOOSE k \in 1 .. d : Least(k)
  <1>1. d \in Denominators(n, d)
    BY DEF Denominators, Positive
  <1>2. Denominators(n, d) \subseteq Nat
    BY DEF Denominators, Positive
  <1>3. PICK k \in Denominators(n, d) : \A m \in Denominators(n, d) : k <= m
    BY <1>1, <1>2, LeastNatural
  <1>4. k \in 1 .. d /\ Least(k)
    <2>1. k \in 1 .. d /\ (n * k) % d = 0
      BY <1>1, <1>3 DEF Denominators, Positive
    <2>2. ASSUME NEW j \in 1 .. k - 1 PROVE (n * j) % d # 0
      <3>1. j \in Positive /\ ~(k <= j)
        BY <2>1 DEF Positive
      <3> QED
        BY <3>1, <1>3 DEF Denominators
    <2> QED
      BY <2>1, <2>2
  <1>5. den \in 1 .. d /\ Least(den)
    BY <1>4
  <1>6. Frac(n, d) = [num |-> (n * den) \div d, den |-> den]
    BY DEF Frac
  <1> HIDE DEF den
  <1>7. Frac(n, d).den = den /\ Frac(n, d).num = (n * den) \div d
    BY <1>6
  <1>8. den \in Denominators(n, d)
    BY <1>5 DEF Denominators, Positive
  <1>9. den <= k
    BY <1>3, <1>4, <1>5 DEF Denominators, Positive
  <1>10. \A m \in Denominators(n, d) : den <= m
    BY <1>2, <1>3, <1>8, <1>9
  <1> QED
    BY <1>7, <1>8, <1>10

(* A fraction is the quotient. *)
LEMMA Quotient ==
    ASSUME NEW n \in Int, NEW d \in Positive
    PROVE  /\ Frac(n, d).num \in Int /\ Frac(n, d).den \in Positive
           /\ Frac(n, d).num * d = n * Frac(n, d).den
  <1> DEFINE den == Frac(n, d).den
  <1>1. den \in Positive /\ (n * den) % d = 0 /\ Frac(n, d).num = (n * den) \div d
    BY Den DEF Denominators
  <1> HIDE DEF den
  <1>2. n * den \in Int
    BY <1>1 DEF Positive
  <1>3. PICK j \in Int : n * den = j * d
    BY <1>1, <1>2, Divisible
  <1>4. (j * d) \div d = j
    BY DEF Positive
  <1> QED
    BY <1>1, <1>3, <1>4 DEF den

(* Equal quotients are the same fraction. *)
LEMMA SameDenominators ==
    ASSUME NEW n \in Int, NEW d \in Positive, NEW m \in Int, NEW e \in Positive, n * e = m * d
    PROVE  Denominators(n, d) \subseteq Denominators(m, e)
  <1> SUFFICES ASSUME NEW k \in Denominators(n, d) PROVE k \in Denominators(m, e)
    OBVIOUS
  <1>1. k \in Positive /\ (n * k) % d = 0 /\ n * k \in Int /\ m * k \in Int
    BY DEF Denominators, Positive
  <1>2. PICK j \in Int : n * k = j * d
    BY <1>1, Divisible
  <1>3. (m * k) * d = (j * e) * d
    <2>1. (m * k) * d = (m * d) * k
      BY <1>1 DEF Positive
    <2>2. (n * e) * k = (n * k) * e
      BY <1>1 DEF Positive
    <2>3. (j * d) * e = (j * e) * d
      BY <1>1 DEF Positive
    <2> QED
      BY <2>1, <2>2, <2>3, <1>2
  <1>4. m * k = j * e
    BY <1>1, <1>3 DEF Positive
  <1> QED
    BY <1>1, <1>4, Divisible DEF Denominators

LEMMA SameFraction ==
    ASSUME NEW n \in Int, NEW d \in Positive, NEW m \in Int, NEW e \in Positive, n * e = m * d
    PROVE  Frac(n, d) = Frac(m, e)
  <1>1. Denominators(n, d) = Denominators(m, e)
    BY SameDenominators
  <1> DEFINE p == Frac(n, d)
             q == Frac(m, e)
  <1>2. p.den \in Nat /\ q.den \in Nat /\ p.den <= q.den /\ q.den <= p.den
    BY <1>1, Den DEF Denominators, Positive
  <1>3. p.den = q.den
    BY <1>2
  <1>4. /\ p.num \in Int /\ q.num \in Int
        /\ p.num * d = n * p.den /\ q.num * e = m * q.den
    BY Quotient
  <1> DEFINE a == p.num
             b == q.num
             k == p.den
  <1>5. a \in Int /\ b \in Int /\ k \in Int /\ a * d = n * k /\ b * e = m * k
    BY <1>2, <1>3, <1>4
  <1>6. p = [num |-> a, den |-> k] /\ q = [num |-> b, den |-> k]
    <2>1. \A x, y : LET r == [num |-> x, den |-> y] IN r = [num |-> r.num, den |-> r.den]
      OBVIOUS
    <2>2. /\ p = [num |-> (n * p.den) \div d, den |-> p.den]
          /\ q = [num |-> (m * q.den) \div e, den |-> q.den]
      BY DEF Frac
    <2> HIDE DEF p, q
    <2> QED
      BY <2>1, <2>2, <1>3
  <1> HIDE DEF a, b, k, p, q
  <1>7. (a * d) * e = (b * d) * e
    <2>1. (n * k) * e = (n * e) * k
      BY <1>5 DEF Positive
    <2>2. (m * d) * k = (m * k) * d
      BY <1>5 DEF Positive
    <2>3. (b * e) * d = (b * d) * e
      BY <1>5 DEF Positive
    <2> QED
      BY <2>1, <2>2, <2>3, <1>5
  <1>8. a * (d * e) = b * (d * e) /\ d * e \in Int /\ d * e # 0
    BY <1>5, <1>7 DEF Positive
  <1>9. a = b
    BY <1>5, <1>8
  <1> QED
    BY <1>6, <1>9 DEF p, q

(* The operations on quotients. *)
LEMMA Operations ==
    ASSUME NEW n \in Int, NEW d \in Positive, NEW m \in Int, NEW e \in Positive
    PROVE  /\ Plus(Frac(n, d), Frac(m, e)) = Frac(n * e + m * d, d * e)
           /\ Minus(Frac(n, d), Frac(m, e)) = Frac(n * e - m * d, d * e)
           /\ Times(Frac(n, d), Frac(m, e)) = Frac(n * m, d * e)
  <1> DEFINE a == Frac(n, d).num
             b == Frac(n, d).den
             f == Frac(m, e).num
             g == Frac(m, e).den
  <1>1. /\ a \in Int /\ b \in Positive /\ a * d = n * b
        /\ f \in Int /\ g \in Positive /\ f * e = m * g
    BY Quotient
  <1>2. /\ Plus(Frac(n, d), Frac(m, e)) = Frac(a * g + f * b, b * g)
        /\ Minus(Frac(n, d), Frac(m, e)) = Frac(a * g - f * b, b * g)
        /\ Times(Frac(n, d), Frac(m, e)) = Frac(a * f, b * g)
    BY DEF Plus, Minus, Times
  <1> HIDE DEF a, b, f, g
  <1>3. /\ b * g \in Positive /\ d * e \in Positive
        /\ a * g + f * b \in Int /\ a * g - f * b \in Int /\ a * f \in Int
        /\ n * e + m * d \in Int /\ n * e - m * d \in Int /\ n * m \in Int
    BY <1>1 DEF Positive
  <1>4. /\ (a * d) * (g * e) = (n * b) * (g * e)
        /\ (f * e) * (b * d) = (m * g) * (b * d)
        /\ (a * d) * (f * e) = (n * b) * (m * g)
    BY <1>1
  <1>5. /\ (a * g + f * b) * (d * e) = (n * e + m * d) * (b * g)
        /\ (a * g - f * b) * (d * e) = (n * e - m * d) * (b * g)
        /\ (a * f) * (d * e) = (n * m) * (b * g)
    BY <1>1, <1>4 DEF Positive
  <1> QED
    BY <1>2, <1>3, <1>5, SameFraction

(* The operations stay among the fractions. *)
LEMMA FractionOps ==
    ASSUME NEW p \in Fraction, NEW q \in Fraction
    PROVE  Plus(p, q) \in Fraction /\ Minus(p, q) \in Fraction /\ Times(p, q) \in Fraction
  <1>1. PICK n \in Int, d \in Positive : p = Frac(n, d)
    BY DEF Fraction
  <1>2. PICK m \in Int, e \in Positive : q = Frac(m, e)
    BY DEF Fraction
  <1>3. /\ n * e + m * d \in Int /\ n * e - m * d \in Int /\ n * m \in Int
        /\ d * e \in Positive
    BY DEF Positive
  <1> QED
    BY <1>1, <1>2, <1>3, Operations DEF Fraction

(* The laws of a field that the averages need. *)
LEMMA PlusAssociates ==
    ASSUME NEW p \in Fraction, NEW q \in Fraction, NEW r \in Fraction
    PROVE  Plus(Plus(p, q), r) = Plus(p, Plus(q, r))
  <1>1. PICK n \in Int, d \in Positive : p = Frac(n, d)
    BY DEF Fraction
  <1>2. PICK m \in Int, e \in Positive : q = Frac(m, e)
    BY DEF Fraction
  <1>3. PICK k \in Int, f \in Positive : r = Frac(k, f)
    BY DEF Fraction
  <1>4. /\ n * e + m * d \in Int /\ m * f + k * e \in Int
        /\ d * e \in Positive /\ e * f \in Positive
    BY DEF Positive
  <1>5. /\ Plus(Plus(p, q), r) = Frac((n * e + m * d) * f + k * (d * e), (d * e) * f)
        /\ Plus(p, Plus(q, r)) = Frac(n * (e * f) + (m * f + k * e) * d, d * (e * f))
    BY <1>1, <1>2, <1>3, <1>4, Operations
  <1>6. /\ (n * e + m * d) * f + k * (d * e) = n * (e * f) + (m * f + k * e) * d
        /\ (d * e) * f = d * (e * f)
    BY DEF Positive
  <1> QED
    BY <1>5, <1>6

LEMMA TimesAssociates ==
    ASSUME NEW p \in Fraction, NEW q \in Fraction, NEW r \in Fraction
    PROVE  Times(Times(p, q), r) = Times(p, Times(q, r))
  <1>1. PICK n \in Int, d \in Positive : p = Frac(n, d)
    BY DEF Fraction
  <1>2. PICK m \in Int, e \in Positive : q = Frac(m, e)
    BY DEF Fraction
  <1>3. PICK k \in Int, f \in Positive : r = Frac(k, f)
    BY DEF Fraction
  <1>4. /\ n * m \in Int /\ m * k \in Int /\ d * e \in Positive /\ e * f \in Positive
    BY DEF Positive
  <1>5. /\ Times(Times(p, q), r) = Frac((n * m) * k, (d * e) * f)
        /\ Times(p, Times(q, r)) = Frac(n * (m * k), d * (e * f))
    BY <1>1, <1>2, <1>3, <1>4, Operations
  <1>6. (n * m) * k = n * (m * k) /\ (d * e) * f = d * (e * f)
    BY DEF Positive
  <1> QED
    BY <1>5, <1>6

LEMMA Commute ==
    ASSUME NEW p \in Fraction, NEW q \in Fraction
    PROVE  Plus(p, q) = Plus(q, p) /\ Times(p, q) = Times(q, p)
  <1>1. PICK n \in Int, d \in Positive : p = Frac(n, d)
    BY DEF Fraction
  <1>2. PICK m \in Int, e \in Positive : q = Frac(m, e)
    BY DEF Fraction
  <1>3. n * e + m * d = m * d + n * e /\ n * m = m * n /\ d * e = e * d
    BY DEF Positive
  <1> QED
    BY <1>1, <1>2, <1>3, Operations

LEMMA Distributes ==
    ASSUME NEW p \in Fraction, NEW q \in Fraction, NEW r \in Fraction
    PROVE  Times(Plus(p, q), r) = Plus(Times(p, r), Times(q, r))
  <1>1. PICK n \in Int, d \in Positive : p = Frac(n, d)
    BY DEF Fraction
  <1>2. PICK m \in Int, e \in Positive : q = Frac(m, e)
    BY DEF Fraction
  <1>3. PICK k \in Int, f \in Positive : r = Frac(k, f)
    BY DEF Fraction
  <1>4. /\ n * e + m * d \in Int /\ n * k \in Int /\ m * k \in Int
        /\ d * e \in Positive /\ d * f \in Positive /\ e * f \in Positive
    BY DEF Positive
  <1>5. /\ Times(Plus(p, q), r) = Frac((n * e + m * d) * k, (d * e) * f)
        /\ Plus(Times(p, r), Times(q, r)) =
              Frac((n * k) * (e * f) + (m * k) * (d * f), (d * f) * (e * f))
    BY <1>1, <1>2, <1>3, <1>4, Operations
  <1>6. /\ (n * e + m * d) * k \in Int /\ (d * e) * f \in Positive
        /\ (n * k) * (e * f) + (m * k) * (d * f) \in Int /\ (d * f) * (e * f) \in Positive
    BY <1>4 DEF Positive
  <1>7. ((n * e + m * d) * k) * ((d * f) * (e * f)) =
        ((n * k) * (e * f) + (m * k) * (d * f)) * ((d * e) * f)
    BY DEF Positive
  <1> QED
    BY <1>5, <1>6, <1>7, SameFraction

Zero == Whole(0)
One  == Whole(1)

(* Zero and one. *)
LEMMA Units ==
    /\ Zero \in Fraction /\ One \in Fraction
    /\ \A p \in Fraction : /\ Plus(Zero, p) = p /\ Plus(p, Zero) = p /\ Times(Zero, p) = Zero
                           /\ Times(One, p) = p /\ Times(p, One) = p
  <1>1. 0 \in Int /\ 1 \in Int /\ 1 \in Positive
    BY DEF Positive
  <1>2. Zero = Frac(0, 1) /\ One = Frac(1, 1)
    BY DEF Zero, One, Whole
  <1>3. Zero \in Fraction /\ One \in Fraction
    BY <1>1, <1>2 DEF Fraction
  <1>4. ASSUME NEW p \in Fraction PROVE Plus(Zero, p) = p /\ Times(Zero, p) = Zero /\ Times(One, p) = p
    <2>1. PICK n \in Int, d \in Positive : p = Frac(n, d)
      BY DEF Fraction
    <2>2. /\ Plus(Zero, p) = Frac(0 * d + n * 1, 1 * d)
          /\ Times(Zero, p) = Frac(0 * n, 1 * d)
          /\ Times(One, p) = Frac(1 * n, 1 * d)
      BY <2>1, <1>1, <1>2, Operations
    <2>3. 0 * d + n * 1 = n /\ 1 * d = d /\ 0 * n = 0 /\ 1 * n = n /\ 0 * 1 = 0 * d
      BY DEF Positive
    <2>4. Frac(0, d) = Frac(0, 1)
      BY <1>1, <2>3, SameFraction
    <2> QED
      BY <2>1, <2>2, <2>3, <2>4, <1>2
  <1> QED
    BY <1>3, <1>4, Commute

(* A k-th part, k times, and what is left of one without it. *)
LEMMA Inverses ==
    ASSUME NEW k \in Positive
    PROVE  /\ Whole(k) \in Fraction /\ Frac(1, k) \in Fraction
           /\ Times(Frac(1, k), Whole(k)) = One
           /\ Times(Whole(k - 1), Frac(1, k)) = Minus(One, Frac(1, k))
  <1>1. 1 \in Int /\ 1 \in Positive /\ k \in Int /\ k - 1 \in Int
    BY DEF Positive
  <1>2. Whole(k) = Frac(k, 1) /\ Whole(k - 1) = Frac(k - 1, 1) /\ One = Frac(1, 1)
    BY DEF Whole, One
  <1>3. /\ Times(Frac(1, k), Whole(k)) = Frac(1 * k, k * 1)
        /\ Times(Whole(k - 1), Frac(1, k)) = Frac((k - 1) * 1, 1 * k)
        /\ Minus(One, Frac(1, k)) = Frac(1 * k - 1 * 1, 1 * k)
    BY <1>1, <1>2, Operations
  <1>4. 1 * k = k /\ k * 1 = k /\ (k - 1) * 1 = k - 1 /\ 1 * k - 1 * 1 = k - 1 /\ k * 1 = 1 * k
    BY <1>1
  <1>5. Frac(k, k) = Frac(1, 1)
    BY <1>1, <1>4, SameFraction
  <1>6. Whole(k) \in Fraction /\ Frac(1, k) \in Fraction
    BY <1>1, <1>2 DEF Fraction
  <1> QED
    BY <1>2, <1>3, <1>4, <1>5, <1>6

-----------------------------------------------------------------------------
(* Sums and powers *)

(* s starts with z and goes from one fraction to the next by the functions g. *)
Chain(s, z, g, n) ==
    /\ s[0] = z
    /\ \A i \in 1 .. n : s[i - 1] \in Fraction => s[i] = g[i][s[i - 1]]

(* Two chains with the same start and the same functions are equal, and run   *)
(* through fractions.                                                         *)
LEMMA ChainsAgree ==
    ASSUME NEW n \in Nat, NEW z \in Fraction, NEW g, NEW h, NEW s, NEW t,
           \A i \in 1 .. n : g[i] \in [Fraction -> Fraction] /\ h[i] = g[i],
           Chain(s, z, g, n), Chain(t, z, h, n)
    PROVE  \A i \in 0 .. n : s[i] \in Fraction /\ t[i] = s[i]
  <1> DEFINE T == {i \in 0 .. n : ~(s[i] \in Fraction /\ t[i] = s[i])}
  <1>1. SUFFICES ASSUME T # {} PROVE FALSE
    OBVIOUS
  <1>2. PICK i \in T : \A j \in T : i <= j
    <2>1. T \subseteq Nat
      OBVIOUS
    <2> HIDE DEF T
    <2> QED
      BY <1>1, <2>1, LeastNatural
  <1>3. i # 0
    BY <1>2 DEF Chain
  <1>4. i - 1 \in 0 .. n /\ i \in 1 .. n /\ ~(i <= i - 1)
    BY <1>2, <1>3
  <1>5. s[i - 1] \in Fraction /\ t[i - 1] = s[i - 1]
    BY <1>2, <1>4
  <1>6. s[i] = g[i][s[i - 1]] /\ t[i] = s[i]
    BY <1>4, <1>5 DEF Chain
  <1>7. s[i] \in Fraction
    BY <1>4, <1>5, <1>6
  <1> QED
    BY <1>2, <1>6, <1>7

(* There is such a chain: one more element can always be added. *)
LEMMA ChainExists ==
    ASSUME NEW m \in Nat, NEW z \in Fraction, NEW g,
           \A i \in 1 .. m : g[i] \in [Fraction -> Fraction]
    PROVE  \E s \in [0 .. m -> Fraction] : Chain(s, z, g, m)
  <1> DEFINE Exists(n) == \E s \in [0 .. n -> Fraction] : Chain(s, z, g, n)
             T == {n \in 0 .. m : ~Exists(n)}
  <1>1. SUFFICES ASSUME T # {} PROVE FALSE
    <2>1. m \in 0 .. m
      OBVIOUS
    <2> HIDE DEF Exists
    <2> QED
      BY <2>1 DEF Exists
  <1>2. PICK n \in T : \A j \in T : n <= j
    <2>1. T \subseteq Nat
      OBVIOUS
    <2> HIDE DEF T
    <2> QED
      BY <1>1, <2>1, LeastNatural
  <1>3. Exists(0)
    <2>1. [i \in 0 .. 0 |-> z] \in [0 .. 0 -> Fraction] /\ Chain([i \in 0 .. 0 |-> z], z, g, 0)
      BY DEF Chain
    <2> QED
      BY <2>1
  <1>4. n \in 0 .. m /\ ~Exists(n)
    BY <1>2
  <1>5. n # 0
    BY <1>3, <1>4
  <1>6. n - 1 \in 0 .. m /\ n \in 1 .. m /\ ~(n <= n - 1)
    BY <1>4, <1>5
  <1>7. Exists(n - 1)
    BY <1>2, <1>6
  <1>8. PICK s \in [0 .. n - 1 -> Fraction] : Chain(s, z, g, n - 1)
    BY <1>7
  <1> DEFINE t == [i \in 0 .. n |-> IF i < n THEN s[i] ELSE g[n][s[n - 1]]]
  <1>9. n - 1 \in 0 .. n - 1 /\ g[n][s[n - 1]] \in Fraction
    BY <1>6, <1>8
  <1>10. t \in [0 .. n -> Fraction]
    BY <1>6, <1>8, <1>9
  <1>11. Chain(t, z, g, n)
    <2>1. t[0] = z
      BY <1>6, <1>8 DEF Chain
    <2>2. ASSUME NEW i \in 1 .. n PROVE t[i] = g[i][t[i - 1]]
      <3>1. i - 1 \in 0 .. n - 1 /\ t[i - 1] = s[i - 1] /\ s[i - 1] \in Fraction
        BY <1>6, <1>8
      <3>2. CASE i = n
        BY <3>1, <3>2
      <3>3. CASE i # n
        <4>1. i \in 1 .. n - 1 /\ t[i] = s[i]
          BY <1>6, <3>3
        <4> QED
          BY <1>8, <3>1, <4>1 DEF Chain
      <3> QED
        BY <3>2, <3>3
    <2> QED
      BY <2>1, <2>2 DEF Chain
  <1> QED
    BY <1>4, <1>10, <1>11

(* The sums of a sequence, one by one. *)
Fractions(xs) == /\ Len(xs) \in Nat
                 /\ \A i \in 1 .. Len(xs) : xs[i] \in Fraction

(* The functions that add the elements of xs. *)
Adding(xs, n) == [i \in 1 .. n |-> [q \in Fraction |-> Plus(q, xs[i])]]

LEMMA AddingType ==
    ASSUME NEW xs, Fractions(xs)
    PROVE  \A i \in 1 .. Len(xs) : /\ Adding(xs, Len(xs))[i] \in [Fraction -> Fraction]
                                   /\ \A q \in Fraction : Adding(xs, Len(xs))[i][q] = Plus(q, xs[i])
  BY FractionOps DEF Fractions, Adding

(* Total() is the end of the chain that adds the elements. *)
LEMMA TotalIsChain ==
    ASSUME NEW xs, Fractions(xs)
    PROVE  \E s : Chain(s, Zero, Adding(xs, Len(xs)), Len(xs)) /\ Total(xs) = s[Len(xs)]
  <1> DEFINE n == Len(xs)
             Is(s) == s = [i \in 0 .. n |-> IF i = 0 THEN Whole(0) ELSE Plus(s[i - 1], xs[i])]
             upTo == CHOOSE s : Is(s)
  <1>1. PICK s \in [0 .. n -> Fraction] : Chain(s, Zero, Adding(xs, n), n)
    BY AddingType, ChainExists, Units DEF Fractions
  <1>2. Is(s)
    <2>1. ASSUME NEW i \in 1 .. n PROVE s[i] = Plus(s[i - 1], xs[i])
      <3>1. i - 1 \in 0 .. n
        BY DEF Fractions
      <3> QED
        BY <1>1, <3>1, AddingType DEF Chain
    <2> QED
      BY <1>1, <2>1 DEF Chain, Zero
  <1>3. Is(upTo)
    BY <1>2
  <1>4. Total(xs) = upTo[n]
    BY DEF Total
  <1> HIDE DEF upTo
  <1>5. Chain(upTo, Zero, Adding(xs, n), n)
    <2>1. upTo[0] = Zero
      BY <1>3 DEF Zero, Fractions
    <2>2. ASSUME NEW i \in 1 .. n PROVE upTo[i] = Plus(upTo[i - 1], xs[i])
      BY <1>3 DEF Fractions
    <2> QED
      BY <2>1, <2>2, AddingType DEF Chain
  <1> QED
    BY <1>4, <1>5

LEMMA TotalType ==
    ASSUME NEW xs, Fractions(xs)
    PROVE  Total(xs) \in Fraction
  <1>1. PICK s : Chain(s, Zero, Adding(xs, Len(xs)), Len(xs)) /\ Total(xs) = s[Len(xs)]
    BY TotalIsChain
  <1>2. Len(xs) \in Nat /\ Len(xs) \in 0 .. Len(xs)
    BY DEF Fractions
  <1>3. \A i \in 0 .. Len(xs) : s[i] \in Fraction /\ s[i] = s[i]
    BY <1>1, <1>2, AddingType, ChainsAgree, Units
  <1> QED
    BY <1>1, <1>2, <1>3

(* The sum of nothing. *)
LEMMA TotalEmpty ==
    ASSUME NEW xs, Len(xs) = 0
    PROVE  Total(xs) = Zero
  <1>1. Fractions(xs)
    BY DEF Fractions
  <1> QED
    BY <1>1, TotalIsChain DEF Chain

(* One more term. *)
LEMMA TotalStep ==
    ASSUME NEW xs, NEW ys, Fractions(ys), Len(xs) \in Nat, Len(ys) = Len(xs) + 1,
           \A i \in 1 .. Len(xs) : xs[i] = ys[i]
    PROVE  Fractions(xs) /\ Total(ys) = Plus(Total(xs), ys[Len(ys)])
  <1> DEFINE n == Len(xs)
  <1>1. Fractions(xs)
    BY DEF Fractions
  <1>2. PICK s : Chain(s, Zero, Adding(xs, n), n) /\ Total(xs) = s[n]
    BY <1>1, TotalIsChain
  <1>3. PICK t : Chain(t, Zero, Adding(ys, n + 1), n + 1) /\ Total(ys) = t[n + 1]
    BY TotalIsChain
  <1>4. \A i \in 1 .. n : Adding(ys, n + 1)[i] = Adding(xs, n)[i]
    BY DEF Adding
  <1>5. Chain(t, Zero, Adding(ys, n + 1), n)
    BY <1>3 DEF Chain
  <1>6. \A i \in 0 .. n : s[i] \in Fraction /\ t[i] = s[i]
    <2>1. \A i \in 1 .. n : Adding(xs, n)[i] \in [Fraction -> Fraction]
      BY <1>1, AddingType
    <2> QED
      BY <1>2, <1>4, <1>5, <2>1, ChainsAgree, Units
  <1>7. t[n] \in Fraction /\ t[n] = Total(xs)
    BY <1>2, <1>6
  <1>8. t[n + 1] = Adding(ys, n + 1)[n + 1][t[n]]
    <2>1. n + 1 \in 1 .. n + 1 /\ (n + 1) - 1 = n
      OBVIOUS
    <2> QED
      BY <1>3, <1>7, <2>1 DEF Chain
  <1>9. t[n + 1] = Plus(t[n], ys[n + 1])
    BY <1>7, <1>8, AddingType
  <1> QED
    BY <1>1, <1>3, <1>7, <1>9

(* A common factor. *)
LEMMA TotalScaled ==
    ASSUME NEW xs, NEW ys, NEW c \in Fraction, Fractions(xs), Len(ys) = Len(xs),
           \A i \in 1 .. Len(xs) : ys[i] = Times(xs[i], c)
    PROVE  Total(ys) = Times(Total(xs), c)
  <1> DEFINE n == Len(xs)
  <1>1. Fractions(ys) /\ n \in Nat
    BY FractionOps DEF Fractions
  <1>2. PICK s : Chain(s, Zero, Adding(xs, n), n) /\ Total(xs) = s[n]
    BY TotalIsChain
  <1>3. PICK t : Chain(t, Zero, Adding(ys, n), n) /\ Total(ys) = t[n]
    BY <1>1, TotalIsChain
  <1>4. \A i \in 0 .. n : s[i] \in Fraction /\ s[i] = s[i]
    BY <1>1, <1>2, AddingType, ChainsAgree, Units
  <1> DEFINE T == {i \in 0 .. n : t[i] # Times(s[i], c)}
  <1>5. T = {}
    <2>1. SUFFICES ASSUME T # {} PROVE FALSE
      OBVIOUS
    <2>2. PICK i \in T : \A j \in T : i <= j
      <3>1. T \subseteq Nat
        BY <1>1
      <3> HIDE DEF T
      <3> QED
        BY <2>1, <3>1, LeastNatural
    <2>3. i # 0
      BY <1>2, <1>3, <2>2, Units DEF Chain
    <2>4. i - 1 \in 0 .. n /\ i \in 1 .. n /\ ~(i <= i - 1)
      BY <1>1, <2>2, <2>3
    <2>5. t[i - 1] = Times(s[i - 1], c) /\ s[i - 1] \in Fraction /\ t[i - 1] \in Fraction
      BY <1>4, <2>2, <2>4, FractionOps
    <2>6. s[i] = Plus(s[i - 1], xs[i]) /\ t[i] = Plus(t[i - 1], ys[i])
      BY <1>1, <1>2, <1>3, <2>4, <2>5, AddingType DEF Chain
    <2>7. xs[i] \in Fraction
      BY <2>4 DEF Fractions
    <2>8. Times(Plus(s[i - 1], xs[i]), c) = Plus(Times(s[i - 1], c), Times(xs[i], c))
      BY <2>5, <2>7, Distributes
    <2> QED
      BY <2>2, <2>4, <2>5, <2>6, <2>8
  <1>6. n \in 0 .. n
    BY <1>1
  <1> QED
    BY <1>2, <1>3, <1>5, <1>6

(* The powers of a fraction, one by one. *)
Scaling(p, n) == [i \in 1 .. n |-> [q \in Fraction |-> Times(q, p)]]

LEMMA ScalingType ==
    ASSUME NEW p \in Fraction, NEW n \in Nat
    PROVE  \A i \in 1 .. n : /\ Scaling(p, n)[i] \in [Fraction -> Fraction]
                             /\ \A q \in Fraction : Scaling(p, n)[i][q] = Times(q, p)
  BY FractionOps DEF Scaling

(* Power() is the end of the chain that multiplies by p. *)
LEMMA PowerIsChain ==
    ASSUME NEW p \in Fraction, NEW n \in Nat
    PROVE  \E s : Chain(s, One, Scaling(p, n), n) /\ Power(p, n) = s[n]
  <1> DEFINE Is(s) == s = [i \in 0 .. n |-> IF i = 0 THEN Whole(1) ELSE Times(s[i - 1], p)]
             upTo == CHOOSE s : Is(s)
  <1>1. PICK s \in [0 .. n -> Fraction] : Chain(s, One, Scaling(p, n), n)
    BY ScalingType, ChainExists, Units
  <1>2. Is(s)
    <2>1. ASSUME NEW i \in 1 .. n PROVE s[i] = Times(s[i - 1], p)
      <3>1. i - 1 \in 0 .. n
        OBVIOUS
      <3> QED
        BY <1>1, <3>1, ScalingType DEF Chain
    <2> QED
      BY <1>1, <2>1 DEF Chain, One
  <1>3. Is(upTo)
    BY <1>2
  <1>4. Power(p, n) = upTo[n]
    BY DEF Power
  <1> HIDE DEF upTo
  <1>5. Chain(upTo, One, Scaling(p, n), n)
    <2>1. upTo[0] = One
      BY <1>3 DEF One
    <2>2. ASSUME NEW i \in 1 .. n PROVE upTo[i] = Times(upTo[i - 1], p)
      BY <1>3
    <2> QED
      BY <2>1, <2>2, ScalingType DEF Chain
  <1> QED
    BY <1>4, <1>5

LEMMA PowerType ==
    ASSUME NEW p \in Fraction, NEW n \in Nat
    PROVE  Power(p, n) \in Fraction
  <1>1. PICK s : Chain(s, One, Scaling(p, n), n) /\ Power(p, n) = s[n]
    BY PowerIsChain
  <1>2. \A i \in 0 .. n : s[i] \in Fraction /\ s[i] = s[i]
    BY <1>1, ScalingType, ChainsAgree, Units
  <1> QED
    BY <1>1, <1>2

LEMMA PowerZero == \A p \in Fraction : Power(p, 0) = One
  BY PowerIsChain DEF Chain

(* One more factor. *)
LEMMA PowerStep ==
    ASSUME NEW p \in Fraction, NEW n \in Nat
    PROVE  Power(p, n + 1) = Times(Power(p, n), p)
  <1>1. PICK s : Chain(s, One, Scaling(p, n), n) /\ Power(p, n) = s[n]
    BY PowerIsChain
  <1>2. PICK t : Chain(t, One, Scaling(p, n + 1), n + 1) /\ Power(p, n + 1) = t[n + 1]
    BY PowerIsChain
  <1>3. \A i \in 1 .. n : Scaling(p, n + 1)[i] = Scaling(p, n)[i]
    BY DEF Scaling
  <1>4. Chain(t, One, Scaling(p, n + 1), n)
    BY <1>2 DEF Chain
  <1>5. \A i \in 0 .. n : s[i] \in Fraction /\ t[i] = s[i]
    BY <1>1, <1>3, <1>4, ScalingType, ChainsAgree, Units
  <1>6. t[n] \in Fraction /\ t[n] = Power(p, n)
    BY <1>1, <1>5
  <1>7. n + 1 \in 1 .. n + 1 /\ (n + 1) - 1 = n
    OBVIOUS
  <1>8. t[n + 1] = Scaling(p, n + 1)[n + 1][t[n]]
    BY <1>2, <1>6, <1>7 DEF Chain
  <1> QED
    BY <1>2, <1>6, <1>7, <1>8, ScalingType

-----------------------------------------------------------------------------
(* Averages *)

(* ys is xs and one more input. *)
Extends(xs, ys) ==
    /\ Fractions(ys)
    /\ Len(xs) \in Nat
    /\ Len(ys) = Len(xs) + 1
    /\ \A i \in 1 .. Len(xs) : xs[i] = ys[i]

(* The share of the old value that a new input leaves. *)
Kept(alpha) == Minus(Whole(1), alpha)

LEMMA KeptType == \A alpha \in Fraction : Kept(alpha) \in Fraction
  BY FractionOps, Units DEF Kept, One

(* Weights of the mean, and of the inputs after it. *)
LEMMA WeightIs ==
    ASSUME NEW p \in Positive, NEW alpha \in Fraction, NEW k \in Positive, NEW i \in 1 .. k
    PROVE  /\ Weight(i, k, p, alpha) \in Fraction
           /\ k <= p => Weight(i, k, p, alpha) = Frac(1, k)
           /\ ~(k <= p) /\ i <= p =>
                 Weight(i, k, p, alpha) = Times(Frac(1, p), Power(Kept(alpha), k - p))
           /\ ~(k <= p) /\ ~(i <= p) =>
                 Weight(i, k, p, alpha) = Times(alpha, Power(Kept(alpha), k - i))
  <1>1. /\ k <= p => Weight(i, k, p, alpha) = Frac(1, k)
        /\ ~(k <= p) /\ i <= p =>
              Weight(i, k, p, alpha) = Times(Frac(1, p), Power(Kept(alpha), k - p))
        /\ ~(k <= p) /\ ~(i <= p) =>
              Weight(i, k, p, alpha) = Times(alpha, Power(Kept(alpha), k - i))
    BY DEF Weight, Kept
  <1>2. Kept(alpha) \in Fraction /\ Frac(1, k) \in Fraction /\ Frac(1, p) \in Fraction
    BY KeptType, Inverses
  <1>3. CASE k <= p
    BY <1>1, <1>2, <1>3
  <1>4. CASE ~(k <= p) /\ i <= p
    <2>1. k - p \in Nat
      BY <1>4 DEF Positive
    <2> QED
      BY <1>1, <1>2, <1>4, <2>1, PowerType, FractionOps
  <1>5. CASE ~(k <= p) /\ ~(i <= p)
    <2>1. k - i \in Nat
      BY DEF Positive
    <2> QED
      BY <1>1, <1>2, <1>5, <2>1, PowerType, FractionOps
  <1> QED
    BY <1>1, <1>3, <1>4, <1>5

(* A later input takes the same share of every weight, and has the first. *)
LEMMA WeightStep ==
    ASSUME NEW p \in Positive, NEW alpha \in Fraction, NEW k \in Nat, p <= k
    PROVE  /\ \A i \in 1 .. k : Weight(i, k + 1, p, alpha) = Times(Weight(i, k, p, alpha), Kept(alpha))
           /\ Weight(k + 1, k + 1, p, alpha) = alpha
  <1>1. /\ k \in Positive /\ k + 1 \in Positive /\ ~(k + 1 <= p) /\ ~(k + 1 <= p)
        /\ k + 1 \in 1 .. k + 1 /\ (k + 1) - (k + 1) = 0
    BY DEF Positive
  <1>2. Kept(alpha) \in Fraction /\ Frac(1, p) \in Fraction
    BY KeptType, Inverses
  <1>3. ASSUME NEW i \in 1 .. k
        PROVE  Weight(i, k + 1, p, alpha) = Times(Weight(i, k, p, alpha), Kept(alpha))
    <2>1. i \in 1 .. k + 1
      OBVIOUS
    <2>2. CASE i <= p
      <3>1. k - p \in Nat /\ (k + 1) - p = (k - p) + 1
        BY DEF Positive
      <3> DEFINE n == k - p
      <3>2. n \in Nat /\ (k + 1) - p = n + 1
        BY <3>1
      <3>3. Weight(i, k + 1, p, alpha) = Times(Frac(1, p), Power(Kept(alpha), n + 1))
        BY <1>1, <2>1, <2>2, <3>2, WeightIs
      <3>4. Power(Kept(alpha), n + 1) = Times(Power(Kept(alpha), n), Kept(alpha))
        BY <1>2, <3>2, PowerStep
      <3>5. Power(Kept(alpha), n) \in Fraction
        BY <1>2, <3>2, PowerType
      <3>6. Weight(i, k + 1, p, alpha) = Times(Times(Frac(1, p), Power(Kept(alpha), n)), Kept(alpha))
        BY <1>2, <3>3, <3>4, <3>5, TimesAssociates
      <3>7. Weight(i, k, p, alpha) = Times(Frac(1, p), Power(Kept(alpha), n))
        <4>1. CASE k <= p
          <5>1. k = p /\ n = 0
            BY <4>1 DEF Positive
          <5>2. Weight(i, k, p, alpha) = Frac(1, p)
            BY <1>1, <4>1, <5>1, WeightIs
          <5> QED
            BY <1>2, <5>1, <5>2, PowerZero, Units
        <4>2. CASE ~(k <= p)
          BY <1>1, <2>2, <4>2, WeightIs
        <4> QED
          BY <4>1, <4>2
      <3> QED
        BY <3>6, <3>7
    <2>3. CASE ~(i <= p)
      <3> DEFINE n == k - i
      <3>1. n \in Nat /\ (k + 1) - i = n + 1 /\ ~(k <= p)
        BY <2>3 DEF Positive
      <3>2. Weight(i, k + 1, p, alpha) = Times(alpha, Power(Kept(alpha), n + 1))
        BY <1>1, <2>1, <2>3, <3>1, WeightIs
      <3>3. Power(Kept(alpha), n + 1) = Times(Power(Kept(alpha), n), Kept(alpha))
        BY <1>2, <3>1, PowerStep
      <3>4. Power(Kept(alpha), n) \in Fraction
        BY <1>2, <3>1, PowerType
      <3>5. Weight(i, k + 1, p, alpha) = Times(Times(alpha, Power(Kept(alpha), n)), Kept(alpha))
        BY <1>2, <3>2, <3>3, <3>4, TimesAssociates
      <3>6. Weight(i, k, p, alpha) = Times(alpha, Power(Kept(alpha), n))
        BY <1>1, <2>3, <3>1, WeightIs
      <3> QED
        BY <3>5, <3>6
    <2> QED
      BY <2>2, <2>3
  <1>4. Weight(k + 1, k + 1, p, alpha) = Times(alpha, Power(Kept(alpha), 0))
    BY <1>1, WeightIs
  <1> QED
    BY <1>2, <1>3, <1>4, PowerZero, Units

(* The weighted inputs. *)
Terms(xs, k, p, alpha) == [i \in 1 .. Len(xs) |-> Times(xs[i], Weight(i, k, p, alpha))]

LEMMA TermsType ==
    ASSUME NEW xs, Fractions(xs), NEW k \in Positive, Len(xs) <= k,
           NEW p \in Positive, NEW alpha \in Fraction
    PROVE  /\ Fractions(Terms(xs, k, p, alpha))
           /\ Len(Terms(xs, k, p, alpha)) = Len(xs)
           /\ \A i \in 1 .. Len(xs) : Terms(xs, k, p, alpha)[i] = Times(xs[i], Weight(i, k, p, alpha))
  <1>1. Len(xs) \in Nat
    BY DEF Fractions
  <1>2. Len(Terms(xs, k, p, alpha)) = Len(xs)
    BY <1>1 DEF Terms
  <1>3. ASSUME NEW i \in 1 .. Len(xs) PROVE Times(xs[i], Weight(i, k, p, alpha)) \in Fraction
    <2>1. i \in 1 .. k
      BY <1>1 DEF Positive
    <2> QED
      BY <2>1, WeightIs, FractionOps DEF Fractions
  <1> QED
    BY <1>1, <1>2, <1>3 DEF Fractions, Terms

(* An average is a fraction. *)
LEMMA AverageType ==
    ASSUME NEW xs, Fractions(xs), NEW p \in Positive, NEW alpha \in Fraction
    PROVE  Average(xs, p, alpha) \in Fraction
  <1>1. CASE Len(xs) = 0
    <2>1. Len([i \in 1 .. Len(xs) |-> Times(xs[i], Weight(i, Len(xs), p, alpha))]) = 0
      BY <1>1
    <2> QED
      BY <2>1, TotalEmpty, Units DEF Average
  <1>2. CASE Len(xs) # 0
    <2>1. Len(xs) \in Positive /\ Len(xs) <= Len(xs)
      BY <1>2 DEF Fractions, Positive
    <2>2. Fractions(Terms(xs, Len(xs), p, alpha))
      BY <2>1, TermsType
    <2> QED
      BY <2>2, TotalType DEF Average, Terms
  <1> QED
    BY <1>1, <1>2

(* As long as there are no more inputs than the period, the mean. *)
LEMMA AverageOfFew ==
    ASSUME NEW xs, Fractions(xs), NEW p \in Positive, NEW alpha \in Fraction,
           Len(xs) \in 1 .. p
    PROVE  Average(xs, p, alpha) = Times(Total(xs), Frac(1, Len(xs)))
  <1> DEFINE k == Len(xs)
             ts == Terms(xs, k, p, alpha)
  <1>1. k \in Positive /\ k <= p /\ k <= k
    BY DEF Positive
  <1>2. Frac(1, k) \in Fraction
    BY <1>1, Inverses
  <1>3. Len(ts) = k /\ \A i \in 1 .. k : ts[i] = Times(xs[i], Frac(1, k))
    <2>1. Len(ts) = k /\ \A i \in 1 .. k : ts[i] = Times(xs[i], Weight(i, k, p, alpha))
      BY <1>1, TermsType
    <2>2. \A i \in 1 .. k : Weight(i, k, p, alpha) = Frac(1, k)
      BY <1>1, WeightIs
    <2> QED
      BY <2>1, <2>2
  <1>4. Total(ts) = Times(Total(xs), Frac(1, k))
    BY <1>2, <1>3, TotalScaled
  <1> QED
    BY <1>4 DEF Average, Terms

(* The running mean. *)
LEMMA AverageMean ==
    ASSUME NEW xs, NEW ys, Extends(xs, ys), NEW p \in Positive, NEW alpha \in Fraction,
           Len(ys) <= p, NEW v \in Fraction, Len(xs) = 0 \/ v = Average(xs, p, alpha)
    PROVE  Average(ys, p, alpha) =
              Times(Plus(Times(v, Whole(Len(xs))), ys[Len(ys)]), Frac(1, Len(ys)))
  <1> DEFINE k == Len(xs)
  <1>1. k \in Nat /\ Len(ys) = k + 1 /\ Len(ys) \in 1 .. p /\ Fractions(ys)
    BY DEF Extends
  <1>2. Fractions(xs) /\ Total(ys) = Plus(Total(xs), ys[Len(ys)])
    BY TotalStep DEF Extends
  <1>3. Average(ys, p, alpha) = Times(Total(ys), Frac(1, Len(ys)))
    BY <1>1, AverageOfFew
  <1>4. Times(v, Whole(k)) = Total(xs)
    <2>1. CASE k = 0
      BY <2>1, TotalEmpty, Units, Commute DEF Zero
    <2>2. CASE k # 0
      <3>1. k \in Positive /\ k \in 1 .. p
        BY <1>1, <2>2 DEF Positive
      <3>2. v = Times(Total(xs), Frac(1, k))
        BY <1>2, <2>2, <3>1, AverageOfFew
      <3>3. Total(xs) \in Fraction /\ Frac(1, k) \in Fraction /\ Whole(k) \in Fraction
        BY <1>2, <3>1, TotalType, Inverses
      <3>4. Times(v, Whole(k)) = Times(Total(xs), Times(Frac(1, k), Whole(k)))
        BY <3>2, <3>3, TimesAssociates
      <3> QED
        BY <3>1, <3>3, <3>4, Inverses, Units
    <2> QED
      BY <2>1, <2>2
  <1> QED
    BY <1>2, <1>3, <1>4

(* The exponential average. *)
LEMMA AverageSmoothed ==
    ASSUME NEW xs, NEW ys, Extends(xs, ys), NEW p \in Positive, NEW alpha \in Fraction,
           p <= Len(xs)
    PROVE  Average(ys, p, alpha) =
              Plus(Times(ys[Len(ys)], alpha), Times(Average(xs, p, alpha), Minus(Whole(1), alpha)))
  <1> DEFINE k == Len(xs)
             ts == Terms(xs, k, p, alpha)
             shrunk == Terms(xs, k + 1, p, alpha)
             us == Terms(ys, k + 1, p, alpha)
  <1>1. /\ k \in Nat /\ k \in Positive /\ k + 1 \in Positive /\ Len(ys) = k + 1
        /\ k <= k /\ k <= k + 1 /\ Len(ys) <= k + 1 /\ k + 1 \in 1 .. k + 1
        /\ Fractions(ys) /\ \A i \in 1 .. k : xs[i] = ys[i]
    BY DEF Extends, Positive
  <1>2. Fractions(xs)
    BY TotalStep DEF Extends
  <1>3. /\ Fractions(ts) /\ Len(ts) = k
        /\ \A i \in 1 .. k : ts[i] = Times(xs[i], Weight(i, k, p, alpha))
    BY <1>1, <1>2, TermsType
  <1>4. /\ Fractions(shrunk) /\ Len(shrunk) = k
        /\ \A i \in 1 .. k : shrunk[i] = Times(xs[i], Weight(i, k + 1, p, alpha))
    BY <1>1, <1>2, TermsType
  <1>5. /\ Fractions(us) /\ Len(us) = k + 1
        /\ \A i \in 1 .. k + 1 : us[i] = Times(ys[i], Weight(i, k + 1, p, alpha))
    BY <1>1, TermsType
  <1>6. Average(xs, p, alpha) = Total(ts) /\ Average(ys, p, alpha) = Total(us)
    BY <1>1 DEF Average, Terms
  <1> HIDE DEF ts, shrunk, us
  <1>7. Kept(alpha) \in Fraction
    BY KeptType
  <1>8. \A i \in 1 .. k : shrunk[i] = Times(ts[i], Kept(alpha))
    <2> SUFFICES ASSUME NEW i \in 1 .. k PROVE shrunk[i] = Times(ts[i], Kept(alpha))
      OBVIOUS
    <2>1. Weight(i, k + 1, p, alpha) = Times(Weight(i, k, p, alpha), Kept(alpha))
      BY <1>1, WeightStep
    <2>2. Weight(i, k, p, alpha) \in Fraction /\ xs[i] \in Fraction
      BY <1>1, <1>2, WeightIs DEF Fractions
    <2> QED
      BY <1>3, <1>4, <1>7, <2>1, <2>2, TimesAssociates
  <1>9. Total(shrunk) = Times(Total(ts), Kept(alpha))
    BY <1>3, <1>4, <1>7, <1>8, TotalScaled
  <1>10. \A i \in 1 .. k : shrunk[i] = us[i]
    BY <1>1, <1>4, <1>5
  <1>11. Total(us) = Plus(Total(shrunk), us[k + 1])
    BY <1>1, <1>4, <1>5, <1>10, TotalStep
  <1>12. us[k + 1] = Times(ys[k + 1], alpha)
    BY <1>1, <1>5, WeightStep
  <1>13. Total(shrunk) \in Fraction /\ us[k + 1] \in Fraction
    BY <1>1, <1>4, <1>5, TotalType DEF Fractions
  <1>14. Total(us) = Plus(us[k + 1], Total(shrunk))
    BY <1>11, <1>13, Commute
  <1> QED
    BY <1>1, <1>6, <1>9, <1>12, <1>14 DEF Kept

(* Wilder's average. *)
LEMMA AverageWilder ==
    ASSUME NEW xs, NEW ys, Extends(xs, ys), NEW p \in Positive, p <= Len(xs)
    PROVE  Average(ys, p, Frac(1, p)) =
              Times(Plus(Times(Average(xs, p, Frac(1, p)), Whole(p - 1)), ys[Len(ys)]), Frac(1, p))
  <1> DEFINE part == Frac(1, p)
             a == Average(xs, p, part)
             x == ys[Len(ys)]
             w == Whole(p - 1)
  <1>1. part \in Fraction /\ Times(w, part) = Minus(One, part)
    BY Inverses
  <1>2. w \in Fraction
    <2>1. p - 1 \in Int /\ 1 \in Positive
      BY DEF Positive
    <2> QED
      BY <2>1 DEF Whole, Fraction
  <1>3. Fractions(xs) /\ Fractions(ys) /\ Len(ys) \in 1 .. Len(ys)
    BY TotalStep DEF Extends
  <1>4. a \in Fraction /\ x \in Fraction
    BY <1>1, <1>3, AverageType DEF Fractions
  <1>5. Average(ys, p, part) = Plus(Times(x, part), Times(a, Minus(One, part)))
    BY <1>1, AverageSmoothed DEF One
  <1> HIDE DEF part, a, x, w
  <1>6. Times(a, w) \in Fraction /\ Times(x, part) \in Fraction /\ Times(a, Minus(One, part)) \in Fraction
    BY <1>1, <1>2, <1>4, FractionOps, Units
  <1>7. Times(Plus(Times(a, w), x), part) = Plus(Times(Times(a, w), part), Times(x, part))
    BY <1>1, <1>4, <1>6, Distributes
  <1>8. Times(Times(a, w), part) = Times(a, Minus(One, part))
    BY <1>1, <1>2, <1>4, TimesAssociates
  <1>9. Times(Plus(Times(a, w), x), part) = Plus(Times(x, part), Times(a, Minus(One, part)))
    BY <1>6, <1>7, <1>8, Commute
  <1> QED
    BY <1>5, <1>9 DEF part, a, x, w

-----------------------------------------------------------------------------
(* The values of the indicators *)

LEMMA WholeType == \A n \in Int : Whole(n) \in Fraction
  <1>1. 1 \in Positive
    BY DEF Positive
  <1> QED
    BY <1>1 DEF Whole, Fraction

(* EMA::write() takes an average of some inputs to that of one input more. *)
LEMMA EmaWriteAverages ==
    ASSUME NEW s \in Series, period[s] \in Positive, value[s] \in Fraction,
           NEW xs, NEW ys, Extends(xs, ys), count[s] = UpTo(Len(xs), period[s]),
           Len(xs) = 0 \/ value[s] = Ema(xs, period[s])
    PROVE  EmaWrite(s, ys[Len(ys)]) = Ema(ys, period[s])
  <1> DEFINE p == period[s]
             alpha == Frac(2, 1 + p)
             k == Len(xs)
             x == ys[Len(ys)]
  <1>1. k \in Nat /\ Len(ys) = k + 1 /\ p \in Nat /\ p > 0
    BY DEF Extends, Positive
  <1>2. alpha \in Fraction
    <2>1. 1 + p \in Positive /\ 2 \in Int
      BY <1>1 DEF Positive
    <2> QED
      BY <2>1 DEF Fraction
  <1>3. CASE k < p
    <2>1. ~IsFull(s) /\ NextCount(s) = k + 1
      BY <1>1, <1>3 DEF UpTo, IsFull, NextCount
    <2>2. EmaWrite(s, x) = Times(Plus(Times(value[s], Whole(k)), x), Frac(1, k + 1))
      <3>1. (k + 1) - 1 = k
        BY <1>1
      <3> QED
        BY <2>1, <3>1 DEF EmaWrite, MeanWith
    <2>3. Len(ys) <= p
      BY <1>1, <1>3
    <2> QED
      BY <1>1, <1>2, <2>2, <2>3, AverageMean DEF Ema
  <1>4. CASE ~(k < p)
    <2>1. IsFull(s) /\ p <= k /\ k # 0
      BY <1>1, <1>4 DEF UpTo, IsFull
    <2>2. EmaWrite(s, x) = Plus(Times(x, alpha), Times(value[s], Minus(Whole(1), alpha)))
      BY <2>1 DEF EmaWrite, Smoothed
    <2>3. value[s] = Average(xs, p, alpha)
      BY <2>1 DEF Ema
    <2> QED
      BY <1>2, <2>1, <2>2, <2>3, AverageSmoothed DEF Ema
  <1> QED
    BY <1>3, <1>4

(* ATR::write() too, with the weights of Wilder's average. *)
LEMMA AtrWriteAverages ==
    ASSUME NEW s \in Series, period[s] \in Positive, value[s] \in Fraction,
           NEW xs, NEW ys, Extends(xs, ys), count[s] = UpTo(Len(xs), period[s]),
           Len(xs) = 0 \/ value[s] = Average(xs, period[s], Frac(1, period[s]))
    PROVE  MeanWith(s, ys[Len(ys)]) = Average(ys, period[s], Frac(1, period[s]))
  <1> DEFINE p == period[s]
             k == Len(xs)
             x == ys[Len(ys)]
  <1>1. k \in Nat /\ Len(ys) = k + 1 /\ p \in Nat /\ p > 0
    BY DEF Extends, Positive
  <1>2. Frac(1, p) \in Fraction
    BY Inverses
  <1>3. CASE k < p
    <2>1. NextCount(s) = k + 1 /\ (k + 1) - 1 = k
      BY <1>1, <1>3 DEF UpTo, IsFull, NextCount
    <2>2. MeanWith(s, x) = Times(Plus(Times(value[s], Whole(k)), x), Frac(1, k + 1))
      BY <2>1 DEF MeanWith
    <2>3. Len(ys) <= p
      BY <1>1, <1>3
    <2> QED
      BY <1>1, <1>2, <2>2, <2>3, AverageMean
  <1>4. CASE ~(k < p)
    <2>1. NextCount(s) = p /\ p <= k /\ k # 0
      BY <1>1, <1>4 DEF UpTo, IsFull, NextCount
    <2>2. MeanWith(s, x) = Times(Plus(Times(value[s], Whole(p - 1)), x), Frac(1, p))
      BY <2>1 DEF MeanWith
    <2> QED
      BY <2>1, <2>2, AverageWilder
  <1> QED
    BY <1>3, <1>4

(* The values are those of the textbook, and ATR remembers the last close. *)
TextbookInv ==
    /\ value \in [Series -> Fraction]
    /\ "ATR" \in names /\ bars # <<>> => prevClose = bars[Len(bars)].close
    /\ MatchesTextbook

(* The bars so far, and one more. *)
LEMMA BarsGrow ==
    ASSUME CountersInv, NEW bar \in Candle, OnBar(bar)
    PROVE  /\ Len(bars) \in Nat /\ Len(bars') = Len(bars) + 1
           /\ bars' # <<>> /\ (bars = <<>> <=> Len(bars) = 0)
           /\ bars'[Len(bars) + 1] = bar
           /\ \A i \in 1 .. Len(bars) : bars[i] \in Candle /\ bars'[i] = bars[i]
  <1>1. bars' = Append(bars, bar) /\ bars \in Seq(Candle)
    BY DEF OnBar, CountersInv, Shape
  <1>2. bars = <<>> <=> Len(bars) = 0
    BY <1>1, EmptySeq
  <1>3. Len(bars') = Len(bars) + 1
    BY <1>1
  <1>4. bars' # <<>>
    BY <1>1
  <1> QED
    BY <1>1, <1>2, <1>3, <1>4

(* What the indicators average once a bar is there. *)
NewCloses(n) == [i \in 1 .. n |-> Whole(bars'[i].close)]

NewRanges == [i \in 1 .. Len(bars) |-> Whole(CalcTr(bars'[i + 1], bars'[i].close))]

NewLine(n) == Minus(Ema(NewCloses(n), period["fast"]), Ema(NewCloses(n), period["slow"]))

NewLines == [i \in 1 .. Len(bars) + 1 - Filled |-> NewLine(Filled + i)]

(* The closes, before and after. *)
LEMMA ClosesGrow ==
    ASSUME CountersInv, NEW bar \in Candle, OnBar(bar), NEW k \in 0 .. Len(bars)
    PROVE  /\ Extends(Closes(k), NewCloses(k + 1))
           /\ k = Len(bars) => NewCloses(k + 1)[Len(NewCloses(k + 1))] = Whole(bar.close)
  <1> DEFINE ys == NewCloses(k + 1)
  <1>1. Len(bars) \in Nat /\ k \in Nat /\ Len(ys) = k + 1 /\ Len(Closes(k)) = k
    BY BarsGrow DEF Closes, NewCloses
  <1>2. ASSUME NEW i \in 1 .. k + 1 PROVE ys[i] \in Fraction
    <2>1. bars'[i] \in Candle
      BY <1>1, BarsGrow
    <2> QED
      BY <2>1, CandleAssumption, WholeType DEF NewCloses
  <1>3. ASSUME NEW i \in 1 .. k PROVE Closes(k)[i] = ys[i]
    BY <1>1, BarsGrow DEF Closes, NewCloses
  <1>4. k = Len(bars) => ys[k + 1] = Whole(bar.close)
    BY <1>1, BarsGrow DEF NewCloses
  <1> HIDE DEF ys
  <1>5. Extends(Closes(k), ys)
    BY <1>1, <1>2, <1>3 DEF Extends, Fractions
  <1> QED
    BY <1>1, <1>4, <1>5 DEF ys

(* A bar does not change the closes of the bars before it. *)
LEMMA EarlierCloses ==
    ASSUME CountersInv, NEW bar \in Candle, OnBar(bar), NEW k \in 0 .. Len(bars)
    PROVE  NewCloses(k) = Closes(k) /\ Fractions(Closes(k))
  <1>1. Len(bars) \in Nat /\ Len(Closes(k)) = k
    BY BarsGrow DEF Closes
  <1>2. \A i \in 1 .. k : bars'[i] = bars[i] /\ bars[i] \in Candle
    BY <1>1, BarsGrow
  <1> QED
    BY <1>1, <1>2, CandleAssumption, WholeType DEF Closes, NewCloses, Fractions

LEMMA EmaType ==
    ASSUME NEW xs, Fractions(xs), NEW p \in Positive
    PROVE  Ema(xs, p) \in Fraction
  <1>1. 1 + p \in Positive /\ 2 \in Int
    BY DEF Positive
  <1>2. Frac(2, 1 + p) \in Fraction
    BY <1>1 DEF Fraction
  <1> QED
    BY <1>2, AverageType DEF Ema

(* The averages of the closes. *)
LEMMA EmaStep ==
    ASSUME CountersInv, TextbookInv, NEW bar \in Candle, OnBar(bar),
           NEW s \in {"EMA", "fast", "slow"}, OwnerOf(s) \in names
    PROVE  /\ EmaWrite(s, Whole(bar.close)) = Ema(NewCloses(Len(bars) + 1), period[s])
           /\ value'[s] = EmaWrite(s, Whole(bar.close))
           /\ value'[s] \in Fraction
  <1> DEFINE k == Len(bars)
             xs == Closes(k)
             ys == NewCloses(k + 1)
  <1>1. k \in Nat /\ k \in 0 .. Len(bars) /\ Len(xs) = k /\ (bars = <<>> <=> k = 0)
    BY BarsGrow DEF Closes
  <1>2. Extends(xs, ys) /\ ys[Len(ys)] = Whole(bar.close)
    BY <1>1, ClosesGrow
  <1>3. s \in Series /\ period[s] \in Positive /\ value[s] \in Fraction
    BY DEF Series, CountersInv, Shape, Positive, TextbookInv
  <1>4. count[s] = UpTo(Len(xs), period[s])
    BY <1>1 DEF CountersInv, Counters
  <1>5. Len(xs) = 0 \/ value[s] = Ema(xs, period[s])
    BY <1>1 DEF TextbookInv, MatchesTextbook
  <1> HIDE DEF xs, ys
  <1>6. EmaWrite(s, Whole(bar.close)) = Ema(ys, period[s])
    BY <1>2, <1>3, <1>4, <1>5, EmaWriteAverages
  <1>7. s \in Written /\ WriteOf(s, bar) = EmaWrite(s, Whole(bar.close))
    BY <1>3 DEF Written, WriteOf
  <1>8. value'[s] = WriteOf(s, bar)
    BY <1>3, <1>7 DEF OnBar
  <1>9. Ema(ys, period[s]) \in Fraction
    BY <1>2, <1>3, EmaType DEF Extends
  <1> QED
    BY <1>6, <1>7, <1>8, <1>9 DEF ys

(* True ranges are in cents, as prices are. *)
LEMMA CalcTrType ==
    ASSUME NEW bar \in Candle, NEW close \in Int
    PROVE  CalcTr(bar, close) \in Int
  BY CandleAssumption DEF CalcTr, Largest, Distance

(* The average of the true ranges. *)
LEMMA AtrStep ==
    ASSUME CountersInv, TextbookInv, NEW bar \in Candle, OnBar(bar),
           "ATR" \in names, Len(bars) > 0
    PROVE  /\ value'["ATR"] = Average(NewRanges, period["ATR"], Frac(1, period["ATR"]))
           /\ value'["ATR"] \in Fraction
  <1> DEFINE k == Len(bars)
             xs == Ranges
             ys == NewRanges
             s == "ATR"
  <1>1. /\ k \in Nat /\ k \in 1 .. k /\ k - 1 \in Nat /\ bars # <<>>
        /\ Len(xs) = k - 1 /\ Len(ys) = (k - 1) + 1 /\ Len(ys) = k
    <2>1. k \in Nat /\ k \in 1 .. k /\ k - 1 \in Nat /\ bars # <<>>
      BY BarsGrow
    <2>2. Len(xs) = k - 1
      BY <2>1 DEF Ranges
    <2>3. Len(ys) = k
      BY <2>1 DEF NewRanges
    <2> QED
      BY <2>1, <2>2, <2>3
  <1>2. prevClose = bars[k].close /\ bars[k].close # -1
    BY <1>1, BarsGrow, CandleAssumption DEF TextbookInv
  <1>3. ASSUME NEW i \in 1 .. k PROVE ys[i] \in Fraction
    <2>1. i + 1 \in 1 .. k + 1 /\ bars'[i + 1] \in Candle /\ bars'[i] \in Candle
      BY <1>1, BarsGrow
    <2>2. bars'[i].close \in Int
      BY <2>1, CandleAssumption
    <2>3. CalcTr(bars'[i + 1], bars'[i].close) \in Int
      BY <2>1, <2>2, CalcTrType
    <2> QED
      BY <2>3, WholeType DEF NewRanges
  <1>4. ASSUME NEW i \in 1 .. k - 1 PROVE xs[i] = ys[i]
    <2>1. i \in 1 .. k /\ i + 1 \in 1 .. k
      BY <1>1
    <2>2. bars'[i + 1] = bars[i + 1] /\ bars'[i] = bars[i]
      BY <2>1, BarsGrow
    <2> QED
      BY <2>1, <2>2 DEF Ranges, NewRanges
  <1>5. ys[k] = Whole(CalcTr(bar, prevClose))
    <2>1. bars'[k + 1] = bar /\ bars'[k] = bars[k]
      BY <1>1, BarsGrow
    <2> QED
      BY <1>1, <1>2, <2>1 DEF NewRanges
  <1> HIDE DEF xs, ys
  <1>6. Extends(xs, ys)
    BY <1>1, <1>3, <1>4 DEF Extends, Fractions
  <1>7. s \in Series /\ OwnerOf(s) = s /\ period[s] \in Positive /\ value[s] \in Fraction
    BY DEF Series, CountersInv, Shape, Positive, TextbookInv, OwnerOf
  <1>8. count[s] = UpTo(Len(xs), period[s])
    BY <1>1 DEF CountersInv, Counters
  <1>9. Len(xs) = 0 \/ value[s] = Average(xs, period[s], Frac(1, period[s]))
    <2>1. Len(xs) # 0 => Len(bars) > 1
      BY <1>1
    <2> QED
      BY <1>1, <2>1 DEF TextbookInv, MatchesTextbook, xs
  <1>10. MeanWith(s, ys[Len(ys)]) = Average(ys, period[s], Frac(1, period[s]))
    BY <1>6, <1>7, <1>8, <1>9, AtrWriteAverages
  <1>11. s \in Written /\ WriteOf(s, bar) = MeanWith(s, Whole(CalcTr(bar, prevClose)))
    BY <1>2, <1>7 DEF Written, WriteOf
  <1>12. value'[s] = WriteOf(s, bar)
    BY <1>7, <1>11 DEF OnBar
  <1>13. Average(ys, period[s], Frac(1, period[s])) \in Fraction
    BY <1>6, <1>7, AverageType, Inverses DEF Extends
  <1> QED
    BY <1>1, <1>5, <1>10, <1>11, <1>12, <1>13 DEF ys

(* The signal line has an input for every bar after the two averages are full. *)
LEMMA SignalWhenFilled ==
    ASSUME CountersInv, "MACD" \in names
    PROVE  SignalDue <=> Len(bars) >= Filled
  <1>1. /\ count["fast"] = UpTo(Len(bars), period["fast"])
        /\ count["slow"] = UpTo(Len(bars), period["slow"])
        /\ Len(bars) \in Nat /\ period["fast"] \in Nat /\ period["slow"] \in Nat
    BY DEF CountersInv, Counters, Shape, OwnerOf, Series
  <1> QED
    BY <1>1 DEF SignalDue, IsFull, UpTo, Filled, Later

(* The signal line. *)
LEMMA SignalStep ==
    ASSUME CountersInv, TextbookInv, NEW bar \in Candle, OnBar(bar),
           "MACD" \in names, Len(bars) >= Filled
    PROVE  /\ value'["signal"] = Ema(NewLines, period["signal"])
           /\ value'["signal"] \in Fraction
  <1> DEFINE k == Len(bars)
             n == k - Filled
             xs == Lines
             ys == NewLines
             s == "signal"
  <1>1. /\ \A q \in {"fast", "slow", "signal"} :
              q \in Series /\ OwnerOf(q) = "MACD" /\ period[q] \in Positive /\ value[q] \in Fraction
        /\ Filled \in Positive
    <2>1. \A q \in {"fast", "slow", "signal"} :
             q \in Series /\ OwnerOf(q) = "MACD" /\ period[q] \in Positive /\ value[q] \in Fraction
      BY DEF Series, CountersInv, Shape, Positive, TextbookInv, OwnerOf
    <2> QED
      BY <2>1 DEF Filled, Later
  <1>2. /\ k \in Nat /\ n \in Nat /\ k + 1 - Filled = n + 1
        /\ Len(xs) = n /\ Len(ys) = n + 1
    <2>1. k \in Nat
      BY BarsGrow
    <2>2. n \in Nat /\ k + 1 - Filled = n + 1
      BY <1>1, <2>1 DEF Positive
    <2> QED
      BY <2>1, <2>2 DEF Lines, NewLines
  <1>3. \A j \in 0 .. k : NewLine(j) = Line(j)
    BY EarlierCloses DEF NewLine, Line
  <1>4. ASSUME NEW j \in 1 .. k + 1 PROVE NewLine(j) \in Fraction
    <2> DEFINE zs == NewCloses(j)
    <2>1. j - 1 \in 0 .. k /\ (j - 1) + 1 = j
      BY <1>2
    <2>2. Fractions(zs)
      BY <2>1, ClosesGrow DEF Extends
    <2> HIDE DEF zs
    <2>3. Ema(zs, period["fast"]) \in Fraction /\ Ema(zs, period["slow"]) \in Fraction
      BY <1>1, <2>2, EmaType
    <2> QED
      BY <2>3, FractionOps DEF NewLine, zs
  <1>5. Extends(xs, ys)
    <2>1. ASSUME NEW i \in 1 .. n PROVE xs[i] = ys[i]
      <3>1. Filled + i \in 0 .. k /\ i \in 1 .. k + 1 - Filled
        BY <1>1, <1>2 DEF Positive
      <3> QED
        BY <1>3, <3>1 DEF Lines, NewLines
    <2>2. ASSUME NEW i \in 1 .. n + 1 PROVE ys[i] \in Fraction
      <3>1. Filled + i \in 1 .. k + 1 /\ i \in 1 .. k + 1 - Filled
        BY <1>1, <1>2 DEF Positive
      <3> QED
        BY <1>4, <3>1 DEF NewLines
    <2> HIDE DEF xs, ys
    <2> QED
      BY <1>2, <2>1, <2>2 DEF Extends, Fractions
  <1>6. ys[n + 1] = Minus(EmaWrite("fast", Whole(bar.close)), EmaWrite("slow", Whole(bar.close)))
    <2>1. n + 1 \in 1 .. k + 1 - Filled /\ Filled + (n + 1) = k + 1
      BY <1>1, <1>2 DEF Positive
    <2>2. ys[n + 1] = NewLine(k + 1)
      BY <2>1 DEF NewLines
    <2> QED
      BY <1>1, <2>2, EmaStep DEF NewLine
  <1>7. count[s] = UpTo(Len(xs), period[s])
    BY <1>2 DEF CountersInv, Counters, Filled
  <1>8. Len(xs) = 0 \/ value[s] = Ema(xs, period[s])
    <2>1. Len(xs) # 0 => Len(bars) > Filled /\ Len(bars) # 0
      BY <1>1, <1>2 DEF Positive
    <2> QED
      BY <2>1, BarsGrow DEF TextbookInv, MatchesTextbook
  <1> HIDE DEF xs, ys
  <1>9. EmaWrite(s, ys[n + 1]) = Ema(ys, period[s])
    BY <1>1, <1>2, <1>5, <1>7, <1>8, EmaWriteAverages
  <1>10. s \in Written
    BY <1>1, SignalWhenFilled DEF Written
  <1>11. WriteOf(s, bar) = EmaWrite(s, ys[n + 1])
    BY <1>6 DEF WriteOf
  <1>12. value'[s] = WriteOf(s, bar)
    BY <1>1, <1>10 DEF OnBar
  <1>13. Ema(ys, period[s]) \in Fraction
    BY <1>1, <1>5, EmaType DEF Extends
  <1> QED
    BY <1>9, <1>11, <1>12, <1>13 DEF ys

(* Every value stays a fraction. *)
LEMMA ValuesStep ==
    ASSUME CountersInv, TextbookInv, NEW bar \in Candle, OnBar(bar)
    PROVE  value' \in [Series -> Fraction]
  <1>1. ASSUME NEW s \in Written PROVE value'[s] \in Fraction
    <2>1. s \in Series /\ OwnerOf(s) \in names
      BY <1>1 DEF Written
    <2>2. CASE s \in {"EMA", "fast", "slow"}
      BY <2>1, <2>2, EmaStep
    <2>3. CASE s = "ATR"
      <3>1. Len(bars) > 0 /\ "ATR" \in names
        BY <1>1, <2>1, <2>3, BarsGrow DEF Written, OwnerOf, CountersInv, Counters
      <3> QED
        BY <2>3, <3>1, AtrStep
    <2>4. CASE s = "signal"
      <3>1. SignalDue /\ "MACD" \in names
        BY <1>1, <2>1, <2>4 DEF Written, OwnerOf
      <3> QED
        BY <2>4, <3>1, SignalStep, SignalWhenFilled
    <2> QED
      BY <2>1, <2>2, <2>3, <2>4 DEF Series
  <1>2. value' = [s \in Series |-> IF s \in Written THEN WriteOf(s, bar) ELSE value[s]]
    BY DEF OnBar
  <1>3. \A s \in Series : value[s] \in Fraction
    BY DEF TextbookInv
  <1> QED
    BY <1>1, <1>2, <1>3

(* A step of the bot keeps the values those of the textbook. *)
LEMMA OnBarTextbook ==
    ASSUME CountersInv, TextbookInv, NEW bar \in Candle, OnBar(bar)
    PROVE  TextbookInv'
  <1> DEFINE k == Len(bars)
  <1>1. /\ names' = names /\ period' = period /\ k \in Nat /\ Len(bars') = k + 1
        /\ bars'[k + 1] = bar
    BY BarsGrow DEF OnBar
  <1>2. value' \in [Series -> Fraction]
    BY ValuesStep
  <1>3. "ATR" \in names' => prevClose' = bars'[Len(bars')].close
    BY <1>1 DEF OnBar
  <1>4. ASSUME NEW s \in {"EMA", "fast", "slow"}, OwnerOf(s) \in names
        PROVE  value'[s] = Ema(NewCloses(k + 1), period[s])
    BY <1>4, EmaStep
  <1>5. "ATR" \in names /\ k > 0 =>
           value'["ATR"] = Average(NewRanges, period["ATR"], Frac(1, period["ATR"]))
    BY AtrStep
  <1>6. "MACD" \in names /\ k >= Filled => value'["signal"] = Ema(NewLines, period["signal"])
    BY SignalStep
  <1>7. Filled' = Filled /\ Filled \in Nat
    BY <1>1 DEF Filled, Later, CountersInv, Shape, Series
  <1>8. MatchesTextbook'
    <2>1. \A s \in {"EMA", "fast", "slow"} :
             OwnerOf(s) \in names' => value'[s] = Ema(Closes(Len(bars))', period'[s])
      BY <1>1, <1>4 DEF Closes, NewCloses
    <2>2. "ATR" \in names' /\ Len(bars') > 1 =>
             value'["ATR"] = Average(Ranges', period'["ATR"], Frac(1, period'["ATR"]))
      <3>1. Len(bars') - 1 = k
        BY <1>1
      <3>2. Ranges' = NewRanges
        BY <3>1 DEF Ranges, NewRanges
      <3> QED
        BY <1>1, <1>5, <3>2
    <2>3. "MACD" \in names' /\ Len(bars') > Filled' =>
             value'["signal"] = Ema(Lines', period'["signal"])
      <3>1. \A n : Line(n)' = NewLine(n)
        BY <1>1 DEF Line, NewLine, Closes, NewCloses
      <3>2. Len(bars') - Filled' = k + 1 - Filled
        BY <1>1, <1>7
      <3>3. Lines' = NewLines
        BY <1>7, <3>1, <3>2 DEF Lines, NewLines
      <3>4. Len(bars') > Filled' => k >= Filled
        BY <1>1, <1>7
      <3> QED
        BY <1>1, <1>6, <3>3, <3>4
    <2> QED
      BY <2>1, <2>2, <2>3 DEF MatchesTextbook, OwnerOf
  <1> QED
    BY <1>2, <1>3, <1>8 DEF TextbookInv

(* There is nothing to average at the start. *)
LEMMA TextbookInit == Init => TextbookInv
  <1> SUFFICES ASSUME Init PROVE TextbookInv
    OBVIOUS
  <1>1. Whole(0) \in Fraction
    BY WholeType
  <1>2. value \in [Series -> Fraction]
    BY <1>1 DEF Init
  <1> QED
    BY <1>2 DEF Init, TextbookInv, MatchesTextbook

(* Every step keeps the values right. *)
LEMMA TextbookStep == CountersInv /\ TextbookInv /\ [Next]_vars => TextbookInv'
  <1> SUFFICES ASSUME CountersInv, TextbookInv, [Next]_vars PROVE TextbookInv'
    OBVIOUS
  <1>1. CASE \E list \in Configs : Construct(list)
    <2>1. value' = value /\ bars' = <<>>
      BY <1>1 DEF Construct, CountersInv, Shape
    <2> QED
      BY <2>1 DEF TextbookInv, MatchesTextbook
  <1>2. CASE \E bar \in Candle : OnBar(bar)
    BY <1>2, OnBarTextbook
  <1>3. CASE UNCHANGED vars
    BY <1>3 DEF vars, TextbookInv, MatchesTextbook, Closes, Ranges, Lines, Line, Filled, OwnerOf
  <1> QED
    BY <1>1, <1>2, <1>3 DEF Next

LEMMA TextbookAlways == Spec => []TextbookInv
  <1> QED
    BY CountersInit, CountersStep, TextbookInit, TextbookStep, PTL DEF Spec

(* Each indicator is, after any number of bars and for any configurations,    *)
(* periods and prices, the weighted sum that its textbook definition says:    *)
(* the running updates of write() lose nothing and count nothing twice.       *)
THEOREM ReadingsAreTextbook == Spec => []MatchesTextbook
  <1>1. TextbookInv => MatchesTextbook
    BY DEF TextbookInv
  <1> QED
    BY TextbookAlways, <1>1, PTL
=============================================================================
