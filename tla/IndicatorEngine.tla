--------------------------- MODULE IndicatorEngine ---------------------------
(* IndicatorEngine with its indicators EMA, ATR and MACD: the engine is made  *)
(* from a list of configurations, writes every aggregated bar to every        *)
(* indicator and, once all of them are ready, gives its subscribers the       *)
(* readings of all.                                                           *)
(*                                                                            *)
(* An EMA, an ATR and each of the three EMAs inside a MACD is a series: a     *)
(* running value and the number of inputs it has averaged, up to its period.  *)
(* Values are exact fractions; the order in which the engine's unordered map  *)
(* is traversed does not matter, as no indicator reads another.  A subscriber *)
(* that throws changes nothing here: on_bar() has written everything by then. *)
EXTENDS Sequences, FiniteSets, Fractions

CONSTANTS
    Configs,            \* the lists of configurations an engine may be made from
    Candle,             \* high, low and close of the bars, in cents
    MaxBars             \* bound on the bars given to the engine

Series == {"EMA", "ATR", "fast", "slow", "signal"}

(* The indicators that registered a factory. *)
Registered == {"EMA", "ATR", "MACD"}

SeriesOf(name) == IF name = "MACD" THEN {"fast", "slow", "signal"} ELSE {name}

(* The parameter a series takes its period from. *)
Key(s) ==
    CASE s \in {"EMA", "ATR"} -> "period"
      [] s = "fast"   -> "fast_period"
      [] s = "slow"   -> "slow_period"
      [] s = "signal" -> "signal_period"

(* Periods are positive: with a period of 0 the code divides by zero. *)
ASSUME ConfigsAssumption ==
    \A list \in Configs :
        /\ Len(list) \in Nat
        /\ \A i \in 1 .. Len(list) :
              \A k \in DOMAIN list[i].params : list[i].params[k] \in Nat \ {0}

(* No bar closes at -1, which ATR uses for "no close before". *)
ASSUME CandleAssumption ==
    \A c \in Candle : c.high \in Int /\ c.low \in Int /\ c.close \in Nat

ASSUME MaxBarsAssumption == MaxBars \in Nat

VARIABLES
    built,              \* the engine is constructed
    names,              \* the keys of _indicators
    period,             \* _period of each series
    count,              \* _n of each series
    value,              \* _value, ATR's _val
    prevClose,          \* ATR's _prev_close
    snapshots,          \* _snapshots
    configured,         \* history: the list the engine was made from
    bars,               \* history: the bars given to on_bar()
    heard               \* history: what the subscribers were given

vars ==
    <<built, names, period, count, value, prevClose, snapshots, configured, bars, heard>>

Init ==
    /\ built = FALSE
    /\ names = {}
    /\ period = [s \in Series |-> 0]
    /\ count = [s \in Series |-> 0]
    /\ value = [s \in Series |-> Whole(0)]
    /\ prevClose = -1
    /\ snapshots = <<>>
    /\ configured = <<>>
    /\ bars = <<>>
    /\ heard = <<>>

-----------------------------------------------------------------------------
(* The constructor *)

(* IndicatorRegistry::create() knows the name, and the factory finds the      *)
(* parameters it asks for; otherwise it throws and there is no engine.        *)
Creatable(config) ==
    /\ config.name \in Registered
    /\ \A s \in SeriesOf(config.name) : Key(s) \in DOMAIN config.params

(* Mutant: a later configuration of a name is dropped, as emplace() would. *)
FirstOf(list, name) ==
    LET at == CHOOSE i \in 1 .. Len(list) :
                 /\ list[i].name = name
                 /\ \A j \in 1 .. i - 1 : list[j].name # name
    IN  list[at].params

(* The configuration that counts for a name: a later one of the same name     *)
(* takes the place of an earlier one.                                         *)
LastOf(list, name) ==
    LET at == CHOOSE i \in 1 .. Len(list) :
                 /\ list[i].name = name
                 /\ \A j \in i + 1 .. Len(list) : list[j].name # name
    IN  list[at].params

OwnerOf(s) == IF s \in {"EMA", "ATR"} THEN s ELSE "MACD"

Construct(list) ==
    /\ ~built
    /\ \A i \in 1 .. Len(list) : Creatable(list[i])
    /\ built' = TRUE
    /\ names' = {list[i].name : i \in 1 .. Len(list)}
    /\ period' = [s \in Series |-> IF OwnerOf(s) \in names' THEN LastOf(list, OwnerOf(s))[Key(s)]
                                   ELSE 0]
    /\ snapshots' = [name \in names' |-> <<>>]
    /\ configured' = list
    /\ UNCHANGED <<count, value, prevClose, bars, heard>>

-----------------------------------------------------------------------------
(* write(), series by series *)

(* EMA::is_ready(), and ATR's. *)
IsFull(s) == count[s] >= period[s]

IsReady == \A name \in names : \A s \in SeriesOf(name) : IsFull(s)

NextCount(s) == IF IsFull(s) THEN count[s] ELSE count[s] + 1

(* Mutant: the counter moves on before the old mean is multiplied by it. *)
MeanCountedEarly(s, x) ==
    LET n == NextCount(s)
    IN  Times(Plus(Times(value[s], Whole(n)), x), Frac(1, n))

(* (the value times the inputs before, plus the new input) / inputs *)
MeanWith(s, x) ==
    LET n == NextCount(s)
    IN  Times(Plus(Times(value[s], Whole(n - 1)), x), Frac(1, n))

(* Mutant: the smoothing factor of a Wilder average. *)
SmoothedByPeriod(s, x) ==
    LET alpha == Frac(1, period[s])
    IN  Plus(Times(x, alpha), Times(value[s], Minus(Whole(1), alpha)))

Smoothed(s, x) ==
    LET alpha == Frac(2, 1 + period[s])
    IN  Plus(Times(x, alpha), Times(value[s], Minus(Whole(1), alpha)))

(* EMA::write(): the mean of the first inputs, an exponential average then. *)
EmaWrite(s, x) == IF IsFull(s) THEN Smoothed(s, x) ELSE MeanWith(s, x)

Largest(x, y, z) == IF x >= y /\ x >= z THEN x ELSE IF y >= z THEN y ELSE z
Distance(x, y) == IF x >= y THEN x - y ELSE y - x

(* calc_tr() *)
CalcTr(bar, close) ==
    Largest(Distance(bar.high, bar.low), Distance(bar.high, close), Distance(bar.low, close))

(* Mutant: the signal line starts with the bar that fills the averages. *)
SignalDueEarly == NextCount("fast") >= period["fast"] /\ NextCount("slow") >= period["slow"]

(* should_calc_signal: the averages were full before this bar. *)
SignalDue == IsFull("fast") /\ IsFull("slow")

(* The series this bar is written to. *)
Written ==
    {s \in Series :
        /\ OwnerOf(s) \in names
        /\ s = "ATR" => prevClose # -1
        /\ s = "signal" => SignalDue}

(* The value of every series once the bar is written. *)
WriteOf(s, bar) ==
    LET close == Whole(bar.close)
    IN  CASE s = "ATR" -> MeanWith(s, Whole(CalcTr(bar, prevClose)))
          [] s = "signal" -> EmaWrite(s, Minus(EmaWrite("fast", close), EmaWrite("slow", close)))
          [] OTHER -> EmaWrite(s, close)

-----------------------------------------------------------------------------
(* read() and on_bar() *)

Reading(name, of) ==
    IF name = "MACD"
    THEN LET macd == Minus(of["fast"], of["slow"])
         IN  [macd |-> macd, signal |-> of["signal"], histogram |-> Minus(macd, of["signal"])]
    ELSE [value |-> of[name]]

(* Mutant: the subscribers are called before update_snapshots(). *)
NotifyFirst ==
    IF IsReady'
    THEN /\ heard' = Append(heard, snapshots)
         /\ snapshots' = [name \in names |-> Reading(name, value')]
    ELSE UNCHANGED <<snapshots, heard>>

(* The second half of on_bar(): when all are ready, update_snapshots() and    *)
(* call the subscribers.                                                      *)
Notify ==
    IF IsReady'
    THEN /\ snapshots' = [name \in names |-> Reading(name, value')]
         /\ heard' = Append(heard, snapshots')
    ELSE UNCHANGED <<snapshots, heard>>

OnBar(bar) ==
    /\ built
    /\ Len(bars) < MaxBars
    /\ count' = [s \in Series |-> IF s \in Written THEN NextCount(s) ELSE count[s]]
    /\ value' = [s \in Series |-> IF s \in Written THEN WriteOf(s, bar) ELSE value[s]]
    /\ prevClose' = IF "ATR" \in names THEN bar.close ELSE prevClose
    /\ bars' = Append(bars, bar)
    /\ UNCHANGED <<built, names, period, configured>>
    /\ Notify

Next ==
    \/ \E list \in Configs : Construct(list)
    \/ \E bar \in Candle : OnBar(bar)

Spec == Init /\ [][Next]_vars

-----------------------------------------------------------------------------
(* Properties *)

Later(m, n) == IF m >= n THEN m ELSE n

(* The bars each indicator needs, as TestIndicators.cpp counts them. *)
BarsNeeded(name) ==
    CASE name = "EMA"  -> period["EMA"]
      [] name = "ATR"  -> period["ATR"] + 1
      [] name = "MACD" -> Later(period["fast"], period["slow"]) + period["signal"]

(* The bars that an indicator made from a configuration needs. *)
BarsOf(config) ==
    CASE config.name = "EMA"  -> config.params["period"]
      [] config.name = "ATR"  -> config.params["period"] + 1
      [] config.name = "MACD" -> Later(config.params["fast_period"], config.params["slow_period"])
                                     + config.params["signal_period"]

(* The configurations that none of the same name comes after. *)
InForce ==
    {i \in 1 .. Len(configured) :
        \A j \in i + 1 .. Len(configured) : configured[j].name # configured[i].name}

(* The engine is ready with exactly the bar that its slowest configuration    *)
(* needs.  Each counter runs at its own pace, ATR's a bar late and the signal *)
(* line's once two others are full, and the engine waits for all of them; of  *)
(* two configurations of one name it waits for the later one alone.           *)
ReadyOnTime ==
    built => (IsReady <=> \A i \in InForce : Len(bars) >= BarsOf(configured[i]))

(* From then on the subscribers are called once for every bar, with readings  *)
(* that all stand for that bar.                                               *)
UpdatesEveryBar ==
    built =>
        /\ Len(heard) = Cardinality({n \in 1 .. Len(bars) :
                                        \A name \in names : n >= BarsNeeded(name)})
        /\ heard # <<>> => heard[Len(heard)] = [name \in names |-> Reading(name, value)]

(* A fraction to the n-th power. *)
Power(p, n) ==
    LET upTo[i \in 0 .. n] == IF i = 0 THEN Whole(1) ELSE Times(upTo[i - 1], p)
    IN  upTo[n]

(* The sum of a sequence of fractions. *)
Total(xs) ==
    LET upTo[i \in 0 .. Len(xs)] == IF i = 0 THEN Whole(0) ELSE Plus(upTo[i - 1], xs[i])
    IN  upTo[Len(xs)]

(* The weight of the i-th of k inputs of an average that starts as the mean   *)
(* of p inputs and gives each later one the weight alpha.                     *)
Weight(i, k, p, alpha) ==
    LET kept(n) == Power(Minus(Whole(1), alpha), n)
    IN  IF k <= p THEN Frac(1, k)
        ELSE IF i <= p THEN Times(Frac(1, p), kept(k - p))
        ELSE Times(alpha, kept(k - i))

Average(xs, p, alpha) ==
    Total([i \in 1 .. Len(xs) |-> Times(xs[i], Weight(i, Len(xs), p, alpha))])

Ema(xs, p) == Average(xs, p, Frac(2, 1 + p))

(* What the indicators average: the closes of the first n bars; the true      *)
(* ranges; and the differences of the two averages in the bars that come      *)
(* after both are full.                                                       *)
Closes(n) == [i \in 1 .. n |-> Whole(bars[i].close)]

Ranges == [i \in 1 .. Len(bars) - 1 |-> Whole(CalcTr(bars[i + 1], bars[i].close))]

Filled == Later(period["fast"], period["slow"])

Line(n) == Minus(Ema(Closes(n), period["fast"]), Ema(Closes(n), period["slow"]))

Lines == [i \in 1 .. Len(bars) - Filled |-> Line(Filled + i)]

(* Each indicator is what its textbook says of all the bars so far: the sum   *)
(* of the inputs, weighted.                                                   *)
MatchesTextbook ==
    bars # <<>> =>
        /\ \A s \in {"EMA", "fast", "slow"} :
              OwnerOf(s) \in names => value[s] = Ema(Closes(Len(bars)), period[s])
        /\ "ATR" \in names /\ Len(bars) > 1 =>
              value["ATR"] = Average(Ranges, period["ATR"], Frac(1, period["ATR"]))
        /\ "MACD" \in names /\ Len(bars) > Filled =>
              value["signal"] = Ema(Lines, period["signal"])
=============================================================================
