------------------------------- MODULE Pipeline -------------------------------
(* The bot from the feed to the readings, wired as TestIndicatorEngine.cpp    *)
(* wires it: an IndicatorEngine is made, and is the subscriber of a           *)
(* BarAggregator.  Both run in one call chain, so that whatever a subscriber  *)
(* of the engine throws passes through IndicatorEngine::on_bar() and          *)
(* emit_aggregated_bar() into BarAggregator::on_bar().                        *)
EXTENDS BarAggregator, FiniteSets

CONSTANTS
    Configs,            \* the lists of configurations, see IndicatorEngine
    MaxBars             \* bound on the bars given to the engine

VARIABLES
    built, names, period, count, value, prevClose, snapshots,   \* see IndicatorEngine
    configured,         \* history: the list the engine was made from
    given,              \* history: the bars given to the engine
    readings            \* history: what the engine's subscribers were given

(* What the engine reads of an aggregated bar: the high of one minute, the    *)
(* low of one and the close of one.                                           *)
EngineCandle ==
    [high : {c.high : c \in Candle}, low : {c.low : c \in Candle}, close : {c.close : c \in Candle}]

Engine == INSTANCE IndicatorEngine WITH
              Candle <- EngineCandle, bars <- given, heard <- readings

(* See the assumptions of IndicatorEngine. *)
ASSUME EngineAssumption ==
    /\ \A list \in Configs :
          /\ Len(list) \in Nat
          /\ \A i \in 1 .. Len(list) :
                \A k \in DOMAIN list[i].params : list[i].params[k] \in Nat \ {0}
    /\ \A c \in Candle : c.close \in Nat
    /\ MaxBars \in Nat

engine ==
    <<built, names, period, count, value, prevClose, snapshots, configured, given, readings>>

Parts(bar) == [high |-> bar.high, low |-> bar.low, close |-> bar.close]

PipelineInit == Init /\ Engine!Init

(* The engine is made before the aggregator is fed. *)
MakeEngine(list) == Engine!Construct(list) /\ UNCHANGED vars

(* No aggregated bar: the bar is refused, or the window has room for it. *)
TakeBar(b) == built /\ (RefuseBar(b) \/ ExtendWindow(b)) /\ UNCHANGED engine

(* The aggregated bar goes to the engine, and the readings to its subscribers. *)
PassBar(b) == EmitBar(b) /\ Engine!OnBar(Parts(current'))

(* A subscriber of the engine throws, which takes an engine that is ready.    *)
PassThrows(b) == EmitThrows(b) /\ Engine!OnBar(Parts(current')) /\ Engine!IsReady'

PipelineNext ==
    \/ \E list \in Configs : MakeEngine(list)
    \/ \E b \in FeedBar : TakeBar(b) \/ PassBar(b) \/ PassThrows(b)

PipelineSpec == PipelineInit /\ [][PipelineNext]_<<vars, engine>>

-----------------------------------------------------------------------------
(* Properties *)

(* The engine's bar e says what the n-th Need of the minutes ts say. *)
StandsFor(e, n, ts) ==
    LET minutes == (n - 1) * Need + 1 .. n * Need
    IN  /\ e.close = ts[n * Need].close
        /\ \A k \in minutes : e.low <= ts[k].low /\ ts[k].high <= e.high
        /\ \E k \in minutes : e.high = ts[k].high
        /\ \E k \in minutes : e.low = ts[k].low

(* The n-th bar of the engine summarises the n-th Need accepted minutes, also *)
(* after a subscriber has thrown out of it: the engine has then taken the bar *)
(* that the aggregator believes not emitted, and never gets a wrong one.      *)
EngineBarsSummarise ==
    /\ Len(given) = IF inWindow < Need THEN Len(bundles) ELSE Len(bundles) + 1
    /\ \A n \in 1 .. Len(given) : StandsFor(given[n], n, taken)

(* The first reading comes with the minute that completes the bars which the  *)
(* slowest indicator needs, neither earlier nor later: TestIndicatorEngine    *)
(* expects it with the 35th five-minute bar of MACD 12, 26, 9.                *)
FirstReading ==
    built /\ names # {} =>
        (readings # <<>> <=>
            \A name \in names : Len(taken) >= Need * Engine!BarsNeeded(name))

(* The moving averages are those of the closes of every Need-th accepted      *)
(* minute, from the first one on: whatever was refused or thrown meanwhile,   *)
(* none is left out and none counts twice.                                    *)
AveragesOfMinutes ==
    LET closes == [n \in 1 .. Len(given) |-> Engine!Whole(taken[n * Need].close)]
    IN  \A s \in {"EMA", "fast", "slow"} :
            Engine!OwnerOf(s) \in names /\ given # <<>> =>
                value[s] = Engine!Ema(closes, period[s])
=============================================================================
