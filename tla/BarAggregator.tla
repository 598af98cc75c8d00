---------------------------- MODULE BarAggregator ----------------------------
(* BarAggregator<Count, TimeUnit> (BarAggregator.hpp, isConsecutive() of      *)
(* Bar.hpp), fed by a market that delivers one-minute bars: on_bar() collects *)
(* Need of them into one aggregated bar and emits it to the subscribers.      *)
(*                                                                            *)
(* on_bar() throws on a bar that does not continue the previous one, and a    *)
(* subscriber's exception passes through it; AlpacaWSMarketFeed swallows      *)
(* both, so a throw is a step after which the feed goes on.                   *)
EXTENDS Integers, Sequences

CONSTANTS
    Symbol,             \* ticker symbols on the feed
    Candle,             \* the prices and volumes a bar may have
    MaxTime,            \* bound on the minutes of the market's clock
    Need,               \* bars_needed: the minutes of Count ticks of TimeUnit
    Unit,               \* the minutes of one tick of TimeUnit
    InOrder,            \* whether the feed delivers a symbol's bars in order
    SubscriberThrows,   \* whether a subscriber may throw
    NoBar               \* std::nullopt

ASSUME NeedAssumption == Need \in Nat \ {0} /\ Unit \in Nat \ {0} /\ MaxTime \in Nat

ASSUME UnitAssumption == Need % Unit = 0

ASSUME CandleAssumption ==
    Candle \subseteq [open : Int, high : Int, low : Int, close : Int, volume : Nat]

Bar == [symbol : Symbol, open : Int, high : Int, low : Int, close : Int,
        volume : Nat, time : Int]

ASSUME NoBarAssumption == NoBar \notin Bar

ASSUME SwitchAssumption == InOrder \in BOOLEAN /\ SubscriberThrows \in BOOLEAN

VARIABLES
    current,            \* _current_aggregated_bar
    inWindow,           \* _bars_in_current_window
    last,               \* _last_input_bar
    heard,              \* the feed: minute of each symbol's latest bar, -1 for none
    streak,             \* the feed: bars in a row, each a minute after the one
                        \* before it, since the last emission
    taken,              \* history: the bars on_bar() accepted
    sold,               \* history: volume accepted before each of them, and in all
    bundles,            \* history: the bars emitted, each with the first and last
                        \* positions in taken of the bars it is made of
    begun               \* history: bars accepted before the current window

state   == <<current, inWindow, last>>
history == <<taken, sold, bundles, begun>>
vars    == <<current, inWindow, last, heard, streak, taken, sold, bundles, begun>>

Bundle == [bar : Bar, from : Nat, to : Nat]

TypeOK ==
    /\ current \in Bar \cup {NoBar}
    /\ inWindow \in Nat
    /\ last \in Bar \cup {NoBar}
    /\ heard \in [Symbol -> Int]
    /\ streak \in Nat
    /\ taken \in Seq(Bar)
    /\ sold \in Seq(Nat) /\ Len(sold) = Len(taken) + 1
    /\ bundles \in Seq(Bundle)
    /\ begun \in Nat

Init ==
    /\ current = NoBar
    /\ inWindow = 0
    /\ last = NoBar
    /\ heard = [s \in Symbol |-> -1]
    /\ streak = 0
    /\ taken = <<>>
    /\ sold = <<0>>
    /\ bundles = <<>>
    /\ begun = 0

-----------------------------------------------------------------------------
(* Bars *)

(* The bars that a feed may bring. *)
FeedBar ==
    {[symbol |-> s, open |-> c.open, high |-> c.high, low |-> c.low, close |-> c.close,
      volume |-> c.volume, time |-> t] : s \in Symbol, c \in Candle, t \in 0 .. MaxTime}

(* Mutant: a bar is fine unless it repeats or precedes the last one. *)
IsLater(a, b) == a.symbol = b.symbol /\ a.time < b.time

(* isConsecutive(): one bar ends where the other starts, either way round. *)
IsConsecutive(a, b) ==
    /\ a.symbol = b.symbol
    /\ a.time + 1 = b.time \/ b.time + 1 = a.time

(* Mutant: the label is cut to two ticks of the unit. *)
TimePointCastCoarse(t) == t - (t % (2 * Unit))

(* std::chrono::time_point_cast to the aggregated bar's unit. *)
TimePointCast(t) == t - (t % Unit)

(* The aggregated bar of a window that starts with b, and of one that b joins. *)
Opened(b) ==
    [symbol |-> b.symbol, open |-> b.open, high |-> b.high, low |-> b.low, close |-> b.close,
     volume |-> b.volume, time |-> TimePointCast(b.time)]

(* Mutant: the high and low are those of the newest bar. *)
ExtendedByLast(c, b) ==
    [symbol |-> c.symbol, open |-> c.open, high |-> b.high, low |-> b.low, close |-> b.close,
     volume |-> c.volume + b.volume, time |-> c.time]

Extended(c, b) ==
    [symbol |-> c.symbol,
     open   |-> c.open,
     high   |-> IF c.high < b.high THEN b.high ELSE c.high,
     low    |-> IF b.low < c.low THEN b.low ELSE c.low,
     close  |-> b.close,
     volume |-> c.volume + b.volume,
     time   |-> c.time]

-----------------------------------------------------------------------------
(* The feed delivers b.  Time stamps are cut to the minute, so a bar of the    *)
(* minute before may come again.                                              *)
Deliver(b) ==
    /\ InOrder => b.time >= heard[b.symbol]
    /\ heard' = [heard EXCEPT ![b.symbol] = b.time]

StreakWith(b) == IF b.time = heard[b.symbol] + 1 THEN streak + 1 ELSE 1

(* on_bar() refuses b. *)
Refuses(b) == last # NoBar /\ ~IsConsecutive(last, b)

(* on_bar() takes b into the window, which it may open. *)
Absorb(b) ==
    /\ current' = IF inWindow = 0 THEN Opened(b) ELSE Extended(current, b)
    /\ last' = b
    /\ taken' = Append(taken, b)
    /\ sold' = Append(sold, sold[Len(sold)] + b.volume)

(* on_bar() throws "Bar timestamp does not match expected sequence". *)
RefuseBar(b) ==
    /\ Deliver(b)
    /\ Refuses(b)
    /\ streak' = StreakWith(b)
    /\ UNCHANGED <<state, history>>

ExtendWindow(b) ==
    /\ Deliver(b)
    /\ ~Refuses(b)
    /\ inWindow + 1 # Need
    /\ Absorb(b)
    /\ inWindow' = inWindow + 1
    /\ streak' = StreakWith(b)
    /\ UNCHANGED <<bundles, begun>>

(* The window is full: emit_aggregated_bar() and start over. *)
EmitBar(b) ==
    /\ Deliver(b)
    /\ ~Refuses(b)
    /\ inWindow + 1 = Need
    /\ Absorb(b)
    /\ inWindow' = 0
    /\ bundles' = Append(bundles, [bar |-> current', from |-> begun + 1, to |-> Len(taken) + 1])
    /\ begun' = Len(taken) + 1
    /\ streak' = 0

(* A subscriber throws: the window stays as full as it is. *)
EmitThrows(b) ==
    /\ SubscriberThrows
    /\ Deliver(b)
    /\ ~Refuses(b)
    /\ inWindow + 1 = Need
    /\ Absorb(b)
    /\ inWindow' = Need
    /\ streak' = StreakWith(b)
    /\ UNCHANGED <<bundles, begun>>

OnBar(b) == RefuseBar(b) \/ ExtendWindow(b) \/ EmitBar(b) \/ EmitThrows(b)

Next == \E b \in FeedBar : OnBar(b)

Spec == Init /\ [][Next]_vars

-----------------------------------------------------------------------------
(* Properties *)

(* The aggregated bar a says what bars[from] .. bars[to] say together; v[n]   *)
(* is the volume of the bars before bars[n].                                  *)
Summarises(a, from, to, bars, v) ==
    /\ a.symbol = bars[from].symbol
    /\ a.time = TimePointCast(bars[from].time)
    /\ a.open = bars[from].open
    /\ a.close = bars[to].close
    /\ \A n \in from .. to : a.low <= bars[n].low /\ bars[n].high <= a.high
    /\ \E n \in from .. to : a.high = bars[n].high
    /\ \E n \in from .. to : a.low = bars[n].low
    /\ a.volume = v[to + 1] - v[from]

(* Every bar emitted summarises exactly Need accepted bars; the emitted bars  *)
(* and the current window cut the accepted bars into pieces that neither      *)
(* overlap nor leave one out, whatever the feed delivers and whoever throws.  *)
BundlesPartition ==
    /\ \A n \in 1 .. Len(bundles) :
          /\ bundles[n].to = bundles[n].from + Need - 1
          /\ Summarises(bundles[n].bar, bundles[n].from, bundles[n].to, taken, sold)
          /\ bundles[n].from = IF n = 1 THEN 1 ELSE bundles[n - 1].to + 1
    /\ begun = IF bundles = <<>> THEN 0 ELSE bundles[Len(bundles)].to
    /\ Len(taken) = begun + inWindow
    /\ inWindow > 0 => Summarises(current, begun + 1, Len(taken), taken, sold)

(* A bar emitted for a feed in order stands for Need minutes of one symbol,   *)
(* one after the other, none missing and none counted twice.                  *)
MinutesInARow ==
    InOrder => \A n \in 1 .. Len(taken) - 1 :
                  /\ taken[n + 1].symbol = taken[n].symbol
                  /\ taken[n + 1].time = taken[n].time + 1

(* Bars emitted for a feed in order are labelled as a chart needs them, each  *)
(* Count ticks after the one before it: a label is cut to the unit from       *)
(* whichever minute opened the window (30 to 89 go by the hour of minute 30), *)
(* but no label is used for two bars and none is skipped, also when           *)
(* subscribers throw.                                                         *)
LabelsEvenlySpaced ==
    InOrder => \A n \in 1 .. Len(bundles) - 1 :
                  bundles[n + 1].bar.time = bundles[n].bar.time + Need

(* README: one-minute candles are consolidated for all market hours.  Need    *)
(* bars in a row, or at the worst Need - 1 more to complete a window begun    *)
(* before, make an aggregated bar come out.                                   *)
KeepsConsolidating == streak < 2 * Need
=============================================================================
