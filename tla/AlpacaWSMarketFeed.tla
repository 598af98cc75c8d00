-------------------------- MODULE AlpacaWSMarketFeed --------------------------
(* AlpacaWSMarketFeed (AlpacaWSMarketFeed.cpp) on top of its WebSocketSession: *)
(* it answers "connected" with its credentials and "authenticated" with its   *)
(* subscription, and gives the bars it is sent to its subscribers.  The other *)
(* end is Alpaca's stream, as the feed and test-utils/                        *)
(* historical_alpaca_ws_endpoint.py use it.                                   *)
(*                                                                            *)
(* start() configures the session without auth_msg and sub_msg and is called  *)
(* once.  The session's messages and frames are those defined here.           *)
EXTENDS WebSocketSession

CONSTANTS
    Ticker,             \* ticker symbols
    MaxBars,            \* bound on the bars published
    MaxAsked            \* bound on the calls of subscribe_to_bars()

ASSUME FeedBounds == MaxBars \in Nat /\ MaxAsked \in Nat

(* send_auth_message(), send_subscription_message() *)
AuthMessage == [action |-> "auth", bars |-> {}]
SubscriptionMessage(symbols) == [action |-> "subscribe", bars |-> symbols]

FeedMessage ==
    {AuthMessage} \cup {SubscriptionMessage(symbols) : symbols \in (SUBSET Ticker) \ {{}}}

(* The stream's bars are numbered; a frame may bring several. *)
Success(msg) == [T |-> "success", msg |-> msg, bars |-> <<>>]
AnswerFrame  == [T |-> "subscription", msg |-> "", bars |-> <<>>]
BarsFrame(bars) == [T |-> "b", msg |-> "", bars |-> bars]

(* What the session carries. *)
ASSUME FeedAssumption ==
    /\ FeedMessage \subseteq Message
    /\ Success("connected") \in Frame /\ Success("authenticated") \in Frame
    /\ AnswerFrame \in Frame
    /\ \A p \in 0 .. MaxBars, n \in {1, 2} :
          p + n <= MaxBars => BarsFrame([k \in 1 .. n |-> p + k]) \in Frame

Subscribers == {"first", "second"}      \* in the order they connected

VARIABLES
    authenticated,      \* _authenticated
    symbols,            \* _subscribed_symbols
    asked,              \* number of subscribe_to_bars() calls
    serverSide,         \* what the server knows of the connection
    published,          \* number of bars the server has sent
    delivered           \* history: each bar, and the subscribers called with it

feedVars == <<authenticated, symbols, asked>>
vars == <<sessionVars, feedVars, serverSide, published, delivered>>

NewConnection == [greeted |-> FALSE, authed |-> FALSE, bars |-> {}]

Init ==
    /\ SessionInit
    /\ authenticated = FALSE
    /\ symbols = {}
    /\ asked = 0
    /\ serverSide = NewConnection
    /\ published = 0
    /\ delivered = <<>>

-----------------------------------------------------------------------------
(* The owner's calls: start() and stop() are the session's. *)

(* Mutant: subscribe_to_bars() does not wait for the authentication. *)
SubscribeToBarsAtOnce(wanted) ==
    /\ asked < MaxAsked /\ asked' = asked + 1
    /\ symbols' = wanted
    /\ IF started THEN Send(SubscriptionMessage(wanted)) ELSE UNCHANGED sessionVars
    /\ UNCHANGED <<authenticated, serverSide, published, delivered>>

(* subscribe_to_bars(); subscribe_to_all_bars() is one of its cases. *)
SubscribeToBars(wanted) ==
    /\ asked < MaxAsked /\ asked' = asked + 1
    /\ symbols' = wanted
    /\ IF authenticated THEN Send(SubscriptionMessage(wanted)) ELSE UNCHANGED sessionVars
    /\ UNCHANGED <<authenticated, serverSide, published, delivered>>

-----------------------------------------------------------------------------
(* on_websocket_frame() *)

FrameConnected ==
    /\ inbox # <<>> /\ Head(inbox) = Success("connected")
    /\ OnRead(<<AuthMessage>>)
    /\ UNCHANGED <<feedVars, serverSide, published, delivered>>

(* Mutant: the subscription made before is not sent. *)
FrameAuthenticatedOnly ==
    /\ inbox # <<>> /\ Head(inbox) = Success("authenticated")
    /\ authenticated' = TRUE
    /\ OnRead(<<>>)
    /\ UNCHANGED <<symbols, asked, serverSide, published, delivered>>

FrameAuthenticated ==
    /\ inbox # <<>> /\ Head(inbox) = Success("authenticated")
    /\ authenticated' = TRUE
    /\ OnRead(IF symbols = {} THEN <<>> ELSE <<SubscriptionMessage(symbols)>>)
    /\ UNCHANGED <<symbols, asked, serverSide, published, delivered>>

(* A message of any other type is passed over, an "error" like the rest. *)
FrameIgnored ==
    /\ inbox # <<>> /\ Head(inbox) = AnswerFrame
    /\ OnRead(<<>>)
    /\ UNCHANGED <<feedVars, serverSide, published, delivered>>

(* The signal calls the subscribers in turn: when the first throws, the second *)
(* is not called with the bar.                                                *)
Call(bar, throws) == [bar |-> bar, called |-> IF bar \in throws THEN {"first"} ELSE Subscribers]

(* Mutant: an exception of a subscriber ends the whole frame. *)
FrameBarsUntilThrow(throws) ==
    /\ inbox # <<>> /\ Head(inbox).T = "b"
    /\ OnRead(<<>>)
    /\ LET bars == Head(inbox).bars
           n == CHOOSE k \in 0 .. Len(bars) :
                    /\ \A i \in 1 .. k - 1 : bars[i] \notin throws
                    /\ k = Len(bars) \/ (k > 0 /\ bars[k] \in throws)
       IN  delivered' = delivered \o [i \in 1 .. n |-> Call(bars[i], throws)]
    /\ UNCHANGED <<feedVars, serverSide, published>>

(* parse_bar_message() of each bar, also after an exception. *)
FrameBars(throws) ==
    /\ inbox # <<>> /\ Head(inbox).T = "b"
    /\ OnRead(<<>>)
    /\ LET bars == Head(inbox).bars
       IN  delivered' = delivered \o [i \in 1 .. Len(bars) |-> Call(bars[i], throws)]
    /\ UNCHANGED <<feedVars, serverSide, published>>

OnFrame ==
    \/ FrameConnected \/ FrameAuthenticated \/ FrameIgnored
    \/ \E throws \in SUBSET (1 .. published) : FrameBars(throws)

-----------------------------------------------------------------------------
(* Alpaca's stream *)

ServerGreets ==
    /\ ~serverSide.greeted
    /\ PeerSends(Success("connected"))
    /\ serverSide' = [serverSide EXCEPT !.greeted = TRUE]
    /\ UNCHANGED <<feedVars, published, delivered>>

(* The server takes a message and answers it: a subscription is confirmed, or *)
(* refused before the authentication, which is the same to the feed.          *)
ServerReceives ==
    /\ outbox # <<>>
    /\ LET m == Head(outbox)
       IN  IF m = AuthMessage
           THEN /\ PeerReceives(<<Success("authenticated")>>)
                /\ serverSide' = [serverSide EXCEPT !.authed = TRUE]
           ELSE /\ PeerReceives(<<AnswerFrame>>)
                /\ serverSide' = IF serverSide.authed
                                 THEN [serverSide EXCEPT !.bars = @ \cup m.bars]
                                 ELSE serverSide
    /\ UNCHANGED <<feedVars, published, delivered>>

(* One or two bars in a frame. *)
ServerPublishes(n) ==
    /\ serverSide.bars # {}
    /\ published + n <= MaxBars
    /\ published' = published + n
    /\ PeerSends(BarsFrame([k \in 1 .. n |-> published + k]))
    /\ UNCHANGED <<feedVars, serverSide, delivered>>

SessionStep ==
    /\ Start \/ Stop \/ Callback \/ Lose
    /\ serverSide' = IF "connect" \in io' THEN NewConnection ELSE serverSide
    /\ UNCHANGED <<feedVars, published, delivered>>

FeedNext ==
    \/ SessionStep
    \/ \E wanted \in (SUBSET Ticker) \ {{}} : SubscribeToBars(wanted)
    \/ OnFrame
    \/ ServerGreets \/ ServerReceives
    \/ \E n \in {1, 2} : ServerPublishes(n)

FeedSpec == Init /\ [][FeedNext]_vars

(* As the session's fairness; frames are handled, and the server answers. *)
FeedFairSpec ==
    /\ FeedSpec
    /\ CallbackFairness
    /\ WF_vars(OnFrame)
    /\ WF_vars(ServerGreets)
    /\ WF_vars(ServerReceives)

-----------------------------------------------------------------------------
(* Properties *)

(* Alpaca refuses a subscription before the authentication: none is on its    *)
(* way until the server has authenticated the connection, whatever was asked  *)
(* for when and whatever is left in the queue by a connection that was lost.  *)
SubscribesAuthenticated ==
    \A n \in 1 .. Len(outbox) : outbox[n] = AuthMessage \/ serverSide.authed

(* Whenever the owner asked, before the connection, in the middle of the      *)
(* authentication or after it, the server hears of the symbols wanted last.   *)
SubscriptionHeard ==
    \A wanted \in (SUBSET Ticker) \ {{}} :
        connected /\ symbols = wanted
            ~> ~connected \/ symbols # wanted \/ wanted \subseteq serverSide.bars

(* The frames under way go on where the delivered bars end: upTo[n] bars will *)
(* have come when frame n is handled.                                         *)
Numbered(upTo) ==
    /\ upTo[0] = Len(delivered)
    /\ \A n \in 1 .. Len(inbox) :
          /\ upTo[n - 1] <= upTo[n]
          /\ inbox[n].bars = [k \in 1 .. upTo[n] - upTo[n - 1] |-> upTo[n - 1] + k]

(* Bars are delivered in order, nothing twice and nothing left out, whoever   *)
(* throws on which; and while the connection is up, every bar published has   *)
(* been delivered or is on its way.                                           *)
BarsInOrder ==
    /\ \A n \in 1 .. Len(delivered) : delivered[n].bar = n
    /\ \E upTo \in [0 .. Len(inbox) -> 0 .. published] :
          /\ Numbered(upTo)
          /\ wsOpen /\ link => upTo[Len(inbox)] = published
=============================================================================
