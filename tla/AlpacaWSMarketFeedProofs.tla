----------------------- MODULE AlpacaWSMarketFeedProofs -----------------------
(* Theorems about AlpacaWSMarketFeed: for any tickers, bounds and failures,   *)
(* every step of the feed is one of its session, and no subscription is on    *)
(* its way to a server that has not authenticated the connection.             *)
EXTENDS AlpacaWSMarketFeed, WebSocketSessionProofs

(* The members of a sequence. *)
In(s) == {s[i] : i \in 1 .. Len(s)}

(* The members of the sequences that the session makes of others. *)
LEMMA InTail == ASSUME NEW S, NEW s \in Seq(S), s # <<>> PROVE In(Tail(s)) \subseteq In(s)
  <1>1. /\ Len(Tail(s)) = Len(s) - 1 /\ Len(s) \in Nat
        /\ \A i \in 1 .. Len(Tail(s)) : Tail(s)[i] = s[i + 1]
    BY HeadTailProperties, LenProperties
  <1>2. ASSUME NEW i \in 1 .. Len(Tail(s)) PROVE Tail(s)[i] \in In(s)
    <2>1. i + 1 \in 1 .. Len(s) /\ Tail(s)[i] = s[i + 1]
      BY <1>1
    <2> QED
      BY <2>1 DEF In
  <1> QED
    BY <1>2 DEF In

LEMMA InHead == ASSUME NEW S, NEW s \in Seq(S), s # <<>> PROVE Head(s) \in In(s)
  <1>1. Head(s) = s[1] /\ 1 \in 1 .. Len(s)
    BY EmptySeq, HeadTailProperties
  <1> QED
    BY <1>1 DEF In

LEMMA InAppend ==
    ASSUME NEW S, NEW s \in Seq(S), NEW x
    PROVE  In(Append(s, x)) \subseteq In(s) \cup {x}
  <1>1. /\ Len(Append(s, x)) = Len(s) + 1 /\ Len(s) \in Nat
        /\ Append(s, x)[Len(s) + 1] = x
        /\ \A i \in 1 .. Len(s) : Append(s, x)[i] = s[i]
    BY LenProperties
  <1>2. ASSUME NEW i \in 1 .. Len(Append(s, x)) PROVE Append(s, x)[i] \in In(s) \cup {x}
    <2>1. CASE i = Len(s) + 1
      BY <1>1, <2>1
    <2>2. CASE i # Len(s) + 1
      <3>1. i \in 1 .. Len(s) /\ Append(s, x)[i] = s[i]
        BY <1>1, <2>2
      <3> QED
        BY <3>1 DEF In
    <2> QED
      BY <2>1, <2>2
  <1> QED
    BY <1>2 DEF In

LEMMA InConcat ==
    ASSUME NEW S, NEW s \in Seq(S), NEW x \in S
    PROVE  s \o <<x>> = Append(s, x)
  OBVIOUS

LEMMA InEmpty == In(<<>>) = {}
  BY DEF In

LEMMA InSubSeq ==
    ASSUME NEW S, NEW s \in Seq(S), NEW n \in 0 .. Len(s)
    PROVE  In(SubSeq(s, 1, n)) \subseteq In(s)
  <1>1. Len(s) \in Nat /\ \A i \in 1 .. n : s[i] \in S
    BY LenProperties, ElementOfSeq
  <1>2. /\ Len(SubSeq(s, 1, n)) = n
        /\ \A i \in 1 .. n : SubSeq(s, 1, n)[i] = s[i]
    BY <1>1, SubSeqProperties
  <1>3. 1 .. n \subseteq 1 .. Len(s)
    BY <1>1
  <1> QED
    BY <1>2, <1>3 DEF In

-----------------------------------------------------------------------------
(* The session's part *)

(* Before the first connection is up. *)
Early == tls = "fresh" \/ (sameTls /\ ("tls" \in io \/ "upgrade" \in io))

(* After it is lost: nothing will ever be written. *)
Over == ~Early /\ ~connected /\ outbox = <<>>

ConnectsOnce == "connect" \in io => tls = "fresh" \/ Over

(* No step goes back to before the first connection. *)
LEMMA EarlyBefore ==
    ASSUME OperationsOK, [AnyNext]_sessionVars
    PROVE  (Early' => Early)
  <1>1. ASSUME Start PROVE (Early' => Early)
    BY <1>1 DEF Start, Early, OperationsOK, Attempts, Operations, stream, callbacks
  <1>2. ASSUME Stop PROVE (Early' => Early)
    BY <1>2 DEF Stop, Early, OperationsOK, Attempts, Operations, stream, callbacks
  <1>3. ASSUME ResolveFails PROVE (Early' => Early)
    BY <1>3 DEF ResolveFails, Early, OperationsOK, Attempts, Operations, stream, callbacks, Fail, Fault
  <1>4. ASSUME OnResolve PROVE (Early' => Early)
    BY <1>4 DEF OnResolve, Early, OperationsOK, Attempts, Operations, stream, callbacks
  <1>5. ASSUME ConnectFails PROVE (Early' => Early)
    BY <1>5 DEF ConnectFails, Early, OperationsOK, Attempts, Operations, stream, callbacks, Fail, Fault
  <1>6. ASSUME OnConnect PROVE (Early' => Early)
    BY <1>6 DEF OnConnect, Early, OperationsOK, Attempts, Operations, stream, callbacks
  <1>7. ASSUME SslHandshakeFails PROVE (Early' => Early)
    BY <1>7 DEF SslHandshakeFails, Early, OperationsOK, Attempts, Operations, stream, callbacks, Fail
  <1>8. ASSUME OnSslHandshake PROVE (Early' => Early)
    BY <1>8 DEF OnSslHandshake, Early, OperationsOK, Attempts, Operations, stream, callbacks
  <1>9. ASSUME HandshakeFails PROVE (Early' => Early)
    BY <1>9 DEF HandshakeFails, Early, OperationsOK, Attempts, Operations, stream, callbacks, Fail
  <1>10. ASSUME OnHandshake PROVE (Early' => Early)
    BY <1>10 DEF OnHandshake, Early, OperationsOK, Attempts, Operations, stream, callbacks
  <1>11. ASSUME OnAborted PROVE (Early' => Early)
    BY <1>11 DEF OnAborted, Early, OperationsOK, Attempts, Operations, stream, callbacks, Fail
  <1>12. ASSUME OnWrite PROVE (Early' => Early)
    BY <1>12 DEF OnWrite, Early, OperationsOK, Attempts, Operations, stream, callbacks
  <1>13. ASSUME WriteFails PROVE (Early' => Early)
    BY <1>13 DEF WriteFails, Early, OperationsOK, Attempts, Operations, stream, callbacks, Fail
  <1>14. ASSUME OnPingTimer PROVE (Early' => Early)
    BY <1>14 DEF OnPingTimer, Early, OperationsOK, Attempts, Operations, stream, callbacks
  <1>15. ASSUME OnPing PROVE (Early' => Early)
    BY <1>15 DEF OnPing, Early, OperationsOK, Attempts, Operations, stream, callbacks
  <1>16. ASSUME OnClose PROVE (Early' => Early)
    BY <1>16 DEF OnClose, Early, OperationsOK, Attempts, Operations, stream, callbacks
  <1>17. ASSUME Lose PROVE (Early' => Early)
    BY <1>17 DEF Lose, Early, OperationsOK, Attempts, Operations, stream, callbacks, Fault
  <1>18. ASSUME NEW m \in Message, Send(m) PROVE (Early' => Early)
    BY <1>18 DEF Send, Early, OperationsOK, Attempts, Operations, stream, callbacks, Sends
  <1>19. ASSUME NEW replies \in Replies, OnRead(replies) PROVE (Early' => Early)
    BY <1>19 DEF OnRead, Early, OperationsOK, Attempts, Operations, stream, callbacks, Sends
  <1>20. ASSUME NEW frame \in Frame, PeerSends(frame) PROVE (Early' => Early)
    BY <1>20 DEF PeerSends, Early, OperationsOK, Attempts, Operations, stream, callbacks
  <1>21. ASSUME NEW op \in {"read", "ping", "close"}, StreamFails(op) PROVE (Early' => Early)
    BY <1>21 DEF StreamFails, Early, OperationsOK, Attempts, Operations, stream, callbacks, Fail
  <1>22. ASSUME NEW answer \in Answers, PeerReceives(answer) PROVE (Early' => Early)
    BY <1>22 DEF PeerReceives, Early, OperationsOK, Attempts, Operations, stream, callbacks
  <1>23. CASE UNCHANGED sessionVars
    BY <1>23 DEF sessionVars, Early, OperationsOK, Attempts, Operations, stream, callbacks
  <1> QED
    BY <1>1, <1>2, <1>3, <1>4, <1>5, <1>6, <1>7, <1>8, <1>9, <1>10, <1>11, <1>12, <1>13, <1>14, <1>15, <1>16, <1>17, <1>18, <1>19, <1>20, <1>21, <1>22, <1>23 DEF AnyNext, Callback

(* No step revives a session. *)
LEMMA OverForGood ==
    ASSUME OperationsOK, MessagesOK, Over, [AnyNext]_sessionVars
    PROVE  Over'
  <1>1. ASSUME Start PROVE Over'
    BY <1>1 DEF Start, Over, Early, WriteOut, OperationsOK, Attempts, Operations, stream, callbacks
  <1>2. ASSUME Stop PROVE Over'
    BY <1>2 DEF Stop, Over, Early, WriteOut, OperationsOK, Attempts, Operations, stream, callbacks
  <1>3. ASSUME ResolveFails PROVE Over'
    BY <1>3 DEF ResolveFails, Over, Early, WriteOut, OperationsOK, Attempts, Operations, stream, callbacks, Fail, Fault
  <1>4. ASSUME OnResolve PROVE Over'
    BY <1>4 DEF OnResolve, Over, Early, WriteOut, OperationsOK, Attempts, Operations, stream, callbacks
  <1>5. ASSUME ConnectFails PROVE Over'
    BY <1>5 DEF ConnectFails, Over, Early, WriteOut, OperationsOK, Attempts, Operations, stream, callbacks, Fail, Fault
  <1>6. ASSUME OnConnect PROVE Over'
    BY <1>6 DEF OnConnect, Over, Early, WriteOut, OperationsOK, Attempts, Operations, stream, callbacks
  <1>7. ASSUME SslHandshakeFails PROVE Over'
    BY <1>7 DEF SslHandshakeFails, Over, Early, WriteOut, OperationsOK, Attempts, Operations, stream, callbacks, Fail
  <1>8. ASSUME OnSslHandshake PROVE Over'
    BY <1>8 DEF OnSslHandshake, Over, Early, WriteOut, OperationsOK, Attempts, Operations, stream, callbacks
  <1>9. ASSUME HandshakeFails PROVE Over'
    BY <1>9 DEF HandshakeFails, Over, Early, WriteOut, OperationsOK, Attempts, Operations, stream, callbacks, Fail
  <1>10. ASSUME OnHandshake PROVE Over'
    BY <1>10 DEF OnHandshake, Over, Early, WriteOut, OperationsOK, Attempts, Operations, stream, callbacks
  <1>11. ASSUME OnAborted PROVE Over'
    BY <1>11 DEF OnAborted, Over, Early, WriteOut, OperationsOK, Attempts, Operations, stream, callbacks, Fail
  <1>12. ASSUME OnWrite PROVE Over'
    BY <1>12 DEF OnWrite, Over, Early, WriteOut, OperationsOK, Attempts, Operations, stream, callbacks
  <1>13. ASSUME WriteFails PROVE Over'
    BY <1>13 DEF WriteFails, Over, Early, WriteOut, OperationsOK, Attempts, Operations, stream, callbacks, Fail
  <1>14. ASSUME OnPingTimer PROVE Over'
    BY <1>14 DEF OnPingTimer, Over, Early, WriteOut, OperationsOK, Attempts, Operations, stream, callbacks
  <1>15. ASSUME OnPing PROVE Over'
    BY <1>15 DEF OnPing, Over, Early, WriteOut, OperationsOK, Attempts, Operations, stream, callbacks
  <1>16. ASSUME OnClose PROVE Over'
    BY <1>16 DEF OnClose, Over, Early, WriteOut, OperationsOK, Attempts, Operations, stream, callbacks
  <1>17. ASSUME Lose PROVE Over'
    BY <1>17 DEF Lose, Over, Early, WriteOut, OperationsOK, Attempts, Operations, stream, callbacks, Fault
  <1>18. ASSUME NEW m \in Message, Send(m) PROVE Over'
    BY <1>18 DEF Send, Over, Early, WriteOut, OperationsOK, Attempts, Operations, stream, callbacks, Sends
  <1>19. ASSUME NEW replies \in Replies, OnRead(replies) PROVE Over'
    BY <1>19 DEF OnRead, Over, Early, WriteOut, OperationsOK, Attempts, Operations, stream, callbacks, Sends
  <1>20. ASSUME NEW frame \in Frame, PeerSends(frame) PROVE Over'
    BY <1>20 DEF PeerSends, Over, Early, WriteOut, OperationsOK, Attempts, Operations, stream, callbacks
  <1>21. ASSUME NEW op \in {"read", "ping", "close"}, StreamFails(op) PROVE Over'
    BY <1>21 DEF StreamFails, Over, Early, WriteOut, OperationsOK, Attempts, Operations, stream, callbacks, Fail
  <1>22. ASSUME NEW answer \in Answers, PeerReceives(answer) PROVE Over'
    BY <1>22 DEF PeerReceives, Over, Early, WriteOut, OperationsOK, Attempts, Operations, stream, callbacks
  <1>23. CASE UNCHANGED sessionVars
    BY <1>23 DEF sessionVars, Over, Early, WriteOut, OperationsOK, Attempts, Operations, stream, callbacks
  <1> QED
    BY <1>1, <1>2, <1>3, <1>4, <1>5, <1>6, <1>7, <1>8, <1>9, <1>10, <1>11, <1>12, <1>13, <1>14, <1>15, <1>16, <1>17, <1>18, <1>19, <1>20, <1>21, <1>22, <1>23 DEF AnyNext, Callback

(* Whoever connects again is over. *)
LEMMA ConnectsOnceStep ==
    ASSUME OperationsOK, MessagesOK, OneHandshake, ConnectedOnly, ConnectsOnce, [AnyNext]_sessionVars
    PROVE  ConnectsOnce'
  <1>1. ASSUME Start PROVE ConnectsOnce'
    BY <1>1 DEF Start, ConnectsOnce, Over, Early, ConnectedOnly, OperationsOK, Attempts, Operations, stream, callbacks
  <1>2. ASSUME Stop PROVE ConnectsOnce'
    BY <1>2 DEF Stop, ConnectsOnce, Over, Early, ConnectedOnly, OperationsOK, Attempts, Operations, stream, callbacks
  <1>3. ASSUME ResolveFails PROVE ConnectsOnce'
    BY <1>3 DEF ResolveFails, ConnectsOnce, Over, Early, ConnectedOnly, OperationsOK, Attempts, Operations, stream, callbacks, Fail, Fault
  <1>4. ASSUME OnResolve PROVE ConnectsOnce'
    BY <1>4 DEF OnResolve, ConnectsOnce, Over, Early, ConnectedOnly, OperationsOK, Attempts, Operations, stream, callbacks
  <1>5. ASSUME ConnectFails PROVE ConnectsOnce'
    BY <1>5 DEF ConnectFails, ConnectsOnce, Over, Early, ConnectedOnly, OperationsOK, Attempts, Operations, stream, callbacks, Fail, Fault
  <1>6. ASSUME OnConnect PROVE ConnectsOnce'
    <2>1. "connect" \notin io'
      BY <1>6 DEF OnConnect
    <2> QED
      BY <2>1 DEF ConnectsOnce
  <1>7. ASSUME SslHandshakeFails PROVE ConnectsOnce'
    BY <1>7 DEF SslHandshakeFails, ConnectsOnce, Over, Early, ConnectedOnly, OperationsOK, Attempts, Operations, stream, callbacks, Fail
  <1>8. ASSUME OnSslHandshake PROVE ConnectsOnce'
    BY <1>8 DEF OnSslHandshake, ConnectsOnce, Over, Early, ConnectedOnly, OneHandshake, OperationsOK, Attempts, Operations, stream, callbacks
  <1>9. ASSUME HandshakeFails PROVE ConnectsOnce'
    BY <1>9 DEF HandshakeFails, ConnectsOnce, Over, Early, ConnectedOnly, OperationsOK, Attempts, Operations, stream, callbacks, Fail
  <1>10. ASSUME OnHandshake PROVE ConnectsOnce'
    BY <1>10 DEF OnHandshake, ConnectsOnce, Over, Early, ConnectedOnly, OperationsOK, Attempts, Operations, stream, callbacks
  <1>11. ASSUME OnAborted PROVE ConnectsOnce'
    BY <1>11 DEF OnAborted, ConnectsOnce, Over, Early, ConnectedOnly, OperationsOK, Attempts, Operations, stream, callbacks, Fail
  <1>12. ASSUME OnWrite PROVE ConnectsOnce'
    BY <1>12 DEF OnWrite, ConnectsOnce, Over, Early, ConnectedOnly, OperationsOK, Attempts, Operations, stream, callbacks
  <1>13. ASSUME WriteFails PROVE ConnectsOnce'
    BY <1>13 DEF WriteFails, ConnectsOnce, Over, Early, ConnectedOnly, OperationsOK, Attempts, Operations, stream, callbacks, Fail
  <1>14. ASSUME OnPingTimer PROVE ConnectsOnce'
    BY <1>14 DEF OnPingTimer, ConnectsOnce, Over, Early, ConnectedOnly, OperationsOK, Attempts, Operations, stream, callbacks
  <1>15. ASSUME OnPing PROVE ConnectsOnce'
    BY <1>15 DEF OnPing, ConnectsOnce, Over, Early, ConnectedOnly, OperationsOK, Attempts, Operations, stream, callbacks
  <1>16. ASSUME OnClose PROVE ConnectsOnce'
    BY <1>16 DEF OnClose, ConnectsOnce, Over, Early, ConnectedOnly, OperationsOK, Attempts, Operations, stream, callbacks
  <1>17. ASSUME Lose PROVE ConnectsOnce'
    BY <1>17 DEF Lose, ConnectsOnce, Over, Early, ConnectedOnly, OperationsOK, Attempts, Operations, stream, callbacks, Fault
  <1>18. ASSUME NEW m \in Message, Send(m) PROVE ConnectsOnce'
    BY <1>18 DEF Send, ConnectsOnce, Over, Early, ConnectedOnly, OperationsOK, Attempts, Operations, stream, callbacks, Sends
  <1>19. ASSUME NEW replies \in Replies, OnRead(replies) PROVE ConnectsOnce'
    BY <1>19 DEF OnRead, ConnectsOnce, Over, Early, ConnectedOnly, OperationsOK, Attempts, Operations, stream, callbacks, Sends
  <1>20. ASSUME NEW frame \in Frame, PeerSends(frame) PROVE ConnectsOnce'
    BY <1>20 DEF PeerSends, ConnectsOnce, Over, Early, ConnectedOnly, OperationsOK, Attempts, Operations, stream, callbacks
  <1>21. ASSUME NEW op \in {"read", "ping", "close"}, StreamFails(op) PROVE ConnectsOnce'
    BY <1>21 DEF StreamFails, ConnectsOnce, Over, Early, ConnectedOnly, OperationsOK, Attempts, Operations, stream, callbacks, Fail
  <1>22. ASSUME NEW answer \in Answers, PeerReceives(answer) PROVE ConnectsOnce'
    BY <1>22 DEF PeerReceives, ConnectsOnce, Over, Early, ConnectedOnly, OperationsOK, Attempts, Operations, stream, callbacks
  <1>23. CASE UNCHANGED sessionVars
    BY <1>23 DEF sessionVars, ConnectsOnce, Over, Early, ConnectedOnly, OperationsOK, Attempts, Operations, stream, callbacks
  <1> QED
    BY <1>1, <1>2, <1>3, <1>4, <1>5, <1>6, <1>7, <1>8, <1>9, <1>10, <1>11, <1>12, <1>13, <1>14, <1>15, <1>16, <1>17, <1>18, <1>19, <1>20, <1>21, <1>22, <1>23 DEF AnyNext, Callback

(* Nothing is under way before the first connection is up. *)
LEMMA EarlyIsEmpty == ASSUME SessionInv, Early PROVE ~wsOpen /\ outbox = <<>> /\ ~connected
  BY DEF SessionInv, Early, FirstAttempt, OneHandshake, NothingYet

(* The session's own steps make no message and no frame. *)
LEMMA SessionMakesNothing ==
    ASSUME SessionInv, Start \/ Stop \/ Callback \/ Lose
    PROVE  /\ In(inbox') \subseteq In(inbox)
           /\ In(writeQueue') \subseteq In(writeQueue)
           /\ In(outbox') \subseteq In(outbox) \cup In(writeQueue)
  <1> USE DEF callbacks, stream
  <1>1. /\ inbox \in Seq(Frame) /\ writeQueue \in Seq(Message) /\ outbox \in Seq(Message)
        /\ Len(inbox) \in Nat
    BY LenProperties DEF SessionInv, SessionTypeOK, MessagesOK
  <1>2. ASSUME NEW q \in Seq(Message), q # <<>>, In(q) \subseteq In(writeQueue), WriteOut(Head(q))
        PROVE  In(outbox') \subseteq In(outbox) \cup In(writeQueue)
    <2>1. Head(q) \in In(writeQueue)
      BY <1>2, InHead
    <2>2. In(Append(outbox, Head(q))) \subseteq In(outbox) \cup {Head(q)}
      BY <1>1, InAppend
    <2> QED
      BY <1>2, <2>1, <2>2 DEF WriteOut
  <1>3. CASE Start \/ Stop
    BY <1>3 DEF Start, Stop
  <1>4. CASE ResolveFails \/ ConnectFails \/ OnConnect
    BY <1>4 DEF ResolveFails, ConnectFails, OnConnect
  <1>5. CASE SslHandshakeFails \/ OnSslHandshake \/ HandshakeFails \/ OnAborted
    BY <1>5 DEF SslHandshakeFails, OnSslHandshake, HandshakeFails, OnAborted
  <1>6. CASE OnPingTimer \/ OnPing \/ WriteFails
    BY <1>6 DEF OnPingTimer, OnPing, WriteFails
  <1>7. CASE \E op \in {"read", "ping", "close"} : StreamFails(op)
    BY <1>7 DEF StreamFails
  <1>8. CASE OnResolve
    BY <1>8, InEmpty DEF OnResolve
  <1>9. CASE OnClose
    BY <1>9, InEmpty DEF OnClose
  <1>10. CASE OnHandshake
    <2>1. CASE writeQueue = <<>>
      BY <1>10, <2>1 DEF OnHandshake
    <2>2. CASE writeQueue # <<>>
      <3>1. WriteOut(Head(writeQueue)) /\ inbox' = inbox /\ writeQueue' = writeQueue
        BY <1>10, <2>2 DEF OnHandshake
      <3> QED
        BY <1>1, <1>2, <2>2, <3>1
    <2> QED
      BY <2>1, <2>2
  <1>11. CASE OnWrite
    <2>1. writeQueue # <<>>
      BY <1>11 DEF OnWrite, SessionInv, OneWrite, SessionTypeOK, OperationsOK
    <2>2. /\ In(Tail(writeQueue)) \subseteq In(writeQueue)
          /\ Tail(writeQueue) \in Seq(Message)
      BY <1>1, <2>1, InTail, HeadTailProperties
    <2>3. inbox' = inbox /\ writeQueue' = Tail(writeQueue)
      BY <1>11 DEF OnWrite
    <2>4. outbox' = outbox \/ (Tail(writeQueue) # <<>> /\ WriteOut(Head(Tail(writeQueue))))
      BY <1>11 DEF OnWrite
    <2> QED
      BY <1>2, <2>2, <2>3, <2>4
  <1>12. CASE Lose
    <2>1. PICK n \in 0 .. Len(inbox) : inbox' = SubSeq(inbox, 1, n)
      BY <1>12 DEF Lose
    <2>2. outbox' = <<>> /\ writeQueue' = writeQueue
      BY <1>12 DEF Lose
    <2> QED
      BY <1>1, <2>1, <2>2, InSubSeq, InEmpty
  <1> QED
    BY <1>3, <1>4, <1>5, <1>6, <1>7, <1>8, <1>9, <1>10, <1>11, <1>12 DEF Callback

(* Handling a frame takes it, and sends its replies. *)
LEMMA ReadSends ==
    ASSUME SessionInv, NEW m \in Message, NEW replies \in {<<>>, <<m>>}, OnRead(replies)
    PROVE  /\ In(inbox') \subseteq In(inbox)
           /\ In(writeQueue') \subseteq In(writeQueue) \cup In(replies)
           /\ In(outbox') \subseteq In(outbox) \cup In(replies)
  <1>1. /\ inbox \in Seq(Frame) /\ writeQueue \in Seq(Message) /\ outbox \in Seq(Message)
        /\ inbox # <<>> /\ inbox' = Tail(inbox)
    BY DEF SessionInv, SessionTypeOK, MessagesOK, OnRead
  <1>2. In(inbox') \subseteq In(inbox)
    BY <1>1, InTail
  <1>3. CASE replies = <<>>
    <2>1. writeQueue \o <<>> = writeQueue
      BY <1>1
    <2>2. writeQueue' = writeQueue /\ outbox' = outbox
      BY <1>3, <2>1 DEF OnRead, Sends
    <2> QED
      BY <1>2, <2>2
  <1>4. CASE replies = <<m>>
    <2>1. writeQueue' = Append(writeQueue, m)
      BY <1>1, <1>4 DEF OnRead, Sends
    <2>2. outbox' = outbox \/ outbox' = Append(outbox, m)
      BY <1>4 DEF OnRead, Sends, WriteOut
    <2>3. m \in In(replies)
      BY <1>4 DEF In
    <2>4. /\ In(Append(writeQueue, m)) \subseteq In(writeQueue) \cup {m}
          /\ In(Append(outbox, m)) \subseteq In(outbox) \cup {m}
      BY <1>1, InAppend
    <2> QED
      BY <1>2, <2>1, <2>2, <2>3, <2>4
  <1> QED
    BY <1>3, <1>4

-----------------------------------------------------------------------------
(* The feed's part *)

FeedTypes ==
    /\ authenticated \in BOOLEAN /\ symbols \subseteq Ticker
    /\ published \in Nat
    /\ DOMAIN serverSide = {"greeted", "authed", "bars"}

(* The feed's own messages and frames are ones its session carries. *)
LEMMA FeedMessages ==
    /\ AuthMessage \in Message
    /\ \A wanted \in (SUBSET Ticker) \ {{}} : SubscriptionMessage(wanted) \in Message
    /\ Success("authenticated") # Success("connected")
    /\ Success("authenticated") # AnswerFrame
    /\ \A bars : Success("authenticated") # BarsFrame(bars)
  <1>1. /\ Success("authenticated").msg = "authenticated" /\ Success("connected").msg = "connected"
        /\ AnswerFrame.msg = "" /\ \A bars : BarsFrame(bars).msg = ""
    BY DEF Success, AnswerFrame, BarsFrame
  <1> QED
    BY <1>1, FeedAssumption DEF FeedMessage

(* For any tickers and failures: whatever the feed does to its session is one *)
(* of the things its session was proved for.                                  *)
LEMMA FeedIsSession ==
    ASSUME FeedTypes, [FeedNext]_vars
    PROVE  [AnyNext]_sessionVars
  <1>1. CASE SessionStep
    BY <1>1 DEF SessionStep, AnyNext
  <1>2. ASSUME NEW wanted \in (SUBSET Ticker) \ {{}}, SubscribeToBars(wanted)
        PROVE  [AnyNext]_sessionVars
    <2>1. Send(SubscriptionMessage(wanted)) \/ UNCHANGED sessionVars
      BY <1>2 DEF SubscribeToBars
    <2> QED
      BY <2>1, FeedMessages DEF AnyNext
  <1>3. CASE FrameConnected
    <2>1. OnRead(<<AuthMessage>>) /\ <<AuthMessage>> \in Replies
      BY <1>3, FeedMessages DEF FrameConnected, Replies
    <2> QED
      BY <2>1 DEF AnyNext
  <1>4. CASE FrameAuthenticated
    <2>1. CASE symbols = {}
      <3>1. OnRead(<<>>) /\ <<>> \in Replies
        BY <1>4, <2>1 DEF FrameAuthenticated, Replies
      <3> QED
        BY <3>1 DEF AnyNext
    <2>2. CASE symbols # {}
      <3>1. symbols \in (SUBSET Ticker) \ {{}}
        BY <2>2 DEF FeedTypes
      <3>2. SubscriptionMessage(symbols) \in Message
        BY <3>1, FeedMessages
      <3>3. <<SubscriptionMessage(symbols)>> \in Replies
        BY <3>2 DEF Replies
      <3>4. OnRead(<<SubscriptionMessage(symbols)>>)
        BY <1>4, <2>2 DEF FrameAuthenticated
      <3> QED
        BY <3>3, <3>4 DEF AnyNext
    <2> QED
      BY <2>1, <2>2
  <1>5. ASSUME FrameIgnored \/ \E throws \in SUBSET (1 .. published) : FrameBars(throws)
        PROVE  [AnyNext]_sessionVars
    <2>1. OnRead(<<>>) /\ <<>> \in Replies
      BY <1>5 DEF FrameIgnored, FrameBars, Replies
    <2> QED
      BY <2>1 DEF AnyNext
  <1>6. CASE ServerGreets
    BY <1>6, FeedAssumption DEF ServerGreets, AnyNext
  <1>7. CASE ServerReceives
    <2>1. /\ <<Success("authenticated")>> \in Answers /\ <<AnswerFrame>> \in Answers
      BY FeedAssumption DEF Answers
    <2>2. PeerReceives(<<Success("authenticated")>>) \/ PeerReceives(<<AnswerFrame>>)
      BY <1>7 DEF ServerReceives
    <2> QED
      BY <2>1, <2>2 DEF AnyNext
  <1>8. ASSUME NEW n \in {1, 2}, ServerPublishes(n) PROVE [AnyNext]_sessionVars
    <2>1. published \in 0 .. MaxBars /\ published + n <= MaxBars
      BY <1>8, FeedBounds DEF ServerPublishes, FeedTypes
    <2>2. BarsFrame([k \in 1 .. n |-> published + k]) \in Frame
      BY <2>1, FeedAssumption
    <2>3. PeerSends(BarsFrame([k \in 1 .. n |-> published + k]))
      BY <1>8 DEF ServerPublishes
    <2> QED
      BY <2>2, <2>3 DEF AnyNext
  <1>9. CASE UNCHANGED vars
    BY <1>9 DEF vars
  <1> QED
    BY <1>1, <1>2, <1>3, <1>4, <1>5, <1>6, <1>7, <1>8, <1>9 DEF FeedNext, OnFrame

(* The feed's state keeps its types. *)
LEMMA FeedTypesStep == ASSUME FeedTypes, [FeedNext]_vars PROVE FeedTypes'
  <1>1. CASE SessionStep
    BY <1>1 DEF SessionStep, FeedTypes, feedVars, NewConnection
  <1>2. ASSUME NEW wanted \in (SUBSET Ticker) \ {{}}, SubscribeToBars(wanted) PROVE FeedTypes'
    BY <1>2 DEF SubscribeToBars, FeedTypes
  <1>3. CASE OnFrame
    BY <1>3 DEF OnFrame, FrameConnected, FrameAuthenticated, FrameIgnored, FrameBars, FeedTypes,
                feedVars
  <1>4. CASE ServerGreets
    BY <1>4 DEF ServerGreets, FeedTypes, feedVars
  <1>5. CASE ServerReceives
    BY <1>5 DEF ServerReceives, FeedTypes, feedVars
  <1>6. ASSUME NEW n \in {1, 2}, ServerPublishes(n) PROVE FeedTypes'
    BY <1>6 DEF ServerPublishes, FeedTypes, feedVars
  <1>7. CASE UNCHANGED vars
    BY <1>7 DEF vars, feedVars, FeedTypes
  <1> QED
    BY <1>1, <1>2, <1>3, <1>4, <1>5, <1>6, <1>7 DEF FeedNext

-----------------------------------------------------------------------------
(* Subscriptions and the authentication *)

(* Nobody has heard of the authentication, and there is nothing to send but   *)
(* the credentials.                                                           *)
Silent ==
    /\ ~authenticated
    /\ Success("authenticated") \notin In(inbox)
    /\ In(writeQueue) \subseteq {AuthMessage}
    /\ In(outbox) \subseteq {AuthMessage}

EarlyIsSilent == Early => ~authenticated /\ inbox = <<>> /\ ~serverSide.authed

(* _authenticated is not reset when the connection is lost: that does no harm *)
(* only because no other connection ever comes up.                            *)
AuthFirst == Silent \/ serverSide.authed \/ Over

FeedInv == SessionInv /\ FeedTypes /\ ConnectsOnce /\ EarlyIsSilent /\ AuthFirst

LEMMA FeedInvInit == Init => FeedInv
  <1> SUFFICES ASSUME Init PROVE FeedInv
    OBVIOUS
  <1>1. SessionInv
    BY InvariantInit DEF Init
  <1>2. FeedTypes /\ ConnectsOnce /\ EarlyIsSilent
    BY DEF Init, SessionInit, FeedTypes, ConnectsOnce, EarlyIsSilent, NewConnection
  <1>3. AuthFirst
    BY InEmpty DEF Init, SessionInit, AuthFirst, Silent
  <1> QED
    BY <1>1, <1>2, <1>3 DEF FeedInv

(* What the next state is, before the first connection, without one, or after *)
(* the last.                                                                  *)
LEMMA FeedInvSession ==
    ASSUME FeedInv, [FeedNext]_vars
    PROVE  /\ SessionInv' /\ FeedTypes' /\ ConnectsOnce'
           /\ Early' => Early
           /\ Over => Over'
  <1>1. [AnyNext]_sessionVars
    BY FeedIsSession DEF FeedInv
  <1>2. SessionInv'
    BY <1>1, InvariantStep DEF FeedInv
  <1>3. FeedTypes'
    BY FeedTypesStep DEF FeedInv
  <1>4. ConnectsOnce' /\ (Early' => Early)
    BY <1>1, ConnectsOnceStep, EarlyBefore DEF FeedInv, SessionInv, SessionTypeOK
  <1>5. Over => Over'
    BY <1>1, OverForGood DEF FeedInv, SessionInv, SessionTypeOK
  <1> QED
    BY <1>2, <1>3, <1>4, <1>5

(* Nothing is heard before the first connection is up. *)
LEMMA EarlyIsSilentStep ==
    ASSUME FeedInv, [FeedNext]_vars
    PROVE  EarlyIsSilent'
  <1>0. SUFFICES ASSUME Early' PROVE ~authenticated' /\ inbox' = <<>> /\ ~serverSide'.authed
    BY DEF EarlyIsSilent
  <1>1. /\ Early /\ ~authenticated /\ inbox = <<>> /\ ~serverSide.authed
        /\ outbox = <<>> /\ ~wsOpen
    BY <1>0, FeedInvSession, EarlyIsEmpty DEF FeedInv, EarlyIsSilent
  <1>2. CASE SessionStep
    <2>1. SessionInv' /\ inbox' \in Seq(Frame)
      BY FeedInvSession DEF SessionInv, SessionTypeOK, MessagesOK
    <2>2. In(inbox') \subseteq {}
      BY <1>1, <1>2, SessionMakesNothing, InEmpty DEF SessionStep, FeedInv
    <2>3. inbox' = <<>>
      BY <2>1, <2>2, InHead
    <2> QED
      BY <1>1, <1>2, <2>3 DEF SessionStep, feedVars, NewConnection
  <1>3. ASSUME NEW wanted \in (SUBSET Ticker) \ {{}}, SubscribeToBars(wanted)
        PROVE  ~authenticated' /\ inbox' = <<>> /\ ~serverSide'.authed
    BY <1>1, <1>3 DEF SubscribeToBars, sessionVars
  <1>4. CASE OnFrame
    BY <1>1, <1>4 DEF OnFrame, FrameConnected, FrameAuthenticated, FrameIgnored, FrameBars
  <1>5. CASE ServerGreets
    BY <1>1, <1>5 DEF ServerGreets, PeerSends
  <1>6. CASE ServerReceives
    BY <1>1, <1>6 DEF ServerReceives
  <1>7. ASSUME NEW n \in {1, 2}, ServerPublishes(n) PROVE FALSE
    BY <1>1, <1>7 DEF ServerPublishes, PeerSends
  <1>8. CASE UNCHANGED vars
    BY <1>1, <1>8 DEF vars, feedVars, sessionVars
  <1> QED
    BY <1>2, <1>3, <1>4, <1>5, <1>6, <1>7, <1>8 DEF FeedNext

(* A feed that has not heard of the authentication sends no subscription, and *)
(* hears of it from a server that has authenticated it.                       *)
LEMMA SilentStep ==
    ASSUME FeedInv, Silent, [FeedNext]_vars
    PROVE  Silent' \/ serverSide'.authed
  <1>1. /\ inbox \in Seq(Frame) /\ writeQueue \in Seq(Message) /\ outbox \in Seq(Message)
        /\ AuthMessage \in Message
    BY FeedMessages DEF FeedInv, SessionInv, SessionTypeOK, MessagesOK
  <1>2. ASSUME NEW replies \in {<<>>, <<AuthMessage>>}, OnRead(replies), authenticated' = authenticated
        PROVE  Silent'
    <2>1. In(replies) \subseteq {AuthMessage}
      BY DEF In
    <2>2. /\ In(inbox') \subseteq In(inbox)
          /\ In(writeQueue') \subseteq In(writeQueue) \cup In(replies)
          /\ In(outbox') \subseteq In(outbox) \cup In(replies)
      BY <1>1, <1>2, ReadSends DEF FeedInv
    <2> QED
      BY <1>2, <2>1, <2>2 DEF Silent
  <1>3. CASE SessionStep
    <2>1. /\ In(inbox') \subseteq In(inbox)
          /\ In(writeQueue') \subseteq In(writeQueue)
          /\ In(outbox') \subseteq In(outbox) \cup In(writeQueue)
      BY <1>3, SessionMakesNothing DEF SessionStep, FeedInv
    <2>2. authenticated' = authenticated
      BY <1>3 DEF SessionStep, feedVars
    <2> QED
      BY <2>1, <2>2 DEF Silent
  <1>4. ASSUME NEW wanted \in (SUBSET Ticker) \ {{}}, SubscribeToBars(wanted) PROVE Silent'
    BY <1>4 DEF SubscribeToBars, Silent, sessionVars
  <1>5. CASE FrameConnected
    BY <1>2, <1>5 DEF FrameConnected, feedVars
  <1>6. CASE FrameAuthenticated
    BY <1>1, <1>6, InHead DEF FrameAuthenticated, Silent
  <1>7. CASE FrameIgnored \/ \E throws \in SUBSET (1 .. published) : FrameBars(throws)
    BY <1>2, <1>7 DEF FrameIgnored, FrameBars, feedVars
  <1>8. ASSUME NEW frame, frame # Success("authenticated"), PeerSends(frame),
               authenticated' = authenticated
        PROVE  Silent'
    <2>1. In(inbox') \subseteq In(inbox) \cup {frame}
      BY <1>1, <1>8, InAppend DEF PeerSends
    <2>2. writeQueue' = writeQueue /\ outbox' = outbox
      BY <1>8 DEF PeerSends
    <2> QED
      BY <1>8, <2>1, <2>2 DEF Silent
  <1>9. CASE ServerGreets
    BY <1>8, <1>9, FeedMessages DEF ServerGreets, feedVars
  <1>10. CASE ServerReceives
    <2>1. Head(outbox) = AuthMessage
      BY <1>1, <1>10, InHead DEF ServerReceives, Silent
    <2> QED
      BY <1>10, <2>1 DEF ServerReceives, FeedInv, FeedTypes
  <1>11. ASSUME NEW n \in {1, 2}, ServerPublishes(n) PROVE Silent'
    <2>1. PeerSends(BarsFrame([k \in 1 .. n |-> published + k])) /\ authenticated' = authenticated
      BY <1>11 DEF ServerPublishes, feedVars
    <2>2. BarsFrame([k \in 1 .. n |-> published + k]) # Success("authenticated")
      BY FeedMessages
    <2> QED
      BY <1>8, <2>1, <2>2
  <1>12. CASE UNCHANGED vars
    BY <1>12 DEF vars, feedVars, sessionVars, Silent
  <1> QED
    BY <1>3, <1>4, <1>5, <1>6, <1>7, <1>9, <1>10, <1>11, <1>12 DEF FeedNext, OnFrame

(* A server forgets its feed only when the feed connects again, which is when *)
(* its session is over.                                                       *)
LEMMA AuthedStep ==
    ASSUME FeedInv, serverSide.authed, [FeedNext]_vars
    PROVE  serverSide'.authed \/ Over'
  <1>1. CASE SessionStep
    <2>1. CASE "connect" \in io'
      <3>1. tls' = "fresh" => Early
        BY FeedInvSession DEF Early
      <3>2. ~Early
        BY DEF FeedInv, EarlyIsSilent
      <3> QED
        BY <2>1, <3>1, <3>2, FeedInvSession DEF ConnectsOnce
    <2>2. CASE "connect" \notin io'
      BY <1>1, <2>2 DEF SessionStep
    <2> QED
      BY <2>1, <2>2
  <1>2. ASSUME NEW wanted \in (SUBSET Ticker) \ {{}}, SubscribeToBars(wanted)
        PROVE  serverSide'.authed
    BY <1>2 DEF SubscribeToBars
  <1>3. CASE OnFrame
    BY <1>3 DEF OnFrame, FrameConnected, FrameAuthenticated, FrameIgnored, FrameBars
  <1>4. CASE ServerGreets
    BY <1>4 DEF ServerGreets, FeedInv, FeedTypes
  <1>5. CASE ServerReceives
    BY <1>5 DEF ServerReceives, FeedInv, FeedTypes
  <1>6. ASSUME NEW n \in {1, 2}, ServerPublishes(n) PROVE serverSide'.authed
    BY <1>6 DEF ServerPublishes
  <1>7. CASE UNCHANGED vars
    BY <1>7 DEF vars
  <1> QED
    BY <1>1, <1>2, <1>3, <1>4, <1>5, <1>6, <1>7 DEF FeedNext

LEMMA FeedInvStep == ASSUME FeedInv, [FeedNext]_vars PROVE FeedInv'
  <1>1. AuthFirst'
    BY SilentStep, AuthedStep, FeedInvSession DEF FeedInv, AuthFirst
  <1> QED
    BY <1>1, FeedInvSession, EarlyIsSilentStep DEF FeedInv

(* For any tickers and failures: all that is proved of the session holds of   *)
(* the one inside the feed.                                                   *)
THEOREM SessionInFeed == FeedSpec => [](WriteInProgress /\ SentInOrder /\ KeepsTrying /\ Listening)
  <1>1. FeedInv /\ [FeedNext]_vars => FeedInv'
    BY FeedInvStep
  <1>2. FeedInv => SessionInv
    BY DEF FeedInv
  <1> QED
    BY <1>1, <1>2, FeedInvInit, SessionPromises, PTL DEF FeedSpec

(* For any tickers and failures: no subscription is on its way before the     *)
(* server has authenticated the connection, whenever the owner asked.         *)
THEOREM SubscribesAfterAuth == FeedSpec => []SubscribesAuthenticated
  <1>1. FeedInv /\ [FeedNext]_vars => FeedInv'
    BY FeedInvStep
  <1>2. FeedInv => SubscribesAuthenticated
    <2> SUFFICES ASSUME FeedInv PROVE SubscribesAuthenticated
      OBVIOUS
    <2>1. CASE Silent
      BY <2>1 DEF Silent, In, SubscribesAuthenticated
    <2>2. CASE Over
      BY <2>2, LenProperties DEF Over, SubscribesAuthenticated
    <2> QED
      BY <2>1, <2>2 DEF FeedInv, AuthFirst, SubscribesAuthenticated
  <1> QED
    BY <1>1, <1>2, FeedInvInit, PTL DEF FeedSpec

-----------------------------------------------------------------------------
(* Bars *)

Calls == [bar : Nat, called : SUBSET Subscribers]

DeliveredOK == delivered \in Seq(Calls) /\ \A n \in 1 .. Len(delivered) : delivered[n].bar = n

(* BarsInOrder with a name for its second part. *)
UnderWay ==
    \E upTo \in [0 .. Len(inbox) -> 0 .. published] :
       /\ Numbered(upTo)
       /\ wsOpen /\ link => upTo[Len(inbox)] = published

NoBarEarly == Early => published = 0 /\ delivered = <<>>

BarsInv == DeliveredOK /\ NoBarEarly /\ UnderWay

(* Nothing happens to the bars. *)
LEMMA BarsKept ==
    ASSUME UnderWay, UNCHANGED <<inbox, published, delivered>>, wsOpen' /\ link' => wsOpen /\ link
    PROVE  UnderWay'
  BY DEF UnderWay, Numbered

(* Frames are lost with the connection. *)
LEMMA BarsCut ==
    ASSUME UnderWay, inbox \in Seq(Frame), NEW m \in 0 .. Len(inbox), inbox' = SubSeq(inbox, 1, m),
           UNCHANGED <<published, delivered>>, ~(wsOpen' /\ link')
    PROVE  UnderWay'
  <1>1. PICK upTo \in [0 .. Len(inbox) -> 0 .. published] : Numbered(upTo)
    BY DEF UnderWay
  <1>2. Len(inbox) \in Nat /\ \A i \in 1 .. m : inbox[i] \in Frame
    BY LenProperties, ElementOfSeq
  <1>3. Len(inbox') = m /\ \A i \in 1 .. m : inbox'[i] = inbox[i]
    BY <1>2, SubSeqProperties
  <1> DEFINE cut == [n \in 0 .. m |-> upTo[n]]
  <1>4. cut \in [0 .. Len(inbox') -> 0 .. published']
    BY <1>1, <1>2, <1>3
  <1>5. Numbered(cut)'
    <2>1. cut[0] = Len(delivered')
      BY <1>1, <1>2 DEF Numbered
    <2>2. ASSUME NEW n \in 1 .. Len(inbox')
          PROVE  /\ cut[n - 1] <= cut[n]
                 /\ inbox'[n].bars = [k \in 1 .. cut[n] - cut[n - 1] |-> cut[n - 1] + k]
      <3>1. n \in 1 .. Len(inbox) /\ n - 1 \in 0 .. m /\ n \in 0 .. m /\ inbox'[n] = inbox[n]
        BY <1>2, <1>3
      <3>2. cut[n] = upTo[n] /\ cut[n - 1] = upTo[n - 1]
        BY <3>1
      <3> QED
        BY <1>1, <3>1, <3>2 DEF Numbered
    <2> QED
      BY <2>1, <2>2 DEF Numbered
  <1> QED
    BY <1>4, <1>5 DEF UnderWay

(* One more mark, d bars later. *)
LEMMA MarkAdded ==
    ASSUME NEW len \in Nat, NEW p \in Nat, NEW d \in Nat, NEW upTo \in [0 .. len -> 0 .. p]
    PROVE  \E longer \in [0 .. len + 1 -> 0 .. p + d] :
              /\ \A n \in 0 .. len : longer[n] = upTo[n]
              /\ longer[len + 1] = upTo[len] + d
  <1> DEFINE longer == [n \in 0 .. len + 1 |-> IF n = len + 1 THEN upTo[len] + d ELSE upTo[n]]
  <1>1. \A n \in 0 .. len : upTo[n] \in 0 .. p
    OBVIOUS
  <1>2. upTo[len] \in 0 .. p /\ upTo[len] + d \in 0 .. p + d
    BY <1>1
  <1>3. \A n \in 0 .. len + 1 : longer[n] \in 0 .. p + d
    BY <1>1, <1>2
  <1>4. longer \in [0 .. len + 1 -> 0 .. p + d]
    BY <1>3
  <1>5. (\A n \in 0 .. len : longer[n] = upTo[n]) /\ longer[len + 1] = upTo[len] + d
    OBVIOUS
  <1> QED
    BY <1>4, <1>5

(* Up to len, the frames of s bring the bars that upTo says. *)
Marks(upTo, s, len) ==
    \A n \in 1 .. len :
       /\ upTo[n - 1] <= upTo[n]
       /\ s[n].bars = [k \in 1 .. upTo[n] - upTo[n - 1] |-> upTo[n - 1] + k]

(* The frame that joins those under way brings the d bars published next. *)
LEMMA NumberedLonger ==
    ASSUME NEW len \in Nat, NEW s, NEW t, NEW p \in Nat, NEW d \in Nat,
           NEW upTo \in [0 .. len -> 0 .. p], NEW longer \in [0 .. len + 1 -> 0 .. p + d],
           \A n \in 0 .. len : longer[n] = upTo[n],
           longer[len + 1] = upTo[len] + d,
           Marks(upTo, s, len),
           \A n \in 1 .. len : t[n] = s[n],
           t[len + 1].bars = [k \in 1 .. d |-> upTo[len] + k]
    PROVE  Marks(longer, t, len + 1)
  <1> SUFFICES ASSUME NEW n \in 1 .. len + 1
               PROVE  /\ longer[n - 1] <= longer[n]
                      /\ t[n].bars = [k \in 1 .. longer[n] - longer[n - 1] |-> longer[n - 1] + k]
    BY DEF Marks
  <1>1. CASE n # len + 1
    <2>1. n \in 1 .. len /\ n - 1 \in 0 .. len /\ n \in 0 .. len
      BY <1>1
    <2>2. longer[n] = upTo[n] /\ longer[n - 1] = upTo[n - 1] /\ t[n] = s[n]
      BY <2>1
    <2>3. /\ upTo[n - 1] <= upTo[n]
          /\ s[n].bars = [k \in 1 .. upTo[n] - upTo[n - 1] |-> upTo[n - 1] + k]
      BY <2>1 DEF Marks
    <2> QED
      BY <2>2, <2>3
  <1>2. CASE n = len + 1
    <2>1. n - 1 = len /\ len \in 0 .. len
      BY <1>2
    <2>2. upTo[len] \in 0 .. p
      BY <2>1
    <2>3. longer[n] = upTo[len] + d /\ longer[n - 1] = upTo[len]
      BY <1>2, <2>1
    <2>4. (upTo[len] + d) - upTo[len] = d /\ upTo[len] <= upTo[len] + d
      BY <2>2
    <2> QED
      BY <1>2, <2>3, <2>4
  <1> QED
    BY <1>1, <1>2

(* A frame joins those under way. *)
LEMMA BarsSent ==
    ASSUME UnderWay, inbox \in Seq(Frame), published \in Nat,
           NEW frame \in Frame, inbox' = Append(inbox, frame),
           UNCHANGED <<delivered, wsOpen, link>>,
           NEW d \in Nat, published' = published + d,
           d = 0 \/ (wsOpen /\ link),
           frame.bars = [k \in 1 .. d |-> published + k]
    PROVE  UnderWay'
  <1>1. PICK upTo \in [0 .. Len(inbox) -> 0 .. published] :
            Numbered(upTo) /\ (wsOpen /\ link => upTo[Len(inbox)] = published)
    BY DEF UnderWay
  <1>2. /\ Len(inbox) \in Nat /\ Len(inbox') = Len(inbox) + 1
        /\ inbox'[Len(inbox) + 1] = frame
        /\ \A i \in 1 .. Len(inbox) : inbox'[i] = inbox[i]
    BY LenProperties
  <1>3. PICK longer \in [0 .. Len(inbox) + 1 -> 0 .. published + d] :
              /\ \A n \in 0 .. Len(inbox) : longer[n] = upTo[n]
              /\ longer[Len(inbox) + 1] = upTo[Len(inbox)] + d
    BY <1>1, <1>2, MarkAdded, ZenonT(60)
  <1>4. longer \in [0 .. Len(inbox') -> 0 .. published']
    BY <1>2, <1>3
  <1>5. wsOpen' /\ link' => longer[Len(inbox')] = published'
    <2> SUFFICES ASSUME wsOpen', link' PROVE longer[Len(inbox')] = published'
      OBVIOUS
    <2>1. upTo[Len(inbox)] = published
      BY <1>1
    <2>2. longer[Len(inbox')] = published + d
      BY <1>2, <1>3, <2>1, Zenon
    <2> QED
      BY <2>2
  <1>6. upTo[Len(inbox)] = published \/ d = 0
    BY <1>1
  <1>7. frame.bars = [k \in 1 .. d |-> upTo[Len(inbox)] + k]
    <2>1. CASE upTo[Len(inbox)] = published
      BY <2>1
    <2>2. CASE d = 0
      <3>1. [k \in 1 .. 0 |-> published + k] = [k \in 1 .. 0 |-> upTo[Len(inbox)] + k]
        OBVIOUS
      <3> QED
        BY <2>2, <3>1
    <2> QED
      BY <1>6, <2>1, <2>2
  <1>8. Numbered(longer)'
    <2>1. longer[0] = Len(delivered')
      <3>1. longer[0] = upTo[0]
        BY <1>2, <1>3
      <3>2. upTo[0] = Len(delivered)
        BY <1>1 DEF Numbered
      <3> QED
        BY <3>1, <3>2
    <2>2. Marks(upTo, inbox, Len(inbox))
      BY <1>1 DEF Numbered, Marks
    <2>3. inbox'[Len(inbox) + 1].bars = [k \in 1 .. d |-> upTo[Len(inbox)] + k]
      BY <1>2, <1>7
    <2>4. Marks(longer, inbox', Len(inbox) + 1)
      <3>1. upTo \in [0 .. Len(inbox) -> 0 .. published]
        BY <1>1
      <3>2. Len(inbox) \in Nat /\ \A i \in 1 .. Len(inbox) : inbox'[i] = inbox[i]
        BY <1>2
      <3> QED
        BY <1>3, <2>2, <2>3, <3>1, <3>2, NumberedLonger
    <2> QED
      BY <1>2, <2>1, <2>4 DEF Numbered, Marks
  <1> QED
    BY <1>4, <1>5, <1>8 DEF UnderWay

(* The first mark goes with its frame. *)
LEMMA MarksShifted ==
    ASSUME NEW len \in Nat, len > 0, NEW p \in Nat, NEW s, NEW t,
           NEW upTo \in [0 .. len -> 0 .. p], Marks(upTo, s, len),
           \A n \in 1 .. len - 1 : t[n] = s[n + 1]
    PROVE  \E rest \in [0 .. len - 1 -> 0 .. p] :
              rest[0] = upTo[1] /\ rest[len - 1] = upTo[len] /\ Marks(rest, t, len - 1)
  <1> DEFINE rest == [n \in 0 .. len - 1 |-> upTo[n + 1]]
  <1>1. rest \in [0 .. len - 1 -> 0 .. p] /\ rest[0] = upTo[1] /\ rest[len - 1] = upTo[len]
    OBVIOUS
  <1>2. ASSUME NEW n \in 1 .. len - 1
        PROVE  /\ rest[n - 1] <= rest[n]
               /\ t[n].bars = [k \in 1 .. rest[n] - rest[n - 1] |-> rest[n - 1] + k]
    <2>1. n + 1 \in 1 .. len /\ (n + 1) - 1 = n
      OBVIOUS
    <2>2. /\ upTo[n] <= upTo[n + 1]
          /\ s[n + 1].bars = [k \in 1 .. upTo[n + 1] - upTo[n] |-> upTo[n] + k]
      BY <2>1 DEF Marks
    <2>3. rest[n] = upTo[n + 1] /\ rest[n - 1] = upTo[n] /\ t[n] = s[n + 1]
      OBVIOUS
    <2> HIDE DEF rest
    <2> QED
      BY <2>2, <2>3
  <1>3. Marks(rest, t, len - 1)
    BY <1>2 DEF Marks
  <1> QED
    BY <1>1, <1>3

(* A frame's bars are delivered after those before. *)
LEMMA CallsAdded ==
    ASSUME DeliveredOK, NEW d \in Nat, NEW throws,
           delivered' = delivered \o [i \in 1 .. d |-> Call(Len(delivered) + i, throws)]
    PROVE  DeliveredOK' /\ Len(delivered') = Len(delivered) + d
  <1> DEFINE calls == [i \in 1 .. d |-> Call(Len(delivered) + i, throws)]
  <1>1. delivered \in Seq(Calls) /\ Len(delivered) \in Nat
        /\ \A n \in 1 .. Len(delivered) : delivered[n].bar = n
    BY LenProperties DEF DeliveredOK
  <1>2. \A i \in 1 .. d : Call(Len(delivered) + i, throws) \in Calls
    BY <1>1 DEF Call, Calls, Subscribers
  <1>3. calls \in Seq(Calls) /\ Len(calls) = d
    BY <1>2
  <1>4. \A i \in 1 .. d : calls[i].bar = Len(delivered) + i
    BY DEF Call
  <1> HIDE DEF calls
  <1>5. /\ delivered \o calls \in Seq(Calls)
        /\ Len(delivered \o calls) = Len(delivered) + d
        /\ \A n \in 1 .. Len(delivered) + d :
              (delivered \o calls)[n]
                = IF n <= Len(delivered) THEN delivered[n] ELSE calls[n - Len(delivered)]
    BY <1>1, <1>3, ConcatProperties
  <1>6. ASSUME NEW n \in 1 .. Len(delivered) + d PROVE (delivered \o calls)[n].bar = n
    <2>1. CASE n <= Len(delivered)
      BY <1>1, <1>5, <2>1
    <2>2. CASE ~(n <= Len(delivered))
      <3>1. n - Len(delivered) \in 1 .. d
        BY <1>1, <2>2
      <3>2. calls[n - Len(delivered)].bar = Len(delivered) + (n - Len(delivered))
        BY <1>4, <3>1
      <3> QED
        BY <1>1, <1>5, <3>1, <3>2
    <2> QED
      BY <2>1, <2>2
  <1>7. delivered' = delivered \o calls
    BY DEF calls
  <1> QED
    BY <1>5, <1>6, <1>7 DEF DeliveredOK

(* A frame is handled: its bars have been delivered. *)
LEMMA BarsRead ==
    ASSUME UnderWay, DeliveredOK, inbox \in Seq(Frame), inbox # <<>>, inbox' = Tail(inbox),
           published \in Nat, UNCHANGED <<published, wsOpen, link>>, NEW throws,
           delivered' = delivered \o
               [i \in 1 .. Len(Head(inbox).bars) |-> Call(Head(inbox).bars[i], throws)]
    PROVE  DeliveredOK' /\ UnderWay'
  <1>1. PICK upTo \in [0 .. Len(inbox) -> 0 .. published] :
            Numbered(upTo) /\ (wsOpen /\ link => upTo[Len(inbox)] = published)
    BY DEF UnderWay
  <1>2. /\ Len(inbox) \in Nat /\ Len(inbox) > 0 /\ Head(inbox) = inbox[1]
        /\ Len(Tail(inbox)) = Len(inbox) - 1
        /\ \A n \in 1 .. Len(inbox) - 1 : Tail(inbox)[n] = inbox[n + 1]
    BY EmptySeq, LenProperties, HeadTailProperties
  <1>3. Marks(upTo, inbox, Len(inbox)) /\ upTo[0] = Len(delivered)
    BY <1>1 DEF Numbered, Marks
  <1>4. upTo[0] \in Nat /\ upTo[1] \in Nat
    BY <1>1, <1>2
  <1>5. upTo[0] <= upTo[1] /\ Head(inbox).bars = [k \in 1 .. upTo[1] - upTo[0] |-> upTo[0] + k]
    <2>1. 1 \in 1 .. Len(inbox) /\ 1 - 1 = 0
      BY <1>2
    <2> QED
      BY <1>2, <1>3, <2>1 DEF Marks
  <1>6. PICK d \in Nat : d = upTo[1] - upTo[0]
    BY <1>4, <1>5
  <1>7. /\ Len(Head(inbox).bars) = d
        /\ \A i \in 1 .. d : Head(inbox).bars[i] = Len(delivered) + i
    BY <1>3, <1>5, <1>6
  <1>8. [i \in 1 .. Len(Head(inbox).bars) |-> Call(Head(inbox).bars[i], throws)]
          = [i \in 1 .. d |-> Call(Len(delivered) + i, throws)]
    BY <1>7
  <1>9. DeliveredOK' /\ Len(delivered') = Len(delivered) + d
    BY <1>8, CallsAdded
  <1>10. Len(delivered') = upTo[1]
    BY <1>3, <1>4, <1>6, <1>9
  <1>11. PICK rest \in [0 .. Len(inbox) - 1 -> 0 .. published] :
            /\ rest[0] = upTo[1] /\ rest[Len(inbox) - 1] = upTo[Len(inbox)]
            /\ Marks(rest, Tail(inbox), Len(inbox) - 1)
    <2>1. upTo \in [0 .. Len(inbox) -> 0 .. published]
      BY <1>1
    <2> QED
      BY <1>2, <1>3, <2>1, MarksShifted, ZenonT(60)
  <1>12. Numbered(rest)'
    BY <1>2, <1>10, <1>11 DEF Numbered, Marks
  <1>13. wsOpen' /\ link' => rest[Len(inbox')] = published'
    BY <1>1, <1>2, <1>11
  <1>14. rest \in [0 .. Len(inbox') -> 0 .. published']
    BY <1>2, <1>11
  <1> QED
    BY <1>9, <1>12, <1>13, <1>14 DEF UnderWay

(* Before any frame and any bar. *)
LEMMA NoBars == ASSUME inbox = <<>>, published = 0, delivered = <<>> PROVE DeliveredOK /\ UnderWay
  <1> DEFINE none == [n \in 0 .. 0 |-> 0]
  <1>1. none \in [0 .. Len(inbox) -> 0 .. published] /\ Len(inbox) = 0
    OBVIOUS
  <1>2. Numbered(none) /\ none[Len(inbox)] = published
    BY DEF Numbered
  <1>3. DeliveredOK
    BY DEF DeliveredOK
  <1> QED
    BY <1>1, <1>2, <1>3 DEF UnderWay

(* The session's own steps open a stream at most once, and drop the frames    *)
(* under way only with the connection.                                        *)
LEMMA SessionInbox ==
    ASSUME SessionInv, Start \/ Stop \/ Callback \/ Lose
    PROVE  \/ inbox' = inbox /\ (wsOpen' /\ link' => (wsOpen /\ link) \/ Early)
           \/ \E n \in 0 .. Len(inbox) : inbox' = SubSeq(inbox, 1, n) /\ ~link'
  <1> USE DEF callbacks, stream
  <1>0. inbox \in Seq(Frame) /\ Len(inbox) \in Nat
    BY LenProperties DEF SessionInv, SessionTypeOK, MessagesOK
  <1>a. SubSeq(inbox, 1, 0) = <<>> /\ 0 \in 0 .. Len(inbox)
    BY <1>0
  <1>1. CASE Start \/ Stop
    BY <1>1 DEF Start, Stop
  <1>2. CASE ResolveFails \/ ConnectFails \/ SslHandshakeFails \/ HandshakeFails \/ OnAborted
    BY <1>2 DEF ResolveFails, ConnectFails, SslHandshakeFails, HandshakeFails, OnAborted
  <1>3. CASE OnSslHandshake \/ OnWrite \/ OnPingTimer \/ OnPing
    BY <1>3 DEF OnSslHandshake, OnWrite, OnPingTimer, OnPing
  <1>4. CASE WriteFails \/ \E op \in {"read", "ping", "close"} : StreamFails(op)
    BY <1>4 DEF WriteFails, StreamFails
  <1>5. CASE OnConnect
    <2>1. ~wsOpen
      BY <1>5 DEF OnConnect, SessionInv, NoneWhileOpen, Attempts
    <2> QED
      BY <1>5, <2>1 DEF OnConnect
  <1>6. CASE OnHandshake
    BY <1>6 DEF OnHandshake, Early
  <1>7. CASE OnResolve
    BY <1>7, <1>a DEF OnResolve
  <1>8. CASE OnClose
    BY <1>8, <1>a DEF OnClose
  <1>9. CASE Lose
    BY <1>9 DEF Lose
  <1> QED
    BY <1>1, <1>2, <1>3, <1>4, <1>5, <1>6, <1>7, <1>8, <1>9 DEF Callback

(* No bar comes before the first connection is up. *)
LEMMA NoBarEarlyStep == ASSUME FeedInv, NoBarEarly, [FeedNext]_vars PROVE NoBarEarly'
  <1> SUFFICES ASSUME Early' PROVE published' = 0 /\ delivered' = <<>>
    BY DEF NoBarEarly
  <1>1. published = 0 /\ delivered = <<>> /\ inbox = <<>> /\ ~wsOpen
    BY FeedInvSession, EarlyIsEmpty DEF FeedInv, EarlyIsSilent, NoBarEarly
  <1>2. ~OnFrame
    BY <1>1 DEF OnFrame, FrameConnected, FrameAuthenticated, FrameIgnored, FrameBars
  <1>3. ASSUME NEW n \in {1, 2} PROVE ~ServerPublishes(n)
    BY <1>1 DEF ServerPublishes, PeerSends
  <1> QED
    BY <1>1, <1>2, <1>3 DEF FeedNext, SessionStep, SubscribeToBars, ServerGreets, ServerReceives,
                            vars

(* A frame without bars delivers none. *)
LEMMA NoBarRead ==
    ASSUME UnderWay, DeliveredOK, inbox \in Seq(Frame), inbox # <<>>, Head(inbox).bars = <<>>,
           published \in Nat, OnRead(<<>>) \/ \E m \in Message : OnRead(<<m>>),
           UNCHANGED <<published, delivered>>
    PROVE  DeliveredOK' /\ UnderWay'
  <1>1. inbox' = Tail(inbox) /\ UNCHANGED <<wsOpen, link>>
    BY DEF OnRead, stream
  <1>2. [i \in 1 .. Len(Head(inbox).bars) |-> Call(Head(inbox).bars[i], {})] = <<>>
    OBVIOUS
  <1>3. delivered' = delivered \o [i \in 1 .. Len(Head(inbox).bars) |-> Call(Head(inbox).bars[i], {})]
    BY <1>2, ConcatEmptySeq DEF DeliveredOK
  <1> QED
    BY <1>1, <1>3, BarsRead

LEMMA BarsStep ==
    ASSUME FeedInv, BarsInv, [FeedNext]_vars
    PROVE  DeliveredOK' /\ UnderWay'
  <1>1. /\ DeliveredOK /\ UnderWay /\ NoBarEarly
        /\ inbox \in Seq(Frame) /\ published \in Nat
    BY DEF BarsInv, FeedInv, FeedTypes, SessionInv, SessionTypeOK, MessagesOK
  <1>2. CASE SessionStep
    <2>1. /\ UNCHANGED <<published, delivered>>
          /\ Start \/ Stop \/ Callback \/ Lose
          /\ SessionInv
      BY <1>2 DEF SessionStep, FeedInv
    <2>2. CASE inbox' = inbox /\ (wsOpen' /\ link' => wsOpen /\ link)
      BY <1>1, <2>1, <2>2, BarsKept DEF DeliveredOK
    <2>3. CASE inbox' = inbox /\ Early
      <3>1. inbox' = <<>> /\ published' = 0 /\ delivered' = <<>>
        BY <1>1, <2>1, <2>3 DEF NoBarEarly, FeedInv, EarlyIsSilent
      <3>2. (inbox = <<>> /\ published = 0 /\ delivered = <<>> => DeliveredOK /\ UnderWay)'
        BY NoBars, PTL
      <3> QED
        BY <3>1, <3>2
    <2>4. ASSUME NEW n \in 0 .. Len(inbox), inbox' = SubSeq(inbox, 1, n), ~link'
          PROVE  DeliveredOK' /\ UnderWay'
      BY <1>1, <2>1, <2>4, BarsCut DEF DeliveredOK
    <2> QED
      BY <2>1, <2>2, <2>3, <2>4, SessionInbox
  <1>3. ASSUME NEW wanted \in (SUBSET Ticker) \ {{}}, SubscribeToBars(wanted)
        PROVE  DeliveredOK' /\ UnderWay'
    <2>1. UNCHANGED <<inbox, published, delivered, wsOpen, link>>
      BY <1>3 DEF SubscribeToBars, Send, sessionVars, stream
    <2> QED
      BY <1>1, <2>1, BarsKept DEF DeliveredOK
  <1>4. CASE FrameConnected
    BY <1>1, <1>4, FeedMessages, NoBarRead DEF FrameConnected, Success
  <1>5. CASE FrameAuthenticated
    <2>1. \/ OnRead(<<>>)
          \/ OnRead(<<SubscriptionMessage(symbols)>>) /\ symbols # {}
      BY <1>5 DEF FrameAuthenticated
    <2>2. symbols # {} => SubscriptionMessage(symbols) \in Message
      BY FeedMessages DEF FeedInv, FeedTypes
    <2>3. inbox # <<>> /\ Head(inbox).bars = <<>> /\ UNCHANGED <<published, delivered>>
      BY <1>5 DEF FrameAuthenticated, Success
    <2> QED
      BY <1>1, <2>1, <2>2, <2>3, NoBarRead
  <1>6. CASE FrameIgnored
    <2>1. /\ inbox # <<>> /\ Head(inbox) = AnswerFrame /\ UNCHANGED <<published, delivered>>
          /\ OnRead(<<>>)
      BY <1>6 DEF FrameIgnored
    <2>2. AnswerFrame.bars = <<>>
      BY DEF AnswerFrame
    <2>3. Head(inbox).bars = <<>>
      BY <2>1, <2>2
    <2> QED
      BY <1>1, <2>1, <2>3, NoBarRead
  <1>7. ASSUME NEW throws \in SUBSET (1 .. published), FrameBars(throws)
        PROVE  DeliveredOK' /\ UnderWay'
    <2>1. /\ inbox # <<>> /\ inbox' = Tail(inbox) /\ UNCHANGED <<published, wsOpen, link>>
          /\ delivered' = delivered \o
                [i \in 1 .. Len(Head(inbox).bars) |-> Call(Head(inbox).bars[i], throws)]
      BY <1>7 DEF FrameBars, OnRead, stream
    <2> QED
      BY <1>1, <2>1, BarsRead
  <1>8. ASSUME NEW frame \in Frame, frame.bars = <<>>, inbox' = Append(inbox, frame),
               UNCHANGED <<published, delivered, wsOpen, link>>
        PROVE  DeliveredOK' /\ UnderWay'
    <2>1. 0 \in Nat /\ published' = published + 0 /\ frame.bars = [k \in 1 .. 0 |-> published + k]
      BY <1>1, <1>8
    <2> QED
      BY <1>1, <1>8, <2>1, BarsSent DEF DeliveredOK
  <1>9. CASE ServerGreets
    <2>1. /\ Success("connected") \in Frame /\ Success("connected").bars = <<>>
          /\ inbox' = Append(inbox, Success("connected"))
          /\ UNCHANGED <<published, delivered, wsOpen, link>>
      BY <1>9, FeedAssumption DEF ServerGreets, PeerSends, Success, stream
    <2> QED
      BY <1>8, <2>1
  <1>10. CASE ServerReceives
    <2>1. ASSUME NEW frame \in Frame, frame.bars = <<>>, PeerReceives(<<frame>>)
          PROVE  DeliveredOK' /\ UnderWay'
      <3>1. inbox' = Append(inbox, frame) /\ UNCHANGED <<published, delivered, wsOpen, link>>
        BY <1>1, <1>10, <2>1 DEF ServerReceives, PeerReceives, stream
      <3> QED
        BY <1>8, <2>1, <3>1
    <2>2. /\ Success("authenticated") \in Frame /\ Success("authenticated").bars = <<>>
          /\ AnswerFrame \in Frame /\ AnswerFrame.bars = <<>>
      BY FeedAssumption DEF Success, AnswerFrame
    <2>3. PeerReceives(<<Success("authenticated")>>) \/ PeerReceives(<<AnswerFrame>>)
      BY <1>10 DEF ServerReceives
    <2> QED
      BY <2>1, <2>2, <2>3
  <1>11. ASSUME NEW n \in {1, 2}, ServerPublishes(n) PROVE DeliveredOK' /\ UnderWay'
    <2> DEFINE frame == BarsFrame([k \in 1 .. n |-> published + k])
    <2>1. published \in 0 .. MaxBars /\ published + n <= MaxBars
      BY <1>1, <1>11, FeedBounds DEF ServerPublishes
    <2>2. frame \in Frame /\ frame.bars = [k \in 1 .. n |-> published + k]
      BY <2>1, FeedAssumption DEF BarsFrame
    <2>3. /\ inbox' = Append(inbox, frame) /\ published' = published + n
          /\ UNCHANGED <<delivered, wsOpen, link>>
          /\ wsOpen /\ link
      BY <1>11 DEF ServerPublishes, PeerSends, stream
    <2> HIDE DEF frame
    <2>4. UnderWay'
      BY <1>1, <2>2, <2>3, BarsSent
    <2> QED
      BY <1>1, <2>3, <2>4 DEF DeliveredOK
  <1>12. CASE UNCHANGED vars
    <2>1. UNCHANGED <<inbox, published, delivered, wsOpen, link>>
      BY <1>12 DEF vars, sessionVars, stream
    <2> QED
      BY <1>1, <2>1, BarsKept DEF DeliveredOK
  <1> QED
    BY <1>2, <1>3, <1>4, <1>5, <1>6, <1>7, <1>9, <1>10, <1>11, <1>12 DEF FeedNext, OnFrame

(* The inductive invariant of the feed, its session's among it. *)
LEMMA FeedInvariant == FeedSpec => [](FeedInv /\ BarsInv)
  <1>1. Init => FeedInv /\ BarsInv
    <2> SUFFICES ASSUME Init PROVE BarsInv
      BY FeedInvInit
    <2> QED
      BY NoBars DEF Init, SessionInit, BarsInv, NoBarEarly
  <1>2. FeedInv /\ BarsInv /\ [FeedNext]_vars => FeedInv' /\ BarsInv'
    BY FeedInvStep, NoBarEarlyStep, BarsStep DEF BarsInv
  <1> QED
    BY <1>1, <1>2, PTL DEF FeedSpec

(* For any tickers, bounds and failures: bars are delivered in order, nothing *)
(* twice and nothing left out, whoever throws on which.                       *)
THEOREM BarsAreInOrder == FeedSpec => []BarsInOrder
  <1>1. BarsInv => BarsInOrder
    BY DEF BarsInv, DeliveredOK, UnderWay, BarsInOrder
  <1> QED
    BY <1>1, FeedInvariant, PTL

-----------------------------------------------------------------------------
(* The stream that ends. *)

(* The one connection that a session makes has been cut. *)
Cut == Spent /\ ~(wsOpen /\ link)

(* No step mends it. *)
LEMMA CutForGood ==
    ASSUME NoneWhileOpen, Cut, [AnyNext]_sessionVars
    PROVE  Cut'
  <1>0. Spent'
    BY SpentStep DEF Cut
  <1>1. ASSUME Start PROVE Cut'
    BY <1>0, <1>1 DEF Start, Cut, NoneWhileOpen, Attempts, stream, callbacks
  <1>2. ASSUME Stop PROVE Cut'
    BY <1>0, <1>2 DEF Stop, Cut, NoneWhileOpen, Attempts, stream, callbacks
  <1>3. ASSUME ResolveFails PROVE Cut'
    BY <1>0, <1>3 DEF ResolveFails, Cut, NoneWhileOpen, Attempts, stream, callbacks
  <1>4. ASSUME OnResolve PROVE Cut'
    BY <1>0, <1>4 DEF OnResolve, Cut, NoneWhileOpen, Attempts, stream, callbacks
  <1>5. ASSUME ConnectFails PROVE Cut'
    BY <1>0, <1>5 DEF ConnectFails, Cut, NoneWhileOpen, Attempts, stream, callbacks
  <1>6. ASSUME OnConnect PROVE Cut'
    BY <1>0, <1>6 DEF OnConnect, Cut, NoneWhileOpen, Attempts, stream, callbacks
  <1>7. ASSUME SslHandshakeFails PROVE Cut'
    BY <1>0, <1>7 DEF SslHandshakeFails, Cut, NoneWhileOpen, Attempts, stream, callbacks
  <1>8. ASSUME OnSslHandshake PROVE Cut'
    BY <1>0, <1>8 DEF OnSslHandshake, Cut, NoneWhileOpen, Attempts, stream, callbacks
  <1>9. ASSUME HandshakeFails PROVE Cut'
    BY <1>0, <1>9 DEF HandshakeFails, Cut, NoneWhileOpen, Attempts, stream, callbacks
  <1>10. ASSUME OnHandshake PROVE Cut'
    BY <1>0, <1>10 DEF OnHandshake, Cut, NoneWhileOpen, Attempts, stream, callbacks, Spent
  <1>11. ASSUME OnAborted PROVE Cut'
    BY <1>0, <1>11 DEF OnAborted, Cut, NoneWhileOpen, Attempts, stream, callbacks
  <1>12. ASSUME OnWrite PROVE Cut'
    BY <1>0, <1>12 DEF OnWrite, Cut, NoneWhileOpen, Attempts, stream, callbacks
  <1>13. ASSUME WriteFails PROVE Cut'
    BY <1>0, <1>13 DEF WriteFails, Cut, NoneWhileOpen, Attempts, stream, callbacks
  <1>14. ASSUME OnPingTimer PROVE Cut'
    BY <1>0, <1>14 DEF OnPingTimer, Cut, NoneWhileOpen, Attempts, stream, callbacks
  <1>15. ASSUME OnPing PROVE Cut'
    BY <1>0, <1>15 DEF OnPing, Cut, NoneWhileOpen, Attempts, stream, callbacks
  <1>16. ASSUME OnClose PROVE Cut'
    BY <1>0, <1>16 DEF OnClose, Cut, NoneWhileOpen, Attempts, stream, callbacks
  <1>17. ASSUME Lose PROVE Cut'
    BY <1>0, <1>17 DEF Lose, Cut, NoneWhileOpen, Attempts, stream, callbacks
  <1>18. ASSUME NEW answer \in Answers, PeerReceives(answer) PROVE Cut'
    BY <1>0, <1>18 DEF PeerReceives, Cut, NoneWhileOpen, Attempts, stream, callbacks
  <1>19. ASSUME NEW m \in Message, Send(m) PROVE Cut'
    BY <1>0, <1>19 DEF Send, Cut, NoneWhileOpen, Attempts, stream, callbacks
  <1>20. ASSUME NEW replies \in Replies, OnRead(replies) PROVE Cut'
    BY <1>0, <1>20 DEF OnRead, Cut, NoneWhileOpen, Attempts, stream, callbacks
  <1>21. ASSUME NEW frame \in Frame, PeerSends(frame) PROVE Cut'
    BY <1>0, <1>21 DEF PeerSends, Cut, NoneWhileOpen, Attempts, stream, callbacks
  <1>22. ASSUME NEW op \in {"read", "ping", "close"}, StreamFails(op) PROVE Cut'
    BY <1>0, <1>22 DEF StreamFails, Cut, NoneWhileOpen, Attempts, stream, callbacks
  <1>23. CASE UNCHANGED sessionVars
    BY <1>0, <1>23 DEF sessionVars, Cut, NoneWhileOpen, Attempts, stream, callbacks
  <1> QED
    BY <1>1, <1>2, <1>3, <1>4, <1>5, <1>6, <1>7, <1>8, <1>9, <1>10, <1>11, <1>12, <1>13, <1>14, <1>15, <1>16, <1>17, <1>18, <1>19, <1>20, <1>21, <1>22, <1>23 DEF AnyNext, Callback

(* A server whose stream is cut publishes nothing. *)
LEMMA NothingThroughCut == ASSUME Cut, [FeedNext]_vars PROVE published' = published
  <1>1. ASSUME NEW n \in {1, 2}, ServerPublishes(n) PROVE FALSE
    BY <1>1 DEF ServerPublishes, PeerSends, Cut
  <1>2. CASE SessionStep
    BY <1>2 DEF SessionStep
  <1>3. ASSUME NEW wanted \in (SUBSET Ticker) \ {{}}, SubscribeToBars(wanted)
        PROVE  published' = published
    BY <1>3 DEF SubscribeToBars
  <1>4. CASE OnFrame
    BY <1>4 DEF OnFrame, FrameConnected, FrameAuthenticated, FrameIgnored, FrameBars, feedVars
  <1>5. CASE ServerGreets \/ ServerReceives
    BY <1>5 DEF ServerGreets, ServerReceives
  <1>6. CASE UNCHANGED vars
    BY <1>6 DEF vars
  <1> QED
    BY <1>1, <1>2, <1>3, <1>4, <1>5, <1>6 DEF FeedNext

(* For any tickers, bounds and failures: once the stream is cut, by a failure *)
(* or by stop(), the server publishes no bar to the feed any more; with       *)
(* BarsAreInOrder, what the subscribers still get is what was on its way.     *)
THEOREM StreamEndsForGood == FeedSpec => [][Cut => Cut' /\ published' = published]_vars
  <1>1. FeedInv /\ [FeedNext]_vars => FeedInv'
    BY FeedInvStep
  <1>2. FeedInv /\ [FeedNext]_vars => (Cut => Cut' /\ published' = published)
    BY FeedIsSession, CutForGood, NothingThroughCut DEF FeedInv, SessionInv
  <1> QED
    BY <1>1, <1>2, FeedInvInit, PTL DEF FeedSpec

(* A feed connects once, like its session. *)
THEOREM FeedLossIsFinal == FeedSpec => [](connected => [](~connected => []~connected))
  <1>1. FeedInv /\ [FeedNext]_vars => FeedInv'
    BY FeedInvStep
  <1>2. FeedInv => (connected => Spent)
    BY ConnectedSpends DEF FeedInv
  <1>3. FeedInv /\ Spent /\ [FeedNext]_vars => Spent' /\ (~connected => ~connected')
    BY FeedIsSession, SpentStep DEF FeedInv
  <1> QED
    BY <1>1, <1>2, <1>3, FeedInvInit, PTL DEF FeedSpec

-----------------------------------------------------------------------------
(* The session in the feed. *)

(* For any tickers and failures: in all that the feed does, its session does  *)
(* nothing but what a session does, from the state in which a session begins. *)
THEOREM FeedRunsSession == FeedSpec => SessionInit /\ [][AnyNext]_sessionVars
  <1>1. Init => SessionInit
    BY DEF Init
  <1>2. FeedInv /\ [FeedNext]_vars => [AnyNext]_sessionVars
    BY FeedIsSession DEF FeedInv
  <1> QED
    BY <1>1, <1>2, FeedInvariant, PTL DEF FeedSpec
=============================================================================
