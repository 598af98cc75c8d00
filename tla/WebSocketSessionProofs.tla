------------------------ MODULE WebSocketSessionProofs ------------------------
(* Theorems about WebSocketSession: for any messages, frames and number of    *)
(* failures of the network.                                                   *)
EXTENDS WebSocketSession, FiniteSetTheorems, SequenceTheorems, TLAPS

(* At most six operations are outstanding. *)
LEMMA FiniteIo ==
    ASSUME io \subseteq Operations PROVE IsFiniteSet(io) /\ Cardinality(io) \in Nat
  <1>1. IsFiniteSet(Operations)
    <2> DEFINE Add(S, x) == S \cup {x}
    <2>1. IsFiniteSet({"connect"}) /\ IsFiniteSet({"tls"}) /\ IsFiniteSet({"upgrade"})
          /\ IsFiniteSet({"read"}) /\ IsFiniteSet({"ping"}) /\ IsFiniteSet({"close"})
      BY FS_Singleton
    <2>2. IsFiniteSet({"connect"} \cup {"tls"})
      BY <2>1, FS_Union
    <2>3. IsFiniteSet(({"connect"} \cup {"tls"}) \cup {"upgrade"})
      BY <2>1, <2>2, FS_Union
    <2>4. IsFiniteSet({"read"} \cup {"ping"})
      BY <2>1, FS_Union
    <2>5. IsFiniteSet(({"read"} \cup {"ping"}) \cup {"close"})
      BY <2>1, <2>4, FS_Union
    <2>6. IsFiniteSet((({"connect"} \cup {"tls"}) \cup {"upgrade"})
                      \cup (({"read"} \cup {"ping"}) \cup {"close"}))
      BY <2>3, <2>5, FS_Union
    <2>7. Operations = (({"connect"} \cup {"tls"}) \cup {"upgrade"})
                       \cup (({"read"} \cup {"ping"}) \cup {"close"})
      BY DEF Operations, Attempts
    <2> QED
      BY <2>6, <2>7
  <1>2. IsFiniteSet(io)
    BY <1>1, FS_Subset
  <1> QED
    BY <1>2, FS_CardinalityType

(* Every step, without the bounds that TLC needs on the messages sent: of the *)
(* session alone and of the session in a larger system.                       *)
AnyNext ==
    \/ Start \/ Stop
    \/ \E m \in Message : Send(m)
    \/ Callback
    \/ \E replies \in Replies : OnRead(replies)
    \/ Lose
    \/ \E answer \in Answers : PeerReceives(answer)
    \/ \E frame \in Frame : PeerSends(frame)

(* The steps of Next are among them. *)
LEMMA NextIsAny == ASSUME [Next]_sessionVars PROVE [AnyNext]_sessionVars
  BY DEF Next, AnyNext

-----------------------------------------------------------------------------
(* Types *)

(* Flags stay flags. *)
LEMMA FlagsStep ==
    ASSUME FlagsOK, [AnyNext]_sessionVars
    PROVE  FlagsOK'
  <1>1. ASSUME Start PROVE FlagsOK'
    BY <1>1 DEF Start, FlagsOK, stream, callbacks
  <1>2. ASSUME Stop PROVE FlagsOK'
    BY <1>2 DEF Stop, FlagsOK, stream, callbacks
  <1>3. ASSUME ResolveFails PROVE FlagsOK'
    BY <1>3 DEF ResolveFails, FlagsOK, stream, callbacks, Fail, Fault
  <1>4. ASSUME OnResolve PROVE FlagsOK'
    BY <1>4 DEF OnResolve, FlagsOK, stream, callbacks
  <1>5. ASSUME ConnectFails PROVE FlagsOK'
    BY <1>5 DEF ConnectFails, FlagsOK, stream, callbacks, Fail, Fault
  <1>6. ASSUME OnConnect PROVE FlagsOK'
    BY <1>6 DEF OnConnect, FlagsOK, stream, callbacks
  <1>7. ASSUME SslHandshakeFails PROVE FlagsOK'
    BY <1>7 DEF SslHandshakeFails, FlagsOK, stream, callbacks, Fail
  <1>8. ASSUME OnSslHandshake PROVE FlagsOK'
    BY <1>8 DEF OnSslHandshake, FlagsOK, stream, callbacks
  <1>9. ASSUME HandshakeFails PROVE FlagsOK'
    BY <1>9 DEF HandshakeFails, FlagsOK, stream, callbacks, Fail
  <1>10. ASSUME OnHandshake PROVE FlagsOK'
    BY <1>10 DEF OnHandshake, FlagsOK, stream, callbacks
  <1>11. ASSUME OnAborted PROVE FlagsOK'
    BY <1>11 DEF OnAborted, FlagsOK, stream, callbacks, Fail
  <1>12. ASSUME OnWrite PROVE FlagsOK'
    BY <1>12 DEF OnWrite, FlagsOK, stream, callbacks
  <1>13. ASSUME WriteFails PROVE FlagsOK'
    BY <1>13 DEF WriteFails, FlagsOK, stream, callbacks, Fail
  <1>14. ASSUME OnPingTimer PROVE FlagsOK'
    BY <1>14 DEF OnPingTimer, FlagsOK, stream, callbacks
  <1>15. ASSUME OnPing PROVE FlagsOK'
    BY <1>15 DEF OnPing, FlagsOK, stream, callbacks
  <1>16. ASSUME OnClose PROVE FlagsOK'
    BY <1>16 DEF OnClose, FlagsOK, stream, callbacks
  <1>17. ASSUME Lose PROVE FlagsOK'
    BY <1>17 DEF Lose, FlagsOK, stream, callbacks, Fault
  <1>18. ASSUME NEW answer \in Answers, PeerReceives(answer) PROVE FlagsOK'
    BY <1>18 DEF PeerReceives, FlagsOK, stream, callbacks
  <1>19. ASSUME NEW m \in Message, Send(m) PROVE FlagsOK'
    BY <1>19 DEF Send, FlagsOK, stream, callbacks, Sends
  <1>20. ASSUME NEW replies \in Replies, OnRead(replies) PROVE FlagsOK'
    BY <1>20 DEF OnRead, FlagsOK, stream, callbacks, Sends
  <1>21. ASSUME NEW frame \in Frame, PeerSends(frame) PROVE FlagsOK'
    BY <1>21 DEF PeerSends, FlagsOK, stream, callbacks
  <1>22. ASSUME NEW op \in {"read", "ping", "close"}, StreamFails(op) PROVE FlagsOK'
    BY <1>22 DEF StreamFails, FlagsOK, stream, callbacks, Fail
  <1>23. CASE UNCHANGED sessionVars
    BY <1>23 DEF sessionVars, FlagsOK, stream, callbacks
  <1> QED
    BY <1>1, <1>2, <1>3, <1>4, <1>5, <1>6, <1>7, <1>8, <1>9, <1>10, <1>11, <1>12, <1>13, <1>14, <1>15, <1>16, <1>17, <1>18, <1>19, <1>20, <1>21, <1>22, <1>23 DEF AnyNext, Callback

(* Counters and sets of operations keep their types. *)
LEMMA OperationsStep ==
    ASSUME OperationsOK, [AnyNext]_sessionVars
    PROVE  OperationsOK'
  <1>1. ASSUME Start PROVE OperationsOK'
    BY <1>1 DEF Start, OperationsOK, stream, callbacks, Operations, Attempts
  <1>2. ASSUME Stop PROVE OperationsOK'
    BY <1>2 DEF Stop, OperationsOK, stream, callbacks, Operations, Attempts
  <1>3. ASSUME ResolveFails PROVE OperationsOK'
    BY <1>3 DEF ResolveFails, OperationsOK, stream, callbacks, Operations, Attempts, Fail, Fault
  <1>4. ASSUME OnResolve PROVE OperationsOK'
    <2>1. Cardinality(io) \in Nat
      BY FiniteIo DEF OperationsOK
    <2>2. aborted' \in Nat /\ resolving' \in Nat
      BY <1>4, <2>1 DEF OnResolve, OperationsOK
    <2> QED
      BY <1>4, <2>2 DEF OnResolve, OperationsOK, Operations, Attempts
  <1>5. ASSUME ConnectFails PROVE OperationsOK'
    BY <1>5 DEF ConnectFails, OperationsOK, stream, callbacks, Operations, Attempts, Fail, Fault
  <1>6. ASSUME OnConnect PROVE OperationsOK'
    BY <1>6 DEF OnConnect, OperationsOK, stream, callbacks, Operations, Attempts
  <1>7. ASSUME SslHandshakeFails PROVE OperationsOK'
    BY <1>7 DEF SslHandshakeFails, OperationsOK, stream, callbacks, Operations, Attempts, Fail
  <1>8. ASSUME OnSslHandshake PROVE OperationsOK'
    BY <1>8 DEF OnSslHandshake, OperationsOK, stream, callbacks, Operations, Attempts
  <1>9. ASSUME HandshakeFails PROVE OperationsOK'
    BY <1>9 DEF HandshakeFails, OperationsOK, stream, callbacks, Operations, Attempts, Fail
  <1>10. ASSUME OnHandshake PROVE OperationsOK'
    BY <1>10 DEF OnHandshake, OperationsOK, stream, callbacks, Operations, Attempts
  <1>11. ASSUME OnAborted PROVE OperationsOK'
    BY <1>11 DEF OnAborted, OperationsOK, stream, callbacks, Operations, Attempts, Fail
  <1>12. ASSUME OnWrite PROVE OperationsOK'
    BY <1>12 DEF OnWrite, OperationsOK, stream, callbacks, Operations, Attempts
  <1>13. ASSUME WriteFails PROVE OperationsOK'
    BY <1>13 DEF WriteFails, OperationsOK, stream, callbacks, Operations, Attempts, Fail
  <1>14. ASSUME OnPingTimer PROVE OperationsOK'
    BY <1>14 DEF OnPingTimer, OperationsOK, stream, callbacks, Operations, Attempts
  <1>15. ASSUME OnPing PROVE OperationsOK'
    BY <1>15 DEF OnPing, OperationsOK, stream, callbacks, Operations, Attempts
  <1>16. ASSUME OnClose PROVE OperationsOK'
    BY <1>16 DEF OnClose, OperationsOK, stream, callbacks, Operations, Attempts
  <1>17. ASSUME Lose PROVE OperationsOK'
    BY <1>17 DEF Lose, OperationsOK, stream, callbacks, Operations, Attempts, Fault
  <1>18. ASSUME NEW answer \in Answers, PeerReceives(answer) PROVE OperationsOK'
    BY <1>18 DEF PeerReceives, OperationsOK, stream, callbacks, Operations, Attempts
  <1>19. ASSUME NEW m \in Message, Send(m) PROVE OperationsOK'
    BY <1>19 DEF Send, OperationsOK, stream, callbacks, Operations, Attempts, Sends
  <1>20. ASSUME NEW replies \in Replies, OnRead(replies) PROVE OperationsOK'
    BY <1>20 DEF OnRead, OperationsOK, stream, callbacks, Operations, Attempts, Sends
  <1>21. ASSUME NEW frame \in Frame, PeerSends(frame) PROVE OperationsOK'
    BY <1>21 DEF PeerSends, OperationsOK, stream, callbacks, Operations, Attempts
  <1>22. ASSUME NEW op \in {"read", "ping", "close"}, StreamFails(op) PROVE OperationsOK'
    BY <1>22 DEF StreamFails, OperationsOK, stream, callbacks, Operations, Attempts, Fail
  <1>23. CASE UNCHANGED sessionVars
    BY <1>23 DEF sessionVars, OperationsOK, stream, callbacks, Operations, Attempts
  <1> QED
    BY <1>1, <1>2, <1>3, <1>4, <1>5, <1>6, <1>7, <1>8, <1>9, <1>10, <1>11, <1>12, <1>13, <1>14, <1>15, <1>16, <1>17, <1>18, <1>19, <1>20, <1>21, <1>22, <1>23 DEF AnyNext, Callback

(* What send() does to the types. *)
LEMMA SendsType ==
    ASSUME MessagesOK, NEW msgs \in Seq(Message), Sends(msgs)
    PROVE  /\ sent' \in Seq(Message) /\ writeQueue' \in Seq(Message)
           /\ outbox' \in Seq(Message)
  <1>1. sent' \in Seq(Message) /\ writeQueue' \in Seq(Message)
    BY DEF Sends, MessagesOK
  <1>2. CASE msgs = <<>>
    BY <1>1, <1>2 DEF Sends, MessagesOK
  <1>3. CASE msgs # <<>>
    <2>1. Head(msgs) \in Message
      BY <1>3, HeadTailProperties
    <2>2. Append(outbox, Head(msgs)) \in Seq(Message) /\ outbox \in Seq(Message)
      BY <2>1 DEF MessagesOK
    <2>3. outbox' = outbox \/ outbox' = Append(outbox, Head(msgs))
      BY DEF Sends, WriteOut
    <2> QED
      BY <1>1, <2>2, <2>3
  <1> QED
    BY <1>2, <1>3

(* Replies are sequences of messages. *)
LEMMA RepliesType == ASSUME NEW replies \in Replies PROVE replies \in Seq(Message)
  <1>1. \A m \in Message : <<m>> \in Seq(Message)
    OBVIOUS
  <1>2. <<>> \in Seq(Message)
    BY EmptySeq
  <1> QED
    BY <1>1, <1>2 DEF Replies

(* Answers are sequences of frames. *)
LEMMA AnswersType == ASSUME NEW answer \in Answers PROVE answer \in Seq(Frame)
  <1>1. \A frame \in Frame : <<frame>> \in Seq(Frame)
    OBVIOUS
  <1>2. <<>> \in Seq(Frame)
    BY EmptySeq
  <1> QED
    BY <1>1, <1>2 DEF Answers

(* The message written next is one. *)
LEMMA WriteOutType ==
    ASSUME MessagesOK, NEW q \in Seq(Message), q # <<>>
    PROVE  WriteOut(Head(q)) => outbox' \in Seq(Message)
  <1>1. Head(q) \in Message
    BY HeadTailProperties
  <1> QED
    BY <1>1 DEF WriteOut, MessagesOK

(* on_write() pops a message that is there. *)
QueueHasWrite == writes > 0 => writeQueue # <<>>

(* Queues keep their types. *)
LEMMA MessagesStep ==
    ASSUME MessagesOK, QueueHasWrite, [AnyNext]_sessionVars
    PROVE  MessagesOK'
  <1>1. ASSUME Start PROVE MessagesOK'
    BY <1>1 DEF Start, MessagesOK, stream, callbacks
  <1>2. ASSUME Stop PROVE MessagesOK'
    BY <1>2 DEF Stop, MessagesOK, stream, callbacks
  <1>3. ASSUME ResolveFails PROVE MessagesOK'
    BY <1>3 DEF ResolveFails, MessagesOK, stream, callbacks, Fail, Fault
  <1>4. ASSUME OnResolve PROVE MessagesOK'
    BY <1>4 DEF OnResolve, MessagesOK, stream, callbacks
  <1>5. ASSUME ConnectFails PROVE MessagesOK'
    BY <1>5 DEF ConnectFails, MessagesOK, stream, callbacks, Fail, Fault
  <1>6. ASSUME OnConnect PROVE MessagesOK'
    BY <1>6 DEF OnConnect, MessagesOK, stream, callbacks
  <1>7. ASSUME SslHandshakeFails PROVE MessagesOK'
    BY <1>7 DEF SslHandshakeFails, MessagesOK, stream, callbacks, Fail
  <1>8. ASSUME OnSslHandshake PROVE MessagesOK'
    BY <1>8 DEF OnSslHandshake, MessagesOK, stream, callbacks
  <1>9. ASSUME HandshakeFails PROVE MessagesOK'
    BY <1>9 DEF HandshakeFails, MessagesOK, stream, callbacks, Fail
  <1>10. ASSUME OnHandshake PROVE MessagesOK'
    <2>1. outbox' \in Seq(Message)
      BY <1>10, WriteOutType DEF OnHandshake, MessagesOK
    <2> QED
      BY <1>10, <2>1 DEF OnHandshake, MessagesOK
  <1>11. ASSUME OnAborted PROVE MessagesOK'
    BY <1>11 DEF OnAborted, MessagesOK, stream, callbacks, Fail
  <1>12. ASSUME OnWrite PROVE MessagesOK'
    <2>1. Tail(writeQueue) \in Seq(Message)
      BY <1>12, HeadTailProperties DEF OnWrite, MessagesOK, OperationsOK, QueueHasWrite
    <2>2. writeQueue' = Tail(writeQueue)
      BY <1>12 DEF OnWrite
    <2>3. outbox' = outbox \/ (writeQueue' # <<>> /\ WriteOut(Head(writeQueue')))
      BY <1>12 DEF OnWrite
    <2>4. outbox' \in Seq(Message)
      BY <2>1, <2>2, <2>3, WriteOutType DEF MessagesOK
    <2> QED
      BY <1>12, <2>1, <2>2, <2>4 DEF OnWrite, MessagesOK
  <1>13. ASSUME WriteFails PROVE MessagesOK'
    BY <1>13 DEF WriteFails, MessagesOK, stream, callbacks, Fail
  <1>14. ASSUME OnPingTimer PROVE MessagesOK'
    BY <1>14 DEF OnPingTimer, MessagesOK, stream, callbacks
  <1>15. ASSUME OnPing PROVE MessagesOK'
    BY <1>15 DEF OnPing, MessagesOK, stream, callbacks
  <1>16. ASSUME OnClose PROVE MessagesOK'
    BY <1>16 DEF OnClose, MessagesOK, stream, callbacks
  <1>17. ASSUME Lose PROVE MessagesOK'
    <2>1. PICK n \in 0 .. Len(inbox) : inbox' = SubSeq(inbox, 1, n)
      BY <1>17 DEF Lose
    <2>2. inbox' \in Seq(Frame)
      BY <2>1, SubSeqProperties DEF MessagesOK
    <2>3. outbox' \in Seq(Message)
      BY <1>17, EmptySeq DEF Lose
    <2> QED
      BY <1>17, <2>2, <2>3 DEF Lose, MessagesOK
  <1>18. ASSUME NEW answer \in Answers, PeerReceives(answer) PROVE MessagesOK'
    <2>1. Head(outbox) \in Message /\ Tail(outbox) \in Seq(Message)
      BY <1>18, HeadTailProperties DEF PeerReceives, MessagesOK
    <2>2. received' \in Seq(Message)
      BY <1>18, <2>1 DEF PeerReceives, MessagesOK
    <2>3. answer \in Seq(Frame)
      BY AnswersType
    <2>4. inbox' \in Seq(Frame)
      BY <1>18, <2>3, ConcatProperties DEF PeerReceives, MessagesOK
    <2> QED
      BY <1>18, <2>1, <2>2, <2>4 DEF PeerReceives, MessagesOK
  <1>19. ASSUME NEW m \in Message, Send(m) PROVE MessagesOK'
    <2>1. <<m>> \in Seq(Message)
      OBVIOUS
    <2> QED
      BY <1>19, <2>1, SendsType DEF Send, MessagesOK
  <1>20. ASSUME NEW replies \in Replies, OnRead(replies) PROVE MessagesOK'
    <2>1. Tail(inbox) \in Seq(Frame)
      BY <1>20, HeadTailProperties DEF OnRead, MessagesOK
    <2> QED
      BY <1>20, <2>1, SendsType, RepliesType DEF OnRead, MessagesOK
  <1>21. ASSUME NEW frame \in Frame, PeerSends(frame) PROVE MessagesOK'
    BY <1>21 DEF PeerSends, MessagesOK, stream, callbacks
  <1>22. ASSUME NEW op \in {"read", "ping", "close"}, StreamFails(op) PROVE MessagesOK'
    BY <1>22 DEF StreamFails, MessagesOK, stream, callbacks, Fail
  <1>23. CASE UNCHANGED sessionVars
    BY <1>23 DEF sessionVars, MessagesOK, stream, callbacks
  <1> QED
    BY <1>1, <1>2, <1>3, <1>4, <1>5, <1>6, <1>7, <1>8, <1>9, <1>10, <1>11, <1>12, <1>13, <1>14, <1>15, <1>16, <1>17, <1>18, <1>19, <1>20, <1>21, <1>22, <1>23 DEF AnyNext, Callback

-----------------------------------------------------------------------------
(* Control: who may connect, and when. *)

(* Until the TLS handshake begins there is one attempt, and nothing else. *)
FirstAttempt ==
    /\ ~started => resolving = 0 /\ io = {} /\ tls = "fresh"
    /\ tls = "fresh" =>
          /\ ~connected /\ ~wsOpen
          /\ aborted = 0 /\ writes = 0
          /\ io = {} \/ io = {"connect"}
          /\ resolving = 0 \/ (resolving = 1 /\ io = {})

(* The handshake that can succeed is the attempt that began it on this        *)
(* socket, and it is alone.                                                   *)
OneHandshake ==
    sameTls /\ ("tls" \in io \/ "upgrade" \in io) =>
        /\ ~connected /\ ~wsOpen /\ started
        /\ resolving = 0 /\ aborted = 0 /\ writes = 0
        /\ io = {"tls"} \/ io = {"upgrade"}

(* While the session is connected it makes no attempt. *)
ConnectedOnly ==
    connected =>
        /\ resolving = 0 /\ aborted = 0 /\ started
        /\ io \cap Attempts = {}
        /\ "read" \in io
        /\ timer \/ "ping" \in io

(* One write of the message in front. *)
OneWrite ==
    /\ writes \in {0, 1}
    /\ writes = 1 => writeQueue # <<>>
    /\ connected /\ writeQueue # <<>> => writes = 1

(* No step starts a second attempt before the first handshake. *)
LEMMA FirstAttemptStep ==
    ASSUME OperationsOK, FirstAttempt, [AnyNext]_sessionVars
    PROVE  FirstAttempt'
  <1>1. ASSUME Start PROVE FirstAttempt'
    BY <1>1 DEF Start, FirstAttempt, OperationsOK, Attempts, Operations, stream, callbacks
  <1>2. ASSUME Stop PROVE FirstAttempt'
    BY <1>2 DEF Stop, FirstAttempt, OperationsOK, Attempts, Operations, stream, callbacks
  <1>3. ASSUME ResolveFails PROVE FirstAttempt'
    BY <1>3 DEF ResolveFails, FirstAttempt, OperationsOK, Attempts, Operations, stream, callbacks, Fail, Fault
  <1>4. ASSUME OnResolve PROVE FirstAttempt'
    <2>1. CASE tls = "fresh"
      <3>1. resolving = 1 /\ io = {} /\ started
        BY <1>4, <2>1 DEF OnResolve, FirstAttempt, OperationsOK
      <3>2. Cardinality(io) = 0
        BY <3>1, FS_EmptySet
      <3> QED
        BY <1>4, <2>1, <3>1, <3>2 DEF OnResolve, FirstAttempt
    <2>2. CASE tls # "fresh"
      BY <1>4, <2>2 DEF OnResolve, FirstAttempt
    <2> QED
      BY <2>1, <2>2
  <1>5. ASSUME ConnectFails PROVE FirstAttempt'
    BY <1>5 DEF ConnectFails, FirstAttempt, OperationsOK, Attempts, Operations, stream, callbacks, Fail, Fault
  <1>6. ASSUME OnConnect PROVE FirstAttempt'
    BY <1>6 DEF OnConnect, FirstAttempt, OperationsOK, Attempts, Operations, stream, callbacks
  <1>7. ASSUME SslHandshakeFails PROVE FirstAttempt'
    BY <1>7 DEF SslHandshakeFails, FirstAttempt, OperationsOK, Attempts, Operations, stream, callbacks, Fail
  <1>8. ASSUME OnSslHandshake PROVE FirstAttempt'
    BY <1>8 DEF OnSslHandshake, FirstAttempt, OperationsOK, Attempts, Operations, stream, callbacks
  <1>9. ASSUME HandshakeFails PROVE FirstAttempt'
    BY <1>9 DEF HandshakeFails, FirstAttempt, OperationsOK, Attempts, Operations, stream, callbacks, Fail
  <1>10. ASSUME OnHandshake PROVE FirstAttempt'
    BY <1>10 DEF OnHandshake, FirstAttempt, OperationsOK, Attempts, Operations, stream, callbacks
  <1>11. ASSUME OnAborted PROVE FirstAttempt'
    BY <1>11 DEF OnAborted, FirstAttempt, OperationsOK, Attempts, Operations, stream, callbacks, Fail
  <1>12. ASSUME OnWrite PROVE FirstAttempt'
    BY <1>12 DEF OnWrite, FirstAttempt, OperationsOK, Attempts, Operations, stream, callbacks
  <1>13. ASSUME WriteFails PROVE FirstAttempt'
    BY <1>13 DEF WriteFails, FirstAttempt, OperationsOK, Attempts, Operations, stream, callbacks, Fail
  <1>14. ASSUME OnPingTimer PROVE FirstAttempt'
    BY <1>14 DEF OnPingTimer, FirstAttempt, OperationsOK, Attempts, Operations, stream, callbacks
  <1>15. ASSUME OnPing PROVE FirstAttempt'
    BY <1>15 DEF OnPing, FirstAttempt, OperationsOK, Attempts, Operations, stream, callbacks
  <1>16. ASSUME OnClose PROVE FirstAttempt'
    BY <1>16 DEF OnClose, FirstAttempt, OperationsOK, Attempts, Operations, stream, callbacks
  <1>17. ASSUME Lose PROVE FirstAttempt'
    BY <1>17 DEF Lose, FirstAttempt, OperationsOK, Attempts, Operations, stream, callbacks, Fault
  <1>18. ASSUME NEW answer \in Answers, PeerReceives(answer) PROVE FirstAttempt'
    BY <1>18 DEF PeerReceives, FirstAttempt, OperationsOK, Attempts, Operations, stream, callbacks
  <1>19. ASSUME NEW m \in Message, Send(m) PROVE FirstAttempt'
    BY <1>19 DEF Send, FirstAttempt, OperationsOK, Attempts, Operations, stream, callbacks, Sends
  <1>20. ASSUME NEW replies \in Replies, OnRead(replies) PROVE FirstAttempt'
    BY <1>20 DEF OnRead, FirstAttempt, OperationsOK, Attempts, Operations, stream, callbacks, Sends
  <1>21. ASSUME NEW frame \in Frame, PeerSends(frame) PROVE FirstAttempt'
    BY <1>21 DEF PeerSends, FirstAttempt, OperationsOK, Attempts, Operations, stream, callbacks
  <1>22. ASSUME NEW op \in {"read", "ping", "close"}, StreamFails(op) PROVE FirstAttempt'
    BY <1>22 DEF StreamFails, FirstAttempt, OperationsOK, Attempts, Operations, stream, callbacks, Fail
  <1>23. CASE UNCHANGED sessionVars
    BY <1>23 DEF sessionVars, FirstAttempt, OperationsOK, Attempts, Operations, stream, callbacks
  <1> QED
    BY <1>1, <1>2, <1>3, <1>4, <1>5, <1>6, <1>7, <1>8, <1>9, <1>10, <1>11, <1>12, <1>13, <1>14, <1>15, <1>16, <1>17, <1>18, <1>19, <1>20, <1>21, <1>22, <1>23 DEF AnyNext, Callback

(* No step disturbs the handshake that can succeed. *)
LEMMA OneHandshakeStep ==
    ASSUME OperationsOK, FirstAttempt, OneHandshake, [AnyNext]_sessionVars
    PROVE  OneHandshake'
  <1>1. ASSUME Start PROVE OneHandshake'
    BY <1>1 DEF Start, OneHandshake, OperationsOK, FirstAttempt, Attempts, Operations, stream, callbacks
  <1>2. ASSUME Stop PROVE OneHandshake'
    BY <1>2 DEF Stop, OneHandshake, OperationsOK, FirstAttempt, Attempts, Operations, stream, callbacks
  <1>3. ASSUME ResolveFails PROVE OneHandshake'
    BY <1>3 DEF ResolveFails, OneHandshake, OperationsOK, FirstAttempt, Attempts, Operations, stream, callbacks, Fail, Fault
  <1>4. ASSUME OnResolve PROVE OneHandshake'
    BY <1>4 DEF OnResolve, OneHandshake, OperationsOK, FirstAttempt, Attempts, Operations, stream, callbacks
  <1>5. ASSUME ConnectFails PROVE OneHandshake'
    BY <1>5 DEF ConnectFails, OneHandshake, OperationsOK, FirstAttempt, Attempts, Operations, stream, callbacks, Fail, Fault
  <1>6. ASSUME OnConnect PROVE OneHandshake'
    BY <1>6 DEF OnConnect, OneHandshake, OperationsOK, FirstAttempt, Attempts, Operations, stream, callbacks
  <1>7. ASSUME SslHandshakeFails PROVE OneHandshake'
    BY <1>7 DEF SslHandshakeFails, OneHandshake, OperationsOK, FirstAttempt, Attempts, Operations, stream, callbacks, Fail
  <1>8. ASSUME OnSslHandshake PROVE OneHandshake'
    BY <1>8 DEF OnSslHandshake, OneHandshake, OperationsOK, FirstAttempt, Attempts, Operations, stream, callbacks
  <1>9. ASSUME HandshakeFails PROVE OneHandshake'
    BY <1>9 DEF HandshakeFails, OneHandshake, OperationsOK, FirstAttempt, Attempts, Operations, stream, callbacks, Fail
  <1>10. ASSUME OnHandshake PROVE OneHandshake'
    BY <1>10 DEF OnHandshake, OneHandshake, OperationsOK, FirstAttempt, Attempts, Operations, stream, callbacks
  <1>11. ASSUME OnAborted PROVE OneHandshake'
    BY <1>11 DEF OnAborted, OneHandshake, OperationsOK, FirstAttempt, Attempts, Operations, stream, callbacks, Fail
  <1>12. ASSUME OnWrite PROVE OneHandshake'
    BY <1>12 DEF OnWrite, OneHandshake, OperationsOK, FirstAttempt, Attempts, Operations, stream, callbacks
  <1>13. ASSUME WriteFails PROVE OneHandshake'
    BY <1>13 DEF WriteFails, OneHandshake, OperationsOK, FirstAttempt, Attempts, Operations, stream, callbacks, Fail
  <1>14. ASSUME OnPingTimer PROVE OneHandshake'
    BY <1>14 DEF OnPingTimer, OneHandshake, OperationsOK, FirstAttempt, Attempts, Operations, stream, callbacks
  <1>15. ASSUME OnPing PROVE OneHandshake'
    BY <1>15 DEF OnPing, OneHandshake, OperationsOK, FirstAttempt, Attempts, Operations, stream, callbacks
  <1>16. ASSUME OnClose PROVE OneHandshake'
    BY <1>16 DEF OnClose, OneHandshake, OperationsOK, FirstAttempt, Attempts, Operations, stream, callbacks
  <1>17. ASSUME Lose PROVE OneHandshake'
    BY <1>17 DEF Lose, OneHandshake, OperationsOK, FirstAttempt, Attempts, Operations, stream, callbacks, Fault
  <1>18. ASSUME NEW answer \in Answers, PeerReceives(answer) PROVE OneHandshake'
    BY <1>18 DEF PeerReceives, OneHandshake, OperationsOK, FirstAttempt, Attempts, Operations, stream, callbacks
  <1>19. ASSUME NEW m \in Message, Send(m) PROVE OneHandshake'
    BY <1>19 DEF Send, OneHandshake, OperationsOK, FirstAttempt, Attempts, Operations, stream, callbacks, Sends
  <1>20. ASSUME NEW replies \in Replies, OnRead(replies) PROVE OneHandshake'
    BY <1>20 DEF OnRead, OneHandshake, OperationsOK, FirstAttempt, Attempts, Operations, stream, callbacks, Sends
  <1>21. ASSUME NEW frame \in Frame, PeerSends(frame) PROVE OneHandshake'
    BY <1>21 DEF PeerSends, OneHandshake, OperationsOK, FirstAttempt, Attempts, Operations, stream, callbacks
  <1>22. ASSUME NEW op \in {"read", "ping", "close"}, StreamFails(op) PROVE OneHandshake'
    BY <1>22 DEF StreamFails, OneHandshake, OperationsOK, FirstAttempt, Attempts, Operations, stream, callbacks, Fail
  <1>23. CASE UNCHANGED sessionVars
    BY <1>23 DEF sessionVars, OneHandshake, OperationsOK, FirstAttempt, Attempts, Operations, stream, callbacks
  <1> QED
    BY <1>1, <1>2, <1>3, <1>4, <1>5, <1>6, <1>7, <1>8, <1>9, <1>10, <1>11, <1>12, <1>13, <1>14, <1>15, <1>16, <1>17, <1>18, <1>19, <1>20, <1>21, <1>22, <1>23 DEF AnyNext, Callback

(* No step starts an attempt, or ends the reading, of a connected session. *)
LEMMA ConnectedOnlyStep ==
    ASSUME OperationsOK, OneHandshake, ConnectedOnly, [AnyNext]_sessionVars
    PROVE  ConnectedOnly'
  <1>1. ASSUME Start PROVE ConnectedOnly'
    BY <1>1 DEF Start, ConnectedOnly, OperationsOK, OneHandshake, Attempts, Operations, stream, callbacks
  <1>2. ASSUME Stop PROVE ConnectedOnly'
    BY <1>2 DEF Stop, ConnectedOnly, OperationsOK, OneHandshake, Attempts, Operations, stream, callbacks
  <1>3. ASSUME ResolveFails PROVE ConnectedOnly'
    BY <1>3 DEF ResolveFails, ConnectedOnly, OperationsOK, OneHandshake, Attempts, Operations, stream, callbacks, Fail, Fault
  <1>4. ASSUME OnResolve PROVE ConnectedOnly'
    BY <1>4 DEF OnResolve, ConnectedOnly, OperationsOK, OneHandshake, Attempts, Operations, stream, callbacks
  <1>5. ASSUME ConnectFails PROVE ConnectedOnly'
    BY <1>5 DEF ConnectFails, ConnectedOnly, OperationsOK, OneHandshake, Attempts, Operations, stream, callbacks, Fail, Fault
  <1>6. ASSUME OnConnect PROVE ConnectedOnly'
    BY <1>6 DEF OnConnect, ConnectedOnly, OperationsOK, OneHandshake, Attempts, Operations, stream, callbacks
  <1>7. ASSUME SslHandshakeFails PROVE ConnectedOnly'
    BY <1>7 DEF SslHandshakeFails, ConnectedOnly, OperationsOK, OneHandshake, Attempts, Operations, stream, callbacks, Fail
  <1>8. ASSUME OnSslHandshake PROVE ConnectedOnly'
    BY <1>8 DEF OnSslHandshake, ConnectedOnly, OperationsOK, OneHandshake, Attempts, Operations, stream, callbacks
  <1>9. ASSUME HandshakeFails PROVE ConnectedOnly'
    BY <1>9 DEF HandshakeFails, ConnectedOnly, OperationsOK, OneHandshake, Attempts, Operations, stream, callbacks, Fail
  <1>10. ASSUME OnHandshake PROVE ConnectedOnly'
    BY <1>10 DEF OnHandshake, ConnectedOnly, OperationsOK, OneHandshake, Attempts, Operations, stream, callbacks
  <1>11. ASSUME OnAborted PROVE ConnectedOnly'
    BY <1>11 DEF OnAborted, ConnectedOnly, OperationsOK, OneHandshake, Attempts, Operations, stream, callbacks, Fail
  <1>12. ASSUME OnWrite PROVE ConnectedOnly'
    BY <1>12 DEF OnWrite, ConnectedOnly, OperationsOK, OneHandshake, Attempts, Operations, stream, callbacks
  <1>13. ASSUME WriteFails PROVE ConnectedOnly'
    BY <1>13 DEF WriteFails, ConnectedOnly, OperationsOK, OneHandshake, Attempts, Operations, stream, callbacks, Fail
  <1>14. ASSUME OnPingTimer PROVE ConnectedOnly'
    BY <1>14 DEF OnPingTimer, ConnectedOnly, OperationsOK, OneHandshake, Attempts, Operations, stream, callbacks
  <1>15. ASSUME OnPing PROVE ConnectedOnly'
    BY <1>15 DEF OnPing, ConnectedOnly, OperationsOK, OneHandshake, Attempts, Operations, stream, callbacks
  <1>16. ASSUME OnClose PROVE ConnectedOnly'
    BY <1>16 DEF OnClose, ConnectedOnly, OperationsOK, OneHandshake, Attempts, Operations, stream, callbacks
  <1>17. ASSUME Lose PROVE ConnectedOnly'
    BY <1>17 DEF Lose, ConnectedOnly, OperationsOK, OneHandshake, Attempts, Operations, stream, callbacks, Fault
  <1>18. ASSUME NEW answer \in Answers, PeerReceives(answer) PROVE ConnectedOnly'
    BY <1>18 DEF PeerReceives, ConnectedOnly, OperationsOK, OneHandshake, Attempts, Operations, stream, callbacks
  <1>19. ASSUME NEW m \in Message, Send(m) PROVE ConnectedOnly'
    BY <1>19 DEF Send, ConnectedOnly, OperationsOK, OneHandshake, Attempts, Operations, stream, callbacks, Sends
  <1>20. ASSUME NEW replies \in Replies, OnRead(replies) PROVE ConnectedOnly'
    BY <1>20 DEF OnRead, ConnectedOnly, OperationsOK, OneHandshake, Attempts, Operations, stream, callbacks, Sends
  <1>21. ASSUME NEW frame \in Frame, PeerSends(frame) PROVE ConnectedOnly'
    BY <1>21 DEF PeerSends, ConnectedOnly, OperationsOK, OneHandshake, Attempts, Operations, stream, callbacks
  <1>22. ASSUME NEW op \in {"read", "ping", "close"}, StreamFails(op) PROVE ConnectedOnly'
    BY <1>22 DEF StreamFails, ConnectedOnly, OperationsOK, OneHandshake, Attempts, Operations, stream, callbacks, Fail
  <1>23. CASE UNCHANGED sessionVars
    BY <1>23 DEF sessionVars, ConnectedOnly, OperationsOK, OneHandshake, Attempts, Operations, stream, callbacks
  <1> QED
    BY <1>1, <1>2, <1>3, <1>4, <1>5, <1>6, <1>7, <1>8, <1>9, <1>10, <1>11, <1>12, <1>13, <1>14, <1>15, <1>16, <1>17, <1>18, <1>19, <1>20, <1>21, <1>22, <1>23 DEF AnyNext, Callback

(* No step starts a second write or forgets the queue. *)
LEMMA OneWriteStep ==
    ASSUME OperationsOK, MessagesOK, OneHandshake, ConnectedOnly, OneWrite, [AnyNext]_sessionVars
    PROVE  OneWrite'
  <1>1. ASSUME Start PROVE OneWrite'
    BY <1>1 DEF Start, OneWrite, OperationsOK, OneHandshake, Attempts, Operations, stream, callbacks
  <1>2. ASSUME Stop PROVE OneWrite'
    BY <1>2 DEF Stop, OneWrite, OperationsOK, OneHandshake, Attempts, Operations, stream, callbacks
  <1>3. ASSUME ResolveFails PROVE OneWrite'
    BY <1>3 DEF ResolveFails, OneWrite, OperationsOK, OneHandshake, Attempts, Operations, stream, callbacks, Fail, Fault
  <1>4. ASSUME OnResolve PROVE OneWrite'
    <2>1. ~connected
      BY <1>4 DEF OnResolve, ConnectedOnly, OperationsOK
    <2> QED
      BY <1>4, <2>1 DEF OnResolve, OneWrite
  <1>5. ASSUME ConnectFails PROVE OneWrite'
    BY <1>5 DEF ConnectFails, OneWrite, OperationsOK, OneHandshake, Attempts, Operations, stream, callbacks, Fail, Fault
  <1>6. ASSUME OnConnect PROVE OneWrite'
    BY <1>6 DEF OnConnect, OneWrite, OperationsOK, OneHandshake, Attempts, Operations, stream, callbacks
  <1>7. ASSUME SslHandshakeFails PROVE OneWrite'
    BY <1>7 DEF SslHandshakeFails, OneWrite, OperationsOK, OneHandshake, Attempts, Operations, stream, callbacks, Fail
  <1>8. ASSUME OnSslHandshake PROVE OneWrite'
    BY <1>8 DEF OnSslHandshake, OneWrite, OperationsOK, OneHandshake, Attempts, Operations, stream, callbacks
  <1>9. ASSUME HandshakeFails PROVE OneWrite'
    BY <1>9 DEF HandshakeFails, OneWrite, OperationsOK, OneHandshake, Attempts, Operations, stream, callbacks, Fail
  <1>10. ASSUME OnHandshake PROVE OneWrite'
    BY <1>10 DEF OnHandshake, OneWrite, OperationsOK, OneHandshake, Attempts, Operations, stream, callbacks
  <1>11. ASSUME OnAborted PROVE OneWrite'
    BY <1>11 DEF OnAborted, OneWrite, OperationsOK, OneHandshake, Attempts, Operations, stream, callbacks, Fail
  <1>12. ASSUME OnWrite PROVE OneWrite'
    BY <1>12 DEF OnWrite, OneWrite, OperationsOK, OneHandshake, Attempts, Operations, stream, callbacks
  <1>13. ASSUME WriteFails PROVE OneWrite'
    BY <1>13 DEF WriteFails, OneWrite, OperationsOK, OneHandshake, Attempts, Operations, stream, callbacks, Fail
  <1>14. ASSUME OnPingTimer PROVE OneWrite'
    BY <1>14 DEF OnPingTimer, OneWrite, OperationsOK, OneHandshake, Attempts, Operations, stream, callbacks
  <1>15. ASSUME OnPing PROVE OneWrite'
    BY <1>15 DEF OnPing, OneWrite, OperationsOK, OneHandshake, Attempts, Operations, stream, callbacks
  <1>16. ASSUME OnClose PROVE OneWrite'
    BY <1>16 DEF OnClose, OneWrite, OperationsOK, OneHandshake, Attempts, Operations, stream, callbacks
  <1>17. ASSUME Lose PROVE OneWrite'
    BY <1>17 DEF Lose, OneWrite, OperationsOK, OneHandshake, Attempts, Operations, stream, callbacks, Fault
  <1>18. ASSUME NEW answer \in Answers, PeerReceives(answer) PROVE OneWrite'
    BY <1>18 DEF PeerReceives, OneWrite, OperationsOK, OneHandshake, Attempts, Operations, stream, callbacks
  <1>19. ASSUME NEW m \in Message, Send(m) PROVE OneWrite'
    BY <1>19 DEF Send, OneWrite, OperationsOK, OneHandshake, Attempts, Operations, stream, callbacks, Sends
  <1>20. ASSUME NEW replies \in Replies, OnRead(replies) PROVE OneWrite'
    BY <1>20 DEF OnRead, OneWrite, OperationsOK, OneHandshake, Attempts, Operations, stream, callbacks, Sends
  <1>21. ASSUME NEW frame \in Frame, PeerSends(frame) PROVE OneWrite'
    BY <1>21 DEF PeerSends, OneWrite, OperationsOK, OneHandshake, Attempts, Operations, stream, callbacks
  <1>22. ASSUME NEW op \in {"read", "ping", "close"}, StreamFails(op) PROVE OneWrite'
    BY <1>22 DEF StreamFails, OneWrite, OperationsOK, OneHandshake, Attempts, Operations, stream, callbacks, Fail
  <1>23. CASE UNCHANGED sessionVars
    BY <1>23 DEF sessionVars, OneWrite, OperationsOK, OneHandshake, Attempts, Operations, stream, callbacks
  <1> QED
    BY <1>1, <1>2, <1>3, <1>4, <1>5, <1>6, <1>7, <1>8, <1>9, <1>10, <1>11, <1>12, <1>13, <1>14, <1>15, <1>16, <1>17, <1>18, <1>19, <1>20, <1>21, <1>22, <1>23 DEF AnyNext, Callback

(* No step gives up. *)
LEMMA KeepsTryingStep ==
    ASSUME OperationsOK, FirstAttempt, KeepsTrying, [AnyNext]_sessionVars
    PROVE  KeepsTrying'
  <1>1. ASSUME Start PROVE KeepsTrying'
    BY <1>1 DEF Start, KeepsTrying, OperationsOK, FirstAttempt, Attempts, Operations, stream, callbacks
  <1>2. ASSUME Stop PROVE KeepsTrying'
    BY <1>2 DEF Stop, KeepsTrying, OperationsOK, FirstAttempt, Attempts, Operations, stream, callbacks
  <1>3. ASSUME ResolveFails PROVE KeepsTrying'
    BY <1>3 DEF ResolveFails, KeepsTrying, OperationsOK, FirstAttempt, Attempts, Operations, stream, callbacks, Fail, Fault
  <1>4. ASSUME OnResolve PROVE KeepsTrying'
    BY <1>4 DEF OnResolve, KeepsTrying, OperationsOK, FirstAttempt, Attempts, Operations, stream, callbacks
  <1>5. ASSUME ConnectFails PROVE KeepsTrying'
    BY <1>5 DEF ConnectFails, KeepsTrying, OperationsOK, FirstAttempt, Attempts, Operations, stream, callbacks, Fail, Fault
  <1>6. ASSUME OnConnect PROVE KeepsTrying'
    BY <1>6 DEF OnConnect, KeepsTrying, OperationsOK, FirstAttempt, Attempts, Operations, stream, callbacks
  <1>7. ASSUME SslHandshakeFails PROVE KeepsTrying'
    BY <1>7 DEF SslHandshakeFails, KeepsTrying, OperationsOK, FirstAttempt, Attempts, Operations, stream, callbacks, Fail
  <1>8. ASSUME OnSslHandshake PROVE KeepsTrying'
    BY <1>8 DEF OnSslHandshake, KeepsTrying, OperationsOK, FirstAttempt, Attempts, Operations, stream, callbacks
  <1>9. ASSUME HandshakeFails PROVE KeepsTrying'
    BY <1>9 DEF HandshakeFails, KeepsTrying, OperationsOK, FirstAttempt, Attempts, Operations, stream, callbacks, Fail
  <1>10. ASSUME OnHandshake PROVE KeepsTrying'
    BY <1>10 DEF OnHandshake, KeepsTrying, OperationsOK, FirstAttempt, Attempts, Operations, stream, callbacks
  <1>11. ASSUME OnAborted PROVE KeepsTrying'
    BY <1>11 DEF OnAborted, KeepsTrying, OperationsOK, FirstAttempt, Attempts, Operations, stream, callbacks, Fail
  <1>12. ASSUME OnWrite PROVE KeepsTrying'
    BY <1>12 DEF OnWrite, KeepsTrying, OperationsOK, FirstAttempt, Attempts, Operations, stream, callbacks
  <1>13. ASSUME WriteFails PROVE KeepsTrying'
    BY <1>13 DEF WriteFails, KeepsTrying, OperationsOK, FirstAttempt, Attempts, Operations, stream, callbacks, Fail
  <1>14. ASSUME OnPingTimer PROVE KeepsTrying'
    BY <1>14 DEF OnPingTimer, KeepsTrying, OperationsOK, FirstAttempt, Attempts, Operations, stream, callbacks
  <1>15. ASSUME OnPing PROVE KeepsTrying'
    BY <1>15 DEF OnPing, KeepsTrying, OperationsOK, FirstAttempt, Attempts, Operations, stream, callbacks
  <1>16. ASSUME OnClose PROVE KeepsTrying'
    BY <1>16 DEF OnClose, KeepsTrying, OperationsOK, FirstAttempt, Attempts, Operations, stream, callbacks
  <1>17. ASSUME Lose PROVE KeepsTrying'
    BY <1>17 DEF Lose, KeepsTrying, OperationsOK, FirstAttempt, Attempts, Operations, stream, callbacks, Fault
  <1>18. ASSUME NEW answer \in Answers, PeerReceives(answer) PROVE KeepsTrying'
    BY <1>18 DEF PeerReceives, KeepsTrying, OperationsOK, FirstAttempt, Attempts, Operations, stream, callbacks
  <1>19. ASSUME NEW m \in Message, Send(m) PROVE KeepsTrying'
    BY <1>19 DEF Send, KeepsTrying, OperationsOK, FirstAttempt, Attempts, Operations, stream, callbacks, Sends
  <1>20. ASSUME NEW replies \in Replies, OnRead(replies) PROVE KeepsTrying'
    BY <1>20 DEF OnRead, KeepsTrying, OperationsOK, FirstAttempt, Attempts, Operations, stream, callbacks, Sends
  <1>21. ASSUME NEW frame \in Frame, PeerSends(frame) PROVE KeepsTrying'
    BY <1>21 DEF PeerSends, KeepsTrying, OperationsOK, FirstAttempt, Attempts, Operations, stream, callbacks
  <1>22. ASSUME NEW op \in {"read", "ping", "close"}, StreamFails(op) PROVE KeepsTrying'
    BY <1>22 DEF StreamFails, KeepsTrying, OperationsOK, FirstAttempt, Attempts, Operations, stream, callbacks, Fail
  <1>23. CASE UNCHANGED sessionVars
    BY <1>23 DEF sessionVars, KeepsTrying, OperationsOK, FirstAttempt, Attempts, Operations, stream, callbacks
  <1> QED
    BY <1>1, <1>2, <1>3, <1>4, <1>5, <1>6, <1>7, <1>8, <1>9, <1>10, <1>11, <1>12, <1>13, <1>14, <1>15, <1>16, <1>17, <1>18, <1>19, <1>20, <1>21, <1>22, <1>23 DEF AnyNext, Callback

(* An attempt to connect waits for no write, and no connection is up meanwhile. *)
AttemptAlone == io \cap Attempts # {} => writes = 0 /\ ~connected

(* While the stream is open, and while it is being closed, nobody connects. *)
NoneWhileOpen ==
    /\ wsOpen => resolving = 0 /\ aborted = 0 /\ io \cap Attempts = {}
    /\ "close" \in io =>
          ~shouldReconnect /\ resolving = 0 /\ aborted = 0 /\ io \cap Attempts = {}

(* No step writes during an attempt. *)
LEMMA AttemptAloneStep ==
    ASSUME OperationsOK, FirstAttempt, OneHandshake, ConnectedOnly, AttemptAlone, [AnyNext]_sessionVars
    PROVE  AttemptAlone'
  <1>1. ASSUME Start PROVE AttemptAlone'
    BY <1>1 DEF Start, AttemptAlone, FirstAttempt, OneHandshake, ConnectedOnly, OperationsOK, Attempts, Operations, stream, callbacks
  <1>2. ASSUME Stop PROVE AttemptAlone'
    BY <1>2 DEF Stop, AttemptAlone, FirstAttempt, OneHandshake, ConnectedOnly, OperationsOK, Attempts, Operations, stream, callbacks
  <1>3. ASSUME ResolveFails PROVE AttemptAlone'
    BY <1>3 DEF ResolveFails, AttemptAlone, FirstAttempt, OneHandshake, ConnectedOnly, OperationsOK, Attempts, Operations, stream, callbacks, Fail, Fault
  <1>4. ASSUME OnResolve PROVE AttemptAlone'
    BY <1>4 DEF OnResolve, AttemptAlone, FirstAttempt, OneHandshake, ConnectedOnly, OperationsOK, Attempts, Operations, stream, callbacks
  <1>5. ASSUME ConnectFails PROVE AttemptAlone'
    BY <1>5 DEF ConnectFails, AttemptAlone, FirstAttempt, OneHandshake, ConnectedOnly, OperationsOK, Attempts, Operations, stream, callbacks, Fail, Fault
  <1>6. ASSUME OnConnect PROVE AttemptAlone'
    BY <1>6 DEF OnConnect, AttemptAlone, FirstAttempt, OneHandshake, ConnectedOnly, OperationsOK, Attempts, Operations, stream, callbacks
  <1>7. ASSUME SslHandshakeFails PROVE AttemptAlone'
    BY <1>7 DEF SslHandshakeFails, AttemptAlone, FirstAttempt, OneHandshake, ConnectedOnly, OperationsOK, Attempts, Operations, stream, callbacks, Fail
  <1>8. ASSUME OnSslHandshake PROVE AttemptAlone'
    BY <1>8 DEF OnSslHandshake, AttemptAlone, FirstAttempt, OneHandshake, ConnectedOnly, OperationsOK, Attempts, Operations, stream, callbacks
  <1>9. ASSUME HandshakeFails PROVE AttemptAlone'
    BY <1>9 DEF HandshakeFails, AttemptAlone, FirstAttempt, OneHandshake, ConnectedOnly, OperationsOK, Attempts, Operations, stream, callbacks, Fail
  <1>10. ASSUME OnHandshake PROVE AttemptAlone'
    BY <1>10 DEF OnHandshake, AttemptAlone, FirstAttempt, OneHandshake, ConnectedOnly, OperationsOK, Attempts, Operations, stream, callbacks
  <1>11. ASSUME OnAborted PROVE AttemptAlone'
    BY <1>11 DEF OnAborted, AttemptAlone, FirstAttempt, OneHandshake, ConnectedOnly, OperationsOK, Attempts, Operations, stream, callbacks, Fail
  <1>12. ASSUME OnWrite PROVE AttemptAlone'
    BY <1>12 DEF OnWrite, AttemptAlone, FirstAttempt, OneHandshake, ConnectedOnly, OperationsOK, Attempts, Operations, stream, callbacks
  <1>13. ASSUME WriteFails PROVE AttemptAlone'
    BY <1>13 DEF WriteFails, AttemptAlone, FirstAttempt, OneHandshake, ConnectedOnly, OperationsOK, Attempts, Operations, stream, callbacks, Fail
  <1>14. ASSUME OnPingTimer PROVE AttemptAlone'
    BY <1>14 DEF OnPingTimer, AttemptAlone, FirstAttempt, OneHandshake, ConnectedOnly, OperationsOK, Attempts, Operations, stream, callbacks
  <1>15. ASSUME OnPing PROVE AttemptAlone'
    BY <1>15 DEF OnPing, AttemptAlone, FirstAttempt, OneHandshake, ConnectedOnly, OperationsOK, Attempts, Operations, stream, callbacks
  <1>16. ASSUME OnClose PROVE AttemptAlone'
    BY <1>16 DEF OnClose, AttemptAlone, FirstAttempt, OneHandshake, ConnectedOnly, OperationsOK, Attempts, Operations, stream, callbacks
  <1>17. ASSUME Lose PROVE AttemptAlone'
    BY <1>17 DEF Lose, AttemptAlone, FirstAttempt, OneHandshake, ConnectedOnly, OperationsOK, Attempts, Operations, stream, callbacks, Fault
  <1>18. ASSUME NEW answer \in Answers, PeerReceives(answer) PROVE AttemptAlone'
    BY <1>18 DEF PeerReceives, AttemptAlone, FirstAttempt, OneHandshake, ConnectedOnly, OperationsOK, Attempts, Operations, stream, callbacks
  <1>19. ASSUME NEW m \in Message, Send(m) PROVE AttemptAlone'
    BY <1>19 DEF Send, AttemptAlone, FirstAttempt, OneHandshake, ConnectedOnly, OperationsOK, Attempts, Operations, stream, callbacks, Sends
  <1>20. ASSUME NEW replies \in Replies, OnRead(replies) PROVE AttemptAlone'
    BY <1>20 DEF OnRead, AttemptAlone, FirstAttempt, OneHandshake, ConnectedOnly, OperationsOK, Attempts, Operations, stream, callbacks, Sends
  <1>21. ASSUME NEW frame \in Frame, PeerSends(frame) PROVE AttemptAlone'
    BY <1>21 DEF PeerSends, AttemptAlone, FirstAttempt, OneHandshake, ConnectedOnly, OperationsOK, Attempts, Operations, stream, callbacks
  <1>22. ASSUME NEW op \in {"read", "ping", "close"}, StreamFails(op) PROVE AttemptAlone'
    BY <1>22 DEF StreamFails, AttemptAlone, FirstAttempt, OneHandshake, ConnectedOnly, OperationsOK, Attempts, Operations, stream, callbacks, Fail
  <1>23. CASE UNCHANGED sessionVars
    BY <1>23 DEF sessionVars, AttemptAlone, FirstAttempt, OneHandshake, ConnectedOnly, OperationsOK, Attempts, Operations, stream, callbacks
  <1> QED
    BY <1>1, <1>2, <1>3, <1>4, <1>5, <1>6, <1>7, <1>8, <1>9, <1>10, <1>11, <1>12, <1>13, <1>14, <1>15, <1>16, <1>17, <1>18, <1>19, <1>20, <1>21, <1>22, <1>23 DEF AnyNext, Callback

(* No step connects while the stream is open. *)
LEMMA NoneWhileOpenStep ==
    ASSUME OperationsOK, FirstAttempt, OneHandshake, NoneWhileOpen, [AnyNext]_sessionVars
    PROVE  NoneWhileOpen'
  <1>1. ASSUME Start PROVE NoneWhileOpen'
    BY <1>1 DEF Start, NoneWhileOpen, FirstAttempt, OneHandshake, OperationsOK, Attempts, Operations, stream, callbacks
  <1>2. ASSUME Stop PROVE NoneWhileOpen'
    BY <1>2 DEF Stop, NoneWhileOpen, FirstAttempt, OneHandshake, OperationsOK, Attempts, Operations, stream, callbacks
  <1>3. ASSUME ResolveFails PROVE NoneWhileOpen'
    BY <1>3 DEF ResolveFails, NoneWhileOpen, FirstAttempt, OneHandshake, OperationsOK, Attempts, Operations, stream, callbacks, Fail, Fault
  <1>4. ASSUME OnResolve PROVE NoneWhileOpen'
    BY <1>4 DEF OnResolve, NoneWhileOpen, FirstAttempt, OneHandshake, OperationsOK, Attempts, Operations, stream, callbacks
  <1>5. ASSUME ConnectFails PROVE NoneWhileOpen'
    BY <1>5 DEF ConnectFails, NoneWhileOpen, FirstAttempt, OneHandshake, OperationsOK, Attempts, Operations, stream, callbacks, Fail, Fault
  <1>6. ASSUME OnConnect PROVE NoneWhileOpen'
    BY <1>6 DEF OnConnect, NoneWhileOpen, FirstAttempt, OneHandshake, OperationsOK, Attempts, Operations, stream, callbacks
  <1>7. ASSUME SslHandshakeFails PROVE NoneWhileOpen'
    BY <1>7 DEF SslHandshakeFails, NoneWhileOpen, FirstAttempt, OneHandshake, OperationsOK, Attempts, Operations, stream, callbacks, Fail
  <1>8. ASSUME OnSslHandshake PROVE NoneWhileOpen'
    BY <1>8 DEF OnSslHandshake, NoneWhileOpen, FirstAttempt, OneHandshake, OperationsOK, Attempts, Operations, stream, callbacks
  <1>9. ASSUME HandshakeFails PROVE NoneWhileOpen'
    BY <1>9 DEF HandshakeFails, NoneWhileOpen, FirstAttempt, OneHandshake, OperationsOK, Attempts, Operations, stream, callbacks, Fail
  <1>10. ASSUME OnHandshake PROVE NoneWhileOpen'
    BY <1>10 DEF OnHandshake, NoneWhileOpen, FirstAttempt, OneHandshake, OperationsOK, Attempts, Operations, stream, callbacks
  <1>11. ASSUME OnAborted PROVE NoneWhileOpen'
    BY <1>11 DEF OnAborted, NoneWhileOpen, FirstAttempt, OneHandshake, OperationsOK, Attempts, Operations, stream, callbacks, Fail
  <1>12. ASSUME OnWrite PROVE NoneWhileOpen'
    BY <1>12 DEF OnWrite, NoneWhileOpen, FirstAttempt, OneHandshake, OperationsOK, Attempts, Operations, stream, callbacks
  <1>13. ASSUME WriteFails PROVE NoneWhileOpen'
    BY <1>13 DEF WriteFails, NoneWhileOpen, FirstAttempt, OneHandshake, OperationsOK, Attempts, Operations, stream, callbacks, Fail
  <1>14. ASSUME OnPingTimer PROVE NoneWhileOpen'
    BY <1>14 DEF OnPingTimer, NoneWhileOpen, FirstAttempt, OneHandshake, OperationsOK, Attempts, Operations, stream, callbacks
  <1>15. ASSUME OnPing PROVE NoneWhileOpen'
    BY <1>15 DEF OnPing, NoneWhileOpen, FirstAttempt, OneHandshake, OperationsOK, Attempts, Operations, stream, callbacks
  <1>16. ASSUME OnClose PROVE NoneWhileOpen'
    BY <1>16 DEF OnClose, NoneWhileOpen, FirstAttempt, OneHandshake, OperationsOK, Attempts, Operations, stream, callbacks
  <1>17. ASSUME Lose PROVE NoneWhileOpen'
    BY <1>17 DEF Lose, NoneWhileOpen, FirstAttempt, OneHandshake, OperationsOK, Attempts, Operations, stream, callbacks, Fault
  <1>18. ASSUME NEW answer \in Answers, PeerReceives(answer) PROVE NoneWhileOpen'
    BY <1>18 DEF PeerReceives, NoneWhileOpen, FirstAttempt, OneHandshake, OperationsOK, Attempts, Operations, stream, callbacks
  <1>19. ASSUME NEW m \in Message, Send(m) PROVE NoneWhileOpen'
    BY <1>19 DEF Send, NoneWhileOpen, FirstAttempt, OneHandshake, OperationsOK, Attempts, Operations, stream, callbacks, Sends
  <1>20. ASSUME NEW replies \in Replies, OnRead(replies) PROVE NoneWhileOpen'
    BY <1>20 DEF OnRead, NoneWhileOpen, FirstAttempt, OneHandshake, OperationsOK, Attempts, Operations, stream, callbacks, Sends
  <1>21. ASSUME NEW frame \in Frame, PeerSends(frame) PROVE NoneWhileOpen'
    BY <1>21 DEF PeerSends, NoneWhileOpen, FirstAttempt, OneHandshake, OperationsOK, Attempts, Operations, stream, callbacks
  <1>22. ASSUME NEW op \in {"read", "ping", "close"}, StreamFails(op) PROVE NoneWhileOpen'
    BY <1>22 DEF StreamFails, NoneWhileOpen, FirstAttempt, OneHandshake, OperationsOK, Attempts, Operations, stream, callbacks, Fail
  <1>23. CASE UNCHANGED sessionVars
    BY <1>23 DEF sessionVars, NoneWhileOpen, FirstAttempt, OneHandshake, OperationsOK, Attempts, Operations, stream, callbacks
  <1> QED
    BY <1>1, <1>2, <1>3, <1>4, <1>5, <1>6, <1>7, <1>8, <1>9, <1>10, <1>11, <1>12, <1>13, <1>14, <1>15, <1>16, <1>17, <1>18, <1>19, <1>20, <1>21, <1>22, <1>23 DEF AnyNext, Callback

-----------------------------------------------------------------------------
(* How many: the operations outstanding, counted one by one. *)

One(S, op) == IF op \in S THEN 1 ELSE 0

(* Those that fail() may come from, but for the close. *)
OneByOne(S) ==
    One(S, "connect") + One(S, "tls") + One(S, "upgrade") + One(S, "read") + One(S, "ping")

(* An element counts one. *)
LEMMA CountOne ==
    ASSUME NEW S, IsFiniteSet(S), NEW op
    PROVE  /\ IsFiniteSet(S \ {op})
           /\ Cardinality(S) = Cardinality(S \ {op}) + One(S, op)
  <1>1. Cardinality(S) \in Nat
    BY FS_CardinalityType
  <1>2. CASE op \in S
    BY <1>1, <1>2, FS_RemoveElement DEF One
  <1>3. CASE op \notin S
    <2>1. S \ {op} = S
      BY <1>3
    <2> QED
      BY <1>1, <1>3, <2>1 DEF One
  <1> QED
    BY <1>2, <1>3

(* The operations counted one by one. *)
LEMMA CountOperations ==
    ASSUME NEW S, S \subseteq Operations, IsFiniteSet(S)
    PROVE  Cardinality(S) = OneByOne(S) + One(S, "close")
  <1> DEFINE S1 == S \ {"connect"}
             S2 == S1 \ {"tls"}
             S3 == S2 \ {"upgrade"}
             S4 == S3 \ {"read"}
             S5 == S4 \ {"ping"}
             S6 == S5 \ {"close"}
  <1>1. IsFiniteSet(S1) /\ Cardinality(S) = Cardinality(S1) + One(S, "connect")
    BY CountOne
  <1>2. IsFiniteSet(S2) /\ Cardinality(S1) = Cardinality(S2) + One(S1, "tls")
    BY <1>1, CountOne
  <1>3. IsFiniteSet(S3) /\ Cardinality(S2) = Cardinality(S3) + One(S2, "upgrade")
    BY <1>2, CountOne
  <1>4. IsFiniteSet(S4) /\ Cardinality(S3) = Cardinality(S4) + One(S3, "read")
    BY <1>3, CountOne
  <1>5. IsFiniteSet(S5) /\ Cardinality(S4) = Cardinality(S5) + One(S4, "ping")
    BY <1>4, CountOne
  <1>6. IsFiniteSet(S6) /\ Cardinality(S5) = Cardinality(S6) + One(S5, "close")
    BY <1>5, CountOne
  <1>7. S6 = {}
    BY DEF Operations, Attempts
  <1>8. Cardinality(S6) = 0
    BY <1>7, FS_EmptySet
  <1>9. /\ One(S1, "tls") = One(S, "tls") /\ One(S2, "upgrade") = One(S, "upgrade")
        /\ One(S3, "read") = One(S, "read") /\ One(S4, "ping") = One(S, "ping")
        /\ One(S5, "close") = One(S, "close")
    BY DEF One
  <1>10. /\ One(S, "connect") \in Nat /\ One(S, "tls") \in Nat /\ One(S, "upgrade") \in Nat
         /\ One(S, "read") \in Nat /\ One(S, "ping") \in Nat /\ One(S, "close") \in Nat
    BY DEF One
  <1> HIDE DEF S1, S2, S3, S4, S5, S6
  <1> QED
    BY <1>1, <1>2, <1>3, <1>4, <1>5, <1>6, <1>8, <1>9, <1>10 DEF OneByOne

(* FewAttempts without cardinalities. *)
FewOutstanding == resolving + aborted + OneByOne(io) + writes <= 3

(* The two say the same. *)
LEMMA FewIsFew == ASSUME OperationsOK PROVE FewOutstanding <=> FewAttempts
  <1> DEFINE S == io \cap (Attempts \cup {"read", "ping"})
  <1>1. IsFiniteSet(S) /\ S \subseteq Operations
    <2>1. IsFiniteSet(io)
      BY FiniteIo DEF OperationsOK
    <2> QED
      BY <2>1, FS_Subset DEF Operations
  <1>2. Cardinality(S) = OneByOne(S) + One(S, "close")
    BY <1>1, CountOperations
  <1>3. OneByOne(S) = OneByOne(io)
    BY DEF OneByOne, One, Attempts
  <1>4. One(S, "close") = 0
    BY DEF One, Attempts
  <1>5. OneByOne(io) \in Nat
    BY DEF OneByOne, One
  <1> QED
    BY <1>2, <1>3, <1>4, <1>5 DEF FewOutstanding, FewAttempts, OperationsOK

(* No step adds to three. *)
LEMMA FewStep ==
    ASSUME OperationsOK, FirstAttempt, OneHandshake, ConnectedOnly, OneWrite,
           NoneWhileOpen, FewOutstanding, [AnyNext]_sessionVars
    PROVE  FewOutstanding'
  <1>1. ASSUME Start PROVE FewOutstanding'
    BY <1>1 DEF Start, FewOutstanding, OneByOne, One, FirstAttempt, OneHandshake, ConnectedOnly, OneWrite, OperationsOK, Attempts, Operations, stream, callbacks
  <1>2. ASSUME Stop PROVE FewOutstanding'
    BY <1>2 DEF Stop, FewOutstanding, OneByOne, One, FirstAttempt, OneHandshake, ConnectedOnly, OneWrite, OperationsOK, Attempts, Operations, stream, callbacks
  <1>3. ASSUME ResolveFails PROVE FewOutstanding'
    BY <1>3 DEF ResolveFails, FewOutstanding, OneByOne, One, FirstAttempt, OneHandshake, ConnectedOnly, OneWrite, OperationsOK, Attempts, Operations, stream, callbacks, Fail, Fault
  <1>4. ASSUME OnResolve PROVE FewOutstanding'
    <2>1. Cardinality(io) = OneByOne(io) + One(io, "close")
      BY FiniteIo, CountOperations DEF OperationsOK
    <2>2. One(io, "close") = 0
      BY <1>4 DEF OnResolve, NoneWhileOpen, OperationsOK, One
    <2>3. OneByOne(io) \in Nat
      BY DEF OneByOne, One
    <2>4. OneByOne(io') = 1
      BY <1>4 DEF OnResolve, OneByOne, One
    <2>5. Cardinality(io) = OneByOne(io)
      BY <2>1, <2>2, <2>3
    <2> QED
      BY <1>4, <2>3, <2>4, <2>5 DEF OnResolve, FewOutstanding, OperationsOK
  <1>5. ASSUME ConnectFails PROVE FewOutstanding'
    BY <1>5 DEF ConnectFails, FewOutstanding, OneByOne, One, FirstAttempt, OneHandshake, ConnectedOnly, OneWrite, OperationsOK, Attempts, Operations, stream, callbacks, Fail, Fault
  <1>6. ASSUME OnConnect PROVE FewOutstanding'
    BY <1>6 DEF OnConnect, FewOutstanding, OneByOne, One, FirstAttempt, OneHandshake, ConnectedOnly, OneWrite, OperationsOK, Attempts, Operations, stream, callbacks
  <1>7. ASSUME SslHandshakeFails PROVE FewOutstanding'
    BY <1>7 DEF SslHandshakeFails, FewOutstanding, OneByOne, One, FirstAttempt, OneHandshake, ConnectedOnly, OneWrite, OperationsOK, Attempts, Operations, stream, callbacks, Fail
  <1>8. ASSUME OnSslHandshake PROVE FewOutstanding'
    BY <1>8 DEF OnSslHandshake, FewOutstanding, OneByOne, One, FirstAttempt, OneHandshake, ConnectedOnly, OneWrite, OperationsOK, Attempts, Operations, stream, callbacks
  <1>9. ASSUME HandshakeFails PROVE FewOutstanding'
    BY <1>9 DEF HandshakeFails, FewOutstanding, OneByOne, One, FirstAttempt, OneHandshake, ConnectedOnly, OneWrite, OperationsOK, Attempts, Operations, stream, callbacks, Fail
  <1>10. ASSUME OnHandshake PROVE FewOutstanding'
    BY <1>10 DEF OnHandshake, FewOutstanding, OneByOne, One, FirstAttempt, OneHandshake, ConnectedOnly, OneWrite, OperationsOK, Attempts, Operations, stream, callbacks
  <1>11. ASSUME OnAborted PROVE FewOutstanding'
    BY <1>11 DEF OnAborted, FewOutstanding, OneByOne, One, FirstAttempt, OneHandshake, ConnectedOnly, OneWrite, OperationsOK, Attempts, Operations, stream, callbacks, Fail
  <1>12. ASSUME OnWrite PROVE FewOutstanding'
    BY <1>12 DEF OnWrite, FewOutstanding, OneByOne, One, FirstAttempt, OneHandshake, ConnectedOnly, OneWrite, OperationsOK, Attempts, Operations, stream, callbacks
  <1>13. ASSUME WriteFails PROVE FewOutstanding'
    BY <1>13 DEF WriteFails, FewOutstanding, OneByOne, One, FirstAttempt, OneHandshake, ConnectedOnly, OneWrite, OperationsOK, Attempts, Operations, stream, callbacks, Fail
  <1>14. ASSUME OnPingTimer PROVE FewOutstanding'
    BY <1>14 DEF OnPingTimer, FewOutstanding, OneByOne, One, FirstAttempt, OneHandshake, ConnectedOnly, OneWrite, OperationsOK, Attempts, Operations, stream, callbacks
  <1>15. ASSUME OnPing PROVE FewOutstanding'
    BY <1>15 DEF OnPing, FewOutstanding, OneByOne, One, FirstAttempt, OneHandshake, ConnectedOnly, OneWrite, OperationsOK, Attempts, Operations, stream, callbacks
  <1>16. ASSUME OnClose PROVE FewOutstanding'
    BY <1>16 DEF OnClose, FewOutstanding, OneByOne, One, FirstAttempt, OneHandshake, ConnectedOnly, OneWrite, OperationsOK, Attempts, Operations, stream, callbacks
  <1>17. ASSUME Lose PROVE FewOutstanding'
    BY <1>17 DEF Lose, FewOutstanding, OneByOne, One, FirstAttempt, OneHandshake, ConnectedOnly, OneWrite, OperationsOK, Attempts, Operations, stream, callbacks, Fault
  <1>18. ASSUME NEW answer \in Answers, PeerReceives(answer) PROVE FewOutstanding'
    BY <1>18 DEF PeerReceives, FewOutstanding, OneByOne, One, FirstAttempt, OneHandshake, ConnectedOnly, OneWrite, OperationsOK, Attempts, Operations, stream, callbacks
  <1>19. ASSUME NEW m \in Message, Send(m) PROVE FewOutstanding'
    BY <1>19 DEF Send, FewOutstanding, OneByOne, One, FirstAttempt, OneHandshake, ConnectedOnly, OneWrite, OperationsOK, Attempts, Operations, stream, callbacks, Sends
  <1>20. ASSUME NEW replies \in Replies, OnRead(replies) PROVE FewOutstanding'
    BY <1>20 DEF OnRead, FewOutstanding, OneByOne, One, FirstAttempt, OneHandshake, ConnectedOnly, OneWrite, OperationsOK, Attempts, Operations, stream, callbacks, Sends
  <1>21. ASSUME NEW frame \in Frame, PeerSends(frame) PROVE FewOutstanding'
    BY <1>21 DEF PeerSends, FewOutstanding, OneByOne, One, FirstAttempt, OneHandshake, ConnectedOnly, OneWrite, OperationsOK, Attempts, Operations, stream, callbacks
  <1>22. ASSUME NEW op \in {"read", "ping", "close"}, StreamFails(op) PROVE FewOutstanding'
    <2>1. ASSUME NEW x \in {"read", "ping", "close"}, op = x
          PROVE  OneByOne(io') = OneByOne(io) - IF x = "close" THEN 0 ELSE 1
      <3>1. io' = io \ {x} /\ x \in io
        BY <1>22, <2>1 DEF StreamFails
      <3> QED
        BY <3>1 DEF OneByOne, One
    <2>2. op # "close" => OneByOne(io') = OneByOne(io) - 1
      BY <2>1
    <2>3. OneByOne(io) \in Nat /\ OneByOne(io') \in Nat
      BY DEF OneByOne, One
    <2>4. CASE op = "close"
      <3>1. OneByOne(io') = OneByOne(io) /\ resolving' = resolving
        BY <1>22, <2>1, <2>3, <2>4 DEF StreamFails, Fail, NoneWhileOpen
      <3> QED
        BY <1>22, <3>1 DEF StreamFails, FewOutstanding, callbacks
    <2>5. CASE op # "close"
      BY <1>22, <2>2, <2>3, <2>5 DEF StreamFails, Fail, FewOutstanding, OperationsOK
    <2> QED
      BY <2>4, <2>5
  <1>23. CASE UNCHANGED sessionVars
    BY <1>23 DEF sessionVars, FewOutstanding, OneByOne, One, FirstAttempt, OneHandshake, ConnectedOnly, OneWrite, OperationsOK, Attempts, Operations, stream, callbacks
  <1> QED
    BY <1>1, <1>2, <1>3, <1>4, <1>5, <1>6, <1>7, <1>8, <1>9, <1>10, <1>11, <1>12, <1>13, <1>14, <1>15, <1>16, <1>17, <1>18, <1>19, <1>20, <1>21, <1>22, <1>23 DEF AnyNext, Callback

-----------------------------------------------------------------------------
(* The messages, in order. *)

(* What the peer has received and what is under way to it. *)
Peer == received \o outbox

(* Until the first connection is up, all messages wait in the queue. *)
NothingYet ==
    tls = "fresh" \/ (sameTls /\ ("tls" \in io \/ "upgrade" \in io)) =>
        received = <<>> /\ outbox = <<>> /\ writeQueue = sent

(* The queue holds the last messages that were sent, and the peer has the first. *)
QueueIsSuffix ==
    /\ Len(writeQueue) <= Len(sent)
    /\ \A i \in 1 .. Len(writeQueue) :
          writeQueue[i] = sent[Len(sent) - Len(writeQueue) + i]

PeerIsPrefix == Len(Peer) <= Len(sent) /\ \A i \in 1 .. Len(Peer) : Peer[i] = sent[i]

(* While there is somebody to write, the peer has all that is popped, and the *)
(* message being written.                                                     *)
UpToDate == link /\ (connected \/ writes = 1) => Len(Peer) = Len(sent) - Len(writeQueue) + writes

(* The peer's messages are a sequence. *)
LEMMA PeerType ==
    ASSUME MessagesOK
    PROVE  /\ Peer \in Seq(Message) /\ Len(Peer) \in Nat
           /\ Len(Peer) = Len(received) + Len(outbox)
           /\ Len(received) \in Nat /\ Len(outbox) \in Nat
           /\ Len(sent) \in Nat /\ Len(writeQueue) \in Nat
  BY ConcatProperties, LenProperties DEF MessagesOK, Peer

(* A write adds one message at the end. *)
LEMMA PeerGrows ==
    ASSUME MessagesOK, NEW m \in Message, link, WriteOut(m), received' = received
    PROVE  /\ Len(Peer') = Len(Peer) + 1
           /\ Peer'[Len(Peer) + 1] = m
           /\ \A i \in 1 .. Len(Peer) : Peer'[i] = Peer[i]
  <1>1. Peer' = received \o Append(outbox, m)
    BY DEF WriteOut, Peer
  <1>2. Append(outbox, m) \in Seq(Message) /\ Len(Append(outbox, m)) = Len(outbox) + 1
    BY DEF MessagesOK
  <1>3. /\ Append(outbox, m)[Len(outbox) + 1] = m
        /\ \A i \in 1 .. Len(outbox) : Append(outbox, m)[i] = outbox[i]
    BY DEF MessagesOK
  <1>4. /\ Len(Peer') = Len(received) + Len(outbox) + 1
        /\ \A i \in 1 .. Len(received) + Len(outbox) + 1 :
              Peer'[i] = IF i <= Len(received) THEN received[i]
                         ELSE Append(outbox, m)[i - Len(received)]
    BY <1>1, <1>2, ConcatProperties, PeerType DEF MessagesOK
  <1>5. \A i \in 1 .. Len(Peer) :
           Peer[i] = IF i <= Len(received) THEN received[i] ELSE outbox[i - Len(received)]
    BY ConcatProperties, PeerType DEF MessagesOK, Peer
  <1>6. Len(Peer') = Len(Peer) + 1
    BY <1>4, PeerType
  <1>7. Peer'[Len(Peer) + 1] = m
    <2> DEFINE k == Len(received) + Len(outbox) + 1
    <2>1. Peer'[k] = IF k <= Len(received) THEN received[k]
                     ELSE Append(outbox, m)[k - Len(received)]
      <3>1. k \in 1 .. k /\ Len(received) + Len(outbox) + 1 = k
        BY PeerType
      <3> HIDE DEF k
      <3> QED
        BY <1>4, <3>1
    <2>2. ~(k <= Len(received)) /\ k - Len(received) = Len(outbox) + 1
      BY PeerType
    <2>3. k = Len(Peer) + 1
      BY PeerType
    <2> HIDE DEF k
    <2>4. Peer'[k] = Append(outbox, m)[k - Len(received)]
      BY <2>1, <2>2
    <2>5. Peer'[k] = Append(outbox, m)[Len(outbox) + 1]
      BY <2>2, <2>4
    <2> QED
      BY <1>3, <2>3, <2>5
  <1>8. ASSUME NEW i \in 1 .. Len(Peer) PROVE Peer'[i] = Peer[i]
    <2>1. Peer'[i] = IF i <= Len(received) THEN received[i]
                     ELSE Append(outbox, m)[i - Len(received)]
      BY <1>4, PeerType
    <2>2. Peer[i] = IF i <= Len(received) THEN received[i] ELSE outbox[i - Len(received)]
      BY <1>5
    <2>3. ~(i <= Len(received)) => i - Len(received) \in 1 .. Len(outbox)
      BY PeerType
    <2> QED
      BY <1>3, <2>1, <2>2, <2>3
  <1> QED
    BY <1>6, <1>7, <1>8

(* What is received was under way. *)
LEMMA PeerMoves ==
    ASSUME MessagesOK, MessagesOK', NEW answer, PeerReceives(answer)
    PROVE  Peer' = Peer
  <1>1. /\ Len(Tail(outbox)) = Len(outbox) - 1
        /\ \A i \in 1 .. Len(outbox) - 1 : Tail(outbox)[i] = outbox[i + 1]
        /\ Head(outbox) = outbox[1]
    BY HeadTailProperties DEF PeerReceives, MessagesOK
  <1>2. /\ Len(received') = Len(received) + 1
        /\ received'[Len(received) + 1] = Head(outbox)
        /\ \A i \in 1 .. Len(received) : received'[i] = received[i]
    <2>1. Head(outbox) \in Message
      BY HeadTailProperties DEF PeerReceives, MessagesOK
    <2> QED
      BY <2>1 DEF PeerReceives, MessagesOK
  <1>3. outbox' = Tail(outbox)
    BY DEF PeerReceives
  <1>4. Len(Peer') = Len(Peer) /\ Peer' \in Seq(Message)
    <2>1. received' \in Seq(Message) /\ outbox' \in Seq(Message)
      BY DEF MessagesOK
    <2>2. Len(received' \o outbox') = Len(received') + Len(outbox')
          /\ received' \o outbox' \in Seq(Message)
      BY <2>1, ConcatProperties
    <2>3. Peer' = received' \o outbox'
      BY DEF Peer
    <2> QED
      BY <1>1, <1>2, <1>3, <2>2, <2>3, PeerType
  <1>5. \A i \in 1 .. Len(Peer) :
           Peer[i] = IF i <= Len(received) THEN received[i] ELSE outbox[i - Len(received)]
    BY ConcatProperties, PeerType DEF MessagesOK, Peer
  <1>6. \A i \in 1 .. Len(Peer') :
           Peer'[i] = IF i <= Len(received') THEN received'[i] ELSE outbox'[i - Len(received')]
    BY <1>5, <1>4, ConcatProperties, PeerType DEF MessagesOK, Peer
  <1>7. ASSUME NEW i \in 1 .. Len(Peer) PROVE Peer'[i] = Peer[i]
    <2>1. Peer'[i] = IF i <= Len(received') THEN received'[i] ELSE outbox'[i - Len(received')]
      BY <1>4, <1>6
    <2>2. CASE i <= Len(received)
      BY <1>2, <1>5, <2>1, <2>2, PeerType
    <2>3. CASE i = Len(received) + 1
      BY <1>1, <1>2, <1>5, <2>1, <2>3, PeerType
    <2>4. CASE i > Len(received) + 1
      BY <1>1, <1>2, <1>3, <1>5, <2>1, <2>4, PeerType
    <2> QED
      BY <2>2, <2>3, <2>4, PeerType
  <1> QED
    BY <1>4, <1>7, PeerType, SeqEqual

(* When the connection is lost, what was under way is lost with it. *)
LEMMA PeerCut ==
    ASSUME MessagesOK, received' = received, outbox' = <<>>, sent' = sent, PeerIsPrefix
    PROVE  PeerIsPrefix'
  <1>1. Peer' = received
    BY ConcatEmptySeq DEF Peer, MessagesOK
  <1>2. \A i \in 1 .. Len(received) : Peer[i] = received[i]
    BY ConcatProperties, PeerType DEF MessagesOK, Peer
  <1> QED
    BY <1>1, <1>2, PeerType DEF PeerIsPrefix

(* A write of the message that comes next. *)
LEMMA PeerWrites ==
    ASSUME MessagesOK, NEW m \in Message, WriteOut(m), received' = received,
           PeerIsPrefix, Len(sent') \in Nat, Len(sent) <= Len(sent'),
           \A i \in 1 .. Len(sent) : sent'[i] = sent[i],
           link => Len(Peer) < Len(sent') /\ m = sent'[Len(Peer) + 1]
    PROVE  PeerIsPrefix' /\ (link => Len(Peer') = Len(Peer) + 1)
  <1>1. CASE link
    BY <1>1, PeerGrows, PeerType DEF PeerIsPrefix
  <1>2. CASE ~link
    <2>1. Peer' = Peer
      BY <1>2 DEF WriteOut, Peer
    <2> QED
      BY <1>2, <2>1, PeerType DEF PeerIsPrefix
  <1> QED
    BY <1>1, <1>2

(* No step writes before the first connection is up. *)
LEMMA NothingYetStep ==
    ASSUME OperationsOK, FirstAttempt, OneHandshake, NothingYet, [AnyNext]_sessionVars
    PROVE  NothingYet'
  <1>1. ASSUME Start PROVE NothingYet'
    BY <1>1 DEF Start, NothingYet, FirstAttempt, OneHandshake, OperationsOK, Attempts, Operations, stream, callbacks
  <1>2. ASSUME Stop PROVE NothingYet'
    BY <1>2 DEF Stop, NothingYet, FirstAttempt, OneHandshake, OperationsOK, Attempts, Operations, stream, callbacks
  <1>3. ASSUME ResolveFails PROVE NothingYet'
    BY <1>3 DEF ResolveFails, NothingYet, FirstAttempt, OneHandshake, OperationsOK, Attempts, Operations, stream, callbacks, Fail, Fault
  <1>4. ASSUME OnResolve PROVE NothingYet'
    BY <1>4 DEF OnResolve, NothingYet, FirstAttempt, OneHandshake, OperationsOK, Attempts, Operations, stream, callbacks
  <1>5. ASSUME ConnectFails PROVE NothingYet'
    BY <1>5 DEF ConnectFails, NothingYet, FirstAttempt, OneHandshake, OperationsOK, Attempts, Operations, stream, callbacks, Fail, Fault
  <1>6. ASSUME OnConnect PROVE NothingYet'
    BY <1>6 DEF OnConnect, NothingYet, FirstAttempt, OneHandshake, OperationsOK, Attempts, Operations, stream, callbacks
  <1>7. ASSUME SslHandshakeFails PROVE NothingYet'
    BY <1>7 DEF SslHandshakeFails, NothingYet, FirstAttempt, OneHandshake, OperationsOK, Attempts, Operations, stream, callbacks, Fail
  <1>8. ASSUME OnSslHandshake PROVE NothingYet'
    BY <1>8 DEF OnSslHandshake, NothingYet, FirstAttempt, OneHandshake, OperationsOK, Attempts, Operations, stream, callbacks
  <1>9. ASSUME HandshakeFails PROVE NothingYet'
    BY <1>9 DEF HandshakeFails, NothingYet, FirstAttempt, OneHandshake, OperationsOK, Attempts, Operations, stream, callbacks, Fail
  <1>10. ASSUME OnHandshake PROVE NothingYet'
    BY <1>10 DEF OnHandshake, NothingYet, FirstAttempt, OneHandshake, OperationsOK, Attempts, Operations, stream, callbacks
  <1>11. ASSUME OnAborted PROVE NothingYet'
    BY <1>11 DEF OnAborted, NothingYet, FirstAttempt, OneHandshake, OperationsOK, Attempts, Operations, stream, callbacks, Fail
  <1>12. ASSUME OnWrite PROVE NothingYet'
    BY <1>12 DEF OnWrite, NothingYet, FirstAttempt, OneHandshake, OperationsOK, Attempts, Operations, stream, callbacks
  <1>13. ASSUME WriteFails PROVE NothingYet'
    BY <1>13 DEF WriteFails, NothingYet, FirstAttempt, OneHandshake, OperationsOK, Attempts, Operations, stream, callbacks, Fail
  <1>14. ASSUME OnPingTimer PROVE NothingYet'
    BY <1>14 DEF OnPingTimer, NothingYet, FirstAttempt, OneHandshake, OperationsOK, Attempts, Operations, stream, callbacks
  <1>15. ASSUME OnPing PROVE NothingYet'
    BY <1>15 DEF OnPing, NothingYet, FirstAttempt, OneHandshake, OperationsOK, Attempts, Operations, stream, callbacks
  <1>16. ASSUME OnClose PROVE NothingYet'
    BY <1>16 DEF OnClose, NothingYet, FirstAttempt, OneHandshake, OperationsOK, Attempts, Operations, stream, callbacks
  <1>17. ASSUME Lose PROVE NothingYet'
    BY <1>17 DEF Lose, NothingYet, FirstAttempt, OneHandshake, OperationsOK, Attempts, Operations, stream, callbacks, Fault
  <1>18. ASSUME NEW answer \in Answers, PeerReceives(answer) PROVE NothingYet'
    BY <1>18 DEF PeerReceives, NothingYet, FirstAttempt, OneHandshake, OperationsOK, Attempts, Operations, stream, callbacks
  <1>19. ASSUME NEW m \in Message, Send(m) PROVE NothingYet'
    BY <1>19 DEF Send, NothingYet, FirstAttempt, OneHandshake, OperationsOK, Attempts, Operations, stream, callbacks, Sends
  <1>20. ASSUME NEW replies \in Replies, OnRead(replies) PROVE NothingYet'
    BY <1>20 DEF OnRead, NothingYet, FirstAttempt, OneHandshake, OperationsOK, Attempts, Operations, stream, callbacks, Sends
  <1>21. ASSUME NEW frame \in Frame, PeerSends(frame) PROVE NothingYet'
    BY <1>21 DEF PeerSends, NothingYet, FirstAttempt, OneHandshake, OperationsOK, Attempts, Operations, stream, callbacks
  <1>22. ASSUME NEW op \in {"read", "ping", "close"}, StreamFails(op) PROVE NothingYet'
    BY <1>22 DEF StreamFails, NothingYet, FirstAttempt, OneHandshake, OperationsOK, Attempts, Operations, stream, callbacks, Fail
  <1>23. CASE UNCHANGED sessionVars
    BY <1>23 DEF sessionVars, NothingYet, FirstAttempt, OneHandshake, OperationsOK, Attempts, Operations, stream, callbacks
  <1> QED
    BY <1>1, <1>2, <1>3, <1>4, <1>5, <1>6, <1>7, <1>8, <1>9, <1>10, <1>11, <1>12, <1>13, <1>14, <1>15, <1>16, <1>17, <1>18, <1>19, <1>20, <1>21, <1>22, <1>23 DEF AnyNext, Callback

InOrder == QueueIsSuffix /\ PeerIsPrefix /\ UpToDate

(* A step that moves no message and starts no write leaves the order alone. *)
LEMMA StillInOrder ==
    ASSUME InOrder, UNCHANGED <<sent, received, outbox, writeQueue>>,
           link' /\ (connected' \/ writes' = 1) =>
               link /\ (connected \/ writes = 1) /\ writes' = writes
    PROVE  InOrder'
  <1>1. Peer' = Peer
    BY DEF Peer
  <1> QED
    BY <1>1 DEF InOrder, QueueIsSuffix, PeerIsPrefix, UpToDate

(* send() in order: the new messages queue behind those that wait, and one is *)
(* written at once only if none waits.                                        *)
LEMMA SendsInOrder ==
    ASSUME MessagesOK, OneWrite, InOrder, NEW msgs \in Seq(Message), Sends(msgs),
           UNCHANGED <<received, link, connected>>
    PROVE  InOrder'
  <1>1. /\ Len(msgs) \in Nat
        /\ Len(sent') = Len(sent) + Len(msgs) /\ Len(writeQueue') = Len(writeQueue) + Len(msgs)
    BY ConcatProperties, LenProperties DEF Sends, MessagesOK
  <1>2. \A i \in 1 .. Len(sent) + Len(msgs) :
           sent'[i] = IF i <= Len(sent) THEN sent[i] ELSE msgs[i - Len(sent)]
    BY ConcatProperties DEF Sends, MessagesOK
  <1>3. \A i \in 1 .. Len(writeQueue) + Len(msgs) :
           writeQueue'[i] = IF i <= Len(writeQueue) THEN writeQueue[i]
                            ELSE msgs[i - Len(writeQueue)]
    BY ConcatProperties DEF Sends, MessagesOK
  <1>4. QueueIsSuffix'
    <2>1. Len(writeQueue') <= Len(sent')
      BY <1>1, PeerType DEF InOrder, QueueIsSuffix
    <2>2. ASSUME NEW i \in 1 .. Len(writeQueue')
          PROVE  writeQueue'[i] = sent'[Len(sent') - Len(writeQueue') + i]
      <3> DEFINE j == Len(sent) - Len(writeQueue) + i
      <3>1. /\ j = Len(sent') - Len(writeQueue') + i
            /\ j \in 1 .. Len(sent) + Len(msgs)
            /\ i \in 1 .. Len(writeQueue) + Len(msgs)
        BY <1>1, PeerType DEF InOrder, QueueIsSuffix
      <3>2. CASE i <= Len(writeQueue)
        <4>1. writeQueue'[i] = writeQueue[i]
          BY <1>3, <3>1, <3>2
        <4>2. writeQueue[i] = sent[j]
          <5>1. i \in 1 .. Len(writeQueue)
            BY <3>1, <3>2, PeerType
          <5> QED
            BY <5>1 DEF InOrder, QueueIsSuffix
        <4>3. j <= Len(sent)
          BY <3>2, PeerType
        <4>4. sent'[j] = sent[j]
          BY <1>2, <3>1, <4>3
        <4> QED
          BY <3>1, <4>1, <4>2, <4>4, Zenon
      <3>3. CASE ~(i <= Len(writeQueue))
        <4>1. ~(j <= Len(sent)) /\ j - Len(sent) = i - Len(writeQueue)
          BY <3>3, PeerType
        <4>2. writeQueue'[i] = msgs[i - Len(writeQueue)]
          BY <1>3, <3>1, <3>3
        <4>3. sent'[j] = msgs[j - Len(sent)]
          BY <1>2, <3>1, <4>1
        <4> QED
          BY <3>1, <4>1, <4>2, <4>3
      <3> QED
        BY <3>2, <3>3
    <2> QED
      BY <2>1, <2>2 DEF QueueIsSuffix
  <1>5. Len(sent) <= Len(sent') /\ \A i \in 1 .. Len(sent) : sent'[i] = sent[i]
    BY <1>1, <1>2, PeerType
  <1>6. CASE connected /\ writeQueue = <<>> /\ msgs # <<>>
    <2>1. /\ Head(msgs) \in Message /\ Head(msgs) = msgs[1] /\ Len(msgs) >= 1
      BY <1>1, <1>6, HeadTailProperties, EmptySeq
    <2>2. WriteOut(Head(msgs)) /\ writes' = 1 /\ writes = 0 /\ Len(writeQueue) = 0
      BY <1>6 DEF Sends, OneWrite
    <2>3. link => Len(Peer) = Len(sent)
      BY <1>6, <2>2, PeerType DEF InOrder, UpToDate
    <2>4. sent'[Len(sent) + 1] = msgs[1]
      <3>1. Len(sent) \in Nat /\ Len(msgs) \in Nat /\ Len(msgs) > 0
        BY <1>1, <2>1, PeerType
      <3>2. Len(sent) + 1 \in 1 .. Len(sent) + Len(msgs) /\ ~(Len(sent) + 1 <= Len(sent))
            /\ Len(sent) + 1 - Len(sent) = 1
        BY <3>1
      <3> QED
        BY <1>2, <3>2, SMTT(20)
    <2>5. link => Len(Peer) < Len(sent') /\ Head(msgs) = sent'[Len(Peer) + 1]
      BY <1>1, <2>1, <2>3, <2>4, PeerType
    <2>6. PeerIsPrefix' /\ (link => Len(Peer') = Len(Peer) + 1)
      BY <1>1, <1>5, <2>1, <2>2, <2>5, PeerType, PeerWrites DEF InOrder
    <2>7. UpToDate'
      BY <1>1, <2>2, <2>3, <2>6, PeerType DEF UpToDate
    <2> QED
      BY <1>4, <2>6, <2>7 DEF InOrder
  <1>7. CASE ~(connected /\ writeQueue = <<>> /\ msgs # <<>>)
    <2>1. writes' = writes /\ outbox' = outbox
      BY <1>7 DEF Sends
    <2>2. Peer' = Peer
      BY <2>1 DEF Peer
    <2>3. PeerIsPrefix'
      BY <1>1, <1>5, <2>2, PeerType DEF InOrder, PeerIsPrefix
    <2>4. Len(sent') - Len(writeQueue') = Len(sent) - Len(writeQueue)
      BY <1>1, PeerType
    <2>5. UpToDate
      BY DEF InOrder
    <2>6. UpToDate'
      BY <2>1, <2>2, <2>4, <2>5 DEF UpToDate
    <2> QED
      BY <1>4, <2>3, <2>6 DEF InOrder
  <1> QED
    BY <1>6, <1>7

(* on_handshake() in order: the first message is written first. *)
LEMMA HandshakeInOrder ==
    ASSUME MessagesOK, OneHandshake, NothingYet, InOrder, OnHandshake
    PROVE  InOrder'
  <1>1. /\ received = <<>> /\ outbox = <<>> /\ writeQueue = sent /\ writes = 0
        /\ link /\ link'
    BY DEF OnHandshake, NothingYet, OneHandshake
  <1>2. Len(Peer) = 0
    BY <1>1, ConcatEmptySeq, EmptySeq DEF Peer, MessagesOK
  <1>3. QueueIsSuffix'
    BY DEF OnHandshake, InOrder, QueueIsSuffix
  <1>4. CASE writeQueue = <<>>
    <2>1. Peer' = Peer /\ writes' = 0
      BY <1>1, <1>4 DEF OnHandshake, Peer
    <2>2. PeerIsPrefix'
      BY <2>1 DEF OnHandshake, InOrder, PeerIsPrefix
    <2>3. UpToDate'
      BY <1>1, <1>2, <2>1, PeerType DEF OnHandshake, UpToDate
    <2> QED
      BY <1>3, <2>2, <2>3 DEF InOrder
  <1>5. CASE writeQueue # <<>>
    <2>1. /\ Head(writeQueue) \in Message /\ Head(writeQueue) = sent[1]
          /\ Len(sent) >= 1
      BY <1>1, <1>5, HeadTailProperties, EmptySeq DEF MessagesOK
    <2>2. WriteOut(Head(writeQueue)) /\ writes' = 1 /\ sent' = sent /\ received' = received
          /\ writeQueue' = writeQueue
      BY <1>1, <1>5 DEF OnHandshake
    <2>3. PeerIsPrefix' /\ Len(Peer') = Len(Peer) + 1
      BY <1>1, <1>2, <2>1, <2>2, PeerType, PeerWrites DEF InOrder
    <2>4. UpToDate'
      BY <1>1, <1>2, <2>2, <2>3, PeerType DEF UpToDate
    <2> QED
      BY <1>3, <2>3, <2>4 DEF InOrder
  <1> QED
    BY <1>4, <1>5

(* on_write() in order: the message written is popped, and the next one is *)
(* the next to be written.                                                  *)
LEMMA WriteInOrder ==
    ASSUME MessagesOK, OneWrite, InOrder, OnWrite
    PROVE  InOrder'
  <1>1. /\ writes = 1 /\ writeQueue # <<>> /\ writeQueue' = Tail(writeQueue)
        /\ UNCHANGED <<sent, received, link, connected>>
    BY DEF OnWrite, OneWrite, stream
  <1>2. /\ Len(writeQueue') = Len(writeQueue) - 1 /\ Len(writeQueue) >= 1
        /\ writeQueue' \in Seq(Message) /\ Len(writeQueue') \in Nat
        /\ \A i \in 1 .. Len(writeQueue') : writeQueue'[i] = writeQueue[i + 1]
    BY <1>1, HeadTailProperties, EmptySeq, LenProperties DEF MessagesOK
  <1>3. QueueIsSuffix'
    <2>1. Len(writeQueue') <= Len(sent')
      BY <1>1, <1>2, PeerType DEF InOrder, QueueIsSuffix
    <2>2. ASSUME NEW i \in 1 .. Len(writeQueue')
          PROVE  writeQueue'[i] = sent'[Len(sent') - Len(writeQueue') + i]
      <3>1. /\ i + 1 \in 1 .. Len(writeQueue)
            /\ Len(sent') - Len(writeQueue') + i = Len(sent) - Len(writeQueue) + (i + 1)
        BY <1>1, <1>2, PeerType
      <3>2. writeQueue[i + 1] = sent[Len(sent) - Len(writeQueue) + (i + 1)]
        BY <3>1 DEF InOrder, QueueIsSuffix
      <3> QED
        BY <1>1, <1>2, <3>1, <3>2
    <2> QED
      BY <2>1, <2>2 DEF QueueIsSuffix
  <1>4. CASE writeQueue' # <<>> /\ connected
    <2>1. /\ Head(writeQueue') \in Message /\ Head(writeQueue') = writeQueue'[1]
          /\ Len(writeQueue') >= 1
      BY <1>2, <1>4, HeadTailProperties, EmptySeq
    <2>2. WriteOut(Head(writeQueue')) /\ writes' = writes
      BY <1>4 DEF OnWrite
    <2>3. writeQueue'[1] = sent'[Len(sent') - Len(writeQueue') + 1]
      BY <1>3, <2>1, PeerType DEF QueueIsSuffix
    <2>4. link => Len(Peer) = Len(sent') - Len(writeQueue')
      BY <1>1, <1>2, PeerType DEF InOrder, UpToDate
    <2>5. link => Len(Peer) < Len(sent') /\ Head(writeQueue') = sent'[Len(Peer) + 1]
      BY <1>1, <1>2, <2>1, <2>3, <2>4, PeerType
    <2>6. PeerIsPrefix' /\ (link => Len(Peer') = Len(Peer) + 1)
      <3>1. Len(sent') \in Nat /\ Len(sent) <= Len(sent')
            /\ \A i \in 1 .. Len(sent) : sent'[i] = sent[i]
        BY <1>1, PeerType
      <3> QED
        BY <1>1, <2>1, <2>2, <2>5, <3>1, PeerWrites DEF InOrder
    <2>7. UpToDate'
      BY <1>1, <1>2, <2>2, <2>4, <2>6, PeerType DEF UpToDate
    <2> QED
      BY <1>3, <2>6, <2>7 DEF InOrder
  <1>5. CASE ~(writeQueue' # <<>> /\ connected)
    <2>1. writes' = 0 /\ outbox' = outbox
      BY <1>1, <1>5 DEF OnWrite
    <2>2. Peer' = Peer
      BY <1>1, <2>1 DEF Peer
    <2>3. PeerIsPrefix'
      BY <1>1, <2>2 DEF InOrder, PeerIsPrefix
    <2>4. UpToDate'
      BY <1>1, <1>2, <2>1, <2>2, PeerType DEF InOrder, UpToDate
    <2> QED
      BY <1>3, <2>3, <2>4 DEF InOrder
  <1> QED
    BY <1>4, <1>5

(* No step breaks the order. *)
LEMMA InOrderStep ==
    ASSUME MessagesOK, MessagesOK', OneHandshake, OneWrite, AttemptAlone, NothingYet, InOrder, [AnyNext]_sessionVars
    PROVE  InOrder'
  <1>1. ASSUME Start PROVE InOrder'
    BY <1>1, StillInOrder DEF Start, stream, callbacks
  <1>2. ASSUME Stop PROVE InOrder'
    BY <1>2, StillInOrder DEF Stop, stream, callbacks
  <1>3. ASSUME ResolveFails PROVE InOrder'
    BY <1>3, StillInOrder DEF ResolveFails, stream, callbacks, Fail, Fault
  <1>4. ASSUME OnResolve PROVE InOrder'
    <2>1. PeerIsPrefix'
      BY <1>4, PeerCut DEF OnResolve, InOrder
    <2>2. QueueIsSuffix' /\ UpToDate'
      BY <1>4 DEF OnResolve, InOrder, QueueIsSuffix, UpToDate
    <2> QED
      BY <2>1, <2>2 DEF InOrder
  <1>5. ASSUME ConnectFails PROVE InOrder'
    BY <1>5, StillInOrder DEF ConnectFails, stream, callbacks, Fail, Fault
  <1>6. ASSUME OnConnect PROVE InOrder'
    <2>1. ~connected' /\ writes' = 0
      BY <1>6 DEF OnConnect, AttemptAlone, Attempts
    <2> QED
      BY <1>6, <2>1, StillInOrder DEF OnConnect
  <1>7. ASSUME SslHandshakeFails PROVE InOrder'
    BY <1>7, StillInOrder DEF SslHandshakeFails, stream, callbacks, Fail
  <1>8. ASSUME OnSslHandshake PROVE InOrder'
    BY <1>8, StillInOrder DEF OnSslHandshake, stream, callbacks
  <1>9. ASSUME HandshakeFails PROVE InOrder'
    BY <1>9, StillInOrder DEF HandshakeFails, stream, callbacks, Fail
  <1>10. ASSUME OnHandshake PROVE InOrder'
    BY <1>10, HandshakeInOrder
  <1>11. ASSUME OnAborted PROVE InOrder'
    BY <1>11, StillInOrder DEF OnAborted, stream, callbacks, Fail
  <1>12. ASSUME OnWrite PROVE InOrder'
    BY <1>12, WriteInOrder
  <1>13. ASSUME WriteFails PROVE InOrder'
    BY <1>13, StillInOrder DEF WriteFails, stream, callbacks, Fail
  <1>14. ASSUME OnPingTimer PROVE InOrder'
    BY <1>14, StillInOrder DEF OnPingTimer, stream, callbacks
  <1>15. ASSUME OnPing PROVE InOrder'
    BY <1>15, StillInOrder DEF OnPing, stream, callbacks
  <1>16. ASSUME OnClose PROVE InOrder'
    <2>1. UNCHANGED <<sent, received, outbox, writeQueue>> /\ ~link'
      BY <1>16 DEF OnClose
    <2> QED
      BY <2>1, StillInOrder
  <1>17. ASSUME Lose PROVE InOrder'
    <2>1. PeerIsPrefix'
      BY <1>17, PeerCut DEF Lose, InOrder
    <2>2. QueueIsSuffix' /\ UpToDate'
      BY <1>17 DEF Lose, InOrder, QueueIsSuffix, UpToDate
    <2> QED
      BY <2>1, <2>2 DEF InOrder
  <1>18. ASSUME NEW answer \in Answers, PeerReceives(answer) PROVE InOrder'
    <2>1. Peer' = Peer
      BY <1>18, PeerMoves
    <2>2. UNCHANGED <<sent, writeQueue, link, connected, writes>>
      BY <1>18 DEF PeerReceives, stream, callbacks
    <2> QED
      BY <2>1, <2>2 DEF InOrder, QueueIsSuffix, PeerIsPrefix, UpToDate
  <1>19. ASSUME NEW m \in Message, Send(m) PROVE InOrder'
    <2>1. <<m>> \in Seq(Message)
      OBVIOUS
    <2> QED
      BY <1>19, <2>1, SendsInOrder DEF Send, stream
  <1>20. ASSUME NEW replies \in Replies, OnRead(replies) PROVE InOrder'
    BY <1>20, RepliesType, SendsInOrder DEF OnRead, stream
  <1>21. ASSUME NEW frame \in Frame, PeerSends(frame) PROVE InOrder'
    BY <1>21, StillInOrder DEF PeerSends, stream, callbacks
  <1>22. ASSUME NEW op \in {"read", "ping", "close"}, StreamFails(op) PROVE InOrder'
    BY <1>22, StillInOrder DEF StreamFails, stream, callbacks, Fail
  <1>23. CASE UNCHANGED sessionVars
    BY <1>23, StillInOrder DEF sessionVars, stream, callbacks
  <1> QED
    BY <1>1, <1>2, <1>3, <1>4, <1>5, <1>6, <1>7, <1>8, <1>9, <1>10, <1>11, <1>12, <1>13, <1>14, <1>15, <1>16, <1>17, <1>18, <1>19, <1>20, <1>21, <1>22, <1>23 DEF AnyNext, Callback

SessionInv ==
    /\ SessionTypeOK
    /\ FirstAttempt /\ OneHandshake /\ ConnectedOnly /\ OneWrite
    /\ KeepsTrying
    /\ AttemptAlone /\ NoneWhileOpen /\ FewOutstanding
    /\ NothingYet /\ InOrder

(* The invariant holds at first. *)
LEMMA InvariantInit == SessionInit => SessionInv
  <1> SUFFICES ASSUME SessionInit PROVE SessionInv
    OBVIOUS
  <1>1. FlagsOK
    BY DEF SessionInit, FlagsOK
  <1>2. OperationsOK
    BY DEF SessionInit, OperationsOK
  <1>3. MessagesOK
    BY EmptySeq DEF SessionInit, MessagesOK
  <1>4. FirstAttempt /\ OneHandshake /\ ConnectedOnly /\ OneWrite /\ KeepsTrying
    BY DEF SessionInit, FirstAttempt, OneHandshake, ConnectedOnly, OneWrite, KeepsTrying
  <1>5. AttemptAlone /\ NoneWhileOpen /\ FewOutstanding /\ NothingYet
    BY DEF SessionInit, AttemptAlone, NoneWhileOpen, FewOutstanding, OneByOne, One, NothingYet
  <1>6. InOrder
    <2>1. Peer = <<>>
      BY <1>3, ConcatEmptySeq DEF SessionInit, Peer, MessagesOK
    <2> QED
      BY <2>1 DEF SessionInit, InOrder, QueueIsSuffix, PeerIsPrefix, UpToDate
  <1> QED
    BY <1>1, <1>2, <1>3, <1>4, <1>5, <1>6 DEF SessionInv, SessionTypeOK

(* The invariant is inductive. *)
LEMMA InvariantStep == SessionInv /\ [AnyNext]_sessionVars => SessionInv'
  <1> SUFFICES ASSUME SessionInv, [AnyNext]_sessionVars PROVE SessionInv'
    OBVIOUS
  <1>1. QueueHasWrite
    BY DEF SessionInv, OneWrite, QueueHasWrite
  <1>2. SessionTypeOK'
    BY <1>1, FlagsStep, OperationsStep, MessagesStep DEF SessionInv, SessionTypeOK
  <1>3. FirstAttempt' /\ OneHandshake' /\ ConnectedOnly' /\ OneWrite' /\ KeepsTrying'
    BY FirstAttemptStep, OneHandshakeStep, ConnectedOnlyStep, OneWriteStep, KeepsTryingStep
       DEF SessionInv, SessionTypeOK
  <1>4. AttemptAlone' /\ NoneWhileOpen' /\ FewOutstanding'
    BY AttemptAloneStep, NoneWhileOpenStep, FewStep DEF SessionInv, SessionTypeOK
  <1>5. NothingYet' /\ InOrder'
    BY <1>2, NothingYetStep, InOrderStep DEF SessionInv, SessionTypeOK
  <1> QED
    BY <1>2, <1>3, <1>4, <1>5 DEF SessionInv

(* What the invariant says of the session, for those who use one. *)
LEMMA InOrderIsSentInOrder == SessionInv => SentInOrder
  <1> SUFFICES ASSUME SessionInv PROVE SentInOrder
    OBVIOUS
  <1>1. MessagesOK /\ PeerIsPrefix
    BY DEF SessionInv, SessionTypeOK, InOrder
  <1>2. Peer \in Seq(Message) /\ Len(Peer) \in Nat /\ Len(sent) \in Nat /\ sent \in Seq(Message)
    BY <1>1, PeerType DEF MessagesOK
  <1>3. Len(Peer) <= Len(sent) /\ \A i \in 1 .. Len(Peer) : Peer[i] = sent[i]
    BY <1>1 DEF PeerIsPrefix
  <1>4. \A i \in 1 .. Len(Peer) : sent[i] \in Message
    BY <1>2, <1>3, ElementOfSeq
  <1>5. /\ SubSeq(sent, 1, Len(Peer)) \in Seq(Message)
        /\ Len(SubSeq(sent, 1, Len(Peer))) = Len(Peer)
        /\ \A i \in 1 .. Len(Peer) : SubSeq(sent, 1, Len(Peer))[i] = sent[i]
    BY <1>2, <1>4, SubSeqProperties
  <1>6. Peer = SubSeq(sent, 1, Len(Peer))
    BY <1>2, <1>3, <1>5, SeqEqual
  <1> QED
    BY <1>3, <1>6 DEF SentInOrder, Peer

LEMMA SessionPromises ==
    SessionInv => WriteInProgress /\ KeepsTrying /\ Listening /\ SentInOrder /\ FewAttempts
  <1>1. SessionInv => WriteInProgress
    BY DEF SessionInv, OneWrite, WriteInProgress, SessionTypeOK, OperationsOK
  <1>2. SessionInv => KeepsTrying /\ Listening
    BY DEF SessionInv, ConnectedOnly, Listening
  <1>3. SessionInv => FewAttempts
    BY FewIsFew DEF SessionInv, SessionTypeOK
  <1> QED
    BY <1>1, <1>2, <1>3, InOrderIsSentInOrder

(* The inductive invariant holds at all times. *)
THEOREM SessionInvariant == Spec => []SessionInv
  <1>1. SessionInv /\ [Next]_sessionVars => SessionInv'
    BY NextIsAny, InvariantStep
  <1> QED
    BY <1>1, InvariantInit, PTL DEF Spec

(* The types of all the variables, at all times. *)
THEOREM TypeCorrect == Spec => []SessionTypeOK
  <1>1. SessionInv => SessionTypeOK
    BY DEF SessionInv
  <1> QED
    BY <1>1, SessionInvariant, PTL

(* For any messages and failures: never two writes at a time, never a pop of  *)
(* an empty queue, never a message forgotten in the queue of a connection.    *)
THEOREM OneWriteAtATime == Spec => []WriteInProgress
  BY SessionPromises, SessionInvariant, PTL

(* For any failures: a session that wants to be connected never stops trying. *)
THEOREM NeverGivesUp == Spec => []KeepsTrying
  BY SessionPromises, SessionInvariant, PTL

(* For any failures: a connected session reads and has its heartbeat. *)
THEOREM AlwaysListening == Spec => []Listening
  BY SessionPromises, SessionInvariant, PTL

(* For any messages and failures: the peer receives what was given to send(), *)
(* in that order, nothing twice and nothing left out.                         *)
THEOREM MessagesInOrder == Spec => []SentInOrder
  BY SessionPromises, SessionInvariant, PTL

(* For any failures: never more than three operations that may start another *)
(* attempt to connect.                                                        *)
THEOREM AttemptsStayFew == Spec => []FewAttempts
  BY SessionPromises, SessionInvariant, PTL

-----------------------------------------------------------------------------
(* The connection that is never replaced. *)

(* The SSL object has made its handshake, and whichever handshake is under    *)
(* way now is another one.                                                    *)
Spent == tls # "fresh" /\ ("tls" \in io \/ "upgrade" \in io => ~sameTls)

(* A spent SSL object stays spent, and no session is connected with one that  *)
(* is not connected already.                                                  *)
LEMMA SpentStep ==
    ASSUME Spent, [AnyNext]_sessionVars
    PROVE  Spent' /\ (connected' => connected)
  <1> DEFINE Goal == Spent' /\ (connected' => connected)
  <1>1. ASSUME Start PROVE Goal
    BY <1>1 DEF Start, Spent, stream, callbacks
  <1>2. ASSUME Stop PROVE Goal
    BY <1>2 DEF Stop, Spent, stream, callbacks
  <1>3. ASSUME ResolveFails PROVE Goal
    BY <1>3 DEF ResolveFails, Spent, stream, callbacks, Fail
  <1>4. ASSUME OnResolve PROVE Goal
    BY <1>4 DEF OnResolve, Spent, stream, callbacks
  <1>5. ASSUME ConnectFails PROVE Goal
    BY <1>5 DEF ConnectFails, Spent, stream, callbacks, Fail
  <1>6. ASSUME OnConnect PROVE Goal
    BY <1>6 DEF OnConnect, Spent, stream, callbacks
  <1>7. ASSUME SslHandshakeFails PROVE Goal
    BY <1>7 DEF SslHandshakeFails, Spent, stream, callbacks, Fail
  <1>8. ASSUME OnSslHandshake PROVE Goal
    BY <1>8 DEF OnSslHandshake, Spent, stream, callbacks
  <1>9. ASSUME HandshakeFails PROVE Goal
    BY <1>9 DEF HandshakeFails, Spent, stream, callbacks, Fail
  <1>10. ASSUME OnHandshake PROVE Goal
    BY <1>10 DEF OnHandshake, Spent, stream, callbacks
  <1>11. ASSUME OnAborted PROVE Goal
    BY <1>11 DEF OnAborted, Spent, stream, callbacks, Fail
  <1>12. ASSUME OnWrite PROVE Goal
    BY <1>12 DEF OnWrite, Spent, stream, callbacks
  <1>13. ASSUME WriteFails PROVE Goal
    BY <1>13 DEF WriteFails, Spent, stream, callbacks, Fail
  <1>14. ASSUME OnPingTimer PROVE Goal
    BY <1>14 DEF OnPingTimer, Spent, stream, callbacks
  <1>15. ASSUME OnPing PROVE Goal
    BY <1>15 DEF OnPing, Spent, stream, callbacks
  <1>16. ASSUME OnClose PROVE Goal
    BY <1>16 DEF OnClose, Spent, stream, callbacks
  <1>17. ASSUME Lose PROVE Goal
    BY <1>17 DEF Lose, Spent, stream, callbacks
  <1>18. ASSUME NEW answer \in Answers, PeerReceives(answer) PROVE Goal
    BY <1>18 DEF PeerReceives, Spent, stream, callbacks
  <1>19. ASSUME NEW m \in Message, Send(m) PROVE Goal
    BY <1>19 DEF Send, Spent, stream, callbacks
  <1>20. ASSUME NEW replies \in Replies, OnRead(replies) PROVE Goal
    BY <1>20 DEF OnRead, Spent, stream, callbacks
  <1>21. ASSUME NEW frame \in Frame, PeerSends(frame) PROVE Goal
    BY <1>21 DEF PeerSends, Spent, stream, callbacks
  <1>22. ASSUME NEW op \in {"read", "ping", "close"}, StreamFails(op) PROVE Goal
    BY <1>22 DEF StreamFails, Fail, Spent, stream, callbacks
  <1>23. CASE UNCHANGED sessionVars
    BY <1>23 DEF Spent, sessionVars, stream, callbacks
  <1> QED
    BY <1>1, <1>2, <1>3, <1>4, <1>5, <1>6, <1>7, <1>8, <1>9, <1>10, <1>11, <1>12, <1>13, <1>14, <1>15, <1>16, <1>17, <1>18, <1>19, <1>20, <1>21, <1>22, <1>23 DEF AnyNext, Callback

(* A connected session has spent its SSL object. *)
LEMMA ConnectedSpends == ASSUME SessionInv, connected PROVE Spent
  BY DEF SessionInv, ConnectedOnly, FirstAttempt, Spent, Attempts

(* A session connects once: whatever fails, and however often it tries again  *)
(* (it never stops, see NeverGivesUp), once it has lost its connection it is  *)
(* never connected again.  Run ws_reconnect shows one such behaviour.         *)
THEOREM LossIsFinal == Spec => [](connected => [](~connected => []~connected))
  <1>1. SessionInv => (connected => Spent)
    BY ConnectedSpends
  <1>2. Spent /\ [Next]_sessionVars => Spent'
    BY SpentStep, NextIsAny
  <1>3. Spent /\ ~connected /\ [Next]_sessionVars => ~connected'
    BY SpentStep, NextIsAny
  <1> QED
    BY <1>1, <1>2, <1>3, SessionInvariant, PTL DEF Spec

-----------------------------------------------------------------------------
(* A session that was stopped. *)

Stopped == started /\ ~shouldReconnect

(* The attempts to connect that are under way. *)
Trying == resolving + (IF io \cap Attempts = {} THEN 0 ELSE 1)

(* A stopped session stays stopped and makes no attempt: those under way only *)
(* become fewer.  When it is at rest, nothing wakes it up.                    *)
LEMMA StoppedStep ==
    ASSUME OperationsOK, Stopped, [AnyNext]_sessionVars
    PROVE  Stopped' /\ Trying' <= Trying /\ (AtRest => AtRest')
  <1> DEFINE Goal == Stopped' /\ Trying' <= Trying /\ (AtRest => AtRest')
  <1> USE DEF OperationsOK, Stopped, Trying, AtRest, Attempts, stream, callbacks
  <1>1. ASSUME Start PROVE Goal
    BY <1>1 DEF Start
  <1>2. ASSUME Stop PROVE Goal
    BY <1>2 DEF Stop
  <1>3. ASSUME ResolveFails PROVE Goal
    BY <1>3 DEF ResolveFails, Fail
  <1>4. ASSUME OnResolve PROVE Goal
    BY <1>4 DEF OnResolve
  <1>5. ASSUME ConnectFails PROVE Goal
    BY <1>5 DEF ConnectFails, Fail
  <1>6. ASSUME OnConnect PROVE Goal
    BY <1>6 DEF OnConnect
  <1>7. ASSUME SslHandshakeFails PROVE Goal
    BY <1>7 DEF SslHandshakeFails, Fail
  <1>8. ASSUME OnSslHandshake PROVE Goal
    BY <1>8 DEF OnSslHandshake
  <1>9. ASSUME HandshakeFails PROVE Goal
    BY <1>9 DEF HandshakeFails, Fail
  <1>10. ASSUME OnHandshake PROVE Goal
    BY <1>10 DEF OnHandshake
  <1>11. ASSUME OnAborted PROVE Goal
    BY <1>11 DEF OnAborted, Fail
  <1>12. ASSUME OnWrite PROVE Goal
    BY <1>12 DEF OnWrite
  <1>13. ASSUME WriteFails PROVE Goal
    BY <1>13 DEF WriteFails, Fail
  <1>14. ASSUME OnPingTimer PROVE Goal
    BY <1>14 DEF OnPingTimer
  <1>15. ASSUME OnPing PROVE Goal
    BY <1>15 DEF OnPing
  <1>16. ASSUME OnClose PROVE Goal
    BY <1>16 DEF OnClose
  <1>17. ASSUME Lose PROVE Goal
    BY <1>17 DEF Lose
  <1>18. ASSUME NEW answer \in Answers, PeerReceives(answer) PROVE Goal
    BY <1>18 DEF PeerReceives
  <1>19. ASSUME NEW m \in Message, Send(m) PROVE Goal
    BY <1>19 DEF Send, Sends
  <1>20. ASSUME NEW replies \in Replies, OnRead(replies) PROVE Goal
    BY <1>20 DEF OnRead, Sends
  <1>21. ASSUME NEW frame \in Frame, PeerSends(frame) PROVE Goal
    BY <1>21 DEF PeerSends
  <1>22. ASSUME NEW op \in {"read", "ping", "close"}, StreamFails(op) PROVE Goal
    BY <1>22 DEF StreamFails, Fail
  <1>23. CASE UNCHANGED sessionVars
    BY <1>23 DEF sessionVars
  <1> QED
    BY <1>1, <1>2, <1>3, <1>4, <1>5, <1>6, <1>7, <1>8, <1>9, <1>10, <1>11, <1>12, <1>13, <1>14, <1>15, <1>16, <1>17, <1>18, <1>19, <1>20, <1>21, <1>22, <1>23 DEF AnyNext, Callback

(* For any failures: after stop(), also when it came during an attempt to     *)
(* connect and cancelled nothing, no attempt is added to those under way, and *)
(* the session that has come to rest never moves again.                       *)
THEOREM StoppedMakesNoAttempt ==
    Spec => [][Stopped => Stopped' /\ Trying' <= Trying /\ (AtRest => AtRest')]_sessionVars
  <1>1. SessionInv => OperationsOK
    BY DEF SessionInv, SessionTypeOK
  <1>2. OperationsOK /\ [Next]_sessionVars
            => (Stopped => Stopped' /\ Trying' <= Trying /\ (AtRest => AtRest'))
    BY StoppedStep, NextIsAny
  <1> QED
    BY <1>1, <1>2, SessionInvariant, PTL DEF Spec
=============================================================================
