--------------------------- MODULE WebSocketSession ---------------------------
(* WebSocketSession (WebSocketSession.cpp): one WebSocket over TLS to a peer,  *)
(* as callbacks of one event loop.  Every callback is an action: the          *)
(* completion of an asynchronous operation, whose outcome the network chooses,*)
(* or the expiry of the heartbeat timer.                                      *)
(*                                                                            *)
(* The stream is modelled by what Boost documents of it.  Operations          *)
(* outstanding when the connection is lost complete with an error, one after  *)
(* the other; starting async_connect closes the socket, which aborts those of *)
(* the connection before.  An SSL object makes one handshake: another one on  *)
(* it either does nothing, if the first succeeded, or fails, and a peer that  *)
(* is sent records of an older connection hangs up.                           *)
(*                                                                            *)
(* The session is started once and stopped at most once, as its owner does;   *)
(* auth_msg and sub_msg are empty, as its owner gives them, so on_handshake() *)
(* sends neither; the host name is one SSL_set_tlsext_host_name accepts; the  *)
(* build is one without Boost's debug assertions.                             *)
EXTENDS Integers, Sequences, FiniteSets

CONSTANTS
    Message,            \* what may be sent
    Frame,              \* what the peer may send
    MaxSent,            \* bound on the messages given to send()
    MaxInbox,           \* bound on the frames under way to the session
    MaxFaults           \* bound on the failures of the network

ASSUME SessionAssumption == MaxSent \in Nat /\ MaxInbox \in Nat /\ MaxFaults \in Nat

VARIABLES
    connected,          \* _connected
    shouldReconnect,    \* _should_reconnect
    writeQueue,         \* _write_queue
    started,            \* start() was called by the owner
    resolving,          \* number of async_resolve outstanding
    io,                 \* the operations outstanding on _ws, but for writes
    writes,             \* number of async_write outstanding
    aborted,            \* operations of a closed socket whose callback is due
    timer,              \* _ping_timer is armed
    wsOpen,             \* _ws.is_open()
    tls,                \* the SSL object of _ws: has it begun, or done, a handshake?
    sameTls,            \* it began that handshake on the socket it has now
    link,               \* the socket is connected and the peer there
    outbox,             \* messages written and under way to the peer
    inbox,              \* frames under way to the session
    sent,               \* history: what was given to send()
    received,           \* history: what the peer received
    faults              \* failures so far

callbacks == <<resolving, io, writes, aborted, timer>>
stream    == <<wsOpen, tls, sameTls, link>>
sessionVars == <<connected, shouldReconnect, writeQueue, started, callbacks, stream, outbox,
                 inbox, sent, received, faults>>

Attempts == {"connect", "tls", "upgrade"}
Operations == Attempts \cup {"read", "ping", "close"}

FlagsOK ==
    /\ connected \in BOOLEAN /\ shouldReconnect \in BOOLEAN /\ started \in BOOLEAN
    /\ timer \in BOOLEAN /\ wsOpen \in BOOLEAN /\ sameTls \in BOOLEAN /\ link \in BOOLEAN

OperationsOK ==
    /\ resolving \in Nat /\ io \subseteq Operations /\ writes \in Nat /\ aborted \in Nat
    /\ tls \in {"fresh", "begun", "done"}
    /\ faults \in Nat

MessagesOK ==
    /\ writeQueue \in Seq(Message) /\ outbox \in Seq(Message) /\ inbox \in Seq(Frame)
    /\ sent \in Seq(Message) /\ received \in Seq(Message)

SessionTypeOK == FlagsOK /\ OperationsOK /\ MessagesOK

SessionInit ==
    /\ connected = FALSE /\ shouldReconnect = TRUE /\ started = FALSE
    /\ writeQueue = <<>> /\ outbox = <<>> /\ inbox = <<>>
    /\ resolving = 0 /\ io = {} /\ writes = 0 /\ aborted = 0
    /\ timer = FALSE /\ wsOpen = FALSE /\ tls = "fresh" /\ sameTls = FALSE /\ link = FALSE
    /\ sent = <<>> /\ received = <<>> /\ faults = 0

-----------------------------------------------------------------------------
(* send() and the owner's calls *)

(* async_write of m. *)
WriteOut(m) == outbox' = IF link THEN Append(outbox, m) ELSE outbox

(* Mutant: send() starts a write whenever it is connected. *)
SendsAlways(msgs) ==
    /\ sent' = sent \o msgs
    /\ writeQueue' = writeQueue \o msgs
    /\ IF connected /\ msgs # <<>>
       THEN writes' = writes + 1 /\ WriteOut(Head(writeQueue'))
       ELSE UNCHANGED <<writes, outbox>>

(* send() of each of msgs: the first of them may find the queue empty. *)
Sends(msgs) ==
    /\ sent' = sent \o msgs
    /\ writeQueue' = writeQueue \o msgs
    /\ IF connected /\ writeQueue = <<>> /\ msgs # <<>>
       THEN writes' = writes + 1 /\ WriteOut(Head(msgs))
       ELSE UNCHANGED <<writes, outbox>>

Send(m) ==
    /\ Sends(<<m>>)
    /\ UNCHANGED <<connected, shouldReconnect, started, resolving, io, aborted, timer, stream,
                   inbox, received, faults>>

Start ==
    /\ ~started
    /\ started' = TRUE
    /\ resolving' = resolving + 1
    /\ UNCHANGED <<connected, shouldReconnect, writeQueue, io, writes, aborted, timer, stream,
                   outbox, inbox, sent, received, faults>>

(* Mutant: stop() closes the connection only. *)
StopKeepsReconnecting ==
    /\ started /\ shouldReconnect
    /\ UNCHANGED shouldReconnect
    /\ connected' = FALSE
    /\ timer' = FALSE
    /\ "close" \notin io
    /\ io' = IF wsOpen THEN io \cup {"close"} ELSE io
    /\ UNCHANGED <<writeQueue, started, resolving, writes, aborted, stream, outbox, inbox, sent,
                   received, faults>>

Stop ==
    /\ started /\ shouldReconnect
    /\ shouldReconnect' = FALSE
    /\ connected' = FALSE
    /\ timer' = FALSE
    /\ io' = IF wsOpen THEN io \cup {"close"} ELSE io
    /\ UNCHANGED <<writeQueue, started, resolving, writes, aborted, stream, outbox, inbox, sent,
                   received, faults>>

-----------------------------------------------------------------------------
(* fail(), reconnect() and the attempts to connect *)

(* Mutant: fail() leaves reconnecting to somebody else. *)
FailGivesUp(still) ==
    /\ connected' = FALSE
    /\ resolving' = still

(* fail(), with still attempts resolving: reconnect() sleeps on the loop, so  *)
(* nothing happens in between, and start() finds _connected false.            *)
Fail(still) ==
    /\ connected' = FALSE
    /\ resolving' = IF shouldReconnect THEN still + 1 ELSE still

Fault == faults < MaxFaults /\ faults' = faults + 1

ResolveFails ==
    /\ resolving > 0
    /\ Fault
    /\ Fail(resolving - 1)
    /\ UNCHANGED <<shouldReconnect, writeQueue, started, io, writes, aborted, timer, stream,
                   outbox, inbox, sent, received>>

(* async_connect closes the socket and opens another. *)
OnResolve ==
    /\ resolving > 0
    /\ resolving' = resolving - 1
    /\ io' = {"connect"}
    /\ writes' = 0
    /\ aborted' = aborted + Cardinality(io) + writes
    /\ link' = FALSE
    /\ wsOpen' = FALSE
    /\ inbox' = <<>> /\ outbox' = <<>>
    /\ UNCHANGED <<connected, shouldReconnect, writeQueue, started, timer, tls, sameTls, sent,
                   received, faults>>

ConnectFails ==
    /\ "connect" \in io
    /\ Fault
    /\ io' = io \ {"connect"}
    /\ Fail(resolving)
    /\ UNCHANGED <<shouldReconnect, writeQueue, started, writes, aborted, timer, stream, outbox,
                   inbox, sent, received>>

(* The TLS handshake begins. *)
OnConnect ==
    /\ "connect" \in io
    /\ io' = (io \ {"connect"}) \cup {"tls"}
    /\ link' = TRUE
    /\ sameTls' = (tls = "fresh")
    /\ tls' = IF tls = "fresh" THEN "begun" ELSE tls
    /\ UNCHANGED <<connected, shouldReconnect, writeQueue, started, resolving, writes, aborted,
                   timer, wsOpen, outbox, inbox, sent, received, faults>>

OnSslHandshake ==
    /\ "tls" \in io
    /\ IF sameTls THEN link ELSE tls = "done"
    /\ tls' = "done"
    /\ io' = (io \ {"tls"}) \cup {"upgrade"}
    /\ UNCHANGED <<connected, shouldReconnect, writeQueue, started, resolving, writes, aborted,
                   timer, wsOpen, sameTls, link, outbox, inbox, sent, received, faults>>

SslHandshakeFails ==
    /\ "tls" \in io
    /\ ~link \/ (~sameTls /\ tls = "begun")
    /\ io' = io \ {"tls"}
    /\ Fail(resolving)
    /\ UNCHANGED <<shouldReconnect, writeQueue, started, writes, aborted, timer, stream, outbox,
                   inbox, sent, received, faults>>

(* Connected: write what was sent before, arm the heartbeat and read. *)
OnHandshake ==
    /\ "upgrade" \in io
    /\ link /\ sameTls
    /\ connected' = TRUE
    /\ wsOpen' = TRUE
    /\ io' = (io \ {"upgrade"}) \cup {"read"}
    /\ timer' = TRUE
    /\ IF writeQueue # <<>>
       THEN writes' = writes + 1 /\ WriteOut(Head(writeQueue))
       ELSE UNCHANGED <<writes, outbox>>
    /\ UNCHANGED <<shouldReconnect, writeQueue, started, resolving, aborted, tls, sameTls, link,
                   inbox, sent, received, faults>>

(* Mutant: an attempt that fails at the peer makes another one, stop() or not. *)
HandshakeFailsTriesAgain ==
    /\ "upgrade" \in io
    /\ ~link \/ ~sameTls
    /\ io' = io \ {"upgrade"}
    /\ connected' = FALSE
    /\ resolving' = resolving + 1
    /\ UNCHANGED <<shouldReconnect, writeQueue, started, writes, aborted, timer, stream, outbox,
                   inbox, sent, received, faults>>

HandshakeFails ==
    /\ "upgrade" \in io
    /\ ~link \/ ~sameTls
    /\ io' = io \ {"upgrade"}
    /\ Fail(resolving)
    /\ UNCHANGED <<shouldReconnect, writeQueue, started, writes, aborted, timer, stream, outbox,
                   inbox, sent, received, faults>>

(* The callback of an operation that a later async_connect aborted. *)
OnAborted ==
    /\ aborted > 0
    /\ aborted' = aborted - 1
    /\ Fail(resolving)
    /\ UNCHANGED <<shouldReconnect, writeQueue, started, io, writes, timer, stream, outbox, inbox,
                   sent, received, faults>>

-----------------------------------------------------------------------------
(* Reading, writing, the heartbeat and closing *)

(* A frame arrives, and its handler sends replies; then read on. *)
OnRead(replies) ==
    /\ "read" \in io /\ inbox # <<>>
    /\ inbox' = Tail(inbox)
    /\ Sends(replies)
    /\ UNCHANGED <<connected, shouldReconnect, started, resolving, io, aborted, timer, stream,
                   received, faults>>

(* Mutant: on_write() pops, and leaves the rest of the queue to send(). *)
OnWriteOnce ==
    /\ writes > 0
    /\ writeQueue' = Tail(writeQueue)
    /\ writes' = writes - 1
    /\ UNCHANGED <<connected, shouldReconnect, started, resolving, io, aborted, timer, stream,
                   outbox, inbox, sent, received, faults>>

(* Mutant: on_write() goes on with the newest message. *)
OnWriteNewest ==
    /\ writes > 0
    /\ writeQueue' = Tail(writeQueue)
    /\ IF writeQueue' # <<>> /\ connected
       THEN UNCHANGED writes /\ WriteOut(writeQueue[Len(writeQueue)])
       ELSE writes' = writes - 1 /\ UNCHANGED outbox
    /\ UNCHANGED <<connected, shouldReconnect, started, resolving, io, aborted, timer, stream,
                   inbox, sent, received, faults>>

(* A write is done: the next message, if still connected. *)
OnWrite ==
    /\ writes > 0
    /\ writeQueue' = Tail(writeQueue)
    /\ IF writeQueue' # <<>> /\ connected
       THEN UNCHANGED writes /\ WriteOut(Head(writeQueue'))
       ELSE writes' = writes - 1 /\ UNCHANGED outbox
    /\ UNCHANGED <<connected, shouldReconnect, started, resolving, io, aborted, timer, stream,
                   inbox, sent, received, faults>>

WriteFails ==
    /\ writes > 0 /\ ~link
    /\ writes' = writes - 1
    /\ wsOpen' = FALSE
    /\ Fail(resolving)
    /\ UNCHANGED <<shouldReconnect, writeQueue, started, io, aborted, timer, tls, sameTls, link,
                   outbox, inbox, sent, received, faults>>

(* Mutant: the heartbeat ends with its first ping. *)
OnPingTimerForgets ==
    /\ timer
    /\ timer' = FALSE
    /\ UNCHANGED io
    /\ UNCHANGED <<connected, shouldReconnect, writeQueue, started, resolving, writes, aborted,
                   stream, outbox, inbox, sent, received, faults>>

OnPingTimer ==
    /\ timer
    /\ timer' = FALSE
    /\ io' = IF connected THEN io \cup {"ping"} ELSE io
    /\ UNCHANGED <<connected, shouldReconnect, writeQueue, started, resolving, writes, aborted,
                   stream, outbox, inbox, sent, received, faults>>

(* The ping is out: arm the timer again. *)
OnPing ==
    /\ "ping" \in io
    /\ io' = io \ {"ping"}
    /\ timer' = TRUE
    /\ UNCHANGED <<connected, shouldReconnect, writeQueue, started, resolving, writes, aborted,
                   stream, outbox, inbox, sent, received, faults>>

(* Mutant: on_read() reads on after an error. *)
StreamFailsReadsOn(op) ==
    /\ op \in io /\ ~link
    /\ op = "read" => inbox = <<>>
    /\ io' = io \ ({op} \ {"read"})
    /\ wsOpen' = FALSE
    /\ Fail(resolving)
    /\ UNCHANGED <<shouldReconnect, writeQueue, started, writes, aborted, timer, tls, sameTls,
                   link, outbox, inbox, sent, received, faults>>

(* A read, a ping or the close finds the connection lost. *)
StreamFails(op) ==
    /\ op \in io /\ ~link
    /\ op = "read" => inbox = <<>>
    /\ io' = io \ {op}
    /\ wsOpen' = FALSE
    /\ Fail(resolving)
    /\ UNCHANGED <<shouldReconnect, writeQueue, started, writes, aborted, timer, tls, sameTls,
                   link, outbox, inbox, sent, received, faults>>

(* The close handshake, which waits for its turn to write and drops the       *)
(* frames it meets while it waits for the peer's answer.                      *)
OnClose ==
    /\ "close" \in io /\ link
    /\ writes = 0 /\ "ping" \notin io /\ outbox = <<>>
    /\ io' = io \ {"close"}
    /\ wsOpen' = FALSE /\ link' = FALSE
    /\ inbox' = <<>>
    /\ UNCHANGED <<connected, shouldReconnect, writeQueue, started, resolving, writes, aborted,
                   timer, tls, sameTls, outbox, sent, received, faults>>

-----------------------------------------------------------------------------
(* The network and the peer *)

(* The connection is lost, with any of the frames under way. *)
Lose ==
    /\ link
    /\ Fault
    /\ link' = FALSE
    /\ outbox' = <<>>
    /\ \E n \in 0 .. Len(inbox) : inbox' = SubSeq(inbox, 1, n)
    /\ UNCHANGED <<connected, shouldReconnect, writeQueue, started, callbacks, wsOpen, tls,
                   sameTls, sent, received>>

(* The peer may answer what it receives with a frame. *)
PeerReceives(answer) ==
    /\ outbox # <<>> /\ link
    /\ Len(inbox) + Len(answer) <= MaxInbox
    /\ received' = Append(received, Head(outbox))
    /\ outbox' = Tail(outbox)
    /\ inbox' = inbox \o answer
    /\ UNCHANGED <<connected, shouldReconnect, writeQueue, started, callbacks, stream, sent,
                   faults>>

PeerSends(frame) ==
    /\ wsOpen /\ link
    /\ Len(inbox) < MaxInbox
    /\ inbox' = Append(inbox, frame)
    /\ UNCHANGED <<connected, shouldReconnect, writeQueue, started, callbacks, stream, outbox,
                   sent, received, faults>>

(* Callbacks that do not depend on the frame handler. *)
Callback ==
    \/ ResolveFails \/ OnResolve
    \/ ConnectFails \/ OnConnect
    \/ SslHandshakeFails \/ OnSslHandshake
    \/ HandshakeFails \/ OnHandshake
    \/ OnAborted
    \/ OnWrite \/ WriteFails
    \/ OnPingTimer \/ OnPing
    \/ OnClose
    \/ \E op \in {"read", "ping", "close"} : StreamFails(op)

(* The frame handler sends at most one message. *)
Replies == {<<>>} \cup {<<m>> : m \in Message}

Answers == {<<>>} \cup {<<frame>> : frame \in Frame}

Next ==
    \/ Start \/ Stop
    \/ \E m \in Message : Len(sent) < MaxSent /\ Send(m)
    \/ Callback
    \/ \E replies \in Replies : Len(sent) + Len(replies) <= MaxSent /\ OnRead(replies)
    \/ Lose
    \/ \E answer \in Answers : PeerReceives(answer)
    \/ \E frame \in Frame : PeerSends(frame)

(* Each operation completes: the loop runs, the network answers, and every    *)
(* operation has a deadline or notices that the peer is gone.                 *)
CallbackFairness ==
    /\ WF_sessionVars(OnResolve \/ ResolveFails)
    /\ WF_sessionVars(OnConnect \/ ConnectFails)
    /\ WF_sessionVars(OnSslHandshake \/ SslHandshakeFails)
    /\ WF_sessionVars(OnHandshake \/ HandshakeFails)
    /\ WF_sessionVars(OnAborted)
    /\ WF_sessionVars(OnWrite \/ WriteFails)
    /\ WF_sessionVars(OnPing \/ StreamFails("ping"))
    /\ WF_sessionVars(OnPingTimer)
    /\ WF_sessionVars(OnClose \/ StreamFails("close"))
    /\ WF_sessionVars(StreamFails("read"))

Spec == SessionInit /\ [][Next]_sessionVars

FairSpec ==
    /\ Spec
    /\ CallbackFairness
    /\ WF_sessionVars(\E answer \in Answers : PeerReceives(answer))
    /\ WF_sessionVars(\E replies \in Replies : OnRead(replies))

-----------------------------------------------------------------------------
(* Properties *)

(* Boost allows one async_write at a time and on_write() pops what it wrote:  *)
(* never two writes, never a write of nothing, and never a message left in    *)
(* the queue of a connection that nobody is writing to.                       *)
WriteInProgress ==
    /\ writes <= 1
    /\ writes = 1 => writeQueue # <<>>
    /\ connected /\ writeQueue # <<>> => writes + aborted > 0

(* The peer receives what was given to send(), in that order, nothing twice   *)
(* and nothing left out, wherever the connection was when it was given.       *)
SentInOrder ==
    LET peer == received \o outbox
    IN  Len(peer) <= Len(sent) /\ peer = SubSeq(sent, 1, Len(peer))

(* A session that wants to reconnect and is not connected has an attempt      *)
(* going, or the callback that starts one is due: fail() is never skipped.    *)
KeepsTrying ==
    started /\ shouldReconnect /\ ~connected =>
        resolving > 0 \/ aborted > 0 \/ io \cap Attempts # {}

(* A lost connection fails the read, the write and the ping that are          *)
(* outstanding, and each failure starts an attempt of its own; these abort    *)
(* one another, but they do not multiply.                                     *)
FewAttempts ==
    resolving + aborted + Cardinality(io \cap (Attempts \cup {"read", "ping"})) + writes <= 3

(* A connected session reads and has its heartbeat, so that it learns of the  *)
(* loss of the connection from either.                                        *)
Listening ==
    connected => aborted > 0 \/ ("read" \in io /\ (timer \/ "ping" \in io))

(* What is given to send() reaches the peer as long as the session stays      *)
(* connected, also when frames, pings and other writes come in between.       *)
Delivered ==
    \A n \in 1 .. MaxSent :
        connected /\ Len(sent) >= n ~> ~connected \/ Len(received) >= n

(* A session that is stopped while its stream is open comes to rest: nothing  *)
(* outstanding, no timer, no attempt to connect.                              *)
AtRest == ~connected /\ resolving = 0 /\ io = {} /\ writes = 0 /\ aborted = 0 /\ ~timer

StopsForGood == "close" \in io ~> []AtRest

(* stop() cancels no attempt to connect.  One that is under way may still     *)
(* succeed, and then the session stays connected until the network or the     *)
(* peer ends that; but however the attempt ends, no other is made: in the end *)
(* the session rests for good, or it is connected for good.                   *)
StopEndsTrying == started /\ ~shouldReconnect ~> []AtRest \/ [](connected /\ link)

(* README: the program flow continues for all normal market hours.  A session *)
(* that is not connected is connected again, once the network works.          *)
Reconnects == started /\ ~connected ~> connected \/ ~shouldReconnect
=============================================================================
