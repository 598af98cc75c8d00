--------------------------- MODULE AsyncRestClient ---------------------------
(* async_rest_client: the HTTP(S) client all broker calls go through          *)
(* (async_rest_client.cpp, typed_task.hpp).                                   *)
(*                                                                            *)
(* Coroutines call request(); each call queues a task and waits on it.  One   *)
(* detached coroutine at a time, process_queue() (here the caller Loop),      *)
(* takes the tasks in order over one connection that it opens, reuses and     *)
(* switches between origins.  connect() is public: other coroutines           *)
(* (Connector) may call it while the loop runs.                               *)
(*                                                                            *)
(* Everything runs on one io_context thread, so an action is the code from    *)
(* one suspension point to the next.  Two calls nest instead of suspending,   *)
(* and the model keeps both:                                                  *)
(*  - co_spawn() runs process_queue() inside request(), up to its first       *)
(*    suspension, before the requester has installed its handler: a requester *)
(*    is "calling" in between;                                                *)
(*  - answering a task resumes its requester inside the loop, before the task *)
(*    is popped: pc[Loop] = "pop" in between, when the requester may already  *)
(*    make its next request.                                                  *)
EXTENDS Sequences, Functions

CONSTANTS
    Req,                \* coroutines that call request(), one call at a time
    Origin,             \* scheme://host:port triples
    TlsOrigin,          \* those with scheme https
    SniRefused,         \* https origins whose host name SSL_set_tlsext_host_name refuses
    Connector,          \* coroutines that call connect() themselves
    Loop,               \* the coroutine running process_queue()
    NoOrigin,           \* a cleared _current_origin, an unconnected socket
    BadUrl,             \* a URL make_http_https_url() throws on
    Faults              \* whether network operations may fail

Caller == Connector \cup {Loop}

ASSUME OriginAssumption ==
    /\ TlsOrigin \subseteq Origin
    /\ SniRefused \subseteq TlsOrigin
    /\ NoOrigin \notin Origin
    /\ BadUrl \notin Origin
    /\ NoOrigin # BadUrl

ASSUME LoopAssumption == Loop \notin Connector

ASSUME FaultsAssumption == Faults \in BOOLEAN

VARIABLES
    tasks,              \* _tasks: the requesters of the queued tasks
    isProcessing,       \* _is_processing
    connectionState,    \* _connection_state
    currentOrigin,      \* _current_origin
    isTls,              \* _is_tls
    stream,             \* *_tcp_stream and *_ssl_stream
    pc,                 \* where each caller is suspended
    target,             \* the url local to each caller's connect()
    via,                \* the stream process_queue() passed to send()
    aborted,            \* callers whose operation lost its stream
    endpoint,           \* the endpoint of each requester's latest task
    status,             \* what each requester has seen of its latest request
    life                \* "alive" until ~async_rest_client

queue == <<tasks, isProcessing>>
conn  == <<connectionState, currentOrigin, isTls, stream>>
ctl   == <<pc, target, via, aborted>>
reqs  == <<endpoint, status>>
vars  == <<tasks, isProcessing, connectionState, currentOrigin, isTls, stream,
           pc, target, via, aborted, endpoint, status, life>>

Kind == {"tcp", "ssl"}

KindOf(tls) == IF tls THEN "ssl" ELSE "tcp"

ConnectingOn(k) == IF k = "ssl" THEN "connect_ssl" ELSE "connect_tcp"

ConnectPhase == {"resolve", "connect_tcp", "connect_ssl", "handshake", "rehandshake"}

LoopPhase == ConnectPhase \cup {"off", "next", "shutdown", "write", "read", "pop", "threw"}

Status == {"idle", "rejected", "calling", "waiting", "ok", "error", "canceled", "lost"}

(* A stream: the origin its socket is connected to; whether exchanges can     *)
(* still succeed on it; whether its SSL object has never started a handshake  *)
(* (OpenSSL does not let one carry a second session).                         *)
StreamState == [peer : Origin \cup {NoOrigin}, usable : BOOLEAN, fresh : BOOLEAN]

NewStream == [peer |-> NoOrigin, usable |-> FALSE, fresh |-> TRUE]

TypeOK ==
    /\ tasks \in Seq(Req)
    /\ isProcessing \in BOOLEAN
    /\ connectionState \in {"NOT_CONNECTED", "CONNECTING", "CONNECTED"}
    /\ currentOrigin \in Origin \cup {NoOrigin}
    /\ isTls \in BOOLEAN
    /\ stream \in [Kind -> StreamState]
    /\ pc \in [Caller -> LoopPhase]
    /\ \A x \in Connector : pc[x] \in ConnectPhase \cup {"off"}
    /\ target \in [Caller -> Origin \cup {NoOrigin}]
    /\ via \in Kind
    /\ aborted \subseteq Caller
    /\ endpoint \in [Req -> Origin \cup {NoOrigin}]
    /\ status \in [Req -> Status]
    /\ life \in {"alive", "destroyed"}

Init ==
    /\ tasks = <<>>
    /\ isProcessing = FALSE
    /\ connectionState = "NOT_CONNECTED"
    /\ currentOrigin = NoOrigin
    /\ isTls = FALSE
    /\ stream = [k \in Kind |-> NewStream]
    /\ pc = [c \in Caller |-> "off"]
    /\ target = [c \in Caller |-> NoOrigin]
    /\ via = "tcp"
    /\ aborted = {}
    /\ endpoint = [r \in Req |-> NoOrigin]
    /\ status = [r \in Req |-> "idle"]
    /\ life = "alive"

-----------------------------------------------------------------------------
(* Who runs *)

(* The tasks not answered yet: an answered task is popped only after its      *)
(* requester was resumed.                                                     *)
Unanswered == IF pc[Loop] = "pop" THEN Tail(tasks) ELSE tasks

NoCaller == \A r \in Req : status[r] # "calling"

(* The thread is back in io_context::run(): a completion may be delivered. *)
Quiet ==
    /\ life = "alive"
    /\ NoCaller
    /\ pc[Loop] \notin {"next", "pop"}

(* Some requester or connector coroutine has the thread and may call in. *)
MayCall ==
    /\ life = "alive"
    /\ NoCaller
    /\ pc[Loop] # "next"

-----------------------------------------------------------------------------
(* Streams *)

(* The stream a caller has an operation outstanding on. *)
UsersOf(k) ==
    {c \in Caller :
        \/ pc[c] \in {"connect_ssl", "handshake", "rehandshake", "shutdown"} /\ k = "ssl"
        \/ pc[c] = "connect_tcp" /\ k = "tcp"
        \/ pc[c] \in {"write", "read"} /\ k = via}

(* What becomes of a stream: closed before it connects again, past its         *)
(* deadline, connected (a TLS one still has to shake hands).                  *)
Closed(s)    == [peer |-> NoOrigin, usable |-> FALSE, fresh |-> s.fresh]
Expired(s)   == [peer |-> s.peer, usable |-> FALSE, fresh |-> s.fresh]
TcpTo(u)     == [peer |-> u, usable |-> TRUE, fresh |-> TRUE]
SslTo(u, ok) == [peer |-> u, usable |-> ok, fresh |-> FALSE]

(* Closing or replacing a stream ends the operations outstanding on it. *)
AbortOthers(c, k) == aborted' = (aborted \cup UsersOf(k)) \ {c}

(* A caller's own operation has completed. *)
Completed(c) == aborted' = aborted \ {c}

-----------------------------------------------------------------------------
(* The front task's answer: typed_task::fail() or the end of run_impl().  A   *)
(* task whose handler is not installed yet is dropped without a word.         *)
AnswerFront(res) ==
    /\ status' = IF status[Head(tasks)] = "waiting"
                 THEN [status EXCEPT ![Head(tasks)] = res]
                 ELSE status
    /\ pc' = [pc EXCEPT ![Loop] = "pop"]

-----------------------------------------------------------------------------
(* connect(): called by the loop for the front task, or by a Connector *)

(* Up to the first suspension, async_resolve(). *)
BeginResolve(c, u) ==
    /\ connectionState' = "CONNECTING"
    /\ isTls' = (u \in TlsOrigin)
    /\ target' = [target EXCEPT ![c] = u]
    /\ pc' = [pc EXCEPT ![c] = "resolve"]
    /\ UNCHANGED <<queue, currentOrigin, stream, via, aborted, reqs, life>>

(* Mutant: connect() fails without resetting _connection_state. *)
ConnectFailedNoReset(c) ==
    /\ UNCHANGED connectionState
    /\ IF c = Loop
       THEN AnswerFront("error")
       ELSE pc' = [pc EXCEPT ![c] = "off"] /\ UNCHANGED status

(* Mutant: the loop drops the front task without failing it. *)
ConnectFailedSilently(c) ==
    /\ connectionState' = "NOT_CONNECTED"
    /\ pc' = [pc EXCEPT ![c] = IF c = Loop THEN "pop" ELSE "off"]
    /\ UNCHANGED status

(* connect() returns an error; the loop fails the front task with it. *)
ConnectFailed(c) ==
    /\ connectionState' = "NOT_CONNECTED"
    /\ IF c = Loop
       THEN AnswerFront("error")
       ELSE pc' = [pc EXCEPT ![c] = "off"] /\ UNCHANGED status

(* connect() returns success; the loop goes on to send() without suspending,  *)
(* over the stream that _is_tls names by now.                                 *)
ConnectSucceeded(c) ==
    /\ connectionState' = "CONNECTED"
    /\ currentOrigin' = target[c]
    /\ pc' = [pc EXCEPT ![c] = IF c = Loop THEN "write" ELSE "off"]
    /\ via' = IF c = Loop THEN KindOf(isTls) ELSE via

(* async_resolve() completes.  _is_tls is read again after the suspension,    *)
(* and async_connect() first closes the socket it connects.                   *)
Resolved(c) ==
    /\ Quiet
    /\ pc[c] = "resolve"
    /\ LET k == KindOf(isTls) IN
         /\ pc' = [pc EXCEPT ![c] = ConnectingOn(k)]
         /\ stream' = [stream EXCEPT ![k] = Closed(stream[k])]
         /\ AbortOthers(c, k)
    /\ UNCHANGED <<queue, connectionState, currentOrigin, isTls, target, via, reqs, life>>

ResolveFails(c) ==
    /\ Quiet
    /\ pc[c] = "resolve"
    /\ Faults
    /\ ConnectFailed(c)
    /\ UNCHANGED <<queue, currentOrigin, isTls, stream, target, via, aborted, endpoint, life>>

(* The plain socket connects: there is nothing else to wait for. *)
TcpConnected(c) ==
    /\ Quiet
    /\ pc[c] = "connect_tcp"
    /\ c \notin aborted
    /\ ConnectSucceeded(c)
    /\ stream' = [stream EXCEPT !["tcp"] = TcpTo(target[c])]
    /\ UNCHANGED <<queue, isTls, target, aborted, reqs, life>>

(* The socket under the SSL stream connects and the handshake starts. *)
SslConnected(c) ==
    /\ Quiet
    /\ pc[c] = "connect_ssl"
    /\ c \notin aborted
    /\ pc' = [pc EXCEPT ![c] = IF stream["ssl"].fresh THEN "handshake" ELSE "rehandshake"]
    /\ stream' = [stream EXCEPT !["ssl"] = SslTo(target[c], FALSE)]
    /\ UNCHANGED <<queue, connectionState, currentOrigin, isTls, target, via, aborted, reqs, life>>

(* async_handshake() succeeds.  A second handshake on a spent SSL object may  *)
(* say so too (OpenSSL finds it already established); no exchange will work.  *)
Handshaken(c) ==
    /\ Quiet
    /\ pc[c] \in {"handshake", "rehandshake"}
    /\ c \notin aborted
    /\ ConnectSucceeded(c)
    /\ stream' = [stream EXCEPT !["ssl"] = SslTo(target[c], pc[c] = "handshake")]
    /\ UNCHANGED <<queue, isTls, target, aborted, reqs, life>>

(* async_connect() or async_handshake() fails: refused, past the 30 s         *)
(* deadline, not verified, or its stream was taken away.                      *)
ConnectStepFails(c) ==
    /\ Quiet
    /\ pc[c] \in {"connect_tcp", "connect_ssl", "handshake", "rehandshake"}
    /\ Faults \/ c \in aborted \/ pc[c] = "rehandshake"
    /\ ConnectFailed(c)
    /\ Completed(c)
    /\ UNCHANGED <<queue, currentOrigin, isTls, stream, target, via, endpoint, life>>

(* Mutant: connect() sets _is_tls before it looks whether another is under way. *)
ConnectSetsTlsFirst(x, u) ==
    /\ MayCall
    /\ pc[x] = "off"
    /\ IF connectionState = "CONNECTING" \/ u \in {BadUrl} \cup SniRefused
       THEN /\ isTls' = (u \in TlsOrigin)
            /\ connectionState' = IF connectionState = "CONNECTING"
                                  THEN connectionState ELSE "NOT_CONNECTED"
            /\ UNCHANGED <<queue, currentOrigin, stream, ctl, reqs, life>>
       ELSE BeginResolve(x, u)

(* connect() called from outside.  While another connect() is under way it    *)
(* returns operation_in_progress at once and changes nothing.                 *)
Connect(x, u) ==
    /\ MayCall
    /\ pc[x] = "off"
    /\ connectionState # "CONNECTING"
    /\ IF u \in {BadUrl} \cup SniRefused
       THEN /\ connectionState' = "NOT_CONNECTED"
            /\ isTls' = IF u = BadUrl THEN isTls ELSE TRUE
            /\ UNCHANGED <<queue, currentOrigin, stream, ctl, reqs, life>>
       ELSE BeginResolve(x, u)

-----------------------------------------------------------------------------
(* request() *)

(* Mutant: the task is made without checking its URL. *)
RequestUnchecked(r, u) ==
    /\ MayCall
    /\ status[r] \notin {"waiting", "canceled", "lost"}
    /\ tasks' = Append(tasks, r)
    /\ endpoint' = [endpoint EXCEPT ![r] = u]
    /\ status' = [status EXCEPT ![r] = "calling"]
    /\ isProcessing' = TRUE
    /\ pc' = IF isProcessing THEN pc ELSE [pc EXCEPT ![Loop] = "next"]
    /\ UNCHANGED <<conn, target, via, aborted, life>>

(* make_task() throws on a bad URL; enqueue_task() otherwise, which runs the  *)
(* loop at once when it is not running.                                       *)
Request(r, u) ==
    /\ MayCall
    /\ status[r] \notin {"waiting", "canceled", "lost"}
    /\ IF u = BadUrl
       THEN /\ status' = [status EXCEPT ![r] = "rejected"]
            /\ UNCHANGED <<queue, endpoint, pc>>
       ELSE /\ tasks' = Append(tasks, r)
            /\ endpoint' = [endpoint EXCEPT ![r] = u]
            /\ status' = [status EXCEPT ![r] = "calling"]
            /\ isProcessing' = TRUE
            /\ pc' = IF isProcessing THEN pc ELSE [pc EXCEPT ![Loop] = "next"]
    /\ UNCHANGED <<conn, target, via, aborted, life>>

(* task_ptr->async_wait() installs the handler, once the loop has given the   *)
(* thread back.  If the loop already popped the task, task_ptr dangles: the   *)
(* requester is lost.                                                         *)
AsyncWait(r) ==
    /\ life = "alive"
    /\ status[r] = "calling"
    /\ pc[Loop] # "next"
    /\ pc[Loop] = "pop" => r \in Range(Unanswered)
    /\ status' = [status EXCEPT ![r] = IF r \in Range(Unanswered) THEN "waiting" ELSE "lost"]
    /\ UNCHANGED <<queue, conn, ctl, endpoint, life>>

-----------------------------------------------------------------------------
(* process_queue() *)

(* Mutant: the loop ends without clearing _is_processing. *)
QueueDrainedKeepsFlag ==
    /\ pc[Loop] = "next"
    /\ tasks = <<>>
    /\ pc' = [pc EXCEPT ![Loop] = "off"]
    /\ UNCHANGED <<queue, conn, target, via, aborted, reqs, life>>

(* The queue is empty: the coroutine ends. *)
QueueDrained ==
    /\ pc[Loop] = "next"
    /\ tasks = <<>>
    /\ isProcessing' = FALSE
    /\ pc' = [pc EXCEPT ![Loop] = "off"]
    /\ UNCHANGED <<tasks, conn, target, via, aborted, reqs, life>>

(* Mutant: any open connection is good enough for the front task. *)
LoopSendAnywhere ==
    /\ pc[Loop] = "next"
    /\ tasks # <<>>
    /\ connectionState = "CONNECTED"
    /\ via' = KindOf(isTls)
    /\ pc' = [pc EXCEPT ![Loop] = "write"]
    /\ UNCHANGED <<queue, conn, target, aborted, reqs, life>>

(* Connected to the front task's origin: send(), up to async_write(). *)
LoopSend ==
    /\ pc[Loop] = "next"
    /\ tasks # <<>>
    /\ connectionState = "CONNECTED"
    /\ currentOrigin = endpoint[Head(tasks)]
    /\ via' = KindOf(isTls)
    /\ pc' = [pc EXCEPT ![Loop] = "write"]
    /\ UNCHANGED <<queue, conn, target, aborted, reqs, life>>

(* The end of graceful_shutdown(). *)
Disconnected ==
    /\ currentOrigin' = NoOrigin
    /\ isTls' = FALSE
    /\ connectionState' = "NOT_CONNECTED"

(* Connected to another origin: graceful_shutdown(), which suspends only for  *)
(* a TLS stream and closes and replaces a plain one at once.                  *)
LoopSwitchHost ==
    /\ pc[Loop] = "next"
    /\ tasks # <<>>
    /\ connectionState = "CONNECTED"
    /\ currentOrigin # endpoint[Head(tasks)]
    /\ IF isTls
       THEN /\ pc' = [pc EXCEPT ![Loop] = "shutdown"]
            /\ UNCHANGED <<conn, aborted>>
       ELSE /\ stream' = [stream EXCEPT !["tcp"] = NewStream]
            /\ AbortOthers(Loop, "tcp")
            /\ Disconnected
            /\ UNCHANGED pc
    /\ UNCHANGED <<queue, target, via, reqs, life>>

(* Not connected: connect() to the front task's origin.  It may fail without  *)
(* suspending: someone else is connecting, or the host name is refused.       *)
LoopConnect ==
    /\ pc[Loop] = "next"
    /\ tasks # <<>>
    /\ connectionState # "CONNECTED"
    /\ LET u == endpoint[Head(tasks)]
       IN  IF connectionState = "CONNECTING" \/ u \in SniRefused
           THEN /\ AnswerFront("error")
                /\ isTls' = IF connectionState = "CONNECTING" THEN isTls ELSE TRUE
                /\ UNCHANGED <<queue, connectionState, currentOrigin, stream,
                               target, via, aborted, endpoint, life>>
           ELSE BeginResolve(Loop, u)

(* async_shutdown() succeeds or reports stream_truncated. *)
ShutdownDone ==
    /\ Quiet
    /\ pc[Loop] = "shutdown"
    /\ Loop \notin aborted
    /\ stream' = [stream EXCEPT !["ssl"] = NewStream]
    /\ AbortOthers(Loop, "ssl")
    /\ Disconnected
    /\ pc' = [pc EXCEPT ![Loop] = "next"]
    /\ UNCHANGED <<queue, target, via, reqs, life>>

(* async_shutdown() reports anything else: graceful_shutdown() throws, and    *)
(* the exception ends the detached process_queue() where it stands.           *)
ShutdownThrows ==
    /\ Quiet
    /\ pc[Loop] = "shutdown"
    /\ Faults \/ Loop \in aborted \/ ~stream["ssl"].usable
    /\ stream' = [stream EXCEPT !["ssl"] = NewStream]
    /\ AbortOthers(Loop, "ssl")
    /\ pc' = [pc EXCEPT ![Loop] = "threw"]
    /\ UNCHANGED <<queue, connectionState, currentOrigin, isTls, target, via, reqs, life>>

(* run_impl(): the request is written, the response is read. *)
WriteDone ==
    /\ Quiet
    /\ pc[Loop] = "write"
    /\ stream[via].usable
    /\ Loop \notin aborted
    /\ pc' = [pc EXCEPT ![Loop] = "read"]
    /\ UNCHANGED <<queue, conn, target, via, aborted, reqs, life>>

ReadDone ==
    /\ Quiet
    /\ pc[Loop] = "read"
    /\ stream[via].usable
    /\ Loop \notin aborted
    /\ AnswerFront("ok")
    /\ UNCHANGED <<queue, conn, target, via, aborted, endpoint, life>>

(* run_impl() catches a failed write or read and answers with the error.  The *)
(* connection is left as it is, and what is left of the response with it.     *)
ExchangeFails ==
    /\ Quiet
    /\ pc[Loop] \in {"write", "read"}
    /\ Faults \/ Loop \in aborted \/ ~stream[via].usable
    /\ AnswerFront("error")
    /\ stream' = IF Loop \in aborted THEN stream ELSE [stream EXCEPT ![via] = Expired(stream[via])]
    /\ Completed(Loop)
    /\ UNCHANGED <<queue, connectionState, currentOrigin, isTls, target, via, endpoint, life>>

(* Mutant: the answered task is left in the queue. *)
PopForgotten ==
    /\ life = "alive"
    /\ pc[Loop] = "pop"
    /\ \A r \in Range(Unanswered) : status[r] # "calling"
    /\ pc' = [pc EXCEPT ![Loop] = "next"]
    /\ UNCHANGED <<queue, conn, target, via, aborted, reqs, life>>

(* The answered task is popped once its requester has given the thread back. *)
Pop ==
    /\ life = "alive"
    /\ pc[Loop] = "pop"
    /\ \A r \in Range(Unanswered) : status[r] # "calling"
    /\ tasks' = Tail(tasks)
    /\ pc' = [pc EXCEPT ![Loop] = "next"]
    /\ UNCHANGED <<isProcessing, conn, target, via, aborted, reqs, life>>

-----------------------------------------------------------------------------
(* The environment *)

(* The deadline set at connect time (expires_after(30 s), never set again)    *)
(* passes: from then on every operation on the stream times out.  Where the   *)
(* network may fail, the peer closing the connection has the same effect, and *)
(* it may happen in the middle of an exchange.                                *)
StreamExpires(k) ==
    /\ Quiet
    /\ stream[k].usable
    /\ Faults \/ pc[Loop] = "off"
    /\ stream' = [stream EXCEPT ![k] = Expired(stream[k])]
    /\ UNCHANGED <<queue, connectionState, currentOrigin, isTls, ctl, reqs, life>>

(* Mutant: the destructor does not fail the queued tasks. *)
DestroySilently ==
    /\ Quiet
    /\ tasks' = <<>>
    /\ life' = "destroyed"
    /\ UNCHANGED <<isProcessing, conn, ctl, reqs>>

(* ~async_rest_client: the last owner lets go of the client. *)
Destroy ==
    /\ Quiet
    /\ status' = [r \in Req |-> IF status[r] = "waiting" /\ r \in Range(tasks)
                                THEN "canceled" ELSE status[r]]
    /\ tasks' = <<>>
    /\ stream' = IF connectionState = "CONNECTED"
                 THEN [stream EXCEPT ![KindOf(isTls)] = Closed(stream[KindOf(isTls)])]
                 ELSE stream
    /\ life' = "destroyed"
    /\ UNCHANGED <<isProcessing, connectionState, currentOrigin, isTls, ctl, endpoint>>

-----------------------------------------------------------------------------
ConnectStep(c) ==
    \/ Resolved(c) \/ ResolveFails(c)
    \/ TcpConnected(c) \/ SslConnected(c) \/ Handshaken(c) \/ ConnectStepFails(c)

LoopStep ==
    \/ ConnectStep(Loop)
    \/ QueueDrained \/ LoopSend \/ LoopSwitchHost \/ LoopConnect
    \/ ShutdownDone \/ ShutdownThrows
    \/ WriteDone \/ ReadDone \/ ExchangeFails
    \/ Pop

Next ==
    \/ LoopStep
    \/ \E x \in Connector : ConnectStep(x) \/ \E u \in Origin \cup {BadUrl} : Connect(x, u)
    \/ \E r \in Req : AsyncWait(r) \/ \E u \in Origin \cup {BadUrl} : Request(r, u)
    \/ \E k \in Kind : StreamExpires(k)
    \/ Destroy

Spec == Init /\ [][Next]_vars

(* The io_context runs whatever is ready, and every network operation of the  *)
(* code completes: resolving gives up by itself, everything else is under the *)
(* stream's deadline.  Nobody is obliged to make a request, and nothing is    *)
(* assumed of the environment's actions.                                      *)
Fairness ==
    /\ WF_vars(LoopStep)
    /\ \A x \in Connector : WF_vars(ConnectStep(x))
    /\ \A r \in Req : WF_vars(AsyncWait(r))

FairSpec == Spec /\ Fairness

-----------------------------------------------------------------------------
(* Properties *)

(* enqueue_task() spawns the loop only when _is_processing is false, and the  *)
(* loop clears it only on an empty queue, so a task never sits in the queue   *)
(* with nobody to take it, and the flag never outlives or precedes the loop   *)
(* (a loop that died of an exception leaves it set: see AllAnswered).         *)
NoIdleWaiter ==
    /\ isProcessing <=> pc[Loop] # "off"
    /\ life = "alive" /\ pc[Loop] = "off" => tasks = <<>>

(* The queue and the suspended requesters agree: whoever waits in async_wait() *)
(* has exactly one unanswered task in the queue, and every unanswered task    *)
(* there belongs to a requester that waits or is about to (so that task_ptr   *)
(* and _handler are good when the loop uses them).                            *)
QueueMatchesWaiters ==
    /\ IsInjective(Unanswered)
    /\ \A r \in Req : status[r] = "waiting" => r \in Range(Unanswered)
    /\ \A r \in Range(Unanswered) : status[r] \in {"calling", "waiting"}

(* Every request is sent to the host it names: while a request is on the      *)
(* wire, the stream it uses is connected to the origin of the front task, and *)
(* an https request never travels over the plain stream.                      *)
RightPeer ==
    life = "alive" /\ pc[Loop] \in {"write", "read"} =>
        /\ stream[via].peer = endpoint[Head(tasks)]
        /\ via = "ssl" <=> endpoint[Head(tasks)] \in TlsOrigin

(* CONNECTING is a lock that connect() takes and every one of its exits has   *)
(* to release: somebody is connecting whenever it is held.                    *)
NeverStuckConnecting ==
    connectionState = "CONNECTING" => \E c \in Caller : pc[c] \in ConnectPhase

(* connect() reads _is_tls again after the resolver's suspension, to choose   *)
(* the stream to connect: whatever calls were refused meanwhile or have       *)
(* failed, a connect() that nobody overlaps finds there what its own URL asks *)
(* for, and a host with https is connected under TLS, any other without.      *)
ConnectsAsAsked ==
    \A c \in Caller :
        /\ connectionState = "CONNECTING"
        /\ pc[c] \in ConnectPhase
        /\ \A d \in Caller \ {c} : pc[d] \notin ConnectPhase
        => /\ isTls = (target[c] \in TlsOrigin)
           /\ pc[c] # "resolve" => (pc[c] = "connect_tcp" <=> target[c] \notin TlsOrigin)

(* Every request that waits is answered, unless the loop was ended by a       *)
(* throwing TLS shutdown.                                                     *)
AnsweredUnlessThrown ==
    \A r \in Req : status[r] = "waiting" ~> (status[r] # "waiting" \/ pc[Loop] = "threw")

(* Tests and README: requests to several hosts in turn are all answered. *)
AllAnswered == \A r \in Req : status[r] = "waiting" ~> status[r] # "waiting"

(* README: the program goes on checking its position for all market hours; on *)
(* a network that never fails no request is answered with an error.           *)
NoErrorOnGoodNetwork == \A r \in Req : status[r] # "error"

(* Tests: a request to a host that cannot be reached is told so. *)
NoRequesterLost == \A r \in Req : status[r] # "lost"

-----------------------------------------------------------------------------
(* The promise to the requesters.  A task counts as answered from the moment  *)
(* its requester is resumed, before it is popped.                             *)
RS == INSTANCE RequestService WITH
          pending <- Unanswered,
          status  <- [r \in Req |-> IF status[r] \in {"calling", "waiting"}
                                    THEN "pending" ELSE status[r]]

(* With nobody calling connect() behind the loop's back, requests are         *)
(* answered once each and in order.                                           *)
ImplementsRequestService == RS!Spec
=============================================================================
