------------------------ MODULE AsyncRestClientProofs ------------------------
(* Theorems about AsyncRestClient, for any requesters, origins and connectors. *)
EXTENDS AsyncRestClient, SequenceTheorems, TLAPS

-----------------------------------------------------------------------------
(* Sequences without duplicates, as the queue of unanswered tasks is *)

(* Appending a new element adds it to the range and no duplicate. *)
LEMMA AppendNew ==
    ASSUME NEW S, NEW s \in Seq(S), NEW e \in S, IsInjective(s), e \notin Range(s)
    PROVE  /\ Append(s, e) \in Seq(S)
           /\ IsInjective(Append(s, e))
           /\ Range(Append(s, e)) = Range(s) \cup {e}
  <1> DEFINE t == Append(s, e)
  <1>1. /\ t \in Seq(S)
        /\ Len(t) = Len(s) + 1
        /\ \A i \in 1 .. Len(s) : t[i] = s[i]
        /\ t[Len(s) + 1] = e
        /\ Len(s) \in Nat
        /\ DOMAIN s = 1 .. Len(s)
        /\ DOMAIN t = 1 .. Len(s) + 1
    BY LenProperties
  <1>2. IsInjective(t)
    <2> SUFFICES ASSUME NEW i \in DOMAIN t, NEW j \in DOMAIN t, t[i] = t[j], i # j
                 PROVE  FALSE
      BY DEF IsInjective
    <2>1. \A k \in 1 .. Len(s) : s[k] # e
      BY <1>1 DEF Range
    <2>2. ~(i = Len(s) + 1) /\ ~(j = Len(s) + 1)
      BY <1>1, <2>1
    <2>3. i \in DOMAIN s /\ j \in DOMAIN s /\ s[i] = s[j]
      BY <1>1, <2>2
    <2> QED
      BY <2>3 DEF IsInjective
  <1>3. Range(t) = Range(s) \cup {e}
    <2>1. \A i \in DOMAIN t : i \in DOMAIN s \/ i = Len(s) + 1
      BY <1>1
    <2>2. \A i \in DOMAIN s : i \in DOMAIN t
      BY <1>1
    <2>3. Len(s) + 1 \in DOMAIN t
      BY <1>1
    <2> QED
      BY <1>1, <2>1, <2>2, <2>3 DEF Range
  <1> QED
    BY <1>1, <1>2, <1>3

(* Taking the head removes exactly it from the range. *)
LEMMA TailOfInjective ==
    ASSUME NEW S, NEW s \in Seq(S), s # <<>>, IsInjective(s)
    PROVE  /\ Tail(s) \in Seq(S)
           /\ Head(s) \in S
           /\ Head(s) \in Range(s)
           /\ IsInjective(Tail(s))
           /\ Range(Tail(s)) = Range(s) \ {Head(s)}
  <1> DEFINE t == Tail(s)
  <1>1. /\ t \in Seq(S)
        /\ Head(s) \in S
        /\ Len(t) = Len(s) - 1
        /\ \A i \in 1 .. Len(t) : t[i] = s[i + 1]
        /\ Len(s) \in Nat \ {0}
        /\ DOMAIN s = 1 .. Len(s)
        /\ DOMAIN t = 1 .. Len(s) - 1
        /\ Head(s) = s[1]
    BY HeadTailProperties, LenProperties, EmptySeq
  <1>2. \A i \in DOMAIN t : i + 1 \in DOMAIN s /\ t[i] = s[i + 1] /\ i \in Nat /\ i + 1 # 1
    BY <1>1
  <1>3. 1 \in DOMAIN s
    BY <1>1
  <1>4. IsInjective(t)
    <2> SUFFICES ASSUME NEW i \in DOMAIN t, NEW j \in DOMAIN t, t[i] = t[j]
                 PROVE  i = j
      BY DEF IsInjective
    <2>1. s[i + 1] = s[j + 1]
      BY <1>2
    <2>2. i + 1 = j + 1
      BY <1>2, <2>1 DEF IsInjective
    <2> QED
      BY <1>2, <2>2
  <1>5. Range(t) = Range(s) \ {Head(s)}
    <2>1. ASSUME NEW e \in Range(t) PROVE e \in Range(s) /\ e # Head(s)
      <3>1. PICK i \in DOMAIN t : e = t[i]
        BY DEF Range
      <3>2. e = s[i + 1] /\ i + 1 \in DOMAIN s /\ i + 1 # 1
        BY <1>2, <3>1
      <3> QED
        BY <1>1, <1>3, <3>2 DEF IsInjective, Range
    <2>2. ASSUME NEW e \in Range(s), e # Head(s) PROVE e \in Range(t)
      <3>1. PICK i \in DOMAIN s : e = s[i]
        BY DEF Range
      <3>2. i - 1 \in DOMAIN t /\ t[i - 1] = e
        BY <1>1, <2>2, <3>1
      <3> QED
        BY <3>2 DEF Range
    <2> QED
      BY <2>1, <2>2
  <1> QED
    BY <1>1, <1>3, <1>4, <1>5 DEF Range

(* Where Append puts what. *)
AppendsAt(s, e) ==
    /\ \A i \in 1 .. Len(s) : Append(s, e)[i] = s[i]
    /\ Append(s, e)[Len(s) + 1] = e

(* Appending keeps every element where it is and puts the new one last. *)
LEMMA AppendIndex ==
    ASSUME NEW S, NEW s \in Seq(S), NEW e \in S
    PROVE  AppendsAt(s, e)
  BY LenProperties DEF AppendsAt

(* An element appended to a queue is appended to its tail too. *)
LEMMA AppendTail ==
    ASSUME NEW S, NEW s \in Seq(S), s # <<>>, NEW e \in S
    PROVE  /\ Tail(Append(s, e)) = Append(Tail(s), e)
           /\ Head(Append(s, e)) = Head(s)
  <1>1. Append(s, e) \in Seq(S) /\ Len(Append(s, e)) = Len(s) + 1 /\ Append(s, e) # <<>>
    BY AppendProperties
  <1>2. Len(s) \in Nat \ {0}
    BY EmptySeq
  <1>3. /\ Tail(s) \in Seq(S) /\ Len(Tail(s)) = Len(s) - 1
        /\ \A i \in 1 .. Len(Tail(s)) : Tail(s)[i] = s[i + 1]
    BY HeadTailProperties
  <1>4. /\ Tail(Append(s, e)) \in Seq(S) /\ Len(Tail(Append(s, e))) = Len(s)
        /\ \A i \in 1 .. Len(s) : Tail(Append(s, e))[i] = Append(s, e)[i + 1]
    BY <1>1, <1>2, HeadTailProperties
  <1>5. /\ Append(Tail(s), e) \in Seq(S) /\ Len(Append(Tail(s), e)) = Len(s)
    BY <1>2, <1>3, AppendProperties
  <1>6. \A i \in 1 .. Len(s) : Tail(Append(s, e))[i] = Append(Tail(s), e)[i]
    <2>1. AppendsAt(s, e) /\ AppendsAt(Tail(s), e)
      BY <1>3, AppendIndex
    <2> TAKE i \in 1 .. Len(s)
    <2>2. Tail(Append(s, e))[i] = Append(s, e)[i + 1] /\ i + 1 \in 1 .. Len(s) + 1
      BY <1>2, <1>4
    <2>3. CASE i = Len(s)
      BY <1>2, <1>3, <2>1, <2>2, <2>3 DEF AppendsAt
    <2>4. CASE i # Len(s)
      <3>1. i \in 1 .. Len(Tail(s)) /\ i + 1 \in 1 .. Len(s)
        <4> DEFINE n == Len(s)
                   m == Len(Tail(s))
        <4>1. n \in Nat \ {0} /\ m = n - 1 /\ i \in 1 .. n /\ i # n
          BY <1>2, <1>3, <2>4
        <4> HIDE DEF n, m
        <4>2. i \in 1 .. m /\ i + 1 \in 1 .. n
          BY <4>1
        <4> QED
          BY <4>2 DEF n, m
      <3>2. Append(s, e)[i + 1] = s[i + 1] /\ Append(Tail(s), e)[i] = Tail(s)[i]
        BY <2>1, <3>1 DEF AppendsAt
      <3> QED
        BY <1>3, <2>2, <3>1, <3>2
    <2> QED
      BY <2>3, <2>4
  <1>7. Tail(Append(s, e)) = Append(Tail(s), e)
    BY <1>4, <1>5, <1>6, SeqEqual
  <1>8. Head(Append(s, e)) = Head(s)
    BY <1>1, <1>2, AppendProperties, HeadTailProperties
  <1> QED
    BY <1>7, <1>8

-----------------------------------------------------------------------------
(* Type correctness.  Only Pop could leave the types: it must not find the    *)
(* queue empty.  The control part of the queue's invariant says so.           *)

Exchange == ConnectPhase \cup {"shutdown", "write", "read"}

QueueControl ==
    /\ isProcessing <=> pc[Loop] # "off"
    /\ life = "alive" /\ pc[Loop] = "off" => tasks = <<>>
    /\ life = "alive" /\ pc[Loop] \in Exchange \cup {"pop"} => tasks # <<>>
    /\ life = "destroyed" => pc[Loop] \notin {"next", "pop"}

(* The first half of connect() keeps the types. *)
LEMMA BeginResolveType ==
    ASSUME TypeOK, NEW c \in Caller, NEW u \in Origin, BeginResolve(c, u)
    PROVE  TypeOK'
  BY LoopAssumption DEF BeginResolve, TypeOK, Caller, LoopPhase, ConnectPhase, queue, reqs

(* Every step of one caller inside connect() keeps the types. *)
LEMMA ConnectStepType ==
    ASSUME TypeOK, NEW c \in Caller, ConnectStep(c)
    PROVE  TypeOK'
  <1> USE DEF TypeOK, Caller, Quiet, LoopPhase, ConnectPhase, Kind, KindOf, ConnectingOn,
              StreamState, Status, queue, reqs, AbortOthers, Completed, UsersOf,
              ConnectFailed, ConnectSucceeded, AnswerFront, Closed, TcpTo, SslTo
  <1>1. CASE Resolved(c)
    BY <1>1, LoopAssumption DEF Resolved
  <1>2. CASE ResolveFails(c)
    BY <1>2, LoopAssumption DEF ResolveFails
  <1>3. CASE TcpConnected(c)
    BY <1>3, LoopAssumption DEF TcpConnected
  <1>4. CASE SslConnected(c)
    BY <1>4, LoopAssumption DEF SslConnected
  <1>5. CASE Handshaken(c)
    BY <1>5, LoopAssumption DEF Handshaken
  <1>6. CASE ConnectStepFails(c)
    BY <1>6, LoopAssumption DEF ConnectStepFails
  <1> QED
    BY <1>1, <1>2, <1>3, <1>4, <1>5, <1>6 DEF ConnectStep

(* So does every step of process_queue(). *)
LEMMA LoopStepType ==
    ASSUME TypeOK, QueueControl, LoopStep
    PROVE  TypeOK'
  <1> USE DEF TypeOK, Caller, Quiet, LoopPhase, ConnectPhase, Kind, KindOf, StreamState, Status,
              NewStream, queue, conn, reqs, AbortOthers, UsersOf, AnswerFront, Disconnected
  <1>1. CASE ConnectStep(Loop)
    BY <1>1, ConnectStepType DEF Caller
  <1>2. CASE QueueDrained
    BY <1>2, LoopAssumption DEF QueueDrained
  <1>3. CASE LoopSend
    BY <1>3, LoopAssumption DEF LoopSend
  <1>4. CASE LoopSwitchHost
    <2>1. CASE isTls
      BY <1>4, <2>1, LoopAssumption DEF LoopSwitchHost
    <2>2. CASE ~isTls
      <3>1. /\ stream' = [stream EXCEPT !["tcp"] = NewStream]
            /\ aborted' = (aborted \cup UsersOf("tcp")) \ {Loop}
            /\ currentOrigin' = NoOrigin
            /\ isTls' = FALSE
            /\ connectionState' = "NOT_CONNECTED"
            /\ UNCHANGED <<queue, pc, target, via, reqs, life>>
        BY <1>4, <2>2 DEF LoopSwitchHost
      <3>2. stream' \in [Kind -> StreamState] /\ aborted' \subseteq Caller
        BY <3>1
      <3> QED
        BY <3>1, <3>2
    <2> QED
      BY <2>1, <2>2
  <1>5. CASE LoopConnect
    <2>1. Head(tasks) \in Req
      BY <1>5, HeadTailProperties DEF LoopConnect
    <2>2. CASE connectionState = "CONNECTING" \/ endpoint[Head(tasks)] \in SniRefused
      BY <1>5, <2>2, LoopAssumption DEF LoopConnect
    <2>3. CASE ~(connectionState = "CONNECTING" \/ endpoint[Head(tasks)] \in SniRefused)
      BY <1>5, <2>1, <2>3, LoopAssumption DEF LoopConnect, BeginResolve
    <2> QED
      BY <2>2, <2>3
  <1>6. CASE ShutdownDone
    BY <1>6, LoopAssumption DEF ShutdownDone
  <1>7. CASE ShutdownThrows
    BY <1>7, LoopAssumption DEF ShutdownThrows
  <1>8. CASE WriteDone
    BY <1>8, LoopAssumption DEF WriteDone
  <1>9. CASE ReadDone
    BY <1>9, LoopAssumption DEF ReadDone
  <1>10. CASE ExchangeFails
    BY <1>10, LoopAssumption DEF ExchangeFails, Completed, Expired
  <1>11. CASE Pop
    <2>1. Tail(tasks) \in Seq(Req)
      BY <1>11, HeadTailProperties DEF Pop, QueueControl
    <2> QED
      BY <1>11, <2>1, LoopAssumption DEF Pop
  <1> QED
    BY <1>1, <1>2, <1>3, <1>4, <1>5, <1>6, <1>7, <1>8, <1>9, <1>10, <1>11 DEF LoopStep

(* So does every call from outside, and every step of the environment. *)
LEMMA CallType ==
    ASSUME TypeOK,
           \/ \E x \in Connector, u \in Origin \cup {BadUrl} : Connect(x, u)
           \/ \E r \in Req, u \in Origin \cup {BadUrl} : Request(r, u)
           \/ \E r \in Req : AsyncWait(r)
           \/ \E k \in Kind : StreamExpires(k)
           \/ Destroy
    PROVE  TypeOK'
  <1> USE DEF TypeOK, Caller, Quiet, LoopPhase, ConnectPhase, Kind, KindOf, StreamState, Status,
              queue, conn, ctl, reqs
  <1>1. ASSUME NEW x \in Connector, NEW u \in Origin \cup {BadUrl}, Connect(x, u)
        PROVE  TypeOK'
    <2>1. CASE u \in {BadUrl} \cup SniRefused
      BY <1>1, <2>1 DEF Connect
    <2>2. CASE u \notin {BadUrl} \cup SniRefused
      <3>1. BeginResolve(x, u) /\ u \in Origin
        BY <1>1, <2>2 DEF Connect
      <3> QED
        BY <3>1, BeginResolveType
    <2> QED
      BY <2>1, <2>2
  <1>2. ASSUME NEW r \in Req, NEW u \in Origin \cup {BadUrl}, Request(r, u)
        PROVE  TypeOK'
    <2>1. Append(tasks, r) \in Seq(Req)
      OBVIOUS
    <2>2. CASE u = BadUrl
      BY <1>2, <2>2 DEF Request
    <2>3. CASE u # BadUrl
      <3>1. /\ tasks' = Append(tasks, r)
            /\ endpoint' = [endpoint EXCEPT ![r] = u]
            /\ status' = [status EXCEPT ![r] = "calling"]
            /\ isProcessing' = TRUE
            /\ UNCHANGED <<conn, target, via, aborted, life>>
        BY <1>2, <2>3 DEF Request
      <3>2. pc' = pc \/ pc' = [pc EXCEPT ![Loop] = "next"]
        BY <1>2, <2>3 DEF Request
      <3>3. pc' \in [Caller -> LoopPhase] /\ \A x \in Connector : pc'[x] = pc[x]
        BY <3>2, LoopAssumption
      <3> QED
        BY <2>1, <2>3, <3>1, <3>3
    <2> QED
      BY <2>2, <2>3
  <1>3. ASSUME NEW r \in Req, AsyncWait(r)
        PROVE  TypeOK'
    BY <1>3 DEF AsyncWait
  <1>4. ASSUME NEW k \in Kind, StreamExpires(k)
        PROVE  TypeOK'
    BY <1>4 DEF StreamExpires, Expired
  <1>5. ASSUME Destroy
        PROVE  TypeOK'
    BY <1>5 DEF Destroy, Closed
  <1> QED
    BY <1>1, <1>2, <1>3, <1>4, <1>5

-----------------------------------------------------------------------------
(* What a step can do to the queue *)

(* The loop moves on: the queue and the answers stay as they are. *)
LoopRuns ==
    /\ UNCHANGED <<tasks, isProcessing, status, life>>
    /\ \/ pc'[Loop] = pc[Loop]
       \/ /\ life = "alive" /\ tasks # <<>>
          /\ pc[Loop] \in {"next"} \cup Exchange
          /\ pc'[Loop] \in {"next", "threw"} \cup Exchange

(* The loop answers the front task, between two events of the thread or, when *)
(* connect() fails without suspending, inside a caller's request().           *)
LoopAnswers ==
    /\ tasks # <<>>
    /\ life = "alive"
    /\ Quiet \/ LoopConnect
    /\ pc[Loop] \in {"next"} \cup Exchange
    /\ \E res \in {"ok", "error"} : AnswerFront(res)
    /\ UNCHANGED <<tasks, isProcessing, life>>

(* Every step of a caller inside connect() is one of the two. *)
LEMMA ConnectStepKind ==
    ASSUME TypeOK, QueueControl, NEW c \in Caller, ConnectStep(c)
    PROVE  LoopRuns \/ LoopAnswers
  <1> USE DEF TypeOK, Caller, Quiet, queue, reqs, Exchange, ConnectPhase, ConnectingOn
  <1>1. life = "alive" /\ (c = Loop => tasks # <<>>)
    BY DEF QueueControl, ConnectStep, Resolved, ResolveFails, TcpConnected, SslConnected,
           Handshaken, ConnectStepFails
  <1>2. CASE Resolved(c)
    BY <1>1, <1>2 DEF Resolved, LoopRuns
  <1>3. CASE SslConnected(c)
    BY <1>1, <1>3 DEF SslConnected, LoopRuns
  <1>4. CASE TcpConnected(c)
    BY <1>1, <1>4 DEF TcpConnected, ConnectSucceeded, LoopRuns
  <1>5. CASE Handshaken(c)
    BY <1>1, <1>5 DEF Handshaken, ConnectSucceeded, LoopRuns
  <1>6. CASE ResolveFails(c)
    BY <1>1, <1>6 DEF ResolveFails, ConnectFailed, LoopRuns, LoopAnswers
  <1>7. CASE ConnectStepFails(c)
    BY <1>1, <1>7 DEF ConnectStepFails, ConnectFailed, LoopRuns, LoopAnswers
  <1> QED
    BY <1>2, <1>3, <1>4, <1>5, <1>6, <1>7 DEF ConnectStep

(* Seven kinds of step, as far as the queue is concerned. *)
LEMMA StepKinds ==
    ASSUME TypeOK, QueueControl, [Next]_vars
    PROVE  \/ LoopRuns
           \/ LoopAnswers
           \/ QueueDrained
           \/ Pop
           \/ \E r \in Req, u \in Origin \cup {BadUrl} : Request(r, u)
           \/ \E r \in Req : AsyncWait(r)
           \/ Destroy
  <1> USE DEF TypeOK, Caller, Quiet, queue, conn, ctl, reqs, Exchange, ConnectPhase
  <1> USE LoopAssumption
  <1> DEFINE Kinds == \/ LoopRuns \/ LoopAnswers \/ QueueDrained \/ Pop
                      \/ \E r \in Req, u \in Origin \cup {BadUrl} : Request(r, u)
                      \/ \E r \in Req : AsyncWait(r)
                      \/ Destroy
  <1>1. CASE LoopStep
    <2>1. life = "alive" \/ pc[Loop] \notin {"next", "pop"}
      BY DEF QueueControl
    <2>2. CASE ConnectStep(Loop)
      BY <2>2, ConnectStepKind DEF Caller
    <2>3. CASE LoopSend
      BY <2>1, <2>3 DEF LoopSend, LoopRuns
    <2>4. CASE LoopSwitchHost
      BY <2>1, <2>4 DEF LoopSwitchHost, LoopRuns
    <2>5. CASE LoopConnect
      BY <2>1, <2>5 DEF LoopConnect, BeginResolve, LoopRuns, LoopAnswers
    <2>6. CASE ShutdownDone
      BY <2>6 DEF ShutdownDone, QueueControl, LoopRuns
    <2>7. CASE ShutdownThrows
      BY <2>7 DEF ShutdownThrows, QueueControl, LoopRuns
    <2>8. CASE WriteDone
      BY <2>8 DEF WriteDone, QueueControl, LoopRuns
    <2>9. CASE ReadDone
      BY <2>9 DEF ReadDone, QueueControl, LoopAnswers
    <2>10. CASE ExchangeFails
      BY <2>10 DEF ExchangeFails, QueueControl, LoopAnswers
    <2> QED
      BY <1>1, <2>2, <2>3, <2>4, <2>5, <2>6, <2>7, <2>8, <2>9, <2>10 DEF LoopStep
  <1>2. ASSUME NEW x \in Connector, ConnectStep(x)
        PROVE  Kinds
    BY <1>2, ConnectStepKind DEF Caller
  <1>3. ASSUME NEW x \in Connector, NEW u \in Origin \cup {BadUrl}, Connect(x, u)
        PROVE  Kinds
    BY <1>3 DEF Connect, BeginResolve, LoopRuns
  <1>4. ASSUME NEW k \in Kind, StreamExpires(k)
        PROVE  Kinds
    BY <1>4 DEF StreamExpires, LoopRuns
  <1>5. CASE UNCHANGED vars
    BY <1>5 DEF vars, LoopRuns
  <1> QED
    BY <1>1, <1>2, <1>3, <1>4, <1>5 DEF Next

-----------------------------------------------------------------------------
(* Types and queue control, for every reachable state *)

(* The types and QueueControl hold at the start. *)
LEMMA ControlInit == Init => TypeOK /\ QueueControl
  <1> SUFFICES ASSUME Init PROVE TypeOK /\ QueueControl
    OBVIOUS
  <1> USE DEF Init
  <1>1. tasks \in Seq(Req)
    BY EmptySeq
  <1>2. stream \in [Kind -> StreamState]
    BY DEF StreamState, NewStream
  <1>3. /\ pc \in [Caller -> LoopPhase]
        /\ \A x \in Connector : pc[x] \in ConnectPhase \cup {"off"}
    BY DEF LoopPhase, Caller
  <1>4. /\ target \in [Caller -> Origin \cup {NoOrigin}]
        /\ endpoint \in [Req -> Origin \cup {NoOrigin}]
        /\ status \in [Req -> Status]
    BY DEF Status
  <1>5. TypeOK
    BY <1>1, <1>2, <1>3, <1>4 DEF TypeOK, Kind
  <1>6. QueueControl
    BY DEF QueueControl, Exchange, ConnectPhase, Caller
  <1> QED
    BY <1>5, <1>6

(* Every step keeps them. *)
LEMMA ControlStep ==
    ASSUME TypeOK, QueueControl, [Next]_vars
    PROVE  TypeOK' /\ QueueControl'
  <1>1. TypeOK'
    <2>1. CASE UNCHANGED vars
      BY <2>1 DEF TypeOK, vars
    <2>2. ASSUME NEW x \in Connector, ConnectStep(x)
          PROVE  TypeOK'
      BY <2>2, ConnectStepType DEF Caller
    <2> QED
      BY <2>1, <2>2, LoopStepType, CallType DEF Next
  <1>2. QueueControl'
    <2> USE DEF QueueControl, TypeOK, Caller, Exchange, ConnectPhase
    <2>1. CASE LoopRuns
      BY <2>1 DEF LoopRuns
    <2>2. CASE LoopAnswers
      BY <2>2 DEF LoopAnswers, AnswerFront
    <2>3. CASE QueueDrained
      BY <2>3 DEF QueueDrained
    <2>4. CASE Pop
      BY <2>4 DEF Pop
    <2>5. ASSUME NEW r \in Req, NEW u \in Origin \cup {BadUrl}, Request(r, u)
          PROVE  QueueControl'
      <3>1. Append(tasks, r) # <<>>
        BY AppendProperties
      <3> QED
        BY <2>5, <3>1 DEF Request, MayCall, queue
    <2>6. ASSUME NEW r \in Req, AsyncWait(r)
          PROVE  QueueControl'
      BY <2>6 DEF AsyncWait, queue, ctl
    <2>7. CASE Destroy
      BY <2>7 DEF Destroy, Quiet, ctl
    <2> QED
      BY <2>1, <2>2, <2>3, <2>4, <2>5, <2>6, <2>7, StepKinds
  <1> QED
    BY <1>1, <1>2

(* The types of all the variables, at all times. *)
THEOREM TypeCorrect == Spec => []TypeOK
  <1>1. TypeOK /\ QueueControl /\ [Next]_vars => (TypeOK /\ QueueControl)'
    BY ControlStep
  <1> QED
    BY ControlInit, <1>1, PTL DEF Spec

(* No queued task is ever left without a loop to take it, and _is_processing  *)
(* is set exactly while process_queue() has not returned.                     *)
THEOREM NoTaskWithoutLoop == Spec => []NoIdleWaiter
  <1>1. TypeOK /\ QueueControl /\ [Next]_vars => (TypeOK /\ QueueControl)'
    BY ControlStep
  <1>2. QueueControl => NoIdleWaiter
    BY DEF QueueControl, NoIdleWaiter
  <1> QED
    BY ControlInit, <1>1, <1>2, PTL DEF Spec
-----------------------------------------------------------------------------
(* The queue and the waiting requesters *)

(* The unanswered tasks are a sequence of requesters. *)
LEMMA UnansweredType ==
    ASSUME TypeOK, QueueControl
    PROVE  Unanswered \in Seq(Req) /\ Range(Unanswered) \subseteq Req
  <1>1. Unanswered \in Seq(Req)
    BY HeadTailProperties DEF TypeOK, QueueControl, Unanswered
  <1> QED
    BY <1>1, LenProperties DEF Range

(* A new task comes last among the unanswered, even when it is queued by the  *)
(* requester being resumed, before the answered task is popped.               *)
LEMMA RequestAppends ==
    ASSUME TypeOK, QueueControl, NEW r \in Req, NEW u \in Origin \cup {BadUrl},
           Request(r, u), u # BadUrl
    PROVE  Unanswered' = Append(Unanswered, r)
  <1>1. tasks' = Append(tasks, r)
    BY DEF Request
  <1>2. CASE pc[Loop] = "pop"
    <2>1. tasks # <<>> /\ pc' = pc
      BY <1>2 DEF QueueControl, Request, MayCall
    <2>2. Tail(Append(tasks, r)) = Append(Tail(tasks), r)
      BY <2>1, AppendTail DEF TypeOK
    <2> QED
      BY <1>1, <1>2, <2>1, <2>2 DEF Unanswered
  <1>3. CASE pc[Loop] # "pop"
    <2>1. pc'[Loop] # "pop"
      BY <1>3 DEF Request, TypeOK, Caller
    <2> QED
      BY <1>1, <1>3, <2>1 DEF Unanswered
  <1> QED
    BY <1>2, <1>3

(* Every step keeps the queue and the waiting requesters in agreement. *)
LEMMA QueueStep ==
    ASSUME TypeOK, QueueControl, QueueMatchesWaiters, [Next]_vars
    PROVE  QueueMatchesWaiters'
  <1> USE DEF TypeOK, Caller
  <1>1. CASE LoopRuns
    <2>1. Unanswered' = Unanswered /\ status' = status
      BY <1>1 DEF LoopRuns, Unanswered, Exchange, ConnectPhase
    <2> QED
      BY <2>1 DEF QueueMatchesWaiters
  <1>2. CASE LoopAnswers
    <2>1. /\ tasks # <<>>
          /\ Unanswered = tasks
          /\ Unanswered' = Tail(tasks)
      BY <1>2 DEF LoopAnswers, AnswerFront, Unanswered, Exchange, ConnectPhase
    <2>2. PICK res \in {"ok", "error"} : AnswerFront(res)
      BY <1>2 DEF LoopAnswers
    <2>3. /\ Head(tasks) \in Req
          /\ IsInjective(Tail(tasks))
          /\ Range(Tail(tasks)) = Range(tasks) \ {Head(tasks)}
      BY <2>1, TailOfInjective DEF QueueMatchesWaiters
    <2>4. \A r \in Req : /\ r # Head(tasks) => status'[r] = status[r]
                         /\ r = Head(tasks) => status'[r] # "waiting"
      BY <2>2, <2>3 DEF AnswerFront
    <2>5. Range(tasks) \subseteq Req
      BY LenProperties DEF Range
    <2> QED
      BY <2>1, <2>3, <2>4, <2>5 DEF QueueMatchesWaiters
  <1>3. CASE QueueDrained
    <2>1. Unanswered' = Unanswered /\ status' = status
      BY <1>3 DEF QueueDrained, Unanswered, reqs
    <2> QED
      BY <2>1 DEF QueueMatchesWaiters
  <1>4. CASE Pop
    <2>1. Unanswered' = Unanswered /\ status' = status
      BY <1>4 DEF Pop, Unanswered, reqs
    <2> QED
      BY <2>1 DEF QueueMatchesWaiters
  <1>5. ASSUME NEW r \in Req, NEW u \in Origin \cup {BadUrl}, Request(r, u)
        PROVE  QueueMatchesWaiters'
    <2>1. CASE u = BadUrl
      <3>1. Unanswered' = Unanswered /\ status' = [status EXCEPT ![r] = "rejected"]
        BY <1>5, <2>1 DEF Request, Unanswered, queue
      <3>2. r \notin Range(Unanswered)
        BY <1>5 DEF Request, MayCall, NoCaller, QueueMatchesWaiters
      <3>3. \A q \in Req : q # r => status'[q] = status[q]
        BY <3>1
      <3>4. Range(Unanswered) \subseteq Req
        BY <1>5, UnansweredType
      <3> QED
        BY <3>1, <3>2, <3>3, <3>4 DEF QueueMatchesWaiters
    <2>2. CASE u # BadUrl
      <3>1. r \notin Range(Unanswered)
        BY <1>5 DEF Request, MayCall, NoCaller, QueueMatchesWaiters
      <3>2. Unanswered \in Seq(Req) /\ Range(Unanswered) \subseteq Req
        BY UnansweredType
      <3>3. Unanswered' = Append(Unanswered, r)
        BY <1>5, <2>2, RequestAppends
      <3>4. /\ IsInjective(Unanswered')
            /\ Range(Unanswered') = Range(Unanswered) \cup {r}
        BY <3>1, <3>2, <3>3, AppendNew DEF QueueMatchesWaiters
      <3>5. status' = [status EXCEPT ![r] = "calling"]
        BY <1>5, <2>2 DEF Request
      <3> QED
        BY <3>2, <3>4, <3>5 DEF QueueMatchesWaiters
    <2> QED
      BY <2>1, <2>2
  <1>6. ASSUME NEW r \in Req, AsyncWait(r)
        PROVE  QueueMatchesWaiters'
    <2>1. Unanswered' = Unanswered
      BY <1>6 DEF AsyncWait, Unanswered, queue, ctl
    <2>2. status' = [status EXCEPT ![r] = IF r \in Range(Unanswered) THEN "waiting" ELSE "lost"]
      BY <1>6 DEF AsyncWait
    <2>3. Range(Unanswered) \subseteq Req
      BY UnansweredType
    <2> QED
      BY <2>1, <2>2, <2>3 DEF QueueMatchesWaiters
  <1>7. CASE Destroy
    <2>1. Unanswered = tasks /\ Unanswered' = <<>>
      BY <1>7 DEF Destroy, Quiet, ctl, Unanswered
    <2>2. IsInjective(<<>>) /\ Range(<<>>) = {}
      BY DEF IsInjective, Range
    <2>3. \A r \in Req : status'[r] # "waiting"
      BY <1>7, <2>1 DEF Destroy, QueueMatchesWaiters
    <2> QED
      BY <2>1, <2>2, <2>3 DEF QueueMatchesWaiters
  <1> QED
    BY <1>1, <1>2, <1>3, <1>4, <1>5, <1>6, <1>7, StepKinds

(* The queue holds exactly one unanswered task of every requester that waits, *)
(* and nobody else's, whatever connect() calls interfere.                     *)
THEOREM QueueHoldsTheWaiters == Spec => []QueueMatchesWaiters
  <1>1. Init => QueueMatchesWaiters
    BY DEF Init, QueueMatchesWaiters, Unanswered, IsInjective, Range, Caller
  <1>2. /\ TypeOK /\ QueueControl /\ QueueMatchesWaiters /\ [Next]_vars
        => (TypeOK /\ QueueControl /\ QueueMatchesWaiters)'
    BY ControlStep, QueueStep
  <1> QED
    BY ControlInit, <1>1, <1>2, PTL DEF Spec

-----------------------------------------------------------------------------
(* CONNECTING is always released *)

(* A caller inside connect() for which _is_tls is what its URL asks for, on   *)
(* the stream that this names.                                                *)
ByItsUrl(c) ==
    /\ pc[c] \in ConnectPhase
    /\ isTls = (target[c] \in TlsOrigin)
    /\ pc[c] # "resolve" => (pc[c] = "connect_tcp" <=> ~isTls)

(* CONNECTING is held by such a caller: the last one to take it, of which the *)
(* state tells nothing when several are inside connect().                     *)
HeldByItsUrl == connectionState = "CONNECTING" => \E c \in Caller : ByItsUrl(c)

(* What a step does to it: CONNECTING is free after the step, or such callers *)
(* stay such, or some caller becomes one.                                     *)
ConnectingKept ==
    \/ connectionState' # "CONNECTING"
    \/ /\ connectionState' = connectionState
       /\ \A c \in Caller : ByItsUrl(c) => ByItsUrl(c)'
    \/ \E c \in Caller : ByItsUrl(c)'

(* Nothing is changed for a caller that stays where it is, with its _is_tls.  *)
LEMMA Elsewhere ==
    ASSUME NEW c, ByItsUrl(c), pc'[c] = pc[c], UNCHANGED <<isTls, target>>
    PROVE  ByItsUrl(c)'
  BY DEF ByItsUrl

(* Who begins to connect sets _is_tls by its URL. *)
LEMMA BeginsByItsUrl ==
    ASSUME TypeOK, NEW c \in Caller, NEW u, BeginResolve(c, u)
    PROVE  ByItsUrl(c)'
  <1>1. pc'[c] = "resolve" /\ target'[c] = u /\ isTls' = (u \in TlsOrigin)
    BY DEF BeginResolve, TypeOK
  <1> QED
    BY <1>1 DEF ByItsUrl, ConnectPhase

(* Every step keeps CONNECTING tied to a caller that connects by its URL. *)
LEMMA ConnectingStep ==
    ASSUME TypeOK, QueueControl, [Next]_vars
    PROVE  ConnectingKept
  <1>0. /\ pc \in [Caller -> LoopPhase] /\ target \in [Caller -> Origin \cup {NoOrigin}]
        /\ isTls \in BOOLEAN /\ Loop \in Caller
    BY DEF TypeOK, Caller
  <1>1. ASSUME NEW c \in Caller, ConnectStep(c)
        PROVE  ConnectingKept
    <2>1. CASE Resolved(c) \/ SslConnected(c)
      <3>1. /\ connectionState' = connectionState /\ UNCHANGED <<isTls, target>>
            /\ \A d \in Caller \ {c} : pc'[d] = pc[d]
        BY <1>0, <2>1 DEF Resolved, SslConnected
      <3>2. Resolved(c) => pc'[c] = IF isTls THEN "connect_ssl" ELSE "connect_tcp"
        BY <1>0 DEF Resolved, ConnectingOn, KindOf
      <3>3. SslConnected(c) => pc[c] = "connect_ssl" /\ pc'[c] \in {"handshake", "rehandshake"}
        BY <1>0 DEF SslConnected
      <3>4. ByItsUrl(c) => ByItsUrl(c)'
        BY <2>1, <3>1, <3>2, <3>3 DEF ByItsUrl, ConnectPhase
      <3>5. \A d \in Caller : ByItsUrl(d) => ByItsUrl(d)'
        BY <3>1, <3>4, Elsewhere
      <3> QED
        BY <3>1, <3>5 DEF ConnectingKept
    <2>2. CASE TcpConnected(c) \/ Handshaken(c)
      BY <2>2 DEF TcpConnected, Handshaken, ConnectSucceeded, ConnectingKept
    <2>3. CASE ResolveFails(c) \/ ConnectStepFails(c)
      BY <2>3 DEF ResolveFails, ConnectStepFails, ConnectFailed, ConnectingKept
    <2> QED
      BY <1>1, <2>1, <2>2, <2>3 DEF ConnectStep
  <1>2. CASE LoopSwitchHost
    BY <1>2 DEF LoopSwitchHost, Disconnected, ConnectingKept, conn
  <1>3. CASE LoopConnect
    <2>1. CASE BeginResolve(Loop, endpoint[Head(tasks)])
      BY <1>0, <2>1, BeginsByItsUrl DEF ConnectingKept
    <2>2. CASE ~BeginResolve(Loop, endpoint[Head(tasks)]) /\ connectionState = "CONNECTING"
      <3>1. /\ connectionState' = connectionState /\ UNCHANGED <<isTls, target>>
            /\ \A d \in Caller \ {Loop} : pc'[d] = pc[d]
        BY <1>0, <1>3, <2>2 DEF LoopConnect, AnswerFront
      <3>2. ~ByItsUrl(Loop)
        BY <1>3 DEF LoopConnect, ByItsUrl, ConnectPhase
      <3> QED
        BY <3>1, <3>2, Elsewhere DEF ConnectingKept
    <2>3. CASE ~BeginResolve(Loop, endpoint[Head(tasks)]) /\ connectionState # "CONNECTING"
      BY <1>3, <2>3 DEF LoopConnect, ConnectingKept
    <2> QED
      BY <2>1, <2>2, <2>3
  <1>4. CASE ShutdownDone
    BY <1>4 DEF ShutdownDone, Disconnected, ConnectingKept
  <1>5. CASE QueueDrained \/ LoopSend \/ Pop \/ ShutdownThrows
             \/ WriteDone \/ ReadDone \/ ExchangeFails
    <2>1. /\ connectionState' = connectionState /\ UNCHANGED <<isTls, target>>
          /\ \A d \in Caller \ {Loop} : pc'[d] = pc[d]
      BY <1>0, <1>5 DEF QueueDrained, LoopSend, Pop, ShutdownThrows, WriteDone, ReadDone,
                        ExchangeFails, AnswerFront, conn
    <2>2. pc[Loop] \in {"next", "pop", "shutdown", "write", "read"}
      BY <1>5 DEF QueueDrained, LoopSend, Pop, ShutdownThrows, WriteDone, ReadDone, ExchangeFails
    <2>3. ~ByItsUrl(Loop)
      BY <2>2 DEF ByItsUrl, ConnectPhase
    <2> QED
      BY <2>1, <2>3, Elsewhere DEF ConnectingKept
  <1>6. ASSUME NEW x \in Connector, NEW u \in Origin \cup {BadUrl}, Connect(x, u)
        PROVE  ConnectingKept
    <2>1. connectionState' # "CONNECTING" \/ BeginResolve(x, u)
      BY <1>6 DEF Connect
    <2>2. x \in Caller
      BY DEF Caller
    <2> QED
      BY <2>1, <2>2, BeginsByItsUrl DEF ConnectingKept
  <1>7. ASSUME NEW r \in Req, NEW u \in Origin \cup {BadUrl}, Request(r, u)
        PROVE  ConnectingKept
    <2>1. /\ connectionState' = connectionState /\ UNCHANGED <<isTls, target>>
          /\ \A d \in Caller : pc'[d] = pc[d] \/ (d = Loop /\ pc[d] = "off")
      BY <1>0, <1>7 DEF Request, QueueControl, conn
    <2>2. pc[Loop] = "off" => ~ByItsUrl(Loop)
      BY DEF ByItsUrl, ConnectPhase
    <2> QED
      BY <2>1, <2>2, Elsewhere DEF ConnectingKept
  <1>8. CASE \/ \E r \in Req : AsyncWait(r)
             \/ \E k \in Kind : StreamExpires(k)
             \/ Destroy
             \/ UNCHANGED vars
    <2>1. UNCHANGED <<connectionState, isTls, target, pc>>
      BY <1>8 DEF AsyncWait, StreamExpires, Destroy, vars, conn, ctl
    <2> QED
      BY <2>1, Elsewhere DEF ConnectingKept
  <1> QED
    BY <1>1, <1>2, <1>3, <1>4, <1>5, <1>6, <1>7, <1>8 DEF Next, LoopStep, Caller

LEMMA ConnectingInvariant == Spec => []HeldByItsUrl
  <1>1. Init => HeldByItsUrl
    BY DEF Init, HeldByItsUrl
  <1>2. /\ TypeOK /\ QueueControl /\ HeldByItsUrl /\ [Next]_vars
        => (TypeOK /\ QueueControl /\ HeldByItsUrl)'
    BY ControlStep, ConnectingStep DEF HeldByItsUrl, ConnectingKept
  <1> QED
    BY ControlInit, <1>1, <1>2, PTL DEF Spec

(* _connection_state says CONNECTING only while somebody is inside connect(), *)
(* so a refusal with operation_in_progress is never final: every way out of   *)
(* connect() resets the state, however many callers overlap.                  *)
THEOREM ConnectingIsReleased == Spec => []NeverStuckConnecting
  <1>1. HeldByItsUrl => NeverStuckConnecting
    BY DEF HeldByItsUrl, ByItsUrl, NeverStuckConnecting
  <1> QED
    BY <1>1, ConnectingInvariant, PTL

(* For any callers, origins and overlaps: a connect() that is alone by the    *)
(* time it reads _is_tls again finds what its own URL asks for, whoever was   *)
(* refused or has failed in the meantime.                                     *)
THEOREM ConnectsByItsUrl == Spec => []ConnectsAsAsked
  <1>1. ASSUME HeldByItsUrl, NEW c \in Caller, connectionState = "CONNECTING",
               \A d \in Caller \ {c} : pc[d] \notin ConnectPhase
        PROVE  ByItsUrl(c)
    BY <1>1 DEF HeldByItsUrl, ByItsUrl
  <1>2. HeldByItsUrl => ConnectsAsAsked
    BY <1>1 DEF ConnectsAsAsked, ByItsUrl
  <1> QED
    BY <1>2, ConnectingInvariant, PTL

-----------------------------------------------------------------------------
(* One connection, when nobody calls connect() behind the loop's back *)

(* While the loop connects, it connects to the front task's origin over the   *)
(* stream of that origin's scheme; once connected, the stream of the scheme   *)
(* leads to _current_origin; during an exchange that is the front task's, and *)
(* during a shutdown it is not.                                               *)
OneConnection ==
    life = "alive" /\ pc[Loop] # "threw" =>
        /\ pc[Loop] \in ConnectPhase =>
              /\ target[Loop] = endpoint[Head(tasks)]
              /\ isTls <=> target[Loop] \in TlsOrigin
        /\ pc[Loop] = "connect_tcp" => ~isTls
        /\ pc[Loop] \in {"connect_ssl", "handshake", "rehandshake"} => isTls
        /\ pc[Loop] \in {"handshake", "rehandshake"} => stream["ssl"].peer = target[Loop]
        /\ connectionState = "CONNECTING" => pc[Loop] \in ConnectPhase
        /\ connectionState = "CONNECTED" =>
              /\ pc[Loop] \notin ConnectPhase
              /\ stream[KindOf(isTls)].peer = currentOrigin
              /\ isTls <=> currentOrigin \in TlsOrigin
        /\ pc[Loop] \in {"write", "read"} =>
              /\ connectionState = "CONNECTED"
              /\ via = KindOf(isTls)
              /\ currentOrigin = endpoint[Head(tasks)]
        /\ pc[Loop] = "shutdown" => currentOrigin # endpoint[Head(tasks)]

(* A requester that called is in the queue, and none is lost. *)
CallersQueued ==
    \A r \in Req : /\ status[r] = "calling" => r \in Range(Unanswered)
                   /\ status[r] # "lost"

(* With the loop as the only caller of connect(), every step keeps the        *)
(* invariant that ties the connection to the front task.                      *)
LEMMA OneConnectionStep ==
    ASSUME Connector = {}, TypeOK, QueueControl, QueueMatchesWaiters, OneConnection, [Next]_vars
    PROVE  OneConnection'
  <1> USE DEF TypeOK, Caller, OneConnection, queue, conn, ctl, reqs, ConnectPhase, Kind, KindOf
  <1> USE OriginAssumption
  <1>1. CASE ConnectStep(Loop)
    <2>1. CASE Resolved(Loop)
      BY <2>1 DEF Resolved, ConnectingOn
    <2>2. CASE SslConnected(Loop)
      BY <2>2 DEF SslConnected, SslTo
    <2>3. CASE TcpConnected(Loop)
      BY <2>3 DEF TcpConnected, ConnectSucceeded, TcpTo, Quiet
    <2>4. CASE Handshaken(Loop)
      BY <2>4 DEF Handshaken, ConnectSucceeded, SslTo, Quiet
    <2>5. CASE ResolveFails(Loop) \/ ConnectStepFails(Loop)
      BY <2>5 DEF ResolveFails, ConnectStepFails, ConnectFailed, AnswerFront
    <2> QED
      BY <1>1, <2>1, <2>2, <2>3, <2>4, <2>5 DEF ConnectStep
  <1>2. CASE QueueDrained
    BY <1>2 DEF QueueDrained
  <1>3. CASE LoopSend
    BY <1>3 DEF LoopSend
  <1>4. CASE LoopSwitchHost
    <2>1. CASE isTls
      BY <1>4, <2>1 DEF LoopSwitchHost
    <2>2. CASE ~isTls
      BY <1>4, <2>2 DEF LoopSwitchHost, Disconnected
    <2> QED
      BY <2>1, <2>2
  <1>5. CASE LoopConnect
    <2>1. CASE connectionState = "CONNECTING" \/ endpoint[Head(tasks)] \in SniRefused
      BY <1>5, <2>1 DEF LoopConnect, AnswerFront
    <2>2. CASE ~(connectionState = "CONNECTING" \/ endpoint[Head(tasks)] \in SniRefused)
      <3> DEFINE u == endpoint[Head(tasks)]
      <3>1. BeginResolve(Loop, u)
        BY <1>5, <2>2 DEF LoopConnect
      <3>2. /\ pc'[Loop] = "resolve"
            /\ target'[Loop] = u
            /\ endpoint'[Head(tasks')] = u
            /\ connectionState' = "CONNECTING"
        BY <3>1 DEF BeginResolve
      <3>3. isTls' <=> u \in TlsOrigin
        BY <3>1 DEF BeginResolve
      <3> QED
        BY <3>2, <3>3
    <2> QED
      BY <2>1, <2>2
  <1>6. CASE ShutdownDone
    BY <1>6 DEF ShutdownDone, Disconnected
  <1>7. CASE ShutdownThrows
    BY <1>7 DEF ShutdownThrows
  <1>8. CASE WriteDone
    BY <1>8 DEF WriteDone, Quiet
  <1>9. CASE ReadDone
    BY <1>9 DEF ReadDone, AnswerFront
  <1>10. CASE ExchangeFails
    BY <1>10 DEF ExchangeFails, AnswerFront, Expired
  <1>11. CASE Pop
    BY <1>11 DEF Pop
  <1>12. ASSUME NEW r \in Req, NEW u \in Origin \cup {BadUrl}, Request(r, u)
         PROVE  OneConnection'
    <2>1. CASE u = BadUrl \/ ~isProcessing
      BY <1>12, <2>1 DEF Request, QueueControl
    <2>2. CASE u # BadUrl /\ isProcessing /\ pc[Loop] \in Exchange
      <3>1. Unanswered = tasks /\ tasks # <<>>
        BY <1>12, <2>2 DEF Unanswered, Exchange, Request, MayCall, QueueControl
      <3>2. Head(tasks) \in Req /\ status[Head(tasks)] \in {"calling", "waiting"}
        BY <3>1, TailOfInjective DEF QueueMatchesWaiters
      <3>3. r # Head(tasks)
        BY <1>12, <3>2 DEF Request, MayCall, NoCaller
      <3>4. Head(tasks') = Head(tasks) /\ endpoint'[Head(tasks)] = endpoint[Head(tasks)]
        <4>1. tasks' = Append(tasks, r) /\ endpoint' = [endpoint EXCEPT ![r] = u]
          BY <1>12, <2>2 DEF Request
        <4>2. Head(Append(tasks, r)) = Head(tasks)
          BY <3>1, AppendTail
        <4>3. endpoint'[Head(tasks)] = endpoint[Head(tasks)]
          BY <3>2, <3>3, <4>1
        <4> QED
          BY <4>1, <4>2, <4>3
      <3>5. UNCHANGED <<pc, target, via, conn, life>>
        BY <1>12, <2>2 DEF Request
      <3> QED
        BY <3>4, <3>5
    <2>3. CASE u # BadUrl /\ isProcessing /\ pc[Loop] \notin Exchange
      BY <1>12, <2>3 DEF Request, Exchange
    <2> QED
      BY <2>1, <2>2, <2>3
  <1>13. ASSUME NEW r \in Req, AsyncWait(r)
         PROVE  OneConnection'
    BY <1>13 DEF AsyncWait
  <1>14. ASSUME NEW k \in Kind, StreamExpires(k)
         PROVE  OneConnection'
    BY <1>14 DEF StreamExpires, Expired
  <1>15. CASE Destroy
    BY <1>15 DEF Destroy
  <1>16. CASE UNCHANGED vars
    BY <1>16 DEF vars
  <1> QED
    BY <1>1, <1>2, <1>3, <1>4, <1>5, <1>6, <1>7, <1>8, <1>9, <1>10, <1>11, <1>12, <1>13,
       <1>14, <1>15, <1>16
       DEF Next, LoopStep

(* Requests reach the host they name, and https requests travel over TLS, as  *)
(* long as only the loop calls connect().                                     *)
THEOREM RequestsReachTheirHost ==
    ASSUME Connector = {}
    PROVE  Spec => []RightPeer
  <1>1. Init => QueueMatchesWaiters /\ OneConnection
    BY DEF Init, QueueMatchesWaiters, Unanswered, IsInjective, Range, Caller, OneConnection,
           ConnectPhase
  <1>2. /\ TypeOK /\ QueueControl /\ QueueMatchesWaiters /\ OneConnection /\ [Next]_vars
        => (TypeOK /\ QueueControl /\ QueueMatchesWaiters /\ OneConnection)'
    BY ControlStep, QueueStep, OneConnectionStep
  <1>3. OneConnection => RightPeer
    BY DEF OneConnection, RightPeer, KindOf
  <1> QED
    BY ControlInit, <1>1, <1>2, <1>3, PTL DEF Spec
-----------------------------------------------------------------------------
(* AsyncRestClient implements RequestService *)

(* What a requester sees, in the terms of RequestService. *)
Seen == [r \in Req |-> IF status[r] \in {"calling", "waiting"} THEN "pending" ELSE status[r]]

(* With no connect() from outside and no refused host name, a task is failed  *)
(* only when its requester waits for it.                                      *)
LEMMA AnswersAWaiter ==
    ASSUME Connector = {}, SniRefused = {}, TypeOK, QueueControl, QueueMatchesWaiters,
           OneConnection, LoopAnswers
    PROVE  /\ tasks # <<>>
           /\ Unanswered = tasks
           /\ Unanswered' = Tail(tasks)
           /\ Head(tasks) \in Req
           /\ status[Head(tasks)] = "waiting"
           /\ \E res \in {"ok", "error"} : status' = [status EXCEPT ![Head(tasks)] = res]
  <1>1. tasks # <<>> /\ Unanswered = tasks /\ Unanswered' = Tail(tasks)
    BY DEF LoopAnswers, AnswerFront, Unanswered, Exchange, ConnectPhase, TypeOK, Caller
  <1>2. Head(tasks) \in Req /\ status[Head(tasks)] \in {"calling", "waiting"}
    BY <1>1, TailOfInjective DEF QueueMatchesWaiters, TypeOK
  <1>3. CASE Quiet
    BY <1>1, <1>2, <1>3 DEF Quiet, NoCaller, LoopAnswers, AnswerFront
  <1>4. CASE LoopConnect
    <2>1. connectionState # "CONNECTING"
      BY <1>4 DEF LoopConnect, OneConnection, LoopAnswers, ConnectPhase
    <2>2. pc'[Loop] = "resolve"
      BY <1>4, <2>1 DEF LoopConnect, BeginResolve, TypeOK, Caller
    <2>3. pc'[Loop] = "pop"
      BY DEF LoopAnswers, AnswerFront, TypeOK, Caller
    <2> QED
      BY <2>2, <2>3
  <1> QED
    BY <1>1, <1>3, <1>4 DEF LoopAnswers

(* Every step keeps each calling requester's task in the queue and loses none. *)
LEMMA CallersStep ==
    ASSUME Connector = {}, SniRefused = {}, TypeOK, QueueControl, QueueMatchesWaiters,
           OneConnection, CallersQueued, [Next]_vars
    PROVE  CallersQueued'
  <1> USE DEF TypeOK, Caller
  <1>1. CASE LoopRuns \/ QueueDrained \/ Pop
    <2>1. Unanswered' = Unanswered /\ status' = status
      BY <1>1 DEF LoopRuns, QueueDrained, Pop, reqs, Unanswered, Exchange, ConnectPhase
    <2> QED
      BY <2>1 DEF CallersQueued
  <1>2. CASE LoopAnswers
    <2>1. Range(Tail(tasks)) = Range(tasks) \ {Head(tasks)}
      BY <1>2, AnswersAWaiter, TailOfInjective DEF QueueMatchesWaiters
    <2> QED
      BY <1>2, <2>1, AnswersAWaiter DEF CallersQueued
  <1>3. ASSUME NEW r \in Req, NEW u \in Origin \cup {BadUrl}, Request(r, u)
        PROVE  CallersQueued'
    <2>1. CASE u = BadUrl
      BY <1>3, <2>1 DEF Request, queue, Unanswered, CallersQueued
    <2>2. CASE u # BadUrl
      <3>1. Unanswered' = Append(Unanswered, r)
        BY <1>3, <2>2, RequestAppends
      <3>2. r \notin Range(Unanswered) /\ IsInjective(Unanswered)
        BY <1>3 DEF Request, MayCall, NoCaller, QueueMatchesWaiters
      <3>3. Range(Unanswered') = Range(Unanswered) \cup {r}
        BY <3>1, <3>2, UnansweredType, AppendNew
      <3>4. status' = [status EXCEPT ![r] = "calling"]
        BY <1>3, <2>2 DEF Request
      <3> QED
        BY <3>3, <3>4 DEF CallersQueued
    <2> QED
      BY <2>1, <2>2
  <1>4. ASSUME NEW r \in Req, AsyncWait(r)
        PROVE  CallersQueued'
    BY <1>4 DEF AsyncWait, queue, ctl, Unanswered, CallersQueued
  <1>5. CASE Destroy
    BY <1>5 DEF Destroy, Quiet, NoCaller, CallersQueued
  <1> QED
    BY <1>1, <1>2, <1>3, <1>4, <1>5, StepKinds

(* Every step is a step of RequestService or changes nothing it speaks of. *)
LEMMA ServiceStep ==
    ASSUME Connector = {}, SniRefused = {}, TypeOK, QueueControl, QueueMatchesWaiters,
           OneConnection, CallersQueued, [Next]_vars
    PROVE  [RS!Next]_(RS!vars)
  <1> USE DEF TypeOK, Caller
  <1>1. CASE LoopRuns \/ QueueDrained \/ Pop
    <2>1. Unanswered' = Unanswered /\ status' = status
      BY <1>1 DEF LoopRuns, QueueDrained, Pop, reqs, Unanswered, Exchange, ConnectPhase
    <2> QED
      BY <2>1 DEF RS!vars
  <1>2. CASE LoopAnswers
    <2>1. PICK res \in {"ok", "error"} : status' = [status EXCEPT ![Head(tasks)] = res]
      BY <1>2, AnswersAWaiter
    <2>2. Seen' = [Seen EXCEPT ![Head(tasks)] = res]
      BY <2>1, <1>2, AnswersAWaiter DEF Seen
    <2>3. RS!Answer(res)
      BY <1>2, <2>2, AnswersAWaiter DEF RS!Answer, Seen
    <2> QED
      BY <2>3 DEF RS!Next, RS!Result
  <1>3. ASSUME NEW r \in Req, NEW u \in Origin \cup {BadUrl}, Request(r, u)
        PROVE  RS!Next
    <2>1. Seen[r] \notin {"pending", "canceled"}
      BY <1>3 DEF Request, MayCall, NoCaller, Seen, Status
    <2>2. CASE u = BadUrl
      <3>1. Unanswered' = Unanswered /\ status' = [status EXCEPT ![r] = "rejected"]
        BY <1>3, <2>2 DEF Request, queue, Unanswered
      <3>2. Seen' = [Seen EXCEPT ![r] = "rejected"]
        BY <3>1 DEF Seen
      <3>3. RS!Reject(r)
        BY <2>1, <3>1, <3>2 DEF RS!Reject, Seen
      <3> QED
        BY <3>3 DEF RS!Next
    <2>3. CASE u # BadUrl
      <3>1. Unanswered' = Append(Unanswered, r)
        BY <1>3, <2>3, RequestAppends
      <3>2. status' = [status EXCEPT ![r] = "calling"]
        BY <1>3, <2>3 DEF Request
      <3>3. Seen' = [Seen EXCEPT ![r] = "pending"]
        BY <3>2 DEF Seen
      <3>4. RS!Submit(r)
        BY <2>1, <3>1, <3>3 DEF RS!Submit, Seen
      <3> QED
        BY <3>4 DEF RS!Next
    <2> QED
      BY <2>2, <2>3
  <1>4. ASSUME NEW r \in Req, AsyncWait(r)
        PROVE  UNCHANGED RS!vars
    <2>1. Unanswered' = Unanswered
      BY <1>4 DEF AsyncWait, queue, ctl, Unanswered
    <2>2. status[r] = "calling" /\ status' = [status EXCEPT ![r] = "waiting"]
      BY <1>4 DEF AsyncWait, CallersQueued
    <2>3. Seen' = Seen
      BY <2>2 DEF Seen
    <2> QED
      BY <2>1, <2>3 DEF RS!vars, Seen
  <1>5. CASE Destroy
    <2>1. Unanswered' = <<>>
      BY <1>5 DEF Destroy, Quiet, ctl, Unanswered
    <2>2. \A r \in Req : status[r] = "waiting" => r \in Range(tasks)
      BY <1>5 DEF Destroy, Quiet, Unanswered, QueueMatchesWaiters
    <2>3. \A r \in Req : status[r] # "calling"
      BY <1>5 DEF Destroy, Quiet, NoCaller
    <2>4. status' = [r \in Req |-> IF status[r] = "waiting" THEN "canceled" ELSE status[r]]
      BY <1>5, <2>2 DEF Destroy
    <2>5. Seen' = [r \in Req |-> IF Seen[r] = "pending" THEN "canceled" ELSE Seen[r]]
      BY <2>3, <2>4 DEF Seen, Status
    <2>6. RS!CancelAll
      BY <2>1, <2>5 DEF RS!CancelAll, Seen
    <2> QED
      BY <2>6 DEF RS!Next
  <1> QED
    BY <1>1, <1>2, <1>3, <1>4, <1>5, StepKinds

(* The requesters get what RequestService promises: every request answered at *)
(* most once, in the order of the calls, and cancelled on destruction; as     *)
(* long as only the loop calls connect() and every host name fits OpenSSL.    *)
THEOREM Refinement ==
    ASSUME Connector = {}, SniRefused = {}
    PROVE  Spec => ImplementsRequestService
  <1>1. Init => QueueMatchesWaiters /\ OneConnection /\ CallersQueued
    BY DEF Init, QueueMatchesWaiters, Unanswered, IsInjective, Range, Caller, OneConnection,
           ConnectPhase, CallersQueued
  <1>2. Init => RS!Init
    BY DEF Init, RS!Init, Unanswered, Caller
  <1>3. /\ TypeOK /\ QueueControl /\ QueueMatchesWaiters /\ OneConnection /\ CallersQueued
        /\ [Next]_vars
        => /\ (TypeOK /\ QueueControl /\ QueueMatchesWaiters /\ OneConnection /\ CallersQueued)'
           /\ [RS!Next]_(RS!vars)
    BY ControlStep, QueueStep, OneConnectionStep, CallersStep, ServiceStep
  <1> QED
    BY ControlInit, <1>1, <1>2, <1>3, PTL DEF Spec, ImplementsRequestService, RS!Spec

-----------------------------------------------------------------------------
(* What the loop does not recover from *)

(* A loop that an exception has ended never runs again: _is_processing stays  *)
(* set, so that no request starts another, and nobody who waits is answered   *)
(* (the destructor's "canceled" apart).  Run rest_shutdown_throw shows one    *)
(* such behaviour.                                                            *)
THEOREM DeadLoopAnswersNobody ==
    Spec => [][pc[Loop] = "threw" =>
                  /\ pc'[Loop] = "threw" /\ isProcessing'
                  /\ \A r \in Req : status[r] = "waiting" =>
                                       status'[r] \in {"waiting", "canceled"}]_vars
  <1> DEFINE Mute == /\ pc'[Loop] = "threw" /\ isProcessing'
                     /\ \A r \in Req : status[r] = "waiting" =>
                                          status'[r] \in {"waiting", "canceled"}
  <1>1. TypeOK /\ QueueControl /\ [Next]_vars => (TypeOK /\ QueueControl)'
    BY ControlStep
  <1>2. TypeOK /\ QueueControl /\ [Next]_vars => (pc[Loop] = "threw" => Mute)
    <2> SUFFICES ASSUME TypeOK, QueueControl, [Next]_vars, pc[Loop] = "threw"
                 PROVE  Mute
      OBVIOUS
    <2> USE DEF TypeOK, Caller, Exchange, ConnectPhase, conn, ctl, queue, reqs
    <2>0. isProcessing
      BY DEF QueueControl
    <2>1. CASE LoopRuns
      BY <2>0, <2>1 DEF LoopRuns
    <2>2. CASE LoopAnswers \/ QueueDrained \/ Pop
      BY <2>2 DEF LoopAnswers, QueueDrained, Pop
    <2>3. ASSUME NEW r \in Req, NEW u \in Origin \cup {BadUrl}, Request(r, u) PROVE Mute
      BY <2>0, <2>3 DEF Request
    <2>4. ASSUME NEW r \in Req, AsyncWait(r) PROVE Mute
      BY <2>0, <2>4 DEF AsyncWait
    <2>5. CASE Destroy
      BY <2>0, <2>5 DEF Destroy
    <2> QED
      BY <2>1, <2>2, <2>3, <2>4, <2>5, StepKinds
  <1> QED
    BY ControlInit, <1>1, <1>2, PTL DEF Spec

(* The client believes that it is connected, over a stream on which no        *)
(* exchange can succeed any more.                                             *)
DeadConnection == connectionState = "CONNECTED" /\ ~stream[KindOf(isTls)].usable

(* What becomes of it: no step answers a request over it, or replaces it,     *)
(* unless the front task is for another host.                                 *)
StaysDead ==
    /\ \A r \in Req : status'[r] = "ok" => status[r] = "ok"
    /\ DeadConnection' \/ (tasks # <<>> /\ endpoint[Head(tasks)] # currentOrigin)

LEMMA DeadStep ==
    ASSUME Connector = {}, TypeOK, QueueControl, OneConnection, DeadConnection, [Next]_vars
    PROVE  StaysDead
  <1> USE DEF TypeOK, Caller, DeadConnection, StaysDead, queue, conn, ctl, reqs, ConnectPhase, Kind,
              KindOf
  <1>1. ASSUME ConnectStep(Loop) PROVE FALSE
    BY <1>1 DEF ConnectStep, Resolved, ResolveFails, TcpConnected, SslConnected, Handshaken,
                ConnectStepFails, Quiet, OneConnection
  <1>2. CASE QueueDrained \/ LoopSend \/ WriteDone \/ Pop
    BY <1>2 DEF QueueDrained, LoopSend, WriteDone, Pop
  <1>3. CASE LoopSwitchHost
    BY <1>3 DEF LoopSwitchHost
  <1>4. ASSUME LoopConnect PROVE FALSE
    BY <1>4 DEF LoopConnect
  <1>5. CASE ShutdownDone
    BY <1>5 DEF ShutdownDone, Quiet, OneConnection, QueueControl, Exchange
  <1>6. CASE ShutdownThrows
    BY <1>6 DEF ShutdownThrows, NewStream
  <1>7. ASSUME ReadDone PROVE FALSE
    BY <1>7 DEF ReadDone, Quiet, OneConnection
  <1>8. CASE ExchangeFails
    BY <1>8 DEF ExchangeFails, AnswerFront, Expired
  <1>9. ASSUME NEW r \in Req, NEW u \in Origin \cup {BadUrl}, Request(r, u) PROVE StaysDead
    BY <1>9 DEF Request
  <1>10. ASSUME NEW r \in Req, AsyncWait(r) PROVE StaysDead
    BY <1>10 DEF AsyncWait
  <1>11. ASSUME NEW k \in Kind, StreamExpires(k) PROVE StaysDead
    BY <1>11 DEF StreamExpires, Expired
  <1>12. CASE Destroy
    BY <1>12 DEF Destroy, Closed
  <1>13. CASE UNCHANGED vars
    BY <1>13 DEF vars
  <1> QED
    BY <1>1, <1>2, <1>3, <1>4, <1>5, <1>6, <1>7, <1>8, <1>9, <1>10, <1>11, <1>12, <1>13
       DEF Next, LoopStep

(* Once the deadline of a connection has passed (or its peer is gone), the    *)
(* client never notices: it stays "connected", and answers no request but     *)
(* with an error, until a request for another host makes it leave.            *)
(* Run rest_deadline shows one such behaviour.                                *)
THEOREM DeadConnectionIsKept ==
    ASSUME Connector = {}
    PROVE  Spec => [][DeadConnection => StaysDead]_vars
  <1>1. Init => QueueMatchesWaiters /\ OneConnection
    BY DEF Init, QueueMatchesWaiters, Unanswered, IsInjective, Range, Caller, OneConnection,
           ConnectPhase
  <1>2. /\ TypeOK /\ QueueControl /\ QueueMatchesWaiters /\ OneConnection /\ [Next]_vars
        => (TypeOK /\ QueueControl /\ QueueMatchesWaiters /\ OneConnection)'
    BY ControlStep, QueueStep, OneConnectionStep
  <1>3. TypeOK /\ QueueControl /\ OneConnection /\ [Next]_vars => (DeadConnection => StaysDead)
    BY DeadStep
  <1> QED
    BY ControlInit, <1>1, <1>2, <1>3, PTL DEF Spec
=============================================================================
