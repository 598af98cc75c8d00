-------------------------- MODULE TradeClientProofs --------------------------
(* No call is carried out twice, and the kind of an error tells whether a     *)
(* call has been carried out, for any number of coroutines, any calls and any *)
(* network.  The invariants follow the numbers of the calls (Inv) and relate  *)
(* each result to the broker's log (History): values are complete, and an     *)
(* order that nothing removes is found.                                       *)
EXTENDS TradeClient, BrokerJsonProofs, FiniteSetTheorems

IsSeq(s) == \E S : s \in Seq(S)

Arguments == {NoNotional} \cup UNION {{use.arg : use \in Uses[r]} : r \in Req}

Call == [n : Nat, op : Op, arg : Arguments, since : Nat]

(* Types, as far as the proof needs them: the values read are left open. *)
Shape ==
    /\ Rest!TypeOK
    /\ calls \in Nat
    /\ call \in [Req -> Call]
    /\ DOMAIN diary = Req /\ \A r \in Req : IsSeq(diary[r])
    /\ stray \subseteq Call
    /\ IsSeq(log)
    /\ \A r \in Req : call[r].since <= Len(log)
    /\ \A c \in stray : c.since <= Len(log)

(* Who waits is in the queue once, with a call of its own. *)
Waiting ==
    /\ \A i \in 1 .. Len(pending) : status[pending[i]] = "pending"
    /\ \A i, j \in 1 .. Len(pending) : pending[i] = pending[j] => i = j
    /\ \A r \in Req : status[r] = "pending" => call[r].n # 0

(* A number stands for one call, in whatever stage it is. *)
Numbers ==
    /\ \A r \in Req : call[r].n <= calls
    /\ \A r, q \in Req : call[r].n = call[q].n /\ call[r].n # 0 => r = q
    /\ \A r \in Req : \A k \in 1 .. Len(diary[r]) :
          /\ diary[r][k].call.n \in 1 .. calls
          /\ \A q \in Req : status[q] = "pending" => call[q].n # diary[r][k].call.n
    /\ \A c \in stray :
          /\ c.n \in 1 .. calls
          /\ \A q \in Req : status[q] = "pending" => call[q].n # c.n
    /\ \A c, d \in stray : c.n = d.n => c = d
    /\ \A i \in 1 .. Len(log) : log[i].call.n \in 1 .. calls

Logged(n) == \E i \in 1 .. Len(log) : log[i].call.n = n

(* The broker has carried out nothing that waits or is under way, but the     *)
(* oldest call when it has answered that with success.                        *)
AnswerKnown ==
    /\ \A q \in Req : status[q] = "pending" /\ Logged(call[q].n) =>
          reply.code # 0 /\ pending # <<>> /\ q = Head(pending)
    /\ reply.code # 0 => pending # <<>>
    /\ reply.code \in {0, 403} \cup {Success(call[Head(pending)].op)}
    /\ reply.code \in {200, 207} =>
          \E i \in call[Head(pending)].since + 1 .. Len(log) : log[i].call = call[Head(pending)]
    /\ reply.code = 403 => ~Logged(call[Head(pending)].n)
    /\ \A c \in stray : ~Logged(c.n)

(* What a result tells of call c, by the number of the call. *)
TrueOf(c, type) ==
    /\ c \in Call
    /\ type \in {"value", "json_parse_error"} => \E i \in c.since + 1 .. Len(log) : log[i].call = c
    /\ type = "http_error" => ~Logged(c.n) /\ \A d \in stray : d.n # c.n

Truth ==
    \A r \in Req : \A k \in 1 .. Len(diary[r]) :
        TrueOf(diary[r][k].call, diary[r][k].result.type)

Inv == Shape /\ Waiting /\ Numbers /\ AnswerKnown /\ CarriedOutOnce /\ Truth

-----------------------------------------------------------------------------
(* Sequences of anything *)

LEMMA AppendAny ==
    ASSUME NEW s, NEW e, IsSeq(s)
    PROVE  /\ IsSeq(Append(s, e))
           /\ Len(s) \in Nat
           /\ Len(Append(s, e)) = Len(s) + 1
           /\ Append(s, e)[Len(s) + 1] = e
           /\ \A i \in 1 .. Len(s) : Append(s, e)[i] = s[i]
<1>1. PICK S : s \in Seq(S)
  BY DEF IsSeq
<1>2. s \in Seq(S \cup {e}) /\ e \in S \cup {e}
  BY <1>1
<1>3. Append(s, e) \in Seq(S \cup {e})
  BY <1>2
<1> QED
  BY <1>2, <1>3 DEF IsSeq

(* What a step that carries out c does to the log. *)
LEMMA CarriedOut ==
    ASSUME NEW c, CarriesOut(c), IsSeq(log)
    PROVE  /\ IsSeq(log') /\ Len(log) \in Nat
           /\ Len(log') = Len(log) + 1
           /\ log'[Len(log) + 1].call = c
           /\ \A i \in 1 .. Len(log) : log'[i] = log[i]
           /\ \A n : Logged(n)' <=> Logged(n) \/ n = c.n
<1>1. PICK items : log' = Append(log, [call |-> c, items |-> items])
  <2>1. CASE Looks(c)
    BY <2>1 DEF Looks, Did
  <2>2. CASE Creates(c)
    BY <2>2 DEF Creates, Did
  <2>3. CASE Deletes(c)
    BY <2>3 DEF Deletes, Did
  <2>4. CASE Closes(c)
    BY <2>4 DEF Closes, Did
  <2> QED
    BY <2>1, <2>2, <2>3, <2>4 DEF CarriesOut
<1> DEFINE e == [call |-> c, items |-> items]
<1>2. /\ IsSeq(Append(log, e)) /\ Len(log) \in Nat
      /\ Len(Append(log, e)) = Len(log) + 1
      /\ Append(log, e)[Len(log) + 1] = e
      /\ \A i \in 1 .. Len(log) : Append(log, e)[i] = log[i]
  BY AppendAny
<1>3. e.call = c
  OBVIOUS
<1> HIDE DEF e
<1>4. /\ IsSeq(log') /\ Len(log') = Len(log) + 1
      /\ log'[Len(log) + 1].call = c
      /\ \A i \in 1 .. Len(log) : log'[i] = log[i]
  BY <1>1, <1>2, <1>3 DEF e
<1>5. \A n : Logged(n)' <=> Logged(n) \/ n = c.n
  BY <1>2, <1>4, SMT DEF Logged
<1> QED
  BY <1>2, <1>4, <1>5

(* The kinds of result that an answer may become. *)
LEMMA ResultType ==
    ASSUME NEW c, NEW answer
    PROVE  /\ answer.code # ExpectedStatus(c.op) => Result(c, answer).type = "http_error"
           /\ answer.code = ExpectedStatus(c.op) =>
                 Result(c, answer).type \in {"value", "json_parse_error"}
  BY Zenon DEF Result, Error, Value

LEMMA Statuses == \A op : ExpectedStatus(op) = Success(op) /\ Success(op) \in {200, 207}
  BY DEF ExpectedStatus, Success

(* The queue loses its head: nobody begins to wait, and the head stops. *)
LEMMA Popped ==
    ASSUME Shape, Waiting, call' = call, NEW res \in {"ok", "error"}, Rest!Answer(res)
    PROVE  /\ Head(pending) \in Req /\ status[Head(pending)] = "pending"
           /\ pending # <<>>
           /\ Rest!TypeOK' /\ Waiting'
           /\ \A q \in Req : status'[q] = "pending" => status[q] = "pending" /\ q # Head(pending)
<1>1. pending \in Seq(Req) /\ pending # <<>> /\ status \in [Req -> Rest!Status]
  BY DEF Shape, Rest!TypeOK, Rest!Answer
<1>2. Head(pending) = pending[1] /\ Head(pending) \in Req /\ 1 \in 1 .. Len(pending)
  BY <1>1
<1>3. status[Head(pending)] = "pending"
  BY <1>2 DEF Waiting
<1>4. /\ pending' = Tail(pending)
      /\ pending' \in Seq(Req)
      /\ Len(pending') = Len(pending) - 1
      /\ \A i \in 1 .. Len(pending') : pending'[i] = pending[i + 1]
  BY <1>1 DEF Rest!Answer
<1>5. status' = [status EXCEPT ![Head(pending)] = res] /\ res \in Rest!Status /\ res # "pending"
  BY DEF Rest!Answer, Rest!Status, Rest!Result
<1>6. Rest!TypeOK'
  BY <1>1, <1>2, <1>4, <1>5 DEF Rest!TypeOK
<1>7. \A q \in Req : status'[q] = "pending" => status[q] = "pending" /\ q # Head(pending)
  BY <1>1, <1>5
<1>8. \A i \in 1 .. Len(pending') :
          /\ i + 1 \in 1 .. Len(pending) /\ i + 1 # 1
          /\ pending'[i] = pending[i + 1]
  BY <1>1, <1>4
<1>9. \A i \in 1 .. Len(pending') : status'[pending'[i]] = "pending"
  <2> TAKE i \in 1 .. Len(pending')
  <2>1. pending[i + 1] # Head(pending) /\ status[pending[i + 1]] = "pending"
    BY <1>2, <1>8 DEF Waiting
  <2>2. pending[i + 1] \in Req
    BY <1>1, <1>8
  <2> QED
    BY <2>1, <2>2, <1>1, <1>5, <1>8
<1>10. \A i, j \in 1 .. Len(pending') : pending'[i] = pending'[j] => i = j
  <2> TAKE i, j \in 1 .. Len(pending')
  <2>1. pending[i + 1] = pending[j + 1] => i + 1 = j + 1
    BY <1>8 DEF Waiting
  <2>2. i \in Nat /\ j \in Nat
    OBVIOUS
  <2> QED
    BY <2>1, <2>2, <1>8
<1>11. \A r \in Req : status'[r] = "pending" => call'[r].n # 0
  BY <1>7 DEF Waiting
<1> QED
  BY <1>1, <1>2, <1>3, <1>6, <1>7, <1>9, <1>10, <1>11 DEF Waiting

(* A result is recorded: an entry of a diary is an old one or the new one. *)
LEMMA Recorded ==
    ASSUME Shape, NEW r \in Req, NEW result, Returns(r, result)
    PROVE  /\ DOMAIN diary' = Req /\ \A q \in Req : IsSeq(diary'[q])
           /\ \A q \in Req : \A k \in 1 .. Len(diary'[q]) :
                 \/ k \in 1 .. Len(diary[q]) /\ diary'[q][k] = diary[q][k]
                 \/ q = r /\ diary'[q][k] = [call |-> call[r], result |-> result]
<1> DEFINE e == [call |-> call[r], result |-> result]
<1>1. diary' = [diary EXCEPT ![r] = Append(diary[r], e)]
  BY DEF Returns
<1>2. DOMAIN diary = Req /\ \A q \in Req : IsSeq(diary[q])
  BY DEF Shape
<1> HIDE DEF e
<1>3. diary'[r] = Append(diary[r], e) /\ \A q \in Req \ {r} : diary'[q] = diary[q]
  BY <1>1, <1>2
<1>4. /\ IsSeq(Append(diary[r], e)) /\ Len(diary[r]) \in Nat
      /\ Len(Append(diary[r], e)) = Len(diary[r]) + 1
      /\ Append(diary[r], e)[Len(diary[r]) + 1] = e
      /\ \A i \in 1 .. Len(diary[r]) : Append(diary[r], e)[i] = diary[r][i]
  BY <1>2, AppendAny
<1>5. DOMAIN diary' = Req
  BY <1>1, <1>2
<1>6. \A q \in Req : IsSeq(diary'[q])
  BY <1>2, <1>3, <1>4
<1>7. ASSUME NEW q \in Req, NEW k \in 1 .. Len(diary'[q])
      PROVE  \/ k \in 1 .. Len(diary[q]) /\ diary'[q][k] = diary[q][k]
             \/ q = r /\ diary'[q][k] = e
  <2>1. CASE q # r
    BY <2>1, <1>3, <1>7
  <2>2. CASE q = r
    <3>1. k \in 1 .. Len(diary[r]) + 1
      BY <2>2, <1>3, <1>4, <1>7
    <3>2. k \in 1 .. Len(diary[r]) \/ k = Len(diary[r]) + 1
      BY <3>1, <1>4
    <3> QED
      BY <2>2, <3>2, <1>3, <1>4
  <2> QED
    BY <2>1, <2>2
<1> QED
  BY <1>5, <1>6, <1>7 DEF e

-----------------------------------------------------------------------------
LEMMA InitInv == Init => Inv
<1> SUFFICES ASSUME Init PROVE Inv
  OBVIOUS
<1>1. IsSeq(<<>>) /\ Len(<<>>) = 0
  BY DEF IsSeq
<1>2. pending = <<>> /\ status = [r \in Req |-> "idle"]
  BY DEF Init, Rest!Init
<1>3. NoCall \in Call
  <2>1. NoNotional \in Arguments
    BY DEF Arguments
  <2>2. "account" \in Op
    BY DEF Op
  <2> QED
    BY <2>1, <2>2 DEF NoCall, Call
<1>4. Shape
  <2>1. Rest!TypeOK
    BY <1>2 DEF Rest!TypeOK, Rest!Status
  <2> QED
    BY <1>1, <1>3, <2>1 DEF Init, Shape, NoCall
<1>5. Waiting
  BY <1>1, <1>2 DEF Waiting
<1>6. Numbers
  BY <1>1, <1>2 DEF Init, Numbers, NoCall
<1>7. AnswerKnown
  BY <1>1, <1>2 DEF Init, AnswerKnown, NoReply, Logged
<1>8. CarriedOutOnce
  BY <1>1 DEF Init, CarriedOutOnce
<1>9. Truth
  BY <1>1 DEF Init, Truth
<1> QED
  BY <1>4, <1>5, <1>6, <1>7, <1>8, <1>9 DEF Inv

LEMMA CallsInv ==
    ASSUME Inv, NEW r \in Req, NEW use \in Uses[r], Calls(r, use.op, use.arg)
    PROVE  Inv'
<1> DEFINE c == [n |-> calls + 1, op |-> use.op, arg |-> use.arg, since |-> Len(log)]
<1> USE DEF Inv
<1>1. /\ status[r] # "pending" /\ status' = [status EXCEPT ![r] = "pending"]
      /\ pending' = Append(pending, r)
      /\ calls' = calls + 1
      /\ UNCHANGED <<diary, reply, stray, orders, held, log>>
  BY DEF Calls, broker, Rest!Submit
<1>2. /\ pending \in Seq(Req) /\ status \in [Req -> Rest!Status] /\ calls \in Nat
      /\ call \in [Req -> Call] /\ Len(log) \in Nat
  <2>1. Len(log) \in Nat
    BY AppendAny DEF Shape
  <2> QED
    BY <2>1 DEF Shape, Rest!TypeOK
<1>3. c \in Call
  <2>1. use.op \in Op /\ use.arg \in Arguments
    BY UsesAssumption DEF Arguments
  <2> QED
    BY <1>2, <2>1 DEF Call
<1>4. call' = [call EXCEPT ![r] = c]
  BY DEF Calls
<1>5. c.n = calls + 1 /\ c.since = Len(log)
  OBVIOUS
<1> HIDE DEF c
<1>6. /\ call'[r] = c /\ \A q \in Req \ {r} : call'[q] = call[q]
      /\ status'[r] = "pending" /\ \A q \in Req \ {r} : status'[q] = status[q]
  BY <1>1, <1>2, <1>4
<1>7. /\ pending' \in Seq(Req) /\ Len(pending') = Len(pending) + 1
      /\ pending'[Len(pending) + 1] = r
      /\ \A i \in 1 .. Len(pending) : pending'[i] = pending[i]
      /\ pending # <<>> => Head(pending') = Head(pending) /\ Head(pending) = pending[1]
                           /\ 1 \in 1 .. Len(pending) /\ Head(pending) \in Req
      /\ pending' # <<>>
  BY <1>1, <1>2
<1>8. \A i \in 1 .. Len(pending) : pending[i] # r /\ status'[pending[i]] = "pending"
  BY <1>1, <1>2, <1>6 DEF Waiting
<1>9. Shape'
  <2>1. Rest!TypeOK'
    BY <1>1, <1>2, <1>7 DEF Rest!TypeOK, Rest!Status
  <2>2. call' \in [Req -> Call] /\ calls' \in Nat
    BY <1>1, <1>2, <1>3, <1>4
  <2>3. \A q \in Req : call'[q].since <= Len(log')
    BY <1>1, <1>2, <1>5, <1>6 DEF Shape
  <2> QED
    BY <1>1, <2>1, <2>2, <2>3 DEF Shape
<1>10. Waiting'
  <2>1. \A i \in 1 .. Len(pending') : i \in 1 .. Len(pending) \/ i = Len(pending) + 1
    BY <1>2, <1>7
  <2>2. \A i \in 1 .. Len(pending') : status'[pending'[i]] = "pending"
    BY <2>1, <1>6, <1>7, <1>8
  <2>3. \A i, j \in 1 .. Len(pending') : pending'[i] = pending'[j] => i = j
    BY <2>1, <1>7, <1>8 DEF Waiting
  <2>4. \A q \in Req : status'[q] = "pending" => call'[q].n # 0
    BY <1>2, <1>5, <1>6 DEF Waiting
  <2> QED
    BY <2>2, <2>3, <2>4 DEF Waiting
<1>11. /\ \A q \in Req : call[q].n \in Nat /\ call[q].n <= calls
       /\ \A d \in stray : d.n \in Nat
  BY <1>2 DEF Numbers, Call, Shape
<1>12. Numbers'
  <2>1. \A q \in Req : call'[q].n <= calls'
    BY <1>1, <1>2, <1>5, <1>6, <1>11
  <2>2. \A p, q \in Req : call'[p].n = call'[q].n /\ call'[p].n # 0 => p = q
    BY <1>2, <1>5, <1>6, <1>11 DEF Numbers
  <2>3. \A n \in 1 .. calls : n \in 1 .. calls' /\ n # c.n
    BY <1>1, <1>2, <1>5
  <2>4. \A p \in Req : \A k \in 1 .. Len(diary'[p]) :
          /\ diary'[p][k].call.n \in 1 .. calls'
          /\ \A q \in Req : status'[q] = "pending" => call'[q].n # diary'[p][k].call.n
    BY <2>3, <1>1, <1>6 DEF Numbers
  <2>5. \A d \in stray' :
          /\ d.n \in 1 .. calls'
          /\ \A q \in Req : status'[q] = "pending" => call'[q].n # d.n
    BY <2>3, <1>1, <1>6 DEF Numbers
  <2>6. \A i \in 1 .. Len(log') : log'[i].call.n \in 1 .. calls'
    BY <2>3, <1>1 DEF Numbers
  <2>7. \A d, e \in stray' : d.n = e.n => d = e
    BY <1>1 DEF Numbers
  <2> QED
    BY <2>1, <2>2, <2>4, <2>5, <2>6, <2>7 DEF Numbers
<1>13. \A n : Logged(n)' <=> Logged(n)
  BY <1>1 DEF Logged
<1>14. AnswerKnown'
  <2>1. ~Logged(c.n)
    BY <1>2, <1>5 DEF Logged, Numbers
  <2>2. reply.code # 0 => pending # <<>> /\ Head(pending') = Head(pending)
                          /\ call'[Head(pending)] = call[Head(pending)]
    BY <1>6, <1>7, <1>8 DEF AnswerKnown
  <2>3. \A q \in Req : status'[q] = "pending" /\ Logged(call'[q].n) =>
          reply'.code # 0 /\ pending' # <<>> /\ q = Head(pending')
    BY <2>1, <2>2, <1>1, <1>6, <1>7 DEF AnswerKnown
  <2>4. CASE reply.code = 0
    BY <2>3, <2>4, <1>1, <1>13 DEF AnswerKnown
  <2>5. CASE reply.code # 0
    <3>1. reply' = reply /\ stray' = stray /\ log' = log
      BY <1>1
    <3>2. reply'.code \in {0, 403} \cup {Success(call'[Head(pending')].op)}
      BY <2>2, <2>5, <3>1 DEF AnswerKnown
    <3>3. reply'.code \in {200, 207} =>
            \E i \in call'[Head(pending')].since + 1 .. Len(log') :
                log'[i].call = call'[Head(pending')]
      BY <2>2, <2>5, <3>1 DEF AnswerKnown
    <3>4. reply'.code = 403 => ~Logged(call'[Head(pending')].n)
      BY <2>2, <2>5, <3>1 DEF AnswerKnown
    <3>5. \A d \in stray' : ~Logged(d.n)
      BY <3>1 DEF AnswerKnown
    <3> QED
      BY <2>3, <3>2, <3>3, <3>4, <3>5, <1>7, <1>13 DEF AnswerKnown
  <2> QED
    BY <2>4, <2>5
<1>15. CarriedOutOnce' /\ Truth'
  BY <1>1, <1>13 DEF CarriedOutOnce, Truth, TrueOf
<1> QED
  BY <1>9, <1>10, <1>12, <1>14, <1>15

(* The call that returns, with a result that is true of it. *)
LEMMA ReturnInv ==
    ASSUME Inv, NEW res \in {"ok", "error"}, Rest!Answer(res), NEW result,
           Returns(Head(pending), result), UNCHANGED <<call, calls, orders, held, log>>,
           reply' = NoReply,
           \/ stray' = stray
           \/ /\ stray' = stray \cup {call[Head(pending)]}
              /\ reply.code = 0
              /\ result.type = "network_error",
           result.type \in {"value", "json_parse_error"} => reply.code \in {200, 207},
           result.type = "http_error" => reply.code = 403
    PROVE  Inv'
<1> DEFINE h == Head(pending)
           c == call[h]
<1> USE DEF Inv
<1>1. /\ h \in Req /\ status[h] = "pending" /\ pending # <<>>
      /\ Rest!TypeOK' /\ Waiting'
      /\ \A q \in Req : status'[q] = "pending" => status[q] = "pending" /\ q # h
  BY Popped
<1>2. /\ DOMAIN diary' = Req /\ \A q \in Req : IsSeq(diary'[q])
      /\ \A q \in Req : \A k \in 1 .. Len(diary'[q]) :
            \/ k \in 1 .. Len(diary[q]) /\ diary'[q][k] = diary[q][k]
            \/ q = h /\ diary'[q][k] = [call |-> c, result |-> result]
  BY <1>1, Recorded
<1>3. /\ c \in Call /\ c.n \in 1 .. calls
      /\ \A q \in Req : status'[q] = "pending" => call[q].n # c.n
      /\ \A d \in stray : d.n # c.n
      /\ reply.code = 0 => ~Logged(c.n)
  <2>1. c \in Call /\ c.n # 0 /\ c.n <= calls /\ calls \in Nat
    BY <1>1 DEF Shape, Waiting, Numbers
  <2>2. c.n \in 1 .. calls
    BY <2>1 DEF Call
  <2>3. \A q \in Req : status'[q] = "pending" => call[q].n # c.n
    BY <1>1, <2>1 DEF Numbers
  <2>4. \A d \in stray : d.n # c.n
    BY <1>1 DEF Numbers
  <2>5. reply.code = 0 => ~Logged(c.n)
    BY <1>1 DEF AnswerKnown
  <2> QED
    BY <2>1, <2>2, <2>3, <2>4, <2>5
<1>4. call' = call /\ calls' = calls /\ log' = log
  OBVIOUS
<1>5. \A n : Logged(n)' <=> Logged(n)
  BY <1>4 DEF Logged
<1>6. [call |-> c, result |-> result].call = c /\ [call |-> c, result |-> result].result = result
  OBVIOUS
<1>7. \A d \in stray' : d \in stray \/ (d = c /\ reply.code = 0 /\ result.type = "network_error")
  OBVIOUS
<1>8. Shape'
  BY <1>1, <1>2, <1>3, <1>4, <1>7 DEF Shape
<1>9. Numbers'
  <2>1. \A p \in Req : \A k \in 1 .. Len(diary'[p]) :
          /\ diary'[p][k].call.n \in 1 .. calls
          /\ \A q \in Req : status'[q] = "pending" => call[q].n # diary'[p][k].call.n
    BY <1>1, <1>2, <1>3, <1>6 DEF Numbers
  <2>2. \A d \in stray' : /\ d.n \in 1 .. calls
                          /\ \A q \in Req : status'[q] = "pending" => call[q].n # d.n
    BY <1>1, <1>3, <1>7 DEF Numbers
  <2>3. \A d, e \in stray' : d.n = e.n => d = e
    BY <1>3, <1>7 DEF Numbers
  <2> QED
    BY <1>4, <2>1, <2>2, <2>3 DEF Numbers
<1>10. AnswerKnown'
  <2>1. reply'.code = 0
    BY DEF NoReply
  <2>2. \A q \in Req : status'[q] = "pending" => ~Logged(call'[q].n)
    BY <1>1, <1>4 DEF AnswerKnown
  <2>3. \A d \in stray' : ~Logged(d.n)
    BY <1>3, <1>7 DEF AnswerKnown
  <2> QED
    BY <2>1, <2>2, <2>3, <1>5 DEF AnswerKnown
<1>11. CarriedOutOnce'
  BY <1>4 DEF CarriedOutOnce
<1>12. Truth'
  <2> SUFFICES ASSUME NEW p \in Req, NEW k \in 1 .. Len(diary'[p])
               PROVE  TrueOf(diary[p][k].call, diary[p][k].result.type)'
    BY DEF Truth
  <2>1. CASE k \in 1 .. Len(diary[p]) /\ diary'[p][k] = diary[p][k]
    <3>1. diary[p][k].call.n # c.n
      BY <1>1, <2>1 DEF Numbers
    <3>2. TrueOf(diary[p][k].call, diary[p][k].result.type)
      BY <2>1 DEF Truth
    <3> QED
      BY <2>1, <3>1, <3>2, <1>4, <1>5, <1>7 DEF TrueOf
  <2>2. CASE diary'[p][k] = [call |-> c, result |-> result]
    <3>1. result.type \in {"value", "json_parse_error"} =>
            \E i \in c.since + 1 .. Len(log) : log[i].call = c
      BY DEF AnswerKnown
    <3>2. result.type = "http_error" => ~Logged(c.n) /\ \A e \in stray' : e.n # c.n
      BY <1>3, <1>7 DEF AnswerKnown
    <3> QED
      BY <2>2, <3>1, <3>2, <1>3, <1>4, <1>5, <1>6 DEF TrueOf
  <2> QED
    BY <1>2, <2>1, <2>2
<1> QED
  BY <1>1, <1>8, <1>9, <1>10, <1>11, <1>12

LEMMA AnsweredInv == Inv /\ Answered => Inv'
<1> SUFFICES ASSUME Inv, Answered PROVE Inv'
  OBVIOUS
<1> DEFINE c == call[Head(pending)]
           result == Result(c, reply)
<1>1. /\ Rest!Answer("ok") /\ Returns(Head(pending), result)
      /\ UNCHANGED <<call, calls, orders, held, log>>
      /\ reply' = NoReply /\ stray' = stray /\ reply.code # 0
  BY DEF Answered
<1>2. reply.code \in {403, Success(c.op)}
  BY <1>1 DEF Inv, AnswerKnown
<1>3. Success(c.op) = ExpectedStatus(c.op) /\ Success(c.op) \in {200, 207}
  BY Statuses
<1>4. /\ reply.code # Success(c.op) => result.type = "http_error"
      /\ reply.code = Success(c.op) => result.type \in {"value", "json_parse_error"}
  BY <1>3, ResultType
<1>5. /\ result.type \in {"value", "json_parse_error"} => reply.code \in {200, 207}
      /\ result.type = "http_error" => reply.code = 403
  BY <1>2, <1>3, <1>4
<1> HIDE DEF c, result
<1> QED
  BY <1>1, <1>5, ReturnInv

LEMMA FailsInv == Inv /\ Fails => Inv'
<1> SUFFICES ASSUME Inv, Fails PROVE Inv'
  OBVIOUS
<1> DEFINE result == Error("network_error")
<1>1. result.type = "network_error"
  BY DEF Error
<1>2. /\ Rest!Answer("error") /\ Returns(Head(pending), result)
      /\ UNCHANGED <<call, calls, orders, held, log>>
      /\ reply' = NoReply /\ stray' = stray \cup UnderWay
  BY DEF Fails
<1> HIDE DEF result
<1>3. UnderWay = {} \/ (UnderWay = {call[Head(pending)]} /\ reply.code = 0)
  BY DEF UnderWay
<1>4. \/ stray' = stray
      \/ /\ stray' = stray \cup {call[Head(pending)]}
         /\ reply.code = 0
         /\ result.type = "network_error"
  BY <1>1, <1>2, <1>3
<1> QED
  BY <1>1, <1>2, <1>4, ReturnInv

LEMMA DestroyedInv == Inv /\ Destroyed => Inv'
<1> SUFFICES ASSUME Inv, Destroyed PROVE Inv'
  OBVIOUS
<1> USE DEF Inv
<1> DEFINE h == Head(pending)
           e(r) == [call |-> call[r], result |-> Error("network_error")]
<1>1. /\ pending # <<>> /\ pending' = <<>>
      /\ status' = [r \in Req |-> IF status[r] = "pending" THEN "canceled" ELSE status[r]]
      /\ stray' = stray \cup UnderWay /\ reply' = NoReply
      /\ call' = call /\ calls' = calls /\ log' = log
      /\ diary' = [r \in Req |-> IF status[r] = "pending" THEN Append(diary[r], e(r)) ELSE diary[r]]
  BY DEF Destroyed, Rest!CancelAll
<1>2. /\ h \in Req /\ status[h] = "pending"
      /\ status \in [Req -> Rest!Status]
  <2>1. pending \in Seq(Req) /\ status \in [Req -> Rest!Status]
    BY DEF Shape, Rest!TypeOK
  <2>2. h = pending[1] /\ h \in Req /\ 1 \in 1 .. Len(pending)
    BY <2>1, <1>1
  <2> QED
    BY <2>1, <2>2 DEF Waiting
<1>3. \A q \in Req : status'[q] # "pending" /\ status'[q] \in Rest!Status
  BY <1>1, <1>2 DEF Rest!Status
<1>4. \A d \in stray' : d \in stray \/ (d = call[h] /\ reply.code = 0)
  BY <1>1 DEF UnderWay
<1>5. \A r \in Req : status[r] = "pending" =>
         /\ call[r] \in Call /\ call[r].n \in 1 .. calls
         /\ \A d \in stray : d.n # call[r].n
  <2> SUFFICES ASSUME NEW r \in Req, status[r] = "pending"
               PROVE  /\ call[r] \in Call /\ call[r].n \in 1 .. calls
                      /\ \A d \in stray : d.n # call[r].n
    OBVIOUS
  <2>1. call[r] \in Call /\ call[r].n # 0 /\ call[r].n <= calls /\ calls \in Nat
    BY DEF Shape, Waiting, Numbers
  <2>2. call[r].n \in 1 .. calls
    BY <2>1 DEF Call
  <2>3. \A d \in stray : d.n # call[r].n
    BY DEF Numbers
  <2> QED
    BY <2>1, <2>2, <2>3
<1>6. \A r \in Req : e(r).call = call[r] /\ e(r).result.type = "network_error"
  BY DEF Error
<1> HIDE DEF e
<1>7. \A r \in Req : IsSeq(diary'[r])
  BY <1>1, AppendAny DEF Shape
<1>8. ASSUME NEW r \in Req, NEW k \in 1 .. Len(diary'[r])
      PROVE  \/ k \in 1 .. Len(diary[r]) /\ diary'[r][k] = diary[r][k]
             \/ status[r] = "pending" /\ diary'[r][k] = e(r)
  <2>1. CASE status[r] # "pending"
    BY <2>1, <1>1, <1>8
  <2>2. CASE status[r] = "pending"
    <3>1. diary'[r] = Append(diary[r], e(r)) /\ IsSeq(diary[r])
      BY <2>2, <1>1 DEF Shape
    <3>2. /\ Len(diary[r]) \in Nat
          /\ Len(diary'[r]) = Len(diary[r]) + 1
          /\ diary'[r][Len(diary[r]) + 1] = e(r)
          /\ \A i \in 1 .. Len(diary[r]) : diary'[r][i] = diary[r][i]
      BY <3>1, AppendAny
    <3>3. k \in 1 .. Len(diary[r]) \/ k = Len(diary[r]) + 1
      BY <3>2, <1>8
    <3> QED
      BY <2>2, <3>2, <3>3
  <2> QED
    BY <2>1, <2>2
<1>9. Shape'
  <2>1. Rest!TypeOK'
    BY <1>1, <1>3 DEF Rest!TypeOK
  <2>2. stray' \subseteq Call
    BY <1>2, <1>4, <1>5 DEF Shape
  <2>3. DOMAIN diary' = Req
    BY <1>1
  <2> QED
    BY <1>1, <1>2, <1>4, <1>7, <2>1, <2>2, <2>3 DEF Shape
<1>10. Waiting'
  BY <1>1, <1>3 DEF Waiting
<1>11. Numbers'
  <2>1. \A r \in Req : \A k \in 1 .. Len(diary'[r]) : diary'[r][k].call.n \in 1 .. calls
    BY <1>5, <1>6, <1>8 DEF Numbers
  <2>2. \A d \in stray' : d.n \in 1 .. calls
    BY <1>2, <1>4, <1>5 DEF Numbers
  <2>3. \A c, d \in stray' : c.n = d.n => c = d
    BY <1>2, <1>4, <1>5 DEF Numbers
  <2> QED
    BY <1>1, <1>3, <2>1, <2>2, <2>3 DEF Numbers
<1>12. \A n : Logged(n)' <=> Logged(n)
  BY <1>1 DEF Logged
<1>13. AnswerKnown'
  <2>1. reply'.code = 0
    BY <1>1 DEF NoReply
  <2>2. \A d \in stray' : ~Logged(d.n)
    BY <1>2, <1>4 DEF AnswerKnown
  <2> QED
    BY <2>1, <2>2, <1>3, <1>12 DEF AnswerKnown
<1>14. CarriedOutOnce'
  BY <1>1 DEF CarriedOutOnce
<1>15. Truth'
  <2> SUFFICES ASSUME NEW p \in Req, NEW k \in 1 .. Len(diary'[p])
               PROVE  TrueOf(diary[p][k].call, diary[p][k].result.type)'
    BY DEF Truth
  <2>1. CASE k \in 1 .. Len(diary[p]) /\ diary'[p][k] = diary[p][k]
    <3>1. diary[p][k].call.n # call[h].n
      BY <1>2, <2>1 DEF Numbers
    <3>2. TrueOf(diary[p][k].call, diary[p][k].result.type)
      BY <2>1 DEF Truth
    <3> QED
      BY <2>1, <3>1, <3>2, <1>1, <1>4, <1>12 DEF TrueOf
  <2>2. CASE status[p] = "pending" /\ diary'[p][k] = e(p)
    BY <2>2, <1>5, <1>6 DEF TrueOf
  <2> QED
    BY <1>8, <2>1, <2>2
<1> QED
  BY <1>9, <1>10, <1>11, <1>13, <1>14, <1>15

-----------------------------------------------------------------------------
(* A call that the broker carries out is in the log for the first time. *)
LEMMA FirstTime ==
    ASSUME Inv, NEW c \in Call, c.n \in 1 .. calls, c.since <= Len(log),
           ~Logged(c.n), CarriesOut(c), calls' = calls, call' = call, diary' = diary,
           stray' \subseteq stray,
           \A r \in Req : \A k \in 1 .. Len(diary[r]) :
              diary[r][k].result.type = "http_error" => diary[r][k].call.n # c.n
    PROVE  /\ IsSeq(log') /\ \A d \in Call : d.since <= Len(log) => d.since <= Len(log')
           /\ \A i \in 1 .. Len(log') : log'[i].call.n \in 1 .. calls'
           /\ CarriedOutOnce'
           /\ \A d \in Call : (\E i \in d.since + 1 .. Len(log) : log[i].call = d) =>
                 \E i \in d.since + 1 .. Len(log') : log'[i].call = d
           /\ \E i \in c.since + 1 .. Len(log') : log'[i].call = c
           /\ Truth'
           /\ \A n : Logged(n)' <=> Logged(n) \/ n = c.n
<1> USE DEF Inv
<1>1. /\ IsSeq(log') /\ Len(log) \in Nat /\ Len(log') = Len(log) + 1
      /\ log'[Len(log) + 1].call = c
      /\ \A i \in 1 .. Len(log) : log'[i] = log[i]
      /\ \A n : Logged(n)' <=> Logged(n) \/ n = c.n
  BY CarriedOut DEF Shape
<1>2. \A i \in 1 .. Len(log') : i \in 1 .. Len(log) \/ i = Len(log) + 1
  BY <1>1
<1>3. \A d \in Call : d.since \in Nat
  BY DEF Call
<1>4. \A d \in Call : d.since <= Len(log) => d.since <= Len(log')
  BY <1>1, <1>3
<1>5. \A i \in 1 .. Len(log') : log'[i].call.n \in 1 .. calls'
  BY <1>1, <1>2 DEF Numbers
<1>6. \A i \in 1 .. Len(log) : log[i].call.n # c.n
  BY DEF Logged
<1>7. CarriedOutOnce'
  <2> SUFFICES ASSUME NEW i \in 1 .. Len(log'), NEW j \in 1 .. Len(log'),
                      log'[i].call.n = log'[j].call.n
               PROVE  i = j
    BY DEF CarriedOutOnce
  <2>1. CASE i \in 1 .. Len(log) /\ j \in 1 .. Len(log)
    BY <2>1, <1>1 DEF CarriedOutOnce
  <2>2. CASE i = Len(log) + 1 /\ j \in 1 .. Len(log)
    BY <2>2, <1>1, <1>6
  <2>3. CASE i \in 1 .. Len(log) /\ j = Len(log) + 1
    BY <2>3, <1>1, <1>6
  <2>4. CASE i = Len(log) + 1 /\ j = Len(log) + 1
    BY <2>4
  <2> QED
    BY <1>2, <2>1, <2>2, <2>3, <2>4
<1>8. c.since \in Nat /\ Len(log) + 1 \in c.since + 1 .. Len(log')
  BY <1>1 DEF Call
<1>9. \A d \in Call : \A i \in d.since + 1 .. Len(log) :
         i \in d.since + 1 .. Len(log') /\ i \in 1 .. Len(log)
  BY <1>1 DEF Call
<1>10. \A d \in Call : (\E i \in d.since + 1 .. Len(log) : log[i].call = d) =>
          \E i \in d.since + 1 .. Len(log') : log'[i].call = d
  BY <1>1, <1>9
<1>11. Truth'
  <2> SUFFICES ASSUME NEW r \in Req, NEW k \in 1 .. Len(diary[r])
               PROVE  TrueOf(diary[r][k].call, diary[r][k].result.type)'
    BY DEF Truth
  <2>1. TrueOf(diary[r][k].call, diary[r][k].result.type)
    BY DEF Truth
  <2> QED
    BY <2>1, <1>1, <1>10 DEF TrueOf
<1> QED
  BY <1>1, <1>4, <1>5, <1>7, <1>8, <1>10, <1>11

LEMMA BrokerAnswersInv == Inv /\ BrokerAnswers => Inv'
<1> SUFFICES ASSUME Inv, BrokerAnswers PROVE Inv'
  OBVIOUS
<1> USE DEF Inv
<1> DEFINE h == Head(pending)
           c == call[h]
<1>1. /\ pending # <<>> /\ reply.code = 0 /\ CarriesOut(c)
      /\ reply'.code = Success(c.op)
      /\ UNCHANGED <<pending, status, call, calls, diary, stray>>
  BY DEF BrokerAnswers
<1>2. /\ h \in Req /\ status[h] = "pending" /\ \A q \in Req : q = h \/ q # h
  <2>1. pending \in Seq(Req)
    BY DEF Shape, Rest!TypeOK
  <2>2. h = pending[1] /\ h \in Req /\ 1 \in 1 .. Len(pending)
    BY <2>1, <1>1
  <2> QED
    BY <2>2 DEF Waiting
<1>3. /\ c \in Call /\ c.n \in 1 .. calls /\ c.since <= Len(log) /\ ~Logged(c.n)
      /\ \A q \in Req \ {h} : call[q].n # c.n
      /\ \A d \in stray : d.n # c.n
      /\ \A r \in Req : \A k \in 1 .. Len(diary[r]) : diary[r][k].call.n # c.n
  <2>1. c \in Call /\ c.n # 0 /\ c.n <= calls /\ calls \in Nat /\ c.since <= Len(log)
    BY <1>2 DEF Shape, Waiting, Numbers
  <2>2. c.n \in 1 .. calls
    BY <2>1 DEF Call
  <2>3. \A q \in Req \ {h} : call[q].n # c.n
    BY <1>2, <2>1 DEF Numbers
  <2>4. \A d \in stray : d.n # c.n
    BY <1>2 DEF Numbers
  <2>5. ~Logged(c.n)
    BY <1>1, <1>2 DEF AnswerKnown
  <2>6. \A r \in Req : \A k \in 1 .. Len(diary[r]) : diary[r][k].call.n # c.n
    BY <1>2 DEF Numbers
  <2> QED
    BY <2>1, <2>2, <2>3, <2>4, <2>5, <2>6
<1> HIDE DEF c
<1>4. /\ IsSeq(log') /\ \A d \in Call : d.since <= Len(log) => d.since <= Len(log')
      /\ \A i \in 1 .. Len(log') : log'[i].call.n \in 1 .. calls'
      /\ CarriedOutOnce'
      /\ \E i \in c.since + 1 .. Len(log') : log'[i].call = c
      /\ Truth'
      /\ \A n : Logged(n)' <=> Logged(n) \/ n = c.n
  BY <1>1, <1>3, FirstTime
<1>5. Shape' /\ Waiting'
  BY <1>1, <1>4 DEF Shape, Waiting, Rest!TypeOK
<1>6. Numbers'
  BY <1>1, <1>4 DEF Numbers
<1>7. AnswerKnown'
  <2>1. Success(c.op) \in {200, 207}
    BY Statuses
  <2>2. \A q \in Req : status[q] = "pending" /\ Logged(call[q].n)' => q = h
    BY <1>1, <1>3, <1>4 DEF AnswerKnown
  <2>3. \A d \in stray : ~(Logged(d.n)')
    BY <1>3, <1>4 DEF AnswerKnown
  <2>4. reply'.code # 0 /\ reply'.code # 403 /\ reply'.code = Success(c.op)
    BY <1>1, <2>1
  <2> QED
    BY <1>1, <1>4, <2>2, <2>3, <2>4 DEF AnswerKnown, c
<1> QED
  BY <1>4, <1>5, <1>6, <1>7

LEMMA StrayArrivesInv == ASSUME Inv, NEW c \in stray, StrayArrives(c) PROVE Inv'
<1> USE DEF Inv
<1>1. /\ CarriesOut(c) /\ stray' = stray \ {c}
      /\ UNCHANGED <<pending, status, call, calls, diary, reply>>
  BY DEF StrayArrives
<1>2. /\ c \in Call /\ c.n \in 1 .. calls /\ ~Logged(c.n)
      /\ \A q \in Req : status[q] = "pending" => call[q].n # c.n
      /\ \A d \in stray \ {c} : d.n # c.n
  BY DEF Shape, Numbers, AnswerKnown
<1>3. \A r \in Req : \A k \in 1 .. Len(diary[r]) :
         diary[r][k].result.type = "http_error" => diary[r][k].call.n # c.n
  BY DEF Truth, TrueOf
<1>4. /\ IsSeq(log') /\ \A d \in Call : d.since <= Len(log) => d.since <= Len(log')
      /\ \A i \in 1 .. Len(log') : log'[i].call.n \in 1 .. calls'
      /\ CarriedOutOnce'
      /\ \A d \in Call : (\E i \in d.since + 1 .. Len(log) : log[i].call = d) =>
            \E i \in d.since + 1 .. Len(log') : log'[i].call = d
      /\ Truth'
      /\ \A n : Logged(n)' <=> Logged(n) \/ n = c.n
  BY <1>1, <1>2, <1>3, FirstTime DEF Shape
<1>5. Shape' /\ Waiting'
  BY <1>1, <1>4 DEF Shape, Waiting, Rest!TypeOK
<1>6. Numbers'
  BY <1>1, <1>4 DEF Numbers
<1>7. AnswerKnown'
  <2>1. \A q \in Req : status[q] = "pending" /\ Logged(call[q].n)' => Logged(call[q].n)
    BY <1>1, <1>2, <1>4
  <2>2. \A d \in stray' : ~(Logged(d.n)')
    BY <1>1, <1>2, <1>4 DEF AnswerKnown
  <2>3. reply.code # 0 => /\ Head(pending) \in Req /\ status[Head(pending)] = "pending"
                          /\ call[Head(pending)] \in Call
    <3>1. pending \in Seq(Req) /\ call \in [Req -> Call]
      BY DEF Shape, Rest!TypeOK
    <3>2. pending # <<>> => Head(pending) = pending[1] /\ Head(pending) \in Req /\ 1 \in 1 .. Len(pending)
      BY <3>1
    <3> QED
      BY <3>1, <3>2 DEF AnswerKnown, Waiting
  <2>4. reply.code = 403 => ~(Logged(call[Head(pending)].n)')
    BY <2>1, <2>3, <1>1 DEF AnswerKnown
  <2>5. reply.code \in {200, 207} =>
          \E i \in call[Head(pending)].since + 1 .. Len(log') : log'[i].call = call[Head(pending)]
    BY <2>3, <1>4 DEF AnswerKnown
  <2> QED
    BY <1>1, <2>1, <2>2, <2>4, <2>5 DEF AnswerKnown
<1> QED
  BY <1>4, <1>5, <1>6, <1>7

LEMMA BrokerRefusesInv == Inv /\ BrokerRefuses => Inv'
<1> SUFFICES ASSUME Inv, BrokerRefuses PROVE Inv'
  OBVIOUS
<1> USE DEF Inv
<1>1. /\ pending # <<>> /\ reply.code = 0 /\ reply'.code = 403
      /\ UNCHANGED <<pending, status, call, calls, diary, stray, log>>
  BY DEF BrokerRefuses
<1>2. Head(pending) \in Req /\ status[Head(pending)] = "pending"
  <2>1. pending \in Seq(Req)
    BY DEF Shape, Rest!TypeOK
  <2>2. Head(pending) = pending[1] /\ Head(pending) \in Req /\ 1 \in 1 .. Len(pending)
    BY <2>1, <1>1
  <2> QED
    BY <2>2 DEF Waiting
<1>3. Shape' /\ Waiting' /\ Numbers' /\ CarriedOutOnce'
  BY <1>1 DEF Shape, Waiting, Numbers, CarriedOutOnce, Rest!TypeOK
<1>4. \A n : Logged(n)' <=> Logged(n)
  BY <1>1 DEF Logged
<1>5. AnswerKnown' /\ Truth'
  BY <1>1, <1>2, <1>4 DEF AnswerKnown, Truth, TrueOf
<1> QED
  BY <1>3, <1>5

(* Nothing that Inv is about changes. *)
LEMMA QuietInv ==
    Inv /\ UNCHANGED <<pending, status, call, calls, diary, reply, stray, log>> => Inv'
<1> SUFFICES ASSUME Inv, UNCHANGED <<pending, status, call, calls, diary, reply, stray, log>>
             PROVE  Inv'
  OBVIOUS
<1> USE DEF Inv
<1>1. Shape' /\ Waiting' /\ Numbers' /\ CarriedOutOnce'
  BY DEF Shape, Waiting, Numbers, CarriedOutOnce, Rest!TypeOK
<1>2. \A n : Logged(n)' <=> Logged(n)
  BY DEF Logged
<1>3. AnswerKnown' /\ Truth'
  BY <1>2 DEF AnswerKnown, Truth, TrueOf
<1> QED
  BY <1>1, <1>3

-----------------------------------------------------------------------------
LEMMA NextInv == Inv /\ [Next]_vars => Inv'
<1> SUFFICES ASSUME Inv, [Next]_vars PROVE Inv'
  OBVIOUS
<1>1. ASSUME NEW r \in Req, NEW use \in Uses[r], Calls(r, use.op, use.arg) PROVE Inv'
  BY <1>1, CallsInv
<1>2. CASE Answered \/ Fails \/ Destroyed
  BY <1>2, AnsweredInv, FailsInv, DestroyedInv
<1>3. CASE BrokerAnswers \/ BrokerRefuses
  BY <1>3, BrokerAnswersInv, BrokerRefusesInv
<1>4. ASSUME NEW c \in stray, StrayArrives(c) PROVE Inv'
  BY <1>4, StrayArrivesInv
<1>5. ASSUME NEW o \in orders, Fill(o) \/ TurnsOdd(o) PROVE Inv'
  BY <1>5, QuietInv DEF Fill, TurnsOdd
<1>6. CASE UNCHANGED vars
  BY <1>6, QuietInv DEF vars, broker
<1> QED
  BY <1>1, <1>2, <1>3, <1>4, <1>5, <1>6 DEF Next

LEMMA SpecInv == Spec => []Inv
<1> QED
  BY InitInv, NextInv, PTL DEF Spec

(* No call is carried out more than once: make_api_request() never sends a    *)
(* second request for one call, and a request that it has given up stays one. *)
THEOREM EachCallAtMostOnce == Spec => []CarriedOutOnce
<1>1. Inv => CarriedOutOnce
  BY DEF Inv
<1> QED
  BY <1>1, SpecInv, PTL

(* A value or a json_parse_error means that the broker carried out this very  *)
(* call after it was made, an http_error that it never did and never will.    *)
THEOREM ResultsAreTrue == Spec => []ResultsTellTruth
<1>1. Inv => ResultsTellTruth
  BY DEF Inv, Truth, TrueOf, Logged, ResultsTellTruth
<1> QED
  BY <1>1, SpecInv, PTL

-----------------------------------------------------------------------------
(* What is read can be written *)

(* What a call reads of an answer, it can write and read again. *)
LEMMA DecodedReadsBack ==
    ASSUME NEW op, NEW obj, ReadableAs(op, obj)
    PROVE  ReadsBack(op, Decode(Reads(op), obj))
<1>1. Readable(Reads(op), obj)
  BY DEF ReadableAs, ReadableClosed, Reads
<1>2. ASSUME NEW table, table = Reads(op), NoNulls(table)
      PROVE  Same(table, table, Decode(table, obj))
  BY <1>1, <1>2, RoundTrip DEF Same
<1>3. CASE op = "account"
  BY <1>2, <1>3, TablesReadNoNulls DEF Reads, ReadsBack, AccountWrites
<1>4. CASE op = "all_open_positions"
  BY <1>2, <1>4, TablesReadNoNulls DEF Reads, ReadsBack, PositionWrites
<1>5. CASE op \in {"get_all_orders", "create_order"}
  BY <1>2, <1>5, TablesReadNoNulls DEF Reads, ReadsBack, OrderWrites
<1>6. CASE op \notin {"account", "all_open_positions", "get_all_orders", "create_order"}
  BY <1>6 DEF ReadsBack
<1> QED
  BY <1>3, <1>4, <1>5, <1>6

LEMMA ResultReadsBack ==
    ASSUME NEW c, NEW answer, NEW i \in DOMAIN Result(c, answer).value
    PROVE  ReadsBack(c.op, Result(c, answer).value[i])
<1> DEFINE json == [k \in 1 .. Len(answer.items) |-> ItemJson(c.op, answer.items[k])]
           structs == [k \in 1 .. Len(json) |-> Decode(Reads(c.op), json[k])]
<1>1. \A type : DOMAIN Error(type).value = {}
  BY DEF Error
<1>2. Value(structs).value = structs
  BY DEF Value
<1>3. Result(c, answer) =
          IF answer.code # ExpectedStatus(c.op) THEN Error("http_error")
          ELSE IF \A k \in 1 .. Len(json) : ReadableAs(c.op, json[k]) THEN Value(structs)
               ELSE Error("json_parse_error")
  BY Zenon DEF Result
<1>4. i \in DOMAIN Result(c, answer).value
  OBVIOUS
<1> HIDE DEF json
<1>5. (\A k \in 1 .. Len(json) : ReadableAs(c.op, json[k])) /\ Result(c, answer) = Value(structs)
  <2> HIDE DEF structs
  <2>1. Result(c, answer) # Error("http_error") /\ Result(c, answer) # Error("json_parse_error")
    BY <1>1, <1>4
  <2> QED
    BY <1>3, <2>1, Zenon
<1>6. i \in 1 .. Len(json) /\ structs[i] = Decode(Reads(c.op), json[i])
  BY <1>2, <1>4, <1>5
<1>7. ReadableAs(c.op, json[i])
  BY <1>5, <1>6
<1> QED
  BY <1>2, <1>5, <1>6, <1>7, DecodedReadsBack

(* For any calls and answers: whatever the client reads of the broker it can  *)
(* write, and read again as the same.                                         *)
THEOREM WhatIsReadIsWritten == Spec => ReadBack
<1> DEFINE Newest(r) == diary'[r][Len(diary'[r])]
           Good(r) == diary'[r] # diary[r] =>
                          \A i \in DOMAIN Newest(r).result.value :
                              ReadsBack(Newest(r).call.op, Newest(r).result.value[i])
<1>1. Inv /\ [Next]_vars => [\A r \in Req : Good(r)]_vars
  <2> SUFFICES ASSUME Inv, [Next]_vars, NEW r \in Req PROVE Good(r)
    OBVIOUS
  <2>1. DOMAIN diary = Req /\ IsSeq(diary[r])
    BY DEF Inv, Shape
  <2>2. ASSUME NEW e, diary'[r] = Append(diary[r], e) PROVE Newest(r) = e
    BY <2>1, <2>2, AppendAny
  <2>3. ASSUME NEW result, Returns(Head(pending), result), diary'[r] # diary[r]
        PROVE  Newest(r) = [call |-> call[r], result |-> result] /\ r = Head(pending)
    <3>1. r = Head(pending) /\ diary'[r] = Append(diary[r], [call |-> call[r], result |-> result])
      BY <2>1, <2>3 DEF Returns
    <3> QED
      BY <2>2, <3>1
  <2>4. \A type : Error(type).value = <<>>
    BY DEF Error
  <2> HIDE DEF Newest
  <2>5. CASE Answered
    <3> SUFFICES ASSUME diary'[r] # diary[r],
                        NEW i \in DOMAIN Newest(r).result.value
                 PROVE  ReadsBack(Newest(r).call.op, Newest(r).result.value[i])
      OBVIOUS
    <3>1. Returns(Head(pending), Result(call[Head(pending)], reply))
      BY <2>5 DEF Answered
    <3>2. Newest(r) = [call |-> call[r], result |-> Result(call[r], reply)]
      BY <2>3, <3>1
    <3>3. Newest(r).call = call[r] /\ Newest(r).result = Result(call[r], reply)
      BY <3>2
    <3> QED
      BY <3>3, ResultReadsBack
  <2>6. CASE Fails
    <3>1. Returns(Head(pending), Error("network_error"))
      BY <2>6 DEF Fails
    <3>2. diary'[r] # diary[r] => Newest(r).result = Error("network_error")
      BY <2>3, <3>1
    <3> QED
      BY <2>4, <3>2
  <2>7. CASE Destroyed
    <3>1. diary'[r] = diary[r]
          \/ diary'[r] = Append(diary[r], [call |-> call[r], result |-> Error("network_error")])
      BY <2>7 DEF Destroyed
    <3>2. ASSUME diary'[r] # diary[r]
          PROVE  Newest(r) = [call |-> call[r], result |-> Error("network_error")]
      BY <2>2, <3>1, <3>2
    <3>3. diary'[r] # diary[r] => Newest(r).result = Error("network_error")
      BY <3>2
    <3> QED
      BY <2>4, <3>3
  <2>8. ASSUME UNCHANGED diary PROVE Good(r)
    BY <2>8
  <2>9. ASSUME NEW q \in Req, NEW use \in Uses[q], Calls(q, use.op, use.arg) PROVE UNCHANGED diary
    BY <2>9 DEF Calls
  <2>10. ASSUME NEW c \in stray, StrayArrives(c) PROVE UNCHANGED diary
    BY <2>10 DEF StrayArrives
  <2>11. ASSUME NEW o \in orders, Fill(o) \/ TurnsOdd(o) PROVE UNCHANGED diary
    BY <2>11 DEF Fill, TurnsOdd
  <2>12. BrokerAnswers \/ BrokerRefuses \/ UNCHANGED vars => UNCHANGED diary
    BY DEF BrokerAnswers, BrokerRefuses, vars
  <2> HIDE DEF Good
  <2> QED
    BY <2>5, <2>6, <2>7, <2>8, <2>9, <2>10, <2>11, <2>12 DEF Next
<1>2. Spec => [][\A r \in Req : Good(r)]_vars
  BY <1>1, SpecInv, PTL DEF Spec
<1> QED
  BY <1>2 DEF ReadBack

-----------------------------------------------------------------------------
(* What a value says of an answer *)

LEMMA ValueOf ==
    ASSUME NEW c, NEW answer, Len(answer.items) \in Nat, Result(c, answer).type = "value"
    PROVE  LET json(k) == ItemJson(c.op, answer.items[k])
               value   == Result(c, answer).value
           IN  /\ Len(value) = Len(answer.items)
               /\ \A k \in 1 .. Len(answer.items) :
                     ReadableAs(c.op, json(k)) /\ value[k] = Decode(Reads(c.op), json(k))
<1> DEFINE json == [k \in 1 .. Len(answer.items) |-> ItemJson(c.op, answer.items[k])]
           structs == [k \in 1 .. Len(json) |-> Decode(Reads(c.op), json[k])]
<1>1. Error("http_error").type # "value" /\ Error("json_parse_error").type # "value"
  BY DEF Error
<1>2. Result(c, answer) =
          IF answer.code # ExpectedStatus(c.op) THEN Error("http_error")
          ELSE IF \A k \in 1 .. Len(json) : ReadableAs(c.op, json[k]) THEN Value(structs)
               ELSE Error("json_parse_error")
  BY Zenon DEF Result
<1>3. Len(json) = Len(answer.items)
  OBVIOUS
<1>4. \A k \in 1 .. Len(answer.items) : json[k] = ItemJson(c.op, answer.items[k])
  OBVIOUS
<1> HIDE DEF json
<1>5. Len(structs) = Len(answer.items)
      /\ \A k \in 1 .. Len(answer.items) : structs[k] = Decode(Reads(c.op), json[k])
  BY <1>3
<1> HIDE DEF structs
<1>6. Result(c, answer) # Error("http_error") /\ Result(c, answer) # Error("json_parse_error")
  BY <1>1
<1>7. (\A k \in 1 .. Len(json) : ReadableAs(c.op, json[k])) /\ Result(c, answer) = Value(structs)
  BY <1>2, <1>6, Zenon
<1>8. Value(structs).value = structs
  BY DEF Value
<1> QED
  BY <1>3, <1>4, <1>5, <1>7, <1>8

(* What a call carried out may have brought: see Looks() .. Closes(). *)
ItemsFit(c, items) ==
    /\ IsSeq(items)
    /\ c.op = "create_order" =>
          /\ Len(items) = 1
          /\ items[1].n = c.n /\ items[1].symbol = c.arg["symbol"]
          /\ items[1].client = c.arg["client_order_id"] \/ c.arg["client_order_id"] = ""
    /\ c.op \in Removes => \A i \in 1 .. Len(items) : items[i].ok \in BOOLEAN

LEMMA OrderTexts ==
    ASSUME NEW o
    PROVE  /\ OrderJson(o)["id"].val = o.n
           /\ OrderJson(o)["symbol"].val = o.symbol
           /\ OrderJson(o)["client_order_id"].val = o.client
<1>1. {"id", "symbol", "client_order_id"} \subseteq DOMAIN AnOrder
  BY PlainTexts DEF AnOrder, Sample, Plain
<1>2. \A kind, x : Json(kind, x).val = x
  BY DEF Json
<1> HIDE DEF AnOrder, Json
<1> QED
  BY <1>1, <1>2 DEF OrderJson

LEMMA PositionTexts == \A item : ItemJson("all_open_positions", item)["symbol"].val = item
<1>1. "symbol" \in DOMAIN APosition
  BY PlainTexts DEF APosition, Sample, Plain
<1>2. \A item : ItemJson("all_open_positions", item) = [APosition EXCEPT !["symbol"] = Json("text", item)]
  BY Zenon DEF ItemJson
<1>3. \A item : Json("text", item).val = item
  BY DEF Json
<1> HIDE DEF APosition
<1> QED
  BY <1>1, <1>2, <1>3

(* Of a position that could not be closed there is no order to read. *)
LEMMA ClosedTexts ==
    ASSUME NEW op \in {"close_all_positions", "close_all_and_cancel"}, NEW item,
           item.ok \in BOOLEAN, ReadableClosed(ItemJson(op, item))
    PROVE  ItemJson(op, item)["symbol"].val = item.of /\ item.ok
<1> DEFINE json == ItemJson(op, item)
           body == IF item.ok THEN OrderJson(ClosingOrder(item.of)) ELSE [code |-> Json("int", 500)]
<1>1. json = [symbol |-> Json("text", item.of),
              status |-> Json("int", IF item.ok THEN 200 ELSE 500),
              body   |-> Json("object", body)]
  BY DEF ItemJson
<1>2. json["symbol"].val = item.of /\ json["body"].val = body
  BY <1>1 DEF Json
<1>3. "id" \in DOMAIN body
  BY <1>2, PlainTexts, PlainRead DEF ReadableClosed
<1> QED
  BY <1>2, <1>3

LEMMA DeletedTexts ==
    \A item : /\ ItemJson("delete_all_orders", item)["id"].val = item.of
              /\ ItemJson("delete_all_orders", item)["status"].val = IF item.ok THEN 200 ELSE 500
  BY DEF ItemJson, Json

LEMMA ValueTells ==
    ASSUME NEW c, c.op \in Op, NEW answer, ItemsFit(c, answer.items), Result(c, answer).type = "value"
    PROVE  Tells(Result(c, answer).value, c, answer.items)
<1> DEFINE items == answer.items
           value == Result(c, answer).value
           json(k) == ItemJson(c.op, items[k])
<1>1. Len(items) \in Nat
  <2>1. IsSeq(items)
    BY Zenon DEF ItemsFit
  <2> QED
    BY <2>1, AppendAny
<1>2. Len(value) = Len(items)
      /\ \A k \in 1 .. Len(items) : ReadableAs(c.op, json(k)) /\ value[k] = Decode(Reads(c.op), json(k))
  BY <1>1, ValueOf
<1> HIDE DEF value, items
<1> SUFFICES ASSUME NEW i \in 1 .. Len(items) PROVE TellsOf(c, items[i], value[i])
  BY <1>2 DEF Tells, items, value
<1>3. ReadableAs(c.op, json(i)) /\ value[i] = Decode(Reads(c.op), json(i))
  BY <1>2
<1> HIDE DEF json
<1>4. CASE c.op \in {"create_order", "get_all_orders"}
  <2>1. json(i) = OrderJson(items[i]) /\ Reads(c.op) = OrderReads
    BY <1>4 DEF Reads, ItemJson, json
  <2>2. Readable(OrderReads, json(i))
    BY <1>3, <1>4, <2>1 DEF ReadableAs
  <2>3. /\ value[i]["id"] = items[i].n
        /\ value[i]["symbol"] = items[i].symbol
        /\ value[i]["client_order_id"] = items[i].client
    BY <1>3, <2>1, <2>2, PlainTexts, PlainRead, OrderTexts
  <2>4. c.op = "create_order" => i = 1
    <3>1. c.op = "create_order" => Len(items) = 1
      BY Zenon DEF ItemsFit, items
    <3> QED
      BY <3>1
  <2> QED
    BY <1>4, <2>3, <2>4 DEF ItemsFit, TellsOf, items
<1>5. CASE c.op = "all_open_positions"
  <2>1. json(i)["symbol"].val = items[i] /\ Reads(c.op) = PositionReads
    BY <1>5, PositionTexts DEF Reads, json
  <2>2. Readable(PositionReads, json(i))
    BY <1>3, <1>5, <2>1 DEF ReadableAs
  <2>3. value[i]["symbol"] = items[i]
    BY <1>3, <2>1, <2>2, PlainTexts, PlainRead
  <2> QED
    BY <1>5, <2>3 DEF TellsOf
<1>6. CASE c.op = "delete_all_orders"
  <2>1. /\ json(i)["id"].val = items[i].of /\ Reads(c.op) = OrderDeletedReads
        /\ json(i)["status"].val = IF items[i].ok THEN 200 ELSE 500
    BY <1>6, DeletedTexts DEF Reads, json
  <2>2. Readable(OrderDeletedReads, json(i))
    BY <1>3, <1>6, <2>1 DEF ReadableAs
  <2>3. value[i]["id"] = items[i].of /\ value[i]["status"] = IF items[i].ok THEN 200 ELSE 500
    BY <1>3, <2>1, <2>2, PlainTexts, PlainStatus, PlainRead
  <2>4. items[i].ok \in BOOLEAN
    BY <1>6 DEF ItemsFit, Removes, items
  <2>5. value[i]["status"] = 200 <=> items[i].ok
    BY <2>3, <2>4
  <2> QED
    BY <1>6, <2>3, <2>5 DEF TellsOf
<1>7. CASE c.op \in {"close_all_positions", "close_all_and_cancel"}
  <2>1. items[i].ok \in BOOLEAN
    BY <1>7 DEF ItemsFit, Removes, items
  <2>2. ReadableClosed(json(i)) /\ Reads(c.op) = PositionClosedReads
    BY <1>3, <1>7 DEF ReadableAs, Reads
  <2>3. json(i)["symbol"].val = items[i].of /\ items[i].ok
    BY <1>7, <2>1, <2>2, ClosedTexts DEF json
  <2>4. value[i]["symbol"] = items[i].of
    BY <1>3, <2>2, <2>3, PlainTexts, PlainRead DEF ReadableClosed
  <2> QED
    BY <1>7, <2>3, <2>4 DEF TellsOf
<1>8. CASE c.op = "account"
  BY <1>8 DEF TellsOf
<1> QED
  BY <1>4, <1>5, <1>6, <1>7, <1>8 DEF Op

-----------------------------------------------------------------------------
(* What the broker carries out *)

LEMMA Listed ==
    ASSUME NEW S, IsFiniteSet(S)
    PROVE  /\ IsSeq(SetToSeq(S)) /\ Len(SetToSeq(S)) \in Nat
           /\ \A x \in S : \E i \in 1 .. Len(SetToSeq(S)) : SetToSeq(S)[i] = x
<1> DEFINE n == Cardinality(S)
           s == SetToSeq(S)
<1>1. n \in Nat /\ ExistsBijection(1 .. n, S)
  BY FS_CardinalityType
<1>2. PICK g : g \in Bijection(1 .. n, S)
  BY <1>1 DEF ExistsBijection
<1>3. g \in [1 .. n -> S] /\ IsInjective(g)
  BY <1>2 DEF Bijection, Injection, IsInjective, Surjection
<1>4. s \in [1 .. n -> S] /\ IsInjective(s)
  BY <1>3 DEF SetToSeq
<1>5. s \in Injection(1 .. n, S)
  BY <1>4 DEF Injection, IsInjective
<1>6. IsFiniteSet(1 .. n) /\ Cardinality(1 .. n) = n
  BY <1>1, FS_Interval
<1>7. s \in Surjection(1 .. n, S)
  BY <1>5, <1>6, FS_Injection
<1> HIDE DEF n, s
<1>8. s \in Seq(S) /\ Len(s) = n
  BY <1>1, <1>4
<1> QED
  BY <1>1, <1>7, <1>8 DEF s, Surjection, IsSeq

LEMMA IndexedSeq ==
    ASSUME NEW n \in Nat, NEW s, s = [i \in 1 .. n |-> s[i]] PROVE IsSeq(s) /\ Len(s) = n
<1> DEFINE S == {s[i] : i \in 1 .. n}
<1>1. s \in [1 .. n -> S]
  OBVIOUS
<1> HIDE DEF S
<1>2. s \in Seq(S) /\ Len(s) = n
  BY <1>1
<1> QED
  BY <1>2 DEF IsSeq

LEMMA SingleSeq == ASSUME NEW e PROVE IsSeq(<<e>>) /\ Len(<<e>>) = 1 /\ <<e>>[1] = e
<1>1. <<e>> \in Seq({e})
  OBVIOUS
<1> QED
  BY <1>1 DEF IsSeq

Broker ==
    /\ IsFiniteSet(orders) /\ IsFiniteSet(held)
    /\ \A o \in orders : {"n", "symbol", "odd"} \subseteq DOMAIN o

(* What a call that brings these items does. *)
Effect(c, items) ==
    /\ c.op \notin Removes => orders \subseteq orders' /\ held \subseteq held'
    /\ c.op = "create_order" => \E o \in orders' : o.n = c.n /\ o.symbol = c.arg["symbol"]
    /\ c.op = "get_all_orders" => \A o \in orders : \E e \in 1 .. Len(items) : items[e] = o
    /\ c.op = "all_open_positions" => \A s \in held : \E p \in 1 .. Len(items) : items[p] = s

LEMMA CarriedOutFits ==
    ASSUME Broker, NEW c \in Call, CarriesOut(c)
    PROVE  /\ Broker'
           /\ \E items : /\ log' = Append(log, [call |-> c, items |-> items])
                         /\ ItemsFit(c, items) /\ Effect(c, items)
<1>1. CASE Looks(c)
  <2> DEFINE items == IF c.op = "account" THEN <<0>>
                      ELSE IF c.op = "get_all_orders" THEN SetToSeq(orders) ELSE SetToSeq(held)
  <2>1. /\ c.op \in {"account", "all_open_positions", "get_all_orders"}
        /\ log' = Append(log, [call |-> c, items |-> items])
        /\ UNCHANGED <<orders, held>>
    BY <1>1 DEF Looks, Looking, Did
  <2>2. IsSeq(items)
    <3>1. IsSeq(<<0>>)
      BY SingleSeq
    <3> QED
      BY <3>1, Listed DEF Broker
  <2>3. ItemsFit(c, items)
    BY <2>1, <2>2 DEF ItemsFit, Removes
  <2>4. Effect(c, items)
    BY <2>1, Listed DEF Broker, Effect
  <2>5. Broker'
    BY <2>1 DEF Broker
  <2> QED
    BY <2>1, <2>3, <2>4, <2>5
<1>2. CASE Creates(c)
  <2> DEFINE body == EncodeNotional(c.arg)
             new  == [n |-> c.n, symbol |-> body["symbol"].val, odd |-> FALSE,
                      client |-> IF "client_order_id" \in DOMAIN body
                                 THEN body["client_order_id"].val ELSE "generated"]
  <2>1. /\ c.op = "create_order"
        /\ orders' = orders \cup {new}
        /\ log' = Append(log, [call |-> c, items |-> <<new>>])
        /\ UNCHANGED held
    BY <1>2 DEF Creates, Did
  <2>2. DOMAIN c.arg = DOMAIN NotionalReads
    <3>1. c.arg \in Arguments
      BY DEF Call
    <3>2. CASE c.arg = NoNotional
      BY <3>2 DEF NoNotional
    <3>3. CASE c.arg # NoNotional
      <4>1. PICK r \in Req : \E use \in Uses[r] : c.arg = use.arg
        BY <3>1, <3>3 DEF Arguments
      <4> QED
        BY <4>1, UsesAssumption
    <3> QED
      BY <3>2, <3>3
  <2>3. /\ new.n = c.n /\ new.symbol = c.arg["symbol"]
        /\ new.client = c.arg["client_order_id"] \/ c.arg["client_order_id"] = ""
        /\ {"n", "symbol", "odd"} \subseteq DOMAIN new
    BY <2>2, NotionalTexts
  <2> HIDE DEF new
  <2>4. IsSeq(<<new>>) /\ Len(<<new>>) = 1 /\ <<new>>[1] = new
    BY SingleSeq
  <2>5. ItemsFit(c, <<new>>)
    BY <2>1, <2>3, <2>4 DEF ItemsFit, Removes
  <2>6. Effect(c, <<new>>)
    BY <2>1, <2>3 DEF Effect
  <2>7. IsFiniteSet(orders')
    BY <2>1, FS_AddElement DEF Broker
  <2>8. Broker'
    BY <2>1, <2>3, <2>7 DEF Broker
  <2> QED
    BY <2>1, <2>5, <2>6, <2>8
<1>3. CASE Deletes(c)
  <2>1. PICK kept \in SUBSET orders :
          /\ orders' = kept
          /\ Did(c, [i \in 1 .. Len(SetToSeq(orders)) |->
                       [of |-> SetToSeq(orders)[i].n, ok |-> SetToSeq(orders)[i] \notin kept]])
    BY <1>3 DEF Deletes
  <2> DEFINE items == [i \in 1 .. Len(SetToSeq(orders)) |->
                          [of |-> SetToSeq(orders)[i].n, ok |-> SetToSeq(orders)[i] \notin kept]]
  <2>2. Len(SetToSeq(orders)) \in Nat
    BY Listed DEF Broker
  <2>3. IsSeq(items) /\ \A i \in 1 .. Len(items) : items[i].ok \in BOOLEAN
    <3>1. items = [i \in 1 .. Len(SetToSeq(orders)) |-> items[i]]
      OBVIOUS
    <3>2. IsSeq(items) /\ Len(items) = Len(SetToSeq(orders))
      BY <2>2, <3>1, IndexedSeq
    <3>3. \A i \in 1 .. Len(SetToSeq(orders)) : items[i].ok \in BOOLEAN
      OBVIOUS
    <3> QED
      BY <3>2, <3>3
  <2>4. /\ c.op = "delete_all_orders" /\ c.op \in Removes
        /\ log' = Append(log, [call |-> c, items |-> items]) /\ held' = held
    BY <1>3, <2>1 DEF Deletes, Did, Removes
  <2> HIDE DEF items
  <2>5. ItemsFit(c, items) /\ Effect(c, items)
    BY <2>3, <2>4 DEF ItemsFit, Effect
  <2>6. Broker'
    BY <2>1, <2>4, FS_Subset DEF Broker
  <2> QED
    BY <2>4, <2>5, <2>6
<1>4. CASE Closes(c)
  <2>1. PICK kept \in SUBSET held :
          /\ held' = kept
          /\ Did(c, [i \in 1 .. Len(SetToSeq(held)) |->
                       [of |-> SetToSeq(held)[i], ok |-> SetToSeq(held)[i] \notin kept]])
    BY <1>4 DEF Closes
  <2> DEFINE items == [i \in 1 .. Len(SetToSeq(held)) |->
                          [of |-> SetToSeq(held)[i], ok |-> SetToSeq(held)[i] \notin kept]]
  <2>2. Len(SetToSeq(held)) \in Nat
    BY Listed DEF Broker
  <2>3. IsSeq(items) /\ \A i \in 1 .. Len(items) : items[i].ok \in BOOLEAN
    <3>1. items = [i \in 1 .. Len(SetToSeq(held)) |-> items[i]]
      OBVIOUS
    <3>2. IsSeq(items) /\ Len(items) = Len(SetToSeq(held))
      BY <2>2, <3>1, IndexedSeq
    <3>3. \A i \in 1 .. Len(SetToSeq(held)) : items[i].ok \in BOOLEAN
      OBVIOUS
    <3> QED
      BY <3>2, <3>3
  <2>4. /\ c.op \in {"close_all_positions", "close_all_and_cancel"}
        /\ c.op \in Removes
        /\ log' = Append(log, [call |-> c, items |-> items])
        /\ orders' \in {orders, {}}
    BY <1>4, <2>1 DEF Closes, Did, Removes
  <2> HIDE DEF items
  <2>5. ItemsFit(c, items) /\ Effect(c, items)
    BY <2>3, <2>4 DEF ItemsFit, Effect
  <2>6. IsFiniteSet(held')
    BY <2>1, FS_Subset DEF Broker
  <2>7. Broker'
    BY <2>4, <2>6, FS_EmptySet DEF Broker
  <2> QED
    BY <2>4, <2>5, <2>7
<1> QED
  BY <1>1, <1>2, <1>3, <1>4 DEF CarriesOut

-----------------------------------------------------------------------------
(* What a value says of the broker's log.  The entries of the log are what    *)
(* the calls have brought (Fitting), the answer that is due is one of them    *)
(* (Answering), a caller's calls are carried out in the order it makes them   *)
(* (Ordered), and an order that nobody removes stays found (Found).           *)

Fitting == \A i \in 1 .. Len(log) : ItemsFit(log[i].call, log[i].items)

Answering ==
    reply.code \in {200, 207} =>
        \E i \in 1 .. Len(log) :
            log[i].call = call[Head(pending)] /\ log[i].items = reply.items

Ordered ==
    \A r \in Req : \A i \in 1 .. Len(diary[r]) : \A x \in 1 .. Len(log) :
        diary[r][i].result.type = "value" /\ log[x].call.n = diary[r][i].call.n =>
            /\ status[r] = "pending" => x <= call[r].since
            /\ \A j \in i + 1 .. Len(diary[r]) : x <= diary[r][j].call.since

(* Order n of a symbol is in the broker's answers to the calls after i. *)
Shown(n, symbol, i) ==
    /\ \/ \E o \in orders : o.n = n /\ o.symbol = symbol
       \/ symbol \in held
    /\ \A j \in i + 1 .. Len(log) : log[j].call.op = "get_all_orders" =>
          \/ \E e \in 1 .. Len(log[j].items) : log[j].items[e].n = n
          \/ /\ symbol \in held
             /\ \A k \in j + 1 .. Len(log) : log[k].call.op = "all_open_positions" =>
                   \E p \in 1 .. Len(log[k].items) : log[k].items[p] = symbol

Found ==
    \A i \in 1 .. Len(log) :
        /\ log[i].call.op = "create_order"
        /\ \A k \in i + 1 .. Len(log) : log[k].call.op \notin Removes
        => Shown(log[i].call.n, log[i].call.arg["symbol"], i)

History == Broker /\ Fitting /\ Answering /\ ValuesTellAll /\ Ordered /\ Found

LEMMA HistoryInit == Init => History
<1> SUFFICES ASSUME Init PROVE History
  OBVIOUS
<1>1. Len(<<>>) = 0 /\ log = <<>> /\ reply.code = 0
  BY DEF Init, NoReply
<1>2. diary = [r \in Req |-> <<>>] /\ orders = {} /\ held = {}
  BY DEF Init
<1>3. Broker
  BY <1>2, FS_EmptySet DEF Broker
<1>4. Fitting /\ Answering /\ Found
  BY <1>1 DEF Fitting, Answering, Found
<1>5. ValuesTellAll /\ Ordered
  BY <1>1, <1>2 DEF ValuesTellAll, Ordered
<1> QED
  BY <1>3, <1>4, <1>5 DEF History

(* Some callers get their results. *)
LEMMA RecordedHistory ==
    ASSUME Inv, History, UNCHANGED <<call, orders, held, log>>, reply'.code = 0,
           \A r \in Req : status'[r] = "pending" => status[r] = "pending",
           \A r \in Req :
              \/ diary'[r] = diary[r]
              \/ /\ status[r] = "pending" /\ status'[r] # "pending"
                 /\ \E result :
                      /\ diary'[r] = Append(diary[r], [call |-> call[r], result |-> result])
                      /\ result.type = "value" =>
                            \E i \in 1 .. Len(log) :
                               log[i].call = call[r] /\ Tells(result.value, call[r], log[i].items)
    PROVE  History'
<1>1. \A r \in Req : IsSeq(diary[r])
  BY DEF Inv, Shape
<1>2. Broker' /\ Fitting' /\ Found'
  BY DEF History, Broker, Fitting, Found, Shown
<1>3. Answering'
  BY DEF Answering
<1>4. ASSUME NEW r \in Req, diary'[r] # diary[r]
      PROVE  /\ status[r] = "pending" /\ status'[r] # "pending"
             /\ Len(diary[r]) \in Nat /\ Len(diary'[r]) = Len(diary[r]) + 1
             /\ \A i \in 1 .. Len(diary[r]) : diary'[r][i] = diary[r][i]
             /\ diary'[r][Len(diary[r]) + 1].call = call[r]
             /\ diary'[r][Len(diary[r]) + 1].result.type = "value" =>
                   \E i \in 1 .. Len(log) :
                      /\ log[i].call = call[r]
                      /\ Tells(diary'[r][Len(diary[r]) + 1].result.value, call[r], log[i].items)
  <2>1. PICK result :
           /\ diary'[r] = Append(diary[r], [call |-> call[r], result |-> result])
           /\ result.type = "value" =>
                 \E i \in 1 .. Len(log) :
                    log[i].call = call[r] /\ Tells(result.value, call[r], log[i].items)
    BY <1>4
  <2> DEFINE e == [call |-> call[r], result |-> result]
  <2>2. e.call = call[r] /\ e.result = result
    OBVIOUS
  <2> HIDE DEF e
  <2>3. /\ Len(diary[r]) \in Nat
        /\ Len(diary'[r]) = Len(diary[r]) + 1
        /\ diary'[r][Len(diary[r]) + 1] = e
        /\ \A i \in 1 .. Len(diary[r]) : diary'[r][i] = diary[r][i]
    BY <1>1, <2>1, AppendAny DEF e
  <2> QED
    BY <1>4, <2>1, <2>2, <2>3
<1>5. ASSUME NEW r \in Req, NEW i \in 1 .. Len(diary'[r])
      PROVE  \/ i \in 1 .. Len(diary[r]) /\ diary'[r][i] = diary[r][i]
             \/ diary'[r] # diary[r] /\ i = Len(diary[r]) + 1
  <2>1. CASE diary'[r] = diary[r]
    BY <2>1, <1>5
  <2>2. CASE diary'[r] # diary[r]
    <3>1. i \in 1 .. Len(diary[r]) \/ i = Len(diary[r]) + 1
      BY <2>2, <1>4, <1>5
    <3> QED
      BY <2>2, <3>1, <1>4
  <2> QED
    BY <2>1, <2>2
<1>6. ValuesTellAll'
  <2> SUFFICES ASSUME NEW r \in Req, NEW i \in 1 .. Len(diary'[r]), diary'[r][i].result.type = "value"
               PROVE  \E x \in 1 .. Len(log) :
                         /\ log[x].call = diary'[r][i].call
                         /\ Tells(diary'[r][i].result.value, diary'[r][i].call, log[x].items)
    BY DEF ValuesTellAll
  <2>1. CASE i \in 1 .. Len(diary[r]) /\ diary'[r][i] = diary[r][i]
    BY <2>1 DEF History, ValuesTellAll
  <2>2. CASE diary'[r] # diary[r] /\ i = Len(diary[r]) + 1
    BY <2>2, <1>4
  <2> QED
    BY <1>5, <2>1, <2>2
<1>7. Ordered'
  <2> SUFFICES ASSUME NEW r \in Req, NEW i \in 1 .. Len(diary'[r]), NEW x \in 1 .. Len(log),
                      diary'[r][i].result.type = "value", log[x].call.n = diary'[r][i].call.n
               PROVE  /\ status'[r] = "pending" => x <= call[r].since
                      /\ \A j \in i + 1 .. Len(diary'[r]) : x <= diary'[r][j].call.since
    BY DEF Ordered
  <2>1. CASE i \in 1 .. Len(diary[r]) /\ diary'[r][i] = diary[r][i]
    <3>1. /\ status[r] = "pending" => x <= call[r].since
          /\ \A j \in i + 1 .. Len(diary[r]) : x <= diary[r][j].call.since
      BY <2>1 DEF History, Ordered
    <3>2. ASSUME NEW j \in i + 1 .. Len(diary'[r]) PROVE x <= diary'[r][j].call.since
      <4>1. j \in 1 .. Len(diary'[r]) /\ j # i
        BY <2>1, <3>2
      <4>2. CASE j \in 1 .. Len(diary[r]) /\ diary'[r][j] = diary[r][j]
        <5>1. j \in i + 1 .. Len(diary[r])
          BY <3>2, <4>2
        <5> QED
          BY <3>1, <4>2, <5>1
      <4>3. CASE diary'[r] # diary[r] /\ j = Len(diary[r]) + 1
        BY <3>1, <4>3, <1>4
      <4> QED
        BY <1>5, <4>1, <4>2, <4>3
    <3> QED
      BY <3>1, <3>2
  <2>2. CASE diary'[r] # diary[r] /\ i = Len(diary[r]) + 1
    <3>1. status'[r] # "pending" /\ i + 1 .. Len(diary'[r]) = {}
      BY <2>2, <1>4
    <3> QED
      BY <3>1
  <2> QED
    BY <1>5, <2>1, <2>2
<1> QED
  BY <1>2, <1>3, <1>6, <1>7 DEF History

LEMMA AnsweredHistory == ASSUME Inv, History, Answered PROVE History'
<1> DEFINE h == Head(pending)
           c == call[h]
           result == Result(c, reply)
<1>1. /\ Rest!Answer("ok") /\ Returns(h, result)
      /\ UNCHANGED <<call, orders, held, log>>
      /\ reply'.code = 0 /\ reply.code # 0
  BY DEF Answered, NoReply
<1>2. /\ h \in Req /\ status[h] = "pending"
      /\ \A q \in Req : status'[q] = "pending" => status[q] = "pending" /\ q # h
  BY <1>1, Popped DEF Inv, Answered
<1>3. c \in Call /\ c.op \in Op
  BY <1>2 DEF Inv, Shape, Call
<1>4. DOMAIN diary = Req
  BY DEF Inv, Shape
<1>5. ASSUME result.type = "value"
      PROVE  \E i \in 1 .. Len(log) : log[i].call = c /\ Tells(result.value, c, log[i].items)
  <2>1. reply.code = ExpectedStatus(c.op)
    BY <1>5, ResultType
  <2>2. reply.code \in {200, 207}
    BY <2>1, Statuses
  <2>3. PICK i \in 1 .. Len(log) : log[i].call = c /\ log[i].items = reply.items
    BY <2>2 DEF History, Answering
  <2>4. ItemsFit(c, reply.items)
    BY <2>3 DEF History, Fitting
  <2>5. Tells(result.value, c, reply.items)
    BY <1>3, <1>5, <2>4, ValueTells
  <2> QED
    BY <2>3, <2>5
<1> HIDE DEF result
<1>6. diary' = [diary EXCEPT ![h] = Append(diary[h], [call |-> call[h], result |-> result])]
  BY <1>1 DEF Returns
<1>7. ASSUME NEW r \in Req
      PROVE  \/ diary'[r] = diary[r]
             \/ /\ status[r] = "pending" /\ status'[r] # "pending"
                /\ \E res :
                     /\ diary'[r] = Append(diary[r], [call |-> call[r], result |-> res])
                     /\ res.type = "value" =>
                           \E i \in 1 .. Len(log) :
                              log[i].call = call[r] /\ Tells(res.value, call[r], log[i].items)
  <2>1. CASE r # h
    BY <2>1, <1>4, <1>6
  <2>2. CASE r = h
    <3>1. diary'[h] = Append(diary[h], [call |-> call[h], result |-> result])
      BY <1>2, <1>4, <1>6
    <3> QED
      BY <2>2, <3>1, <1>2, <1>5
  <2> QED
    BY <2>1, <2>2
<1> HIDE DEF h, c
<1> QED
  BY <1>1, <1>2, <1>7, RecordedHistory

LEMMA FailsHistory == ASSUME Inv, History, Fails PROVE History'
<1> DEFINE h == Head(pending)
           result == Error("network_error")
<1>1. /\ Rest!Answer("error") /\ Returns(h, result)
      /\ UNCHANGED <<call, orders, held, log>> /\ reply'.code = 0
  BY DEF Fails, NoReply
<1>2. /\ h \in Req /\ status[h] = "pending"
      /\ \A q \in Req : status'[q] = "pending" => status[q] = "pending" /\ q # h
  BY <1>1, Popped DEF Inv
<1>3. DOMAIN diary = Req /\ result.type # "value"
  BY DEF Inv, Shape, Error
<1> HIDE DEF result
<1>4. diary' = [diary EXCEPT ![h] = Append(diary[h], [call |-> call[h], result |-> result])]
  BY <1>1 DEF Returns
<1> HIDE DEF h
<1>5. diary'[h] = Append(diary[h], [call |-> call[h], result |-> result])
      /\ \A r \in Req : r # h => diary'[r] = diary[r]
  BY <1>2, <1>3, <1>4
<1> QED
  BY <1>1, <1>2, <1>3, <1>5, RecordedHistory

LEMMA DestroyedHistory == ASSUME Inv, History, Destroyed PROVE History'
<1> DEFINE e(r) == [call |-> call[r], result |-> Error("network_error")]
<1>1. /\ status' = [r \in Req |-> IF status[r] = "pending" THEN "canceled" ELSE status[r]]
      /\ UNCHANGED <<call, orders, held, log>> /\ reply'.code = 0
      /\ diary' = [r \in Req |-> IF status[r] = "pending" THEN Append(diary[r], e(r)) ELSE diary[r]]
  BY DEF Destroyed, Rest!CancelAll, NoReply
<1>2. Error("network_error").type # "value"
  BY DEF Error
<1>3. \A r \in Req : status'[r] # "pending"
  BY <1>1
<1>4. ASSUME NEW r \in Req
      PROVE  \/ diary'[r] = diary[r]
             \/ /\ status[r] = "pending" /\ status'[r] # "pending"
                /\ \E res :
                     /\ diary'[r] = Append(diary[r], [call |-> call[r], result |-> res])
                     /\ res.type = "value" =>
                           \E i \in 1 .. Len(log) :
                              log[i].call = call[r] /\ Tells(res.value, call[r], log[i].items)
  BY <1>1, <1>2, <1>3
<1> QED
  BY <1>1, <1>3, <1>4, RecordedHistory

LEMMA CallsHistory ==
    ASSUME Inv, History, NEW r \in Req, NEW op, NEW arg, Calls(r, op, arg)
    PROVE  History'
<1> DEFINE new == [n |-> calls + 1, op |-> op, arg |-> arg, since |-> Len(log)]
<1>1. /\ status[r] # "pending" /\ pending' = Append(pending, r)
      /\ status' = [status EXCEPT ![r] = "pending"]
      /\ call' = [call EXCEPT ![r] = new]
      /\ UNCHANGED <<diary, reply, orders, held, log>>
  BY DEF Calls, Rest!Submit, broker
<1>2. new.since = Len(log) /\ Len(log) \in Nat
  BY AppendAny DEF Inv, Shape
<1> HIDE DEF new
<1>3. pending \in Seq(Req) /\ call \in [Req -> Call] /\ status \in [Req -> Rest!Status]
  BY DEF Inv, Shape, Rest!TypeOK
<1>4. Broker' /\ Fitting' /\ Found' /\ ValuesTellAll'
  <2>1. diary' = diary /\ orders' = orders /\ held' = held /\ log' = log
    BY <1>1
  <2>2. Broker'
    BY <2>1 DEF History, Broker
  <2>3. Fitting'
    BY <2>1 DEF History, Fitting
  <2>4. Found'
    BY <2>1, SMTT(30) DEF History, Found, Shown
  <2>5. ValuesTellAll'
    BY <2>1 DEF History, ValuesTellAll
  <2> QED
    BY <2>2, <2>3, <2>4, <2>5
<1>5. Answering'
  <2> SUFFICES ASSUME reply.code \in {200, 207}
               PROVE  call'[Head(pending')] = call[Head(pending)]
    BY <1>1 DEF History, Answering
  <2>1. pending # <<>>
    BY DEF Inv, AnswerKnown
  <2>2. Head(pending) = pending[1] /\ Head(pending) \in Req /\ 1 \in 1 .. Len(pending)
    BY <1>3, <2>1
  <2>3. status[Head(pending)] = "pending"
    BY <2>2 DEF Inv, Waiting
  <2>4. Head(pending') = Head(pending)
    BY <1>1, <1>3, <2>1
  <2> QED
    BY <1>1, <1>3, <2>2, <2>3, <2>4
<1>6. Ordered'
  <2> SUFFICES ASSUME NEW q \in Req, NEW i \in 1 .. Len(diary[q]), NEW x \in 1 .. Len(log),
                      diary[q][i].result.type = "value", log[x].call.n = diary[q][i].call.n
               PROVE  /\ status'[q] = "pending" => x <= call'[q].since
                      /\ \A j \in i + 1 .. Len(diary[q]) : x <= diary[q][j].call.since
    BY <1>1 DEF Ordered
  <2>1. /\ status[q] = "pending" => x <= call[q].since
        /\ \A j \in i + 1 .. Len(diary[q]) : x <= diary[q][j].call.since
    BY DEF History, Ordered
  <2>2. CASE q = r
    <3>1. call'[q].since = Len(log)
      BY <2>2, <1>1, <1>2, <1>3
    <3> QED
      BY <2>1, <3>1, <1>2
  <2>3. CASE q # r
    BY <2>1, <2>3, <1>1, <1>3
  <2> QED
    BY <2>2, <2>3
<1> QED
  BY <1>4, <1>5, <1>6 DEF History

LEMMA BeforeOrLast ==
    \A a, b \in Nat : \A y \in a + 1 .. b + 1 : y \in a + 1 .. b \/ y = b + 1
  OBVIOUS

(* The broker carries a call out, for the first time. *)
LEMMA LogGrows ==
    ASSUME Inv, History, NEW c \in Call, CarriesOut(c), ~Logged(c.n), UNCHANGED <<diary, call, status>>
    PROVE  /\ Broker' /\ Fitting' /\ ValuesTellAll' /\ Ordered' /\ Found'
           /\ Len(log) \in Nat /\ Len(log') = Len(log) + 1
           /\ log'[Len(log) + 1].call = c
           /\ \A i \in 1 .. Len(log) : log'[i] = log[i]
<1>1. PICK items : /\ Broker'
                   /\ log' = Append(log, [call |-> c, items |-> items])
                   /\ ItemsFit(c, items) /\ Effect(c, items)
  BY CarriedOutFits DEF History
<1> DEFINE e == [call |-> c, items |-> items]
<1>2. e.call = c /\ e.items = items
  OBVIOUS
<1> HIDE DEF e
<1>3. /\ Len(log) \in Nat /\ Len(log') = Len(log) + 1
      /\ log'[Len(log) + 1] = e
      /\ \A i \in 1 .. Len(log) : log'[i] = log[i]
  BY <1>1, AppendAny DEF Inv, Shape, e
<1>4. \A i \in 1 .. Len(log') : i \in 1 .. Len(log) \/ i = Len(log) + 1
  BY <1>3
<1>5. \A i \in 1 .. Len(log) : i \in 1 .. Len(log')
  BY <1>3
<1>6. Fitting'
  <2> SUFFICES ASSUME NEW i \in 1 .. Len(log') PROVE ItemsFit(log'[i].call, log'[i].items)
    BY DEF Fitting, ItemsFit
  <2>1. CASE i \in 1 .. Len(log)
    BY <2>1, <1>3 DEF History, Fitting
  <2>2. CASE i = Len(log) + 1
    BY <2>2, <1>1, <1>2, <1>3
  <2> QED
    BY <1>4, <2>1, <2>2
<1>7. ValuesTellAll'
  <2> SUFFICES ASSUME NEW r \in Req, NEW k \in 1 .. Len(diary[r]), diary[r][k].result.type = "value"
               PROVE  \E i \in 1 .. Len(log') :
                         /\ log'[i].call = diary[r][k].call
                         /\ Tells(diary[r][k].result.value, diary[r][k].call, log'[i].items)
    BY DEF ValuesTellAll
  <2>1. PICK i \in 1 .. Len(log) :
           /\ log[i].call = diary[r][k].call
           /\ Tells(diary[r][k].result.value, diary[r][k].call, log[i].items)
    BY DEF History, ValuesTellAll
  <2> QED
    BY <2>1, <1>3, <1>5
<1>8. Ordered'
  <2> SUFFICES ASSUME NEW r \in Req, NEW i \in 1 .. Len(diary[r]), NEW x \in 1 .. Len(log'),
                      diary[r][i].result.type = "value", log'[x].call.n = diary[r][i].call.n
               PROVE  /\ status[r] = "pending" => x <= call[r].since
                      /\ \A j \in i + 1 .. Len(diary[r]) : x <= diary[r][j].call.since
    BY DEF Ordered
  <2>1. Logged(diary[r][i].call.n)
    BY DEF History, ValuesTellAll, Logged
  <2>2. x # Len(log) + 1
    BY <2>1, <1>2, <1>3
  <2>3. x \in 1 .. Len(log) /\ log'[x] = log[x]
    BY <2>2, <1>3, <1>4
  <2> QED
    BY <2>3 DEF History, Ordered
<1>9. Found'
  <2> SUFFICES ASSUME NEW i \in 1 .. Len(log'), log'[i].call.op = "create_order",
                      \A k \in i + 1 .. Len(log') : log'[k].call.op \notin Removes
               PROVE  Shown(log[i].call.n, log[i].call.arg["symbol"], i)'
    <3>1. Removes' = Removes
      BY DEF Removes
    <3> QED
      BY <3>1 DEF Found
  <2> DEFINE n == log'[i].call.n
             symbol == log'[i].call.arg["symbol"]
  <2>1. CASE i = Len(log) + 1
    <3>1. n = c.n /\ symbol = c.arg["symbol"] /\ c.op = "create_order"
      BY <2>1, <1>2, <1>3
    <3>2. \E o \in orders' : o.n = n /\ o.symbol = symbol
      BY <3>1, <1>1 DEF Effect
    <3>3. i + 1 .. Len(log') = {}
      BY <2>1, <1>3
    <3> QED
      BY <3>2, <3>3 DEF Shown
  <2>2. CASE i \in 1 .. Len(log)
    <3>1. log'[i] = log[i] /\ Len(log) + 1 \in i + 1 .. Len(log')
      BY <2>2, <1>3
    <3>2. c.op \notin Removes
      BY <3>1, <1>2, <1>3
    <3>3. \A k \in i + 1 .. Len(log) : k \in i + 1 .. Len(log') /\ log'[k] = log[k]
      BY <2>2, <1>3
    <3>4. Shown(n, symbol, i)
      BY <2>2, <3>1, <3>3 DEF History, Found
    <3>5. orders \subseteq orders' /\ held \subseteq held'
      BY <3>2, <1>1 DEF Effect
    <3> HIDE DEF n, symbol
    <3>6. (\E o \in orders' : o.n = n /\ o.symbol = symbol) \/ symbol \in held'
      BY <3>4, <3>5 DEF Shown
    <3>7. ASSUME NEW j \in i + 1 .. Len(log'), log'[j].call.op = "get_all_orders"
          PROVE  \/ \E d \in 1 .. Len(log'[j].items) : log'[j].items[d].n = n
                 \/ /\ symbol \in held'
                    /\ \A k \in j + 1 .. Len(log') : log'[k].call.op = "all_open_positions" =>
                          \E p \in 1 .. Len(log'[k].items) : log'[k].items[p] = symbol
      <4>1. CASE j = Len(log) + 1
        <5>1. j + 1 .. Len(log') = {} /\ log'[j].items = items /\ c.op = "get_all_orders"
          BY <4>1, <3>7, <1>2, <1>3
        <5>2. CASE symbol \in held
          BY <5>1, <5>2, <3>5
        <5>3. CASE \E o \in orders : o.n = n /\ o.symbol = symbol
          BY <5>1, <5>3, <1>1 DEF Effect
        <5> QED
          BY <5>2, <5>3, <3>4 DEF Shown
      <4>2. CASE j \in i + 1 .. Len(log)
        <5>1. log'[j] = log[j]
          BY <4>2, <3>3
        <5>2. CASE \E d \in 1 .. Len(log[j].items) : log[j].items[d].n = n
          BY <5>1, <5>2
        <5>3. CASE /\ symbol \in held
                   /\ \A k \in j + 1 .. Len(log) : log[k].call.op = "all_open_positions" =>
                         \E p \in 1 .. Len(log[k].items) : log[k].items[p] = symbol
          <6>1. ASSUME NEW k \in j + 1 .. Len(log'), log'[k].call.op = "all_open_positions"
                PROVE  \E p \in 1 .. Len(log'[k].items) : log'[k].items[p] = symbol
            <7>1. CASE k = Len(log) + 1
              <8>1. log'[k].items = items /\ c.op = "all_open_positions"
                BY <7>1, <6>1, <1>2, <1>3
              <8> QED
                BY <8>1, <5>3, <1>1 DEF Effect
            <7>2. CASE k \in j + 1 .. Len(log)
              <8>1. log'[k] = log[k]
                BY <7>2, <4>2, <2>2, <1>3
              <8> QED
                BY <8>1, <7>2, <6>1, <5>3
            <7>3. k \in j + 1 .. Len(log) \/ k = Len(log) + 1
              <8>1. j \in Nat
                BY <4>2, <2>2
              <8>2. k \in j + 1 .. Len(log) + 1 /\ Len(log) \in Nat
                BY <6>1, <1>3
              <8> QED
                BY <8>1, <8>2, BeforeOrLast
            <7> QED
              BY <7>1, <7>2, <7>3
          <6> QED
            BY <6>1, <5>3, <3>5
        <5>4. \/ \E d \in 1 .. Len(log[j].items) : log[j].items[d].n = n
              \/ /\ symbol \in held
                 /\ \A k \in j + 1 .. Len(log) : log[k].call.op = "all_open_positions" =>
                       \E p \in 1 .. Len(log[k].items) : log[k].items[p] = symbol
          BY <5>1, <3>4, <3>7, <4>2, Zenon DEF Shown
        <5> QED
          BY <5>2, <5>3, <5>4, Zenon
      <4>3. j \in i + 1 .. Len(log) \/ j = Len(log) + 1
        <5>1. i \in Nat /\ Len(log) \in Nat /\ j \in i + 1 .. Len(log) + 1
          BY <3>7, <2>2, <1>3
        <5> QED
          BY <5>1, BeforeOrLast, Zenon
      <4> QED
        BY <4>1, <4>2, <4>3
    <3> QED
      BY <3>6, <3>7 DEF Shown, n, symbol
  <2> QED
    BY <1>4, <2>1, <2>2
<1> QED
  BY <1>1, <1>2, <1>3, <1>6, <1>7, <1>8, <1>9

LEMMA BrokerAnswersHistory == ASSUME Inv, History, BrokerAnswers PROVE History'
<1> DEFINE h == Head(pending)
           c == call[h]
<1>1. /\ pending # <<>> /\ reply.code = 0 /\ CarriesOut(c)
      /\ reply'.items = log'[Len(log')].items
      /\ UNCHANGED <<pending, status, call, calls, diary, stray>>
  BY DEF BrokerAnswers
<1>2. h \in Req /\ status[h] = "pending"
  <2>1. pending \in Seq(Req)
    BY DEF Inv, Shape, Rest!TypeOK
  <2>2. h = pending[1] /\ h \in Req /\ 1 \in 1 .. Len(pending)
    BY <2>1, <1>1
  <2> QED
    BY <2>2 DEF Inv, Waiting
<1>3. c \in Call /\ ~Logged(c.n)
  BY <1>1, <1>2 DEF Inv, Shape, AnswerKnown
<1> HIDE DEF c
<1>4. /\ Broker' /\ Fitting' /\ ValuesTellAll' /\ Ordered' /\ Found'
      /\ Len(log) \in Nat /\ Len(log') = Len(log) + 1
      /\ log'[Len(log) + 1].call = c
  BY <1>1, <1>3, LogGrows
<1>5. Answering'
  <2>1. Len(log') \in 1 .. Len(log') /\ log'[Len(log')].call = c
    BY <1>4
  <2>2. call'[Head(pending')] = c
    BY <1>1 DEF c
  <2> QED
    BY <2>1, <2>2, <1>1 DEF Answering
<1> QED
  BY <1>4, <1>5 DEF History

LEMMA StrayArrivesHistory == ASSUME Inv, History, NEW c \in stray, StrayArrives(c) PROVE History'
<1>1. CarriesOut(c) /\ UNCHANGED <<pending, status, call, calls, diary, reply>>
  BY DEF StrayArrives
<1>2. c \in Call /\ ~Logged(c.n)
  BY DEF Inv, Shape, AnswerKnown
<1>3. /\ Broker' /\ Fitting' /\ ValuesTellAll' /\ Ordered' /\ Found'
      /\ Len(log) \in Nat /\ Len(log') = Len(log) + 1
      /\ \A i \in 1 .. Len(log) : log'[i] = log[i]
  BY <1>1, <1>2, LogGrows
<1>4. \A i \in 1 .. Len(log) : i \in 1 .. Len(log')
  BY <1>3
<1>5. Answering'
  BY <1>1, <1>3, <1>4 DEF History, Answering
<1> QED
  BY <1>3, <1>5 DEF History

(* The broker's orders change otherwise: a filled one has become a position. *)
LEMMA BooksHistory ==
    ASSUME Inv, History, UNCHANGED <<pending, status, call, diary, log>>,
           reply' = reply \/ reply'.code = 403, Broker', held \subseteq held',
           \A o \in orders : \/ o.symbol \in held'
                             \/ \E d \in orders' : d.n = o.n /\ d.symbol = o.symbol
    PROVE  History'
<1>1. pending' = pending /\ status' = status /\ call' = call /\ diary' = diary /\ log' = log
  OBVIOUS
<1>2. Fitting'
  BY <1>1 DEF History, Fitting
<1>3. Answering'
  BY <1>1 DEF History, Answering
<1>4. ValuesTellAll'
  BY <1>1 DEF History, ValuesTellAll
<1>5. Ordered'
  BY <1>1 DEF History, Ordered
<1>6. ASSUME NEW n, NEW symbol, NEW i \in 1 .. Len(log), Shown(n, symbol, i)
      PROVE  Shown(n, symbol, i)'
  BY <1>1, <1>6 DEF Shown
<1>7. Found'
  BY <1>1, <1>6 DEF History, Found
<1> QED
  BY <1>2, <1>3, <1>4, <1>5, <1>7 DEF History

LEMMA BrokerRefusesHistory == ASSUME Inv, History, BrokerRefuses PROVE History'
<1>1. reply'.code = 403 /\ UNCHANGED <<pending, status, call, diary, orders, held, log>>
  BY DEF BrokerRefuses
<1>2. Broker'
  BY <1>1 DEF History, Broker
<1> QED
  BY <1>1, <1>2, BooksHistory

LEMMA FillHistory == ASSUME Inv, History, NEW o \in orders, Fill(o) PROVE History'
<1>1. /\ orders' = orders \ {o} /\ held' = held \cup {o.symbol}
      /\ UNCHANGED <<pending, status, call, diary, reply, log>>
  BY DEF Fill
<1>2. IsFiniteSet(orders') /\ IsFiniteSet(held')
  BY <1>1, FS_RemoveElement, FS_AddElement DEF History, Broker
<1>3. Broker'
  BY <1>1, <1>2 DEF History, Broker
<1>4. \A d \in orders : d.symbol \in held' \/ \E x \in orders' : x.n = d.n /\ x.symbol = d.symbol
  BY <1>1
<1> QED
  BY <1>1, <1>3, <1>4, BooksHistory

LEMMA TurnsOddHistory == ASSUME Inv, History, NEW o \in orders, TurnsOdd(o) PROVE History'
<1> DEFINE new == [o EXCEPT !.odd = TRUE]
<1>1. /\ orders' = (orders \ {o}) \cup {new}
      /\ UNCHANGED <<pending, status, call, diary, reply, held, log>>
  BY DEF TurnsOdd
<1>2. {"n", "symbol", "odd"} \subseteq DOMAIN o
  BY DEF History, Broker
<1>3. new.n = o.n /\ new.symbol = o.symbol /\ DOMAIN new = DOMAIN o
  BY <1>2
<1> HIDE DEF new
<1>4. IsFiniteSet(orders')
  BY <1>1, FS_RemoveElement, FS_AddElement DEF History, Broker
<1>5. Broker'
  BY <1>1, <1>2, <1>3, <1>4 DEF History, Broker
<1>6. \A d \in orders : \E x \in orders' : x.n = d.n /\ x.symbol = d.symbol
  BY <1>1, <1>3
<1> QED
  BY <1>1, <1>5, <1>6, BooksHistory

LEMMA NextHistory == Inv /\ History /\ [Next]_vars => History'
<1> SUFFICES ASSUME Inv, History, [Next]_vars PROVE History'
  OBVIOUS
<1>1. ASSUME NEW r \in Req, NEW use \in Uses[r], Calls(r, use.op, use.arg) PROVE History'
  BY <1>1, CallsHistory
<1>2. CASE Answered \/ Fails \/ Destroyed
  BY <1>2, AnsweredHistory, FailsHistory, DestroyedHistory
<1>3. CASE BrokerAnswers \/ BrokerRefuses
  BY <1>3, BrokerAnswersHistory, BrokerRefusesHistory
<1>4. ASSUME NEW c \in stray, StrayArrives(c) PROVE History'
  BY <1>4, StrayArrivesHistory
<1>5. ASSUME NEW o \in orders, Fill(o) \/ TurnsOdd(o) PROVE History'
  BY <1>5, FillHistory, TurnsOddHistory
<1>6. CASE UNCHANGED vars
  <2>1. UNCHANGED <<pending, status, call, diary, reply, orders, held, log>>
    BY <1>6 DEF vars, broker
  <2>2. Broker'
    BY <2>1 DEF History, Broker
  <2> QED
    BY <2>1, <2>2, BooksHistory
<1> QED
  BY <1>1, <1>2, <1>3, <1>4, <1>5, <1>6 DEF Next

LEMMA HistoryAlways == Spec => [](Inv /\ History)
<1> QED
  BY InitInv, NextInv, HistoryInit, NextHistory, PTL DEF Spec

LEMMA After ==
    /\ \A a, b \in Nat : \A y \in a + 1 .. b : y \in 1 .. b /\ a < y /\ y \in Nat
    /\ \A b \in Nat : \A y \in 1 .. b : y \in Nat
  OBVIOUS

(* The other way round, and in between. *)
LEMMA Before == \A a, b \in Nat : \A y \in 1 .. b : a < y => y \in a + 1 .. b
  OBVIOUS

LEMMA Between == \A x, s, y \in Nat : x <= s /\ s < y => x < y
  OBVIOUS

(* What is told of an order and of a position. *)
LEMMA CreatedTold ==
    ASSUME NEW c, NEW item, NEW v, TellsOf(c, item, v), c.op = "create_order"
    PROVE  v["id"] = c.n /\ v["symbol"] = c.arg["symbol"]
  BY DEF TellsOf

LEMMA ListedTold ==
    ASSUME NEW c, NEW item, NEW v, TellsOf(c, item, v), c.op = "get_all_orders"
    PROVE  v["id"] = item.n
  BY DEF TellsOf

LEMMA HeldTold ==
    ASSUME NEW c, NEW item, NEW v, TellsOf(c, item, v), c.op = "all_open_positions"
    PROVE  v["symbol"] = item
  BY DEF TellsOf

LEMMA HistoryFinds == Inv /\ History => OrderIsFound
<1> SUFFICES ASSUME Inv, History PROVE OrderIsFound
  OBVIOUS
<1> SUFFICES ASSUME NEW r \in Req,
                    NEW i \in 1 .. Len(diary[r]), NEW j \in 1 .. Len(diary[r]),
                    NEW k \in 1 .. Len(diary[r])
             PROVE  LET made      == diary[r][i]
                        listed    == diary[r][j]
                        positions == diary[r][k]
                    IN  /\ i < j /\ j < k
                        /\ \A e \in {made, listed, positions} : e.result.type = "value"
                        /\ made.call.op = "create_order"
                        /\ listed.call.op = "get_all_orders"
                        /\ positions.call.op = "all_open_positions"
                        =>
                        \/ \E o \in 1 .. Len(listed.result.value) :
                              listed.result.value[o]["id"] = made.result.value[1]["id"]
                        \/ \E p \in 1 .. Len(positions.result.value) :
                              positions.result.value[p]["symbol"] = made.result.value[1]["symbol"]
                        \/ \E m, n \in 1 .. Len(log) :
                              m < n /\ log[m].call = made.call /\ log[n].call.op \in Removes
  BY DEF OrderIsFound
<1> SUFFICES ASSUME i < j, j < k,
                    \A e \in {diary[r][i], diary[r][j], diary[r][k]} : e.result.type = "value",
                    diary[r][i].call.op = "create_order",
                    diary[r][j].call.op = "get_all_orders",
                    diary[r][k].call.op = "all_open_positions",
                    ~ \E m, n \in 1 .. Len(log) :
                         m < n /\ log[m].call = diary[r][i].call /\ log[n].call.op \in Removes
             PROVE  \/ \E o \in 1 .. Len(diary[r][j].result.value) :
                          diary[r][j].result.value[o]["id"] = diary[r][i].result.value[1]["id"]
                    \/ \E p \in 1 .. Len(diary[r][k].result.value) :
                          diary[r][k].result.value[p]["symbol"] = diary[r][i].result.value[1]["symbol"]
  OBVIOUS
<1>0. /\ diary[r][i].result.type = "value" /\ diary[r][j].result.type = "value"
      /\ diary[r][k].result.type = "value"
  OBVIOUS
<1>1. PICK x \in 1 .. Len(log) :
         /\ log[x].call = diary[r][i].call
         /\ Tells(diary[r][i].result.value, diary[r][i].call, log[x].items)
  BY <1>0 DEF History, ValuesTellAll
<1>2. PICK y \in 1 .. Len(log) :
         /\ log[y].call = diary[r][j].call
         /\ Tells(diary[r][j].result.value, diary[r][j].call, log[y].items)
  BY <1>0 DEF History, ValuesTellAll
<1>3. PICK z \in 1 .. Len(log) :
         /\ log[z].call = diary[r][k].call
         /\ Tells(diary[r][k].result.value, diary[r][k].call, log[z].items)
  BY <1>0 DEF History, ValuesTellAll
<1>4. /\ x <= diary[r][j].call.since /\ y <= diary[r][k].call.since
      /\ diary[r][j].call.since \in Nat /\ diary[r][k].call.since \in Nat
  <2>1. /\ Len(diary[r]) \in Nat
        /\ TrueOf(diary[r][j].call, "value") /\ TrueOf(diary[r][k].call, "value")
    BY <1>0, AppendAny DEF Inv, Shape, Truth
  <2>2. j \in i + 1 .. Len(diary[r]) /\ k \in j + 1 .. Len(diary[r])
    BY <2>1
  <2>3. x <= diary[r][j].call.since /\ y <= diary[r][k].call.since
    BY <2>2, <1>0, <1>1, <1>2 DEF History, Ordered
  <2> QED
    BY <2>1, <2>3 DEF TrueOf, Call
<1>5. y \in x + 1 .. Len(log) /\ z \in y + 1 .. Len(log)
  <2>1. Len(log) \in Nat
    BY AppendAny DEF Inv, Shape
  <2>2. PICK yy \in diary[r][j].call.since + 1 .. Len(log) : log[yy].call = diary[r][j].call
    BY <1>0 DEF Inv, Truth, TrueOf
  <2>3. PICK zz \in diary[r][k].call.since + 1 .. Len(log) : log[zz].call = diary[r][k].call
    BY <1>0 DEF Inv, Truth, TrueOf
  <2>4. /\ yy \in 1 .. Len(log) /\ diary[r][j].call.since < yy
        /\ zz \in 1 .. Len(log) /\ diary[r][k].call.since < zz
    BY <2>1, <1>4, After
  <2>5. yy = y /\ zz = z
    BY <2>2, <2>3, <2>4, <1>2, <1>3 DEF Inv, CarriedOutOnce
  <2>6. x \in Nat /\ y \in Nat /\ z \in Nat
    BY <2>1, After, Zenon
  <2>7. x < y
    BY <2>4, <2>5, <2>6, <1>4, Between, Zenon
  <2>8. y < z
    BY <2>4, <2>5, <2>6, <1>4, Between, Zenon
  <2> QED
    BY <2>1, <2>6, <2>7, <2>8, Before, Zenon
<1>6. Shown(log[x].call.n, log[x].call.arg["symbol"], x)
  <2>1. \A q \in x + 1 .. Len(log) : q \in 1 .. Len(log) /\ x < q
    BY AppendAny DEF Inv, Shape
  <2>2. log[x].call.op = "create_order"
    BY <1>1
  <2>3. \A q \in x + 1 .. Len(log) : log[q].call.op \notin Removes
    BY <2>1, <1>1, Zenon
  <2>4. Found
    BY DEF History
  <2> QED
    BY <2>2, <2>3, <2>4 DEF Found
<1>7. /\ diary[r][i].result.value[1]["id"] = log[x].call.n
      /\ diary[r][i].result.value[1]["symbol"] = log[x].call.arg["symbol"]
  <2>1. Len(log[x].items) = 1
    BY <1>1 DEF History, Fitting, ItemsFit
  <2>2. TellsOf(diary[r][i].call, log[x].items[1], diary[r][i].result.value[1])
    BY <2>1, <1>1 DEF Tells
  <2>3. diary[r][i].call.op = "create_order"
    OBVIOUS
  <2>4. /\ diary[r][i].result.value[1]["id"] = diary[r][i].call.n
        /\ diary[r][i].result.value[1]["symbol"] = diary[r][i].call.arg["symbol"]
    BY <2>2, <2>3, CreatedTold, ZenonT(30)
  <2> QED
    BY <2>4, <1>1, ZenonT(30)
<1>8. CASE \E e \in 1 .. Len(log[y].items) : log[y].items[e].n = log[x].call.n
  <2>1. PICK e \in 1 .. Len(log[y].items) : log[y].items[e].n = log[x].call.n
    BY <1>8
  <2>2. /\ e \in 1 .. Len(diary[r][j].result.value)
        /\ TellsOf(diary[r][j].call, log[y].items[e], diary[r][j].result.value[e])
    BY <2>1, <1>2 DEF Tells
  <2>3. diary[r][j].call.op = "get_all_orders"
    OBVIOUS
  <2>4. diary[r][j].result.value[e]["id"] = log[y].items[e].n
    BY <2>2, <2>3, ListedTold, ZenonT(30)
  <2> QED
    BY <2>1, <2>2, <2>4, <1>7, ZenonT(30)
<1>9. CASE \A q \in y + 1 .. Len(log) : log[q].call.op = "all_open_positions" =>
              \E p \in 1 .. Len(log[q].items) : log[q].items[p] = log[x].call.arg["symbol"]
  <2>1. PICK p \in 1 .. Len(log[z].items) : log[z].items[p] = log[x].call.arg["symbol"]
    BY <1>9, <1>3, <1>5
  <2>2. /\ p \in 1 .. Len(diary[r][k].result.value)
        /\ TellsOf(diary[r][k].call, log[z].items[p], diary[r][k].result.value[p])
    BY <2>1, <1>3 DEF Tells
  <2>3. diary[r][k].call.op = "all_open_positions"
    OBVIOUS
  <2>4. diary[r][k].result.value[p]["symbol"] = log[z].items[p]
    BY <2>2, <2>3, HeldTold, ZenonT(30)
  <2> QED
    BY <2>1, <2>2, <2>4, <1>7, ZenonT(30)
<1>10. log[y].call.op = "get_all_orders"
  BY <1>2
<1> QED
  BY <1>5, <1>6, <1>8, <1>9, <1>10 DEF Shown

(* For any calls, any broker and any network: a value tells of all the items  *)
(* of the broker's answer, the answer to this very call, and of each one what *)
(* the broker did.                                                            *)
THEOREM ValuesAreComplete == Spec => []ValuesTellAll
<1>1. History => ValuesTellAll
  BY DEF History
<1> QED
  BY <1>1, HistoryAlways, PTL

(* The order that the integration test looks for is found in the orders or in *)
(* the positions, whoever else calls meanwhile and however late a request     *)
(* arrives, unless a call that came after it has removed it.                  *)
THEOREM OrdersAreFound == Spec => []OrderIsFound
<1> QED
  BY HistoryFinds, HistoryAlways, PTL

-----------------------------------------------------------------------------
(* The client and the service under it *)

(* What the trade client does to the queue under it is what RequestService    *)
(* promises, which AsyncRestClient implements (its theorem Refinement): the   *)
(* broker's calls meet nothing that the REST client does not do.              *)
THEOREM UsesRequestService == Spec => Rest!Spec
<1>1. Init => Rest!Init
  BY DEF Init
<1>2. ASSUME [Next]_vars PROVE [Rest!Next]_(Rest!vars)
  <2>1. ASSUME NEW r \in Req, NEW use \in Uses[r], Calls(r, use.op, use.arg) PROVE Rest!Next
    BY <2>1 DEF Calls, Rest!Next
  <2>2. CASE Answered \/ Fails
    BY <2>2 DEF Answered, Fails, Rest!Next, Rest!Result
  <2>3. CASE Destroyed
    BY <2>3 DEF Destroyed, Rest!Next
  <2>4. CASE BrokerAnswers \/ BrokerRefuses
    BY <2>4 DEF BrokerAnswers, BrokerRefuses, Rest!vars
  <2>5. ASSUME NEW c \in stray, StrayArrives(c) PROVE UNCHANGED Rest!vars
    BY <2>5 DEF StrayArrives, Rest!vars
  <2>6. ASSUME NEW o \in orders, Fill(o) \/ TurnsOdd(o) PROVE UNCHANGED Rest!vars
    BY <2>6 DEF Fill, TurnsOdd, Rest!vars
  <2>7. CASE UNCHANGED vars
    BY <2>7 DEF vars, Rest!vars
  <2> QED
    BY <1>2, <2>1, <2>2, <2>3, <2>4, <2>5, <2>6, <2>7 DEF Next
<1> QED
  BY <1>1, <1>2, PTL DEF Spec, Rest!Spec

-----------------------------------------------------------------------------
(* The client and its callers *)

(* The mapping of the refinement: what the log and the diaries show of it. *)
Done == [i \in 1 .. Len(log) |-> log[i].call.n]
Returned == UNION {{<<diary[r][k].call.n, diary[r][k].result.type>> : k \in 1 .. Len(diary[r])} :
                      r \in Req}

(* Those carried out are those in the log. *)
LEMMA DoneIsLogged ==
    ASSUME Inv
    PROVE  /\ Done \in Seq(Nat) /\ Len(Done) = Len(log) /\ Len(log) \in Nat
           /\ \A n : n \in Promise!ToSet(Done) <=> Logged(n)
<1>1. Len(log) \in Nat
  BY AppendAny DEF Inv, Shape
<1>2. calls \in Nat /\ \A i \in 1 .. Len(log) : log[i].call.n \in 1 .. calls
  BY DEF Inv, Shape, Numbers
<1>3. \A i \in 1 .. Len(log) : log[i].call.n \in Nat
  BY <1>2
<1>4. Done \in Seq(Nat) /\ Len(Done) = Len(log) /\ DOMAIN Done = 1 .. Len(log)
  BY <1>1, <1>3 DEF Done
<1>5. \A i \in 1 .. Len(log) : Done[i] = log[i].call.n
  BY DEF Done
<1>6. \A n : n \in Promise!ToSet(Done) <=> \E i \in 1 .. Len(log) : Done[i] = n
  BY <1>4 DEF Promise!ToSet
<1>7. \A n : n \in Promise!ToSet(Done) <=> Logged(n)
  BY <1>5, <1>6 DEF Logged
<1> QED
  BY <1>1, <1>4, <1>7

(* Nothing but what is in a diary has returned. *)
LEMMA InReturned ==
    \A x : x \in Returned <=>
        \E r \in Req : \E k \in 1 .. Len(diary[r]) :
            x = <<diary[r][k].call.n, diary[r][k].result.type>>
  BY DEF Returned

(* The broker carries out a call that it may. *)
LEMMA CarriesOutOnce ==
    ASSUME Inv, Inv', NEW c, CarriesOut(c), c.n \in 1 .. calls, ~Logged(c.n),
           UNCHANGED <<calls, diary>>,
           \A r \in Req : \A k \in 1 .. Len(diary[r]) :
               diary[r][k].call.n = c.n =>
                   diary[r][k].result.type \notin {"value", "json_parse_error", "http_error"}
    PROVE  \E n \in 1 .. calls : Promise!CarryOut(n)
<1>1. /\ Len(log) \in Nat /\ Len(log') = Len(log) + 1
      /\ log'[Len(log) + 1].call = c
      /\ \A i \in 1 .. Len(log) : log'[i] = log[i]
  BY CarriedOut DEF Inv, Shape
<1>2. Done \in Seq(Nat) /\ Len(Done) = Len(log) /\ c.n \notin Promise!ToSet(Done)
  BY DoneIsLogged
<1>3. c.n \in Nat
  BY DEF Inv, Shape
<1>4. Done' = [i \in 1 .. Len(log') |-> log'[i].call.n]
  BY DEF Done
<1>5. /\ Append(Done, c.n) \in Seq(Nat) /\ Len(Append(Done, c.n)) = Len(log) + 1
      /\ Append(Done, c.n)[Len(log) + 1] = c.n
      /\ \A i \in 1 .. Len(log) : Append(Done, c.n)[i] = Done[i]
  BY <1>1, <1>2, <1>3
<1>6. \A i \in 1 .. Len(log) + 1 : Append(Done, c.n)[i] = log'[i].call.n
  <2> TAKE i \in 1 .. Len(log) + 1
  <2>1. CASE i \in 1 .. Len(log)
    <3>1. Done[i] = log[i].call.n
      BY <2>1 DEF Done
    <3> QED
      BY <1>1, <1>5, <2>1, <3>1
  <2>2. CASE i = Len(log) + 1
    BY <1>1, <1>5, <2>2
  <2>3. i \in 1 .. Len(log) \/ i = Len(log) + 1
    BY <1>1
  <2> QED
    BY <2>1, <2>2, <2>3
<1>7. Append(Done, c.n) = [i \in 1 .. Len(log) + 1 |-> log'[i].call.n]
  <2>1. DOMAIN Append(Done, c.n) = 1 .. Len(log) + 1
    BY <1>5
  <2>2. Append(Done, c.n) = [i \in 1 .. Len(log) + 1 |-> Append(Done, c.n)[i]]
    BY <1>5, <2>1
  <2> QED
    BY <1>6, <2>2
<1>8. Done' = Append(Done, c.n)
  BY <1>1, <1>4, <1>7
<1>9. \A type \in {"value", "json_parse_error", "http_error"} : <<c.n, type>> \notin Returned
  BY InReturned
<1>10. Returned' = Returned
  BY DEF Returned
<1>11. Promise!CarryOut(c.n)
  BY <1>2, <1>8, <1>9, <1>10 DEF Promise!CarryOut, Done, Returned
<1> QED
  BY <1>11

(* The calls of who return, with one result. *)
Return(who, result) ==
    /\ who \subseteq Req /\ \A r \in who : status[r] = "pending"
    /\ result.type \in {"value", "json_parse_error", "http_error", "network_error"}
    /\ \A r \in Req : diary'[r] = IF r \in who
                                   THEN Append(diary[r], [call |-> call[r], result |-> result])
                                   ELSE diary[r]
    /\ UNCHANGED <<call, calls, log>>

(* They return once, and the result is true of them. *)
LEMMA ReturnsTrue ==
    ASSUME Inv, Inv', NEW who, NEW result, Return(who, result)
    PROVE  Promise!Return
<1>0. /\ who \subseteq Req /\ \A r \in who : status[r] = "pending"
      /\ result.type \in {"value", "json_parse_error", "http_error", "network_error"}
      /\ \A r \in Req : diary'[r] = IF r \in who
                                     THEN Append(diary[r], [call |-> call[r], result |-> result])
                                     ELSE diary[r]
      /\ UNCHANGED <<call, calls, log>>
  BY DEF Return
<1> DEFINE e(r) == [call |-> call[r], result |-> result]
           x(r) == <<call[r].n, result.type>>
<1>1. \A r \in Req : IsSeq(diary[r]) /\ Len(diary[r]) \in Nat
  BY AppendAny DEF Inv, Shape
<1>2. \A r \in Req : e(r).call = call[r] /\ e(r).result = result
  OBVIOUS
<1>3. ASSUME NEW r \in Req
      PROVE  /\ \A k \in 1 .. Len(diary[r]) : k \in 1 .. Len(diary'[r]) /\ diary'[r][k] = diary[r][k]
             /\ r \in who => Len(diary[r]) + 1 \in 1 .. Len(diary'[r])
                             /\ diary'[r][Len(diary[r]) + 1] = e(r)
             /\ \A k \in 1 .. Len(diary'[r]) :
                   k \in 1 .. Len(diary[r]) \/ (r \in who /\ k = Len(diary[r]) + 1)
  <2> HIDE DEF e
  <2>1. CASE r \in who
    <3>1. diary'[r] = Append(diary[r], e(r))
      BY <1>0, <2>1 DEF e
    <3>2. /\ Len(Append(diary[r], e(r))) = Len(diary[r]) + 1
          /\ Append(diary[r], e(r))[Len(diary[r]) + 1] = e(r)
          /\ \A i \in 1 .. Len(diary[r]) : Append(diary[r], e(r))[i] = diary[r][i]
      BY <1>1, AppendAny
    <3> QED
      BY <1>1, <2>1, <3>1, <3>2
  <2>2. CASE r \notin who
    BY <1>0, <1>1, <2>2
  <2> QED
    BY <2>1, <2>2
<1> HIDE DEF e
<1>4. Returned \subseteq Returned'
  <2> SUFFICES ASSUME NEW y \in Returned PROVE y \in Returned'
    OBVIOUS
  <2>0. PICK r \in Req : \E k \in 1 .. Len(diary[r]) :
            y = <<diary[r][k].call.n, diary[r][k].result.type>>
    BY InReturned
  <2>1. PICK k \in 1 .. Len(diary[r]) : y = <<diary[r][k].call.n, diary[r][k].result.type>>
    BY <2>0
  <2>2. k \in 1 .. Len(diary'[r]) /\ y = <<diary'[r][k].call.n, diary'[r][k].result.type>>
    BY <1>3, <2>1
  <2> QED
    BY <2>2 DEF Returned
<1>5. ASSUME NEW y \in Returned'
      PROVE  y \in Returned \/ \E r \in who : y = x(r)
  <2>0. PICK r \in Req : \E k \in 1 .. Len(diary'[r]) :
            y = <<diary'[r][k].call.n, diary'[r][k].result.type>>
    BY <1>5 DEF Returned
  <2>1. PICK k \in 1 .. Len(diary'[r]) : y = <<diary'[r][k].call.n, diary'[r][k].result.type>>
    BY <2>0
  <2>2. CASE k \in 1 .. Len(diary[r])
    <3>1. y = <<diary[r][k].call.n, diary[r][k].result.type>>
      BY <1>3, <2>1, <2>2
    <3> QED
      BY <2>2, <3>1, InReturned
  <2>3. CASE r \in who /\ k = Len(diary[r]) + 1
    <3>1. diary'[r][k] = e(r)
      BY <1>3, <2>3
    <3> QED
      BY <1>2, <2>1, <2>3, <3>1
  <2> QED
    BY <1>3, <2>2, <2>3
<1>6. ASSUME NEW r \in who
      PROVE  /\ call[r].n \in 1 .. calls
             /\ \A y \in Returned : y[1] # call[r].n
             /\ \A q \in who : call[q].n = call[r].n => q = r
  <2>1. call[r] \in Call /\ call[r].n # 0 /\ call[r].n <= calls /\ calls \in Nat
    BY <1>0 DEF Inv, Shape, Waiting, Numbers
  <2>2. \A y \in Returned : y[1] # call[r].n
    <3> SUFFICES ASSUME NEW y \in Returned PROVE y[1] # call[r].n
      OBVIOUS
    <3>0. PICK q \in Req : \E k \in 1 .. Len(diary[q]) :
              y = <<diary[q][k].call.n, diary[q][k].result.type>>
      BY InReturned
    <3>1. PICK k \in 1 .. Len(diary[q]) : y = <<diary[q][k].call.n, diary[q][k].result.type>>
      BY <3>0
    <3>2. call[r].n # diary[q][k].call.n
      BY <1>0 DEF Inv, Numbers
    <3> QED
      BY <3>1, <3>2
  <2>3. \A q \in who : call[q].n = call[r].n => q = r
    BY <1>0, <2>1 DEF Inv, Numbers
  <2> QED
    BY <2>1, <2>2, <2>3 DEF Call
<1>7. ASSUME NEW r \in who PROVE Promise!Truthful(call[r].n, result.type)
  <2>0. PICK k : k = Len(diary[r]) + 1
    OBVIOUS
  <2>a. r \in Req
    BY <1>0
  <2>b. k \in 1 .. Len(diary'[r]) /\ diary'[r][k] = e(r)
    BY <1>3, <2>0, <2>a
  <2>1. k \in 1 .. Len(diary'[r]) /\ diary'[r][k].call = call[r] /\ diary'[r][k].result = result
    BY <1>2, <2>a, <2>b
  <2>2. TrueOf(diary[r][k].call, diary[r][k].result.type)'
    BY <1>0, <2>1 DEF Inv, Truth
  <2>3. /\ result.type \in {"value", "json_parse_error"} =>
              \E i \in call[r].since + 1 .. Len(log) : log[i].call = call[r]
        /\ result.type = "http_error" => ~Logged(call[r].n)
    BY <1>0, <2>1, <2>2 DEF TrueOf, Logged
  <2>4. call[r].since \in Nat /\ Len(log) \in Nat
    BY <1>0, DoneIsLogged DEF Inv, Shape, Call
  <2>5. \A i \in call[r].since + 1 .. Len(log) : i \in 1 .. Len(log)
    BY <2>4
  <2>6. result.type \in {"value", "json_parse_error"} => Logged(call[r].n)
    BY <2>3, <2>5 DEF Logged
  <2> QED
    BY <1>0, <2>3, <2>6, DoneIsLogged DEF Promise!Truthful, Done
<1>8. ASSUME NEW new \in Returned' \ Returned
      PROVE  /\ new[1] \in 1 .. calls
             /\ Promise!Truthful(new[1], new[2])
             /\ \A old \in Returned' : old[1] = new[1] => old = new
  <2>1. PICK r \in who : new = x(r)
    BY <1>5
  <2>2. new[1] = call[r].n /\ new[2] = result.type
    BY <2>1
  <2>3. \A old \in Returned' : old[1] = new[1] => old = new
    <3> SUFFICES ASSUME NEW old \in Returned', old[1] = new[1] PROVE old = new
      OBVIOUS
    <3>1. old \notin Returned
      BY <1>6, <2>2
    <3>2. PICK q \in who : old = x(q)
      BY <1>5, <3>1
    <3>3. q = r
      BY <1>6, <2>2, <3>2
    <3> QED
      BY <2>1, <3>2, <3>3
  <2> QED
    BY <1>6, <1>7, <2>2, <2>3
<1>9. Done' = Done
  BY <1>0 DEF Done
<1> HIDE DEF x
<1> QED
  BY <1>0, <1>4, <1>8, <1>9 DEF Promise!Return, Done, Returned

(* Each step is one of the promise, or none. *)
LEMMA PromiseStep ==
    ASSUME Inv, Inv', [Next]_vars
    PROVE  [Promise!Next]_Promise!vars
<1>0. pending # <<>> => /\ Head(pending) \in Req /\ status[Head(pending)] = "pending"
  <2>1. pending \in Seq(Req)
    BY DEF Inv, Shape, Rest!TypeOK
  <2>2. pending # <<>> => Head(pending) = pending[1] /\ Head(pending) \in Req /\ 1 \in 1 .. Len(pending)
    BY <2>1
  <2> QED
    BY <2>2 DEF Inv, Waiting
<1>1. ASSUME NEW r \in Req, NEW use \in Uses[r], Calls(r, use.op, use.arg) PROVE Promise!Make
  <2>1. calls' = calls + 1 /\ UNCHANGED <<diary, log>>
    BY <1>1 DEF Calls, broker
  <2> QED
    BY <2>1 DEF Promise!Make
<1>2. ASSUME pending # <<>>, NEW result, Returns(Head(pending), result),
             result.type \in {"value", "json_parse_error", "http_error", "network_error"},
             UNCHANGED <<call, calls, log>>
      PROVE  Promise!Return
  <2> DEFINE e(r) == [call |-> call[r], result |-> result]
  <2>0. PICK who : who = {Head(pending)}
    OBVIOUS
  <2>1. who \subseteq Req /\ \A r \in who : status[r] = "pending"
    BY <1>0, <1>2, <2>0
  <2>2. diary' = [diary EXCEPT ![Head(pending)] = Append(diary[Head(pending)], e(Head(pending)))]
        /\ DOMAIN diary = Req
    BY <1>2 DEF Returns, Inv, Shape
  <2> HIDE DEF e
  <2>3. \A r \in Req : diary'[r] = IF r \in who THEN Append(diary[r], e(r)) ELSE diary[r]
    BY <2>0, <2>2
  <2>4. \A r \in Req : diary'[r] = IF r \in who
                                  THEN Append(diary[r], [call |-> call[r], result |-> result])
                                  ELSE diary[r]
    BY <2>3 DEF e
  <2>5. UNCHANGED <<call, calls, log>>
    BY <1>2
  <2>6. Return(who, result)
    BY <1>2, <2>1, <2>4, <2>5 DEF Return
  <2> QED
    BY <2>6, ReturnsTrue
<1>3. CASE Answered
  <2> DEFINE result == Result(call[Head(pending)], reply)
  <2>1. /\ pending # <<>> /\ Returns(Head(pending), result) /\ UNCHANGED <<call, calls, log>>
    BY <1>3 DEF Answered, Rest!Answer
  <2>2. result.type \in {"value", "json_parse_error", "http_error", "network_error"}
    BY ResultType
  <2> HIDE DEF result
  <2> QED
    BY <1>2, <2>1, <2>2 DEF Promise!Next
<1>4. CASE Fails
  <2> DEFINE result == Error("network_error")
  <2>1. /\ pending # <<>> /\ Returns(Head(pending), result) /\ UNCHANGED <<call, calls, log>>
    BY <1>4 DEF Fails, Rest!Answer
  <2>2. result.type \in {"value", "json_parse_error", "http_error", "network_error"}
    BY DEF Error
  <2> HIDE DEF result
  <2> QED
    BY <1>2, <2>1, <2>2 DEF Promise!Next
<1>5. CASE Destroyed
  <2> DEFINE result == Error("network_error")
             e(r) == [call |-> call[r], result |-> result]
  <2>0. PICK who : who = {r \in Req : status[r] = "pending"}
    OBVIOUS
  <2>1. UNCHANGED <<call, calls, log>>
        /\ diary' = [r \in Req |-> IF status[r] = "pending" THEN Append(diary[r], e(r)) ELSE diary[r]]
    BY <1>5 DEF Destroyed
  <2>2. result.type \in {"value", "json_parse_error", "http_error", "network_error"}
    BY DEF Error
  <2> HIDE DEF result, e
  <2>3. \A r \in Req : diary'[r] = IF r \in who THEN Append(diary[r], e(r)) ELSE diary[r]
    BY <2>0, <2>1
  <2>4. who \subseteq Req /\ \A r \in who : status[r] = "pending"
    BY <2>0
  <2>5. \A r \in Req : diary'[r] = IF r \in who
                                  THEN Append(diary[r], [call |-> call[r], result |-> result])
                                  ELSE diary[r]
    BY <2>3 DEF e
  <2>6. Return(who, result)
    BY <2>1, <2>2, <2>4, <2>5 DEF Return
  <2> QED
    BY <2>6, ReturnsTrue DEF Promise!Next
<1>6. CASE BrokerAnswers
  <2> DEFINE h == Head(pending)
             c == call[h]
  <2>1. pending # <<>> /\ reply.code = 0 /\ CarriesOut(c) /\ UNCHANGED <<calls, diary>>
    BY <1>6 DEF BrokerAnswers
  <2>2. h \in Req /\ status[h] = "pending"
    BY <1>0, <2>1
  <2>3. ~Logged(c.n)
    BY <2>1, <2>2 DEF Inv, AnswerKnown
  <2>4. c.n \in 1 .. calls
    BY <2>2 DEF Inv, Shape, Waiting, Numbers, Call
  <2>5. \A r \in Req : \A k \in 1 .. Len(diary[r]) : diary[r][k].call.n # c.n
    BY <2>2 DEF Inv, Numbers
  <2> HIDE DEF c
  <2> QED
    BY <2>1, <2>3, <2>4, <2>5, CarriesOutOnce DEF Promise!Next
<1>7. ASSUME NEW c \in stray, StrayArrives(c) PROVE \E n \in 1 .. calls : Promise!CarryOut(n)
  <2>1. CarriesOut(c) /\ UNCHANGED <<calls, diary>>
    BY <1>7 DEF StrayArrives
  <2>2. c.n \in 1 .. calls /\ ~Logged(c.n)
    BY DEF Inv, Numbers, AnswerKnown
  <2>3. ASSUME NEW r \in Req, NEW k \in 1 .. Len(diary[r]),
               diary[r][k].call.n = c.n,
               diary[r][k].result.type \in {"value", "json_parse_error", "http_error"}
        PROVE  FALSE
    <3> DEFINE d == diary[r][k].call
    <3>1. TrueOf(d, diary[r][k].result.type)
      BY DEF Inv, Truth
    <3>2. diary[r][k].result.type # "http_error"
      BY <2>3, <3>1 DEF TrueOf
    <3>3. PICK i \in d.since + 1 .. Len(log) : log[i].call = d
      BY <2>3, <3>1, <3>2 DEF TrueOf
    <3>4. d.since \in Nat /\ Len(log) \in Nat
      BY <3>1, DoneIsLogged DEF TrueOf, Call
    <3>5. i \in 1 .. Len(log)
      BY <3>3, <3>4
    <3> QED
      BY <2>2, <2>3, <3>3, <3>5 DEF Logged
  <2> QED
    BY <2>1, <2>2, <2>3, CarriesOutOnce
<1>8. CASE BrokerRefuses \/ (\E o \in orders : Fill(o) \/ TurnsOdd(o)) \/ UNCHANGED vars
  <2>1. UNCHANGED <<calls, diary, log>>
    BY <1>8 DEF BrokerRefuses, Fill, TurnsOdd, vars, broker
  <2> QED
    BY <2>1 DEF Promise!vars
<1> QED
  BY <1>1, <1>3, <1>4, <1>5, <1>6, <1>7, <1>8 DEF Next, Promise!Next

(* For any callers, calls and network: to its callers the client is what      *)
(* BrokerCalls promises, step by step.                                        *)
THEOREM KeepsPromise == Spec => ImplementsBrokerCalls
<1>1. Init => Promise!Init
  <2> SUFFICES ASSUME Init PROVE Promise!Init
    OBVIOUS
  <2>1. calls = 0 /\ Len(log) = 0 /\ \A r \in Req : Len(diary[r]) = 0
    BY DEF Init
  <2>2. Done = <<>>
    BY <2>1 DEF Done
  <2>3. Returned = {}
    BY <2>1, InReturned
  <2> QED
    BY <2>1, <2>2, <2>3 DEF Promise!Init, Done, Returned
<1>2. Inv /\ Inv' /\ [Next]_vars => [Promise!Next]_Promise!vars
  BY PromiseStep
<1> QED
  BY <1>1, <1>2, SpecInv, PTL DEF Spec, ImplementsBrokerCalls, Promise!Spec
=============================================================================
