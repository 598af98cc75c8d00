----------------------------- MODULE TradeClient -----------------------------
(* alpaca_trade_client (alpaca_trade_client.cpp): coroutines call the broker  *)
(* through one async_rest_client, of which RequestService is the promise, and *)
(* get a value or an error.  The broker is the environment: it carries out a  *)
(* request at most once, refuses it, or carries it out although the answer    *)
(* never comes.                                                               *)
(*                                                                            *)
(* A call is known by its number, which is also the id of the order that it   *)
(* creates.  URLs, credentials and messages do not occur: a request without   *)
(* valid credentials is one that is refused.                                  *)
EXTENDS Naturals, Sequences, FiniteSets, SequencesExt, BrokerJson

CONSTANTS
    Req,                \* the coroutines that call, one call at a time
    Stated,             \* the optional keys that the broker's JSON has a value for
    Uses,               \* the calls that each coroutine may make, with their arguments
    MaxCalls,           \* bound on the calls that each makes
    MaxFailures         \* bound on the requests that fail or are refused

ASSUME BoundsAssumption == MaxCalls \in [Req -> Nat] /\ MaxFailures \in Nat

VARIABLES
    pending, status,    \* the REST client: see RequestService
    call,               \* the latest call of each coroutine
    calls,              \* number of calls made
    diary,              \* history: the finished calls of each, with their results
    reply,              \* the broker's answer to the oldest pending request, if any
    stray,              \* requests given up by the client that may reach the broker yet
    orders,             \* the broker's open orders
    held,               \* the symbols of the broker's open positions
    log                 \* history: what the broker has carried out

Rest == INSTANCE RequestService

broker == <<reply, stray, orders, held, log>>
vars == <<pending, status, call, calls, diary, broker>>

Op == {"account", "all_open_positions", "close_all_positions", "close_all_and_cancel",
       "get_all_orders", "delete_all_orders", "create_order"}

NoReply == [code |-> 0, items |-> <<>>]

NoNotional == [k \in DOMAIN NotionalReads |-> ""]
NoCall == [n |-> 0, op |-> "account", arg |-> NoNotional, since |-> 0]

ASSUME UsesAssumption ==
    \A r \in Req : \A use \in Uses[r] :
        use.op \in Op /\ DOMAIN use.arg = DOMAIN NotionalReads

Init ==
    /\ Rest!Init
    /\ call = [r \in Req |-> NoCall]
    /\ calls = 0
    /\ diary = [r \in Req |-> <<>>]
    /\ reply = NoReply
    /\ stray = {}
    /\ orders = {} /\ held = {}
    /\ log = <<>>

-----------------------------------------------------------------------------
(* What the broker sends (external) *)

Sample(table) ==
    [k \in DOMAIN table |->
        LET kind == table[k].kind
        IN  IF table[k].need = "optional" /\ k \notin Stated THEN Null
            ELSE IF kind \in Enums
                 THEN Json("text", WordOf(kind, CHOOSE e \in DOMAIN Mappings[kind] : TRUE))
            ELSE Json(kind, k)]

AnAccount == Sample(AccountReads)
APosition == Sample(PositionReads)
AnOrder   == Sample(OrderReads)

(* An odd order has a status that the client does not know.                   *)
OrderJson(o) ==
    [AnOrder EXCEPT
        !["id"] = Json("text", o.n),
        !["symbol"] = Json("text", o.symbol),
        !["client_order_id"] = Json("text", o.client),
        !["order_class"] = Json("text", ""),
        !["status"] = Json("text", IF o.odd THEN "held" ELSE "new")]

ClosingOrder(symbol) == [n |-> 0, symbol |-> symbol, client |-> "", odd |-> FALSE]

ItemJson(op, item) ==
    CASE op \in {"get_all_orders", "create_order"} -> OrderJson(item)
      [] op = "account" -> AnAccount
      [] op = "all_open_positions" ->
            [APosition EXCEPT !["symbol"] = Json("text", item)]
      [] op = "delete_all_orders" ->
            [id |-> Json("text", item.of), status |-> Json("int", IF item.ok THEN 200 ELSE 500)]
      [] OTHER ->
            [symbol |-> Json("text", item.of),
             status |-> Json("int", IF item.ok THEN 200 ELSE 500),
             body   |-> Json("object", IF item.ok THEN OrderJson(ClosingOrder(item.of))
                                       ELSE [code |-> Json("int", 500)])]

Success(op) ==
    IF op \in {"delete_all_orders", "close_all_positions", "close_all_and_cancel"} THEN 207
    ELSE 200

-----------------------------------------------------------------------------
(* make_api_request_impl() once the broker has answered: the result of call c *)

(* The expected_status of each call. *)
ExpectedStatus(op) ==
    CASE op \in {"close_all_positions", "close_all_and_cancel", "delete_all_orders"} -> 207
      [] OTHER -> 200

Reads(op) ==
    CASE op = "account" -> AccountReads
      [] op = "all_open_positions" -> PositionReads
      [] op \in {"get_all_orders", "create_order"} -> OrderReads
      [] op = "delete_all_orders" -> OrderDeletedReads
      [] OTHER -> PositionClosedReads

ReadableAs(op, obj) ==
    IF op \in {"close_all_positions", "close_all_and_cancel"} THEN ReadableClosed(obj)
    ELSE Readable(Reads(op), obj)

Error(type) == [type |-> type, value |-> <<>>]
Value(structs) == [type |-> "value", value |-> structs]

(* Mutant: the elements that cannot be read are passed over. *)
ReadableOnly(c, answer) ==
    IF answer.code # ExpectedStatus(c.op) THEN Error("http_error")
    ELSE LET some == SelectSeq(answer.items, LAMBDA item : ReadableAs(c.op, ItemJson(c.op, item)))
         IN  Value([i \in 1 .. Len(some) |-> Decode(Reads(c.op), ItemJson(c.op, some[i]))])

(* Mutant: the status is not looked at. *)
AnyStatus(c, answer) ==
    LET json == [i \in 1 .. Len(answer.items) |-> ItemJson(c.op, answer.items[i])]
    IN  IF \A i \in 1 .. Len(json) : ReadableAs(c.op, json[i])
        THEN Value([i \in 1 .. Len(json) |-> Decode(Reads(c.op), json[i])])
        ELSE Error("json_parse_error")

Result(c, answer) ==
    LET json == [i \in 1 .. Len(answer.items) |-> ItemJson(c.op, answer.items[i])]
    IN  IF answer.code # ExpectedStatus(c.op) THEN Error("http_error")
        ELSE IF \A i \in 1 .. Len(json) : ReadableAs(c.op, json[i])
             THEN Value([i \in 1 .. Len(json) |-> Decode(Reads(c.op), json[i])])
             ELSE Error("json_parse_error")

Returns(r, result) ==
    diary' = [diary EXCEPT ![r] = Append(@, [call |-> call[r], result |-> result])]

-----------------------------------------------------------------------------
(* The calls *)

Failed(finished) == finished.result.type \in {"network_error", "http_error"}

MayFail ==
    Cardinality({n \in 1 .. calls : \E r \in Req : \E k \in 1 .. Len(diary[r]) :
                    diary[r][k].call.n = n /\ Failed(diary[r][k])}) < MaxFailures

Open == \A r \in Req : status[r] # "canceled"

(* account() .. create_order(): make_api_request() up to its suspension. *)
Calls(r, op, arg) ==
    /\ Open
    /\ Len(diary[r]) < MaxCalls[r]
    /\ Rest!Submit(r)
    /\ calls' = calls + 1
    /\ call' = [call EXCEPT ![r] = [n |-> calls + 1, op |-> op, arg |-> arg,
                                    since |-> Len(log)]]
    /\ UNCHANGED <<diary, broker>>

(* The REST client has an answer. *)
Answered ==
    /\ reply.code # 0
    /\ Rest!Answer("ok")
    /\ Returns(Head(pending), Result(call[Head(pending)], reply))
    /\ reply' = NoReply
    /\ UNCHANGED <<call, calls, stray, orders, held, log>>

(* The request that is given up may reach the broker later; one that only     *)
(* looks is then of no consequence.                                           *)
Looking == {"account", "all_open_positions", "get_all_orders"}

UnderWay == {c \in {call[Head(pending)]} : reply.code = 0 /\ c.op \notin Looking}

(* Mutant: a call that fails is tried again. *)
FailsAndRetries ==
    /\ MayFail
    /\ pending # <<>>
    /\ stray' = stray \cup UnderWay
    /\ reply' = NoReply
    /\ pending' = Append(Tail(pending), Head(pending))
    /\ UNCHANGED <<status, call, calls, diary, orders, held, log>>

(* The REST client has an error: the request may be under way all the same.   *)
Fails ==
    /\ MayFail
    /\ Rest!Answer("error")
    /\ Returns(Head(pending), Error("network_error"))
    /\ stray' = stray \cup UnderWay
    /\ reply' = NoReply
    /\ UNCHANGED <<call, calls, orders, held, log>>

(* The client is destroyed: whoever waits gets an error. *)
Destroyed ==
    /\ Open
    /\ pending # <<>>
    /\ Rest!CancelAll
    /\ diary' = [r \in Req |->
                    IF status[r] = "pending"
                    THEN Append(diary[r], [call |-> call[r], result |-> Error("network_error")])
                    ELSE diary[r]]
    /\ stray' = stray \cup UnderWay
    /\ reply' = NoReply
    /\ UNCHANGED <<call, calls, orders, held, log>>

-----------------------------------------------------------------------------
(* The broker (external) *)

Did(c, items) == log' = Append(log, [call |-> c, items |-> items])

Looks(c) ==
    /\ c.op \in Looking
    /\ Did(c, IF c.op = "account" THEN <<0>>
              ELSE IF c.op = "get_all_orders" THEN SetToSeq(orders) ELSE SetToSeq(held))
    /\ UNCHANGED <<orders, held>>

Creates(c) ==
    /\ c.op = "create_order"
    /\ LET body == EncodeNotional(c.arg)
           new  == [n |-> c.n, symbol |-> body["symbol"].val, odd |-> FALSE,
                    client |-> IF "client_order_id" \in DOMAIN body
                               THEN body["client_order_id"].val ELSE "generated"]
       IN  /\ orders' = orders \cup {new}
           /\ Did(c, <<new>>)
    /\ UNCHANGED held

(* An order of kept cannot be cancelled any more. *)
Deletes(c) ==
    /\ c.op = "delete_all_orders"
    /\ \E kept \in SUBSET orders :
          /\ orders' = kept
          /\ LET all == SetToSeq(orders)
             IN  Did(c, [i \in 1 .. Len(all) |-> [of |-> all[i].n, ok |-> all[i] \notin kept]])
    /\ UNCHANGED held

(* A position of kept cannot be closed. *)
Closes(c) ==
    /\ c.op \in {"close_all_positions", "close_all_and_cancel"}
    /\ \E kept \in SUBSET held :
          /\ held' = kept
          /\ LET all == SetToSeq(held)
             IN  Did(c, [i \in 1 .. Len(all) |-> [of |-> all[i], ok |-> all[i] \notin kept]])
    /\ orders' = IF c.op = "close_all_and_cancel" THEN {} ELSE orders

CarriesOut(c) == Looks(c) \/ Creates(c) \/ Deletes(c) \/ Closes(c)

BrokerAnswers ==
    /\ pending # <<>> /\ reply.code = 0
    /\ LET c == call[Head(pending)]
       IN  /\ CarriesOut(c)
           /\ reply' = [code |-> Success(c.op), items |-> log'[Len(log')].items]
    /\ UNCHANGED <<pending, status, call, calls, diary, stray>>

BrokerRefuses ==
    /\ MayFail
    /\ pending # <<>> /\ reply.code = 0
    /\ reply' = [code |-> 403, items |-> <<>>]
    /\ UNCHANGED <<pending, status, call, calls, diary, stray, orders, held, log>>

StrayArrives(c) ==
    /\ CarriesOut(c)
    /\ stray' = stray \ {c}
    /\ UNCHANGED <<pending, status, call, calls, diary, reply>>

(* An order is filled: it is not open any more, and there is a position.      *)
Fill(o) ==
    /\ orders' = orders \ {o}
    /\ held' = held \cup {o.symbol}
    /\ UNCHANGED <<pending, status, call, calls, diary, reply, stray, log>>

(* The status of an order becomes one that the client does not know.          *)
TurnsOdd(o) ==
    /\ ~o.odd
    /\ orders' = (orders \ {o}) \cup {[o EXCEPT !.odd = TRUE]}
    /\ UNCHANGED <<pending, status, call, calls, diary, reply, stray, held, log>>

Next ==
    \/ \E r \in Req : \E use \in Uses[r] : Calls(r, use.op, use.arg)
    \/ Answered \/ Fails \/ Destroyed
    \/ BrokerAnswers \/ BrokerRefuses
    \/ \E c \in stray : StrayArrives(c)
    \/ \E o \in orders : Fill(o) \/ TurnsOdd(o)

Spec == Init /\ [][Next]_vars

-----------------------------------------------------------------------------
(* Properties *)

(* A caller that repeats nothing buys nothing twice: whatever fails, and      *)
(* however late a request arrives, no call is carried out more than once.     *)
CarriedOutOnce ==
    \A i, j \in 1 .. Len(log) : log[i].call.n = log[j].call.n => i = j

(* The kinds of error tell a caller what it may do next.  A value or a        *)
(* json_parse_error: the broker has carried out this very call, since it was  *)
(* made, so it must not be repeated.  An http_error: not carried out, now or  *)
(* ever.  Only a network_error leaves it open.                                *)
ResultsTellTruth ==
    \A r \in Req : \A k \in 1 .. Len(diary[r]) :
        LET c == diary[r][k].call
            type == diary[r][k].result.type
        IN  /\ type \in {"value", "json_parse_error"} =>
                  \E i \in c.since + 1 .. Len(log) : log[i].call = c
            /\ type = "http_error" =>
                  c \notin stray /\ \A i \in 1 .. Len(log) : log[i].call # c

(* What an element of a value says of what the broker did: the order that was *)
(* asked for; of a position to close, that it is closed; of an order to       *)
(* delete, whether it is.                                                     *)
TellsOf(c, item, v) ==
    /\ c.op = "create_order" =>
          /\ v["id"] = c.n /\ v["symbol"] = c.arg["symbol"]
          /\ v["client_order_id"] = c.arg["client_order_id"] \/ c.arg["client_order_id"] = ""
    /\ c.op = "get_all_orders" => v["id"] = item.n /\ v["symbol"] = item.symbol
    /\ c.op = "all_open_positions" => v["symbol"] = item
    /\ c.op = "delete_all_orders" => v["id"] = item.of /\ (v["status"] = 200 <=> item.ok)
    /\ c.op \in {"close_all_positions", "close_all_and_cancel"} => v["symbol"] = item.of /\ item.ok

(* All there is, element by element. *)
Tells(value, c, items) ==
    Len(value) = Len(items) /\ \A i \in 1 .. Len(items) : TellsOf(c, items[i], value[i])

(* A value tells all that the broker did: no element is left out of a list    *)
(* because it cannot be read, and a list of closed positions means that there *)
(* is no position that could not be closed.                                   *)
ValuesTellAll ==
    \A r \in Req : \A k \in 1 .. Len(diary[r]) :
        LET c == diary[r][k].call
            result == diary[r][k].result
        IN  result.type = "value" =>
                \E i \in 1 .. Len(log) : log[i].call = c /\ Tells(result.value, c, log[i].items)

Removes == {"delete_all_orders", "close_all_positions", "close_all_and_cancel"}

(* The integration test expects an order it has created in the orders or, if  *)
(* it is not there, in the positions asked for afterwards: "Order should      *)
(* appear either in open orders or as a position".  It is in one of the two   *)
(* unless a call that came after it has cancelled or closed it.               *)
OrderIsFound ==
    \A r \in Req : \A i, j, k \in 1 .. Len(diary[r]) :
        LET made      == diary[r][i]
            listed    == diary[r][j]
            positions == diary[r][k]
        IN  /\ i < j /\ j < k
            /\ \A e \in {made, listed, positions} : e.result.type = "value"
            /\ made.call.op = "create_order"
            /\ listed.call.op = "get_all_orders"
            /\ positions.call.op = "all_open_positions"
            =>
            \/ \E o \in 1 .. Len(listed.result.value) :
                  listed.result.value[o]["id"] = made.result.value[1]["id"]
            \/ \E p \in 1 .. Len(positions.result.value) :
                  positions.result.value[p]["symbol"] = made.result.value[1]["symbol"]
            \/ \E m, n \in 1 .. Len(log) :
                  m < n /\ log[m].call = made.call /\ log[n].call.op \in Removes

Same(reads, writes, struct) ==
    LET json == Encode(writes, struct)
    IN  Readable(reads, json) /\ Decode(reads, json) = struct

(* Whatever the client reads of the broker it can write, and read again: what *)
(* value_from() writes is what value_to() asks for, null, absent or "" there. *)
ReadsBack(op, struct) ==
    CASE op = "account" -> Same(AccountReads, AccountWrites, struct)
      [] op = "all_open_positions" -> Same(PositionReads, PositionWrites, struct)
      [] op \in {"get_all_orders", "create_order"} -> Same(OrderReads, OrderWrites, struct)
      [] OTHER -> TRUE

ReadBack ==
    [][\A r \in Req : diary'[r] # diary[r] =>
            LET last == diary'[r][Len(diary'[r])]
            IN  \A i \in DOMAIN last.result.value :
                    ReadsBack(last.call.op, last.result.value[i])]_vars

(* The promise to the callers, call by call: carried out at most once, and    *)
(* returned once, with a result that tells whether the call may be repeated.  *)
Promise == INSTANCE BrokerCalls WITH
              made <- calls,
              done <- [i \in 1 .. Len(log) |-> log[i].call.n],
              returned <- UNION {{<<diary[r][k].call.n, diary[r][k].result.type>> :
                                     k \in 1 .. Len(diary[r])} : r \in Req}

ImplementsBrokerCalls == Promise!Spec
=============================================================================
