----------------------------- MODULE BrokerCalls -----------------------------
(* What the trade client promises to a coroutine that calls the broker: the   *)
(* broker carries out a call at most once, a call returns once, and from what *)
(* it returns the caller knows whether it may repeat it.  After a value, or   *)
(* an answer that cannot be read, the call has been carried out; after an     *)
(* http_error it never will be; after a network_error it may have been, or    *)
(* may be yet.  TradeClient implements it.                                    *)
EXTENDS Naturals, Sequences, SequencesExt

VARIABLES
    made,               \* number of calls made so far, which are known by their numbers
    done,               \* the calls that the broker has carried out, in this order
    returned            \* the calls that have returned, each with the type of its result

vars == <<made, done, returned>>

Init == made = 0 /\ done = <<>> /\ returned = {}

Make ==
    /\ made' = made + 1
    /\ UNCHANGED <<done, returned>>

(* A call may be carried out before it returns, or when nobody knows. *)
CarryOut(n) ==
    /\ n \in 1 .. made
    /\ n \notin ToSet(done)
    /\ \A type \in {"value", "json_parse_error", "http_error"} : <<n, type>> \notin returned
    /\ done' = Append(done, n)
    /\ UNCHANGED <<made, returned>>

(* What type says of call n is true. *)
Truthful(n, type) ==
    /\ type \in {"value", "json_parse_error", "http_error", "network_error"}
    /\ type \in {"value", "json_parse_error"} => n \in ToSet(done)
    /\ type = "http_error" => n \notin ToSet(done)

(* A call returns, or all those that wait for a client that is destroyed. *)
Return ==
    /\ returned \subseteq returned'
    /\ \A new \in returned' \ returned :
          /\ new[1] \in 1 .. made
          /\ Truthful(new[1], new[2])
          /\ \A old \in returned' : old[1] = new[1] => old = new
    /\ UNCHANGED <<made, done>>

Next == Make \/ (\E n \in 1 .. made : CarryOut(n)) \/ Return

Spec == Init /\ [][Next]_vars
=============================================================================
