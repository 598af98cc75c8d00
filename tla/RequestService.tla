--------------------------- MODULE RequestService ---------------------------
(* What async_rest_client promises the coroutines that call request(): their  *)
(* requests wait in one queue and are answered once each, in the order in     *)
(* which they were made, until the client is destroyed and everything that    *)
(* still waits is cancelled.  Streams, connections and the processing loop    *)
(* do not appear; AsyncRestClient implements this specification.              *)
EXTENDS Sequences

CONSTANT Req            \* the coroutines that call request(), one call at a time

VARIABLES
    pending,            \* the requests not answered yet, oldest first
    status              \* what each requester sees of its latest request

vars == <<pending, status>>

Result == {"ok", "error"}

Status == {"idle", "pending", "rejected", "canceled"} \cup Result

TypeOK ==
    /\ pending \in Seq(Req)
    /\ status \in [Req -> Status]

Init ==
    /\ pending = <<>>
    /\ status = [r \in Req |-> "idle"]

(* A call whose URL is not an http(s) URL throws: nothing is queued. *)
Reject(r) ==
    /\ status[r] \notin {"pending", "canceled"}
    /\ status' = [status EXCEPT ![r] = "rejected"]
    /\ UNCHANGED pending

Submit(r) ==
    /\ status[r] \notin {"pending", "canceled"}
    /\ pending' = Append(pending, r)
    /\ status' = [status EXCEPT ![r] = "pending"]

(* Only the oldest request is answered, and it is answered once. *)
Answer(res) ==
    /\ pending # <<>>
    /\ status' = [status EXCEPT ![Head(pending)] = res]
    /\ pending' = Tail(pending)

(* The destructor: every request still pending is cancelled. *)
CancelAll ==
    /\ pending' = <<>>
    /\ status' = [r \in Req |-> IF status[r] = "pending" THEN "canceled" ELSE status[r]]

Next ==
    \/ \E r \in Req : Submit(r) \/ Reject(r)
    \/ \E res \in Result : Answer(res)
    \/ CancelAll

Spec == Init /\ [][Next]_vars
=============================================================================
