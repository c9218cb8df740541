--------------------------- MODULE LokiTransport ---------------------------
(***************************************************************************)
(* infrastructure/transport/loki_json_transport.py: the HTTP client that   *)
(* the sends of all flush workers share, and the destroy that closes it.   *)
(* loki_protobuf_transport.py has the same _request and destroy.           *)
(*                                                                         *)
(* Nothing is locked: _request tests self._client and reads it again, and  *)
(* destroy tests it, closes it and sets it to None, each a step of its     *)
(* own.  A request that finds no client opens and closes one of its own.   *)
(* The health record and the latencies decide nothing and are left out.    *)
(***************************************************************************)
CONSTANTS
    Calls,       \* the threads in send
    Destroyers,  \* the threads in destroy: that of LogService may run twice
    Pooling      \* config enable_connection_pooling

VARIABLES
    client,    \* self._client is not None
    pool,      \* the shared client is open
    request,   \* where each send stands in _request
    closing    \* where each destroyer stands

vars == <<client, pool, request, closing>>

Init ==
    /\ client = Pooling
    /\ pool = Pooling
    /\ request = [c \in Calls |-> "none"]
    /\ closing = [d \in Destroyers |-> "test"]

MoveTo(c, step) == request' = [request EXCEPT ![c] = step]
Outside(c) == request[c] = "none"

-----------------------------------------------------------------------------
(* _request                                                                *)

TestClient(c) ==
    /\ Outside(c)
    /\ MoveTo(c, IF client THEN "reuse" ELSE "sent")
    /\ UNCHANGED <<client, pool, closing>>

Post(c) ==
    /\ request[c] = "reuse"
    /\ client /\ pool
    /\ MoveTo(c, "sent")
    /\ UNCHANGED <<client, pool, closing>>

(* None has no post, and a closed client refuses: no word in either        *)
(* message is a mark of an error to retry.                                 *)
PostRaises(c) ==
    /\ request[c] = "reuse"
    /\ ~(client /\ pool)
    /\ MoveTo(c, "none")
    /\ UNCHANGED <<client, pool, closing>>

(* The request is over, with a response or an error: closing the pool can  *)
(* break a request under way, or leave it be.                              *)
Respond(c) ==
    /\ request[c] = "sent"
    /\ MoveTo(c, "none")
    /\ UNCHANGED <<client, pool, closing>>

-----------------------------------------------------------------------------
(* destroy                                                                 *)

Step(d, from, to) == closing[d] = from /\ closing' = [closing EXCEPT ![d] = to]

TestDestroy(d) ==
    /\ Step(d, "test", IF client THEN "close" ELSE "over")
    /\ UNCHANGED <<client, pool, request>>

(* Mutant: the reference is cleared before the client is closed. *)
CloseLate(d) ==
    \/ /\ Step(d, "close", "clear")
       /\ client' = FALSE
       /\ UNCHANGED <<pool, request>>
    \/ /\ Step(d, "clear", "over")
       /\ pool' = FALSE
       /\ UNCHANGED <<client, request>>

(* If another destroyer has cleared the reference, None has no close; the  *)
(* service swallows the error.                                             *)
Close(d) ==
    \/ /\ client
       /\ Step(d, "close", "clear")
       /\ pool' = FALSE
       /\ UNCHANGED <<client, request>>
    \/ /\ ~client
       /\ Step(d, "close", "over")
       /\ UNCHANGED <<client, pool, request>>
    \/ /\ Step(d, "clear", "over")
       /\ client' = FALSE
       /\ UNCHANGED <<pool, request>>

Destroy(d) == TestDestroy(d) \/ Close(d)

-----------------------------------------------------------------------------
TypeOK ==
    /\ client \in BOOLEAN /\ pool \in BOOLEAN
    /\ request \in [Calls -> {"none", "reuse", "sent"}]
    /\ closing \in [Destroyers -> {"test", "close", "clear", "over"}]

(* However two destroys and the requests of the workers interleave, a      *)
(* destroy that is over, even one that raised, leaves no open connection   *)
(* of the pool behind and no reference through which one could be reached  *)
(* (loki_json_transport.py:137-140).                                       *)
ConnectionsClosed ==
    (\E d \in Destroyers : closing[d] = "over") => ~pool /\ ~client
=============================================================================
