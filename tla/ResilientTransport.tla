------------------------- MODULE ResilientTransport -------------------------
(***************************************************************************)
(* infrastructure/transport/resilient_transport.py: send, run by the flush *)
(* workers at the same time, over one CircuitBreaker and one memory dead   *)
(* letter queue (infrastructure/dlq/memory_dlq.py).  Each batch is sent by *)
(* a worker thread of its own, so a batch also names that thread.          *)
(*                                                                         *)
(* The retry loop runs inside one execute of the breaker.  The dead letter *)
(* queue has no lock: the test of its length, the pop and the append of    *)
(* one add_batch interleave with those of another.  at[b] is where the     *)
(* worker of b stands:                                                     *)
(*   new        not in send yet         check    next entry: len(queue)?   *)
(*   trying     in _retry_operation     pop      about to pop the oldest   *)
(*   succeeded  operation is back       append   about to append           *)
(*   failed     operation has raised    sent, raised   send is over        *)
(* An attempt is a request of LokiTransport, whose client may be destroyed *)
(* meanwhile: LogService.destroy does not wait for the sends when its last *)
(* flush has raised.                                                       *)
(***************************************************************************)
EXTENDS Integers, Sequences, FiniteSets, LokiFormat

CONSTANTS
    Batches, FailureThreshold, HalfOpenRequests, MaxFailures, Destroyers, Pooling,
    LabelSets,   \* the labels an entry may have
    Timestamps,  \* and the times at which it may have been logged
    BatchSize,   \* the number of entries of a batch
    Workers,     \* max_concurrent_flushes: the sends under way at once
    MaxRetries,  \* config max_retries
    DlqMaxSize   \* config max_size of the dead letter queue

ASSUME BatchSizeAssumption == BatchSize \in Nat \ {0}
ASSUME PoolingAssumption == Pooling \in BOOLEAN
ASSUME TimestampsAssumption == Timestamps \subseteq Nat
ASSUME MaxRetriesAssumption == MaxRetries \in Nat
ASSUME WorkersAssumption == Workers \in Nat \ {0}
\* the defaults are 1000 and 3; see DlqPop for smaller queues
ASSUME DlqMaxSizeAssumption == DlqMaxSize \in Nat /\ DlqMaxSize >= Workers

VARIABLES
    state, failures, successCount, inFlight, expired, pc, probes,
    client, pool, request, closing,
    at,        \* where the send of each batch stands
    attempt,   \* attempt of _retry_operation, from 0
    left,      \* entries that add_batch has not appended yet
    dlq,       \* self._queue, an entry named by its batch
    lost,      \* history: entries of each batch the queue has dropped
    accepted   \* history: the batches that Loki has stored

Breaker == INSTANCE CircuitBreaker WITH Calls <- Batches
Loki == INSTANCE LokiTransport WITH Calls <- Batches

breakerVars == <<state, failures, successCount, inFlight, expired, pc, probes>>
lokiVars == <<client, pool, request, closing>>
dlqVars == <<left, dlq, lost>>
vars == <<breakerVars, lokiVars, at, attempt, dlqVars, accepted>>

Init ==
    /\ Breaker!Init
    /\ Loki!Init
    /\ at = [b \in Batches |-> "new"]
    /\ attempt = [b \in Batches |-> 0]
    /\ left = [b \in Batches |-> BatchSize]
    /\ dlq = <<>>
    /\ lost = [b \in Batches |-> 0]
    /\ accepted = {}

Goto(b, step) == at' = [at EXCEPT ![b] = step]
Active == {b \in Batches : at[b] \notin {"new", "sent", "raised"}}

-----------------------------------------------------------------------------
(* send, up to the breaker's decision. *)
Send(b) ==
    /\ at[b] = "new"
    /\ Cardinality(Active) < Workers
    /\ \/ /\ Breaker!Admit(b)
          /\ Goto(b, "trying")
       \/ /\ Breaker!Refuses
          /\ Goto(b, "check")
          /\ UNCHANGED breakerVars
    /\ UNCHANGED <<lokiVars, attempt, dlqVars, accepted>>

(* An attempt of the inner transport begins, and is answered with success. *)
Request(b) ==
    /\ at[b] = "trying"
    /\ Loki!TestClient(b) \/ Loki!Post(b)
    /\ UNCHANGED <<breakerVars, at, attempt, dlqVars, accepted>>

AttemptSucceeds(b) ==
    /\ at[b] = "trying"
    /\ Loki!Respond(b)
    /\ accepted' = accepted \cup {b}
    /\ Goto(b, "succeeded")
    /\ UNCHANGED <<breakerVars, attempt, dlqVars>>

(* It raises: the entries cannot be formatted, or there is no response or  *)
(* a bad one, and Loki may have stored the batch all the same.             *)
AttemptRaises(b) ==
    /\ at[b] = "trying"
    /\ \/ Loki!Respond(b) /\ accepted' \in {accepted, accepted \cup {b}}
       \/ Loki!Outside(b) /\ UNCHANGED <<lokiVars, accepted>>
    /\ UNCHANGED <<breakerVars, dlqVars>>

(* Mutant: one attempt too many. *)
AttemptFailsOneMore(b) ==
    /\ AttemptRaises(b)
    /\ \/ attempt[b] <= MaxRetries
          /\ attempt' = [attempt EXCEPT ![b] = @ + 1]
          /\ UNCHANGED at
       \/ Goto(b, "failed") /\ UNCHANGED attempt

(* Mutant: the count of the retries starts again. *)
AttemptFailsForever(b) ==
    /\ AttemptRaises(b)
    /\ \/ attempt' = [attempt EXCEPT ![b] = (@ + 1) % (MaxRetries + 1)]
          /\ UNCHANGED at
       \/ Goto(b, "failed") /\ UNCHANGED attempt

(* A retryable error is tried again after a sleep, unless it was the last  *)
(* attempt.                                                                *)
AttemptFails(b) ==
    /\ AttemptRaises(b)
    /\ \/ attempt[b] < MaxRetries
          /\ attempt' = [attempt EXCEPT ![b] = @ + 1]
          /\ UNCHANGED at
       \/ Goto(b, "failed") /\ UNCHANGED attempt

(* The client has been destroyed since it was tested: no retry. *)
ClientGone(b) ==
    /\ at[b] = "trying"
    /\ Loki!PostRaises(b)
    /\ Goto(b, "failed")
    /\ UNCHANGED <<breakerVars, attempt, dlqVars, accepted>>

(* The breaker records the outcome. *)
RecordOutcome(b) ==
    /\ \/ at[b] = "succeeded" /\ Breaker!RecordSuccess(b)
       \/ at[b] = "failed" /\ Breaker!RecordFailure(b)
    /\ UNCHANGED <<lokiVars, at, attempt, dlqVars, accepted>>

(* Mutant: the except clause does not call _enqueue_dlq. *)
LeaveBreakerNoDlq(b) ==
    /\ Breaker!CheckState(b) \/ Breaker!ReturnProbe(b)
    /\ IF pc'[b] # "idle" THEN UNCHANGED at
       ELSE Goto(b, IF at[b] = "succeeded" THEN "sent" ELSE "raised")
    /\ UNCHANGED <<lokiVars, attempt, dlqVars, accepted>>

(* The finally block of execute; an error goes on to _enqueue_dlq. *)
LeaveBreaker(b) ==
    /\ Breaker!CheckState(b) \/ Breaker!ReturnProbe(b)
    /\ IF pc'[b] # "idle" THEN UNCHANGED at
       ELSE Goto(b, IF at[b] = "succeeded" THEN "sent" ELSE "check")
    /\ UNCHANGED <<lokiVars, attempt, dlqVars, accepted>>

-----------------------------------------------------------------------------
(* MemoryDeadLetterQueue.add_batch                                         *)

(* Mutant: the limit is taken as exceeded only beyond max_size. *)
DlqCheckLate(b) ==
    /\ at[b] = "check"
    /\ Goto(b, IF left[b] = 0 THEN "raised"
               ELSE IF Len(dlq) > DlqMaxSize THEN "pop" ELSE "append")
    /\ UNCHANGED <<breakerVars, lokiVars, attempt, dlqVars, accepted>>

DlqCheck(b) ==
    /\ at[b] = "check"
    /\ Goto(b, IF left[b] = 0 THEN "raised"
               ELSE IF Len(dlq) >= DlqMaxSize THEN "pop" ELSE "append")
    /\ UNCHANGED <<breakerVars, lokiVars, attempt, dlqVars, accepted>>

(* Several workers may pop after they have all seen a full queue.  With    *)
(* max_size under the number of workers they can find it empty: pop(0)     *)
(* raises, the error is swallowed, and the rest of the batch is lost.      *)
DlqPop(b) ==
    /\ at[b] = "pop"
    /\ IF dlq = <<>>
       THEN Goto(b, "raised") /\ UNCHANGED <<dlq, lost>>
       ELSE /\ dlq' = Tail(dlq)
            /\ lost' = [lost EXCEPT ![Head(dlq)] = @ + 1]
            /\ Goto(b, "append")
    /\ UNCHANGED <<breakerVars, lokiVars, attempt, left, accepted>>

DlqAppend(b) ==
    /\ at[b] = "append"
    /\ dlq' = Append(dlq, b)
    /\ left' = [left EXCEPT ![b] = @ - 1]
    /\ Goto(b, "check")
    /\ UNCHANGED <<breakerVars, lokiVars, attempt, lost, accepted>>

-----------------------------------------------------------------------------
Elapse == Breaker!Elapse /\ UNCHANGED <<lokiVars, at, attempt, dlqVars, accepted>>

(* ResilientTransport.destroy *)
Destroy(d) ==
    Loki!Destroy(d) /\ UNCHANGED <<breakerVars, at, attempt, dlqVars, accepted>>

Worker(b) ==
    \/ Request(b) \/ AttemptSucceeds(b) \/ AttemptFails(b) \/ ClientGone(b)
    \/ RecordOutcome(b) \/ LeaveBreaker(b)
    \/ DlqCheck(b) \/ DlqPop(b) \/ DlqAppend(b)

Next ==
    \/ Elapse
    \/ \E b \in Batches : Send(b) \/ Worker(b)
    \/ \E d \in Destroyers : Destroy(d)

Spec == Init /\ [][Next]_vars

(* A worker inside send is a running thread: attempts have a timeout and   *)
(* the sleeps between them are finite.                                     *)
FairSpec == Spec /\ \A b \in Batches : WF_vars(Worker(b))

-----------------------------------------------------------------------------
Stored(b) == Cardinality({i \in DOMAIN dlq : dlq[i] = b})

(* The types of the sends and of the queue, with those of the parts. *)
TypeOK ==
    /\ Breaker!TypeOK
    /\ Loki!TypeOK
    /\ at \in [Batches -> {"new", "trying", "succeeded", "failed", "check",
                           "pop", "append", "sent", "raised"}]
    /\ attempt \in [Batches -> 0..MaxRetries]
    /\ left \in [Batches -> 0..BatchSize]
    /\ dlq \in Seq(Batches)
    /\ lost \in [Batches -> 0..BatchSize]
    /\ accepted \subseteq Batches

(* What a send puts into its request, for every batch. *)
PayloadsSound ==
    \A entries \in [1..BatchSize -> [labels : LabelSets, at : Timestamps]] :
        /\ Whole(FormatForLoki(entries), entries)
        /\ Chronological(FormatForLoki(entries), entries)
        /\ Whole(FormatPayload(entries), entries)

(* ARCHITECTURE.md:19, retry + circuit breaker + DLQ fallback: a send that *)
(* returns has reached Loki, with each of its entries once, in the stream  *)
(* of its labels and in the order of time; one that raises, refused by the *)
(* breaker, out of attempts or without a client, has each entry in the     *)
(* queue or dropped from it, once.                                         *)
NoSilentLoss ==
    \A b \in Batches :
        /\ at[b] = "sent" => b \in accepted /\ PayloadsSound
        /\ Stored(b) + lost[b] + left[b] = BatchSize
        /\ at[b] = "raised" => left[b] = 0

(* Without a lock the workers can push the queue over max_size, but only   *)
(* by one entry for each of them but the first, however often they race.   *)
DlqOvershootBounded == Len(dlq) <= DlqMaxSize + Workers - 1

(* Every send ends, with or without an error. *)
SendsEnd ==
    \A b \in Batches : at[b] # "new" ~> at[b] \in {"sent", "raised"}

(* A destroy that is over leaves no connection open, while sends go on. *)
ConnectionsClosed == Loki!ConnectionsClosed
=============================================================================
