----------------------------- MODULE FlushQueue -----------------------------
(***************************************************************************)
(* The flush pipeline of application/log_service.py: a FIFO list of flush  *)
(* tasks and a counter of worker threads, both guarded by _queue_cond, and *)
(* the worker thread that is started for each task.                        *)
(*                                                                         *)
(* A task is one _FlushTask: the batch it carries does not matter here.    *)
(* phase[k] says how far task k got:                                       *)
(*   new        _enqueue_flush has not been called for it                  *)
(*   queued     in _flush_queue                                            *)
(*   sending    its worker is in transport.send                            *)
(*   measuring  send returned, its worker updates the metrics              *)
(*   settling   its worker is in the finally block, event not set yet      *)
(*   leaving    event set, the in-flight slot still taken                  *)
(*   done       worker gone, slot given back                               *)
(*   stranded   Thread.start raised: popped and counted, never run         *)
(***************************************************************************)
EXTENDS Integers, Sequences, FiniteSets

CONSTANTS
    Tasks,                  \* the flush tasks that may be created
    MaxConcurrentFlushes,   \* config max_concurrent_flushes, at least 1
    StartMayFail            \* whether Thread.start may raise RuntimeError

ASSUME MaxConcurrentFlushesAssumption == MaxConcurrentFlushes \in Nat \ {0}
ASSUME TasksAssumption == IsFiniteSet(Tasks)
ASSUME StartMayFailAssumption == StartMayFail \in BOOLEAN

VARIABLES
    flushQueue,   \* self._flush_queue
    inFlight,     \* self._in_flight_flushes
    phase,        \* how far each task got
    failed        \* the tasks whose worker caught an exception

vars == <<flushQueue, inFlight, phase, failed>>

Phases == {"new", "queued", "sending", "measuring", "settling", "leaving",
           "done", "stranded"}

(* The tasks that hold one of the MaxConcurrentFlushes slots. *)
Occupying == {"sending", "measuring", "settling", "leaving", "stranded"}

InPhase(S) == {k \in Tasks : phase[k] \in S}

(* task.event is set: whoever waits in _enqueue_flush goes on. *)
EventSet(k) == phase[k] \in {"leaving", "done"}

(* The condition _wait_for_queue_idle waits for. *)
Idle == inFlight = 0 /\ flushQueue = <<>>

Init ==
    /\ flushQueue = <<>>
    /\ inFlight = 0
    /\ phase = [k \in Tasks |-> "new"]
    /\ failed = {}

-----------------------------------------------------------------------------

(* Mutant: one worker too many. *)
StartableOneMore(q, used) ==
    IF used > MaxConcurrentFlushes THEN 0
    ELSE IF Len(q) <= MaxConcurrentFlushes + 1 - used THEN Len(q)
    ELSE MaxConcurrentFlushes + 1 - used

(* How many tasks the loop of _process_flush_queue_locked pops. *)
Startable(q, used) ==
    IF used >= MaxConcurrentFlushes THEN 0
    ELSE IF Len(q) <= MaxConcurrentFlushes - used THEN Len(q)
    ELSE MaxConcurrentFlushes - used

(* Mutant: the tasks are started but stay in the list. *)
PoppedNotRemoved(q, used, ph, n, r) ==
    /\ flushQueue' = q
    /\ inFlight' = used + n
    /\ phase' = [k \in Tasks |-> IF \E i \in 1..n : q[i] = k THEN "sending" ELSE ph[k]]

(* Mutant: pop() takes the last task, pop(0) the first. *)
PoppedFromEnd(q, used, ph, n, r) ==
    /\ flushQueue' = SubSeq(q, 1, Len(q) - n)
    /\ inFlight' = used + n
    /\ phase' = [k \in Tasks |->
                    IF \E i \in Len(q) - n + 1 .. Len(q) : q[i] = k THEN "sending" ELSE ph[k]]

(* Mutant: the counter runs the wrong way. *)
PoppedUncounted(q, used, ph, n, r) ==
    /\ flushQueue' = SubSeq(q, n + 1, Len(q))
    /\ inFlight' = used - n
    /\ phase' = [k \in Tasks |-> IF \E i \in 1..n : q[i] = k THEN "sending" ELSE ph[k]]

(* The first n tasks of q are popped and counted; the first r of them run. *)
Popped(q, used, ph, n, r) ==
    /\ flushQueue' = SubSeq(q, n + 1, Len(q))
    /\ inFlight' = used + n
    /\ phase' = [k \in Tasks |->
                    IF \E i \in 1..r : q[i] = k THEN "sending"
                    ELSE IF \E i \in 1..n : q[i] = k THEN "stranded"
                    ELSE ph[k]]

(* _process_flush_queue_locked.  A Thread.start that raises ends the loop  *)
(* after the task was popped and counted.                                  *)
ProcessFlushQueue(q, used, ph) ==
    \/ LET n == Startable(q, used) IN Popped(q, used, ph, n, n)
    \/ /\ StartMayFail
       /\ \E n \in 1..Startable(q, used) : Popped(q, used, ph, n, n - 1)

(* _enqueue_flush, up to the wait for the event. *)
Enqueue(k) ==
    /\ phase[k] = "new"
    /\ ProcessFlushQueue(Append(flushQueue, k), inFlight,
                         [phase EXCEPT ![k] = "queued"])
    /\ UNCHANGED failed

Advance(k, from, to) ==
    /\ phase[k] = from
    /\ phase' = [phase EXCEPT ![k] = to]
    /\ UNCHANGED <<flushQueue, inFlight>>

(* transport.send returns. *)
SendOk(k) == Advance(k, "sending", "measuring") /\ UNCHANGED failed

(* transport.send raises: the except clause counts the error. *)
SendFail(k) == Advance(k, "sending", "settling") /\ failed' = failed \cup {k}

(* The metrics of a successful send, _update_metrics included. *)
Measure(k) == Advance(k, "measuring", "settling") /\ UNCHANGED failed

(* task.error is assigned and task.event set. *)
Settle(k) == Advance(k, "settling", "leaving") /\ UNCHANGED failed

(* Mutant: the slot is not given back. *)
LeaveKeepsSlot(k) ==
    /\ phase[k] = "leaving"
    /\ ProcessFlushQueue(flushQueue, inFlight, [phase EXCEPT ![k] = "done"])
    /\ UNCHANGED failed

(* Mutant: the slot is given back but the list is not looked at. *)
LeaveWithoutNext(k) ==
    /\ phase[k] = "leaving"
    /\ phase' = [phase EXCEPT ![k] = "done"]
    /\ inFlight' = inFlight - 1
    /\ UNCHANGED <<flushQueue, failed>>

(* The rest of the finally block: the slot goes to the next task. *)
Leave(k) ==
    /\ phase[k] = "leaving"
    /\ ProcessFlushQueue(flushQueue, IF inFlight > 0 THEN inFlight - 1 ELSE 0,
                         [phase EXCEPT ![k] = "done"])
    /\ UNCHANGED failed

Send(k) == SendOk(k) \/ SendFail(k)
Worker(k) == Send(k) \/ Measure(k) \/ Settle(k) \/ Leave(k)

Next == \E k \in Tasks : Enqueue(k) \/ Worker(k)

Spec == Init /\ [][Next]_vars

(* A worker is a thread: it is scheduled, and transport.send ends because  *)
(* the HTTP client has a timeout and the retries are counted.              *)
FairSpec == Spec /\ \A k \in Tasks : WF_vars(Worker(k))

-----------------------------------------------------------------------------
(* The types of the pipeline's state. *)
TypeOK ==
    /\ flushQueue \in Seq(Tasks)
    /\ inFlight \in Nat
    /\ phase \in [Tasks -> Phases]
    /\ failed \subseteq Tasks

(* The list holds each waiting task once, and nothing else. *)
QueueHoldsWaitingTasks ==
    /\ \A k \in Tasks :
          phase[k] = "queued" <=> \E i \in DOMAIN flushQueue : flushQueue[i] = k
    /\ \A i, j \in DOMAIN flushQueue : flushQueue[i] = flushQueue[j] => i = j

(* _in_flight_flushes is the number of slots taken, so max(0, ...) in the  *)
(* finally block never has anything to clamp.                              *)
InFlightCountsSlots == inFlight = Cardinality(InPhase(Occupying))

(* No more workers than max_concurrent_flushes (log_service.py:236-239).   *)
WorkersCapped == inFlight <= MaxConcurrentFlushes

(* Over its three methods the count of slots is neither off nor exceeded.  *)
SlotsCounted == InFlightCountsSlots /\ WorkersCapped

(* No lost wake-up: a task waits only while every slot is taken, although  *)
(* nothing but an enqueue and the end of a worker looks at the list.       *)
NoIdleSlot == flushQueue # <<>> => inFlight = MaxConcurrentFlushes

(* Tasks are started in the order of their _enqueue_flush calls: a task    *)
(* leaves the list only together with all those ahead of it.               *)
StartedInOrder ==
    [][\A i, j \in DOMAIN flushQueue :
          i < j /\ phase'[flushQueue[j]] # "queued"
             => phase'[flushQueue[i]] # "queued"]_vars

(* A Thread.start has raised: its task and slot are lost. *)
Stranded == InPhase({"stranded"}) # {}

(* Every caller of _enqueue_flush is released (log_service.py:231): while  *)
(* threads can be started, no task is queued for ever.                     *)
EveryTaskSettles == \A k \in Tasks : phase[k] = "queued" ~> EventSet(k) \/ Stranded
=============================================================================
