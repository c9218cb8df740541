----------------------------- MODULE LogService -----------------------------
(***************************************************************************)
(* application/log_service.py: log, flush and destroy, called by several   *)
(* application threads, by the buffer's timers and by its immediate-flush  *)
(* threads, over one MemoryBuffer and one FlushQueue.                      *)
(*                                                                         *)
(* One step is the code between two points where a thread may lose the     *)
(* processor with an effect: a call of the buffer, a block under           *)
(* _queue_cond, a read or write of _destroyed.  pc[th] names the step the  *)
(* thread is about to take:                                                *)
(*   add      self._buffer.add(filtered)         log_service.py:136        *)
(*   measure  _update_metrics of log, read-outs  :138, :278, :284, :301    *)
(*   check    if self._destroyed of flush        :211                      *)
(*   size     self._buffer.size() > 0            :214, :333                *)
(*   drain    self._buffer.flush()               :215, :334                *)
(*   enqueue  the locked block of _enqueue_flush :227-229                  *)
(*   event    task.event.wait()                  :231                      *)
(*   wait     _wait_for_queue_idle               :272-275                  *)
(*   mark     self._destroyed = True             :329                      *)
(*   close_buffer, close_transport               :342, :346                *)
(* A flush task is named by the first entry of its batch, and the thread   *)
(* of an immediate flush by the entry whose add started it.  The thread    *)
(* that sends task k is WorkerOf[k]; its pc is used only when the send     *)
(* calls log, through the handler that intercept_console has put on the    *)
(* root logger (runtime_interceptor.py:20-33, :137-139).                   *)
(***************************************************************************)
EXTENDS Lists

CONSTANTS
    Entries, SizeOf, MaxSize, MaxMemory, AutoFlush, Callers, Timers, None,
    MaxConcurrentFlushes, StartMayFail, Unstarted,
    EnableMetrics,  \* config enable_metrics
    WorkerOf,       \* the worker thread of each flush task
    SendLogs        \* whether transport.send logs into this logger: httpx
                    \* does through logging, when that is intercepted

(* What MemoryBuffer and FlushQueue assume of the constants they share. *)
ASSUME PartsAssumption ==
    /\ SizeOf \in [Entries -> Nat \ {0}]
    /\ MaxSize \in Nat \ {0} /\ MaxMemory \in Nat
    /\ AutoFlush \in BOOLEAN
    /\ None \notin Callers \cup Timers \cup Entries
    /\ Unstarted \notin Timers \cup {None}
    /\ MaxConcurrentFlushes \in Nat \ {0}
    /\ IsFiniteSet(Entries)
    /\ StartMayFail \in BOOLEAN
ASSUME EnableMetricsAssumption == EnableMetrics \in BOOLEAN /\ SendLogs \in BOOLEAN
ASSUME ThreadsAssumption ==
    Callers \cap Timers = {} /\ Callers \cap Entries = {} /\ Timers \cap Entries = {}
ASSUME WorkersAssumption ==
    \A k \in Entries :
        /\ WorkerOf[k] \notin Callers \cup Timers \cup Entries \cup {None}
        /\ \A j \in Entries \ {k} : WorkerOf[j] # WorkerOf[k]

VARIABLES
    buf, bufferDestroyed, flushTimer, timer, lock, kicks, offered, discarded, strayed,
    flushQueue, inFlight, phase, failed,
    pc,               \* the next step of each thread
    hand,             \* the entries in each thread's local variables
    batch,            \* the entries of each flush task
    destroyed,        \* self._destroyed
    destroyers,       \* the threads that are in destroy
    refused,          \* entries that log did not hand to the buffer
    transportClosed,  \* transport.destroy has been called
    early,            \* history: entries added before _destroyed was set
    seen              \* history: entries added when a thread's call began

Buffer == INSTANCE MemoryBuffer
Queue == INSTANCE FlushQueue WITH Tasks <- Entries

bufferVars == <<buf, bufferDestroyed, flushTimer, timer, lock, kicks, offered,
                discarded, strayed>>
queueVars == <<flushQueue, inFlight, phase, failed>>
callVars == <<destroyed, destroyers, refused, transportClosed, early, seen>>
vars == <<bufferVars, queueVars, pc, hand, batch, callVars>>

Workers == {WorkerOf[k] : k \in Entries}
Threads == Callers \cup Timers \cup Entries \cup Workers
Goto(th, step) == pc' = [pc EXCEPT ![th] = step]
Handed == UNION {Seqs!ToSet(hand[th]) : th \in Threads}

Init ==
    /\ Buffer!Init
    /\ Queue!Init
    /\ pc = [th \in Threads |-> "idle"]
    /\ hand = [th \in Threads |-> <<>>]
    /\ batch = [k \in Entries |-> {}]
    /\ destroyed = FALSE
    /\ destroyers = {}
    /\ refused = {}
    /\ transportClosed = FALSE
    /\ early = {}
    /\ seen = [th \in Threads |-> {}]

-----------------------------------------------------------------------------
(* log                                                                     *)

(* Up to the filters.  Level, sampling or a destroyed logger end the call. *)
Log(c, e) ==
    /\ pc[c] = "idle"
    /\ e \notin offered \cup refused \cup Handed
    /\ \/ /\ refused' = refused \cup {e}
          /\ UNCHANGED <<pc, hand>>
       \/ /\ ~destroyed
          /\ Goto(c, "add")
          /\ hand' = [hand EXCEPT ![c] = <<e>>]
          /\ UNCHANGED refused
    /\ UNCHANGED <<bufferVars, queueVars, batch, destroyed, destroyers,
                   transportClosed, early, seen>>

(* When add raises, so does log. *)
AddEntry(c) ==
    /\ pc[c] = "add"
    /\ hand' = [hand EXCEPT ![c] = <<>>]
    /\ \/ /\ Buffer!Add(c, Head(hand[c]))
          /\ Goto(c, IF EnableMetrics THEN "measure" ELSE "idle")
       \/ /\ Buffer!AddRaises(c, Head(hand[c]))
          /\ Goto(c, "idle")
    /\ UNCHANGED <<queueVars, batch, callVars>>

(* get_metrics and get_health.  get_metrics takes the buffer's lock twice  *)
(* and changes nothing in between: one wait stands for both.               *)
CallReadOut(c) ==
    /\ pc[c] = "idle"
    /\ Goto(c, "measure")
    /\ UNCHANGED <<bufferVars, queueVars, hand, batch, callVars>>

(* Like _update_metrics, they ask the buffer for its size or its metrics. *)
UpdateMetrics(c) ==
    /\ pc[c] = "measure"
    /\ Buffer!Free(c)
    /\ Goto(c, "idle")
    /\ UNCHANGED <<bufferVars, queueVars, hand, batch, callVars>>

-----------------------------------------------------------------------------
(* flush, and the part that destroy shares with it                         *)

CallFlush(c) ==
    /\ pc[c] = "idle"
    /\ Goto(c, "check")
    /\ seen' = [seen EXCEPT ![c] = offered]
    /\ UNCHANGED <<bufferVars, queueVars, hand, batch, destroyed, destroyers,
                   refused, transportClosed, early>>

(* The call ends for a thread th: it leaves nothing in its locals. *)
Return(th) ==
    /\ Goto(th, "idle")
    /\ hand' = [hand EXCEPT ![th] = <<>>]
    /\ seen' = [seen EXCEPT ![th] = {}]
    /\ destroyers' = destroyers \ {th}

(* An exception ends flush; destroy keeps it and goes on to its finally. *)
Raise(th) ==
    IF th \in destroyers
    THEN /\ Goto(th, "close_buffer")
         /\ hand' = [hand EXCEPT ![th] = <<>>]
         /\ UNCHANGED <<seen, destroyers>>
    ELSE Return(th)

Check(th) ==
    /\ pc[th] = "check"
    /\ IF destroyed THEN Return(th)
       ELSE Goto(th, "size") /\ UNCHANGED <<hand, seen, destroyers>>
    /\ UNCHANGED <<bufferVars, queueVars, batch, destroyed, refused,
                   transportClosed, early>>

Size(th) ==
    /\ pc[th] = "size"
    /\ Buffer!Free(th)
    /\ Goto(th, IF buf.entries = <<>> THEN "wait" ELSE "drain")
    /\ UNCHANGED <<bufferVars, queueVars, hand, batch, callVars>>

(* Mutant: the entries are copied (peek) and stay in the buffer. *)
DrainCopies(th) ==
    /\ pc[th] = "drain"
    /\ Buffer!Free(th)
    /\ hand' = [hand EXCEPT ![th] = buf.entries]
    /\ Goto(th, IF buf.entries = <<>> THEN "wait" ELSE "enqueue")
    /\ UNCHANGED <<bufferVars, queueVars, batch, callVars>>

Drain(th) ==
    /\ pc[th] = "drain"
    /\ \/ /\ Buffer!Flush(th)
          /\ hand' = [hand EXCEPT ![th] = buf.entries]
          /\ Goto(th, IF buf.entries = <<>> THEN "wait" ELSE "enqueue")
          /\ UNCHANGED <<seen, destroyers>>
       \/ Buffer!FlushRaises(th) /\ Raise(th)
    /\ UNCHANGED <<queueVars, batch, destroyed, refused, transportClosed, early>>

EnqueueFlush(th) ==
    LET k == Head(hand[th]) IN
    /\ pc[th] = "enqueue"
    /\ Queue!Enqueue(k)
    /\ batch' = [batch EXCEPT ![k] = Seqs!ToSet(hand[th])]
    /\ IF phase'[k] = "stranded" THEN Raise(th)
       ELSE Goto(th, "event") /\ UNCHANGED <<hand, seen, destroyers>>
    /\ UNCHANGED <<bufferVars, destroyed, refused, transportClosed, early>>

AwaitEvent(th) ==
    LET k == Head(hand[th]) IN
    /\ pc[th] = "event"
    /\ Queue!EventSet(k)
    /\ IF k \in failed THEN Raise(th)
       ELSE /\ Goto(th, "wait")
            /\ hand' = [hand EXCEPT ![th] = <<>>]
            /\ UNCHANGED <<seen, destroyers>>
    /\ UNCHANGED <<bufferVars, queueVars, batch, destroyed, refused,
                   transportClosed, early>>

(* Mutant: nobody waits for the other flushes. *)
WaitForNothing(th) ==
    /\ pc[th] = "wait"
    /\ IF th \in destroyers
       THEN Goto(th, "close_buffer") /\ UNCHANGED <<hand, seen, destroyers>>
       ELSE Return(th)
    /\ UNCHANGED <<bufferVars, queueVars, batch, destroyed, refused,
                   transportClosed, early>>

WaitForQueueIdle(th) ==
    /\ pc[th] = "wait"
    /\ Queue!Idle
    /\ IF th \in destroyers
       THEN Goto(th, "close_buffer") /\ UNCHANGED <<hand, seen, destroyers>>
       ELSE Return(th)
    /\ UNCHANGED <<bufferVars, queueVars, batch, destroyed, refused,
                   transportClosed, early>>

-----------------------------------------------------------------------------
(* destroy.  The test and the assignment of _destroyed are two steps.      *)

CallDestroy(c) ==
    /\ pc[c] = "idle"
    /\ ~destroyed
    /\ Goto(c, "mark")
    /\ seen' = [seen EXCEPT ![c] = offered]
    /\ UNCHANGED <<bufferVars, queueVars, hand, batch, destroyed, destroyers,
                   refused, transportClosed, early>>

(* Mutant: destroy waits for the queue but does not flush the buffer. *)
MarkDestroyedNoFlush(c) ==
    /\ pc[c] = "mark"
    /\ destroyed' = TRUE
    /\ destroyers' = destroyers \cup {c}
    /\ early' = IF destroyed THEN early ELSE offered
    /\ Goto(c, "wait")
    /\ UNCHANGED <<bufferVars, queueVars, hand, batch, refused, transportClosed, seen>>

MarkDestroyed(c) ==
    /\ pc[c] = "mark"
    /\ destroyed' = TRUE
    /\ destroyers' = destroyers \cup {c}
    /\ early' = IF destroyed THEN early ELSE offered
    /\ Goto(c, "size")
    /\ UNCHANGED <<bufferVars, queueVars, hand, batch, refused, transportClosed, seen>>

CloseBuffer(c) ==
    /\ pc[c] = "close_buffer"
    /\ Buffer!Destroy(c)
    /\ Goto(c, "close_transport")
    /\ UNCHANGED <<queueVars, hand, batch, callVars>>

CloseTransport(c) ==
    /\ pc[c] = "close_transport"
    /\ transportClosed' = TRUE
    /\ Return(c)
    /\ UNCHANGED <<bufferVars, queueVars, batch, destroyed, refused, early>>

-----------------------------------------------------------------------------
(* The threads of the buffer: their callback is flush.                     *)

TimerExpires(t) ==
    Buffer!Expire(t) /\ UNCHANGED <<queueVars, pc, hand, batch, callVars>>

TimerEnters(t) ==
    /\ Buffer!TimerEnter(t)
    /\ IF lock' = t
       THEN Goto(t, "check") /\ seen' = [seen EXCEPT ![t] = offered]
       ELSE UNCHANGED <<pc, seen>>
    /\ UNCHANGED <<queueVars, hand, batch, destroyed, destroyers, refused,
                   transportClosed, early>>

TimerLeaves(t) ==
    /\ pc[t] = "idle"
    /\ Buffer!TimerLeave(t)
    /\ UNCHANGED <<queueVars, pc, hand, batch, callVars>>

Kick(e) ==
    /\ Buffer!KickStart(e)
    /\ Goto(e, "check")
    /\ seen' = [seen EXCEPT ![e] = offered]
    /\ UNCHANGED <<queueVars, hand, batch, destroyed, destroyers, refused,
                   transportClosed, early>>

-----------------------------------------------------------------------------
(* The workers: _send_flush_batch.                                         *)

(* While it sends, it may log; AddEntry and UpdateMetrics then follow.     *)
WorkerLogs(k, e) ==
    SendLogs /\ phase[k] = "sending" /\ Log(WorkerOf[k], e)

(* _update_metrics needs the buffer's lock, like any other thread. *)
WorkerMeasure(k) == (EnableMetrics => lock = None) /\ Queue!Measure(k)

Worker(k) ==
    /\ pc[WorkerOf[k]] = "idle"
    /\ Queue!Send(k) \/ WorkerMeasure(k) \/ Queue!Settle(k) \/ Queue!Leave(k)
    /\ UNCHANGED <<bufferVars, pc, hand, batch, callVars>>

(* What a thread does inside a call it has begun. *)
Step(th) ==
    \/ AddEntry(th) \/ UpdateMetrics(th)
    \/ Check(th) \/ Size(th) \/ Drain(th) \/ EnqueueFlush(th)
    \/ AwaitEvent(th) \/ WaitForQueueIdle(th)
    \/ MarkDestroyed(th) \/ CloseBuffer(th) \/ CloseTransport(th)

TimerThread(t) == TimerExpires(t) \/ TimerEnters(t) \/ TimerLeaves(t)

Next ==
    \/ \E c \in Callers :
          \/ \E e \in Entries : Log(c, e)
          \/ CallFlush(c) \/ CallDestroy(c) \/ CallReadOut(c)
    \/ \E th \in Threads : Step(th)
    \/ \E t \in Timers : TimerThread(t)
    \/ \E e \in Entries : Kick(e)
    \/ \E k \in Entries : Worker(k) \/ \E e \in Entries : WorkerLogs(k, e)

Spec == Init /\ [][Next]_vars

(* A thread inside a call runs on; a lock or condition that is free again  *)
(* and again is eventually obtained.  Calls themselves are never forced.   *)
FairSpec ==
    /\ Spec
    /\ \A c \in Callers : SF_vars(Step(c))
    /\ \A t \in Timers : SF_vars(Step(t) \/ TimerThread(t))
    /\ \A e \in Entries : SF_vars(Step(e) \/ Kick(e))
    /\ \A k \in Entries : SF_vars(Worker(k) \/ Step(WorkerOf[k]))

-----------------------------------------------------------------------------
Finished(S) == {k \in Entries : phase[k] \in S}
Delivered ==
    UNION {batch[k] : k \in Finished({"measuring", "settling", "leaving", "done"}) \ failed}
Failed == UNION {batch[k] : k \in failed}

(* Drained by thread th, which has not made a task of it yet. *)
InTransit(th) == IF pc[th] = "enqueue" THEN Seqs!ToSet(hand[th]) ELSE {}

Settled == Delivered \cup Failed \cup buf.evicted \cup discarded

(* Where LogDelivery sees an entry. *)
PlaceOf(e) ==
    CASE e \in refused              -> "refused"
      [] e \notin offered \cup refused -> "new"
      [] e \in Buffer!Held          -> "buffered"
      [] e \in buf.evicted          -> "evicted"
      [] e \in discarded            -> "discarded"
      [] e \in strayed              -> "strayed"
      [] e \in Delivered            -> "delivered"
      [] e \in Failed               -> "failed"
      [] OTHER                      -> "taken"

Delivery == INSTANCE LogDelivery
    WITH place <- [e \in Entries |-> PlaceOf(e)], closing <- destroyed,
         FlushMayRaise <- AutoFlush /\ StartMayFail

-----------------------------------------------------------------------------
(* The types of the service's own state, with those of its parts. *)
TypeOK ==
    /\ Buffer!TypeOK
    /\ Queue!TypeOK
    /\ pc \in [Threads -> {"idle", "add", "measure", "check", "size", "drain",
                           "enqueue", "event", "wait", "mark", "close_buffer",
                           "close_transport"}]
    /\ hand \in [Threads -> Seq(Entries)]
    /\ batch \in [Entries -> SUBSET Entries]
    /\ destroyed \in BOOLEAN /\ transportClosed \in BOOLEAN
    /\ destroyers \subseteq Callers
    /\ refused \subseteq Entries /\ early \subseteq offered
    /\ seen \in [Threads -> SUBSET offered]

(* Conservation: an entry that was added is in exactly one of the buffer,  *)
(* one thread's hand, one task's batch, and the entries lost: evicted,     *)
(* discarded, or taken out by a flush that then raised, because the next   *)
(* timer did not start (memory_buffer.py:59-63, :177).  No interleaving of *)
(* adds, flushes and destroys loses an entry in any other way or doubles   *)
(* it.                                                                     *)
EachEntryInOnePlace ==
    \A e \in offered :
        LET holders == {th \in Threads : e \in InTransit(th)}
            tasks   == {k \in Entries : e \in batch[k]}
            others  == {S \in {1, 2, 3, 4} : e \in CASE S = 1 -> Buffer!Held
                                                     [] S = 2 -> buf.evicted
                                                     [] S = 3 -> discarded
                                                     [] S = 4 -> strayed}
        IN  Cardinality(holders) + Cardinality(tasks) + Cardinality(others) = 1

(* When flush or destroy is done waiting, all that was added before the    *)
(* call is settled, but for what another thread drained and has not made   *)
(* into a task yet, which _wait_for_queue_idle cannot see, and for what a  *)
(* flush lost by raising.                                                  *)
WaitCoversEarlierEntries ==
    [][\A th \in Threads :
          pc[th] = "wait" /\ pc'[th] # "wait"
             => seen[th] \subseteq Settled \cup strayed
                                  \cup UNION {InTransit(x) : x \in Threads \ {th}}]_vars

(* With auto_flush, while the logger is open, an entry in the buffer has a *)
(* timer thread that will still come for it.  After a Timer.start that     *)
(* raised it has none, until some caller flushes (memory_buffer.py:53-55). *)
OpenBufferHasTimer == ~destroyed => Buffer!PendingFlush

(* The service implements the delivery promise: among the rest, destroy    *)
(* flushes what was added before it, and only what came in after           *)
(* _destroyed was set is thrown away (log_service.py:329-342).             *)
DeliversAsPromised == Delivery!DeliverySpec

(* ARCHITECTURE.md:17-20, core flow: an entry that passed the filter is    *)
(* stored by the buffer and pushed by the flush pipeline; none stays in    *)
(* log(), in the buffer or in the pipeline for ever.                       *)
LoggedEntriesArePushed ==
    \A e \in Entries : e \in Handed \cup offered ~> e \in Settled

(* A thread inside a call, or a timer that has fired, which the buffer's   *)
(* lock, an event or the queue's condition does not hold up.               *)
CanGoOn(th) ==
    \/ pc[th] \in {"check", "enqueue", "mark", "close_transport"}
    \/ pc[th] \in {"add", "measure", "size", "drain", "close_buffer"} /\ Buffer!Free(th)
    \/ pc[th] = "event" /\ Queue!EventSet(Head(hand[th]))
    \/ pc[th] = "wait" /\ Queue!Idle
    \/ /\ th \in Timers /\ pc[th] = "idle"
       /\ timer[th] = "running" \/ (timer[th] = "fired" /\ lock = None)

(* A task whose worker cannot go on without the buffer's lock: for the     *)
(* metrics (log_service.py:260), or because its send logs.                 *)
NeedsLock(k) ==
    \/ phase[k] = "measuring" /\ EnableMetrics
    \/ phase[k] = "sending" /\ pc[WorkerOf[k]] \in {"add", "measure"}

(* A task whose worker the buffer's lock does not hold up. *)
WorkerCanGoOn(k) ==
    /\ phase[k] \in {"sending", "measuring", "settling", "leaving"}
    /\ NeedsLock(k) => lock = None

Busy ==
    \/ \E th \in Threads : pc[th] # "idle"
    \/ \E t \in Timers : timer[t] \in {"fired", "running"}
    \/ \E k \in Entries : phase[k] \notin {"new", "done"}

(* While anything is under way somebody can go on, unless a Thread.start   *)
(* has raised, so that its slot is lost (log_service.py:243), or a timer   *)
(* that flushes with the buffer's lock waits (:231, :275) for a worker     *)
(* that needs the lock: for the metrics, or to log what httpx says of its  *)
(* request (runtime_interceptor.py:33).                                    *)
NoOtherDeadlock ==
    Busy =>
        \/ \E th \in Threads : CanGoOn(th)
        \/ \E k \in Entries : WorkerCanGoOn(k)
        \/ Queue!Stranded
        \/ \E t \in Timers, k \in Entries :
              lock = t /\ pc[t] \in {"event", "wait"} /\ NeedsLock(k)

(* Every call of log, flush, destroy and the read-outs comes back to its   *)
(* caller.                                                                 *)
CallsReturn == \A c \in Callers : pc[c] # "idle" ~> pc[c] = "idle"
=============================================================================
