-------------------------- MODULE LogServiceProofs --------------------------
(***************************************************************************)
(* Proofs about LogService for any number of callers, timers and entries,  *)
(* any limits of the buffer and any number of concurrent flushes.          *)
(*                                                                         *)
(* The invariants of MemoryBuffer and FlushQueue are used as proved there: *)
(* BP and QP are their proof modules over the same variables, and the      *)
(* first lemmas say that their operations are those which the service      *)
(* calls.  Around them the invariant says, of each thread, what its step   *)
(* has already achieved (ThreadRight: a flush that is past the buffer has  *)
(* left none of the entries it answers for there, a destroy none of those  *)
(* added before it), of the timers, that one will come for the buffer      *)
(* (TimersRight), and of each entry, that it is somewhere (Covered) and    *)
(* nowhere twice (Separate).                                               *)
(***************************************************************************)
EXTENDS LogService, FiniteSetTheorems, TLAPS

BP == INSTANCE MemoryBufferProofs
QP == INSTANCE FlushQueueProofs WITH Tasks <- Entries

Held == Seqs!ToSet(buf.entries)

(* The instances of the buffer in this module and in its proofs agree on   *)
(* lists,                                                                  *)
LEMMA SameLists ==
    ASSUME NEW s
    PROVE  /\ BP!Sublists(s) = Buffer!Sublists(s)
           /\ BP!Seqs!ToSet(s) = Seqs!ToSet(s) 
           /\ Buffer!Seqs!ToSet(s) = Seqs!ToSet(s)
  BY DEF BP!Sublists, Buffer!Sublists, BP!Seqs!ToSet, Buffer!Seqs!ToSet, Seqs!ToSet,
         BP!Precedes, Buffer!Precedes

(* on the sizes of sets of entries, *)
LEMMA SameTotals ==
    ASSUME NEW S
    PROVE  BP!TotalSize(S) = Buffer!TotalSize(S)
  BY DEF BP!TotalSize, Buffer!TotalSize, BP!TotalOf, Buffer!TotalOf, BP!Units, Buffer!Units, BP!Cardinality, Buffer!Cardinality

(* The queue has finitely many tasks: they are named by entries. *)
LEMMA TasksFinite == QP!IsFiniteSet(Entries)
  BY PartsAssumption DEF QP!IsFiniteSet, IsFiniteSet

(* on the updates of the list, *)
LEMMA SameUpdates ==
    ASSUME NEW b
    PROVE  /\ \A S : BP!Untrack(b, S) = Buffer!Untrack(b, S)
           /\ \A S, rest : BP!Evict(b, S, rest) = Buffer!Evict(b, S, rest)
           /\ \A n : BP!DropOldest(b, n) = Buffer!DropOldest(b, n)
           /\ BP!EnforceMaxSize(b) = Buffer!EnforceMaxSize(b)
           /\ \A young : BP!RemoveOldEntries(b, young) = Buffer!RemoveOldEntries(b, young)
           /\ \A e : BP!Put(b, e) = Buffer!Put(b, e)
           /\ BP!Emptied(b) = Buffer!Emptied(b)
<1>1. ASSUME NEW c, NEW S PROVE BP!Untrack(c, S) = Buffer!Untrack(c, S)
  BY SameTotals DEF BP!Untrack, Buffer!Untrack
<1>2. ASSUME NEW c, NEW S, NEW rest PROVE BP!Evict(c, S, rest) = Buffer!Evict(c, S, rest)
  <2>1. BP!Cardinality(S) = Buffer!Cardinality(S)
    BY DEF BP!Cardinality, Buffer!Cardinality
  <2> QED
    BY <1>1, <2>1 DEF BP!Evict, Buffer!Evict
<1>3. ASSUME NEW c, NEW n PROVE BP!DropOldest(c, n) = Buffer!DropOldest(c, n)
  BY <1>2, SameLists DEF BP!DropOldest, Buffer!DropOldest
<1>4. ASSUME NEW c PROVE BP!EnforceMaxSize(c) = Buffer!EnforceMaxSize(c)
  BY <1>3 DEF BP!EnforceMaxSize, Buffer!EnforceMaxSize
<1>5. ASSUME NEW c, NEW young PROVE BP!RemoveOldEntries(c, young) = Buffer!RemoveOldEntries(c, young)
  BY <1>2, <1>3, SameLists DEF BP!RemoveOldEntries, Buffer!RemoveOldEntries
<1>6. ASSUME NEW c, NEW e PROVE BP!Put(c, e) = Buffer!Put(c, e)
  BY DEF BP!Put, Buffer!Put
<1>7. ASSUME NEW c PROVE BP!Emptied(c) = Buffer!Emptied(c)
  BY <1>1, SameLists DEF BP!Emptied, Buffer!Emptied
<1> QED
  BY <1>1, <1>2, <1>3, <1>4, <1>5, <1>6, <1>7

(* on the operations that callers use, *)
LEMMA SameOperations ==
    ASSUME NEW th
    PROVE  /\ \A e : Buffer!Add(th, e) <=> BP!Add(th, e)
           /\ \A e : Buffer!AddRaises(th, e) <=> BP!AddRaises(th, e)
           /\ Buffer!Flush(th) <=> BP!Flush(th)
           /\ Buffer!FlushRaises(th) <=> BP!FlushRaises(th)
           /\ Buffer!Destroy(th) <=> BP!Destroy(th)
<1>1. ASSUME NEW e PROVE Buffer!AddResults(e) = BP!AddResults(e)
  BY SameUpdates, SameLists DEF Buffer!AddResults, BP!AddResults
<1>2. ASSUME NEW ft, NEW tm PROVE Buffer!ScheduleFlush(ft, tm) <=> BP!ScheduleFlush(ft, tm)
  BY DEF Buffer!ScheduleFlush, BP!ScheduleFlush
<1>3. Buffer!Cancelled = BP!Cancelled
  BY DEF Buffer!Cancelled, BP!Cancelled
<1>4. Buffer!Free(th) <=> BP!Free(th)
  BY DEF Buffer!Free, BP!Free
<1>5. Buffer!TimerRoom <=> BP!TimerRoom
  BY DEF Buffer!TimerRoom, BP!TimerRoom, BP!Cardinality, Buffer!Cardinality, BP!FreeSlots, Buffer!FreeSlots
<1>6. ASSUME NEW e PROVE Buffer!Add(th, e) <=> BP!Add(th, e)
  BY <1>1, <1>2, <1>4 DEF Buffer!Add, BP!Add
<1>7. Buffer!Flush(th) <=> BP!Flush(th)
  BY <1>2, <1>3, <1>4, <1>5, SameUpdates DEF Buffer!Flush, BP!Flush
<1>8. Buffer!Destroy(th) <=> BP!Destroy(th)
  BY <1>3, <1>4, SameLists DEF Buffer!Destroy, BP!Destroy, Buffer!Held, BP!Held
<1>9. ASSUME NEW ft, NEW tm PROVE Buffer!ScheduleRaises(ft, tm) <=> BP!ScheduleRaises(ft, tm)
  BY DEF Buffer!ScheduleRaises, BP!ScheduleRaises
<1>10. ASSUME NEW e PROVE Buffer!AddRaises(th, e) <=> BP!AddRaises(th, e)
  BY <1>1, <1>2, <1>4, <1>9 DEF Buffer!AddRaises, BP!AddRaises
<1>11. Buffer!Held = BP!Held
  BY SameLists DEF Buffer!Held, BP!Held
<1>12. Buffer!FlushRaises(th) <=> BP!FlushRaises(th)
  BY <1>3, <1>4, <1>5, <1>9, <1>11, SameUpdates DEF Buffer!FlushRaises, BP!FlushRaises
<1> QED
  BY <1>6, <1>7, <1>8, <1>10, <1>12

(* on the steps of timers and kicks, *)
LEMMA SameThreadOperations ==
    /\ \A t : Buffer!Expire(t) <=> BP!Expire(t)
    /\ \A t : Buffer!TimerEnter(t) <=> BP!TimerEnter(t)
    /\ \A t : Buffer!TimerLeave(t) <=> BP!TimerLeave(t)
    /\ \A e : Buffer!KickStart(e) <=> BP!KickStart(e)
  BY DEF Buffer!Expire, BP!Expire, Buffer!TimerEnter, BP!TimerEnter,
         Buffer!TimerLeave, BP!TimerLeave, Buffer!KickStart, BP!KickStart

(* and those of the queue on its operations. *)
LEMMA SameQueueOperations ==
    ASSUME NEW k
    PROVE  /\ Queue!Enqueue(k) <=> QP!Enqueue(k)
           /\ Queue!Send(k) <=> QP!Send(k)
           /\ Queue!Measure(k) <=> QP!Measure(k)
           /\ Queue!Settle(k) <=> QP!Settle(k)
           /\ Queue!Leave(k) <=> QP!Leave(k)
<1>1. ASSUME NEW q, NEW used, NEW ph
      PROVE  Queue!ProcessFlushQueue(q, used, ph) <=> QP!ProcessFlushQueue(q, used, ph)
  BY DEF Queue!ProcessFlushQueue, QP!ProcessFlushQueue, Queue!Popped, QP!Popped,
         Queue!Startable, QP!Startable
<1>2. ASSUME NEW from, NEW to
      PROVE  Queue!Advance(k, from, to) <=> QP!Advance(k, from, to)
  BY DEF Queue!Advance, QP!Advance
<1>3. Queue!Enqueue(k) <=> QP!Enqueue(k)
  BY <1>1 DEF Queue!Enqueue, QP!Enqueue
<1>4. Queue!Leave(k) <=> QP!Leave(k)
  BY <1>1 DEF Queue!Leave, QP!Leave
<1>5. Queue!Send(k) <=> QP!Send(k)
  BY <1>2 DEF Queue!Send, QP!Send, Queue!SendOk, QP!SendOk, Queue!SendFail, QP!SendFail
<1>6. (Queue!Measure(k) <=> QP!Measure(k)) /\ (Queue!Settle(k) <=> QP!Settle(k))
  BY <1>2 DEF Queue!Measure, QP!Measure, Queue!Settle, QP!Settle
<1> QED
  BY <1>3, <1>4, <1>5, <1>6

-----------------------------------------------------------------------------
(* What the operations of the parts do, as far as the service can tell.    *)

(* The sets that the buffer's invariant speaks of, as the service names    *)
(* them.                                                                   *)
LEMMA BufferSets ==
    ASSUME BP!BufferInv
    PROVE  /\ Held \cap buf.evicted = {} /\ Held \subseteq offered /\ buf.evicted \subseteq offered
           /\ buf.entries \in Seq(Entries)
           /\ bufferDestroyed \in BOOLEAN /\ lock \in Timers \cup {None}
           /\ kicks \subseteq Entries /\ offered \subseteq Entries /\ discarded \subseteq offered
           /\ strayed \subseteq offered
           /\ flushTimer \in Timers \cup {None, Unstarted}
           /\ timer \in [Timers -> {"free", "armed", "fired", "running"}]
           /\ bufferDestroyed => buf.entries = <<>>
<1>1. /\ BP!Sound(buf) /\ BP!Known(buf) \subseteq offered /\ BP!QuietAfterDestroy
      /\ bufferDestroyed \in BOOLEAN /\ lock \in Timers \cup {None}
      /\ kicks \subseteq Entries /\ offered \subseteq Entries /\ discarded \subseteq offered
      /\ strayed \subseteq offered
      /\ flushTimer \in Timers \cup {None, Unstarted}
      /\ timer \in [Timers -> {"free", "armed", "fired", "running"}]
  BY PartsAssumption, BP!BufferFacts
<1>2. BP!Elements(buf) = Held /\ BP!Known(buf) = Held \cup buf.evicted
  BY SameLists DEF BP!Elements, BP!Known, Held
<1>3. buf.evicted \cap Held = {} /\ buf.entries \in Seq(Entries)
  BY <1>1, <1>2 DEF BP!Sound, BP!BufferType
<1> QED
  BY <1>1, <1>2, <1>3 DEF BP!QuietAfterDestroy

(* add: the new entry is held, evicted or, after destroy, discarded. *)
LEMMA AddEffect ==
    ASSUME BP!BufferInv, NEW th, th \notin Timers, NEW e \in Entries, Buffer!Add(th, e)
    PROVE  /\ BP!BufferInv'
           /\ lock = None /\ lock' = lock /\ bufferDestroyed' = bufferDestroyed
           /\ strayed' = strayed
           /\ e \notin offered /\ offered' = offered \cup {e}
           /\ kicks' \in {kicks, kicks \cup {e}}
           /\ bufferDestroyed => /\ buf' = buf /\ discarded' = discarded \cup {e}
                                 /\ flushTimer' = flushTimer /\ timer' = timer
           /\ ~bufferDestroyed => /\ discarded' = discarded
                                  /\ Held' \cup buf'.evicted = Held \cup buf.evicted \cup {e}
                                  /\ buf.evicted \subseteq buf'.evicted
                                  /\ IF AutoFlush THEN Buffer!ScheduleFlush(flushTimer, timer)
                                     ELSE flushTimer' = flushTimer /\ timer' = timer
<1>1. BP!Add(th, e)
  BY SameOperations
<1>2. /\ BP!BufferInv'
      /\ bufferDestroyed => buf' = buf
      /\ ~bufferDestroyed => /\ BP!Known(buf') = BP!Known(buf) \cup {e}
                             /\ buf.evicted \subseteq buf'.evicted
  BY <1>1, PartsAssumption, BP!AddKeeps
<1>3. /\ BP!Known(buf) = Held \cup buf.evicted
      /\ BP!Known(buf') = Held' \cup buf'.evicted
  BY SameLists DEF BP!Known, BP!Elements, Held
<1>4. lock \in {None, th} /\ lock \in Timers \cup {None}
  BY BufferSets DEF Buffer!Add, Buffer!Free
<1>5. /\ lock' = lock /\ bufferDestroyed' = bufferDestroyed /\ strayed' = strayed
      /\ e \notin offered /\ offered' = offered \cup {e}
  BY DEF Buffer!Add
<1>6. CASE bufferDestroyed
  <2>1. /\ discarded' = discarded \cup {e} /\ flushTimer' = flushTimer
        /\ timer' = timer /\ kicks' = kicks
    BY <1>6 DEF Buffer!Add
  <2> QED
    BY <1>2, <1>4, <1>5, <1>6, <2>1
<1>7. CASE ~bufferDestroyed
  <2>1. /\ discarded' = discarded /\ kicks' \in {kicks, kicks \cup {e}}
        /\ IF AutoFlush THEN Buffer!ScheduleFlush(flushTimer, timer)
           ELSE flushTimer' = flushTimer /\ timer' = timer
    BY <1>7 DEF Buffer!Add
  <2> QED
    BY <1>2, <1>3, <1>4, <1>5, <1>7, <2>1
<1> QED
  BY <1>6, <1>7

(* An add that raises: the entry is held or evicted all the same. *)
LEMMA AddRaisesEffect ==
    ASSUME BP!BufferInv, NEW th, th \notin Timers, NEW e \in Entries, Buffer!AddRaises(th, e)
    PROVE  /\ BP!BufferInv'
           /\ lock = None /\ lock' = lock
           /\ ~bufferDestroyed /\ bufferDestroyed' = bufferDestroyed
           /\ strayed' = strayed /\ discarded' = discarded /\ kicks' = kicks
           /\ e \notin offered /\ offered' = offered \cup {e}
           /\ Held' \cup buf'.evicted = Held \cup buf.evicted \cup {e}
           /\ buf.evicted \subseteq buf'.evicted
           /\ \/ Buffer!ScheduleRaises(flushTimer, timer)
              \/ Buffer!ScheduleFlush(flushTimer, timer)
<1>1. BP!AddRaises(th, e)
  BY SameOperations
<1>2. BP!BufferInv' /\ BP!Known(buf') = BP!Known(buf) \cup {e} /\ buf.evicted \subseteq buf'.evicted
  BY <1>1, PartsAssumption, BP!AddRaisesKeeps
<1>3. /\ BP!Known(buf) = Held \cup buf.evicted
      /\ BP!Known(buf') = Held' \cup buf'.evicted
  BY SameLists DEF BP!Known, BP!Elements, Held
<1>4. lock \in {None, th} /\ lock \in Timers \cup {None}
  BY BufferSets DEF Buffer!AddRaises, Buffer!Free
<1> QED
  BY <1>2, <1>3, <1>4 DEF Buffer!AddRaises

(* flush: the list is handed over, and nothing is lost. *)
LEMMA FlushEffect ==
    ASSUME BP!BufferInv, NEW th, Buffer!Flush(th)
    PROVE  /\ BP!BufferInv'
           /\ buf'.entries = <<>> /\ Held' = {} /\ buf'.evicted = buf.evicted
           /\ bufferDestroyed' = bufferDestroyed /\ lock' = lock /\ kicks' = kicks
           /\ offered' = offered /\ discarded' = discarded /\ strayed' = strayed
<1>1. BP!Flush(th)
  BY SameOperations
<1>2. BP!BufferInv' /\ buf'.entries = <<>> /\ BP!Known(buf') = buf.evicted
  BY <1>1, PartsAssumption, BP!FlushKeeps
<1>3. Held' = {} /\ BP!Known(buf') = Held' \cup buf'.evicted
  BY <1>2, SameLists DEF BP!Known, BP!Elements, Held, Seqs!ToSet
<1> QED
  BY <1>2, <1>3 DEF Buffer!Flush

(* A flush that raises: the list goes astray, and no timer will come.      *)
LEMMA FlushRaisesEffect ==
    ASSUME BP!BufferInv, NEW th, Buffer!FlushRaises(th)
    PROVE  /\ BP!BufferInv'
           /\ buf'.entries = <<>> /\ Held' = {} /\ buf'.evicted = buf.evicted
           /\ bufferDestroyed' = bufferDestroyed /\ lock' = lock /\ kicks' = kicks
           /\ offered' = offered /\ discarded' = discarded /\ strayed' = strayed \cup Held
           /\ AutoFlush /\ StartMayFail
           /\ flushTimer' = Unstarted /\ timer' = Buffer!Cancelled
<1>1. BP!FlushRaises(th)
  BY SameOperations
<1>2. BP!BufferInv' /\ buf'.entries = <<>> /\ BP!Known(buf') = buf.evicted
  BY <1>1, PartsAssumption, BP!FlushRaisesKeeps
<1>3. Held' = {} /\ BP!Known(buf') = Held' \cup buf'.evicted
  BY <1>2, SameLists DEF BP!Known, BP!Elements, Held, Seqs!ToSet
<1> QED
  BY <1>2, <1>3, SameLists DEF Buffer!FlushRaises, Buffer!ScheduleRaises, Buffer!Held, Held

(* destroy: what the list still holds is discarded. *)
LEMMA DestroyEffect ==
    ASSUME BP!BufferInv, NEW th, Buffer!Destroy(th)
    PROVE  /\ BP!BufferInv'
           /\ buf'.entries = <<>> /\ Held' = {} /\ buf'.evicted = buf.evicted
           /\ bufferDestroyed' = TRUE /\ lock' = lock /\ kicks' = kicks
           /\ offered' = offered /\ discarded' = discarded \cup Held /\ strayed' = strayed
<1>1. BP!Destroy(th)
  BY SameOperations
<1>2. BP!BufferInv' /\ buf'.entries = <<>> /\ BP!Known(buf') = buf.evicted
  BY <1>1, PartsAssumption, BP!DestroyKeeps
<1>3. Held' = {} /\ BP!Known(buf') = Held' \cup buf'.evicted
  BY <1>2, SameLists DEF BP!Known, BP!Elements, Held, Seqs!ToSet
<1> QED
  BY <1>2, <1>3, SameLists DEF Buffer!Destroy, Buffer!Held, Held

(* The steps of timers and kicks, and stuttering, leave the list alone. *)
LEMMA ThreadEffect ==
    ASSUME BP!BufferInv,
           \/ \E t \in Timers : Buffer!Expire(t) \/ Buffer!TimerEnter(t) \/ Buffer!TimerLeave(t)
           \/ \E e \in Entries : Buffer!KickStart(e)
           \/ UNCHANGED bufferVars
    PROVE  /\ BP!BufferInv'
           /\ buf' = buf /\ bufferDestroyed' = bufferDestroyed
           /\ offered' = offered /\ discarded' = discarded /\ strayed' = strayed
<1>0. \/ \E t \in Timers : BP!Expire(t) \/ BP!TimerEnter(t) \/ BP!TimerLeave(t)
      \/ \E e \in Entries : BP!KickStart(e)
      \/ UNCHANGED BP!vars
  BY SameThreadOperations DEF bufferVars, BP!vars
<1>1. BP!BufferInv'
  BY <1>0, PartsAssumption, BP!ThreadKeeps
<1>2. /\ buf' = buf /\ bufferDestroyed' = bufferDestroyed
      /\ offered' = offered /\ discarded' = discarded /\ strayed' = strayed
  BY DEF Buffer!Expire, Buffer!TimerEnter, Buffer!TimerLeave, Buffer!KickStart, bufferVars
<1> QED
  BY <1>1, <1>2

(* The pipeline's own invariant survives whatever the service does with    *)
(* it.                                                                     *)
LEMMA QueueKeeps ==
    ASSUME QP!IInv,
           \/ \E k \in Entries : \/ Queue!Enqueue(k) \/ Queue!Send(k) \/ Queue!Measure(k)
                                 \/ Queue!Settle(k) \/ Queue!Leave(k)
           \/ UNCHANGED queueVars
    PROVE  QP!IInv'
<1>1. [QP!Next]_(QP!vars)
  BY SameQueueOperations DEF QP!Next, QP!Worker, queueVars, QP!vars
<1> QED
  BY <1>1, PartsAssumption, TasksFinite, QP!NextInvariant

(* The pipeline's invariant implies its types. *)
LEMMA QueueTypes ==
    ASSUME QP!IInv
    PROVE  Queue!TypeOK
  BY DEF QP!IInv, QP!TypeOK, Queue!TypeOK, QP!Phases, Queue!Phases

(* Tasks that wait may be started; nothing else happens to any. *)
Started(j, ph) == \/ phase'[j] = ph[j]
                  \/ ph[j] = "queued" /\ phase'[j] \in {"sending", "stranded"}

(* _process_flush_queue_locked does no more than start waiting tasks. *)
LEMMA ProcessStarts ==
    ASSUME NEW q \in Seq(Entries), NEW used \in Nat, NEW ph,
           \A i \in DOMAIN q : ph[q[i]] = "queued",
           Queue!ProcessFlushQueue(q, used, ph), NEW j \in Entries
    PROVE  Started(j, ph)
<1>1. Queue!Startable(q, used) \in 0..Len(q)
  <2> DEFINE len == Len(q)
  <2>1. len \in Nat
    OBVIOUS
  <2>2. Queue!Startable(q, used) = IF used >= MaxConcurrentFlushes THEN 0
            ELSE IF len <= MaxConcurrentFlushes - used THEN len
            ELSE MaxConcurrentFlushes - used
    BY DEF Queue!Startable
  <2> HIDE DEF len
  <2>3. Queue!Startable(q, used) \in 0..len
    BY <2>1, <2>2, PartsAssumption
  <2> QED
    BY <2>3 DEF len
<1>2. PICK n \in 0..Len(q), r \in Int : r <= n /\ Queue!Popped(q, used, ph, n, r)
  <2>1. CASE \E m \in 1..Queue!Startable(q, used) : Queue!Popped(q, used, ph, m, m - 1)
    BY <1>1, <2>1
  <2>2. CASE Queue!Popped(q, used, ph, Queue!Startable(q, used), Queue!Startable(q, used))
    BY <1>1, <2>2
  <2> QED
    BY <2>1, <2>2 DEF Queue!ProcessFlushQueue
<1>3. phase'[j] = IF \E i \in 1..r : q[i] = j THEN "sending"
                  ELSE IF \E i \in 1..n : q[i] = j THEN "stranded" ELSE ph[j]
  BY <1>2 DEF Queue!Popped
<1>4. 1..r \subseteq DOMAIN q /\ 1..n \subseteq DOMAIN q
  BY <1>2
<1>5. (\E i \in 1..r : q[i] = j) \/ (\E i \in 1..n : q[i] = j) => ph[j] = "queued"
  BY <1>4
<1> QED
  BY <1>3, <1>5 DEF Started

(* _enqueue_flush: a new task waits or starts; others may start too. *)
LEMMA EnqueueEffect ==
    ASSUME QP!IInv, NEW k \in Entries, Queue!Enqueue(k)
    PROVE  /\ phase[k] = "new" /\ phase'[k] \in {"queued", "sending", "stranded"}
           /\ failed' = failed
           /\ \A j \in Entries \ {k} : Started(j, phase)
<1> DEFINE q == Append(flushQueue, k)
           ph == [phase EXCEPT ![k] = "queued"]
<1>1. /\ flushQueue \in Seq(Entries) /\ inFlight \in Nat /\ phase \in [Entries -> QP!Phases]
      /\ \A i \in DOMAIN flushQueue : phase[flushQueue[i]] = "queued"
  <2>1. /\ flushQueue \in Seq(Entries) /\ inFlight \in Nat /\ phase \in [Entries -> QP!Phases]
        /\ \A e \in Entries : phase[e] = "queued" <=> \E i \in DOMAIN flushQueue : flushQueue[i] = e
    BY DEF QP!IInv, QP!TypeOK, QP!QueueHoldsWaitingTasks
  <2> QED
    BY <2>1
<1>2. /\ phase[k] = "new" /\ failed' = failed
      /\ Queue!ProcessFlushQueue(q, inFlight, ph)
  BY DEF Queue!Enqueue
<1>3. q \in Seq(Entries) /\ \A i \in DOMAIN q : ph[q[i]] = "queued"
  <2>1. /\ q \in Seq(Entries) /\ DOMAIN q = 1..Len(flushQueue) + 1
        /\ q[Len(flushQueue) + 1] = k /\ Len(flushQueue) \in Nat
        /\ \A i \in 1..Len(flushQueue) : q[i] = flushQueue[i] /\ i \in DOMAIN flushQueue
    BY <1>1
  <2>2. ASSUME NEW i \in DOMAIN q
        PROVE  q[i] = k \/ (phase[q[i]] = "queued" /\ q[i] \in Entries)
    BY <1>1, <2>1
  <2> HIDE DEF q
  <2> QED
    BY <1>1, <2>1, <2>2
<1>4. ASSUME NEW j \in Entries PROVE Started(j, ph)
  <2> HIDE DEF q, ph
  <2> QED
    BY <1>1, <1>2, <1>3, ProcessStarts
<1>5. ph[k] = "queued" /\ \A j \in Entries \ {k} : ph[j] = phase[j]
  BY <1>1
<1> HIDE DEF ph, q
<1> QED
  BY <1>2, <1>4, <1>5 DEF Started

(* The end of a worker: its task is done; others may start. *)
LEMMA LeaveEffect ==
    ASSUME QP!IInv, NEW k \in Entries, Queue!Leave(k)
    PROVE  /\ phase[k] = "leaving" /\ phase'[k] = "done"
           /\ failed' = failed
           /\ \A j \in Entries \ {k} : Started(j, phase)
<1> DEFINE used == IF inFlight > 0 THEN inFlight - 1 ELSE 0
           ph == [phase EXCEPT ![k] = "done"]
<1>1. /\ flushQueue \in Seq(Entries) /\ inFlight \in Nat /\ phase \in [Entries -> QP!Phases]
      /\ \A i \in DOMAIN flushQueue : phase[flushQueue[i]] = "queued"
  <2>1. /\ flushQueue \in Seq(Entries) /\ inFlight \in Nat /\ phase \in [Entries -> QP!Phases]
        /\ \A e \in Entries : phase[e] = "queued" <=> \E i \in DOMAIN flushQueue : flushQueue[i] = e
    BY DEF QP!IInv, QP!TypeOK, QP!QueueHoldsWaitingTasks
  <2> QED
    BY <2>1
<1>2. /\ phase[k] = "leaving" /\ failed' = failed
      /\ Queue!ProcessFlushQueue(flushQueue, used, ph)
  BY DEF Queue!Leave
<1>3. \A i \in DOMAIN flushQueue : ph[flushQueue[i]] = "queued"
  BY <1>1, <1>2
<1>4. used \in Nat
  BY <1>1
<1>5. ASSUME NEW j \in Entries PROVE Started(j, ph)
  <2> HIDE DEF used, ph
  <2> QED
    BY <1>1, <1>2, <1>3, <1>4, ProcessStarts
<1>6. ph[k] = "done" /\ \A j \in Entries \ {k} : ph[j] = phase[j]
  BY <1>1
<1> HIDE DEF ph
<1> QED
  BY <1>2, <1>5, <1>6 DEF Started

-----------------------------------------------------------------------------
(* The inductive invariant.                                                *)

Steps == {"idle", "add", "measure", "check", "size", "drain", "enqueue", "event",
          "wait", "mark", "close_buffer", "close_transport"}

(* The service's own types. *)
ServiceTyped ==
    /\ pc \in [Threads -> Steps]
    /\ hand \in [Threads -> Seq(Entries)]
    /\ batch \in [Entries -> SUBSET Entries]
    /\ destroyed \in BOOLEAN /\ transportClosed \in BOOLEAN
    /\ destroyers \subseteq Callers
    /\ refused \subseteq Entries /\ early \subseteq offered
    /\ seen \in [Threads -> SUBSET offered]

(* A flush that has looked at the buffer, or drained it. *)
Flushed == {"enqueue", "event", "wait"}
Flushing == {"check", "size", "drain"}

(* The threads that may call log. *)
Loggers == Callers \cup Workers

(* What a thread that is at its step can rely on. *)
ThreadRight(th) ==
    /\ pc[th] \in {"add", "enqueue", "event"} => hand[th] # <<>>
    /\ pc[th] = "add" => Head(hand[th]) \notin refused
    /\ pc[th] \in {"mark", "close_buffer", "close_transport"} => th \in Callers
    /\ pc[th] \in {"add", "measure"} => th \in Loggers
    /\ pc[th] \in {"close_buffer", "close_transport"} => th \in destroyers
    /\ th \in destroyers =>
          /\ destroyed
          /\ pc[th] \in {"size", "drain", "close_buffer", "close_transport"} \cup Flushed
    /\ pc[th] \in Flushed => seen[th] \cap Held = {}
    /\ th \in destroyers /\ pc[th] \notin Flushing => early \cap Held = {}

ThreadsRight == \A th \in Threads : ThreadRight(th)

(* The thread of an immediate flush belongs to an entry that was added. *)
KicksRight ==
    \A e \in Entries : /\ e \in kicks => e \in offered /\ pc[e] = "idle"
                       /\ pc[e] # "idle" => e \in offered

(* A timer thread runs exactly while it has the lock.  It leaves an empty  *)
(* buffer, or one that another timer will come for.                        *)
TimersRight ==
    /\ \A t \in Timers : /\ timer[t] = "running" <=> lock = t
                         /\ pc[t] # "idle" => lock = t
                         /\ flushTimer = t => timer[t] \in {"armed", "fired"}
    /\ AutoFlush /\ ~destroyed /\ lock # None =>
          pc[lock] \in Flushing \/ flushTimer # None \/ buf.entries = <<>>
    /\ ~destroyed => Buffer!PendingFlush
    /\ bufferDestroyed => destroyed

(* A task has a batch once it is enqueued, an error once it was sent. *)
TasksRight ==
    \A k \in Entries : /\ phase[k] = "new" => batch[k] = {}
                       /\ k \in failed => phase[k] \in {"settling", "leaving", "done"}

Lost == buf.evicted \cup discarded \cup strayed

(* No entry is lost in two ways, *)
LostOnce ==
    buf.evicted \cap discarded = {} /\ (buf.evicted \cup discarded) \cap strayed = {}

(* none is in two places, *)
Separate ==
    /\ Held \cap Lost = {} /\ LostOnce
    /\ \A th \in Threads : InTransit(th) \cap (Held \cup Lost) = {}
    /\ \A k \in Entries : batch[k] \cap (Held \cup Lost) = {}
    /\ \A th \in Threads, k \in Entries : InTransit(th) \cap batch[k] = {}
    /\ \A th, x \in Threads : th # x => InTransit(th) \cap InTransit(x) = {}
    /\ \A k, j \in Entries : k # j => batch[k] \cap batch[j] = {}

(* and every entry that was added is in one. *)
Covered ==
    /\ \A e \in offered : \/ e \in Held \cup Lost
                          \/ \E th \in Threads : e \in InTransit(th)
                          \/ \E k \in Entries : e \in batch[k]
    /\ \A th \in Threads : InTransit(th) \subseteq offered
    /\ \A k \in Entries : batch[k] \subseteq offered

(* The inductive invariant. *)
IInv ==
    /\ BP!BufferInv
    /\ QP!IInv
    /\ ServiceTyped
    /\ ThreadsRight
    /\ KicksRight
    /\ TimersRight
    /\ TasksRight
    /\ refused \cap offered = {}
    /\ Separate
    /\ Covered

-----------------------------------------------------------------------------
(* What steps leave as it is.                                              *)

(* Facts that most steps need. *)
LEMMA Facts ==
    ASSUME IInv
    PROVE  /\ ServiceTyped /\ \A x \in Threads : ThreadRight(x)
           /\ Held \subseteq offered /\ offered \subseteq Entries
           /\ Callers \subseteq Threads /\ Timers \subseteq Threads /\ Entries \subseteq Threads
           /\ Loggers \subseteq Threads
  BY BufferSets DEF IInv, ThreadsRight, Threads, Loggers

(* They are threads of their own. *)
LEMMA LoggersApart == Loggers \cap (Timers \cup Entries) = {}
  BY ThreadsAssumption, WorkersAssumption DEF Loggers, Workers

(* A thread that a step does not touch stays right, if the buffer only     *)
(* loses.                                                                  *)
LEMMA OthersStayRight ==
    ASSUME ServiceTyped, NEW x \in Threads, ThreadRight(x),
           pc'[x] = pc[x], hand'[x] = hand[x], seen'[x] = seen[x],
           x \in destroyers' <=> x \in destroyers,
           destroyed => destroyed' /\ early' = early,
           Held' \cap offered \subseteq Held,
           pc[x] = "add" => Head(hand[x]) \notin refused'
    PROVE  ThreadRight(x)'
<1>1. seen[x] \subseteq offered /\ early \subseteq offered
  BY DEF ServiceTyped
<1> QED
  BY <1>1 DEF ThreadRight

(* The kicks stay right when a thread goes on inside its call. *)
LEMMA KicksStayRight ==
    ASSUME KicksRight, ServiceTyped, NEW th \in Threads, NEW step,
           pc' = [pc EXCEPT ![th] = step],
           pc[th] # "idle" \/ th \in Loggers,
           kicks' = kicks, offered \subseteq offered'
    PROVE  KicksRight'
  BY LoggersApart DEF KicksRight, Threads, ServiceTyped

(* Nobody drains when neither the old nor the new step is enqueue. *)
LEMMA TransitStays ==
    ASSUME ServiceTyped, NEW th \in Threads, NEW step,
           pc' = [pc EXCEPT ![th] = step], pc[th] # "enqueue", step # "enqueue",
           \A x \in Threads \ {th} : hand'[x] = hand[x], NEW x \in Threads
    PROVE  InTransit(x)' = InTransit(x)
  BY DEF InTransit, ServiceTyped

(* No entry moves when neither lists nor hands nor tasks change. *)
LEMMA PlacesStay ==
    ASSUME Separate, Covered, UNCHANGED <<buf, discarded, strayed, offered, batch>>,
           \A x \in Threads : InTransit(x)' = InTransit(x)
    PROVE  (Separate /\ Covered)'
  BY DEF Separate, Covered, Held, Lost, LostOnce

(* Thread th goes to step and leaves the buffer and other threads alone. *)
Moves(th, step) ==
    /\ UNCHANGED <<bufferVars, refused>>
    /\ Goto(th, step)
    /\ \A x \in Threads \ {th} : /\ hand'[x] = hand[x] /\ seen'[x] = seen[x]
                                 /\ (x \in destroyers' <=> x \in destroyers)
    /\ destroyed => destroyed' /\ early' = early
    /\ pc[th] # "idle" \/ th \in Loggers
    /\ th \in Timers /\ pc[th] \in Flushing
          => step \in Flushing \/ destroyed' \/ buf.entries = <<>>

(* A step that leaves the buffer alone keeps all but types, tasks and      *)
(* places.                                                                 *)
LEMMA MoveKeeps ==
    ASSUME IInv, NEW th \in Threads, NEW step, Moves(th, step), ThreadRight(th)'
    PROVE  /\ BP!BufferInv' /\ ThreadsRight' /\ KicksRight' /\ TimersRight'
           /\ (refused \cap offered = {})'
<1>0. /\ pc' = [pc EXCEPT ![th] = step]
      /\ \A x \in Threads \ {th} : /\ hand'[x] = hand[x] /\ seen'[x] = seen[x]
                                   /\ (x \in destroyers' <=> x \in destroyers)
      /\ destroyed => destroyed' /\ early' = early
      /\ refused' = refused
      /\ pc[th] # "idle" \/ th \in Loggers
      /\ th \in Timers /\ pc[th] \in Flushing
            => step \in Flushing \/ destroyed' \/ buf.entries = <<>>
  BY DEF Moves, Goto
<1>1. /\ buf' = buf /\ bufferDestroyed' = bufferDestroyed /\ flushTimer' = flushTimer
      /\ timer' = timer /\ lock' = lock /\ kicks' = kicks /\ offered' = offered
  BY DEF Moves, bufferVars
<1>2. /\ ServiceTyped /\ ThreadsRight /\ KicksRight /\ TimersRight
      /\ refused \cap offered = {}
  BY DEF IInv
<1>3. BP!BufferInv'
  BY ThreadEffect DEF IInv, Moves
<1>4. ThreadsRight'
  <2>1. ASSUME NEW x \in Threads \ {th} PROVE ThreadRight(x)'
    <3>1. pc'[x] = pc[x] /\ Held' = Held
      BY <1>0, <1>1, <1>2 DEF ServiceTyped, Held
    <3>2. ThreadRight(x)
      BY <1>2 DEF ThreadsRight
    <3>3. pc[x] = "add" => Head(hand[x]) \notin refused'
      BY <1>0, <3>2 DEF ThreadRight
    <3>4. /\ hand'[x] = hand[x] /\ seen'[x] = seen[x]
          /\ (x \in destroyers' <=> x \in destroyers)
          /\ destroyed => destroyed' /\ early' = early
      BY <1>0
    <3>5. Held' \cap offered \subseteq Held
      BY <3>1
    <3> QED
      BY <1>2, <3>1, <3>2, <3>3, <3>4, <3>5, OthersStayRight
  <2> QED
    BY <2>1 DEF ThreadsRight
<1>5. KicksRight'
  BY <1>0, <1>1, <1>2, KicksStayRight
<1>6. TimersRight'
  <2>1. pc \in [Threads -> Steps] /\ Timers \subseteq Threads /\ destroyed \in BOOLEAN
        /\ lock \in Timers \cup {None}
    BY <1>2, BufferSets DEF ServiceTyped, Threads, IInv
  <2>5. th \in Timers => pc[th] # "idle"
    BY <1>0, LoggersApart
  <2>2. \A t \in Timers : pc'[t] # "idle" => lock' = t
    BY <1>0, <1>1, <1>2, <2>1, <2>5 DEF TimersRight
  <2>3. AutoFlush /\ ~destroyed' /\ lock' # None =>
          pc'[lock'] \in Flushing \/ flushTimer' # None \/ buf'.entries = <<>>
    <3> SUFFICES ASSUME AutoFlush, ~destroyed', lock # None, flushTimer = None,
                        buf.entries # <<>>
                 PROVE  pc'[lock] \in Flushing
      BY <1>0, <1>1
    <3>1. lock \in Timers /\ pc[lock] \in Flushing
      BY <1>0, <1>2, <2>1 DEF TimersRight
    <3> QED
      BY <1>0, <2>1, <3>1
  <2>4. /\ ~destroyed' => Buffer!PendingFlush'
        /\ bufferDestroyed' => destroyed'
    BY <1>0, <1>1, <1>2 DEF TimersRight, Buffer!PendingFlush, Buffer!TimerLost
  <2> QED
    BY <1>1, <1>2, <2>2, <2>3, <2>4 DEF TimersRight
<1>7. (refused \cap offered = {})'
  BY <1>0, <1>1, <1>2
<1> QED
  BY <1>3, <1>4, <1>5, <1>6, <1>7

(* Such a step that touches the pipeline no more than the buffer. *)
LEMMA LocalStep ==
    ASSUME IInv, NEW th \in Threads, NEW step, Moves(th, step),
           UNCHANGED <<queueVars, batch>>, pc[th] # "enqueue", step # "enqueue",
           ServiceTyped', ThreadRight(th)'
    PROVE  IInv'
<1>1. QP!IInv'
  BY QueueKeeps DEF IInv
<1>2. TasksRight'
  <2>1. phase' = phase /\ failed' = failed /\ batch' = batch
    BY DEF queueVars
  <2> QED
    BY <2>1 DEF IInv, TasksRight
<1>3. (Separate /\ Covered)'
  <2>1. \A x \in Threads : InTransit(x)' = InTransit(x)
    BY Facts, TransitStays DEF Moves, Goto
  <2>2. UNCHANGED <<buf, discarded, strayed, offered, batch>>
    BY DEF Moves, bufferVars
  <2> QED
    BY <2>1, <2>2, PlacesStay DEF IInv
<1>4. /\ BP!BufferInv' /\ ThreadsRight' /\ KicksRight' /\ TimersRight'
      /\ (refused \cap offered = {})'
  BY MoveKeeps
<1> QED
  BY <1>1, <1>2, <1>3, <1>4 DEF IInv

-----------------------------------------------------------------------------
(* The steps of log, flush and destroy.                                    *)

(* log, up to the call of add. *)
LEMMA LogKeeps ==
    ASSUME IInv, NEW c \in Loggers, NEW e \in Entries, Log(c, e)
    PROVE  IInv'
<1>0. c \in Threads /\ c \notin Timers
  BY Facts, LoggersApart
<1>1. /\ pc[c] = "idle" /\ e \notin offered \cup refused \cup Handed
      /\ UNCHANGED <<bufferVars, queueVars, batch, destroyed, destroyers,
                     transportClosed, early, seen>>
  BY DEF Log
<1>2. CASE /\ refused' = refused \cup {e}
           /\ UNCHANGED <<pc, hand>>
  <2>1. ServiceTyped'
    BY <1>1, <1>2, Facts DEF ServiceTyped, bufferVars
  <2>2. /\ buf' = buf /\ bufferDestroyed' = bufferDestroyed /\ flushTimer' = flushTimer
        /\ timer' = timer /\ lock' = lock /\ kicks' = kicks /\ offered' = offered
        /\ discarded' = discarded /\ strayed' = strayed
        /\ phase' = phase /\ failed' = failed /\ batch' = batch
        /\ pc' = pc /\ hand' = hand /\ destroyed' = destroyed /\ destroyers' = destroyers
        /\ early' = early /\ seen' = seen
    BY <1>1, <1>2 DEF bufferVars, queueVars
  <2>3. ThreadsRight'
    <3>1. ASSUME NEW x \in Threads PROVE ThreadRight(x)'
      <4>1. pc[x] = "add" => hand[x] # <<>> /\ Head(hand[x]) \notin refused
        BY Facts DEF ThreadRight
      <4>2. pc[x] = "add" => Head(hand[x]) # e
        <5>1. hand[x] \in Seq(Entries) /\ Seqs!ToSet(hand[x]) \subseteq Handed
          BY Facts DEF ServiceTyped, Handed
        <5>2. hand[x] # <<>> => Head(hand[x]) \in Seqs!ToSet(hand[x])
          BY <5>1 DEF Seqs!ToSet
        <5> QED
          BY <1>1, <4>1, <5>1, <5>2
      <4>3. Held' = Held
        BY <2>2 DEF Held
      <4> QED
        BY <1>2, <2>2, <4>1, <4>2, <4>3, Facts, OthersStayRight
    <3> QED
      BY <3>1 DEF ThreadsRight
  <2>4. BP!BufferInv' /\ QP!IInv'
    BY <1>1, ThreadEffect, QueueKeeps DEF IInv
  <2>5. KicksRight' /\ TasksRight'
    BY <2>2 DEF IInv, KicksRight, TasksRight
  <2>6. TimersRight'
    BY <2>2 DEF IInv, TimersRight, Buffer!PendingFlush, Buffer!TimerLost
  <2>7. (refused \cap offered = {})'
    BY <1>1, <1>2, <2>2 DEF IInv
  <2>8. (Separate /\ Covered)'
    <3>1. \A x \in Threads : InTransit(x)' = InTransit(x)
      BY <2>2 DEF InTransit
    <3> QED
      BY <2>2, <3>1, PlacesStay DEF IInv
  <2> QED
    BY <2>1, <2>3, <2>4, <2>5, <2>6, <2>7, <2>8 DEF IInv
<1>3. CASE /\ ~destroyed
           /\ Goto(c, "add")
           /\ hand' = [hand EXCEPT ![c] = <<e>>]
           /\ UNCHANGED refused
  <2>1. /\ pc' = [pc EXCEPT ![c] = "add"] /\ hand' = [hand EXCEPT ![c] = <<e>>]
        /\ c \in Threads
    BY <1>0, <1>3 DEF Goto
  <2>2. ServiceTyped'
    <3>1. <<e>> \in Seq(Entries) /\ "add" \in Steps
      BY DEF Steps
    <3> QED
      BY <1>1, <1>3, <2>1, <3>1, Facts DEF ServiceTyped, bufferVars
  <2>3. ThreadRight(c)'
    <3>1. pc'[c] = "add" /\ hand'[c] = <<e>>
      BY <2>1, Facts DEF ServiceTyped
    <3>2. c \notin destroyers
      BY <1>1, <2>1, Facts DEF ThreadRight, Flushed
    <3>3. <<e>> # <<>> /\ Head(<<e>>) = e
      OBVIOUS
    <3> QED
      BY <1>0, <1>1, <1>3, <3>1, <3>2, <3>3 DEF ThreadRight, Flushed
  <2>4. Moves(c, "add")
    BY <1>0, <1>1, <1>3, <2>1, Facts DEF ServiceTyped, Moves, Flushing
  <2> QED
    BY <1>1, <2>1, <2>2, <2>3, <2>4, LocalStep
<1> QED
  BY <1>2, <1>3 DEF Log

(* The read-outs, and _update_metrics. *)
LEMMA ReadOutKeeps ==
    ASSUME IInv, NEW th \in Threads,
           UpdateMetrics(th) \/ (th \in Callers /\ CallReadOut(th))
    PROVE  IInv'
<1> DEFINE step == IF pc[th] = "measure" THEN "idle" ELSE "measure"
<1>1. /\ pc' = [pc EXCEPT ![th] = step] /\ pc[th] \in {"idle", "measure"}
      /\ pc[th] = "idle" => th \in Callers
      /\ UNCHANGED <<bufferVars, queueVars, hand, batch, callVars>>
  BY DEF UpdateMetrics, CallReadOut, Goto
<1>2. /\ hand' = hand /\ batch' = batch /\ destroyed' = destroyed /\ destroyers' = destroyers
      /\ refused' = refused /\ early' = early /\ seen' = seen
      /\ transportClosed' = transportClosed /\ offered' = offered
  BY <1>1 DEF callVars, bufferVars
<1>3. step \in {"idle", "measure"} /\ step # "enqueue" /\ pc[th] \notin Flushing
  BY <1>1 DEF Flushing
<1>4. pc[th] = "idle" \/ step = "measure" => th \in Loggers
  BY <1>1, Facts DEF Loggers
<1> HIDE DEF step
<1>5. ServiceTyped'
  BY <1>1, <1>2, <1>3, Facts DEF ServiceTyped, Steps
<1>6. ThreadRight(th)'
  <2>1. pc'[th] = step /\ th \notin destroyers
    BY <1>1, Facts DEF ServiceTyped, ThreadRight, Flushed
  <2> QED
    BY <1>2, <1>3, <1>4, <2>1 DEF ThreadRight, Flushed
<1>7. Moves(th, step)
  BY <1>1, <1>2, <1>3, <1>4 DEF Moves, Goto
<1> QED
  BY <1>1, <1>3, <1>5, <1>6, <1>7, LocalStep

(* A call begins: the entries offered so far are those it answers for. *)
LEMMA BeginKeeps ==
    ASSUME IInv, NEW c \in Callers, CallFlush(c) \/ CallDestroy(c)
    PROVE  IInv'
<1>0. PICK step \in {"check", "mark"} :
         /\ pc' = [pc EXCEPT ![c] = step]
         /\ pc[c] = "idle" /\ seen' = [seen EXCEPT ![c] = offered]
         /\ UNCHANGED <<bufferVars, queueVars, hand, batch, destroyed, destroyers,
                        refused, transportClosed, early>>
  BY DEF CallFlush, CallDestroy, Goto
<1>1. /\ hand' = hand /\ batch' = batch /\ destroyed' = destroyed /\ destroyers' = destroyers
      /\ refused' = refused /\ early' = early /\ transportClosed' = transportClosed
      /\ offered' = offered
  BY <1>0 DEF bufferVars
<1>2. c \in Threads /\ c \notin Timers /\ c \in Loggers
  BY Facts, LoggersApart DEF Loggers
<1>3. ServiceTyped'
  BY <1>0, <1>1, <1>2, Facts DEF ServiceTyped, Steps
<1>4. ThreadRight(c)'
  <2>1. pc'[c] = step /\ c \notin destroyers
    BY <1>0, <1>2, Facts DEF ServiceTyped, ThreadRight, Flushed
  <2> QED
    BY <1>1, <1>2, <2>1 DEF ThreadRight, Flushed
<1>5. \A x \in Threads \ {c} : /\ hand'[x] = hand[x] /\ seen'[x] = seen[x]
                               /\ (x \in destroyers' <=> x \in destroyers)
  BY <1>0, <1>1, Facts DEF ServiceTyped
<1>6. Moves(c, step)
  BY <1>0, <1>1, <1>2, <1>5 DEF Moves, Goto
<1> QED
  BY <1>0, <1>2, <1>3, <1>4, <1>6, LocalStep

(* A thread goes on inside its call. *)
LEMMA GoOn ==
    ASSUME IInv, NEW th \in Threads, NEW step \in Steps,
           Goto(th, step), UNCHANGED <<bufferVars, queueVars, batch, refused>>,
           pc[th] \notin {"idle", "enqueue"}, step # "enqueue",
           destroyed' \in BOOLEAN, transportClosed' \in BOOLEAN,
           destroyed => destroyed' /\ early' = early, early' \subseteq offered,
           hand' \in {hand, [hand EXCEPT ![th] = <<>>]},
           seen' \in {seen, [seen EXCEPT ![th] = {}]},
           destroyers' \subseteq Callers,
           \A x \in Threads \ {th} : x \in destroyers' <=> x \in destroyers,
           ThreadRight(th)',
           th \in Timers /\ pc[th] \in Flushing
             => step \in Flushing \/ destroyed' \/ buf.entries = <<>>
    PROVE  IInv'
<1>1. offered' = offered /\ batch' = batch /\ refused' = refused
  BY DEF bufferVars
<1>2. /\ hand' \in [Threads -> Seq(Entries)]
      /\ \A x \in Threads \ {th} : hand'[x] = hand[x]
  <2>1. hand \in [Threads -> Seq(Entries)] /\ <<>> \in Seq(Entries)
    BY Facts DEF ServiceTyped
  <2> QED
    BY <2>1
<1>3. /\ seen' \in [Threads -> SUBSET offered]
      /\ \A x \in Threads \ {th} : seen'[x] = seen[x]
  BY Facts DEF ServiceTyped
<1>4. ServiceTyped'
  BY <1>1, <1>2, <1>3, Facts DEF ServiceTyped, Goto
<1>5. \A x \in Threads \ {th} : /\ hand'[x] = hand[x] /\ seen'[x] = seen[x]
                                /\ (x \in destroyers' <=> x \in destroyers)
  BY <1>2, <1>3
<1>6. Moves(th, step)
  BY <1>5 DEF Moves
<1> QED
  BY <1>4, <1>6, LocalStep

(* A thread that is back from its call has no obligations. *)
LEMMA ReturnedRight ==
    ASSUME IInv, NEW th \in Threads, Return(th)
    PROVE  /\ ThreadRight(th)' /\ Goto(th, "idle")
           /\ hand' = [hand EXCEPT ![th] = <<>>] /\ seen' = [seen EXCEPT ![th] = {}]
           /\ destroyers' = destroyers \ {th} /\ destroyers' \subseteq Callers
<1>1. /\ pc' = [pc EXCEPT ![th] = "idle"] /\ destroyers' = destroyers \ {th}
      /\ pc \in [Threads -> Steps] /\ destroyers \subseteq Callers
  BY Facts DEF Return, Goto, ServiceTyped
<1>2. pc'[th] = "idle" /\ th \notin destroyers'
  BY <1>1
<1> QED
  BY <1>1, <1>2 DEF ThreadRight, Return, Flushed

(* flush looks at _destroyed. *)
LEMMA CheckKeeps ==
    ASSUME IInv, NEW th \in Threads, Check(th)
    PROVE  IInv'
<1>1. /\ pc[th] = "check" /\ UNCHANGED <<bufferVars, queueVars, batch, destroyed, refused,
                                         transportClosed, early>>
  BY DEF Check
<1>2. /\ destroyed' = destroyed /\ early' = early /\ transportClosed' = transportClosed
      /\ early \subseteq offered /\ destroyed \in BOOLEAN /\ transportClosed \in BOOLEAN
      /\ destroyers \subseteq Callers /\ refused' = refused
  BY <1>1, Facts DEF ServiceTyped
<1>3. CASE destroyed
  <2>1. Return(th)
    BY <1>3 DEF Check
  <2> QED
    BY <1>1, <1>2, <1>3, <2>1, ReturnedRight, GoOn DEF Steps
<1>4. CASE ~destroyed
  <2>1. Goto(th, "size") /\ hand' = hand /\ seen' = seen /\ destroyers' = destroyers
    BY <1>4 DEF Check
  <2>2. ThreadRight(th)'
    <3>1. pc'[th] = "size" /\ th \notin destroyers
      BY <1>4, <2>1, Facts DEF ThreadRight, ServiceTyped, Goto
    <3> QED
      BY <2>1, <3>1 DEF ThreadRight, Flushed
  <2> QED
    BY <1>1, <1>2, <2>1, <2>2, GoOn DEF Steps, Flushing
<1> QED
  BY <1>3, <1>4

(* flush and destroy look at the size: an empty buffer is as good as       *)
(* drained.                                                                *)
LEMMA SizeKeeps ==
    ASSUME IInv, NEW th \in Threads, Size(th)
    PROVE  IInv'
<1> DEFINE step == IF buf.entries = <<>> THEN "wait" ELSE "drain"
<1>1. /\ pc[th] = "size" /\ Goto(th, step)
      /\ UNCHANGED <<bufferVars, queueVars, hand, batch, callVars>>
  BY DEF Size
<1>2. /\ hand' = hand /\ destroyed' = destroyed /\ destroyers' = destroyers
      /\ refused' = refused /\ early' = early /\ seen' = seen
      /\ transportClosed' = transportClosed /\ buf' = buf
      /\ early \subseteq offered /\ destroyed \in BOOLEAN /\ transportClosed \in BOOLEAN
      /\ destroyers \subseteq Callers
  BY <1>1, Facts DEF callVars, bufferVars, ServiceTyped
<1>3. ThreadRight(th)'
  <2>1. /\ pc'[th] = step /\ step \in {"wait", "drain"}
        /\ th \in destroyers => destroyed
    BY <1>1, Facts DEF ServiceTyped, Goto, ThreadRight
  <2>2. step = "wait" => Held' = {}
    BY <1>2 DEF Held, Seqs!ToSet
  <2> HIDE DEF step
  <2> QED
    BY <1>2, <2>1, <2>2 DEF ThreadRight, Flushed, Flushing
<1> QED
  BY <1>1, <1>2, <1>3, GoOn DEF Steps, Flushing

(* An exception leaves destroy where it was, on the way to its finally. *)
LEMMA RaisedRight ==
    ASSUME IInv, NEW th \in Threads, pc[th] \in {"drain", "enqueue", "event"}, Raise(th),
           UNCHANGED <<destroyed, early>>, Held' = IF pc[th] = "drain" THEN {} ELSE Held
    PROVE  /\ ThreadRight(th)' /\ \E step \in {"idle", "close_buffer"} : Goto(th, step)
           /\ hand' = [hand EXCEPT ![th] = <<>>]
           /\ seen' \in {seen, [seen EXCEPT ![th] = {}]}
           /\ destroyers' \subseteq Callers
           /\ \A x \in Threads \ {th} : x \in destroyers' <=> x \in destroyers
<1>1. CASE th \in destroyers
  <2>1. /\ Goto(th, "close_buffer") /\ hand' = [hand EXCEPT ![th] = <<>>]
        /\ seen' = seen /\ destroyers' = destroyers
    BY <1>1 DEF Raise
  <2>2. pc'[th] = "close_buffer" /\ destroyers \subseteq Callers
    BY <2>1, Facts DEF Goto, ServiceTyped
  <2>3. /\ destroyed
        /\ pc[th] \in {"enqueue", "event"} => early \cap Held = {}
    BY <1>1, Facts DEF ThreadRight, Flushing
  <2>4. destroyed' = destroyed /\ early' = early /\ early' \cap Held' = {}
    BY <2>3
  <2>5. ThreadRight(th)'
    BY <1>1, <2>1, <2>2, <2>3, <2>4 DEF ThreadRight, Flushed
  <2> QED
    BY <2>1, <2>2, <2>5
<1>2. CASE th \notin destroyers
  <2>1. Return(th)
    BY <1>2 DEF Raise
  <2> QED
    BY <2>1, ReturnedRight
<1> QED
  BY <1>1, <1>2

(* The event of the task is set, with or without an error. *)
LEMMA AwaitEventKeeps ==
    ASSUME IInv, NEW th \in Threads, AwaitEvent(th)
    PROVE  IInv'
<1>1. /\ pc[th] = "event" /\ UNCHANGED <<bufferVars, queueVars, batch, destroyed, refused,
                                         transportClosed, early>>
  BY DEF AwaitEvent
<1>2. /\ destroyed' = destroyed /\ early' = early /\ transportClosed' = transportClosed
      /\ early \subseteq offered /\ destroyed \in BOOLEAN /\ transportClosed \in BOOLEAN
      /\ destroyers \subseteq Callers
      /\ UNCHANGED <<destroyed, early>>
      /\ UNCHANGED <<bufferVars, queueVars, batch, refused>>
      /\ Held' = Held
  BY <1>1, Facts DEF ServiceTyped, ThreadRight, Held, bufferVars
<1>3. CASE Raise(th)
  <2>1. /\ ThreadRight(th)' /\ hand' \in {hand, [hand EXCEPT ![th] = <<>>]}
        /\ seen' \in {seen, [seen EXCEPT ![th] = {}]} /\ destroyers' \subseteq Callers
        /\ \A x \in Threads \ {th} : x \in destroyers' <=> x \in destroyers
        /\ \E step \in {"idle", "close_buffer"} : Goto(th, step)
    BY <1>1, <1>2, <1>3, RaisedRight
  <2>2. PICK step \in {"idle", "close_buffer"} : Goto(th, step)
    BY <2>1
  <2> QED
    BY <1>1, <1>2, <2>1, <2>2, GoOn DEF Steps, Flushing
<1>4. CASE /\ Goto(th, "wait") /\ hand' = [hand EXCEPT ![th] = <<>>]
           /\ UNCHANGED <<seen, destroyers>>
  <2>1. /\ pc'[th] = "wait"
        /\ th \in destroyers => destroyed
        /\ seen[th] \cap Held = {}
        /\ th \in destroyers => early \cap Held = {}
    BY <1>1, <1>4, Facts DEF ServiceTyped, Goto, ThreadRight, Flushed, Flushing
  <2>3. ThreadRight(th)'
    BY <1>2, <1>4, <2>1 DEF ThreadRight, Flushed
  <2>4. /\ hand' \in {hand, [hand EXCEPT ![th] = <<>>]} /\ seen' = seen
        /\ destroyers' = destroyers /\ Goto(th, "wait")
    BY <1>4
  <2> QED
    BY <1>1, <1>2, <2>3, <2>4, GoOn DEF Steps, Flushing
<1> QED
  BY <1>3, <1>4 DEF AwaitEvent

(* _wait_for_queue_idle returns. *)
LEMMA WaitKeeps ==
    ASSUME IInv, NEW th \in Threads, WaitForQueueIdle(th)
    PROVE  IInv'
<1>1. /\ pc[th] = "wait" /\ UNCHANGED <<bufferVars, queueVars, batch, destroyed, refused,
                                        transportClosed, early>>
  BY DEF WaitForQueueIdle
<1>2. /\ destroyed' = destroyed /\ early' = early /\ transportClosed' = transportClosed
      /\ early \subseteq offered /\ destroyed \in BOOLEAN /\ transportClosed \in BOOLEAN
      /\ destroyers \subseteq Callers
      /\ UNCHANGED <<bufferVars, queueVars, batch, refused>>
  BY <1>1, Facts DEF ServiceTyped
<1>3. CASE th \in destroyers
  <2>1. Goto(th, "close_buffer") /\ hand' = hand /\ seen' = seen /\ destroyers' = destroyers
    BY <1>3 DEF WaitForQueueIdle
  <2>2. /\ pc'[th] = "close_buffer" /\ destroyed /\ early \cap Held = {}
    BY <1>1, <1>3, <2>1, Facts DEF ServiceTyped, Goto, ThreadRight, Flushing
  <2>3. Held' = Held
    BY <1>1, Facts DEF Held, bufferVars, ThreadRight
  <2>4. ThreadRight(th)'
    BY <1>2, <1>3, <2>1, <2>2, <2>3 DEF ThreadRight, Flushed
  <2> QED
    BY <1>1, <1>2, <2>1, <2>4, GoOn DEF Steps, Flushing
<1>4. CASE th \notin destroyers
  <2>1. Return(th)
    BY <1>4 DEF WaitForQueueIdle
  <2> QED
    BY <1>1, <1>2, <2>1, ReturnedRight, GoOn DEF Steps, Flushing
<1> QED
  BY <1>3, <1>4

(* destroy sets _destroyed; the entries offered so far become the early    *)
(* ones.                                                                   *)
LEMMA MarkKeeps ==
    ASSUME IInv, NEW th \in Threads, MarkDestroyed(th)
    PROVE  IInv'
<1>1. /\ pc[th] = "mark" /\ destroyed' = TRUE /\ destroyers' = destroyers \cup {th}
      /\ early' = IF destroyed THEN early ELSE offered
      /\ Goto(th, "size")
      /\ UNCHANGED <<bufferVars, queueVars, batch, refused>>
      /\ hand' = hand /\ transportClosed' = transportClosed /\ seen' = seen
  BY DEF MarkDestroyed
<1>2. /\ th \in Callers /\ destroyers \subseteq Callers /\ transportClosed \in BOOLEAN
      /\ early \subseteq offered /\ th \notin Timers
  BY <1>1, Facts, ThreadsAssumption DEF ThreadRight, ServiceTyped
<1>3. ThreadRight(th)'
  <2>1. pc'[th] = "size"
    BY <1>1, Facts DEF Goto, ServiceTyped
  <2> QED
    BY <1>1, <1>2, <2>1 DEF ThreadRight, Flushed, Flushing
<1>4. /\ destroyed => destroyed' /\ early' = early
      /\ early' \subseteq offered /\ destroyers' \subseteq Callers
      /\ \A x \in Threads \ {th} : x \in destroyers' <=> x \in destroyers
  BY <1>1, <1>2
<1> QED
  BY <1>1, <1>2, <1>3, <1>4, GoOn DEF Steps, Flushing

(* The end of destroy. *)
LEMMA CloseTransportKeeps ==
    ASSUME IInv, NEW th \in Threads, CloseTransport(th)
    PROVE  IInv'
<1>1. /\ pc[th] = "close_transport" /\ transportClosed' = TRUE /\ Return(th)
      /\ destroyed' = destroyed /\ early' = early
      /\ UNCHANGED <<bufferVars, queueVars, batch, refused>>
  BY DEF CloseTransport
<1>2. destroyed \in BOOLEAN /\ early \subseteq offered
  BY Facts DEF ServiceTyped
<1> QED
  BY <1>1, <1>2, ReturnedRight, GoOn DEF Steps, Flushing

(* A drained batch becomes a task: it changes hands, and nothing is lost. *)
LEMMA EnqueueKeeps ==
    ASSUME IInv, NEW th \in Threads, EnqueueFlush(th)
    PROVE  IInv'
<1> DEFINE k == Head(hand[th])
           drained == Seqs!ToSet(hand[th])
<1>1. /\ pc[th] = "enqueue" /\ Queue!Enqueue(k)
      /\ batch' = [batch EXCEPT ![k] = drained]
      /\ IF phase'[k] = "stranded" THEN Raise(th)
         ELSE Goto(th, "event") /\ UNCHANGED <<hand, seen, destroyers>>
      /\ UNCHANGED <<bufferVars, destroyed, refused, transportClosed, early>>
  BY DEF EnqueueFlush
<1>2. hand[th] \in Seq(Entries) /\ hand[th] # <<>> /\ k \in Entries
  BY <1>1, Facts DEF ServiceTyped, ThreadRight
<1>3. InTransit(th) = drained /\ drained \in SUBSET Entries
  BY <1>1, <1>2 DEF InTransit, Seqs!ToSet
<1>4. /\ phase[k] = "new" /\ phase'[k] \in {"queued", "sending", "stranded"}
      /\ failed' = failed /\ \A j \in Entries \ {k} : Started(j, phase)
  BY <1>1, <1>2, EnqueueEffect DEF IInv
<1> HIDE DEF k, drained
<1>5. /\ destroyed' = destroyed /\ early' = early /\ transportClosed' = transportClosed
      /\ refused' = refused /\ offered' = offered /\ discarded' = discarded
      /\ strayed' = strayed /\ buf' = buf /\ Held' = Held
  BY <1>1 DEF bufferVars, Held
<1>6. /\ hand' \in {hand, [hand EXCEPT ![th] = <<>>]}
      /\ seen' \in {seen, [seen EXCEPT ![th] = {}]}
      /\ destroyers' \subseteq Callers
      /\ \A x \in Threads \ {th} : x \in destroyers' <=> x \in destroyers
      /\ ThreadRight(th)'
      /\ \E step \in {"event", "idle", "close_buffer"} : Goto(th, step)
  <2>1. CASE Raise(th)
    BY <1>1, <1>5, <2>1, RaisedRight
  <2>2. CASE Goto(th, "event") /\ UNCHANGED <<hand, seen, destroyers>>
    <3>1. /\ pc'[th] = "event" /\ destroyers \subseteq Callers
          /\ th \in destroyers => destroyed
          /\ seen[th] \cap Held = {}
          /\ th \in destroyers => early \cap Held = {}
      BY <1>1, <2>2, Facts DEF ServiceTyped, Goto, ThreadRight, Flushed, Flushing
    <3>3. ThreadRight(th)'
      BY <1>2, <1>5, <2>2, <3>1 DEF ThreadRight, Flushed
    <3> QED
      BY <2>2, <3>1, <3>3
  <2> QED
    BY <1>1, <2>1, <2>2
<1>7. PICK step \in {"event", "idle", "close_buffer"} : Goto(th, step)
  BY <1>6
<1>8. /\ hand' \in [Threads -> Seq(Entries)] /\ seen' \in [Threads -> SUBSET offered]
      /\ \A x \in Threads \ {th} : hand'[x] = hand[x]
      /\ \A x \in Threads \ {th} : seen'[x] = seen[x]
  <2>1. /\ hand \in [Threads -> Seq(Entries)] /\ <<>> \in Seq(Entries)
        /\ seen \in [Threads -> SUBSET offered]
    BY Facts DEF ServiceTyped
  <2> QED
    BY <1>6, <2>1
<1>9. ServiceTyped'
  <2>1. batch' \in [Entries -> SUBSET Entries]
    BY <1>1, <1>2, <1>3, Facts DEF ServiceTyped
  <2>2. pc' \in [Threads -> Steps]
    BY <1>7, Facts DEF ServiceTyped, Goto, Steps
  <2> QED
    BY <1>5, <1>6, <1>8, <2>1, <2>2, Facts DEF ServiceTyped
<1>10. /\ BP!BufferInv' /\ ThreadsRight' /\ KicksRight' /\ TimersRight'
       /\ (refused \cap offered = {})'
  <2>1. UNCHANGED <<bufferVars, refused>>
    BY <1>1
  <2>2. Moves(th, step)
    BY <1>1, <1>5, <1>6, <1>7, <1>8, <2>1 DEF Moves, Flushing
  <2> QED
    BY <1>6, <2>2, MoveKeeps
<1>11. QP!IInv'
  BY <1>1, <1>2, QueueKeeps DEF IInv
<1>12. TasksRight'
  <2>1. TasksRight /\ batch \in [Entries -> SUBSET Entries]
    BY Facts DEF IInv, ServiceTyped
  <2>2. k \notin failed
    BY <1>2, <1>4, <2>1 DEF TasksRight
  <2> QED
    BY <1>1, <1>2, <1>4, <2>1, <2>2 DEF TasksRight, Started
<1>13. (Separate /\ Covered)'
  <2>1. /\ Held' = Held /\ Lost' = Lost
    BY <1>5 DEF Held, Lost
  <2>2. InTransit(th)' = {} /\ \A x \in Threads \ {th} : InTransit(x)' = InTransit(x)
    BY <1>7, <1>8, Facts DEF InTransit, Goto, ServiceTyped
  <2>3. /\ batch[k] = {} /\ batch'[k] = InTransit(th)
        /\ \A j \in Entries \ {k} : batch'[j] = batch[j]
    BY <1>1, <1>2, <1>3, <1>4, Facts DEF IInv, TasksRight, ServiceTyped
  <2>4. Separate /\ Covered
    BY DEF IInv
  <2>5. Separate'
    BY <1>2, <1>5, <2>1, <2>2, <2>3, <2>4 DEF Separate, LostOnce
  <2>6. Covered'
    <3>1. ASSUME NEW e \in offered
          PROVE  \/ e \in Held \cup Lost
                 \/ \E x \in Threads : e \in InTransit(x)'
                 \/ \E j \in Entries : e \in batch'[j]
      BY <1>2, <2>2, <2>3, <2>4 DEF Covered
    <3>2. /\ \A x \in Threads : InTransit(x)' \subseteq offered
          /\ \A j \in Entries : batch'[j] \subseteq offered
      BY <1>2, <2>2, <2>3, <2>4 DEF Covered
    <3> QED
      BY <1>5, <2>1, <3>1, <3>2 DEF Covered
  <2> QED
    BY <2>5, <2>6
<1> QED
  BY <1>9, <1>10, <1>11, <1>12, <1>13 DEF IInv

-----------------------------------------------------------------------------
(* The steps that change the buffer.                                       *)

TimerStates == {"free", "armed", "fired", "running"}

(* The thread that runs is the one with the lock, the timer that the       *)
(* buffer knows has not come in yet.                                       *)
ClockRight(ft, tm) ==
    /\ ft \in Timers \cup {None, Unstarted} /\ tm \in [Timers -> TimerStates]
    /\ \A t \in Timers : /\ tm[t] = "running" <=> lock = t
                         /\ ft = t => tm[t] \in {"armed", "fired"}

(* The invariant has the timers right, before and after the known one is   *)
(* cancelled.                                                              *)
LEMMA ClockFacts ==
    ASSUME IInv
    PROVE  /\ ClockRight(flushTimer, timer) /\ ClockRight(None, Buffer!Cancelled)
           /\ lock \in Timers \cup {None} /\ None \notin Timers
<1>1. /\ flushTimer \in Timers \cup {None, Unstarted} /\ timer \in [Timers -> TimerStates]
      /\ lock \in Timers \cup {None} /\ None \notin Timers /\ TimersRight
  BY BufferSets, PartsAssumption DEF IInv, TimerStates
<1>2. ClockRight(flushTimer, timer)
  BY <1>1 DEF TimersRight, ClockRight
<1>3. ClockRight(None, Buffer!Cancelled)
  BY <1>1 DEF TimersRight, ClockRight, Buffer!Cancelled, TimerStates
<1> QED
  BY <1>1, <1>2, <1>3

(* _schedule_flush keeps the timers right, and _flush_timer is set         *)
(* afterwards, if only to a timer that did not start.                      *)
LEMMA ScheduleRight ==
    ASSUME NEW ft, NEW tm, ClockRight(ft, tm),
           Buffer!ScheduleFlush(ft, tm) \/ Buffer!ScheduleRaises(ft, tm),
           UNCHANGED lock, None \notin Timers
    PROVE  ClockRight(flushTimer, timer)' /\ flushTimer' # None
<1>3. CASE Buffer!ScheduleRaises(ft, tm)
  BY <1>3, PartsAssumption DEF Buffer!ScheduleRaises, ClockRight
<1>1. CASE Buffer!ScheduleFlush(ft, tm) /\ ft # None
  BY <1>1 DEF Buffer!ScheduleFlush, ClockRight
<1>2. CASE Buffer!ScheduleFlush(ft, tm) /\ ft = None
  <2>1. PICK t \in Timers : /\ tm[t] = "free" /\ flushTimer' = t
                            /\ timer' = [tm EXCEPT ![t] = "armed"]
    BY <1>2 DEF Buffer!ScheduleFlush
  <2> QED
    BY <2>1 DEF ClockRight, TimerStates
<1> QED
  BY <1>1, <1>2, <1>3

(* What the service asks of the timers follows when they are right.        *)
LEMMA TimersFollow ==
    ASSUME ClockRight(flushTimer, timer)', lock' \in Timers \cup {None},
           \A t \in Timers : pc'[t] # "idle" => lock' = t,
           ~destroyed' => \/ ~AutoFlush \/ flushTimer' # None \/ buf'.entries = <<>>
                          \/ lock' \in Timers /\ pc'[lock'] \in Flushing,
           bufferDestroyed' => destroyed'
    PROVE  TimersRight'
<1>1. ~destroyed' => Buffer!PendingFlush'
  <2> SUFFICES ASSUME ~destroyed', AutoFlush, buf'.entries # <<>>
               PROVE  (\E t \in Timers : timer'[t] # "free") \/ flushTimer' = Unstarted
    BY DEF Buffer!PendingFlush, Buffer!TimerLost
  <2>1. CASE flushTimer' # None
    BY <2>1 DEF ClockRight
  <2>2. CASE lock' \in Timers
    BY <2>2 DEF ClockRight
  <2> QED
    BY <2>1, <2>2
<1> QED
  BY <1>1 DEF TimersRight, ClockRight

(* flush of the buffer: the entries move from the list into a hand. *)
Drained(th) ==
    /\ Buffer!Flush(th)
    /\ hand' = [hand EXCEPT ![th] = buf.entries]
    /\ Goto(th, IF buf.entries = <<>> THEN "wait" ELSE "enqueue")
    /\ UNCHANGED <<seen, destroyers>>

LEMMA DrainedKeeps ==
    ASSUME IInv, NEW th \in Threads, Drain(th), Drained(th)
    PROVE  IInv'
<1>1. /\ pc[th] = "drain" /\ Buffer!Flush(th)
      /\ hand' = [hand EXCEPT ![th] = buf.entries]
      /\ Goto(th, IF buf.entries = <<>> THEN "wait" ELSE "enqueue")
      /\ UNCHANGED <<queueVars, batch, callVars>>
  BY DEF Drain, Drained, callVars
<1>2. /\ BP!BufferInv' /\ buf'.entries = <<>> /\ Held' = {} /\ buf'.evicted = buf.evicted
      /\ bufferDestroyed' = bufferDestroyed /\ lock' = lock /\ kicks' = kicks
      /\ offered' = offered /\ discarded' = discarded /\ strayed' = strayed
  BY <1>1, FlushEffect DEF IInv
<1>3. /\ destroyed' = destroyed /\ destroyers' = destroyers /\ refused' = refused
      /\ transportClosed' = transportClosed /\ early' = early /\ seen' = seen
      /\ batch' = batch /\ phase' = phase /\ failed' = failed
  BY <1>1 DEF callVars, queueVars
<1> DEFINE step == IF buf.entries = <<>> THEN "wait" ELSE "enqueue"
<1>4. /\ pc' = [pc EXCEPT ![th] = step] /\ step \in {"wait", "enqueue"}
      /\ step = "wait" => buf.entries = <<>>
      /\ step = "enqueue" => buf.entries # <<>>
  BY <1>1 DEF Goto
<1> HIDE DEF step
<1>5. buf.entries \in Seq(Entries) /\ Held \subseteq offered
  BY BufferSets DEF IInv
<1>6. ServiceTyped'
  BY <1>1, <1>2, <1>3, <1>4, <1>5, Facts DEF ServiceTyped, Steps
<1>7. ThreadsRight'
  <2>1. ThreadRight(th)'
    <3>1. pc'[th] = step /\ hand'[th] = buf.entries
      BY <1>1, <1>4, Facts DEF ServiceTyped
    <3>2. th \in destroyers => destroyed
      BY <1>1, Facts DEF ThreadRight
    <3> QED
      BY <1>2, <1>3, <1>4, <3>1, <3>2 DEF ThreadRight, Flushed, Flushing
  <2>2. ASSUME NEW x \in Threads \ {th} PROVE ThreadRight(x)'
    <3>1. pc'[x] = pc[x] /\ hand'[x] = hand[x] /\ ServiceTyped /\ ThreadRight(x)
      BY <1>1, <1>4, Facts DEF ServiceTyped
    <3>2. pc[x] = "add" => Head(hand[x]) \notin refused'
      BY <1>3, <3>1 DEF ThreadRight
    <3> QED
      BY <1>2, <1>3, <3>1, <3>2, OthersStayRight
  <2> QED
    BY <2>1, <2>2 DEF ThreadsRight
<1>8. KicksRight'
  BY <1>1, <1>2, <1>4, Facts, KicksStayRight DEF IInv
<1>9. TimersRight'
  <2>1. ClockRight(flushTimer, timer)'
    <3>1. CASE AutoFlush /\ ~bufferDestroyed
      <4>1. Buffer!ScheduleFlush(None, Buffer!Cancelled)
        BY <1>1, <3>1 DEF Buffer!Flush
      <4> QED
        BY <1>2, <4>1, ClockFacts, ScheduleRight
    <3>2. CASE ~(AutoFlush /\ ~bufferDestroyed)
      <4>1. flushTimer' = None /\ timer' = Buffer!Cancelled
        BY <1>1, <3>2 DEF Buffer!Flush
      <4> QED
        BY <1>2, <4>1, ClockFacts DEF ClockRight
    <3> QED
      BY <3>1, <3>2
  <2>2. \A t \in Timers : pc'[t] # "idle" => lock' = t
    BY <1>1, <1>2, <1>4, Facts DEF IInv, TimersRight, ServiceTyped
  <2>3. bufferDestroyed' => destroyed'
    BY <1>2, <1>3 DEF IInv, TimersRight
  <2>4. /\ lock' \in Timers \cup {None}
        /\ ~destroyed' => \/ ~AutoFlush \/ flushTimer' # None \/ buf'.entries = <<>>
                          \/ lock' \in Timers /\ pc'[lock'] \in Flushing
    BY <1>2, ClockFacts
  <2> QED
    BY <2>1, <2>2, <2>3, <2>4, TimersFollow
<1>10. QP!IInv' /\ TasksRight'
  BY <1>1, <1>3, QueueKeeps DEF IInv, TasksRight
<1>11. (refused \cap offered = {})'
  BY <1>2, <1>3 DEF IInv
<1>12. (Separate /\ Covered)'
  <2>1. /\ InTransit(th)' = Held /\ InTransit(th) = {}
        /\ \A x \in Threads \ {th} : InTransit(x)' = InTransit(x)
    <3>1. pc'[th] = step /\ hand'[th] = buf.entries
      BY <1>1, <1>4, Facts DEF ServiceTyped
    <3>2. step = "wait" => Held = {}
      BY <1>4 DEF Held, Seqs!ToSet
    <3> QED
      BY <1>1, <1>4, <3>1, <3>2, Facts DEF InTransit, Held, ServiceTyped
  <2>2. Lost' = Lost
    BY <1>2 DEF Lost
  <2>3. Separate /\ Covered
    BY DEF IInv
  <2>4. Separate'
    <3>1. /\ Held' \cap Lost' = {} /\ LostOnce'
          /\ \A x \in Threads : InTransit(x)' \cap (Held' \cup Lost') = {}
      BY <1>2, <2>1, <2>2, <2>3 DEF Separate, LostOnce
    <3>2. /\ \A j \in Entries : batch'[j] \cap (Held' \cup Lost') = {}
          /\ \A j, l \in Entries : j # l => batch'[j] \cap batch'[l] = {}
      BY <1>2, <1>3, <2>2, <2>3 DEF Separate
    <3>3. \A x \in Threads, j \in Entries : InTransit(x)' \cap batch'[j] = {}
      BY <1>3, <2>1, <2>3 DEF Separate
    <3>4. \A x, y \in Threads : x # y => InTransit(x)' \cap InTransit(y)' = {}
      BY <2>1, <2>3 DEF Separate
    <3> QED
      BY <3>1, <3>2, <3>3, <3>4 DEF Separate
  <2>5. Covered'
    BY <1>2, <1>3, <1>5, <2>1, <2>2, <2>3 DEF Covered
  <2> QED
    BY <2>4, <2>5
<1> QED
  BY <1>2, <1>6, <1>7, <1>8, <1>9, <1>10, <1>11, <1>12 DEF IInv

(* A flush of the buffer that raises: the entries go astray. *)
LEMMA StrayedKeeps ==
    ASSUME IInv, NEW th \in Threads, Drain(th), Buffer!FlushRaises(th), Raise(th)
    PROVE  IInv'
<1>1. /\ pc[th] = "drain" /\ UNCHANGED <<queueVars, batch, destroyed, refused,
                                         transportClosed, early>>
  BY DEF Drain
<1>2. /\ BP!BufferInv' /\ buf'.entries = <<>> /\ Held' = {} /\ buf'.evicted = buf.evicted
      /\ bufferDestroyed' = bufferDestroyed /\ lock' = lock /\ kicks' = kicks
      /\ offered' = offered /\ discarded' = discarded /\ strayed' = strayed \cup Held
  BY FlushRaisesEffect DEF IInv
<1>3. /\ destroyed' = destroyed /\ refused' = refused
      /\ transportClosed' = transportClosed /\ early' = early
      /\ batch' = batch /\ phase' = phase /\ failed' = failed
  BY <1>1 DEF queueVars
<1>4. /\ ThreadRight(th)' /\ \E step \in {"idle", "close_buffer"} : Goto(th, step)
      /\ hand' = [hand EXCEPT ![th] = <<>>]
      /\ seen' \in {seen, [seen EXCEPT ![th] = {}]}
      /\ destroyers' \subseteq Callers
      /\ \A x \in Threads \ {th} : x \in destroyers' <=> x \in destroyers
  BY <1>1, <1>2, RaisedRight
<1>5. PICK step \in {"idle", "close_buffer"} : pc' = [pc EXCEPT ![th] = step]
  BY <1>4 DEF Goto
<1>6. /\ hand' \in [Threads -> Seq(Entries)] /\ seen' \in [Threads -> SUBSET offered]
      /\ \A x \in Threads \ {th} : hand'[x] = hand[x]
      /\ \A x \in Threads \ {th} : seen'[x] = seen[x]
  <2>1. /\ hand \in [Threads -> Seq(Entries)] /\ <<>> \in Seq(Entries)
        /\ seen \in [Threads -> SUBSET offered]
    BY Facts DEF ServiceTyped
  <2> QED
    BY <1>4, <2>1
<1>7. ServiceTyped'
  <2>1. pc' \in [Threads -> Steps]
    BY <1>5, Facts DEF ServiceTyped, Steps
  <2> QED
    BY <1>2, <1>3, <1>4, <1>6, <2>1, Facts DEF ServiceTyped
<1>8. ThreadsRight'
  <2>1. ASSUME NEW x \in Threads \ {th} PROVE ThreadRight(x)'
    <3>1. pc'[x] = pc[x] /\ hand'[x] = hand[x] /\ ServiceTyped /\ ThreadRight(x)
      BY <1>5, <1>6, Facts DEF ServiceTyped
    <3>2. pc[x] = "add" => Head(hand[x]) \notin refused'
      BY <1>3, <3>1 DEF ThreadRight
    <3> QED
      BY <1>2, <1>3, <1>4, <1>6, <3>1, <3>2, OthersStayRight
  <2> QED
    BY <1>4, <2>1 DEF ThreadsRight
<1>9. KicksRight'
  BY <1>1, <1>2, <1>5, Facts, KicksStayRight DEF IInv
<1>10. TimersRight'
  <2>1. ClockRight(flushTimer, timer)' /\ flushTimer' # None
    <3>1. Buffer!ScheduleRaises(None, Buffer!Cancelled)
      BY DEF Buffer!FlushRaises
    <3> QED
      BY <1>2, <3>1, ClockFacts, ScheduleRight
  <2>2. \A t \in Timers : pc'[t] # "idle" => lock' = t
    BY <1>1, <1>2, <1>5, Facts DEF IInv, TimersRight, ServiceTyped
  <2>3. bufferDestroyed' => destroyed'
    BY <1>2, <1>3 DEF IInv, TimersRight
  <2> QED
    BY <1>2, <2>1, <2>2, <2>3, ClockFacts, TimersFollow
<1>11. QP!IInv' /\ TasksRight'
  BY <1>1, <1>3, QueueKeeps DEF IInv, TasksRight
<1>12. (refused \cap offered = {})'
  BY <1>2, <1>3 DEF IInv
<1>13. (Separate /\ Covered)'
  <2>1. \A x \in Threads : InTransit(x)' = InTransit(x)
    BY <1>1, <1>5, <1>6, Facts, TransitStays
  <2>2. Lost' = Lost \cup Held
    BY <1>2 DEF Lost
  <2>3. Separate /\ Covered
    BY DEF IInv
  <2>4. Separate'
    <3>1. Held' \cap Lost' = {} /\ LostOnce'
      BY <1>2, <2>3 DEF Separate, LostOnce, Lost
    <3>2. /\ \A x \in Threads : InTransit(x)' \cap (Held' \cup Lost') = {}
          /\ \A j \in Entries : batch'[j] \cap (Held' \cup Lost') = {}
      BY <1>2, <1>3, <2>1, <2>2, <2>3 DEF Separate
    <3> QED
      BY <1>3, <2>1, <2>3, <3>1, <3>2 DEF Separate
  <2>5. Covered'
    BY <1>2, <1>3, <2>1, <2>2, <2>3 DEF Covered
  <2> QED
    BY <2>4, <2>5
<1> QED
  BY <1>2, <1>7, <1>8, <1>9, <1>10, <1>11, <1>12, <1>13 DEF IInv

(* Both ways to leave the flush of the buffer. *)
LEMMA DrainKeeps ==
    ASSUME IInv, NEW th \in Threads, Drain(th)
    PROVE  IInv'
  BY DrainedKeeps, StrayedKeeps DEF Drain, Drained

(* destroy of the buffer: no early entry is left in it to be discarded. *)
LEMMA CloseBufferKeeps ==
    ASSUME IInv, NEW th \in Threads, CloseBuffer(th)
    PROVE  IInv'
<1>1. /\ pc[th] = "close_buffer" /\ Buffer!Destroy(th)
      /\ pc' = [pc EXCEPT ![th] = "close_transport"]
      /\ UNCHANGED <<queueVars, hand, batch, callVars>>
  BY DEF CloseBuffer, Goto
<1>2. /\ BP!BufferInv' /\ buf'.entries = <<>> /\ Held' = {} /\ buf'.evicted = buf.evicted
      /\ bufferDestroyed' = TRUE /\ lock' = lock /\ kicks' = kicks
      /\ offered' = offered /\ discarded' = discarded \cup Held /\ strayed' = strayed
  BY <1>1, DestroyEffect DEF IInv
<1>3. /\ destroyed' = destroyed /\ destroyers' = destroyers /\ refused' = refused
      /\ transportClosed' = transportClosed /\ early' = early /\ seen' = seen
      /\ batch' = batch /\ phase' = phase /\ failed' = failed /\ hand' = hand
  BY <1>1 DEF callVars, queueVars
<1>4. th \in destroyers /\ destroyed /\ th \in Callers
  BY <1>1, Facts DEF ThreadRight
<1>5. ServiceTyped'
  BY <1>1, <1>2, <1>3, Facts DEF ServiceTyped, Steps
<1>6. ThreadsRight'
  <2>1. ThreadRight(th)'
    <3>1. pc'[th] = "close_transport"
      BY <1>1, Facts DEF ServiceTyped
    <3> QED
      BY <1>2, <1>3, <1>4, <3>1 DEF ThreadRight, Flushed, Flushing
  <2>2. ASSUME NEW x \in Threads \ {th} PROVE ThreadRight(x)'
    <3>1. pc'[x] = pc[x] /\ ServiceTyped /\ ThreadRight(x)
      BY <1>1, Facts DEF ServiceTyped
    <3>2. pc[x] = "add" => Head(hand[x]) \notin refused'
      BY <1>3, <3>1 DEF ThreadRight
    <3> QED
      BY <1>2, <1>3, <3>1, <3>2, OthersStayRight
  <2> QED
    BY <2>1, <2>2 DEF ThreadsRight
<1>7. KicksRight'
  BY <1>1, <1>2, Facts, KicksStayRight DEF IInv
<1>8. TimersRight'
  <2>1. ClockRight(flushTimer, timer)'
    <3>1. flushTimer' = None /\ timer' = Buffer!Cancelled
      BY <1>1 DEF Buffer!Destroy
    <3> QED
      BY <1>2, <3>1, ClockFacts DEF ClockRight
  <2>2. \A t \in Timers : pc'[t] # "idle" => lock' = t
    BY <1>1, <1>2, Facts DEF IInv, TimersRight, ServiceTyped
  <2> QED
    BY <1>2, <1>3, <1>4, <2>1, <2>2, ClockFacts, TimersFollow
<1>9. QP!IInv' /\ TasksRight'
  BY <1>1, <1>3, QueueKeeps DEF IInv, TasksRight
<1>10. (refused \cap offered = {})'
  BY <1>2, <1>3 DEF IInv
<1>11. (Separate /\ Covered)'
  <2>1. \A x \in Threads : InTransit(x)' = InTransit(x)
    BY <1>1, <1>3, Facts, TransitStays
  <2>2. Lost' = Lost \cup Held
    BY <1>2 DEF Lost
  <2>3. Separate /\ Covered
    BY DEF IInv
  <2>4. Separate'
    BY <1>2, <1>3, <2>1, <2>2, <2>3 DEF Separate, Lost, LostOnce
  <2>5. Covered'
    BY <1>2, <1>3, <2>1, <2>2, <2>3 DEF Covered
  <2> QED
    BY <2>4, <2>5
<1> QED
  BY <1>2, <1>5, <1>6, <1>7, <1>8, <1>9, <1>10, <1>11 DEF IInv

(* A new entry comes in; what it pushes out was in the buffer. *)
LEMMA AddKeeps ==
    ASSUME IInv, NEW th \in Threads, AddEntry(th)
    PROVE  IInv'
<1> DEFINE e == Head(hand[th])
<1>1. /\ pc[th] = "add"
      /\ Buffer!Add(th, e) \/ Buffer!AddRaises(th, e)
      /\ hand' = [hand EXCEPT ![th] = <<>>]
      /\ UNCHANGED <<queueVars, batch, callVars>>
  BY DEF AddEntry
<1>4. PICK step \in {"measure", "idle"} : pc' = [pc EXCEPT ![th] = step]
  BY DEF AddEntry, Goto
<1>2. th \in Loggers /\ th \notin Timers /\ th \notin Entries
  BY <1>1, Facts, LoggersApart DEF ThreadRight
<1>3. e \in Entries /\ e \notin refused
  BY <1>1, Facts DEF ThreadRight, ServiceTyped
<1> HIDE DEF e
<1>5. /\ BP!BufferInv'
      /\ lock = None /\ lock' = lock /\ bufferDestroyed' = bufferDestroyed
      /\ e \notin offered /\ offered' = offered \cup {e} /\ strayed' = strayed
      /\ kicks' \in {kicks, kicks \cup {e}}
  BY <1>1, <1>2, <1>3, AddEffect, AddRaisesEffect DEF IInv
<1>6. /\ bufferDestroyed => /\ buf' = buf /\ discarded' = discarded \cup {e}
                            /\ flushTimer' = flushTimer /\ timer' = timer
      /\ ~bufferDestroyed => /\ discarded' = discarded
                             /\ Held' \cup buf'.evicted = Held \cup buf.evicted \cup {e}
                             /\ buf.evicted \subseteq buf'.evicted
                             /\ \/ Buffer!ScheduleFlush(flushTimer, timer)
                                \/ Buffer!ScheduleRaises(flushTimer, timer)
                                \/ ~AutoFlush /\ flushTimer' = flushTimer /\ timer' = timer
  <2>1. CASE Buffer!Add(th, e)
    BY <1>2, <1>3, <2>1, AddEffect DEF IInv
  <2>2. CASE Buffer!AddRaises(th, e)
    BY <1>2, <1>3, <2>2, AddRaisesEffect DEF IInv
  <2> QED
    BY <1>1, <2>1, <2>2
<1>7. /\ destroyed' = destroyed /\ destroyers' = destroyers /\ refused' = refused
      /\ transportClosed' = transportClosed /\ early' = early /\ seen' = seen
      /\ batch' = batch /\ phase' = phase /\ failed' = failed
  BY <1>1 DEF callVars, queueVars
<1>8. /\ Held \cap buf.evicted = {} /\ Held \subseteq offered /\ buf.evicted \subseteq offered
      /\ discarded \subseteq offered /\ strayed \subseteq offered
      /\ bufferDestroyed => Held = {}
      /\ Separate /\ Covered
  BY BufferSets DEF IInv, Held, Seqs!ToSet
<1>9. /\ Held' \cap buf'.evicted = {} /\ Held' \subseteq Held \cup {e}
      /\ buf.evicted \subseteq buf'.evicted /\ discarded \subseteq discarded'
      /\ Held' \cup Lost' = Held \cup Lost \cup {e}
      /\ Held' \cap Lost' = {} /\ LostOnce'
  <2>1. Held' \cap buf'.evicted = {}
    <3>1. BP!Sound(buf)'
      BY <1>5 DEF BP!BufferInv
    <3>2. buf'.evicted \cap BP!Elements(buf)' = {} /\ BP!Elements(buf)' = Held'
      BY <3>1, SameLists DEF BP!Sound, BP!Elements, Held
    <3> QED
      BY <3>2
  <2>2. CASE bufferDestroyed
    <3>1. Held' = Held /\ buf' = buf /\ discarded' = discarded \cup {e}
      BY <1>6, <2>2 DEF Held
    <3> QED
      BY <1>5, <1>8, <3>1 DEF Lost, Separate, LostOnce
  <2>3. CASE ~bufferDestroyed
    <3>1. /\ discarded' = discarded /\ buf.evicted \subseteq buf'.evicted
          /\ Held' \cup buf'.evicted = Held \cup buf.evicted \cup {e}
      BY <1>6, <2>3
    <3>2. /\ discarded \cap strayed = {}
          /\ (Held \cup buf.evicted \cup {e}) \cap (discarded \cup strayed) = {}
      <4>1. /\ Held \cap (buf.evicted \cup discarded \cup strayed) = {}
            /\ buf.evicted \cap discarded = {}
            /\ (buf.evicted \cup discarded) \cap strayed = {}
        BY <1>8 DEF Lost, Separate, LostOnce
      <4>2. e \notin discarded /\ e \notin strayed
        BY <1>5, <1>8
      <4> QED
        BY <4>1, <4>2
    <3>3. Held' \subseteq Held \cup {e} /\ LostOnce'
      BY <1>5, <2>1, <3>1, <3>2 DEF LostOnce
    <3>4. Held' \cap Lost' = {}
      BY <1>5, <2>1, <3>1, <3>2, <3>3 DEF Lost
    <3>5. Held' \cup Lost' = Held \cup Lost \cup {e}
      <4>1. Held' \cup Lost' = (Held' \cup buf'.evicted) \cup (discarded' \cup strayed)
        BY <1>5 DEF Lost
      <4>2. Held \cup Lost \cup {e}
              = (Held \cup buf.evicted \cup {e}) \cup (discarded \cup strayed)
        BY DEF Lost
      <4> QED
        BY <3>1, <4>1, <4>2
    <3> QED
      BY <2>1, <3>1, <3>3, <3>4, <3>5
  <2> QED
    BY <2>2, <2>3
<1>10. ServiceTyped'
  BY <1>1, <1>4, <1>5, <1>7, Facts DEF ServiceTyped, Steps
<1>11. ThreadsRight'
  <2>1. ThreadRight(th)'
    <3>1. pc'[th] = step /\ th \notin destroyers
      BY <1>1, <1>4, Facts DEF ServiceTyped, ThreadRight, Flushed
    <3> QED
      BY <1>2, <1>4, <1>7, <3>1 DEF ThreadRight, Flushed
  <2>2. ASSUME NEW x \in Threads \ {th} PROVE ThreadRight(x)'
    <3>1. pc'[x] = pc[x] /\ hand'[x] = hand[x] /\ ServiceTyped /\ ThreadRight(x)
      BY <1>1, <1>4, Facts DEF ServiceTyped
    <3>2. pc[x] = "add" => Head(hand[x]) \notin refused'
      BY <1>7, <3>1 DEF ThreadRight
    <3>3. Held' \cap offered \subseteq Held
      BY <1>5, <1>9
    <3> QED
      BY <1>7, <3>1, <3>2, <3>3, OthersStayRight
  <2> QED
    BY <2>1, <2>2 DEF ThreadsRight
<1>12. KicksRight'
  <2>1. \A x \in Entries : pc'[x] = pc[x]
    BY <1>2, <1>4, Facts DEF ServiceTyped
  <2> QED
    BY <1>5, <2>1 DEF IInv, KicksRight
<1>13. TimersRight'
  <2>1. ClockRight(flushTimer, timer)'
    <3>1. CASE flushTimer' = flushTimer /\ timer' = timer
      BY <1>5, <3>1, ClockFacts DEF ClockRight
    <3>2. CASE \/ Buffer!ScheduleFlush(flushTimer, timer)
               \/ Buffer!ScheduleRaises(flushTimer, timer)
      BY <1>5, <3>2, ClockFacts, ScheduleRight
    <3> QED
      BY <1>6, <3>1, <3>2
  <2>2. \A t \in Timers : pc'[t] # "idle" => lock' = t
    BY <1>2, <1>4, <1>5, Facts DEF IInv, TimersRight, ServiceTyped
  <2>3. bufferDestroyed' => destroyed'
    BY <1>5, <1>7 DEF IInv, TimersRight
  <2>4. ~destroyed' => ~AutoFlush \/ flushTimer' # None
    <3> SUFFICES ASSUME ~bufferDestroyed, AutoFlush PROVE flushTimer' # None
      BY <1>5, <2>3
    <3>1. \/ Buffer!ScheduleFlush(flushTimer, timer)
          \/ Buffer!ScheduleRaises(flushTimer, timer)
      BY <1>6
    <3> QED
      BY <1>5, <3>1, ClockFacts, ScheduleRight
  <2>5. /\ lock' \in Timers \cup {None}
        /\ ~destroyed' => \/ ~AutoFlush \/ flushTimer' # None \/ buf'.entries = <<>>
                          \/ lock' \in Timers /\ pc'[lock'] \in Flushing
    BY <1>5, <2>4, ClockFacts
  <2> QED
    BY <2>1, <2>2, <2>3, <2>5, TimersFollow
<1>14. QP!IInv' /\ TasksRight'
  BY <1>1, <1>7, QueueKeeps DEF IInv, TasksRight
<1>15. (refused \cap offered = {})'
  BY <1>3, <1>5, <1>7 DEF IInv
<1>16. (Separate /\ Covered)'
  <2>1. \A x \in Threads \ {th} : hand'[x] = hand[x]
    BY <1>1, Facts DEF ServiceTyped
  <2>2. \A x \in Threads : InTransit(x)' = InTransit(x)
    BY <1>1, <1>4, <2>1, Facts, TransitStays
  <2>3. /\ \A x \in Threads : InTransit(x)' \cap (Held' \cup Lost') = {}
        /\ \A j \in Entries : batch'[j] \cap (Held' \cup Lost') = {}
    BY <1>5, <1>7, <1>8, <1>9, <2>2 DEF Separate, Covered
  <2>4. Separate'
    BY <1>7, <1>8, <1>9, <2>2, <2>3 DEF Separate
  <2>5. Covered'
    BY <1>5, <1>7, <1>8, <1>9, <2>2 DEF Covered
  <2> QED
    BY <2>4, <2>5
<1> QED
  BY <1>5, <1>10, <1>11, <1>12, <1>13, <1>14, <1>15, <1>16 DEF IInv

-----------------------------------------------------------------------------
(* The threads of the buffer, and the workers.                             *)

(* Steps of these threads leave lists, hands and tasks alone. *)
LEMMA ThreadKeeps ==
    ASSUME IInv, NEW th \in Threads, NEW step \in {"idle", "check"},
           \/ \E t \in Timers : Buffer!Expire(t) \/ Buffer!TimerEnter(t) \/ Buffer!TimerLeave(t)
           \/ \E e \in Entries : Buffer!KickStart(e),
           pc[th] = "idle", th \notin destroyers, Goto(th, step),
           seen' \in {seen, [seen EXCEPT ![th] = offered]},
           UNCHANGED <<queueVars, hand, batch, destroyed, destroyers, refused,
                       transportClosed, early>>,
           KicksRight', TimersRight'
    PROVE  IInv'
<1>1. /\ BP!BufferInv' /\ buf' = buf /\ bufferDestroyed' = bufferDestroyed
      /\ offered' = offered /\ discarded' = discarded /\ strayed' = strayed
  BY ThreadEffect DEF IInv
<1>2. /\ destroyed' = destroyed /\ destroyers' = destroyers /\ refused' = refused
      /\ transportClosed' = transportClosed /\ early' = early /\ hand' = hand
      /\ batch' = batch /\ phase' = phase /\ failed' = failed
      /\ pc' = [pc EXCEPT ![th] = step] /\ Held' = Held
  BY <1>1 DEF queueVars, Goto, Held
<1>3. seen' \in [Threads -> SUBSET offered] /\ \A x \in Threads \ {th} : seen'[x] = seen[x]
  BY Facts DEF ServiceTyped
<1>4. ServiceTyped'
  BY <1>1, <1>2, <1>3, Facts DEF ServiceTyped, Steps
<1>5. ThreadsRight'
  <2>1. ThreadRight(th)'
    <3>1. pc'[th] = step
      BY <1>2, Facts DEF ServiceTyped
    <3> QED
      BY <1>2, <3>1 DEF ThreadRight, Flushed
  <2>2. ASSUME NEW x \in Threads \ {th} PROVE ThreadRight(x)'
    <3>1. pc'[x] = pc[x] /\ seen'[x] = seen[x] /\ ServiceTyped /\ ThreadRight(x)
      BY <1>2, <1>3, Facts DEF ServiceTyped
    <3>2. pc[x] = "add" => Head(hand[x]) \notin refused'
      BY <1>2, <3>1 DEF ThreadRight
    <3> QED
      BY <1>2, <3>1, <3>2, OthersStayRight
  <2> QED
    BY <2>1, <2>2 DEF ThreadsRight
<1>6. QP!IInv' /\ TasksRight'
  BY <1>2, QueueKeeps DEF IInv, TasksRight
<1>7. (refused \cap offered = {})'
  BY <1>1, <1>2 DEF IInv
<1>8. (Separate /\ Covered)'
  <2>1. \A x \in Threads : InTransit(x)' = InTransit(x)
    BY <1>2, Facts, TransitStays
  <2> QED
    BY <1>1, <1>2, <2>1, PlacesStay DEF IInv
<1> QED
  BY <1>1, <1>4, <1>5, <1>6, <1>7, <1>8 DEF IInv

(* A timer thread is no caller, and runs as long as it has the lock. *)
LEMMA TimerFacts ==
    ASSUME IInv, NEW t \in Timers
    PROVE  /\ t \in Threads /\ t \notin Callers /\ t \notin destroyers /\ t # None
           /\ timer[t] = "running" <=> lock = t
  BY Facts, ThreadsAssumption, PartsAssumption DEF ServiceTyped, IInv, TimersRight

(* A timer expires: its thread will come for the lock. *)
LEMMA ExpireKeeps ==
    ASSUME IInv, NEW t \in Timers, TimerExpires(t)
    PROVE  IInv'
<1>1. /\ Buffer!Expire(t) /\ timer[t] = "armed" /\ timer' = [timer EXCEPT ![t] = "fired"]
      /\ flushTimer' = flushTimer /\ lock' = lock /\ kicks' = kicks
      /\ UNCHANGED <<queueVars, pc, hand, batch, callVars>>
  BY DEF TimerExpires, Buffer!Expire
<1>2. /\ BP!BufferInv' /\ buf' = buf /\ bufferDestroyed' = bufferDestroyed
      /\ offered' = offered /\ discarded' = discarded /\ strayed' = strayed
  BY <1>1, ThreadEffect DEF IInv
<1>3. /\ destroyed' = destroyed /\ destroyers' = destroyers /\ refused' = refused
      /\ transportClosed' = transportClosed /\ early' = early /\ seen' = seen /\ hand' = hand
      /\ batch' = batch /\ phase' = phase /\ failed' = failed /\ pc' = pc /\ Held' = Held
  BY <1>1, <1>2 DEF queueVars, callVars, Held
<1>4. ServiceTyped'
  BY <1>2, <1>3, Facts DEF ServiceTyped
<1>5. ThreadsRight'
  BY <1>2, <1>3 DEF IInv, ThreadsRight, ThreadRight
<1>6. KicksRight'
  BY <1>1, <1>2, <1>3 DEF IInv, KicksRight
<1>7. TimersRight'
  <2>1. ClockRight(flushTimer, timer)'
    BY <1>1, ClockFacts DEF ClockRight, TimerStates
  <2>2. /\ lock' \in Timers \cup {None} /\ \A x \in Timers : pc'[x] # "idle" => lock' = x
        /\ bufferDestroyed' => destroyed'
    BY <1>1, <1>2, <1>3, ClockFacts DEF IInv, TimersRight
  <2>3. TimersRight /\ ClockRight(flushTimer, timer)
    BY ClockFacts DEF IInv
  <2>4. ~destroyed' => Buffer!PendingFlush'
    <3> SUFFICES ASSUME ~destroyed, AutoFlush, buf.entries # <<>>
                 PROVE  \E x \in Timers : timer'[x] # "free"
      BY <1>2, <1>3 DEF Buffer!PendingFlush
    <3>1. timer'[t] = "fired"
      BY <1>1, <2>3 DEF ClockRight
    <3> QED
      BY <3>1
  <2> QED
    BY <1>1, <1>2, <1>3, <2>1, <2>2, <2>3, <2>4 DEF TimersRight, ClockRight
<1>8. QP!IInv' /\ TasksRight'
  BY <1>1, <1>3, QueueKeeps DEF IInv, TasksRight
<1>9. (refused \cap offered = {})'
  BY <1>2, <1>3 DEF IInv
<1>10. (Separate /\ Covered)'
  <2>1. \A x \in Threads : InTransit(x)' = InTransit(x)
    BY <1>3 DEF InTransit
  <2> QED
    BY <1>2, <1>3, <2>1, PlacesStay DEF IInv
<1> QED
  BY <1>2, <1>4, <1>5, <1>6, <1>7, <1>8, <1>9, <1>10 DEF IInv

(* The thread of a timer takes the lock and calls flush. *)
LEMMA EnterKeeps ==
    ASSUME IInv, NEW t \in Timers, TimerEnters(t)
    PROVE  IInv'
<1>1. /\ Buffer!TimerEnter(t) /\ timer[t] = "fired" /\ lock = None /\ flushTimer' = None
      /\ kicks' = kicks /\ buf' = buf /\ bufferDestroyed' = bufferDestroyed
      /\ offered' = offered
      /\ UNCHANGED <<queueVars, hand, batch, destroyed, destroyers, refused,
                      transportClosed, early>>
  BY DEF TimerEnters, Buffer!TimerEnter
<1>2. \A x \in Timers : pc[x] = "idle"
  BY <1>1, TimerFacts DEF IInv, TimersRight
<1>3. t \in Threads /\ t \notin Callers /\ t \notin destroyers /\ t # None /\ t \notin Entries
      /\ pc[t] = "idle" /\ pc \in [Threads -> Steps] /\ None \notin Timers
  BY <1>2, TimerFacts, Facts, ThreadsAssumption, ClockFacts DEF ServiceTyped
<1>4. ClockRight(flushTimer, timer) /\ (bufferDestroyed => destroyed)
  BY ClockFacts DEF IInv, TimersRight
<1>5. destroyed' = destroyed
  BY <1>1
<1>6. CASE /\ bufferDestroyed \/ buf.entries = <<>>
           /\ timer' = [timer EXCEPT ![t] = "free"]
           /\ lock' = lock
  <2>1. pc' = pc /\ seen' = seen
    BY <1>1, <1>3, <1>6 DEF TimerEnters
  <2>2. Goto(t, "idle")
    BY <1>3, <2>1 DEF Goto
  <2>3. TimersRight'
    <3>1. ClockRight(flushTimer, timer)'
      BY <1>1, <1>3, <1>4, <1>6 DEF ClockRight, TimerStates
    <3>2. /\ lock' \in Timers \cup {None} /\ \A x \in Timers : pc'[x] # "idle" => lock' = x
      BY <1>1, <1>2, <1>6, <2>1
    <3>3. ~destroyed' => buf'.entries = <<>>
      BY <1>1, <1>4, <1>5, <1>6
    <3>4. bufferDestroyed' => destroyed'
      BY <1>1, <1>4, <1>5
    <3> QED
      BY <3>1, <3>2, <3>3, <3>4, TimersFollow
  <2>4. KicksRight'
    BY <1>1, <2>1 DEF IInv, KicksRight
  <2> QED
    BY <1>1, <1>3, <2>1, <2>2, <2>3, <2>4, ThreadKeeps
<1>7. CASE /\ timer' = [timer EXCEPT ![t] = "running"]
           /\ lock' = t
  <2>1. Goto(t, "check") /\ seen' = [seen EXCEPT ![t] = offered]
    BY <1>7 DEF TimerEnters
  <2>2. pc' = [pc EXCEPT ![t] = "check"] /\ pc'[t] = "check"
    BY <1>3, <2>1 DEF Goto
  <2>3. TimersRight'
    <3>1. ClockRight(flushTimer, timer)'
      BY <1>1, <1>3, <1>4, <1>7 DEF ClockRight, TimerStates
    <3>2. /\ lock' \in Timers \cup {None}
          /\ lock' \in Timers /\ pc'[lock'] \in Flushing
          /\ \A x \in Timers : pc'[x] # "idle" => lock' = x
      BY <1>2, <1>3, <1>7, <2>2 DEF Flushing
    <3>3. bufferDestroyed' => destroyed'
      BY <1>1, <1>4, <1>5
    <3> QED
      BY <3>1, <3>2, <3>3, TimersFollow
  <2>4. KicksRight'
    BY <1>1, <1>3, <2>2, Facts DEF IInv, KicksRight
  <2> QED
    BY <1>1, <1>3, <2>1, <2>3, <2>4, ThreadKeeps
<1> QED
  BY <1>1, <1>6, <1>7 DEF Buffer!TimerEnter

(* It gives the lock back: by then the buffer is empty or another timer is *)
(* set.                                                                    *)
LEMMA LeaveKeeps ==
    ASSUME IInv, NEW t \in Timers, TimerLeaves(t)
    PROVE  IInv'
<1>1. /\ pc[t] = "idle" /\ Buffer!TimerLeave(t) /\ timer[t] = "running" /\ lock' = None
      /\ timer' = [timer EXCEPT ![t] = "free"]
      /\ kicks' = kicks /\ buf' = buf /\ bufferDestroyed' = bufferDestroyed
      /\ offered' = offered /\ flushTimer' = flushTimer /\ pc' = pc /\ seen' = seen
      /\ destroyed' = destroyed
      /\ UNCHANGED <<queueVars, hand, batch, destroyed, destroyers, refused,
                      transportClosed, early>>
  BY DEF TimerLeaves, Buffer!TimerLeave, callVars
<1>2. /\ t \in Threads /\ t \notin destroyers /\ t # None /\ lock = t
      /\ pc \in [Threads -> Steps] /\ None \notin Timers
  BY <1>1, TimerFacts, Facts, ClockFacts DEF ServiceTyped
<1>3. Goto(t, "idle")
  BY <1>1, <1>2 DEF Goto
<1>4. TimersRight'
  <2>1. ClockRight(flushTimer, timer)'
    BY <1>1, <1>2, ClockFacts DEF ClockRight, TimerStates
  <2>2. /\ lock' \in Timers \cup {None}
        /\ \A x \in Timers : pc'[x] # "idle" => lock' = x
    BY <1>1, <1>2 DEF IInv, TimersRight
  <2>3. ~destroyed' => ~AutoFlush \/ flushTimer' # None \/ buf'.entries = <<>>
    BY <1>1, <1>2 DEF IInv, TimersRight, Flushing
  <2>4. bufferDestroyed' => destroyed'
    BY <1>1 DEF IInv, TimersRight
  <2> QED
    BY <2>1, <2>2, <2>3, <2>4, TimersFollow
<1>5. KicksRight'
  BY <1>1 DEF IInv, KicksRight
<1> QED
  BY <1>1, <1>2, <1>3, <1>4, <1>5, ThreadKeeps

(* The thread of an immediate flush calls flush. *)
LEMMA KickKeeps ==
    ASSUME IInv, NEW e \in Entries, Kick(e)
    PROVE  IInv'
<1>1. /\ Buffer!KickStart(e) /\ e \in kicks /\ kicks' = kicks \ {e}
      /\ timer' = timer /\ lock' = lock
      /\ buf' = buf /\ bufferDestroyed' = bufferDestroyed
      /\ offered' = offered /\ flushTimer' = flushTimer
      /\ Goto(e, "check") /\ seen' = [seen EXCEPT ![e] = offered]
      /\ destroyed' = destroyed
      /\ UNCHANGED <<queueVars, hand, batch, destroyed, destroyers, refused,
                      transportClosed, early>>
  BY DEF Kick, Buffer!KickStart
<1>2. /\ e \in Threads /\ e \notin destroyers /\ e \notin Timers /\ pc[e] = "idle"
      /\ e \in offered /\ pc \in [Threads -> Steps]
  BY <1>1, Facts, ThreadsAssumption DEF ServiceTyped, IInv, KicksRight
<1>3. pc' = [pc EXCEPT ![e] = "check"]
  BY <1>1 DEF Goto
<1>4. TimersRight'
  <2>1. \A x \in Timers : pc'[x] = pc[x]
    BY <1>2, <1>3, Facts
  <2>2. lock \in Timers \cup {None}
    BY ClockFacts
  <2>3. lock # None => pc'[lock] = pc[lock]
    BY <2>1, <2>2
  <2>4. TimersRight
    BY DEF IInv
  <2> QED
    BY <1>1, <2>1, <2>3, <2>4 DEF TimersRight, Buffer!PendingFlush, Buffer!TimerLost
<1>5. KicksRight'
  BY <1>1, <1>2, <1>3, Facts DEF IInv, KicksRight
<1> QED
  BY <1>1, <1>2, <1>4, <1>5, ThreadKeeps

(* A step of a worker. *)
LEMMA WorkerKeeps ==
    ASSUME IInv, NEW k \in Entries, Worker(k)
    PROVE  IInv'
<1>1. /\ Queue!Send(k) \/ Queue!Measure(k) \/ Queue!Settle(k) \/ Queue!Leave(k)
      /\ UNCHANGED <<bufferVars, pc, hand, batch, callVars>>
  BY DEF Worker, WorkerMeasure
<1>2. /\ destroyed' = destroyed /\ destroyers' = destroyers /\ refused' = refused
      /\ transportClosed' = transportClosed /\ early' = early /\ seen' = seen /\ hand' = hand
      /\ batch' = batch /\ pc' = pc /\ buf' = buf /\ bufferDestroyed' = bufferDestroyed
      /\ flushTimer' = flushTimer /\ timer' = timer /\ lock' = lock /\ kicks' = kicks
      /\ offered' = offered /\ discarded' = discarded /\ strayed' = strayed
  BY <1>1 DEF bufferVars, callVars
<1>3. Held' = Held
  BY <1>2 DEF Held
<1>4. BP!BufferInv' /\ QP!IInv'
  BY <1>1, ThreadEffect, QueueKeeps DEF IInv
<1>5. ServiceTyped'
  BY <1>2, Facts DEF ServiceTyped
<1>6. ThreadsRight'
  BY <1>2, <1>3 DEF IInv, ThreadsRight, ThreadRight
<1>7. KicksRight' /\ TimersRight'
  BY <1>2 DEF IInv, KicksRight, TimersRight, Buffer!PendingFlush, Buffer!TimerLost
<1>8. TasksRight'
  <2>1. TasksRight /\ phase \in [Entries -> QP!Phases]
    BY DEF IInv, QP!IInv, QP!TypeOK
  <2>2. CASE Queue!Send(k) \/ Queue!Measure(k) \/ Queue!Settle(k)
    <3>1. /\ phase[k] \in {"sending", "measuring", "settling"}
          /\ \A j \in Entries \ {k} : phase'[j] = phase[j]
          /\ phase'[k] # "new"
          /\ phase[k] = "settling" => phase'[k] = "leaving"
          /\ failed' = failed \/ (failed' = failed \cup {k} /\ phase'[k] = "settling")
      <4>1. CASE Queue!Send(k)
        BY <2>1, <4>1 DEF Queue!Send, Queue!SendOk, Queue!SendFail, Queue!Advance
      <4>2. CASE Queue!Measure(k)
        BY <2>1, <4>2 DEF Queue!Measure, Queue!Advance
      <4>3. CASE Queue!Settle(k)
        BY <2>1, <4>3 DEF Queue!Settle, Queue!Advance
      <4> QED
        BY <2>2, <4>1, <4>2, <4>3
    <3>2. k \in failed => phase[k] = "settling"
      BY <2>1, <3>1 DEF TasksRight
    <3> QED
      BY <1>2, <2>1, <3>1, <3>2 DEF TasksRight
  <2>3. CASE Queue!Leave(k)
    <3>1. /\ phase[k] = "leaving" /\ phase'[k] = "done" /\ failed' = failed
          /\ \A j \in Entries \ {k} : Started(j, phase)
      BY <2>3, LeaveEffect DEF IInv
    <3> QED
      BY <1>2, <2>1, <3>1 DEF TasksRight, Started
  <2> QED
    BY <1>1, <2>2, <2>3
<1>9. (refused \cap offered = {})'
  BY <1>2 DEF IInv
<1>10. (Separate /\ Covered)'
  <2>1. \A x \in Threads : InTransit(x)' = InTransit(x)
    BY <1>2 DEF InTransit
  <2> QED
    BY <1>2, <2>1, PlacesStay DEF IInv
<1> QED
  BY <1>4, <1>5, <1>6, <1>7, <1>8, <1>9, <1>10 DEF IInv

-----------------------------------------------------------------------------
(* The invariant holds.                                                    *)

(* A new service is right. *)
LEMMA InitRight ==
    ASSUME Init
    PROVE  IInv
<1>1. /\ Buffer!Init /\ Queue!Init /\ pc = [th \in Threads |-> "idle"]
      /\ hand = [th \in Threads |-> <<>>] /\ batch = [k \in Entries |-> {}]
      /\ destroyed = FALSE /\ destroyers = {} /\ refused = {} /\ transportClosed = FALSE
      /\ early = {} /\ seen = [th \in Threads |-> {}]
  BY DEF Init
<1>2. /\ buf.entries = <<>> /\ buf.evicted = {} /\ bufferDestroyed = FALSE /\ lock = None
      /\ kicks = {} /\ offered = {} /\ discarded = {} /\ strayed = {}
  BY <1>1 DEF Buffer!Init
<1>3. BP!BufferInv
  <2>1. BP!Init
    BY <1>1 DEF Buffer!Init, BP!Init
  <2> QED
    BY <2>1, PartsAssumption, BP!BufferInit
<1>4. QP!IInv
  <2>1. QP!Init
    BY <1>1 DEF Queue!Init, QP!Init
  <2> QED
    BY <2>1, PartsAssumption, TasksFinite, QP!InitInvariant
<1>5. ServiceTyped
  <2>1. /\ pc \in [Threads -> Steps] /\ hand \in [Threads -> Seq(Entries)]
        /\ batch \in [Entries -> SUBSET Entries] /\ seen \in [Threads -> SUBSET offered]
    BY <1>1, <1>2 DEF Steps
  <2> QED
    BY <1>1, <1>2, <2>1 DEF ServiceTyped
<1>6. ThreadsRight /\ KicksRight
  BY <1>1, <1>2 DEF ThreadsRight, ThreadRight, KicksRight, Flushed, Threads
<1>7. TimersRight
  <2>1. \A t \in Timers : /\ pc[t] = "idle" /\ t # None
                          /\ timer[t] \in {"free", "armed"}
                          /\ flushTimer = t => timer[t] = "armed"
    BY <1>1, PartsAssumption DEF Buffer!Init, Threads
  <2>2. \A t \in Timers : /\ timer[t] = "running" <=> lock = t
                          /\ pc[t] # "idle" => lock = t
                          /\ flushTimer = t => timer[t] \in {"armed", "fired"}
    BY <1>2, <2>1
  <2>3. Buffer!PendingFlush
    BY <1>2 DEF Buffer!PendingFlush
  <2> QED
    BY <1>2, <2>2, <2>3 DEF TimersRight
<1>8. TasksRight
  BY <1>1 DEF TasksRight, Queue!Init
<1>9. Held = {} /\ Lost = {} /\ \A x \in Threads : InTransit(x) = {}
  BY <1>1, <1>2 DEF Held, Lost, InTransit, Seqs!ToSet
<1>10. Separate /\ Covered /\ refused \cap offered = {}
  BY <1>1, <1>2, <1>9 DEF Separate, Covered, LostOnce
<1> QED
  BY <1>3, <1>4, <1>5, <1>6, <1>7, <1>8, <1>10 DEF IInv

(* Every step keeps the invariant. *)
LEMMA NextKeeps ==
    ASSUME IInv, Next
    PROVE  IInv'
<1>1. ASSUME NEW c \in Callers,
             \/ \E e \in Entries : Log(c, e)
             \/ CallFlush(c) \/ CallDestroy(c) \/ CallReadOut(c)
      PROVE  IInv'
  BY <1>1, Facts, LogKeeps, BeginKeeps, ReadOutKeeps DEF Loggers
<1>2. ASSUME NEW th \in Threads, Step(th)
      PROVE  IInv'
  <2>1. CASE AddEntry(th)
    BY <2>1, AddKeeps
  <2>2. CASE UpdateMetrics(th)
    BY <2>2, ReadOutKeeps
  <2>3. CASE Check(th)
    BY <2>3, CheckKeeps
  <2>4. CASE Size(th)
    BY <2>4, SizeKeeps
  <2>5. CASE Drain(th)
    BY <2>5, DrainKeeps
  <2>6. CASE EnqueueFlush(th)
    BY <2>6, EnqueueKeeps
  <2>7. CASE AwaitEvent(th)
    BY <2>7, AwaitEventKeeps
  <2>8. CASE WaitForQueueIdle(th)
    BY <2>8, WaitKeeps
  <2>9. CASE MarkDestroyed(th)
    BY <2>9, MarkKeeps
  <2>10. CASE CloseBuffer(th)
    BY <2>10, CloseBufferKeeps
  <2>11. CASE CloseTransport(th)
    BY <2>11, CloseTransportKeeps
  <2> QED
    BY <1>2, <2>1, <2>2, <2>3, <2>4, <2>5, <2>6, <2>7, <2>8, <2>9, <2>10, <2>11 DEF Step
<1>3. ASSUME NEW t \in Timers, TimerThread(t)
      PROVE  IInv'
  BY <1>3, ExpireKeeps, EnterKeeps, LeaveKeeps DEF TimerThread
<1>4. ASSUME NEW k \in Entries, NEW e \in Entries, WorkerLogs(k, e)
      PROVE  IInv'
  BY <1>4, LogKeeps DEF WorkerLogs, Loggers, Workers
<1> QED
  BY <1>1, <1>2, <1>3, <1>4, KickKeeps, WorkerKeeps DEF Next

(* So does a step that changes nothing. *)
LEMMA StutterKeeps ==
    ASSUME IInv, UNCHANGED vars
    PROVE  IInv'
<1>1. /\ UNCHANGED <<bufferVars, queueVars>> /\ pc' = pc /\ hand' = hand /\ batch' = batch
      /\ destroyed' = destroyed /\ destroyers' = destroyers /\ refused' = refused
      /\ transportClosed' = transportClosed /\ early' = early /\ seen' = seen
      /\ buf' = buf /\ bufferDestroyed' = bufferDestroyed
      /\ flushTimer' = flushTimer /\ timer' = timer /\ lock' = lock /\ kicks' = kicks
      /\ offered' = offered /\ discarded' = discarded /\ strayed' = strayed
      /\ phase' = phase /\ failed' = failed
  BY DEF vars, bufferVars, queueVars, callVars
<1>2. Held' = Held /\ \A x \in Threads : InTransit(x)' = InTransit(x)
  BY <1>1 DEF Held, InTransit
<1>3. BP!BufferInv' /\ QP!IInv'
  BY <1>1, ThreadEffect, QueueKeeps DEF IInv
<1>4. /\ ServiceTyped' /\ KicksRight' /\ TasksRight'
      /\ (refused \cap offered = {})'
  BY <1>1 DEF IInv, ServiceTyped, KicksRight, TasksRight
<1>5. ThreadsRight' /\ TimersRight'
  BY <1>1, <1>2 DEF IInv, ThreadsRight, ThreadRight, TimersRight, Buffer!PendingFlush,
                           Buffer!TimerLost
<1>6. (Separate /\ Covered)'
  BY <1>1, <1>2, PlacesStay DEF IInv
<1> QED
  BY <1>3, <1>4, <1>5, <1>6 DEF IInv

(* The inductive invariant holds of every behaviour of the service. *)
THEOREM Invariant == Spec => []IInv
<1>1. IInv /\ [Next]_vars => IInv'
  BY NextKeeps, StutterKeeps
<1> QED
  BY InitRight, <1>1, PTL DEF Spec

-----------------------------------------------------------------------------
(* What the runs check.                                                    *)

(* The entries that the buffer holds. *)
LEMMA BufferHeld == Buffer!Held = Held
  BY SameLists DEF Buffer!Held, Held

(* The state of the service and of its parts is well typed. *)
THEOREM TypeCorrect == Spec => []TypeOK
<1>1. IInv => TypeOK
  <2> SUFFICES ASSUME IInv PROVE TypeOK
    OBVIOUS
  <2>1. Buffer!TypeOK
    BY DEF IInv, BP!BufferInv, BP!TypeOK, Buffer!TypeOK
  <2>2. Queue!TypeOK
    BY QueueTypes DEF IInv
  <2> QED
    BY <2>1, <2>2, Facts DEF TypeOK, ServiceTyped, Steps
<1> QED
  BY <1>1, Invariant, PTL

(* With auto_flush, while the logger is open, an entry in the buffer has a *)
(* timer thread that will still come for it, whatever the threads do,      *)
(* unless _flush_timer is one whose start raised.                          *)
THEOREM OpenBufferTimed == Spec => []OpenBufferHasTimer
<1>1. IInv => OpenBufferHasTimer
  BY DEF IInv, TimersRight, OpenBufferHasTimer
<1> QED
  BY <1>1, Invariant, PTL

(* Conservation: what was added is in the buffer, in one hand, in one task *)
(* or lost in one way: evicted, discarded, or astray because a flush       *)
(* raised.                                                                 *)
THEOREM Conservation == Spec => []EachEntryInOnePlace
<1>1. IInv => EachEntryInOnePlace
  <2> SUFFICES ASSUME IInv, NEW e \in offered
               PROVE  Cardinality({th \in Threads : e \in InTransit(th)})
                        + Cardinality({k \in Entries : e \in batch[k]})
                        + Cardinality({S \in {1, 2, 3, 4} : e \in CASE S = 1 -> Buffer!Held
                                                              [] S = 2 -> buf.evicted
                                                              [] S = 3 -> discarded
                                                              [] S = 4 -> strayed}) = 1
    BY DEF EachEntryInOnePlace
  <2> DEFINE holders == {th \in Threads : e \in InTransit(th)}
             tasks   == {k \in Entries : e \in batch[k]}
             others  == {S \in {1, 2, 3, 4} : e \in CASE S = 1 -> Buffer!Held
                                                   [] S = 2 -> buf.evicted
                                                   [] S = 3 -> discarded
                                                   [] S = 4 -> strayed}
  <2>1. Separate /\ Covered
    BY DEF IInv
  <2>2. /\ 1 \in others <=> e \in Held
        /\ 2 \in others <=> e \in buf.evicted
        /\ 3 \in others <=> e \in discarded
        /\ 4 \in others <=> e \in strayed
        /\ others \subseteq {1, 2, 3, 4}
    <3>1. 1 \in others <=> e \in Held
      BY BufferHeld
    <3>2. 2 \in others <=> e \in buf.evicted
      OBVIOUS
    <3>3. 3 \in others <=> e \in discarded
      OBVIOUS
    <3>4. 4 \in others <=> e \in strayed
      OBVIOUS
    <3>5. others \subseteq {1, 2, 3, 4}
      OBVIOUS
    <3> QED
      BY <3>1, <3>2, <3>3, <3>4, <3>5
  <2>3. /\ \A R : R = {} => Cardinality(R) = 0
        /\ \A R : (\E x : R = {x}) => Cardinality(R) = 1
    BY FS_EmptySet, FS_Singleton
  <2>4. ASSUME e \in Held \cup Lost
        PROVE  holders = {} /\ tasks = {} /\ \E x : others = {x}
    <3>1. holders = {} /\ tasks = {}
      BY <2>1, <2>4 DEF Separate
    <3>2. \E x : others = {x}
      <4>1. /\ Held \cap (buf.evicted \cup discarded \cup strayed) = {}
            /\ buf.evicted \cap discarded = {}
            /\ (buf.evicted \cup discarded) \cap strayed = {}
        BY <2>1 DEF Separate, Lost, LostOnce
      <4> HIDE DEF others
      <4>2. CASE e \in Held
        <5>1. others = {1}
          BY <2>2, <4>1, <4>2
        <5> QED
          BY <5>1
      <4>3. CASE e \in buf.evicted
        <5>1. others = {2}
          BY <2>2, <4>1, <4>3
        <5> QED
          BY <5>1
      <4>4. CASE e \in discarded
        <5>1. others = {3}
          BY <2>2, <4>1, <4>4
        <5> QED
          BY <5>1
      <4>5. CASE e \in strayed
        <5>1. others = {4}
          BY <2>2, <4>1, <4>5
        <5> QED
          BY <5>1
      <4> QED
        BY <2>4, <4>2, <4>3, <4>4, <4>5 DEF Lost
    <3> QED
      BY <3>1, <3>2
  <2>5. ASSUME e \notin Held \cup Lost
        PROVE  /\ others = {}
               /\ \/ holders = {} /\ \E x : tasks = {x}
                  \/ tasks = {} /\ \E x : holders = {x}
    <3>1. others = {}
      BY <2>2, <2>5 DEF Lost
    <3>2. CASE \E th \in Threads : e \in InTransit(th)
      <4>1. PICK th \in Threads : e \in InTransit(th)
        BY <3>2
      <4>2. holders = {th} /\ tasks = {}
        BY <2>1, <4>1 DEF Separate
      <4> QED
        BY <3>1, <4>2
    <3>3. CASE \E k \in Entries : e \in batch[k]
      <4>1. PICK k \in Entries : e \in batch[k]
        BY <3>3
      <4>2. holders = {} /\ tasks = {k}
        BY <2>1, <4>1 DEF Separate
      <4> QED
        BY <3>1, <4>2
    <3> QED
      BY <2>1, <2>5, <3>2, <3>3 DEF Covered
  <2> HIDE DEF holders, tasks, others
  <2>6. Cardinality(holders) + Cardinality(tasks) + Cardinality(others) = 1
    <3>1. CASE e \in Held \cup Lost
      <4>1. Cardinality(holders) = 0 /\ Cardinality(tasks) = 0 /\ Cardinality(others) = 1
        BY <2>3, <2>4, <3>1, Zenon
      <4> QED
        BY <4>1
    <3>2. CASE e \notin Held \cup Lost
      <4>1. Cardinality(others) = 0
        BY <2>3, <2>5, <3>2, Zenon
      <4>2. \/ Cardinality(holders) = 0 /\ Cardinality(tasks) = 1
            \/ Cardinality(tasks) = 0 /\ Cardinality(holders) = 1
        BY <2>3, <2>5, <3>2, Zenon
      <4> QED
        BY <4>1, <4>2
    <3> QED
      BY <3>1, <3>2
  <2> QED
    BY <2>6 DEF holders, tasks, others
<1> QED
  BY <1>1, Invariant, PTL

(* An idle pipeline has no task that is between its enqueue and its end. *)
LEMMA IdleMeansDone ==
    ASSUME QP!IInv, Queue!Idle, NEW k \in Entries
    PROVE  phase[k] \in {"new", "done"}
<1>1. /\ inFlight = QP!Cardinality(QP!InPhase(QP!Occupying)) /\ inFlight = 0
      /\ flushQueue = <<>> /\ phase \in [Entries -> QP!Phases]
      /\ phase[k] = "queued" <=> \E i \in DOMAIN flushQueue : flushQueue[i] = k
  BY DEF QP!IInv, QP!TypeOK, QP!QueueHoldsWaitingTasks, QP!InFlightCountsSlots, Queue!Idle
<1>2. QP!InPhase(QP!Occupying) = {}
  <2>1. IsFiniteSet(QP!InPhase(QP!Occupying))
    BY PartsAssumption, FS_Subset DEF QP!InPhase
  <2>2. Cardinality(QP!InPhase(QP!Occupying)) = 0
    BY <1>1 DEF QP!Cardinality, Cardinality
  <2> QED
    BY <2>1, <2>2, FS_EmptySet
<1>3. phase[k] # "queued"
  BY <1>1
<1> QED
  BY <1>1, <1>2, <1>3 DEF QP!InPhase, QP!Occupying, QP!Phases

(* When flush or destroy is done waiting, all that was added before the    *)
(* call is settled, but for what another thread has just drained, and what *)
(* went astray.                                                            *)
THEOREM WaitCovers == Spec => WaitCoversEarlierEntries
<1> DEFINE Waited == \A th \in Threads :
              pc[th] = "wait" /\ pc'[th] # "wait"
                 => seen[th] \subseteq Settled \cup strayed
                                      \cup UNION {InTransit(x) : x \in Threads \ {th}}
<1>1. IInv /\ [Next]_vars => Waited
  <2> SUFFICES ASSUME IInv, [Next]_vars, NEW th \in Threads,
                      pc[th] = "wait", pc'[th] # "wait", NEW e \in seen[th]
               PROVE  e \in Settled \cup strayed \/ \E x \in Threads \ {th} : e \in InTransit(x)
    OBVIOUS
  <2>1. Queue!Idle
    <3>1. CASE UNCHANGED vars
      BY <3>1 DEF vars
    <3>2. ASSUME NEW x \in Threads, NEW step, x # th, Goto(x, step)
          PROVE  FALSE
      BY <3>2, Facts DEF Goto, ServiceTyped
    <3>3. CASE \E c \in Callers : \/ \E y \in Entries : Log(c, y)
                                  \/ CallFlush(c) \/ CallDestroy(c) \/ CallReadOut(c)
      BY <3>2, <3>3, Facts DEF Log, CallFlush, CallDestroy, CallReadOut
    <3>4. CASE \E x \in Threads : Step(x)
      <4>1. PICK x \in Threads : Step(x)
        BY <3>4
      <4>2. \E step : Goto(x, step)
        BY <4>1 DEF Step, AddEntry, UpdateMetrics, Check, Size, Drain, EnqueueFlush,
                    AwaitEvent, WaitForQueueIdle, MarkDestroyed, CloseBuffer,
                    CloseTransport, Return, Raise
      <4>3. CASE x # th
        BY <3>2, <4>2, <4>3
      <4>4. CASE x = th
        <5>1. WaitForQueueIdle(th)
          BY <4>1, <4>4 DEF Step, AddEntry, UpdateMetrics, Check, Size, Drain,
                            EnqueueFlush, AwaitEvent, MarkDestroyed, CloseBuffer,
                            CloseTransport
        <5> QED
          BY <5>1 DEF WaitForQueueIdle
      <4> QED
        BY <4>3, <4>4
    <3>5. CASE \E t \in Timers : TimerThread(t)
      <4>1. PICK t \in Timers : TimerThread(t)
        BY <3>5
      <4>2. CASE TimerExpires(t) \/ TimerLeaves(t)
        BY <4>2 DEF TimerExpires, TimerLeaves
      <4>3. CASE TimerEnters(t)
        <5>1. lock = None /\ (pc' = pc \/ Goto(t, "check"))
          BY <4>3 DEF TimerEnters, Buffer!TimerEnter
        <5>2. pc[t] = "idle"
          BY <5>1, TimerFacts DEF IInv, TimersRight
        <5> QED
          BY <3>2, <5>1, <5>2, Facts
      <4> QED
        BY <4>1, <4>2, <4>3 DEF TimerThread
    <3>6. CASE \E y \in Entries : Kick(y)
      <4>1. PICK y \in Entries : Kick(y)
        BY <3>6
      <4>2. Goto(y, "check") /\ y \in kicks
        BY <4>1 DEF Kick, Buffer!KickStart
      <4>3. pc[y] = "idle"
        BY <4>2 DEF IInv, KicksRight
      <4> QED
        BY <3>2, <4>2, <4>3, Facts
    <3>7. CASE \E k \in Entries : Worker(k)
      BY <3>7 DEF Worker
    <3>8. CASE \E k, y \in Entries : WorkerLogs(k, y)
      <4>1. PICK k \in Entries, y \in Entries : Log(WorkerOf[k], y)
        BY <3>8 DEF WorkerLogs
      <4>2. /\ WorkerOf[k] \in Threads /\ pc[WorkerOf[k]] = "idle"
            /\ pc' = pc \/ Goto(WorkerOf[k], "add")
        BY <4>1, Facts DEF Log, Loggers, Workers
      <4> QED
        BY <3>2, <4>2
    <3> QED
      BY <3>1, <3>3, <3>4, <3>5, <3>6, <3>7, <3>8 DEF Next
  <2>2. e \in offered /\ e \notin Held
    BY Facts DEF ServiceTyped, ThreadRight, Flushed
  <2>3. CASE e \in Lost
    BY <2>3 DEF Lost, Settled
  <2>4. CASE \E x \in Threads : e \in InTransit(x)
    BY <2>4 DEF InTransit
  <2>5. CASE \E k \in Entries : e \in batch[k]
    <3>1. PICK k \in Entries : e \in batch[k]
      BY <2>5
    <3>2. phase[k] = "done"
      <4>1. phase[k] \in {"new", "done"}
        BY <2>1, IdleMeansDone DEF IInv
      <4> QED
        BY <3>1, <4>1 DEF IInv, TasksRight
    <3>3. failed \subseteq Entries
      BY DEF IInv, QP!IInv, QP!TypeOK
    <3> QED
      BY <3>1, <3>2, <3>3 DEF Settled, Delivered, Failed, Finished
  <2> QED
    BY <2>2, <2>3, <2>4, <2>5 DEF IInv, Covered
<1> QED
  BY <1>1, Invariant, PTL DEF Spec, WaitCoversEarlierEntries

-----------------------------------------------------------------------------
(* The service implements LogDelivery.                                     *)

(* What each place of the refinement mapping says of the state. *)
Placed ==
    \A e \in Entries :
        /\ PlaceOf(e) = "refused"   <=> e \in refused
        /\ PlaceOf(e) = "new"       <=> e \notin offered \cup refused
        /\ PlaceOf(e) = "buffered"  <=> e \in Held
        /\ PlaceOf(e) = "evicted"   <=> e \in buf.evicted
        /\ PlaceOf(e) = "discarded" <=> e \in discarded
        /\ PlaceOf(e) = "strayed"   <=> e \in strayed
        /\ PlaceOf(e) = "delivered" <=> e \in Delivered
        /\ PlaceOf(e) = "failed"    <=> e \in Failed
        /\ PlaceOf(e) \in Delivery!Places

(* No entry has two fates. *)
LEMMA FatesApart ==
    ASSUME IInv
    PROVE  /\ refused \cap offered = {} /\ Held \subseteq offered
           /\ Lost \subseteq offered /\ Delivered \subseteq offered /\ Failed \subseteq offered
           /\ Held \cap Lost = {} /\ LostOnce
           /\ (Delivered \cup Failed) \cap (Held \cup Lost) = {}
           /\ Delivered \cap Failed = {}
<1>1. Separate /\ Covered /\ refused \cap offered = {} /\ failed \subseteq Entries
  BY DEF IInv, QP!IInv, QP!TypeOK
<1>2. /\ \A e \in Delivered : \E k \in Entries : e \in batch[k] /\ k \notin failed
      /\ \A e \in Failed : \E k \in Entries : e \in batch[k] /\ k \in failed
  BY <1>1 DEF Delivered, Failed, Finished
<1>3. Held \subseteq offered /\ Lost \subseteq offered
  BY BufferSets DEF IInv, Lost
<1>4. Delivered \subseteq offered /\ Failed \subseteq offered
  BY <1>1, <1>2 DEF Covered
<1>5. (Delivered \cup Failed) \cap (Held \cup Lost) = {}
  BY <1>1, <1>2 DEF Separate
<1>6. Delivered \cap Failed = {}
  BY <1>1, <1>2 DEF Separate
<1> QED
  BY <1>1, <1>3, <1>4, <1>5, <1>6 DEF Separate

(* The mapping says where each entry is, without overlap, *)
LEMMA PlacesMean == IInv => Placed
<1> SUFFICES ASSUME IInv, NEW e \in Entries
             PROVE  /\ PlaceOf(e) = "refused"   <=> e \in refused
                    /\ PlaceOf(e) = "new"       <=> e \notin offered \cup refused
                    /\ PlaceOf(e) = "buffered"  <=> e \in Held
                    /\ PlaceOf(e) = "evicted"   <=> e \in buf.evicted
                    /\ PlaceOf(e) = "discarded" <=> e \in discarded
                    /\ PlaceOf(e) = "strayed"   <=> e \in strayed
                    /\ PlaceOf(e) = "delivered" <=> e \in Delivered
                    /\ PlaceOf(e) = "failed"    <=> e \in Failed
                    /\ PlaceOf(e) \in Delivery!Places
  BY DEF Placed
<1>1. PlaceOf(e) = CASE e \in refused -> "refused"
                     [] e \notin offered \cup refused -> "new"
                     [] e \in Held -> "buffered"
                     [] e \in buf.evicted -> "evicted"
                     [] e \in discarded -> "discarded"
                     [] e \in strayed -> "strayed"
                     [] e \in Delivered -> "delivered"
                     [] e \in Failed -> "failed"
                     [] OTHER -> "taken"
  BY BufferHeld DEF PlaceOf
<1>2. /\ e \in refused => e \notin offered
      /\ e \in Held \cup Lost \cup Delivered \cup Failed => e \in offered
      /\ e \in Held => e \notin Lost /\ e \notin Delivered /\ e \notin Failed
      /\ e \in Lost => e \notin Delivered /\ e \notin Failed
      /\ ~(e \in buf.evicted /\ e \in discarded)
      /\ ~(e \in buf.evicted \cup discarded /\ e \in strayed)
      /\ ~(e \in Delivered /\ e \in Failed)
      /\ e \in Lost <=> e \in buf.evicted \/ e \in discarded \/ e \in strayed
  BY FatesApart DEF Lost, LostOnce
<1> HIDE DEF Held, Lost, Delivered, Failed
<1> QED
  BY <1>1, <1>2 DEF Delivery!Places

(* An entry about which nothing changes stays in its place. *)
LEMMA SamePlace ==
    ASSUME NEW e,
           e \in refused' <=> e \in refused, e \in offered' <=> e \in offered,
           e \in Held' <=> e \in Held, e \in buf'.evicted <=> e \in buf.evicted,
           e \in discarded' <=> e \in discarded, e \in strayed' <=> e \in strayed,
           e \in Delivered' <=> e \in Delivered, e \in Failed' <=> e \in Failed
    PROVE  PlaceOf(e)' = PlaceOf(e)
<1>1. Buffer!Held = Held /\ Buffer!Held' = Held'
  BY SameLists DEF Buffer!Held, Held
<1> QED
  BY <1>1 DEF PlaceOf

(* after a step as well as before it. *)
LEMMA PlacesMeanNext == IInv' => Placed'
  BY PlacesMean, PTL

(* LogDelivery's view of a step that moves the entries of S to p. *)
LEMMA ThenMoved ==
    ASSUME NEW S, NEW p,
           \A x \in Entries : PlaceOf(x)' = IF x \in S THEN p ELSE PlaceOf(x)
    PROVE  [x \in Entries |-> PlaceOf(x)]' = Delivery!Moved(S, p)
  BY DEF Delivery!Moved

(* A step that moves no entry is none of LogDelivery. *)
LEMMA ThenStutters ==
    ASSUME \A x \in Entries : PlaceOf(x)' = PlaceOf(x), destroyed' = destroyed, early' = early
    PROVE  UNCHANGED Delivery!dvars
  BY DEF Delivery!dvars

(* An entry stays in its place when neither lists, tasks nor fates change. *)
LEMMA NothingMoves ==
    ASSUME UNCHANGED <<buf, offered, discarded, strayed, refused, batch, phase, failed>>, NEW x
    PROVE  PlaceOf(x)' = PlaceOf(x)
<1>1. /\ refused' = refused /\ offered' = offered /\ Held' = Held /\ buf' = buf
      /\ discarded' = discarded /\ strayed' = strayed
      /\ Delivered' = Delivered /\ Failed' = Failed
  BY DEF Held, Delivered, Failed, Finished
<1> HIDE DEF Held, Delivered, Failed
<1> QED
  BY <1>1, SamePlace

(* The phases of a task that has been sent. *)
Done == {"measuring", "settling", "leaving", "done"}

(* A step of the pipeline that ends no task moves no entry. *)
LEMMA NothingEnds ==
    ASSUME UNCHANGED <<buf, offered, discarded, strayed, refused>>, NEW x,
           failed' = failed, failed \subseteq Entries,
           \A k \in Entries : \/ batch'[k] = batch[k] /\ (phase'[k] \in Done <=> phase[k] \in Done)
                              \/ k \notin failed /\ phase[k] \notin Done /\ phase'[k] \notin Done
    PROVE  PlaceOf(x)' = PlaceOf(x)
<1>1. /\ refused' = refused /\ offered' = offered /\ Held' = Held /\ buf' = buf
      /\ discarded' = discarded /\ strayed' = strayed
  BY DEF Held
<1>2. x \in Delivered' <=> x \in Delivered
  <2>1. x \in Delivered <=> \E k \in Entries : x \in batch[k] /\ phase[k] \in Done /\ k \notin failed
    BY DEF Delivered, Finished, Done
  <2>2. x \in Delivered' <=> \E k \in Entries : x \in batch'[k] /\ phase'[k] \in Done /\ k \notin failed'
    BY DEF Delivered, Finished, Done
  <2> QED
    BY <2>1, <2>2
<1>3. x \in Failed' <=> x \in Failed
  <2>1. \A k \in failed : batch'[k] = batch[k]
    OBVIOUS
  <2> QED
    BY <2>1 DEF Failed
<1> HIDE DEF Held, Delivered, Failed
<1> QED
  BY <1>1, <1>2, <1>3, SamePlace

(* log refuses the entry, or has not handed it over yet. *)
LEMMA LogDelivers ==
    ASSUME IInv, IInv', NEW c, NEW e \in Entries, Log(c, e)
    PROVE  [Delivery!DeliveryNext]_(Delivery!dvars)
<1>1. /\ e \notin offered \cup refused /\ destroyed' = destroyed /\ early' = early
      /\ UNCHANGED <<bufferVars, queueVars, batch>>
  BY DEF Log
<1>2. /\ buf' = buf /\ offered' = offered /\ discarded' = discarded /\ strayed' = strayed
      /\ batch' = batch /\ phase' = phase /\ failed' = failed
  BY <1>1 DEF bufferVars, queueVars
<1>3. CASE refused' = refused
  BY <1>1, <1>2, <1>3, NothingMoves, ThenStutters
<1>4. CASE refused' = refused \cup {e}
  <2>1. ASSUME NEW x \in Entries
        PROVE  PlaceOf(x)' = IF x \in {e} THEN "refused" ELSE PlaceOf(x)
    <3>1. CASE x = e
      BY <1>4, <3>1, PlacesMeanNext DEF Placed
    <3>2. CASE x # e
      <4>1. /\ x \in refused' <=> x \in refused
            /\ x \in offered' <=> x \in offered
            /\ Held' = Held /\ buf' = buf /\ discarded' = discarded /\ strayed' = strayed
            /\ Delivered' = Delivered /\ Failed' = Failed
        BY <1>2, <1>4, <3>2 DEF Held, Delivered, Failed, Finished
      <4> HIDE DEF Held, Delivered, Failed
      <4> QED
        BY <3>2, <4>1, SamePlace
    <3> QED
      BY <3>1, <3>2
  <2>2. PlaceOf(e) = "new"
    BY <1>1, PlacesMean DEF Placed
  <2>3. [x \in Entries |-> PlaceOf(x)]' = Delivery!Moved({e}, "refused")
    BY <2>1, ThenMoved
  <2>4. Delivery!Refuse(e)
    BY <1>1, <2>2, <2>3 DEF Delivery!Refuse
  <2> QED
    BY <2>4 DEF Delivery!DeliveryNext
<1> QED
  BY <1>3, <1>4 DEF Log

(* add accepts the entry; back-pressure evicts; a destroyed buffer         *)
(* discards.                                                               *)
LEMMA AddDelivers ==
    ASSUME IInv, IInv', NEW th \in Threads, AddEntry(th)
    PROVE  [Delivery!DeliveryNext]_(Delivery!dvars)
<1> DEFINE e == Head(hand[th])
<1>1. /\ pc[th] = "add"
      /\ Buffer!Add(th, e) \/ Buffer!AddRaises(th, e)
      /\ UNCHANGED <<queueVars, batch, callVars>>
  BY DEF AddEntry
<1>2. th \notin Timers /\ e \in Entries /\ e \notin refused
  BY <1>1, Facts, LoggersApart DEF ThreadRight, ServiceTyped
<1> HIDE DEF e
<1>3. /\ bufferDestroyed' = bufferDestroyed /\ strayed' = strayed
      /\ e \notin offered /\ offered' = offered \cup {e}
      /\ bufferDestroyed => buf' = buf /\ discarded' = discarded \cup {e}
      /\ ~bufferDestroyed => /\ discarded' = discarded
                             /\ Held' \cup buf'.evicted = Held \cup buf.evicted \cup {e}
                             /\ buf.evicted \subseteq buf'.evicted
  BY <1>1, <1>2, AddEffect, AddRaisesEffect DEF IInv
<1>4. /\ destroyed' = destroyed /\ early' = early /\ refused' = refused
      /\ batch' = batch /\ phase' = phase /\ failed' = failed
  BY <1>1 DEF callVars, queueVars
<1>5. Delivered' = Delivered /\ Failed' = Failed
  BY <1>4 DEF Delivered, Failed, Finished
<1>6. Placed /\ Placed'
  BY PlacesMean, PlacesMeanNext
<1>7. /\ PlaceOf(e) = "new" /\ Held \cap buf.evicted = {} /\ Held' \cap buf'.evicted = {}
      /\ e \notin Held /\ e \notin buf.evicted
  <2>1. PlaceOf(e) = "new"
    BY <1>2, <1>3, <1>6 DEF Placed
  <2>2. Held \cap buf.evicted = {} /\ e \notin Held /\ e \notin buf.evicted
    BY <1>3, BufferSets DEF IInv
  <2>3. Separate'
    BY DEF IInv
  <2> QED
    BY <2>1, <2>2, <2>3 DEF Separate, Lost
<1> HIDE DEF Held, Delivered, Failed
<1>8. CASE bufferDestroyed
  <2>1. ASSUME NEW x \in Entries
        PROVE  PlaceOf(x)' = IF x \in {e} THEN "discarded" ELSE PlaceOf(x)
    <3>1. CASE x = e
      BY <1>3, <1>6, <1>8, <3>1 DEF Placed
    <3>2. CASE x # e
      <4>1. Held' = Held
        BY <1>3, <1>8 DEF Held
      <4>2. /\ x \in refused' <=> x \in refused
            /\ x \in offered' <=> x \in offered
            /\ x \in discarded' <=> x \in discarded
            /\ buf' = buf /\ strayed' = strayed
        BY <1>3, <1>4, <1>8, <3>2
      <4> QED
        BY <1>5, <3>2, <4>1, <4>2, SamePlace
    <3> QED
      BY <3>1, <3>2
  <2>2. [x \in Entries |-> PlaceOf(x)]' = Delivery!Moved({e}, "discarded")
    BY <2>1, ThenMoved
  <2>3. destroyed
    BY <1>8 DEF IInv, TimersRight
  <2>4. Delivery!DiscardLate(e)
    BY <1>2, <1>4, <1>7, <2>2, <2>3 DEF Delivery!DiscardLate
  <2> QED
    BY <1>2, <2>4 DEF Delivery!DeliveryNext
<1>9. CASE ~bufferDestroyed
  <2> DEFINE out == buf'.evicted \ buf.evicted
  <2>1. /\ discarded' = discarded /\ buf.evicted \subseteq buf'.evicted
        /\ Held' \cup buf'.evicted = Held \cup buf.evicted \cup {e}
    BY <1>3, <1>9
  <2>2. out \subseteq Held \cup {e}
    BY <2>1
  <2>3. ASSUME NEW x \in Entries
        PROVE  PlaceOf(x)' = IF x \in out THEN "evicted" ELSE IF x = e THEN "buffered" ELSE PlaceOf(x)
    <3>1. CASE x \in out
      BY <1>6, <3>1 DEF Placed
    <3>2. CASE x \notin out /\ x = e
      <4>1. e \in Held'
        BY <1>7, <2>1, <3>2
      <4> QED
        BY <1>2, <1>6, <3>2, <4>1 DEF Placed
    <3>3. CASE x \notin out /\ x # e
      <4>1. /\ x \in buf'.evicted <=> x \in buf.evicted
            /\ x \in Held' <=> x \in Held
        BY <1>7, <2>1, <3>3
      <4>2. /\ x \in refused' <=> x \in refused
            /\ x \in offered' <=> x \in offered
            /\ x \in discarded' <=> x \in discarded
            /\ strayed' = strayed
        BY <1>3, <1>4, <2>1, <3>3
      <4> QED
        BY <1>5, <3>3, <4>1, <4>2, SamePlace
    <3> QED
      BY <3>1, <3>2, <3>3
  <2>4. out \in SUBSET (Delivery!At("buffered") \cup {e})
    <3>1. buf'.evicted \subseteq Entries
      BY BufferSets, <1>2, <2>1, Facts DEF IInv
    <3> QED
      BY <1>6, <2>2, <3>1 DEF Delivery!At, Placed
  <2> HIDE DEF out
  <2>5. Delivery!Accept(e)
    BY <1>2, <1>4, <1>7, <2>3, <2>4 DEF Delivery!Accept
  <2> QED
    BY <1>2, <2>5 DEF Delivery!DeliveryNext
<1> QED
  BY <1>8, <1>9

(* flush of the buffer takes all it holds; it goes astray when it raises. *)
LEMMA DrainDelivers ==
    ASSUME IInv, IInv', NEW th \in Threads, Drain(th)
    PROVE  [Delivery!DeliveryNext]_(Delivery!dvars)
<1>1. Buffer!Flush(th) \/ Buffer!FlushRaises(th)
  BY DEF Drain
<1>2. /\ Held' = {} /\ buf'.evicted = buf.evicted /\ offered' = offered
      /\ discarded' = discarded
      /\ \/ strayed' = strayed
         \/ strayed' = strayed \cup Held /\ AutoFlush /\ StartMayFail
  BY <1>1, FlushEffect, FlushRaisesEffect DEF IInv
<1>3. /\ destroyed' = destroyed /\ early' = early /\ refused' = refused
      /\ batch' = batch /\ phase' = phase /\ failed' = failed
  BY DEF Drain, queueVars
<1>4. Delivered' = Delivered /\ Failed' = Failed
  BY <1>3 DEF Delivered, Failed, Finished
<1>5. Placed /\ Placed'
  BY PlacesMean, PlacesMeanNext
<1>6. /\ \A x \in Held : /\ x \in offered /\ x \notin refused /\ x \notin buf.evicted
                         /\ x \notin discarded /\ x \notin strayed /\ x \notin Delivered /\ x \notin Failed
      /\ Held \subseteq Entries
  BY FatesApart, Facts DEF Lost
<1> HIDE DEF Held, Delivered, Failed
<1>7. ASSUME NEW x \in Entries, x \notin Held
      PROVE  PlaceOf(x)' = PlaceOf(x)
  <2>1. (x \in Held' <=> x \in Held) /\ (x \in strayed' <=> x \in strayed)
    BY <1>2, <1>7
  <2> QED
    BY <1>2, <1>3, <1>4, <2>1, SamePlace
<1>8. Delivery!At("buffered") = Held
  BY <1>5, <1>6 DEF Delivery!At, Placed
<1>9. CASE strayed' = strayed
  <2>1. ASSUME NEW x \in Entries, x \in Held
        PROVE  PlaceOf(x)' = "taken"
    BY <1>2, <1>3, <1>4, <1>5, <1>6, <1>9, <2>1 DEF Placed, Delivery!Places
  <2>2. [x \in Entries |-> PlaceOf(x)]' = Delivery!Moved(Held, "taken")
    BY <1>7, <2>1, ThenMoved
  <2>3. Delivery!Take
    BY <1>3, <1>8, <2>2 DEF Delivery!Take
  <2> QED
    BY <2>3 DEF Delivery!DeliveryNext
<1>10. CASE strayed' = strayed \cup Held /\ AutoFlush /\ StartMayFail
  <2>1. ASSUME NEW x \in Entries, x \in Held
        PROVE  PlaceOf(x)' = "strayed"
    BY <1>5, <1>10, <2>1 DEF Placed
  <2>2. [x \in Entries |-> PlaceOf(x)]' = Delivery!Moved(Held, "strayed")
    BY <1>7, <2>1, ThenMoved
  <2>3. Delivery!Stray
    BY <1>3, <1>8, <1>10, <2>2 DEF Delivery!Stray
  <2> QED
    BY <2>3 DEF Delivery!DeliveryNext
<1> QED
  BY <1>2, <1>9, <1>10

(* destroy of the buffer discards what came too late. *)
LEMMA CloseBufferDelivers ==
    ASSUME IInv, IInv', NEW th \in Threads, CloseBuffer(th)
    PROVE  [Delivery!DeliveryNext]_(Delivery!dvars)
<1>1. /\ pc[th] = "close_buffer" /\ Buffer!Destroy(th)
      /\ UNCHANGED <<queueVars, batch, callVars>>
  BY DEF CloseBuffer
<1>2. /\ Held' = {} /\ buf'.evicted = buf.evicted /\ offered' = offered
      /\ discarded' = discarded \cup Held /\ strayed' = strayed
  BY <1>1, DestroyEffect DEF IInv
<1>3. /\ destroyed' = destroyed /\ early' = early /\ refused' = refused
      /\ batch' = batch /\ phase' = phase /\ failed' = failed
  BY <1>1 DEF callVars, queueVars
<1>4. Delivered' = Delivered /\ Failed' = Failed
  BY <1>3 DEF Delivered, Failed, Finished
<1>5. Placed /\ Placed' /\ Held \subseteq Entries
  BY PlacesMean, PlacesMeanNext, Facts
<1>6. destroyed /\ early \cap Held = {}
  BY <1>1, Facts DEF ThreadRight, Flushing
<1> HIDE DEF Held, Delivered, Failed
<1>7. ASSUME NEW x \in Entries
      PROVE  PlaceOf(x)' = IF x \in Held THEN "discarded" ELSE PlaceOf(x)
  <2>1. CASE x \in Held
    BY <1>2, <1>5, <2>1 DEF Placed
  <2>2. CASE x \notin Held
    <3>1. /\ x \in Held' <=> x \in Held
          /\ x \in discarded' <=> x \in discarded
      BY <1>2, <2>2
    <3> QED
      BY <1>2, <1>3, <1>4, <2>2, <3>1, SamePlace
  <2> QED
    BY <2>1, <2>2
<1>8. Delivery!At("buffered") = Held
  BY <1>5 DEF Delivery!At, Placed
<1>9. [x \in Entries |-> PlaceOf(x)]' = Delivery!Moved(Held, "discarded")
  BY <1>7, ThenMoved
<1>10. Delivery!At("buffered") \cap early = {}
  BY <1>6, <1>8
<1>11. Delivery!Discard
  BY <1>3, <1>6, <1>8, <1>9, <1>10 DEF Delivery!Discard
<1> QED
  BY <1>11 DEF Delivery!DeliveryNext

(* Setting _destroyed closes the service. *)
LEMMA MarkDelivers ==
    ASSUME IInv, NEW th \in Threads, MarkDestroyed(th)
    PROVE  [Delivery!DeliveryNext]_(Delivery!dvars)
<1>1. /\ destroyed' = TRUE /\ early' = IF destroyed THEN early ELSE offered
      /\ UNCHANGED <<bufferVars, queueVars, batch, refused>>
  BY DEF MarkDestroyed
<1>2. UNCHANGED <<buf, offered, discarded, strayed, refused, batch, phase, failed>>
  BY <1>1 DEF bufferVars, queueVars
<1>3. \A x \in Entries : PlaceOf(x)' = PlaceOf(x)
  BY <1>2, NothingMoves
<1>4. [x \in Entries |-> PlaceOf(x)]' = [x \in Entries |-> PlaceOf(x)]
  BY <1>3
<1>5. Entries \ (Delivery!At("new") \cup Delivery!At("refused")) = offered
  <2>1. Placed /\ refused \cap offered = {} /\ offered \subseteq Entries
    BY PlacesMean, FatesApart, Facts
  <2> QED
    BY <2>1 DEF Delivery!At, Placed
<1>6. Delivery!Close
  BY <1>1, <1>4, <1>5 DEF Delivery!Close
<1> QED
  BY <1>6 DEF Delivery!DeliveryNext

(* _enqueue_flush moves no entry: what was taken stays taken. *)
LEMMA EnqueueDelivers ==
    ASSUME IInv, NEW th \in Threads, EnqueueFlush(th)
    PROVE  [Delivery!DeliveryNext]_(Delivery!dvars)
<1> DEFINE k == Head(hand[th])
<1>1. /\ pc[th] = "enqueue" /\ Queue!Enqueue(k)
      /\ batch' = [batch EXCEPT ![k] = Seqs!ToSet(hand[th])]
      /\ UNCHANGED <<bufferVars, destroyed, refused, early>>
  BY DEF EnqueueFlush
<1>2. k \in Entries
  BY <1>1, Facts DEF ServiceTyped, ThreadRight
<1> HIDE DEF k
<1>3. /\ phase[k] = "new" /\ phase'[k] \in {"queued", "sending", "stranded"}
      /\ failed' = failed /\ \A j \in Entries \ {k} : Started(j, phase)
  BY <1>1, <1>2, EnqueueEffect DEF IInv
<1>4. /\ failed \subseteq Entries /\ k \notin failed
      /\ \A j \in Entries \ {k} : batch'[j] = batch[j]
  BY <1>1, <1>3, <1>2, Facts DEF IInv, QP!IInv, QP!TypeOK, TasksRight, ServiceTyped
<1>5. UNCHANGED <<buf, offered, discarded, strayed, refused>> /\ destroyed' = destroyed /\ early' = early
  BY <1>1 DEF bufferVars
<1>6. \A j \in Entries :
         \/ batch'[j] = batch[j] /\ (phase'[j] \in Done <=> phase[j] \in Done)
         \/ j \notin failed /\ phase[j] \notin Done /\ phase'[j] \notin Done
  BY <1>3, <1>4 DEF Started, Done
<1>7. \A x \in Entries : PlaceOf(x)' = PlaceOf(x)
  BY <1>3, <1>4, <1>5, <1>6, NothingEnds
<1> QED
  BY <1>5, <1>7, ThenStutters

(* What a task is about to send has been taken and has no fate yet. *)
LEMMA SendingIsTaken ==
    ASSUME IInv, NEW k \in Entries, phase[k] = "sending"
    PROVE  /\ k \notin failed /\ batch[k] \subseteq Entries
           /\ batch[k] \subseteq Delivery!At("taken")
<1>1. /\ Separate /\ Covered /\ Placed /\ refused \cap offered = {}
      /\ failed \subseteq Entries /\ offered \subseteq Entries
      /\ k \notin failed
  BY PlacesMean, Facts DEF IInv, QP!IInv, QP!TypeOK, TasksRight
<1>2. ASSUME NEW x \in batch[k]
      PROVE  PlaceOf(x) = "taken" /\ x \in Entries
  <2>1. /\ x \in offered /\ x \in Entries /\ x \notin refused /\ x \notin Held
        /\ x \notin buf.evicted /\ x \notin discarded /\ x \notin strayed
    BY <1>1 DEF Separate, Covered, Lost
  <2>2. \A j \in Entries : x \in batch[j] => j = k
    BY <1>1 DEF Separate
  <2>3. x \notin Delivered
    BY <1>1, <2>2 DEF Delivered, Finished
  <2>4. x \notin Failed
    BY <1>1, <2>2 DEF Failed
  <2> HIDE DEF Held, Delivered, Failed
  <2> QED
    BY <1>1, <2>1, <2>3, <2>4 DEF Placed, Delivery!Places
<1> QED
  BY <1>1, <1>2 DEF Delivery!At

(* The transport accepts or refuses the batch of a task. *)
LEMMA SendDelivers ==
    ASSUME IInv, IInv', NEW k \in Entries, Worker(k), Queue!Send(k)
    PROVE  [Delivery!DeliveryNext]_(Delivery!dvars)
<1> DEFINE outcome == IF k \in failed' THEN "failed" ELSE "delivered"
<1>1. /\ phase[k] = "sending"
      /\ UNCHANGED <<bufferVars, pc, hand, batch, callVars>>
  BY DEF Worker, Queue!Send, Queue!SendOk, Queue!SendFail, Queue!Advance
<1>2. /\ phase \in [Entries -> QP!Phases] /\ failed \subseteq Entries
      /\ Placed' /\ batch[k] \subseteq Delivery!At("taken")
      /\ k \notin failed /\ batch[k] \subseteq Entries
  BY <1>1, SendingIsTaken, PlacesMeanNext DEF IInv, QP!IInv, QP!TypeOK
<1>3. /\ phase'[k] \in {"measuring", "settling"}
      /\ \A j \in Entries \ {k} : phase'[j] = phase[j]
      /\ failed' = failed \/ failed' = failed \cup {k}
  BY <1>2 DEF Queue!Send, Queue!SendOk, Queue!SendFail, Queue!Advance
<1>4. /\ refused' = refused /\ offered' = offered /\ Held' = Held /\ buf' = buf
      /\ discarded' = discarded /\ strayed' = strayed /\ batch' = batch
      /\ destroyed' = destroyed /\ early' = early
  BY <1>1 DEF bufferVars, callVars, Held
<1>5. ASSUME NEW x \in Entries
      PROVE  PlaceOf(x)' = IF x \in batch[k] THEN outcome ELSE PlaceOf(x)
  <2>1. /\ x \in Delivered <=> \E j \in Entries : x \in batch[j] /\ phase[j] \in Done /\ j \notin failed
        /\ x \in Failed <=> \E j \in failed : x \in batch[j]
    BY DEF Delivered, Failed, Finished, Done
  <2>2. /\ x \in Delivered' <=> \E j \in Entries : x \in batch[j] /\ phase'[j] \in Done /\ j \notin failed'
        /\ x \in Failed' <=> \E j \in failed' : x \in batch[j]
    BY <1>4 DEF Delivered, Failed, Finished, Done
  <2> HIDE DEF Held, Delivered, Failed
  <2>3. CASE x \in batch[k]
    <3>1. CASE k \in failed'
      <4>1. x \in Failed'
        BY <2>2, <2>3, <3>1
      <4> QED
        BY <1>2, <2>3, <3>1, <4>1 DEF Placed
    <3>2. CASE k \notin failed'
      <4>1. x \in Delivered'
        BY <1>3, <2>2, <2>3, <3>2 DEF Done
      <4> QED
        BY <1>2, <2>3, <3>2, <4>1 DEF Placed
    <3> QED
      BY <3>1, <3>2
  <2>4. CASE x \notin batch[k]
    <3>1. (x \in Delivered' <=> x \in Delivered) /\ (x \in Failed' <=> x \in Failed)
      BY <1>3, <2>1, <2>2, <2>4
    <3> QED
      BY <1>4, <2>4, <3>1, SamePlace
  <2> QED
    BY <2>3, <2>4
<1>6. outcome \in {"delivered", "failed"}
  OBVIOUS
<1> HIDE DEF outcome
<1>7. [x \in Entries |-> PlaceOf(x)]' = Delivery!Moved(batch[k], outcome)
  <2>1. \E o \in {"delivered", "failed"} :
           /\ o = outcome
           /\ \A x \in Entries : PlaceOf(x)' = IF x \in batch[k] THEN o ELSE PlaceOf(x)
    BY <1>5, <1>6
  <2> QED
    BY <2>1, ThenMoved
<1>8. Delivery!Finish(batch[k], outcome)
  BY <1>2, <1>4, <1>7 DEF Delivery!Finish
<1> QED
  BY <1>2, <1>6, <1>8 DEF Delivery!DeliveryNext

(* The other steps of a worker move no entry. *)
LEMMA OtherWorkerDelivers ==
    ASSUME IInv, NEW k \in Entries, Worker(k), ~Queue!Send(k)
    PROVE  [Delivery!DeliveryNext]_(Delivery!dvars)
<1>1. /\ Queue!Measure(k) \/ Queue!Settle(k) \/ Queue!Leave(k)
      /\ UNCHANGED <<bufferVars, pc, hand, batch, callVars>>
  BY DEF Worker, WorkerMeasure
<1>2. /\ UNCHANGED <<buf, offered, discarded, strayed, refused>>
      /\ batch' = batch /\ destroyed' = destroyed /\ early' = early
  BY <1>1 DEF bufferVars, callVars
<1>3. phase \in [Entries -> QP!Phases] /\ failed \subseteq Entries
  BY DEF IInv, QP!IInv, QP!TypeOK
<1>4. failed' = failed /\ \A j \in Entries : phase'[j] \in Done <=> phase[j] \in Done
  <2>1. CASE Queue!Measure(k) \/ Queue!Settle(k)
    BY <1>3, <2>1 DEF Queue!Measure, Queue!Settle, Queue!Advance, Done
  <2>2. CASE Queue!Leave(k)
    BY <2>2, LeaveEffect DEF IInv, Started, Done
  <2> QED
    BY <1>1, <2>1, <2>2
<1>5. \A x \in Entries : PlaceOf(x)' = PlaceOf(x)
  BY <1>2, <1>3, <1>4, NothingEnds
<1> QED
  BY <1>2, <1>5, ThenStutters

(* Nor do the remaining steps of the service. *)
LEMMA OthersDeliver ==
    ASSUME IInv,
           \/ \E c \in Callers : CallFlush(c) \/ CallDestroy(c) \/ CallReadOut(c)
           \/ \E th \in Threads : \/ UpdateMetrics(th) \/ Check(th) \/ Size(th) \/ AwaitEvent(th)
                                  \/ WaitForQueueIdle(th) \/ CloseTransport(th)
           \/ \E t \in Timers : TimerThread(t)
           \/ \E e \in Entries : Kick(e)
           \/ UNCHANGED vars
    PROVE  [Delivery!DeliveryNext]_(Delivery!dvars)
<1>1. /\ UNCHANGED <<buf, offered, discarded, strayed, refused, batch, phase, failed>>
      /\ destroyed' = destroyed /\ early' = early
  <2>1. CASE \E c \in Callers : CallFlush(c) \/ CallDestroy(c) \/ CallReadOut(c)
    BY <2>1 DEF CallFlush, CallDestroy, CallReadOut, bufferVars, queueVars, callVars
  <2>2. CASE \E th \in Threads : \/ UpdateMetrics(th) \/ Check(th) \/ Size(th) \/ AwaitEvent(th)
                                 \/ WaitForQueueIdle(th) \/ CloseTransport(th)
    BY <2>2 DEF UpdateMetrics, Check, Size, AwaitEvent, WaitForQueueIdle, CloseTransport,
                bufferVars, queueVars, callVars
  <2>3. CASE \E t \in Timers : TimerThread(t)
    BY <2>3 DEF TimerThread, TimerExpires, TimerEnters, TimerLeaves, Buffer!Expire,
                Buffer!TimerEnter, Buffer!TimerLeave, queueVars, callVars
  <2>4. CASE \E e \in Entries : Kick(e)
    BY <2>4 DEF Kick, Buffer!KickStart, queueVars
  <2>5. CASE UNCHANGED vars
    BY <2>5 DEF vars, bufferVars, queueVars, callVars
  <2> QED
    BY <2>1, <2>2, <2>3, <2>4, <2>5
<1>2. \A x \in Entries : PlaceOf(x)' = PlaceOf(x)
  BY <1>1, NothingMoves
<1> QED
  BY <1>1, <1>2, ThenStutters

(* The service implements the delivery promise, step by step: whatever the *)
(* threads do, an entry is sent at most once, has one fate, and destroy    *)
(* throws away nothing that was added before _destroyed was set.           *)
THEOREM Delivers == Spec => DeliversAsPromised
<1>1. Init => Delivery!DeliveryInit
  <2> SUFFICES ASSUME Init PROVE Delivery!DeliveryInit
    OBVIOUS
  <2>1. /\ destroyed = FALSE /\ early = {} /\ refused = {} /\ offered = {}
    BY DEF Init, Buffer!Init
  <2>2. \A x \in Entries : PlaceOf(x) = "new"
    BY <2>1, InitRight, PlacesMean DEF Placed
  <2> QED
    BY <2>1, <2>2 DEF Delivery!DeliveryInit
<1>2. IInv /\ IInv' /\ [Next]_vars => [Delivery!DeliveryNext]_(Delivery!dvars)
  <2> SUFFICES ASSUME IInv, IInv', [Next]_vars
               PROVE  [Delivery!DeliveryNext]_(Delivery!dvars)
    OBVIOUS
  <2>1. ASSUME NEW c \in Callers, NEW e \in Entries, Log(c, e)
        PROVE  [Delivery!DeliveryNext]_(Delivery!dvars)
    BY <2>1, LogDelivers
  <2>2. ASSUME NEW th \in Threads, Step(th)
        PROVE  [Delivery!DeliveryNext]_(Delivery!dvars)
    <3>1. CASE AddEntry(th)
      BY <3>1, AddDelivers
    <3>2. CASE Drain(th)
      BY <3>2, DrainDelivers
    <3>3. CASE EnqueueFlush(th)
      BY <3>3, EnqueueDelivers
    <3>4. CASE MarkDestroyed(th)
      BY <3>4, MarkDelivers
    <3>5. CASE CloseBuffer(th)
      BY <3>5, CloseBufferDelivers
    <3>6. CASE \/ UpdateMetrics(th) \/ Check(th) \/ Size(th) \/ AwaitEvent(th)
               \/ WaitForQueueIdle(th) \/ CloseTransport(th)
      BY <3>6, OthersDeliver
    <3> QED
      BY <2>2, <3>1, <3>2, <3>3, <3>4, <3>5, <3>6 DEF Step
  <2>3. ASSUME NEW k \in Entries, Worker(k)
        PROVE  [Delivery!DeliveryNext]_(Delivery!dvars)
    BY <2>3, SendDelivers, OtherWorkerDelivers
  <2>4. ASSUME \/ \E c \in Callers : CallFlush(c) \/ CallDestroy(c) \/ CallReadOut(c)
               \/ \E t \in Timers : TimerThread(t)
               \/ \E e \in Entries : Kick(e)
               \/ UNCHANGED vars
        PROVE  [Delivery!DeliveryNext]_(Delivery!dvars)
    BY <2>4, OthersDeliver
  <2>5. ASSUME NEW k \in Entries, NEW e \in Entries, WorkerLogs(k, e)
        PROVE  [Delivery!DeliveryNext]_(Delivery!dvars)
    BY <2>5, LogDelivers DEF WorkerLogs
  <2> QED
    BY <2>1, <2>2, <2>3, <2>4, <2>5 DEF Next
<1> QED
  BY <1>1, <1>2, Invariant, PTL DEF Spec, DeliversAsPromised, Delivery!DeliverySpec

-----------------------------------------------------------------------------
(* Who waits for whom.                                                     *)

(* A task that was created is never new again. *)
LEMMA TasksGoOn ==
    ASSUME IInv, [Next]_vars, NEW j \in Entries, phase[j] # "new"
    PROVE  phase'[j] # "new"
<1>1. phase \in [Entries -> QP!Phases] /\ QP!IInv
  BY DEF IInv, QP!IInv, QP!TypeOK
<1>2. ASSUME NEW k \in Entries, Queue!Enqueue(k)
      PROVE  phase'[j] # "new"
  BY <1>1, <1>2, EnqueueEffect DEF Started
<1>3. ASSUME NEW k \in Entries, Worker(k)
      PROVE  phase'[j] # "new"
  <2>1. CASE Queue!Send(k) \/ Queue!Measure(k) \/ Queue!Settle(k)
    BY <1>1, <2>1 DEF Queue!Send, Queue!SendOk, Queue!SendFail, Queue!Measure,
                      Queue!Settle, Queue!Advance
  <2>2. CASE Queue!Leave(k)
    BY <1>1, <2>2, LeaveEffect DEF Started
  <2> QED
    BY <1>3, <2>1, <2>2 DEF Worker, WorkerMeasure
<1>4. CASE UNCHANGED phase
  BY <1>4
<1>5. CASE UNCHANGED vars
  BY <1>4, <1>5 DEF vars, queueVars
<1>6. ASSUME NEW th \in Threads, Step(th)
      PROVE  phase'[j] # "new"
  <2>1. CASE EnqueueFlush(th)
    <3>1. hand[th] # <<>> /\ hand[th] \in Seq(Entries)
      BY <2>1, Facts DEF EnqueueFlush, ServiceTyped, ThreadRight
    <3>2. Head(hand[th]) \in Entries
      BY <3>1
    <3> QED
      BY <1>2, <2>1, <3>2 DEF EnqueueFlush
  <2>2. CASE ~EnqueueFlush(th)
    BY <1>4, <1>6, <2>2 DEF Step, AddEntry, UpdateMetrics, Check, Size, Drain, AwaitEvent,
              WaitForQueueIdle, MarkDestroyed, CloseBuffer, CloseTransport, queueVars
  <2> QED
    BY <2>1, <2>2
<1>9. CASE \E k, e \in Entries : WorkerLogs(k, e)
  BY <1>4, <1>9 DEF WorkerLogs, Log, queueVars
<1>7. CASE \E c \in Callers : \/ \E e \in Entries : Log(c, e)
                              \/ CallFlush(c) \/ CallDestroy(c) \/ CallReadOut(c)
  BY <1>4, <1>7 DEF Log, CallFlush, CallDestroy, CallReadOut, queueVars
<1>8. CASE (\E t \in Timers : TimerThread(t)) \/ (\E e \in Entries : Kick(e))
  BY <1>4, <1>8 DEF TimerThread, TimerExpires, TimerEnters, TimerLeaves, Kick, queueVars
<1> QED
  BY <1>3, <1>5, <1>6, <1>7, <1>8, <1>9 DEF Next

(* A thread that waits for an event has waited before, or has just made    *)
(* the task.                                                               *)
LEMMA BeginsToWait ==
    ASSUME IInv, [Next]_vars, NEW th \in Threads, pc'[th] = "event"
    PROVE  \/ pc[th] = "event" /\ hand'[th] = hand[th]
           \/ EnqueueFlush(th) /\ hand' = hand
<1>1. pc \in [Threads -> Steps] /\ hand \in [Threads -> Seq(Entries)]
  BY Facts DEF ServiceTyped
<1>2. ASSUME NEW x \in Threads, NEW step, Goto(x, step),
             hand' = hand \/ \E h : hand' = [hand EXCEPT ![x] = h],
             step # "event"
      PROVE  pc[th] = "event" /\ hand'[th] = hand[th]
  <2>1. x # th
    BY <1>1, <1>2 DEF Goto
  <2> QED
    BY <1>1, <1>2, <2>1 DEF Goto
<1>3. CASE pc' = pc /\ hand' = hand
  BY <1>3
<1>4. CASE UNCHANGED vars
  BY <1>3, <1>4 DEF vars
<1>5. ASSUME NEW x \in Threads, Step(x)
      PROVE  \/ pc[th] = "event" /\ hand'[th] = hand[th]
             \/ EnqueueFlush(th) /\ hand' = hand
  <2>1. ASSUME Return(x)
        PROVE  pc[th] = "event" /\ hand'[th] = hand[th]
    BY <1>2, <2>1 DEF Return
  <2>2. ASSUME Raise(x)
        PROVE  pc[th] = "event" /\ hand'[th] = hand[th]
    BY <1>2, <2>1, <2>2 DEF Raise
  <2>3. CASE AddEntry(x)
    BY <1>2, <2>3 DEF AddEntry
  <2>4. CASE UpdateMetrics(x) \/ CloseBuffer(x)
    BY <1>2, <2>4 DEF UpdateMetrics, CloseBuffer
  <2>5. CASE Check(x)
    BY <1>2, <2>1, <2>5 DEF Check
  <2>6. CASE Size(x)
    BY <1>2, <2>6 DEF Size
  <2>7. CASE Drain(x)
    BY <1>2, <2>2, <2>7 DEF Drain
  <2>8. CASE EnqueueFlush(x)
    <3>1. CASE Raise(x)
      BY <2>2, <3>1
    <3>2. CASE Goto(x, "event") /\ hand' = hand
      BY <1>1, <2>8, <3>2 DEF Goto
    <3> QED
      BY <2>8, <3>1, <3>2 DEF EnqueueFlush
  <2>9. CASE AwaitEvent(x)
    BY <1>2, <2>2, <2>9 DEF AwaitEvent
  <2>10. CASE WaitForQueueIdle(x)
    BY <1>2, <2>1, <2>10 DEF WaitForQueueIdle
  <2>11. CASE MarkDestroyed(x)
    BY <1>2, <2>11 DEF MarkDestroyed
  <2>12. CASE CloseTransport(x)
    BY <2>1, <2>12 DEF CloseTransport
  <2> QED
    BY <1>5, <2>3, <2>4, <2>5, <2>6, <2>7, <2>8, <2>9, <2>10, <2>11, <2>12 DEF Step
<1>6. ASSUME NEW c \in Callers, \/ \E e \in Entries : Log(c, e)
                                \/ CallFlush(c) \/ CallDestroy(c) \/ CallReadOut(c)
      PROVE  pc[th] = "event" /\ hand'[th] = hand[th]
  <2>1. c \in Threads
    BY DEF Threads
  <2>2. CASE \E e \in Entries : Log(c, e)
    BY <1>2, <1>3, <2>1, <2>2 DEF Log
  <2>3. CASE CallFlush(c) \/ CallDestroy(c) \/ CallReadOut(c)
    BY <1>2, <2>1, <2>3 DEF CallFlush, CallDestroy, CallReadOut
  <2> QED
    BY <1>6, <2>2, <2>3
<1>7. ASSUME NEW t \in Timers, TimerThread(t)
      PROVE  pc[th] = "event" /\ hand'[th] = hand[th]
  <2>1. t \in Threads
    BY DEF Threads
  <2> QED
    BY <1>2, <1>3, <1>7, <2>1 DEF TimerThread, TimerExpires, TimerEnters, TimerLeaves
<1>8. ASSUME NEW e \in Entries, Kick(e)
      PROVE  pc[th] = "event" /\ hand'[th] = hand[th]
  <2>1. e \in Threads
    BY DEF Threads
  <2> QED
    BY <1>2, <1>8, <2>1 DEF Kick
<1>9. CASE \E k \in Entries : Worker(k)
  BY <1>3, <1>9 DEF Worker
<1>10. ASSUME NEW k \in Entries, NEW e \in Entries, WorkerLogs(k, e)
       PROVE  pc[th] = "event" /\ hand'[th] = hand[th]
  <2>1. WorkerOf[k] \in Threads
    BY DEF Threads, Workers
  <2> QED
    BY <1>2, <1>3, <1>10, <2>1 DEF WorkerLogs, Log
<1> QED
  BY <1>4, <1>5, <1>6, <1>7, <1>8, <1>9, <1>10 DEF Next

(* A thread waits only for an event of a task that was created. *)
Awaited ==
    \A th \in Threads : pc[th] = "event" => phase[Head(hand[th])] # "new"

LEMMA AwaitedKept ==
    ASSUME IInv, Awaited, [Next]_vars
    PROVE  Awaited'
<1> SUFFICES ASSUME NEW th \in Threads, pc'[th] = "event"
             PROVE  phase'[Head(hand'[th])] # "new"
  BY DEF Awaited
<1>1. CASE pc[th] = "event" /\ hand'[th] = hand[th]
  <2>1. hand[th] # <<>> /\ hand[th] \in Seq(Entries)
    BY <1>1, Facts DEF ServiceTyped, ThreadRight
  <2>2. Head(hand[th]) \in Entries
    BY <2>1
  <2> QED
    BY <1>1, <2>2, TasksGoOn DEF Awaited
<1>2. CASE EnqueueFlush(th) /\ hand' = hand
  <2>1. hand[th] # <<>> /\ hand[th] \in Seq(Entries)
    BY <1>2, Facts DEF EnqueueFlush, ServiceTyped, ThreadRight
  <2>2. Head(hand[th]) \in Entries /\ Queue!Enqueue(Head(hand[th]))
    BY <1>2, <2>1 DEF EnqueueFlush
  <2> QED
    BY <1>2, <2>2, EnqueueEffect DEF IInv
<1> QED
  BY <1>1, <1>2, BeginsToWait

(* If nobody can go on and no slot is lost, a worker waits for the lock    *)
(* whose owner waits for it.                                               *)
LEMMA SomebodyGoesOn ==
    ASSUME IInv, Awaited
    PROVE  NoOtherDeadlock
<1> SUFFICES ASSUME Busy, ~Queue!Stranded,
                    \A th \in Threads : ~CanGoOn(th),
                    \A k \in Entries : ~WorkerCanGoOn(k)
             PROVE  \E t \in Timers, k \in Entries :
                       lock = t /\ pc[t] \in {"event", "wait"} /\ NeedsLock(k)
  BY DEF NoOtherDeadlock
<1>1. /\ QP!IInv /\ phase \in [Entries -> QP!Phases] /\ pc \in [Threads -> Steps]
      /\ lock \in Timers \cup {None} /\ None \notin Timers /\ Timers \subseteq Threads
      /\ \A t \in Timers : timer[t] = "running" <=> lock = t
  BY Facts, BufferSets, PartsAssumption DEF IInv, QP!IInv, QP!TypeOK, ServiceTyped, TimersRight
<1>2. \A k \in Entries : \/ phase[k] \in {"new", "queued", "done"}
                         \/ NeedsLock(k) /\ lock # None
  BY <1>1 DEF WorkerCanGoOn, Queue!Stranded, Queue!InPhase, QP!Phases
<1>3. \A th \in Threads : pc[th] \in {"idle", "add", "measure", "size", "drain",
                                      "close_buffer", "event", "wait"}
  BY <1>1 DEF CanGoOn, Steps
<1>4. ASSUME NEW th \in Threads, Buffer!Free(th)
      PROVE  pc[th] \in {"idle", "event", "wait"}
  BY <1>3, <1>4 DEF CanGoOn
<1>5. \A t \in Timers : lock = t => pc[t] \in {"event", "wait"}
  <2> SUFFICES ASSUME NEW t \in Timers, lock = t
               PROVE  pc[t] \in {"event", "wait"}
    OBVIOUS
  <2>1. Buffer!Free(t) /\ timer[t] = "running" /\ t \in Threads
    BY <1>1 DEF Buffer!Free
  <2> QED
    BY <1>4, <2>1 DEF CanGoOn
<1>6. CASE \E k \in Entries : NeedsLock(k) /\ lock # None
  BY <1>1, <1>5, <1>6
<1>7. CASE \A k \in Entries : phase[k] \in {"new", "queued", "done"}
  <2>1. Queue!Idle
    <3>1. QP!InPhase(QP!Occupying) = {}
      BY <1>7 DEF QP!InPhase, QP!Occupying
    <3>2. inFlight = 0
      <4>1. inFlight = QP!Cardinality({})
        BY <1>1, <3>1 DEF QP!IInv, QP!InFlightCountsSlots
      <4>2. QP!Cardinality({}) = Cardinality({})
        BY DEF QP!Cardinality, Cardinality
      <4> QED
        BY <4>1, <4>2, FS_EmptySet
    <3> QED
      BY <1>1, <3>2, PartsAssumption DEF QP!IInv, QP!NoIdleSlot, Queue!Idle
  <2>2. \A k \in Entries : phase[k] \in {"new", "done"}
    BY <1>1, <2>1, IdleMeansDone
  <2>3. \A th \in Threads : pc[th] \notin {"event", "wait"}
    <3> SUFFICES ASSUME NEW th \in Threads, pc[th] = "event"
                 PROVE  FALSE
      BY <2>1 DEF CanGoOn
    <3>1. hand[th] # <<>> /\ hand[th] \in Seq(Entries)
      BY Facts DEF ServiceTyped, ThreadRight
    <3>2. Head(hand[th]) \in Entries
      BY <3>1
    <3> QED
      BY <2>2, <3>2 DEF Awaited, CanGoOn, Queue!EventSet
  <2>4. lock = None
    BY <1>1, <1>5, <2>3
  <2>5. \A th \in Threads : pc[th] = "idle"
    BY <1>4, <2>3, <2>4 DEF Buffer!Free
  <2>6. \A t \in Timers : timer[t] \notin {"fired", "running"}
    BY <1>1, <2>4, <2>5 DEF CanGoOn
  <2> QED
    BY <2>2, <2>5, <2>6 DEF Busy
<1> QED
  BY <1>2, <1>6, <1>7

(* While anything is under way, some thread or worker can go on, unless a  *)
(* Thread.start has raised, or a flush timer waits with the buffer's lock  *)
(* for a worker that needs it, for the metrics or to log.                  *)
THEOREM DeadlocksKnown == Spec => []NoOtherDeadlock
<1>1. Init => Awaited
  BY DEF Init, Awaited
<1>2. IInv /\ Awaited /\ [Next]_vars => Awaited'
  BY AwaitedKept
<1>3. IInv /\ Awaited => NoOtherDeadlock
  BY SomebodyGoesOn
<1> QED
  BY <1>1, <1>2, <1>3, Invariant, PTL DEF Spec
=============================================================================
