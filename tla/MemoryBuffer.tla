---------------------------- MODULE MemoryBuffer ----------------------------
(***************************************************************************)
(* infrastructure/buffer/memory_buffer.py with the MemoryTracker it keeps: *)
(* the bounded list of entries, the size accounting, the one-shot flush    *)
(* timer, and the reentrant lock that guards them.                         *)
(*                                                                         *)
(* Every method holds _lock throughout, so each is one step, except the    *)
(* timer's _on_timer, which calls the flush callback with the lock held:   *)
(* TimerEnter takes the lock and TimerLeave gives it back.  Threads are    *)
(* parameters: th may run a method when Free(th).                          *)
(*                                                                         *)
(* A timer slot stands for one threading.Timer thread:                     *)
(*   free      no such thread        fired     past cancel(), wants _lock  *)
(*   armed     waiting               running   in the callback, has _lock  *)
(* Timer.start may raise, because no thread can be started: the exception  *)
(* leaves add or flush at that point (AddRaises, FlushRaises), and what    *)
(* _schedule_flush has put into _flush_timer stays there, Unstarted.       *)
(***************************************************************************)
EXTENDS Lists

CONSTANTS
    Entries,     \* log entries; each is added at most once
    SizeOf,      \* what MemoryTracker estimates for each entry
    MaxSize,     \* config max_size
    MaxMemory,   \* config max_memory_mb, in the units of SizeOf
    AutoFlush,   \* config auto_flush
    Callers,     \* threads of the application
    Timers,      \* slots for flush timers: a bound, see TimerRoom
    None,        \* no timer, no lock owner
    StartMayFail,\* whether Thread.start may raise RuntimeError
    Unstarted    \* a timer whose start raised: it has no thread

ASSUME SizeOfAssumption == SizeOf \in [Entries -> Nat \ {0}]
ASSUME MaxSizeAssumption == MaxSize \in Nat \ {0}
ASSUME MaxMemoryAssumption == MaxMemory \in Nat
ASSUME AutoFlushAssumption == AutoFlush \in BOOLEAN
ASSUME ThreadsAssumption ==
    None \notin Callers \cup Timers \cup Entries /\ Unstarted \notin Timers \cup {None}
ASSUME StartMayFailAssumption == StartMayFail \in BOOLEAN

VARIABLES
    buf,              \* the list, the tracker and dropped_entries: see TypeOK
    bufferDestroyed,  \* self._destroyed; the callback is set until then
    flushTimer,       \* self._flush_timer
    timer,            \* the state of each timer slot
    lock,             \* the owner of self._lock while a callback runs
    kicks,            \* entries whose add started an immediate-flush thread
    offered,          \* history: entries whose add has run
    discarded,        \* history: entries cleared, or refused after destroy
    strayed           \* history: taken out by a flush that then raised

vars == <<buf, bufferDestroyed, flushTimer, timer, lock, kicks, offered,
          discarded, strayed>>

Held == Seqs!ToSet(buf.entries)
TotalSize(S) == TotalOf(SizeOf, S)
Free(th) == lock \in {None, th}
FreeSlots == {t \in Timers : timer[t] = "free"}

-----------------------------------------------------------------------------
(* The list and the tracker.                                               *)

(* MemoryTracker.remove_entries: only what is tracked is subtracted. *)
Untrack(b, S) ==
    [b EXCEPT !.tracked = @ \ S, !.total = @ - TotalSize(S \cap b.tracked)]

(* _entries.append and MemoryTracker.add_entry. *)
Put(b, e) ==
    [b EXCEPT !.entries = Append(@, e),
              !.tracked = @ \cup {e}, !.total = @ + SizeOf[e]]

(* Mutant: the lost entries stay in the tracker. *)
EvictTracked(b, S, rest) ==
    [b EXCEPT !.entries = rest, !.dropped = @ + Cardinality(S), !.evicted = @ \cup S]

(* The entries of S are lost, and counted in dropped_entries. *)
Evict(b, S, rest) ==
    [Untrack(b, S) EXCEPT !.entries = rest,
                          !.dropped = @ + Cardinality(S), !.evicted = @ \cup S]

(* Mutant: the newest entries go. *)
DropNewest(b, count) ==
    IF count <= 0 \/ b.entries = <<>> THEN b
    ELSE LET left == IF count > Len(b.entries) THEN 0 ELSE Len(b.entries) - count
         IN  Evict(b, Seqs!ToSet(SubSeq(b.entries, left + 1, Len(b.entries))),
                      SubSeq(b.entries, 1, left))

DropOldest(b, count) ==
    IF count <= 0 \/ b.entries = <<>> THEN b
    ELSE LET n == IF count > Len(b.entries) THEN Len(b.entries) ELSE count
         IN  Evict(b, Seqs!ToSet(SubSeq(b.entries, 1, n)),
                      SubSeq(b.entries, n + 1, Len(b.entries)))

(* Mutant: one entry over the limit is let be. *)
EnforceMaxSizeLate(b) == DropOldest(b, Len(b.entries) - MaxSize - 1)

EnforceMaxSize(b) == DropOldest(b, Len(b.entries) - MaxSize)

(* _remove_old_entries: young are the entries that are not max_age old by  *)
(* their own timestamps; a tenth of them goes when that was not enough.    *)
RemoveOldEntries(b, young) ==
    LET kept == Evict(b, Seqs!ToSet(b.entries) \ Seqs!ToSet(young), young)
        tenth == Len(young) \div 10
    IN  IF kept.total > MaxMemory
        THEN DropOldest(kept, IF tenth > 1 THEN tenth ELSE 1)
        ELSE kept

Emptied(b) == [Untrack(b, Seqs!ToSet(b.entries)) EXCEPT !.entries = <<>>]

-----------------------------------------------------------------------------
(* The flush timer.                                                        *)

(* Timer.cancel comes too late for a timer that has fired. *)
Cancelled ==
    [t \in Timers |-> IF t = flushTimer /\ timer[t] = "armed" THEN "free" ELSE timer[t]]

(* _schedule_flush, from the given _flush_timer and slots. *)
ScheduleFlush(ft, tm) ==
    IF ft # None THEN flushTimer' = ft /\ timer' = tm
    ELSE \E t \in {s \in Timers : tm[s] = "free"} :
            flushTimer' = t /\ timer' = [tm EXCEPT ![t] = "armed"]

(* The same when Timer.start raises, after _flush_timer was assigned. *)
ScheduleRaises(ft, tm) ==
    /\ StartMayFail /\ ft = None
    /\ flushTimer' = Unstarted /\ timer' = tm

(* Bound: a flush or clear that gives up a timer which has already fired   *)
(* leaves that thread alive beside the next timer's; it waits while that   *)
(* would use the last slot.  The fired threads go on, so the wait ends.    *)
TimerRoom ==
    AutoFlush /\ flushTimer \in Timers /\ timer[flushTimer] # "armed"
        => Cardinality(FreeSlots) >= 2

-----------------------------------------------------------------------------
Init ==
    /\ buf = [entries |-> <<>>, tracked |-> {}, total |-> 0,
              dropped |-> 0, evicted |-> {}]
    /\ bufferDestroyed = FALSE
    /\ IF AutoFlush
       THEN \E t \in Timers : /\ flushTimer = t
                              /\ timer = [s \in Timers |-> IF s = t THEN "armed" ELSE "free"]
       ELSE flushTimer = None /\ timer = [s \in Timers |-> "free"]
    /\ lock = None
    /\ kicks = {}
    /\ offered = {}
    /\ discarded = {}
    /\ strayed = {}

(* The list after add, for each part of it that may still be young. *)
AddResults(e) ==
    LET put == EnforceMaxSize(Put(buf, e))
    IN  IF put.total <= MaxMemory THEN {put}
        ELSE {EnforceMaxSize(RemoveOldEntries(put, young)) : young \in Sublists(put.entries)}

(* add, with the timer it schedules and, when the list is full, the thread *)
(* that _trigger_immediate_flush starts.                                   *)
Add(th, e) ==
    /\ Free(th)
    /\ e \notin offered
    /\ offered' = offered \cup {e}
    /\ UNCHANGED <<bufferDestroyed, lock, strayed>>
    /\ \/ /\ bufferDestroyed
          /\ discarded' = discarded \cup {e}
          /\ UNCHANGED <<buf, flushTimer, timer, kicks>>
       \/ /\ ~bufferDestroyed
          /\ buf' \in AddResults(e)
          /\ IF AutoFlush THEN ScheduleFlush(flushTimer, timer)
                          ELSE UNCHANGED <<flushTimer, timer>>
          /\ kicks' = IF AutoFlush /\ Len(buf'.entries) >= MaxSize
                      THEN kicks \cup {e} ELSE kicks
          /\ UNCHANGED discarded

(* add raises with the entry in the list: the start of the flush timer     *)
(* does, or after it that of the immediate flush.                          *)
AddRaises(th, e) ==
    /\ Free(th)
    /\ StartMayFail /\ AutoFlush /\ ~bufferDestroyed
    /\ e \notin offered
    /\ offered' = offered \cup {e}
    /\ buf' \in AddResults(e)
    /\ \/ ScheduleRaises(flushTimer, timer)
       \/ ScheduleFlush(flushTimer, timer) /\ Len(buf'.entries) >= MaxSize
    /\ UNCHANGED <<bufferDestroyed, lock, kicks, discarded, strayed>>

(* Mutant: the timer starts again although the buffer is destroyed. *)
FlushReschedules(th) ==
    /\ Free(th)
    /\ TimerRoom
    /\ buf' = Emptied(buf)
    /\ IF AutoFlush THEN ScheduleFlush(None, Cancelled)
                    ELSE flushTimer' = None /\ timer' = Cancelled
    /\ UNCHANGED <<bufferDestroyed, lock, kicks, offered, discarded, strayed>>

(* flush: the caller gets the list, the timer starts again. *)
Flush(th) ==
    /\ Free(th)
    /\ TimerRoom
    /\ buf' = Emptied(buf)
    /\ IF AutoFlush /\ ~bufferDestroyed
       THEN ScheduleFlush(None, Cancelled)
       ELSE flushTimer' = None /\ timer' = Cancelled
    /\ UNCHANGED <<bufferDestroyed, lock, kicks, offered, discarded, strayed>>

(* flush raises when the new timer does not start.  The list is empty by   *)
(* then, and the copy that the caller should get is lost with the frame.   *)
FlushRaises(th) ==
    /\ Free(th)
    /\ TimerRoom
    /\ AutoFlush /\ ~bufferDestroyed
    /\ buf' = Emptied(buf)
    /\ ScheduleRaises(None, Cancelled)
    /\ strayed' = strayed \cup Held
    /\ UNCHANGED <<bufferDestroyed, lock, kicks, offered, discarded>>

Clear(th) ==
    /\ Free(th)
    /\ TimerRoom
    /\ buf' = Emptied(buf)
    /\ discarded' = discarded \cup Held
    /\ flushTimer' = None
    /\ timer' = Cancelled
    /\ UNCHANGED <<bufferDestroyed, lock, kicks, offered, strayed>>

(* destroy: clear, tracker reset, no callback from now on. *)
Destroy(th) ==
    /\ Free(th)
    /\ bufferDestroyed' = TRUE
    /\ buf' = [buf EXCEPT !.entries = <<>>, !.tracked = {}, !.total = 0]
    /\ discarded' = discarded \cup Held
    /\ flushTimer' = None
    /\ timer' = Cancelled
    /\ UNCHANGED <<lock, kicks, offered, strayed>>

(* The timer's wait is over: cancel() no longer stops it. *)
Expire(t) ==
    /\ timer[t] = "armed"
    /\ timer' = [timer EXCEPT ![t] = "fired"]
    /\ UNCHANGED <<buf, bufferDestroyed, flushTimer, lock, kicks, offered, discarded,
                   strayed>>

(* Mutant: _flush_timer keeps the timer that has fired. *)
TimerEnterKeepsTimer(t) ==
    /\ timer[t] = "fired"
    /\ lock = None
    /\ \/ /\ bufferDestroyed \/ buf.entries = <<>>
          /\ timer' = [timer EXCEPT ![t] = "free"]
          /\ UNCHANGED lock
       \/ /\ ~bufferDestroyed /\ buf.entries # <<>>
          /\ timer' = [timer EXCEPT ![t] = "running"]
          /\ lock' = t
    /\ UNCHANGED <<buf, bufferDestroyed, flushTimer, kicks, offered, discarded,
                   strayed>>

(* _on_timer gets the lock; with entries to flush it calls back holding it. *)
TimerEnter(t) ==
    /\ timer[t] = "fired"
    /\ lock = None
    /\ flushTimer' = None
    /\ \/ /\ bufferDestroyed \/ buf.entries = <<>>
          /\ timer' = [timer EXCEPT ![t] = "free"]
          /\ UNCHANGED lock
       \/ /\ ~bufferDestroyed /\ buf.entries # <<>>
          /\ timer' = [timer EXCEPT ![t] = "running"]
          /\ lock' = t
    /\ UNCHANGED <<buf, bufferDestroyed, kicks, offered, discarded, strayed>>

(* The callback is back, or it raised: either way the lock is released. *)
TimerLeave(t) ==
    /\ timer[t] = "running"
    /\ timer' = [timer EXCEPT ![t] = "free"]
    /\ lock' = None
    /\ UNCHANGED <<buf, bufferDestroyed, flushTimer, kicks, offered, discarded,
                   strayed>>

(* The thread of an immediate flush calls the callback, without the lock. *)
KickStart(e) ==
    /\ e \in kicks
    /\ kicks' = kicks \ {e}
    /\ UNCHANGED <<buf, bufferDestroyed, flushTimer, timer, lock, offered, discarded,
                   strayed>>

-----------------------------------------------------------------------------
(* The buffer alone: its callback empties it, as LogService.flush does.    *)
TimerStep(t) ==
    \/ Expire(t)
    \/ TimerEnter(t)
    \/ lock = t /\ buf.entries # <<>> /\ (Flush(t) \/ FlushRaises(t))
    \/ lock = t /\ buf.entries = <<>> /\ TimerLeave(t)

CallerStep(th) ==
    \/ \E e \in Entries : Add(th, e) \/ AddRaises(th, e)
    \/ Flush(th) \/ FlushRaises(th)
    \/ Clear(th)
    \/ Destroy(th)

Next ==
    \/ \E th \in Callers : CallerStep(th)
    \/ \E t \in Timers : TimerStep(t)
    \/ \E e \in Entries : KickStart(e)

Spec == Init /\ [][Next]_vars

(* A timer thread runs; an RLock does not pass over a waiting thread for   *)
(* ever, hence strong fairness for the step that takes it.                 *)
FairSpec == Spec /\ \A t \in Timers : SF_vars(TimerStep(t))

-----------------------------------------------------------------------------
(* The types of the buffer's state. *)
TypeOK ==
    /\ buf \in [entries : Seq(Entries), tracked : SUBSET Entries, total : Int,
                dropped : Nat, evicted : SUBSET Entries]
    /\ bufferDestroyed \in BOOLEAN
    /\ flushTimer \in Timers \cup {None, Unstarted}
    /\ timer \in [Timers -> {"free", "armed", "fired", "running"}]
    /\ lock \in Timers \cup {None}
    /\ kicks \subseteq Entries
    /\ offered \subseteq Entries
    /\ discarded \subseteq offered
    /\ strayed \subseteq offered

(* add never leaves more than max_size entries (memory_buffer.py:119-123). *)
BufferBounded == Len(buf.entries) <= MaxSize

(* The tracker knows exactly the entries in the list and their size, and   *)
(* dropped_entries counts those lost under pressure, each once, after      *)
(* every way an entry can leave: flush, size, memory, age, clear, destroy. *)
AccountsExact ==
    /\ buf.tracked = Held
    /\ buf.total = TotalSize(Held)
    /\ Cardinality(Held) = Len(buf.entries)
    /\ buf.dropped = Cardinality(buf.evicted)

(* _flush_timer holds a timer that never runs, and _schedule_flush starts  *)
(* no other while it does (memory_buffer.py:164, :175-177).                *)
TimerLost == flushTimer = Unstarted

(* No lost wake-up: with auto_flush an entry in the list always has a      *)
(* timer thread that will still look at it, although a timer that has      *)
(* fired clears _flush_timer even when it holds a newer timer; the only    *)
(* exception is a timer whose own start raised.                            *)
PendingFlush ==
    AutoFlush /\ buf.entries # <<>> =>
        (\E t \in Timers : timer[t] # "free") \/ TimerLost

(* After destroy the list stays empty and no timer is scheduled again,     *)
(* although late adds, flushes and orphaned timers still come in.          *)
QuietAfterDestroy == bufferDestroyed => buf.entries = <<>> /\ flushTimer = None

(* Unless memory runs out, back-pressure takes the oldest entries: one is  *)
(* lost only when every older one is gone too (memory_buffer.py:125-131).  *)
OldestFirst ==
    [][\A e \in offered' \ offered :
          buf.total + SizeOf[e] <= MaxMemory
             => LET list == Append(buf.entries, e) IN
                \A i, j \in DOMAIN list :
                   i < j /\ list[j] \in buf'.evicted => list[i] \in buf'.evicted]_vars

(* With auto_flush an entry stays in the buffer for ever only behind a     *)
(* timer whose start raised; the next flush by a caller ends that, too.    *)
EntriesDrain == \A e \in Entries : e \in Held ~> e \notin Held \/ TimerLost
=============================================================================
