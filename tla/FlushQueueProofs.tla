-------------------------- MODULE FlushQueueProofs --------------------------
(***************************************************************************)
(* Proofs about FlushQueue for any finite set of tasks and any number of   *)
(* slots, with or without Thread.start failures.  The invariants are not   *)
(* inductive one by one: that a task waits only when every slot is taken   *)
(* (NoIdleSlot) is what makes each call of _process_flush_queue_locked pop *)
(* at most one task, and that in turn keeps the count and the list right.  *)
(***************************************************************************)
EXTENDS FlushQueue, FiniteSetTheorems, TLAPS

IInv ==
    /\ TypeOK
    /\ QueueHoldsWaitingTasks
    /\ InFlightCountsSlots
    /\ WorkersCapped
    /\ NoIdleSlot

(* The list part of the invariant, for a list and phases that are still    *)
(* the local values of a handler.                                          *)
ListOK(q, ph) ==
    /\ q \in Seq(Tasks)
    /\ ph \in [Tasks -> Phases]
    /\ \A k \in Tasks : ph[k] = "queued" <=> \E i \in DOMAIN q : q[i] = k
    /\ \A i, j \in DOMAIN q : q[i] = q[j] => i = j

SlotsOf(ph) == {k \in Tasks : ph[k] \in Occupying}

(* The occupied slots are a finite set: its size is a natural number. *)
LEMMA SlotsFinite ==
    ASSUME NEW ph
    PROVE  /\ IsFiniteSet(SlotsOf(ph))
           /\ Cardinality(SlotsOf(ph)) \in Nat
<1>1. SlotsOf(ph) \subseteq Tasks
  BY DEF SlotsOf
<1> QED
  BY <1>1, TasksAssumption, FS_Subset, FS_CardinalityType

(* Moving one task into, out of or within the slots changes their number   *)
(* by one, minus one or not at all.                                        *)
LEMMA SlotsGain ==
    ASSUME NEW ph \in [Tasks -> Phases], NEW k \in Tasks, NEW s \in Occupying,
           ph[k] \notin Occupying
    PROVE  Cardinality(SlotsOf([ph EXCEPT ![k] = s]))
             = Cardinality(SlotsOf(ph)) + 1
<1>1. SlotsOf([ph EXCEPT ![k] = s]) = SlotsOf(ph) \cup {k}
  BY DEF SlotsOf
<1>2. k \notin SlotsOf(ph)
  BY DEF SlotsOf
<1> QED
  BY <1>1, <1>2, SlotsFinite, FS_AddElement

LEMMA SlotsLose ==
    ASSUME NEW ph \in [Tasks -> Phases], NEW k \in Tasks,
           NEW s \in Phases \ Occupying, ph[k] \in Occupying
    PROVE  /\ Cardinality(SlotsOf([ph EXCEPT ![k] = s]))
                = Cardinality(SlotsOf(ph)) - 1
           /\ Cardinality(SlotsOf(ph)) > 0
<1>1. SlotsOf([ph EXCEPT ![k] = s]) = SlotsOf(ph) \ {k}
  BY DEF SlotsOf
<1>2. k \in SlotsOf(ph)
  BY DEF SlotsOf
<1>3. Cardinality(SlotsOf(ph)) # 0
  BY <1>2, SlotsFinite, FS_EmptySet
<1>4. IsFiniteSet(SlotsOf(ph)) /\ Cardinality(SlotsOf(ph)) \in Nat
  BY SlotsFinite
<1>5. Cardinality(SlotsOf(ph) \ {k}) = Cardinality(SlotsOf(ph)) - 1
  BY <1>2, <1>4, FS_RemoveElement
<1>6. \A c \in Nat : c # 0 => c > 0
  OBVIOUS
<1>7. Cardinality(SlotsOf(ph)) > 0
  BY <1>3, <1>4, <1>6
<1> QED
  BY <1>1, <1>5, <1>7

(* One task popped: its phase is the only one that changes. *)
LEMMA PoppedOne ==
    ASSUME NEW q, NEW ph, NEW used \in Nat, NEW r \in {0, 1},
           ListOK(q, ph), Len(q) >= 1, Popped(q, used, ph, 1, r)
    PROVE  /\ q[1] \in Tasks
           /\ ph[q[1]] = "queued"
           /\ phase' = [ph EXCEPT ![q[1]] = IF r = 1 THEN "sending"
                                                     ELSE "stranded"]
           /\ flushQueue' = SubSeq(q, 2, Len(q))
           /\ inFlight' = used + 1
<1>1. q[1] \in Tasks /\ 1 \in DOMAIN q
  BY DEF ListOK
<1>2. ph[q[1]] = "queued"
  BY <1>1 DEF ListOK
<1>3. phase' = [k \in Tasks |->
                  IF k = q[1] THEN IF r = 1 THEN "sending" ELSE "stranded"
                              ELSE ph[k]]
  <2>1. CASE r = 1
    BY <2>1 DEF Popped
  <2>2. CASE r = 0
    BY <2>2 DEF Popped
  <2> QED
    BY <2>1, <2>2
<1>4. phase' = [ph EXCEPT ![q[1]] = IF r = 1 THEN "sending" ELSE "stranded"]
  BY <1>1, <1>3 DEF ListOK
<1>5. flushQueue' = SubSeq(q, 2, Len(q)) /\ inFlight' = used + 1
  BY DEF Popped
<1> QED
  BY <1>1, <1>2, <1>4, <1>5

(* What is left of the list after its head is gone is the list of the      *)
(* tasks that still wait.                                                  *)
LEMMA ListWithoutHead ==
    ASSUME NEW q, NEW ph, ListOK(q, ph), Len(q) >= 1,
           NEW s \in Occupying
    PROVE  ListOK(SubSeq(q, 2, Len(q)), [ph EXCEPT ![q[1]] = s])
<1> DEFINE rest == SubSeq(q, 2, Len(q))
           next == [ph EXCEPT ![q[1]] = s]
<1>1. /\ q \in Seq(Tasks)
      /\ ph \in [Tasks -> Phases]
      /\ Len(q) \in Nat
      /\ DOMAIN q = 1..Len(q)
  BY DEF ListOK
<1>2. /\ rest \in Seq(Tasks)
      /\ Len(rest) = Len(q) - 1
      /\ DOMAIN rest = 1..(Len(q) - 1)
      /\ \A i \in 1..(Len(q) - 1) : rest[i] = q[i + 1]
  BY <1>1
<1>3. q[1] \in Tasks
  BY <1>1
<1>4. next \in [Tasks -> Phases]
  BY <1>1 DEF Phases, Occupying
<1>5. \A i, j \in DOMAIN rest : rest[i] = rest[j] => i = j
  <2> SUFFICES ASSUME NEW i \in 1..(Len(q) - 1), NEW j \in 1..(Len(q) - 1),
                      q[i + 1] = q[j + 1]
               PROVE  i = j
    BY <1>2
  <2>1. i + 1 \in DOMAIN q /\ j + 1 \in DOMAIN q
    BY <1>1
  <2> QED
    BY <2>1 DEF ListOK
<1>6. ASSUME NEW k \in Tasks
      PROVE  next[k] = "queued" <=> \E i \in DOMAIN rest : rest[i] = k
  <2>1. CASE k = q[1]
    <3>1. next[k] # "queued"
      BY <2>1, <1>1 DEF Occupying
    <3>2. \A i \in 1..(Len(q) - 1) : q[i + 1] # q[1]
      <4> SUFFICES ASSUME NEW i \in 1..(Len(q) - 1), q[i + 1] = q[1]
                   PROVE  FALSE
        OBVIOUS
      <4>1. i + 1 \in DOMAIN q /\ 1 \in DOMAIN q /\ i + 1 # 1
        BY <1>1
      <4> QED
        BY <4>1 DEF ListOK
    <3> QED
      BY <2>1, <3>1, <3>2, <1>2
  <2>2. CASE k # q[1]
    <3>1. next[k] = ph[k]
      BY <2>2, <1>1
    <3>2. (\E i \in DOMAIN q : q[i] = k) <=> \E i \in DOMAIN rest : rest[i] = k
      <4>1. ASSUME NEW i \in DOMAIN q, q[i] = k
            PROVE  i - 1 \in DOMAIN rest /\ rest[i - 1] = k
        BY <4>1, <2>2, <1>1, <1>2
      <4>2. ASSUME NEW i \in DOMAIN rest, rest[i] = k
            PROVE  i + 1 \in DOMAIN q /\ q[i + 1] = k
        BY <4>2, <1>1, <1>2
      <4> QED
        BY <4>1, <4>2
    <3> QED
      BY <3>1, <3>2 DEF ListOK
  <2> QED
    BY <2>1, <2>2
<1> QED
  BY <1>2, <1>4, <1>5, <1>6 DEF ListOK

(* _process_flush_queue_locked restores the invariant from any state in    *)
(* which at most one slot is free or at most one task waits.               *)
LEMMA ProcessKeepsInvariant ==
    ASSUME NEW q, NEW ph, NEW used \in Nat,
           ListOK(q, ph),
           used = Cardinality(SlotsOf(ph)),
           used <= MaxConcurrentFlushes,
           Len(q) <= 1 \/ used >= MaxConcurrentFlushes - 1,
           ProcessFlushQueue(q, used, ph),
           failed' \subseteq Tasks
    PROVE  IInv'
<1>1. /\ q \in Seq(Tasks)
      /\ Len(q) \in Nat
      /\ MaxConcurrentFlushes \in Nat \ {0}
  BY MaxConcurrentFlushesAssumption DEF ListOK
<1> DEFINE n == Startable(q, used)
<1>2. n = 0 \/ (n = 1 /\ Len(q) >= 1 /\ used < MaxConcurrentFlushes)
  <2> DEFINE len == Len(q)
  <2>1. len \in Nat /\ (len <= 1 \/ used >= MaxConcurrentFlushes - 1)
    BY <1>1
  <2>2. n = IF used >= MaxConcurrentFlushes THEN 0
            ELSE IF len <= MaxConcurrentFlushes - used THEN len
            ELSE MaxConcurrentFlushes - used
    BY DEF Startable
  <2>3. n = 0 \/ (n = 1 /\ len >= 1 /\ used < MaxConcurrentFlushes)
    <3> HIDE DEF len, n
    <3> QED
      BY <1>1, <2>1, <2>2
  <2> QED
    BY <2>3
<1>3. CASE Popped(q, used, ph, 0, 0) /\ n = 0
  <2>1. flushQueue' = q /\ inFlight' = used /\ phase' = ph
    <3>1. SubSeq(q, 1, Len(q)) = q
      BY <1>1
    <3>2. phase' = [k \in Tasks |-> ph[k]]
      BY <1>3 DEF Popped
    <3> QED
      BY <1>3, <3>1, <3>2 DEF Popped, ListOK
  <2>2. q # <<>> => used = MaxConcurrentFlushes
    BY <1>1, <1>3 DEF Startable
  <2>3. (TypeOK /\ QueueHoldsWaitingTasks)'
    BY <2>1 DEF ListOK, TypeOK, QueueHoldsWaitingTasks
  <2>4. InFlightCountsSlots'
    BY <2>1 DEF InFlightCountsSlots, InPhase, SlotsOf
  <2>5. (WorkersCapped /\ NoIdleSlot)'
    BY <2>1, <2>2 DEF WorkersCapped, NoIdleSlot
  <2> QED
    BY <2>3, <2>4, <2>5 DEF IInv
<1>4. ASSUME NEW r \in {0, 1}, Popped(q, used, ph, 1, r), n = 1
      PROVE  IInv'
  <2> DEFINE s == IF r = 1 THEN "sending" ELSE "stranded"
  <2>1. Len(q) >= 1 /\ used < MaxConcurrentFlushes
    BY <1>2, <1>4
  <2>2. /\ q[1] \in Tasks
        /\ ph[q[1]] = "queued"
        /\ phase' = [ph EXCEPT ![q[1]] = s]
        /\ flushQueue' = SubSeq(q, 2, Len(q))
        /\ inFlight' = used + 1
    BY <1>4, <2>1, PoppedOne
  <2>3. s \in Occupying
    BY DEF Occupying
  <2>4. ListOK(flushQueue', phase')
    BY <2>1, <2>2, <2>3, ListWithoutHead
  <2>5. (TypeOK /\ QueueHoldsWaitingTasks)'
    BY <2>2, <2>4 DEF ListOK, TypeOK, QueueHoldsWaitingTasks
  <2>6. InFlightCountsSlots'
    <3>1. Cardinality(SlotsOf(phase')) = Cardinality(SlotsOf(ph)) + 1
      BY <2>2, <2>3, SlotsGain DEF ListOK, Occupying
    <3> QED
      BY <3>1, <2>2 DEF InFlightCountsSlots, InPhase, SlotsOf
  <2>7. WorkersCapped'
    BY <1>1, <2>1, <2>2 DEF WorkersCapped
  <2>8. NoIdleSlot'
    <3>1. CASE Len(q) <= 1
      <4>1. SubSeq(q, 2, Len(q)) = <<>>
        BY <3>1, <2>1, <1>1
      <4> QED
        BY <4>1, <2>2 DEF NoIdleSlot
    <3>2. CASE used >= MaxConcurrentFlushes - 1
      BY <3>2, <1>1, <2>1, <2>2 DEF NoIdleSlot
    <3> QED
      BY <3>1, <3>2
  <2> QED
    BY <2>5, <2>6, <2>7, <2>8 DEF IInv
<1>5. \/ Popped(q, used, ph, 0, 0) /\ n = 0
      \/ \E r \in {0, 1} : Popped(q, used, ph, 1, r) /\ n = 1
  BY <1>2 DEF ProcessFlushQueue
<1> QED
  BY <1>3, <1>4, <1>5

(* A step that only moves task k on within the slots. *)
LEMMA AdvanceKeepsInvariant ==
    ASSUME IInv, NEW k \in Tasks,
           NEW from \in Occupying, NEW to \in Occupying,
           Advance(k, from, to), failed' \subseteq Tasks
    PROVE  IInv'
<1>1. /\ phase' = [phase EXCEPT ![k] = to]
      /\ phase[k] = from
      /\ flushQueue' = flushQueue
      /\ inFlight' = inFlight
      /\ phase \in [Tasks -> Phases]
  BY DEF Advance, IInv, TypeOK
<1>2. TypeOK'
  BY <1>1 DEF IInv, TypeOK, Phases, Occupying
<1>3. QueueHoldsWaitingTasks'
  <2>1. \A t \in Tasks : phase'[t] = "queued" <=> phase[t] = "queued"
    BY <1>1 DEF Occupying
  <2> QED
    BY <1>1, <2>1 DEF IInv, QueueHoldsWaitingTasks
<1>4. InFlightCountsSlots'
  <2>1. InPhase(Occupying)' = InPhase(Occupying)
    BY <1>1 DEF InPhase
  <2> QED
    BY <1>1, <2>1 DEF IInv, InFlightCountsSlots
<1>5. (WorkersCapped /\ NoIdleSlot)'
  BY <1>1 DEF IInv, WorkersCapped, NoIdleSlot
<1> QED
  BY <1>2, <1>3, <1>4, <1>5 DEF IInv

(* A task that is appended keeps the list exact. *)
LEMMA EnqueuedList ==
    ASSUME IInv, NEW k \in Tasks, phase[k] = "new"
    PROVE  ListOK(Append(flushQueue, k), [phase EXCEPT ![k] = "queued"])
<1> DEFINE q == Append(flushQueue, k)
           ph == [phase EXCEPT ![k] = "queued"]
<1>1. /\ phase[k] = "new"
      /\ flushQueue \in Seq(Tasks)
      /\ phase \in [Tasks -> Phases]
  BY DEF IInv, TypeOK
<1>2. /\ Len(q) = Len(flushQueue) + 1
      /\ q \in Seq(Tasks)
      /\ DOMAIN q = 1..(Len(flushQueue) + 1)
      /\ DOMAIN flushQueue = 1..Len(flushQueue)
      /\ Len(flushQueue) \in Nat
      /\ \A i \in 1..Len(flushQueue) : q[i] = flushQueue[i]
      /\ q[Len(flushQueue) + 1] = k
  BY <1>1
<1>3. \A i \in DOMAIN flushQueue : flushQueue[i] # k
  BY <1>1 DEF IInv, QueueHoldsWaitingTasks
<1>4. ListOK(q, ph)
  <2>1. ph \in [Tasks -> Phases]
    BY <1>1 DEF Phases
  <2>2. ASSUME NEW t \in Tasks
        PROVE  ph[t] = "queued" <=> \E i \in DOMAIN q : q[i] = t
    <3>1. CASE t = k
      <4>1. ph[t] = "queued" /\ Len(flushQueue) + 1 \in DOMAIN q
        BY <3>1, <1>1, <1>2
      <4> QED
        BY <4>1, <3>1, <1>2
    <3>2. CASE t # k
      <4>1. ph[t] = phase[t]
        BY <3>2, <1>1
      <4>2. (\E i \in DOMAIN q : q[i] = t)
               <=> \E i \in DOMAIN flushQueue : flushQueue[i] = t
        BY <3>2, <1>2
      <4> QED
        BY <4>1, <4>2 DEF IInv, QueueHoldsWaitingTasks
    <3> QED
      BY <3>1, <3>2
  <2>3. ASSUME NEW i \in DOMAIN q, NEW j \in DOMAIN q, q[i] = q[j]
        PROVE  i = j
    <3>1. CASE i \in DOMAIN flushQueue /\ j \in DOMAIN flushQueue
      BY <3>1, <2>3, <1>2 DEF IInv, QueueHoldsWaitingTasks
    <3>2. CASE ~(i \in DOMAIN flushQueue /\ j \in DOMAIN flushQueue)
      BY <3>2, <2>3, <1>2, <1>3
    <3> QED
      BY <3>1, <3>2
  <2> QED
    BY <1>2, <2>1, <2>2, <2>3 DEF ListOK
<1> QED
  BY <1>4

LEMMA EnqueueKeepsInvariant ==
    ASSUME IInv, NEW k \in Tasks, Enqueue(k)
    PROVE  IInv'
<1> DEFINE q == Append(flushQueue, k)
           ph == [phase EXCEPT ![k] = "queued"]
<1>1. /\ phase[k] = "new"
      /\ ProcessFlushQueue(q, inFlight, ph)
      /\ failed' = failed
      /\ flushQueue \in Seq(Tasks)
      /\ phase \in [Tasks -> Phases]
      /\ inFlight \in Nat
      /\ failed \subseteq Tasks
  BY DEF Enqueue, IInv, TypeOK
<1>2. /\ Len(q) = Len(flushQueue) + 1
      /\ q \in Seq(Tasks)
      /\ DOMAIN q = 1..(Len(flushQueue) + 1)
      /\ DOMAIN flushQueue = 1..Len(flushQueue)
      /\ Len(flushQueue) \in Nat
      /\ \A i \in 1..Len(flushQueue) : q[i] = flushQueue[i]
      /\ q[Len(flushQueue) + 1] = k
  BY <1>1
<1>4. ListOK(q, ph)
  BY <1>1, EnqueuedList
<1>5. inFlight = Cardinality(SlotsOf(ph))
  <2>1. SlotsOf(ph) = InPhase(Occupying)
    BY <1>1 DEF SlotsOf, InPhase, Occupying
  <2> QED
    BY <2>1 DEF IInv, InFlightCountsSlots
<1>6. Len(q) <= 1 \/ inFlight >= MaxConcurrentFlushes - 1
  <2>1. CASE flushQueue = <<>>
    BY <2>1, <1>2
  <2>2. CASE flushQueue # <<>>
    BY <2>2, MaxConcurrentFlushesAssumption DEF IInv, NoIdleSlot
  <2> QED
    BY <2>1, <2>2
<1>7. inFlight <= MaxConcurrentFlushes
  BY DEF IInv, WorkersCapped
<1> QED
  BY <1>1, <1>4, <1>5, <1>6, <1>7, ProcessKeepsInvariant

(* A worker that leaves does not touch the tasks that wait. *)
LEMMA LeavingList ==
    ASSUME IInv, NEW k \in Tasks, phase[k] = "leaving"
    PROVE  ListOK(flushQueue, [phase EXCEPT ![k] = "done"])
<1> DEFINE ph == [phase EXCEPT ![k] = "done"]
<1>1. flushQueue \in Seq(Tasks) /\ phase \in [Tasks -> Phases]
  BY DEF IInv, TypeOK
<1>2. ph \in [Tasks -> Phases]
  BY <1>1 DEF Phases
<1>3. \A t \in Tasks : ph[t] = "queued" <=> phase[t] = "queued"
  BY <1>1
<1> QED
  BY <1>1, <1>2, <1>3 DEF ListOK, IInv, QueueHoldsWaitingTasks

LEMMA LeaveKeepsInvariant ==
    ASSUME IInv, NEW k \in Tasks, Leave(k)
    PROVE  IInv'
<1> DEFINE ph == [phase EXCEPT ![k] = "done"]
           used == IF inFlight > 0 THEN inFlight - 1 ELSE 0
<1>1. /\ phase[k] = "leaving"
      /\ ProcessFlushQueue(flushQueue, used, ph)
      /\ failed' = failed
      /\ flushQueue \in Seq(Tasks)
      /\ phase \in [Tasks -> Phases]
      /\ inFlight \in Nat
      /\ failed \subseteq Tasks
  BY DEF Leave, IInv, TypeOK
<1>2. ListOK(flushQueue, ph)
  BY <1>1, LeavingList
<1>3. inFlight = Cardinality(SlotsOf(phase))
  BY DEF IInv, InFlightCountsSlots, InPhase, SlotsOf
<1>4. /\ Cardinality(SlotsOf(ph)) = Cardinality(SlotsOf(phase)) - 1
      /\ Cardinality(SlotsOf(phase)) > 0
  <2>1. "done" \in Phases \ Occupying /\ phase[k] \in Occupying
    BY <1>1 DEF Phases, Occupying
  <2> QED
    BY <1>1, <2>1, SlotsLose
<1>5. used \in Nat /\ used = inFlight - 1 /\ used = Cardinality(SlotsOf(ph))
  BY <1>1, <1>3, <1>4
<1>6. used <= MaxConcurrentFlushes
  BY <1>1, <1>5, MaxConcurrentFlushesAssumption DEF IInv, WorkersCapped
<1>7. Len(flushQueue) <= 1 \/ used >= MaxConcurrentFlushes - 1
  BY <1>1, <1>5, MaxConcurrentFlushesAssumption DEF IInv, NoIdleSlot
<1> QED
  BY <1>1, <1>2, <1>5, <1>6, <1>7, ProcessKeepsInvariant

LEMMA InitInvariant == Init => IInv
<1> SUFFICES ASSUME Init PROVE IInv
  OBVIOUS
<1>1. InPhase(Occupying) = {}
  BY DEF Init, InPhase, Occupying
<1>2. InFlightCountsSlots
  BY <1>1, FS_EmptySet DEF Init, InFlightCountsSlots
<1>3. TypeOK /\ QueueHoldsWaitingTasks /\ WorkersCapped /\ NoIdleSlot
  BY MaxConcurrentFlushesAssumption
     DEF Init, TypeOK, Phases, QueueHoldsWaitingTasks, WorkersCapped, NoIdleSlot
<1> QED
  BY <1>2, <1>3 DEF IInv

LEMMA NextInvariant == IInv /\ [Next]_vars => IInv'
<1> SUFFICES ASSUME IInv, [Next]_vars PROVE IInv'
  OBVIOUS
<1>0. failed \subseteq Tasks
  BY DEF IInv, TypeOK
<1>1. CASE UNCHANGED vars
  BY <1>1 DEF vars, IInv, TypeOK, QueueHoldsWaitingTasks, InFlightCountsSlots,
              InPhase, WorkersCapped, NoIdleSlot
<1>2. ASSUME NEW k \in Tasks, Enqueue(k)
      PROVE  IInv'
  BY <1>2, EnqueueKeepsInvariant
<1>3. ASSUME NEW k \in Tasks, SendOk(k)
      PROVE  IInv'
  BY <1>0, <1>3, AdvanceKeepsInvariant DEF SendOk, Occupying
<1>4. ASSUME NEW k \in Tasks, SendFail(k)
      PROVE  IInv'
  BY <1>0, <1>4, AdvanceKeepsInvariant DEF SendFail, Occupying
<1>5. ASSUME NEW k \in Tasks, Measure(k)
      PROVE  IInv'
  BY <1>0, <1>5, AdvanceKeepsInvariant DEF Measure, Occupying
<1>6. ASSUME NEW k \in Tasks, Settle(k)
      PROVE  IInv'
  BY <1>0, <1>6, AdvanceKeepsInvariant DEF Settle, Occupying
<1>7. ASSUME NEW k \in Tasks, Leave(k)
      PROVE  IInv'
  BY <1>7, LeaveKeepsInvariant
<1> QED
  BY <1>1, <1>2, <1>3, <1>4, <1>5, <1>6, <1>7 DEF Next, Worker, Send

(* The pipeline keeps its whole invariant in every reachable state. *)
THEOREM Invariant == Spec => []IInv
<1> QED
  BY InitInvariant, NextInvariant, PTL DEF Spec

(* The state of the pipeline is well typed. *)
THEOREM TypeCorrect == Spec => []TypeOK
<1>1. IInv => TypeOK
  BY DEF IInv
<1> QED
  BY <1>1, Invariant, PTL

(* No lost wake-up: a task waits only while all slots are taken            *)
(* (_process_flush_queue_locked, log_service.py:235-243).                  *)
THEOREM NoLostWakeUp == Spec => []NoIdleSlot
<1>1. IInv => NoIdleSlot
  BY DEF IInv
<1> QED
  BY <1>1, Invariant, PTL

(* _in_flight_flushes is exact, and max_concurrent_flushes bounds it. *)
THEOREM SlotsExact == Spec => []SlotsCounted
<1>1. IInv => SlotsCounted
  BY DEF IInv, SlotsCounted
<1> QED
  BY <1>1, Invariant, PTL

(* The list holds each waiting task exactly once. *)
THEOREM ListExact == Spec => []QueueHoldsWaitingTasks
<1>1. IInv => QueueHoldsWaitingTasks
  BY DEF IInv
<1> QED
  BY <1>1, Invariant, PTL

-----------------------------------------------------------------------------
(* The order of the starts. *)

(* What _process_flush_queue_locked takes from the list is a first part of *)
(* it, whether or not a Thread.start raises.                               *)
LEMMA ProcessTakesFirst ==
    ASSUME NEW q, NEW ph, NEW used \in Nat, ListOK(q, ph),
           ProcessFlushQueue(q, used, ph),
           NEW i \in DOMAIN q, NEW j \in DOMAIN q, i < j, phase'[q[j]] # "queued"
    PROVE  phase'[q[i]] # "queued"
<1>1. /\ q \in Seq(Tasks) /\ DOMAIN q = 1..Len(q) /\ Len(q) \in Nat
      /\ q[i] \in Tasks /\ q[j] \in Tasks
      /\ ph[q[j]] = "queued"
  BY DEF ListOK
<1>2. Startable(q, used) \in 0..Len(q)
  BY <1>1, MaxConcurrentFlushesAssumption DEF Startable
<1>3. PICK n \in 0..Len(q), r \in 0..Len(q) : r <= n /\ Popped(q, used, ph, n, r)
  BY <1>1, <1>2 DEF ProcessFlushQueue
<1>4. phase' = [k \in Tasks |->
                  IF \E m \in 1..r : q[m] = k THEN "sending"
                  ELSE IF \E m \in 1..n : q[m] = k THEN "stranded"
                  ELSE ph[k]]
  BY <1>3 DEF Popped
<1>5. PICK m \in 1..n : q[m] = q[j]
  BY <1>1, <1>3, <1>4
<1>6. m = j
  BY <1>1, <1>3, <1>5 DEF ListOK
<1>7. i \in 1..n
  BY <1>1, <1>3, <1>5, <1>6
<1> QED
  BY <1>1, <1>4, <1>7

(* A task leaves the list only together with all those ahead of it, so     *)
(* tasks start in the order of their _enqueue_flush calls.                 *)
THEOREM StartsInOrder == Spec => StartedInOrder
<1> DEFINE Step == \A i, j \in DOMAIN flushQueue :
              i < j /\ phase'[flushQueue[j]] # "queued"
                 => phase'[flushQueue[i]] # "queued"
<1>1. ASSUME IInv, [Next]_vars PROVE [Step]_vars
  <2> SUFFICES ASSUME NEW i \in DOMAIN flushQueue, NEW j \in DOMAIN flushQueue, i < j,
                      phase'[flushQueue[j]] # "queued"
               PROVE  phase'[flushQueue[i]] # "queued"
    OBVIOUS
  <2>1. /\ flushQueue \in Seq(Tasks) /\ inFlight \in Nat
        /\ phase \in [Tasks -> Phases]
        /\ flushQueue[i] \in Tasks /\ flushQueue[j] \in Tasks
        /\ phase[flushQueue[j]] = "queued"
    BY <1>1 DEF IInv, TypeOK, QueueHoldsWaitingTasks
  <2>2. PICK k \in Tasks : Enqueue(k) \/ Leave(k)
    <3>1. phase' # phase
      BY <2>1
    <3>2. PICK k \in Tasks : Enqueue(k) \/ Worker(k)
      BY <1>1, <3>1 DEF Next, vars
    <3>3. ASSUME NEW from \in Phases \ {"queued"}, NEW to, Advance(k, from, to)
          PROVE  FALSE
      BY <2>1, <3>3 DEF Advance
    <3> QED
      BY <3>2, <3>3 DEF Worker, Send, SendOk, SendFail, Measure, Settle, Phases
  <2>3. CASE Enqueue(k)
    <3> DEFINE q == Append(flushQueue, k)
               ph == [phase EXCEPT ![k] = "queued"]
    <3>1. ListOK(q, ph) /\ ProcessFlushQueue(q, inFlight, ph)
      BY <1>1, <2>3, EnqueuedList DEF Enqueue
    <3>2. /\ i \in DOMAIN q /\ q[i] = flushQueue[i]
          /\ j \in DOMAIN q /\ q[j] = flushQueue[j]
      BY <2>1
    <3> HIDE DEF q, ph
    <3> QED
      BY <2>1, <3>1, <3>2, ProcessTakesFirst
  <2>4. CASE Leave(k)
    <3> DEFINE ph == [phase EXCEPT ![k] = "done"]
               used == IF inFlight > 0 THEN inFlight - 1 ELSE 0
    <3>1. ListOK(flushQueue, ph) /\ ProcessFlushQueue(flushQueue, used, ph)
      BY <1>1, <2>4, LeavingList DEF Leave
    <3>2. used \in Nat
      BY <2>1
    <3> HIDE DEF ph, used
    <3> QED
      BY <3>1, <3>2, ProcessTakesFirst
  <2> QED
    BY <2>2, <2>3, <2>4
<1> QED
  BY <1>1, Invariant, PTL DEF Spec, StartedInOrder
=============================================================================
