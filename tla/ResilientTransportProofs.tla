---------------------- MODULE ResilientTransportProofs ----------------------
(***************************************************************************)
(* Proofs about ResilientTransport for any number of batches, workers,     *)
(* destroyers and retries, and any size of the dead letter queue that the  *)
(* module assumes.  None of its properties is inductive.                   *)
(*                                                                         *)
(* The queue has no lock, and what bounds it from both sides is the sum of *)
(* its length and of the workers about to append: a pop that leads to an   *)
(* append and the append itself leave it as it is, only a worker that has  *)
(* seen the queue below its limit adds to it.  Once somebody has seen the  *)
(* queue full the sum stays at max_size or over, so that a pop finds an    *)
(* entry; and it never passes max_size + Workers - 1.                      *)
(***************************************************************************)
EXTENDS ResilientTransport, CountingLemmas, FiniteSetTheorems, TLAPS

(* The workers that stand at a step. *)
AtStep(step) == {b \in Batches : at[b] = step}

-----------------------------------------------------------------------------
(* The parts of the invariant.                                             *)

(* No more than Workers sends are under way. *)
SendsBounded == IsFiniteSet(Active) /\ Cardinality(Active) <= Workers

(* A call that the breaker holds is that of a send in its retry loop, and  *)
(* one whose outcome is recorded has one.                                  *)
CallsAreSends ==
    \A b \in Batches :
        /\ pc[b] # "idle" => at[b] \in {"trying", "succeeded", "failed"}
        /\ pc[b] \in {"checking", "returning"} => at[b] # "trying"

(* What succeeded has been stored. *)
StoredByLoki == \A b \in Batches : at[b] \in {"succeeded", "sent"} => b \in accepted

(* Each entry is waiting for add_batch, in the queue or dropped from it;   *)
(* one is left for the worker that makes room for it, none for a worker    *)
(* that is done.                                                           *)
EntriesAccounted ==
    \A b \in Batches :
        /\ Stored(b) + lost[b] + left[b] = BatchSize
        /\ at[b] \in {"pop", "append"} => left[b] > 0
        /\ at[b] = "raised" => left[b] = 0

(* The queue and the entries about to be appended to it. *)
Filled == Len(dlq) + Cardinality(AtStep("append"))

QueueWithinLimits ==
    /\ Filled <= DlqMaxSize + Workers - 1
    /\ AtStep("pop") # {} => Filled >= DlqMaxSize

(* The client is closed before its reference goes. *)
ClosedBeforeCleared ==
    /\ ~client => ~pool
    /\ \A d \in Destroyers :
          /\ closing[d] = "clear" => ~pool
          /\ closing[d] = "over" => ~pool /\ ~client

IInv ==
    /\ TypeOK
    /\ SendsBounded
    /\ CallsAreSends
    /\ StoredByLoki
    /\ EntriesAccounted
    /\ QueueWithinLimits
    /\ ClosedBeforeCleared

-----------------------------------------------------------------------------
(* A send that moves from one step to another leaves its own set and       *)
(* enters the other; the other sets stay.                                  *)
LEMMA Moves ==
    ASSUME TypeOK, NEW b \in Batches, NEW to, Goto(b, to), NEW step
    PROVE  AtStep(step)' = IF step = to THEN AtStep(step) \cup {b}
                           ELSE AtStep(step) \ {b}
BY DEF TypeOK, Goto, AtStep

LEMMA AtStepFinite ==
    ASSUME SendsBounded, NEW step \in {"check", "pop", "append"}
    PROVE  /\ IsFiniteSet(AtStep(step)) /\ Cardinality(AtStep(step)) \in Nat
           /\ Cardinality(Active) \in Nat
           /\ Cardinality(AtStep(step)) <= Cardinality(Active)
<1>1. AtStep(step) \subseteq Active
  BY DEF AtStep, Active
<1> QED
  BY <1>1, FS_Subset, FS_CardinalityType DEF SendsBounded

(* While a send waits at another step, the workers at a step leave one out. *)
LEMMA AtStepButOne ==
    ASSUME SendsBounded, NEW step \in {"check", "pop", "append"},
           NEW b \in Active, b \notin AtStep(step)
    PROVE  Cardinality(AtStep(step)) <= Workers - 1
<1>1. AtStep(step) \subseteq Active \ {b}
  BY DEF AtStep, Active
<1>2. /\ IsFiniteSet(Active \ {b})
      /\ Cardinality(Active \ {b}) = Cardinality(Active) - 1
  BY FS_RemoveElement DEF SendsBounded
<1>3. Cardinality(AtStep(step)) <= Cardinality(Active \ {b})
  BY <1>1, <1>2, FS_Subset
<1> QED
  BY <1>2, <1>3, AtStepFinite, WorkersAssumption DEF SendsBounded

(* A step that lets no send begin leaves the number of sends within the    *)
(* workers.                                                                *)
LEMMA NoneBegins ==
    ASSUME SendsBounded, Active' \subseteq Active
    PROVE  SendsBounded'
<1>1. IsFiniteSet(Active') /\ Cardinality(Active') <= Cardinality(Active)
  BY FS_Subset DEF SendsBounded
<1>2. Cardinality(Active') \in Nat /\ Cardinality(Active) \in Nat
  BY <1>1, FS_CardinalityType DEF SendsBounded
<1> QED
  BY <1>1, <1>2, WorkersAssumption DEF SendsBounded

-----------------------------------------------------------------------------
LEMMA InitialState == Init => IInv
<1> SUFFICES ASSUME Init PROVE IInv
  OBVIOUS
<1>1. TypeOK
  <2>1. Breaker!TypeOK
    <3>1. expired \in BOOLEAN
      BY Zenon DEF Init, Breaker!Init
    <3> QED
      BY <3>1 DEF Init, Breaker!Init, Breaker!TypeOK
  <2>2. Loki!TypeOK
    <3>1. client \in BOOLEAN /\ pool \in BOOLEAN
      BY PoolingAssumption, Zenon DEF Init, Loki!Init
    <3> QED
      BY <3>1 DEF Init, Loki!Init, Loki!TypeOK
  <2> QED
    BY <2>1, <2>2, BatchSizeAssumption, MaxRetriesAssumption DEF Init, TypeOK
<1>2. SendsBounded
  <2>1. Active = {}
    BY DEF Init, Active
  <2> QED
    BY <2>1, FS_EmptySet, WorkersAssumption DEF SendsBounded
<1>3. CallsAreSends /\ StoredByLoki
  BY DEF Init, Breaker!Init, CallsAreSends, StoredByLoki
<1>4. EntriesAccounted
  <2>1. \A b \in Batches : Stored(b) = 0
    <3>1. \A b \in Batches : {i \in DOMAIN dlq : dlq[i] = b} = {}
      BY DEF Init
    <3> QED
      BY <3>1, FS_EmptySet DEF Stored
  <2> QED
    BY <2>1, BatchSizeAssumption DEF Init, EntriesAccounted
<1>5. QueueWithinLimits
  <2>1. AtStep("append") = {} /\ AtStep("pop") = {} /\ Len(dlq) = 0
    BY DEF Init, AtStep
  <2> QED
    BY <2>1, FS_EmptySet, WorkersAssumption, DlqMaxSizeAssumption
       DEF QueueWithinLimits, Filled
<1>6. ClosedBeforeCleared
  <2>1. ~client => ~pool
    BY Zenon DEF Init, Loki!Init
  <2> QED
    BY <2>1 DEF Init, Loki!Init, ClosedBeforeCleared
<1> QED
  BY <1>1, <1>2, <1>3, <1>4, <1>5, <1>6 DEF IInv

-----------------------------------------------------------------------------
(* What a step preserves by leaving its variables alone.                   *)

LEMMA SameQueue ==
    ASSUME EntriesAccounted, UNCHANGED dlqVars,
           \A b \in Batches :
              /\ at'[b] \in {"pop", "append"} => left[b] > 0
              /\ at'[b] = "raised" => left[b] = 0
    PROVE  EntriesAccounted'
BY DEF EntriesAccounted, dlqVars, Stored

LEMMA SameFill ==
    ASSUME QueueWithinLimits, UNCHANGED dlq,
           UNCHANGED <<AtStep("append"), AtStep("pop")>>
    PROVE  QueueWithinLimits'
BY DEF QueueWithinLimits, Filled

LEMMA SameClient ==
    ASSUME Loki!TypeOK, ClosedBeforeCleared, UNCHANGED <<client, pool, closing>>
    PROVE  ClosedBeforeCleared'
BY DEF ClosedBeforeCleared

LEMMA SameBreaker ==
    ASSUME Breaker!TypeOK, UNCHANGED breakerVars
    PROVE  Breaker!TypeOK'
BY DEF breakerVars, Breaker!TypeOK

LEMMA SameLoki ==
    ASSUME Loki!TypeOK, UNCHANGED lokiVars
    PROVE  Loki!TypeOK'
BY DEF lokiVars, Loki!TypeOK

-----------------------------------------------------------------------------
(* One lemma for each action.                                              *)

LEMMA SendKeepsInvariant ==
    ASSUME IInv, NEW b \in Batches, Send(b)
    PROVE  IInv'
<1> USE DEF IInv
<1>1. at[b] = "new" /\ \E to \in {"trying", "check"} : Goto(b, to)
  BY DEF Send
<1>2. Breaker!TypeOK'
  <2>1. CASE Breaker!AdmitClosed(b)
    BY <2>1 DEF TypeOK, Breaker!AdmitClosed, Breaker!Goto, Breaker!TypeOK
  <2>2. CASE Breaker!AdmitFirstProbe(b)
    BY <2>2 DEF TypeOK, Breaker!AdmitFirstProbe, Breaker!Goto, Breaker!TypeOK
  <2>3. CASE Breaker!AdmitProbe(b)
    BY <2>3 DEF TypeOK, Breaker!AdmitProbe, Breaker!Goto, Breaker!TypeOK
  <2>4. CASE UNCHANGED breakerVars
    BY <2>4, SameBreaker DEF TypeOK
  <2> QED
    BY <2>1, <2>2, <2>3, <2>4 DEF Send, Breaker!Admit
<1>3. TypeOK'
  <2>1. Loki!TypeOK'
    BY SameLoki DEF Send, TypeOK
  <2> QED
    BY <1>1, <1>2, <2>1 DEF Send, TypeOK, Goto, dlqVars
<1>4. SendsBounded'
  <2>1. Active' = Active \cup {b} /\ b \notin Active
    BY <1>1 DEF TypeOK, Goto, Active
  <2>2. /\ IsFiniteSet(Active \cup {b})
        /\ Cardinality(Active \cup {b}) = Cardinality(Active) + 1
    BY <2>1, FS_AddElement DEF SendsBounded
  <2>3. Cardinality(Active) \in Nat /\ Cardinality(Active) < Workers
    BY FS_CardinalityType DEF SendsBounded, Send
  <2> QED
    BY <2>1, <2>2, <2>3, WorkersAssumption DEF SendsBounded
<1>5. CallsAreSends'
  <2>1. CASE Breaker!Admit(b) /\ Goto(b, "trying")
    <3>1. Breaker!Goto(b, "running")
      BY <2>1 DEF Breaker!Admit, Breaker!AdmitClosed, Breaker!AdmitFirstProbe,
                  Breaker!AdmitProbe
    <3> QED
      BY <2>1, <3>1 DEF TypeOK, Breaker!TypeOK, CallsAreSends, Goto, Breaker!Goto
  <2>2. CASE UNCHANGED breakerVars /\ Goto(b, "check")
    BY <1>1, <2>2 DEF TypeOK, CallsAreSends, Goto, breakerVars
  <2> QED
    BY <2>1, <2>2 DEF Send
<1>6. StoredByLoki'
  BY <1>1 DEF TypeOK, Send, Goto, StoredByLoki
<1>7. EntriesAccounted'
  BY <1>1, SameQueue DEF TypeOK, Send, Goto, EntriesAccounted
<1>8. QueueWithinLimits'
  <2>1. UNCHANGED <<AtStep("append"), AtStep("pop")>>
    BY <1>1 DEF TypeOK, Goto, AtStep
  <2> QED
    BY <2>1, SameFill DEF Send, dlqVars
<1>9. ClosedBeforeCleared'
  BY SameClient DEF Send, TypeOK, lokiVars
<1> QED
  BY <1>3, <1>4, <1>5, <1>6, <1>7, <1>8, <1>9

(* The retry loop: the send stays in it, or leaves it with an outcome, and *)
(* touches neither the breaker nor the queue.                              *)
LEMMA RetryLoopKeepsInvariant ==
    ASSUME IInv, NEW b \in Batches, at[b] = "trying",
           Loki!TypeOK', UNCHANGED <<client, pool, closing>>,
           UNCHANGED breakerVars, UNCHANGED dlqVars,
           attempt' \in [Batches -> 0..MaxRetries],
           accepted \subseteq accepted', accepted' \subseteq Batches,
           \/ UNCHANGED at
           \/ Goto(b, "failed")
           \/ Goto(b, "succeeded") /\ b \in accepted'
    PROVE  IInv'
<1> USE DEF IInv
<1>1. \/ UNCHANGED at
      \/ \E to \in {"failed", "succeeded"} : Goto(b, to)
  OBVIOUS
<1>2. TypeOK'
  <2>1. Breaker!TypeOK'
    BY SameBreaker DEF TypeOK
  <2> QED
    BY <1>1, <2>1 DEF TypeOK, Goto, dlqVars
<1>3. SendsBounded'
  <2>1. Active' = Active
    BY <1>1 DEF TypeOK, Goto, Active
  <2> QED
    BY <2>1, NoneBegins
<1>4. CallsAreSends'
  BY <1>1 DEF TypeOK, CallsAreSends, Goto, breakerVars
<1>5. StoredByLoki'
  BY DEF TypeOK, StoredByLoki, Goto
<1>6. EntriesAccounted'
  BY <1>1, SameQueue DEF TypeOK, Goto, EntriesAccounted
<1>7. QueueWithinLimits'
  <2>1. UNCHANGED <<AtStep("append"), AtStep("pop")>>
    BY <1>1 DEF TypeOK, Goto, AtStep
  <2> QED
    BY <2>1, SameFill DEF dlqVars
<1>8. ClosedBeforeCleared'
  BY SameClient DEF TypeOK
<1> QED
  BY <1>2, <1>3, <1>4, <1>5, <1>6, <1>7, <1>8

LEMMA AttemptKeepsInvariant ==
    ASSUME IInv, NEW b \in Batches,
           Request(b) \/ AttemptSucceeds(b) \/ AttemptFails(b) \/ ClientGone(b)
    PROVE  IInv'
<1> USE DEF IInv
<1>1. ASSUME \/ Loki!TestClient(b) \/ Loki!Post(b) \/ Loki!PostRaises(b)
             \/ Loki!Respond(b) \/ UNCHANGED lokiVars
      PROVE  Loki!TypeOK' /\ UNCHANGED <<client, pool, closing>>
  BY <1>1 DEF TypeOK, Loki!TypeOK, Loki!TestClient, Loki!Post, Loki!PostRaises,
              Loki!Respond, Loki!MoveTo, lokiVars
<1>2. CASE Request(b)
  BY <1>1, <1>2, RetryLoopKeepsInvariant DEF Request, TypeOK
<1>3. CASE AttemptSucceeds(b)
  BY <1>1, <1>3, RetryLoopKeepsInvariant DEF AttemptSucceeds, TypeOK
<1>4. CASE AttemptFails(b)
  <2>1. /\ Loki!TypeOK' /\ UNCHANGED <<client, pool, closing>>
        /\ at[b] = "trying" /\ UNCHANGED breakerVars /\ UNCHANGED dlqVars
        /\ accepted \subseteq accepted' /\ accepted' \subseteq Batches
    BY <1>1, <1>4 DEF AttemptFails, AttemptRaises, TypeOK
  <2>2. attempt' \in [Batches -> 0..MaxRetries]
    <3>1. attempt \in [Batches -> 0..MaxRetries]
      BY DEF TypeOK
    <3>2. \/ UNCHANGED attempt
          \/ attempt[b] < MaxRetries /\ attempt' = [attempt EXCEPT ![b] = @ + 1]
      BY <1>4 DEF AttemptFails
    <3> QED
      BY <3>1, <3>2, MaxRetriesAssumption
  <2>3. UNCHANGED at \/ Goto(b, "failed")
    BY <1>4 DEF AttemptFails
  <2> QED
    BY <2>1, <2>2, <2>3, RetryLoopKeepsInvariant
<1>5. CASE ClientGone(b)
  BY <1>1, <1>5, RetryLoopKeepsInvariant DEF ClientGone, TypeOK
<1> QED
  BY <1>2, <1>3, <1>4, <1>5

(* The breaker records an outcome: no other part of the send changes. *)
LEMMA RecordOutcomeKeepsInvariant ==
    ASSUME IInv, NEW b \in Batches, RecordOutcome(b)
    PROVE  IInv'
<1> USE DEF IInv
<1>1. Breaker!TypeOK' /\ Breaker!Goto(b, "checking")
  <2>1. CASE Breaker!RecordSuccess(b)
    BY <2>1 DEF TypeOK, Breaker!RecordSuccess, Breaker!Goto, Breaker!TypeOK
  <2>2. CASE Breaker!RecordFailure(b)
    <3>1. expired' \in BOOLEAN
      BY <2>2, Zenon DEF TypeOK, Breaker!RecordFailure, Breaker!TypeOK
    <3> QED
      BY <2>2, <3>1 DEF TypeOK, Breaker!RecordFailure, Breaker!Goto, Breaker!TypeOK
  <2> QED
    BY <2>1, <2>2 DEF RecordOutcome
<1>2. at[b] \in {"succeeded", "failed"} /\ UNCHANGED <<lokiVars, at, attempt, dlqVars, accepted>>
  BY DEF RecordOutcome
<1>3. TypeOK'
  BY <1>1, <1>2, SameLoki DEF TypeOK, dlqVars
<1>4. SendsBounded' /\ StoredByLoki'
  BY <1>2 DEF SendsBounded, Active, StoredByLoki
<1>5. CallsAreSends'
  BY <1>1, <1>2 DEF TypeOK, Breaker!TypeOK, Breaker!Goto, CallsAreSends
<1>6. EntriesAccounted'
  BY <1>2, SameQueue DEF EntriesAccounted
<1>7. QueueWithinLimits'
  BY <1>2, SameFill DEF AtStep, dlqVars
<1>8. ClosedBeforeCleared'
  BY <1>2, SameClient DEF TypeOK, lokiVars
<1> QED
  BY <1>3, <1>4, <1>5, <1>6, <1>7, <1>8

(* The finally block: a send that the breaker lets go returns, or goes on  *)
(* to the dead letter queue.                                               *)
LEMMA LeaveBreakerKeepsInvariant ==
    ASSUME IInv, NEW b \in Batches, LeaveBreaker(b)
    PROVE  IInv'
<1> USE DEF IInv
<1>1. /\ Breaker!TypeOK' /\ pc[b] \in {"checking", "returning"}
      /\ \E step \in {"returning", "idle"} : Breaker!Goto(b, step)
  <2>1. CASE Breaker!CheckState(b)
    BY <2>1 DEF TypeOK, Breaker!CheckState, Breaker!Goto, Breaker!TypeOK
  <2>2. CASE Breaker!ReturnProbe(b)
    BY <2>2 DEF TypeOK, Breaker!ReturnProbe, Breaker!Goto, Breaker!TypeOK
  <2> QED
    BY <2>1, <2>2 DEF LeaveBreaker
<1>2. at[b] \in {"succeeded", "failed"}
  BY <1>1 DEF CallsAreSends
<1>3. \/ UNCHANGED at /\ pc'[b] # "idle"
      \/ /\ pc'[b] = "idle"
         /\ \/ at[b] = "succeeded" /\ Goto(b, "sent")
            \/ Goto(b, "check")
  BY DEF LeaveBreaker
<1>4. UNCHANGED <<lokiVars, attempt, dlqVars, accepted>>
  BY DEF LeaveBreaker
<1>5. TypeOK'
  BY <1>1, <1>3, <1>4, SameLoki DEF TypeOK, Goto, dlqVars
<1>6. SendsBounded'
  <2>1. Active' \subseteq Active
    BY <1>2, <1>3 DEF TypeOK, Goto, Active
  <2> QED
    BY <2>1, NoneBegins
<1>7. CallsAreSends'
  <2>1. CASE UNCHANGED at /\ pc'[b] # "idle"
    BY <1>1, <1>2, <2>1 DEF TypeOK, Breaker!TypeOK, Breaker!Goto, CallsAreSends
  <2>2. CASE pc'[b] = "idle"
    BY <1>1, <1>3, <2>2 DEF TypeOK, Breaker!TypeOK, Breaker!Goto, Goto, CallsAreSends
  <2> QED
    BY <1>3, <2>1, <2>2
<1>8. StoredByLoki'
  BY <1>3, <1>4 DEF TypeOK, Goto, StoredByLoki
<1>9. EntriesAccounted'
  BY <1>3, <1>4, SameQueue DEF TypeOK, Goto, EntriesAccounted
<1>10. QueueWithinLimits'
  <2>1. UNCHANGED <<AtStep("append"), AtStep("pop")>>
    BY <1>2, <1>3 DEF TypeOK, Goto, AtStep
  <2> QED
    BY <1>4, <2>1, SameFill DEF dlqVars
<1>11. ClosedBeforeCleared'
  BY <1>4, SameClient DEF TypeOK, lokiVars
<1> QED
  BY <1>5, <1>6, <1>7, <1>8, <1>9, <1>10, <1>11

(* What the dead letter queue leaves alone. *)
LEMMA DlqLeavesAlone ==
    ASSUME IInv, NEW b \in Batches, UNCHANGED <<breakerVars, lokiVars, attempt, accepted>>,
           at[b] \in {"check", "pop", "append"},
           NEW to \in {"check", "pop", "append", "raised"}, Goto(b, to)
    PROVE  /\ Breaker!TypeOK' /\ Loki!TypeOK'
           /\ at' \in [Batches -> {"new", "trying", "succeeded", "failed", "check",
                                   "pop", "append", "sent", "raised"}]
           /\ attempt' \in [Batches -> 0..MaxRetries] /\ accepted' \subseteq Batches
           /\ SendsBounded' /\ CallsAreSends' /\ StoredByLoki' /\ ClosedBeforeCleared'
<1> USE DEF IInv
<1>1. Breaker!TypeOK' /\ Loki!TypeOK'
  BY SameBreaker, SameLoki DEF TypeOK
<1>2. /\ at' \in [Batches -> {"new", "trying", "succeeded", "failed", "check",
                              "pop", "append", "sent", "raised"}]
      /\ attempt' \in [Batches -> 0..MaxRetries] /\ accepted' \subseteq Batches
  BY DEF TypeOK, Goto
<1>3. SendsBounded'
  <2>1. Active' \subseteq Active
    BY DEF TypeOK, Goto, Active
  <2> QED
    BY <2>1, NoneBegins
<1>4. CallsAreSends' /\ StoredByLoki'
  <2>1. pc[b] = "idle"
    BY DEF TypeOK, Breaker!TypeOK, CallsAreSends
  <2> QED
    BY <2>1 DEF TypeOK, Goto, breakerVars, CallsAreSends, StoredByLoki
<1>5. ClosedBeforeCleared'
  BY SameClient DEF TypeOK, lokiVars
<1> QED
  BY <1>1, <1>2, <1>3, <1>4, <1>5

LEMMA FillType ==
    ASSUME TypeOK, SendsBounded
    PROVE  /\ Len(dlq) \in Nat /\ Cardinality(AtStep("append")) \in Nat
           /\ DlqMaxSize \in Nat /\ Workers \in Nat
BY AtStepFinite, WorkersAssumption, DlqMaxSizeAssumption DEF TypeOK

LEMMA StoredPlaces ==
    ASSUME NEW c
    PROVE  /\ Stored(c) = Cardinality(Places(dlq, c))
           /\ Stored(c)' = Cardinality(Places(dlq', c))
BY DEF Stored, Places

LEMMA DlqCheckKeepsInvariant ==
    ASSUME IInv, NEW b \in Batches, DlqCheck(b)
    PROVE  IInv'
<1> USE DEF IInv
<1>1. at[b] = "check" /\ UNCHANGED <<breakerVars, lokiVars, attempt, dlqVars, accepted>>
  BY DEF DlqCheck
<1>2. \/ left[b] = 0 /\ Goto(b, "raised")
      \/ left[b] > 0 /\ Len(dlq) >= DlqMaxSize /\ Goto(b, "pop")
      \/ left[b] > 0 /\ Len(dlq) < DlqMaxSize /\ Goto(b, "append")
  <2>1. left[b] \in 0..BatchSize
    BY DEF TypeOK
  <2> QED
    BY <2>1, BatchSizeAssumption, FillType DEF DlqCheck
<1>3. /\ TypeOK' /\ SendsBounded' /\ CallsAreSends' /\ StoredByLoki' /\ ClosedBeforeCleared'
  <2>1. left' = left /\ dlq' = dlq /\ lost' = lost
    BY <1>1 DEF dlqVars
  <2> QED
    BY <1>1, <1>2, <2>1, DlqLeavesAlone DEF TypeOK
<1>4. EntriesAccounted'
  BY <1>1, <1>2, SameQueue DEF TypeOK, Goto, EntriesAccounted
<1>5. QueueWithinLimits'
  <2>1. dlq' = dlq
    BY <1>1 DEF dlqVars
  <2>2. CASE Goto(b, "raised")
    <3>1. UNCHANGED <<AtStep("append"), AtStep("pop")>>
      BY <1>1, <2>2 DEF TypeOK, Goto, AtStep
    <3> QED
      BY <2>1, <3>1, SameFill
  <2>3. CASE Len(dlq) >= DlqMaxSize /\ Goto(b, "pop")
    <3>1. AtStep("append")' = AtStep("append")
      BY <1>1, <2>3 DEF TypeOK, Goto, AtStep
    <3> QED
      BY <2>1, <2>3, <3>1, FillType DEF QueueWithinLimits, Filled
  <2>4. CASE Len(dlq) < DlqMaxSize /\ Goto(b, "append")
    <3>1. AtStep("append")' = AtStep("append") \cup {b} /\ b \notin AtStep("append")
      BY <1>1, <2>4 DEF TypeOK, Goto, AtStep
    <3>2. AtStep("pop")' = AtStep("pop")
      BY <1>1, <2>4 DEF TypeOK, Goto, AtStep
    <3>3. Cardinality(AtStep("append")') = Cardinality(AtStep("append")) + 1
      BY <3>1, AtStepFinite, FS_AddElement
    <3>4. Cardinality(AtStep("append")) <= Workers - 1
      BY <1>1, <3>1, AtStepButOne DEF Active
    <3> QED
      BY <2>1, <2>4, <3>2, <3>3, <3>4, FillType DEF QueueWithinLimits, Filled
  <2> QED
    BY <1>2, <2>2, <2>3, <2>4
<1> QED
  BY <1>3, <1>4, <1>5

(* A worker that has seen the queue full finds an entry to pop, whatever   *)
(* the others have popped meanwhile.                                       *)
LEMMA PopFindsAnEntry ==
    ASSUME IInv, NEW b \in Batches, at[b] = "pop"
    PROVE  Len(dlq) > 0
<1> USE DEF IInv
<1>1. b \in AtStep("pop") /\ b \in Active /\ b \notin AtStep("append")
  BY DEF AtStep, Active
<1>2. Cardinality(AtStep("append")) <= Workers - 1
  BY <1>1, AtStepButOne
<1>3. Len(dlq) + Cardinality(AtStep("append")) >= DlqMaxSize
  BY <1>1 DEF QueueWithinLimits, Filled
<1>4. DlqMaxSize >= Workers
  BY DlqMaxSizeAssumption
<1> QED
  BY <1>2, <1>3, <1>4, FillType

LEMMA DlqPopKeepsInvariant ==
    ASSUME IInv, NEW b \in Batches, DlqPop(b)
    PROVE  IInv'
<1> USE DEF IInv
<1>1. at[b] = "pop" /\ UNCHANGED <<breakerVars, lokiVars, attempt, left, accepted>>
  BY DEF DlqPop
<1>2. dlq \in Seq(Batches) /\ dlq # <<>> /\ Head(dlq) \in Batches
  <2>1. dlq \in Seq(Batches)
    BY DEF TypeOK
  <2>2. dlq # <<>>
    BY <1>1, <2>1, PopFindsAnEntry
  <2> QED
    BY <2>1, <2>2
<1>3. /\ dlq' = Tail(dlq) /\ Goto(b, "append")
      /\ lost' = [lost EXCEPT ![Head(dlq)] = @ + 1]
  BY <1>2 DEF DlqPop
<1>4. \A c \in Batches : /\ Stored(c) \in Nat
                         /\ Stored(c)' = Stored(c) - (IF c = Head(dlq) THEN 1 ELSE 0)
  BY <1>2, <1>3, StoredPlaces, PlacesFinite, PlacesOfTail
<1>5. \A c \in Batches : /\ left[c] \in Nat /\ lost[c] \in Nat
                         /\ lost'[c] = lost[c] + (IF c = Head(dlq) THEN 1 ELSE 0)
                         /\ Stored(c)' \in Nat
  <2>1. lost \in [Batches -> 0..BatchSize] /\ left \in [Batches -> 0..BatchSize]
    BY DEF TypeOK
  <2>2. \A c \in Batches : left[c] \in Nat /\ lost[c] \in Nat
    BY <2>1, BatchSizeAssumption
  <2>3. Tail(dlq) \in Seq(Batches)
    BY <1>2
  <2>4. \A c \in Batches : Stored(c)' \in Nat
    BY <1>3, <2>3, StoredPlaces, PlacesFinite
  <2> QED
    BY <1>2, <1>3, <2>1, <2>2, <2>4, SMTT(20)
<1>6. \A c \in Batches : Stored(c)' + lost'[c] + left'[c] = BatchSize
  BY <1>1, <1>4, <1>5 DEF EntriesAccounted
<1>7. EntriesAccounted'
  BY <1>1, <1>3, <1>6 DEF TypeOK, Goto, EntriesAccounted
<1>8. lost' \in [Batches -> 0..BatchSize]
  <2>1. \A c \in Batches : lost'[c] \in 0..BatchSize
    BY <1>1, <1>5, <1>6, BatchSizeAssumption
  <2>2. lost' = [c \in Batches |-> lost'[c]]
    BY <1>2, <1>3 DEF TypeOK
  <2> QED
    BY <2>1, <2>2
<1>9. /\ TypeOK' /\ SendsBounded' /\ CallsAreSends' /\ StoredByLoki' /\ ClosedBeforeCleared'
  <2>1. left' \in [Batches -> 0..BatchSize] /\ dlq' \in Seq(Batches)
    BY <1>1, <1>2, <1>3 DEF TypeOK
  <2> QED
    BY <1>1, <1>3, <1>8, <2>1, DlqLeavesAlone DEF TypeOK
<1>10. QueueWithinLimits'
  <2>1. AtStep("append")' = AtStep("append") \cup {b} /\ b \notin AtStep("append")
    BY <1>1, <1>3 DEF TypeOK, Goto, AtStep
  <2>2. Cardinality(AtStep("append")') = Cardinality(AtStep("append")) + 1
    BY <2>1, AtStepFinite, FS_AddElement
  <2>3. Len(dlq') = Len(dlq) - 1
    BY <1>2, <1>3
  <2>4. Filled' = Filled /\ AtStep("pop") # {}
    BY <1>1, <2>2, <2>3, FillType DEF Filled, AtStep
  <2> QED
    BY <2>4 DEF QueueWithinLimits
<1> QED
  BY <1>7, <1>9, <1>10

LEMMA DlqAppendKeepsInvariant ==
    ASSUME IInv, NEW b \in Batches, DlqAppend(b)
    PROVE  IInv'
<1> USE DEF IInv
<1>1. /\ at[b] = "append" /\ UNCHANGED <<breakerVars, lokiVars, attempt, lost, accepted>>
      /\ dlq' = Append(dlq, b) /\ Goto(b, "check")
      /\ left' = [left EXCEPT ![b] = @ - 1]
  BY DEF DlqAppend
<1>2. dlq \in Seq(Batches) /\ Append(dlq, b) \in Seq(Batches) /\ left[b] > 0
  BY <1>1 DEF TypeOK, EntriesAccounted
<1>3. \A c \in Batches : /\ Stored(c) \in Nat
                         /\ Stored(c)' = Stored(c) + (IF c = b THEN 1 ELSE 0)
  BY <1>1, <1>2, StoredPlaces, PlacesFinite, PlacesOfAppend
<1>4. \A c \in Batches : /\ left[c] \in 0..BatchSize /\ lost[c] \in Nat
                         /\ left'[c] = left[c] - (IF c = b THEN 1 ELSE 0)
  BY <1>1, BatchSizeAssumption DEF TypeOK
<1>5. \A c \in Batches : Stored(c)' + lost'[c] + left'[c] = BatchSize
  <2> TAKE c \in Batches
  <2>1. Stored(c) + lost[c] + left[c] = BatchSize /\ lost'[c] = lost[c]
    BY <1>1 DEF EntriesAccounted
  <2> QED
    BY <1>3, <1>4, <2>1, BatchSizeAssumption
<1>6. left' \in [Batches -> 0..BatchSize]
  BY <1>1, <1>2, BatchSizeAssumption DEF TypeOK
<1>7. EntriesAccounted'
  <2>1. \A c \in Batches : at'[c] = "raised" => left'[c] = 0
    BY <1>1 DEF TypeOK, Goto, EntriesAccounted
  <2>2. \A c \in Batches : at'[c] \in {"pop", "append"} => left'[c] > 0
    BY <1>1 DEF TypeOK, Goto, EntriesAccounted
  <2> QED
    BY <1>5, <2>1, <2>2 DEF EntriesAccounted
<1>8. /\ TypeOK' /\ SendsBounded' /\ CallsAreSends' /\ StoredByLoki' /\ ClosedBeforeCleared'
  BY <1>1, <1>2, <1>6, DlqLeavesAlone DEF TypeOK
<1>9. QueueWithinLimits'
  <2>1. AtStep("append")' = AtStep("append") \ {b} /\ b \in AtStep("append")
    BY <1>1 DEF TypeOK, Goto, AtStep
  <2>2. Cardinality(AtStep("append")') = Cardinality(AtStep("append")) - 1
    BY <2>1, AtStepFinite, FS_RemoveElement
  <2>3. Len(dlq') = Len(dlq) + 1
    BY <1>1, <1>2
  <2>4. Filled' = Filled
    BY <2>2, <2>3, FillType DEF Filled
  <2>5. AtStep("pop")' = AtStep("pop")
    BY <1>1 DEF TypeOK, Goto, AtStep
  <2> QED
    BY <2>4, <2>5 DEF QueueWithinLimits
<1> QED
  BY <1>7, <1>8, <1>9

LEMMA ElapseKeepsInvariant == IInv /\ Elapse => IInv'
<1> SUFFICES ASSUME IInv, Elapse PROVE IInv'
  OBVIOUS
<1> USE DEF IInv
<1>1. /\ Breaker!TypeOK' /\ pc' = pc
      /\ UNCHANGED <<lokiVars, at, attempt, dlqVars, accepted>>
  BY DEF Elapse, Breaker!Elapse, TypeOK, Breaker!TypeOK
<1>2. TypeOK'
  BY <1>1, SameLoki DEF TypeOK, dlqVars
<1>3. SendsBounded' /\ CallsAreSends' /\ StoredByLoki'
  BY <1>1 DEF SendsBounded, Active, CallsAreSends, StoredByLoki
<1>4. EntriesAccounted'
  BY <1>1, SameQueue DEF EntriesAccounted
<1>5. QueueWithinLimits'
  BY <1>1, SameFill DEF AtStep, dlqVars
<1>6. ClosedBeforeCleared'
  BY <1>1, SameClient DEF TypeOK, lokiVars
<1> QED
  BY <1>2, <1>3, <1>4, <1>5, <1>6

LEMMA DestroyKeepsInvariant ==
    ASSUME IInv, NEW d \in Destroyers, Destroy(d)
    PROVE  IInv'
<1> USE DEF IInv
<1>1. UNCHANGED <<breakerVars, at, attempt, dlqVars, accepted>>
  BY DEF Destroy
<1>2. Loki!TypeOK' /\ ClosedBeforeCleared'
  <2>1. CASE Loki!TestDestroy(d)
    BY <2>1 DEF TypeOK, Loki!TypeOK, Loki!TestDestroy, Loki!Step, ClosedBeforeCleared
  <2>2. CASE Loki!Close(d)
    <3>1. client \in BOOLEAN /\ pool \in BOOLEAN /\ request' = request
      BY <2>2 DEF TypeOK, Loki!TypeOK, Loki!Close
    <3>2. CASE client /\ Loki!Step(d, "close", "clear") /\ pool' = FALSE /\ client' = client
      BY <3>1, <3>2 DEF TypeOK, Loki!TypeOK, Loki!Step, ClosedBeforeCleared
    <3>3. CASE ~client /\ Loki!Step(d, "close", "over") /\ pool' = pool /\ client' = client
      BY <3>1, <3>3 DEF TypeOK, Loki!TypeOK, Loki!Step, ClosedBeforeCleared
    <3>4. CASE Loki!Step(d, "clear", "over") /\ client' = FALSE /\ pool' = pool
      BY <3>1, <3>4 DEF TypeOK, Loki!TypeOK, Loki!Step, ClosedBeforeCleared
    <3> QED
      BY <2>2, <3>2, <3>3, <3>4 DEF Loki!Close
  <2> QED
    BY <2>1, <2>2 DEF Destroy, Loki!Destroy
<1>3. TypeOK'
  BY <1>1, <1>2, SameBreaker DEF TypeOK, dlqVars
<1>4. SendsBounded' /\ CallsAreSends' /\ StoredByLoki'
  BY <1>1 DEF SendsBounded, Active, CallsAreSends, StoredByLoki, breakerVars
<1>5. EntriesAccounted'
  BY <1>1, SameQueue DEF EntriesAccounted
<1>6. QueueWithinLimits'
  BY <1>1, SameFill DEF AtStep, dlqVars
<1> QED
  BY <1>2, <1>3, <1>4, <1>5, <1>6

LEMMA NextInvariant == IInv /\ [Next]_vars => IInv'
<1> SUFFICES ASSUME IInv, [Next]_vars PROVE IInv'
  OBVIOUS
<1>1. CASE UNCHANGED vars
  <2> USE <1>1 DEF IInv, vars
  <2>1. TypeOK'
    BY SameBreaker, SameLoki DEF TypeOK, dlqVars
  <2>2. SendsBounded' /\ CallsAreSends' /\ StoredByLoki'
    BY DEF SendsBounded, Active, CallsAreSends, StoredByLoki, breakerVars
  <2>3. EntriesAccounted'
    BY SameQueue DEF EntriesAccounted
  <2>4. QueueWithinLimits' /\ ClosedBeforeCleared'
    BY SameFill, SameClient DEF TypeOK, AtStep, dlqVars, lokiVars
  <2> QED
    BY <2>1, <2>2, <2>3, <2>4
<1>2. ASSUME NEW b \in Batches, Send(b) \/ Worker(b)
      PROVE  IInv'
  BY <1>2, SendKeepsInvariant, AttemptKeepsInvariant, RecordOutcomeKeepsInvariant,
     LeaveBreakerKeepsInvariant, DlqCheckKeepsInvariant, DlqPopKeepsInvariant,
     DlqAppendKeepsInvariant
     DEF Worker
<1> QED
  BY <1>1, <1>2, ElapseKeepsInvariant, DestroyKeepsInvariant DEF Next

-----------------------------------------------------------------------------
(* The payload of a request, for every batch (loki_json_transport.py:      *)
(* 175-208).  A listing InOrder gives each element the place that the      *)
(* number of its predecessors says: this number is different for each of   *)
(* them, and a one-to-one map of a finite set into one of the same size    *)
(* reaches every place.                                                    *)

StrictTotal(S, before) ==
    /\ \A i \in S : <<i, i>> \notin before
    /\ \A i, j \in S : i # j => (<<i, j>> \in before \/ <<j, i>> \in before)
    /\ \A i, j, k \in S :
          <<i, j>> \in before /\ <<j, k>> \in before => <<i, k>> \in before

Preceding(S, before, i) == {j \in S : <<j, i>> \in before}

(* What comes later has more before it. *)
LEMMA PrecedingGrows ==
    ASSUME NEW S, IsFiniteSet(S), NEW before, StrictTotal(S, before)
    PROVE  /\ \A i \in S : /\ Cardinality(Preceding(S, before, i)) \in Nat
                           /\ Cardinality(Preceding(S, before, i)) < Cardinality(S)
           /\ \A i, j \in S : <<i, j>> \in before =>
                 Cardinality(Preceding(S, before, i)) < Cardinality(Preceding(S, before, j))
<1>1. \A T, U : IsFiniteSet(U) /\ T \subseteq U /\ T # U =>
         /\ Cardinality(T) \in Nat /\ Cardinality(U) \in Nat
         /\ Cardinality(T) < Cardinality(U)
  <2>1. SUFFICES ASSUME NEW T, NEW U, IsFiniteSet(U), T \subseteq U, T # U
                 PROVE  /\ Cardinality(T) \in Nat /\ Cardinality(U) \in Nat
                        /\ Cardinality(T) < Cardinality(U)
    OBVIOUS
  <2>2. /\ IsFiniteSet(T) /\ Cardinality(T) <= Cardinality(U)
        /\ Cardinality(T) = Cardinality(U) => T = U
    BY <2>1, FS_Subset
  <2>3. Cardinality(T) \in Nat /\ Cardinality(U) \in Nat
    BY <2>1, <2>2, FS_CardinalityType
  <2> QED
    BY <2>1, <2>2, <2>3
<1>2. \A i \in S : IsFiniteSet(Preceding(S, before, i))
  <2>1. \A i \in S : Preceding(S, before, i) \subseteq S
    BY DEF Preceding
  <2> QED
    BY <2>1, FS_Subset
<1>3. ASSUME NEW i \in S
      PROVE  Preceding(S, before, i) \subseteq S /\ Preceding(S, before, i) # S
  BY DEF Preceding, StrictTotal
<1>4. ASSUME NEW i \in S, NEW j \in S, <<i, j>> \in before
      PROVE  /\ Preceding(S, before, i) \subseteq Preceding(S, before, j)
             /\ Preceding(S, before, i) # Preceding(S, before, j)
  <2>1. i \in Preceding(S, before, j) /\ i \notin Preceding(S, before, i)
    BY <1>4 DEF Preceding, StrictTotal
  <2>2. \A k \in Preceding(S, before, i) : k \in Preceding(S, before, j)
    BY <1>4 DEF Preceding, StrictTotal
  <2> QED
    BY <2>1, <2>2
<1> QED
  BY <1>1, <1>2, <1>3, <1>4

(* The listing of a finite set holds each of its elements, each once, and  *)
(* the earlier one first.                                                  *)
LEMMA InOrderLists ==
    ASSUME NEW S, IsFiniteSet(S), NEW before, StrictTotal(S, before)
    PROVE  /\ DOMAIN InOrder(S, before) = 1..Cardinality(S)
           /\ \A m \in DOMAIN InOrder(S, before) : InOrder(S, before)[m] \in S
           /\ \A i \in S : \E m \in DOMAIN InOrder(S, before) : InOrder(S, before)[m] = i
           /\ \A m, n \in DOMAIN InOrder(S, before) :
                 m < n => <<InOrder(S, before)[m], InOrder(S, before)[n]>> \in before
           /\ \A m, n \in DOMAIN InOrder(S, before) :
                 InOrder(S, before)[m] = InOrder(S, before)[n] => m = n
<1> DEFINE s == InOrder(S, before)
           rank(i) == Cardinality(Preceding(S, before, i))
           f == [i \in S |-> rank(i) + 1]
<1>1. /\ \A i \in S : rank(i) \in Nat /\ rank(i) < Cardinality(S)
      /\ \A i, j \in S : <<i, j>> \in before => rank(i) < rank(j)
  BY PrecedingGrows
<1>2. Cardinality(S) \in Nat
  BY FS_CardinalityType
<1>3. DOMAIN s = 1..Cardinality(S)
  BY DEF InOrder
<1>4. \A m \in 1..Cardinality(S) : s[m] = CHOOSE i \in S : rank(i) = m - 1
  BY DEF InOrder, Preceding
<1> HIDE DEF s, rank
<1>5. ASSUME NEW i \in S, NEW j \in S, rank(i) = rank(j) PROVE i = j
  <2>1. <<i, j>> \notin before /\ <<j, i>> \notin before
    BY <1>1, <1>5
  <2> QED
    BY <2>1 DEF StrictTotal
<1>6. f \in Injection(S, 1..Cardinality(S))
  <2>1. \A i \in S : rank(i) + 1 \in 1..Cardinality(S)
    BY <1>1, <1>2
  <2>2. f \in [S -> 1..Cardinality(S)]
    BY <2>1
  <2>3. \A i, j \in S : f[i] = f[j] => i = j
    BY <1>1, <1>5
  <2> HIDE DEF f
  <2> QED
    BY <2>2, <2>3, Fun_IsInj
<1>7. f \in Surjection(S, 1..Cardinality(S))
  <2>1. IsFiniteSet(1..Cardinality(S)) /\ Cardinality(1..Cardinality(S)) = Cardinality(S)
    BY <1>2, FS_Interval
  <2> HIDE DEF f
  <2> QED
    BY <1>6, <2>1, FS_Injection
<1>8. \A m \in 1..Cardinality(S) : \E i \in S : rank(i) = m - 1
  <2>1. \A m \in 1..Cardinality(S) : \E i \in S : f[i] = m
    BY <1>7 DEF Surjection
  <2> QED
    BY <1>1, <1>2, <2>1
<1>9. \A m \in 1..Cardinality(S) : s[m] \in S /\ rank(s[m]) = m - 1
  BY <1>4, <1>8
<1>10. ASSUME NEW i \in S PROVE \E m \in 1..Cardinality(S) : s[m] = i
  <2>1. rank(i) + 1 \in 1..Cardinality(S) /\ (rank(i) + 1) - 1 = rank(i)
    BY <1>1, <1>2
  <2>2. s[rank(i) + 1] = i
    BY <1>5, <1>9, <2>1
  <2> QED
    BY <2>1, <2>2
<1>11. ASSUME NEW m \in 1..Cardinality(S), NEW n \in 1..Cardinality(S), m < n
       PROVE  <<s[m], s[n]>> \in before
  <2>1. s[m] \in S /\ s[n] \in S /\ rank(s[m]) < rank(s[n])
    BY <1>2, <1>9, <1>11
  <2>2. s[m] # s[n] /\ <<s[n], s[m]>> \notin before
    BY <1>1, <2>1
  <2> QED
    BY <2>1, <2>2 DEF StrictTotal
<1>12. ASSUME NEW m \in 1..Cardinality(S), NEW n \in 1..Cardinality(S), s[m] = s[n]
       PROVE  m = n
  BY <1>2, <1>9, <1>12
<1> QED
  BY <1>3, <1>9, <1>10, <1>11, <1>12 DEF s

Batch == [1..BatchSize -> [labels : LabelSets, at : Timestamps]]

(* Both orders of the entries of a batch are strict and total. *)
LEMMA OrdersStrictTotal ==
    ASSUME NEW entries \in Batch, NEW S, S \subseteq 1..BatchSize
    PROVE  /\ IsFiniteSet(S)
           /\ StrictTotal(S, Arrival(entries)) /\ StrictTotal(S, SortOrder(entries))
<1>1. IsFiniteSet(S)
  <2>1. IsFiniteSet(1..BatchSize)
    BY BatchSizeAssumption, FS_Interval
  <2> QED
    BY <2>1, FS_Subset
<1>2. DOMAIN entries = 1..BatchSize /\ \A i \in 1..BatchSize : entries[i].at \in Nat
  BY TimestampsAssumption DEF Batch
<1>3. \A i, j \in S : <<i, j>> \in Arrival(entries) <=> i < j
  BY <1>2 DEF Arrival
<1>4. \A i, j \in S : <<i, j>> \in SortOrder(entries) <=>
         \/ entries[i].at < entries[j].at
         \/ entries[i].at = entries[j].at /\ i < j
  BY <1>2 DEF SortOrder
<1>5. S \subseteq Nat
  BY BatchSizeAssumption
<1>6. StrictTotal(S, Arrival(entries))
  BY <1>3, <1>5 DEF StrictTotal
<1>7. StrictTotal(S, SortOrder(entries))
  <2>1. \A i \in S : i \in Nat /\ entries[i].at \in Nat
    BY <1>2, <1>5
  <2> QED
    BY <1>4, <2>1 DEF StrictTotal
<1> QED
  BY <1>1, <1>6, <1>7

(* A stream lists the entries with its labels, in the order.               *)
ListsItsLabels(s, entries, order) ==
    /\ \A m \in DOMAIN s.values :
          /\ s.values[m] \in DOMAIN entries
          /\ entries[s.values[m]].labels = s.stream
    /\ \A i \in DOMAIN entries :
          entries[i].labels = s.stream => \E m \in DOMAIN s.values : s.values[m] = i
    /\ \A m1, m2 \in DOMAIN s.values :
          /\ m1 < m2 => <<s.values[m1], s.values[m2]>> \in order
          /\ s.values[m1] = s.values[m2] => m1 = m2

LEMMA StreamsAre ==
    ASSUME NEW entries \in Batch, NEW order, order \in {Arrival(entries), SortOrder(entries)},
           NEW n \in DOMAIN Streams(entries, order)
    PROVE  ListsItsLabels(Streams(entries, order)[n], entries, order)
<1> DEFINE s == Streams(entries, order)[n]
           P == Positions(entries, s.stream)
           v == InOrder(P, order)
<1>1. DOMAIN entries = 1..BatchSize
  BY DEF Batch
<1>2. n \in 1..Cardinality(Openers(entries))
  BY DEF Streams
<1>3. s.values = v
  BY <1>2 DEF Streams
<1> HIDE DEF s
<1>4. P \subseteq 1..BatchSize
  BY <1>1 DEF Positions
<1>5. IsFiniteSet(P) /\ StrictTotal(P, order)
  <2> HIDE DEF P
  <2> QED
    BY <1>4, OrdersStrictTotal
<1>6. /\ \A m \in DOMAIN v : v[m] \in P
      /\ \A i \in P : \E m \in DOMAIN v : v[m] = i
      /\ \A m1, m2 \in DOMAIN v : m1 < m2 => <<v[m1], v[m2]>> \in order
      /\ \A m1, m2 \in DOMAIN v : v[m1] = v[m2] => m1 = m2
  <2> HIDE DEF P
  <2> QED
    BY <1>5, InOrderLists
<1>7. \A i : i \in P <=> i \in DOMAIN entries /\ entries[i].labels = s.stream
  BY DEF Positions
<1> HIDE DEF P, v
<1>8. ListsItsLabels(s, entries, order)
  BY <1>3, <1>6, <1>7 DEF ListsItsLabels
<1> QED
  BY <1>8 DEF s

(* The first entry with some labels opens their stream. *)
LEMMA OpenerExists ==
    ASSUME NEW entries \in Batch, NEW i \in 1..BatchSize
    PROVE  \E k \in Openers(entries) : entries[k].labels = entries[i].labels
<1> DEFINE T == {j \in 1..BatchSize : entries[j].labels = entries[i].labels}
<1>1. T \subseteq Nat /\ T # {}
  BY BatchSizeAssumption
<1>2. PICK k \in T : \A j \in T : ~(<<j, k>> \in OpToRel(<, Nat))
  <2> HIDE DEF T
  <2> QED
    BY <1>1, NatLessThanWellFounded, WFMin
<1>3. \A j \in T : ~(j < k)
  BY <1>1, <1>2 DEF OpToRel
<1>4. DOMAIN entries = 1..BatchSize
  BY DEF Batch
<1>5. \A j \in 1..k - 1 : entries[j].labels # entries[k].labels
  BY <1>3, BatchSizeAssumption
<1> QED
  BY <1>4, <1>5 DEF Openers

(* Two streams have different labels. *)
LEMMA StreamsDiffer ==
    ASSUME NEW entries \in Batch, NEW order,
           NEW n1 \in DOMAIN Streams(entries, order), NEW n2 \in DOMAIN Streams(entries, order),
           Streams(entries, order)[n1].stream = Streams(entries, order)[n2].stream
    PROVE  n1 = n2
<1> DEFINE keys == InOrder(Openers(entries), Arrival(entries))
<1>1. DOMAIN entries = 1..BatchSize
  BY DEF Batch
<1>2. Openers(entries) \subseteq 1..BatchSize
  BY <1>1 DEF Openers
<1>3. /\ DOMAIN keys = 1..Cardinality(Openers(entries))
      /\ \A m \in DOMAIN keys : keys[m] \in Openers(entries)
      /\ \A m1, m2 \in DOMAIN keys : keys[m1] = keys[m2] => m1 = m2
  <2>1. IsFiniteSet(Openers(entries)) /\ StrictTotal(Openers(entries), Arrival(entries))
    BY <1>2, OrdersStrictTotal
  <2> QED
    BY <2>1, InOrderLists
<1>4. n1 \in DOMAIN keys /\ n2 \in DOMAIN keys
  BY <1>3 DEF Streams
<1>5. entries[keys[n1]].labels = entries[keys[n2]].labels
  BY DEF Streams
<1> HIDE DEF keys
<1>6. \A i, j \in Openers(entries) : entries[i].labels = entries[j].labels => i = j
  <2>1. SUFFICES ASSUME NEW i \in Openers(entries), NEW j \in Openers(entries),
                        entries[i].labels = entries[j].labels, i < j
                 PROVE  FALSE
    BY <1>2, BatchSizeAssumption
  <2>2. i \in 1..j - 1
    BY <1>2, <2>1, BatchSizeAssumption
  <2> QED
    BY <2>1, <2>2 DEF Openers
<1> QED
  BY <1>3, <1>4, <1>5, <1>6

(* A payload holds the batch. *)
LEMMA StreamsWhole ==
    ASSUME NEW entries \in Batch, NEW order, order \in {Arrival(entries), SortOrder(entries)}
    PROVE  Whole(Streams(entries, order), entries)
<1> DEFINE s == Streams(entries, order)
<1>1. DOMAIN entries = 1..BatchSize
  BY DEF Batch
<1>2. \A n \in DOMAIN s : ListsItsLabels(s[n], entries, order)
  BY StreamsAre
<1>3. \A n1, n2 \in DOMAIN s : s[n1].stream = s[n2].stream => n1 = n2
  BY StreamsDiffer
<1>4. \A i \in Openers(entries) : \E n \in DOMAIN s : s[n].stream = entries[i].labels
  <2> DEFINE keys == InOrder(Openers(entries), Arrival(entries))
  <2>1. Openers(entries) \subseteq 1..BatchSize
    BY <1>1 DEF Openers
  <2>2. IsFiniteSet(Openers(entries)) /\ StrictTotal(Openers(entries), Arrival(entries))
    BY <2>1, OrdersStrictTotal
  <2>3. /\ DOMAIN keys = 1..Cardinality(Openers(entries))
        /\ \A i \in Openers(entries) : \E m \in DOMAIN keys : keys[m] = i
    BY <2>2, InOrderLists
  <2>4. /\ DOMAIN s = 1..Cardinality(Openers(entries))
        /\ \A n \in DOMAIN s : s[n].stream = entries[keys[n]].labels
    BY DEF Streams
  <2> HIDE DEF keys, s
  <2> QED
    BY <2>3, <2>4
<1> HIDE DEF s
<1>5. ASSUME NEW i \in DOMAIN entries
      PROVE  \E n \in DOMAIN s : \E m \in DOMAIN s[n].values : s[n].values[m] = i
  <2>1. PICK k \in Openers(entries) : entries[k].labels = entries[i].labels
    BY <1>1, OpenerExists
  <2>2. PICK n \in DOMAIN s : s[n].stream = entries[k].labels
    BY <1>4
  <2> QED
    BY <1>2, <2>1, <2>2 DEF ListsItsLabels
<1>6. ASSUME NEW i \in DOMAIN entries, NEW n1 \in DOMAIN s, NEW n2 \in DOMAIN s,
             NEW m1 \in DOMAIN s[n1].values, NEW m2 \in DOMAIN s[n2].values,
             s[n1].values[m1] = i, s[n2].values[m2] = i
      PROVE  n1 = n2 /\ m1 = m2
  <2>1. s[n1].stream = entries[i].labels /\ s[n2].stream = entries[i].labels
    BY <1>2, <1>6 DEF ListsItsLabels
  <2>2. n1 = n2
    BY <1>3, <2>1
  <2>3. /\ m1 \in DOMAIN s[n1].values /\ m2 \in DOMAIN s[n1].values
        /\ s[n1].values[m1] = s[n1].values[m2]
    BY <1>6, <2>2
  <2>4. ListsItsLabels(s[n1], entries, order)
    BY <1>2
  <2> QED
    BY <2>2, <2>3, <2>4 DEF ListsItsLabels
<1>7. \A n \in DOMAIN s : \A m \in DOMAIN s[n].values :
         /\ s[n].values[m] \in DOMAIN entries
         /\ entries[s[n].values[m]].labels = s[n].stream
  BY <1>2 DEF ListsItsLabels
<1> QED
  BY <1>5, <1>6, <1>7 DEF Whole, s

(* The JSON transport's streams go forward in time. *)
LEMMA StreamsChronological ==
    ASSUME NEW entries \in Batch
    PROVE  Chronological(FormatForLoki(entries), entries)
<1> DEFINE s == FormatForLoki(entries)
<1>1. s = Streams(entries, SortOrder(entries))
  BY DEF FormatForLoki
<1>2. \A n \in DOMAIN s : \A m1, m2 \in DOMAIN s[n].values :
         /\ s[n].values[m1] \in DOMAIN entries
         /\ s[n].values[m2] \in DOMAIN entries
         /\ m1 < m2 => <<s[n].values[m1], s[n].values[m2]>> \in SortOrder(entries)
  <2>1. \A n \in DOMAIN s : ListsItsLabels(s[n], entries, SortOrder(entries))
    BY <1>1, StreamsAre
  <2> HIDE DEF s
  <2> QED
    BY <2>1 DEF ListsItsLabels
<1>3. \A i, j \in DOMAIN entries : <<i, j>> \in SortOrder(entries) =>
         /\ entries[i].at <= entries[j].at
         /\ entries[i].at = entries[j].at => i < j
  <2>1. \A i \in DOMAIN entries : entries[i].at \in Nat
    BY TimestampsAssumption DEF Batch
  <2> QED
    BY <2>1 DEF SortOrder
<1> HIDE DEF s
<1> QED
  BY <1>2, <1>3 DEF Chronological, s

(* Whatever the labels and the times of its entries, and in whatever order *)
(* they are flushed, a batch is in its payload, each entry once, in the    *)
(* stream of its labels, in the order of time.                             *)
THEOREM PayloadsAreSound == PayloadsSound
<1> SUFFICES ASSUME NEW entries \in Batch
             PROVE  /\ Whole(FormatForLoki(entries), entries)
                    /\ Chronological(FormatForLoki(entries), entries)
                    /\ Whole(FormatPayload(entries), entries)
  BY DEF PayloadsSound, Batch
<1> QED
  BY StreamsWhole, StreamsChronological DEF FormatForLoki, FormatPayload

-----------------------------------------------------------------------------
(* The sends, the queue and the client keep the invariant in every         *)
(* reachable state.                                                        *)
THEOREM Invariant == Spec => []IInv
<1> QED
  BY InitialState, NextInvariant, PTL DEF Spec

(* The breaker, the shared client, the sends and the queue are well typed: *)
(* in particular no batch is attempted more than max_retries + 1 times     *)
(* (resilient_transport.py, _retry_operation) and no entry of a batch is   *)
(* dropped twice.                                                          *)
THEOREM TypeCorrect == Spec => []TypeOK
<1>1. IInv => TypeOK
  BY DEF IInv
<1> QED
  BY <1>1, Invariant, PTL

(* Without a lock, add_batch of any number of workers pushes the queue     *)
(* over max_size by one entry for each of them but the first               *)
(* (memory_dlq.py:24-37).                                                  *)
THEOREM OvershootBounded == Spec => []DlqOvershootBounded
<1>1. IInv => DlqOvershootBounded
  <2> SUFFICES ASSUME IInv PROVE DlqOvershootBounded
    OBVIOUS
  <2> QED
    BY FillType DEF IInv, QueueWithinLimits, Filled, DlqOvershootBounded
<1> QED
  BY <1>1, Invariant, PTL

(* No send loses an entry silently, however the workers race for the       *)
(* queue, and whatever batch it is that they send.                         *)
THEOREM NoLoss == Spec => []NoSilentLoss
<1>1. IInv => NoSilentLoss
  BY PayloadsAreSound DEF IInv, StoredByLoki, EntriesAccounted, NoSilentLoss
<1> QED
  BY <1>1, Invariant, PTL

(* A destroy that is over leaves no connection open, however the destroys  *)
(* and the requests interleave (loki_json_transport.py:137-140).           *)
THEOREM DestroyCloses == Spec => []ConnectionsClosed
<1>1. IInv => ConnectionsClosed
  BY DEF IInv, ClosedBeforeCleared, ConnectionsClosed, Loki!ConnectionsClosed
<1> QED
  BY <1>1, Invariant, PTL

-----------------------------------------------------------------------------
(* How long a send can take.                                               *)

(* The steps left of an attempt, and of the breaker once it has an outcome. *)
RequestSteps(b) ==
    IF request[b] = "none" THEN 3 ELSE IF request[b] = "reuse" THEN 2 ELSE 1
BreakerSteps(b) ==
    IF pc[b] = "running" THEN 3 ELSE IF pc[b] = "checking" THEN 2
    ELSE IF pc[b] = "returning" THEN 1 ELSE 0

(* No fewer than the steps that the send of b has still to take. *)
StepsLeft(b) ==
    IF at[b] = "new" THEN 3 * BatchSize + 3 * MaxRetries + 8
    ELSE IF at[b] = "trying"
         THEN 3 * BatchSize + 4 + 3 * (MaxRetries - attempt[b]) + RequestSteps(b)
    ELSE IF at[b] \in {"succeeded", "failed"} THEN 3 * BatchSize + 1 + BreakerSteps(b)
    ELSE IF at[b] = "check" THEN 3 * left[b] + 1
    ELSE IF at[b] = "pop" THEN 3 * left[b]
    ELSE IF at[b] = "append" THEN 3 * left[b] - 1
    ELSE 0

(* Each step of a send brings it nearer to its end, and nothing that other *)
(* sends, the breaker or a destroy do takes it back.                       *)
SendsAdvance ==
    [][\A b \in Batches :
          /\ Send(b) \/ Worker(b) => StepsLeft(b)' < StepsLeft(b)
          /\ StepsLeft(b)' <= StepsLeft(b)]_vars

(* What the measure of a send is made of. *)
LEMMA StepParts ==
    ASSUME TypeOK, NEW b \in Batches
    PROVE  /\ at[b] \in {"new", "trying", "succeeded", "failed", "check", "pop", "append",
                         "sent", "raised"}
           /\ attempt[b] \in Int /\ 0 <= attempt[b] /\ attempt[b] <= MaxRetries
           /\ left[b] \in Int /\ 0 <= left[b] /\ left[b] <= BatchSize
           /\ RequestSteps(b) \in 1..3 /\ BreakerSteps(b) \in 0..3
           /\ BatchSize \in Nat /\ MaxRetries \in Nat
  BY BatchSizeAssumption, MaxRetriesAssumption DEF TypeOK, RequestSteps, BreakerSteps

(* Nothing but these variables matters to it. *)
LEMMA StepsSame ==
    ASSUME NEW b, at'[b] = at[b], pc'[b] = pc[b], request'[b] = request[b],
           attempt'[b] = attempt[b], left'[b] = left[b]
    PROVE  StepsLeft(b)' = StepsLeft(b)
  BY DEF StepsLeft, RequestSteps, BreakerSteps

(* A step of send b is one of its own only. *)
LEMMA OthersWait ==
    ASSUME TypeOK, NEW b \in Batches, Send(b) \/ Worker(b), NEW d \in Batches \ {b}
    PROVE  StepsLeft(d)' = StepsLeft(d)
<1>1. /\ at \in [Batches -> {"new", "trying", "succeeded", "failed", "check",
                             "pop", "append", "sent", "raised"}]
      /\ pc \in [Batches -> {"idle", "running", "checking", "returning"}]
      /\ request \in [Batches -> {"none", "reuse", "sent"}]
      /\ attempt \in [Batches -> 0..MaxRetries] /\ left \in [Batches -> 0..BatchSize]
  BY DEF TypeOK, Breaker!TypeOK, Loki!TypeOK
<1>2. at' = at \/ \E to : Goto(b, to)
  BY DEF Send, Worker, Request, AttemptSucceeds, AttemptFails, ClientGone, RecordOutcome,
         LeaveBreaker, DlqCheck, DlqPop, DlqAppend
<1>3. pc' = pc \/ \E to : Breaker!Goto(b, to)
  <2>1. CASE UNCHANGED breakerVars
    BY <2>1 DEF breakerVars
  <2>2. CASE Send(b)
    BY <2>1, <2>2 DEF Send, Breaker!Admit, Breaker!AdmitClosed, Breaker!AdmitFirstProbe,
                      Breaker!AdmitProbe
  <2>3. CASE RecordOutcome(b)
    BY <2>3 DEF RecordOutcome, Breaker!RecordSuccess, Breaker!RecordFailure
  <2>4. CASE LeaveBreaker(b)
    BY <2>4 DEF LeaveBreaker, Breaker!CheckState, Breaker!ReturnProbe
  <2>5. CASE Request(b) \/ AttemptSucceeds(b) \/ AttemptFails(b) \/ ClientGone(b)
    BY <2>1, <2>5 DEF Request, AttemptSucceeds, AttemptFails, AttemptRaises, ClientGone
  <2>6. CASE DlqCheck(b) \/ DlqPop(b) \/ DlqAppend(b)
    BY <2>1, <2>6 DEF DlqCheck, DlqPop, DlqAppend
  <2> QED
    BY <2>2, <2>3, <2>4, <2>5, <2>6 DEF Worker
<1>4. request' = request \/ \E to : Loki!MoveTo(b, to)
  <2>1. CASE UNCHANGED lokiVars
    BY <2>1 DEF lokiVars
  <2>2. CASE Loki!TestClient(b) \/ Loki!Post(b) \/ Loki!PostRaises(b) \/ Loki!Respond(b)
    BY <2>2 DEF Loki!TestClient, Loki!Post, Loki!PostRaises, Loki!Respond
  <2> QED
    BY <2>1, <2>2 DEF Send, Worker, Request, AttemptSucceeds, AttemptFails, AttemptRaises,
                      ClientGone, RecordOutcome, LeaveBreaker, DlqCheck, DlqPop, DlqAppend
<1>5. attempt'[d] = attempt[d]
  <2>1. attempt' = attempt \/ attempt' = [attempt EXCEPT ![b] = @ + 1]
    BY DEF Send, Worker, Request, AttemptSucceeds, AttemptFails, ClientGone, RecordOutcome,
           LeaveBreaker, DlqCheck, DlqPop, DlqAppend
  <2> QED
    BY <1>1, <2>1
<1>6. left'[d] = left[d]
  <2>1. left' = left \/ left' = [left EXCEPT ![b] = @ - 1]
    BY DEF Send, Worker, Request, AttemptSucceeds, AttemptFails, AttemptRaises, ClientGone,
           RecordOutcome, LeaveBreaker, DlqCheck, DlqPop, DlqAppend, dlqVars
  <2> QED
    BY <1>1, <2>1
<1>7. at'[d] = at[d] /\ pc'[d] = pc[d] /\ request'[d] = request[d]
  BY <1>1, <1>2, <1>3, <1>4 DEF Goto, Breaker!Goto, Loki!MoveTo
<1> QED
  BY <1>5, <1>6, <1>7, StepsSame

(* A step in the retry loop. *)
LEMMA AttemptAdvances ==
    ASSUME IInv, NEW b \in Batches,
           Request(b) \/ AttemptSucceeds(b) \/ AttemptFails(b) \/ ClientGone(b)
    PROVE  StepsLeft(b)' < StepsLeft(b)
<1>1. /\ TypeOK /\ TypeOK' /\ at[b] = "trying" /\ at \in [Batches -> {"new", "trying",
                 "succeeded", "failed", "check", "pop", "append", "sent", "raised"}]
      /\ request \in [Batches -> {"none", "reuse", "sent"}]
      /\ attempt \in [Batches -> 0..MaxRetries]
  BY AttemptKeepsInvariant DEF IInv, TypeOK, Loki!TypeOK, Request, AttemptSucceeds,
     AttemptFails, AttemptRaises, ClientGone
<1>2. /\ StepsLeft(b) = 3 * BatchSize + 4 + 3 * (MaxRetries - attempt[b]) + RequestSteps(b)
      /\ RequestSteps(b) \in 1..3 /\ BatchSize \in Nat /\ MaxRetries \in Nat
      /\ attempt[b] \in Int /\ 0 <= attempt[b] /\ attempt[b] <= MaxRetries
  BY <1>1, StepParts DEF StepsLeft
<1>3. CASE at'[b] \in {"succeeded", "failed"}
  <2>1. StepsLeft(b)' = 3 * BatchSize + 1 + BreakerSteps(b)' /\ BreakerSteps(b)' \in 0..3
    <3>1. BreakerSteps(b)' \in 0..3
      BY DEF BreakerSteps
    <3> QED
      BY <1>3, <3>1 DEF StepsLeft
  <2> QED
    BY <1>2, <2>1
<1>4. CASE at'[b] = "trying"
  <2>1. StepsLeft(b)' = 3 * BatchSize + 4 + 3 * (MaxRetries - attempt'[b]) + RequestSteps(b)'
    BY <1>4 DEF StepsLeft
  <2>2. CASE Request(b)
    <3>1. attempt'[b] = attempt[b] /\ RequestSteps(b)' < RequestSteps(b)
      BY <1>1, <2>2 DEF Request, Loki!TestClient, Loki!Post, Loki!Outside, Loki!MoveTo,
                        RequestSteps
    <3>2. RequestSteps(b)' \in 1..3
      BY DEF RequestSteps
    <3> QED
      BY <1>2, <2>1, <3>1, <3>2
  <2>3. CASE AttemptFails(b)
    <3>1. attempt'[b] = attempt[b] + 1
      BY <1>1, <1>4, <2>3 DEF AttemptFails, Goto
    <3>2. RequestSteps(b)' = 3
      BY <1>1, <2>3 DEF AttemptFails, AttemptRaises, Loki!Respond, Loki!Outside, Loki!MoveTo,
                        lokiVars, RequestSteps
    <3> QED
      BY <1>2, <2>1, <3>1, <3>2
  <2>4. ~AttemptSucceeds(b) /\ ~ClientGone(b)
    BY <1>1, <1>4 DEF AttemptSucceeds, ClientGone, Goto
  <2> QED
    BY <2>2, <2>3, <2>4
<1>5. at'[b] \in {"trying", "succeeded", "failed"}
  BY <1>1 DEF Request, AttemptSucceeds, AttemptFails, ClientGone, Goto
<1> QED
  BY <1>3, <1>4, <1>5

(* The first step. *)
LEMMA SendAdvances ==
    ASSUME IInv, NEW b \in Batches, Send(b)
    PROVE  StepsLeft(b)' < StepsLeft(b)
<1>1. /\ TypeOK /\ at[b] = "new" /\ attempt' = attempt /\ left' = left
      /\ at \in [Batches -> {"new", "trying", "succeeded", "failed", "check", "pop",
                             "append", "sent", "raised"}]
  BY DEF IInv, TypeOK, Send, dlqVars
<1>2. at'[b] \in {"trying", "check"}
  BY <1>1 DEF Send, Goto
<1>3. StepsLeft(b) = 3 * BatchSize + 3 * MaxRetries + 8
  BY <1>1 DEF StepsLeft
<1>4. RequestSteps(b)' \in 1..3
  BY DEF RequestSteps
<1>5. StepsLeft(b)' = 3 * BatchSize + 4 + 3 * (MaxRetries - attempt[b]) + RequestSteps(b)'
      \/ StepsLeft(b)' = 3 * left[b] + 1
  BY <1>1, <1>2 DEF StepsLeft
<1> QED
  BY <1>1, <1>3, <1>4, <1>5, StepParts

(* The breaker records the outcome and gives a probe back, once. *)
LEMMA BreakerAdvances ==
    ASSUME IInv, NEW b \in Batches, RecordOutcome(b) \/ LeaveBreaker(b)
    PROVE  StepsLeft(b)' < StepsLeft(b)
<1>1. /\ TypeOK /\ left' = left
      /\ at \in [Batches -> {"new", "trying", "succeeded", "failed", "check", "pop",
                             "append", "sent", "raised"}]
      /\ pc \in [Batches -> {"idle", "running", "checking", "returning"}]
      /\ pc[b] # "idle" => at[b] \in {"trying", "succeeded", "failed"}
      /\ pc[b] \in {"checking", "returning"} => at[b] # "trying"
  BY DEF IInv, TypeOK, Breaker!TypeOK, CallsAreSends, RecordOutcome, LeaveBreaker, dlqVars
<1>2. /\ at[b] \in {"succeeded", "failed"} /\ BreakerSteps(b)' < BreakerSteps(b)
      /\ \/ at'[b] = at[b]
         \/ at'[b] \in {"sent", "check"}
  <2>1. CASE RecordOutcome(b)
    BY <1>1, <2>1 DEF RecordOutcome, Breaker!RecordSuccess, Breaker!RecordFailure,
                      Breaker!Goto, BreakerSteps
  <2>2. CASE LeaveBreaker(b)
    <3>1. /\ pc[b] \in {"checking", "returning"}
          /\ \/ Breaker!Goto(b, "idle")
             \/ pc[b] = "checking" /\ Breaker!Goto(b, "returning")
      BY <2>2 DEF LeaveBreaker, Breaker!CheckState, Breaker!ReturnProbe
    <3>2. BreakerSteps(b)' < BreakerSteps(b)
      BY <1>1, <3>1 DEF Breaker!Goto, BreakerSteps
    <3>3. at'[b] = at[b] \/ at'[b] \in {"sent", "check"}
      BY <1>1, <2>2 DEF LeaveBreaker, Goto
    <3> QED
      BY <1>1, <3>1, <3>2, <3>3
  <2> QED
    BY <2>1, <2>2
<1>3. StepsLeft(b) = 3 * BatchSize + 1 + BreakerSteps(b)
  BY <1>2 DEF StepsLeft
<1>4. /\ BreakerSteps(b) \in 0..3 /\ BreakerSteps(b)' \in 0..3
      /\ BatchSize \in Nat /\ left[b] \in Int /\ left[b] <= BatchSize
  BY <1>1, StepParts DEF BreakerSteps
<1>5. \/ StepsLeft(b)' = 3 * BatchSize + 1 + BreakerSteps(b)'
      \/ StepsLeft(b)' = 3 * left[b] + 1
      \/ StepsLeft(b)' = 0
  BY <1>1, <1>2 DEF StepsLeft
<1> QED
  BY <1>2, <1>3, <1>4, <1>5

(* The dead letter queue takes an entry after at most one pop. *)
LEMMA DlqAdvances ==
    ASSUME IInv, NEW b \in Batches, DlqCheck(b) \/ DlqPop(b) \/ DlqAppend(b)
    PROVE  StepsLeft(b)' < StepsLeft(b)
<1>1. /\ TypeOK /\ left[b] \in Int /\ left[b] >= 0
      /\ at \in [Batches -> {"new", "trying", "succeeded", "failed", "check", "pop",
                             "append", "sent", "raised"}]
      /\ left \in [Batches -> 0..BatchSize]
      /\ at[b] \in {"pop", "append"} => left[b] > 0
  BY StepParts DEF IInv, TypeOK, EntriesAccounted
<1>2. CASE DlqCheck(b)
  <2>1. left' = left /\ at[b] = "check" /\ at'[b] \in {"raised", "pop", "append"}
    BY <1>1, <1>2 DEF DlqCheck, Goto, dlqVars
  <2>2. StepsLeft(b) = 3 * left[b] + 1
    BY <2>1 DEF StepsLeft
  <2>3. StepsLeft(b)' \in {0, 3 * left[b], 3 * left[b] - 1}
    BY <2>1 DEF StepsLeft
  <2> QED
    BY <1>1, <2>2, <2>3
<1>3. CASE DlqPop(b)
  <2>1. left' = left /\ at[b] = "pop" /\ at'[b] \in {"raised", "append"}
    BY <1>1, <1>3 DEF DlqPop, Goto
  <2>2. StepsLeft(b) = 3 * left[b]
    BY <2>1 DEF StepsLeft
  <2>3. StepsLeft(b)' \in {0, 3 * left[b] - 1}
    BY <2>1 DEF StepsLeft
  <2> QED
    BY <1>1, <2>1, <2>2, <2>3
<1>4. CASE DlqAppend(b)
  <2>1. left'[b] = left[b] - 1 /\ at[b] = "append" /\ at'[b] = "check"
    BY <1>1, <1>4 DEF DlqAppend, Goto
  <2>2. StepsLeft(b) = 3 * left[b] - 1
    BY <2>1 DEF StepsLeft
  <2>3. StepsLeft(b)' = 3 * (left[b] - 1) + 1
    BY <2>1 DEF StepsLeft
  <2> QED
    BY <1>1, <2>2, <2>3
<1> QED
  BY <1>2, <1>3, <1>4

(* The measure is a number within its bound. *)
LEMMA StepsInRange ==
    ASSUME IInv, NEW b \in Batches
    PROVE  StepsLeft(b) \in 0..3 * BatchSize + 3 * MaxRetries + 8
<1>1. at[b] \in {"pop", "append"} => left[b] > 0
  BY DEF IInv, EntriesAccounted
<1> QED
  BY <1>1, StepParts DEF IInv, StepsLeft

(* Every send takes at most 3 * BatchSize + 3 * MaxRetries + 8 steps,      *)
(* whatever the other sends, the breaker and two destroys do in between:   *)
(* retries are counted, and no race for the dead letter queue makes a      *)
(* worker try again.                                                       *)
THEOREM SendsBoundedlyLong ==
    Spec => /\ [](\A b \in Batches : StepsLeft(b) \in 0..3 * BatchSize + 3 * MaxRetries + 8)
            /\ SendsAdvance
<1> DEFINE InRange == \A b \in Batches : StepsLeft(b) \in 0..3 * BatchSize + 3 * MaxRetries + 8
           Advance == \A b \in Batches :
                         /\ Send(b) \/ Worker(b) => StepsLeft(b)' < StepsLeft(b)
                         /\ StepsLeft(b)' <= StepsLeft(b)
<1>1. IInv => InRange
  BY StepsInRange
<1>2. IInv /\ [Next]_vars => Advance
  <2> SUFFICES ASSUME IInv, [Next]_vars, NEW b \in Batches
               PROVE  /\ Send(b) \/ Worker(b) => StepsLeft(b)' < StepsLeft(b)
                      /\ StepsLeft(b)' <= StepsLeft(b)
    OBVIOUS
  <2>1. StepsLeft(b) \in Int
    BY StepsInRange
  <2>2. Send(b) \/ Worker(b) => StepsLeft(b)' < StepsLeft(b)
    BY SendAdvances, AttemptAdvances, BreakerAdvances, DlqAdvances DEF Worker
  <2>3. StepsLeft(b)' \in Int
    <3>1. TypeOK'
      BY NextInvariant DEF IInv
    <3>2. attempt'[b] \in Int /\ left'[b] \in Int
      BY <3>1 DEF TypeOK
    <3>3. RequestSteps(b)' \in Int /\ BreakerSteps(b)' \in Int
      BY DEF RequestSteps, BreakerSteps
    <3> QED
      BY <3>2, <3>3, BatchSizeAssumption, MaxRetriesAssumption DEF StepsLeft
  <2>4. CASE Elapse \/ (\E d \in Destroyers : Destroy(d)) \/ UNCHANGED vars
    <3>1. /\ at' = at /\ pc' = pc /\ request' = request /\ attempt' = attempt
          /\ left' = left
      BY <2>4 DEF Elapse, Breaker!Elapse, Destroy, Loki!Destroy, Loki!TestDestroy,
                  Loki!Close, Loki!Step, vars, breakerVars, lokiVars, dlqVars
    <3>2. StepsLeft(b)' = StepsLeft(b)
      BY <3>1, StepsSame
    <3> QED
      BY <2>1, <2>2, <3>2
  <2>5. CASE \E c \in Batches : Send(c) \/ Worker(c)
    <3>1. PICK c \in Batches : Send(c) \/ Worker(c)
      BY <2>5
    <3>2. CASE c = b
      BY <2>1, <2>2, <2>3, <3>1, <3>2
    <3>3. CASE c # b
      <4>1. StepsLeft(b)' = StepsLeft(b)
        BY <3>1, <3>3, OthersWait DEF IInv
      <4> QED
        BY <2>1, <2>2, <4>1
    <3> QED
      BY <3>2, <3>3
  <2> QED
    BY <2>4, <2>5 DEF Next
<1> QED
  BY <1>1, <1>2, Invariant, PTL DEF Spec, SendsAdvance
=============================================================================
