------------------------ MODULE CircuitBreakerProofs ------------------------
(***************************************************************************)
(* Proofs about CircuitBreaker for any finite set of calls, any threshold  *)
(* and any number of half-open requests.  NoLeakedProbe is not inductive:  *)
(* it needs that a call which begins is not counted as a probe already     *)
(* (ProbesUnderWay), and that the counters are zero outside half-open,     *)
(* where the finally block gives nothing back (HalfOpenCounters).          *)
(***************************************************************************)
EXTENDS CircuitBreaker, FiniteSetTheorems, TLAPS

ProbesUnderWay == \A c \in probes : pc[c] # "idle"

IInv ==
    /\ TypeOK
    /\ ClosedBelowThreshold
    /\ HalfOpenCounters
    /\ NoLeakedProbe
    /\ ProbesUnderWay

(* Sets of probes are finite, and lose at most one member at a time. *)
LEMMA ProbeSets ==
    ASSUME NEW S \in SUBSET Calls, NEW c \in Calls
    PROVE  /\ IsFiniteSet(S)
           /\ Cardinality(S) \in Nat
           /\ Cardinality(S \ {c}) \in Nat
           /\ Cardinality(S \ {c}) >= Cardinality(S) - 1
           /\ c \notin S => Cardinality(S \cup {c}) = Cardinality(S) + 1
<1>1. IsFiniteSet(S)
  BY CallsAssumption, FS_Subset
<1>2. Cardinality(S) \in Nat
  BY <1>1, FS_CardinalityType
<1>3. Cardinality(S \ {c}) \in Nat /\ Cardinality(S \ {c}) >= Cardinality(S) - 1
  <2>1. CASE c \in S
    <3>1. Cardinality(S \ {c}) = Cardinality(S) - 1
      BY <1>1, <2>1, FS_RemoveElement
    <3>2. IsFiniteSet(S \ {c})
      BY <1>1, FS_RemoveElement
    <3>3. Cardinality(S \ {c}) \in Nat
      BY <3>2, FS_CardinalityType
    <3> QED
      BY <1>2, <3>1, <3>3
  <2>2. CASE c \notin S
    <3>1. S \ {c} = S
      BY <2>2
    <3> QED
      BY <1>2, <3>1
  <2> QED
    BY <2>1, <2>2
<1>4. c \notin S => Cardinality(S \cup {c}) = Cardinality(S) + 1
  BY <1>1, FS_AddElement
<1> QED
  BY <1>1, <1>2, <1>3, <1>4

LEMMA InitInvariant == Init => IInv
<1> SUFFICES ASSUME Init PROVE IInv
  OBVIOUS
<1>1. NoLeakedProbe
  BY FS_EmptySet DEF Init, NoLeakedProbe
<1>2. expired \in BOOLEAN
  BY Zenon DEF Init
<1>3. TypeOK /\ ClosedBelowThreshold /\ HalfOpenCounters /\ ProbesUnderWay
  BY <1>2, ConfigAssumption
     DEF Init, TypeOK, ClosedBelowThreshold, HalfOpenCounters, ProbesUnderWay
<1> QED
  BY <1>1, <1>3 DEF IInv

(* Wherever the half-open counters are cleared, the probes are too. *)
LEMMA ClearedProbes ==
    ASSUME inFlight' = 0, probes' = {}
    PROVE  NoLeakedProbe' /\ ProbesUnderWay'
BY FS_EmptySet DEF NoLeakedProbe, ProbesUnderWay

LEMMA AdmitKeepsInvariant ==
    ASSUME IInv, NEW c \in Calls, Admit(c)
    PROVE  IInv'
<1> USE DEF Goto
<1>1. CASE AdmitClosed(c)
  <2>1. (TypeOK /\ ClosedBelowThreshold /\ HalfOpenCounters /\ ProbesUnderWay)'
    BY <1>1 DEF IInv, AdmitClosed, TypeOK, ClosedBelowThreshold,
                HalfOpenCounters, ProbesUnderWay
  <2>2. NoLeakedProbe'
    BY <1>1 DEF IInv, AdmitClosed, NoLeakedProbe
  <2> QED
    BY <2>1, <2>2 DEF IInv
<1>2. CASE AdmitFirstProbe(c)
  <2>1. TypeOK'
    BY <1>2 DEF IInv, AdmitFirstProbe, TypeOK
  <2>2. (ClosedBelowThreshold /\ HalfOpenCounters)'
    BY <1>2, ConfigAssumption
       DEF AdmitFirstProbe, ClosedBelowThreshold, HalfOpenCounters
  <2>3. NoLeakedProbe'
    <3>1. Cardinality({c}) = 1
      BY FS_Singleton
    <3> QED
      BY <1>2, <3>1 DEF AdmitFirstProbe, NoLeakedProbe
  <2>4. ProbesUnderWay'
    BY <1>2 DEF IInv, TypeOK, AdmitFirstProbe, ProbesUnderWay
  <2> QED
    BY <2>1, <2>2, <2>3, <2>4 DEF IInv
<1>3. CASE AdmitProbe(c)
  <2>1. TypeOK'
    BY <1>3 DEF IInv, AdmitProbe, TypeOK
  <2>2. (ClosedBelowThreshold /\ HalfOpenCounters)'
    BY <1>3, ConfigAssumption
       DEF IInv, TypeOK, AdmitProbe, ClosedBelowThreshold, HalfOpenCounters
  <2>3. NoLeakedProbe'
    <3>1. c \notin probes
      BY <1>3 DEF IInv, AdmitProbe, ProbesUnderWay
    <3>2. Cardinality(probes \cup {c}) = Cardinality(probes) + 1
      BY <3>1, ProbeSets DEF IInv, TypeOK
    <3>3. Cardinality(probes) \in Nat /\ inFlight \in Nat
      BY ProbeSets DEF IInv, TypeOK
    <3>4. inFlight <= Cardinality(probes)
      BY DEF IInv, NoLeakedProbe
    <3>5. inFlight' = inFlight + 1 /\ probes' = probes \cup {c}
      BY <1>3 DEF AdmitProbe
    <3> QED
      BY <3>2, <3>3, <3>4, <3>5 DEF NoLeakedProbe
  <2>4. ProbesUnderWay'
    BY <1>3 DEF IInv, TypeOK, AdmitProbe, ProbesUnderWay
  <2> QED
    BY <2>1, <2>2, <2>3, <2>4 DEF IInv
<1> QED
  BY <1>1, <1>2, <1>3 DEF Admit

LEMMA RecordKeepsInvariant ==
    ASSUME IInv, NEW c \in Calls, RecordSuccess(c) \/ RecordFailure(c)
    PROVE  IInv'
<1> USE DEF Goto
<1>1. CASE RecordSuccess(c)
  <2>1. TypeOK'
    BY <1>1 DEF IInv, RecordSuccess, TypeOK
  <2>2. (ClosedBelowThreshold /\ HalfOpenCounters)'
    BY <1>1, ConfigAssumption
       DEF IInv, TypeOK, RecordSuccess, ClosedBelowThreshold, HalfOpenCounters
  <2>3. (NoLeakedProbe /\ ProbesUnderWay)'
    <3>1. CASE inFlight' = 0 /\ probes' = {}
      BY <3>1, ClearedProbes
    <3>2. CASE inFlight' = inFlight /\ probes' = probes
      BY <1>1, <3>2 DEF IInv, TypeOK, RecordSuccess, NoLeakedProbe, ProbesUnderWay
    <3> QED
      BY <1>1, <3>1, <3>2 DEF RecordSuccess
  <2> QED
    BY <2>1, <2>2, <2>3 DEF IInv
<1>2. CASE RecordFailure(c)
  <2>1. TypeOK'
    <3>1. expired' \in BOOLEAN
      BY <1>2, Zenon DEF IInv, RecordFailure, TypeOK
    <3> QED
      BY <1>2, <3>1 DEF IInv, RecordFailure, TypeOK
  <2>2. (ClosedBelowThreshold /\ HalfOpenCounters)'
    BY <1>2, ConfigAssumption
       DEF IInv, TypeOK, RecordFailure, ClosedBelowThreshold, HalfOpenCounters
  <2>3. (NoLeakedProbe /\ ProbesUnderWay)'
    <3>1. CASE inFlight' = 0 /\ probes' = {}
      BY <3>1, ClearedProbes
    <3>2. CASE inFlight' = inFlight /\ probes' = probes
      BY <1>2, <3>2 DEF IInv, TypeOK, RecordFailure, NoLeakedProbe, ProbesUnderWay
    <3> QED
      BY <1>2, <3>1, <3>2 DEF RecordFailure
  <2> QED
    BY <2>1, <2>2, <2>3 DEF IInv
<1> QED
  BY <1>1, <1>2

LEMMA GiveBackKeepsInvariant ==
    ASSUME IInv, NEW c \in Calls, CheckState(c) \/ ReturnProbe(c)
    PROVE  IInv'
<1> USE DEF Goto
<1>0. /\ Cardinality(probes) \in Nat
      /\ Cardinality(probes \ {c}) \in Nat
      /\ Cardinality(probes \ {c}) >= Cardinality(probes) - 1
      /\ inFlight \in Nat
      /\ inFlight <= Cardinality(probes)
  BY ProbeSets DEF IInv, TypeOK, NoLeakedProbe
<1>1. CASE CheckState(c)
  <2>1. (TypeOK /\ ClosedBelowThreshold /\ HalfOpenCounters /\ ProbesUnderWay)'
    BY <1>1 DEF IInv, CheckState, TypeOK, ClosedBelowThreshold,
                HalfOpenCounters, ProbesUnderWay
  <2>2. NoLeakedProbe'
    <3>1. CASE probes' = probes
      BY <1>0, <1>1, <3>1 DEF CheckState, NoLeakedProbe
    <3>2. CASE state # "half-open" /\ probes' = probes \ {c}
      <4>1. inFlight' = 0
        BY <1>1, <3>2 DEF IInv, CheckState, HalfOpenCounters
      <4> QED
        BY <1>0, <3>2, <4>1 DEF NoLeakedProbe
    <3> QED
      BY <1>1, <3>1, <3>2 DEF CheckState
  <2> QED
    BY <2>1, <2>2 DEF IInv
<1>2. CASE ReturnProbe(c)
  <2>1. (TypeOK /\ ClosedBelowThreshold /\ ProbesUnderWay)'
    BY <1>2 DEF IInv, ReturnProbe, TypeOK, ClosedBelowThreshold, ProbesUnderWay
  <2>2. HalfOpenCounters'
    BY <1>2, ConfigAssumption DEF IInv, TypeOK, ReturnProbe, HalfOpenCounters
  <2>3. NoLeakedProbe'
    <3>1. probes' = probes \ {c} /\ inFlight' = IF inFlight > 0 THEN inFlight - 1 ELSE 0
      BY <1>2 DEF ReturnProbe
    <3> QED
      BY <1>0, <3>1 DEF NoLeakedProbe
  <2> QED
    BY <2>1, <2>2, <2>3 DEF IInv
<1> QED
  BY <1>1, <1>2

LEMMA NextInvariant == IInv /\ [Next]_vars => IInv'
<1> SUFFICES ASSUME IInv, [Next]_vars PROVE IInv'
  OBVIOUS
<1>1. CASE UNCHANGED vars
  BY <1>1 DEF vars, IInv, TypeOK, ClosedBelowThreshold, HalfOpenCounters,
              NoLeakedProbe, ProbesUnderWay
<1>2. CASE Elapse
  BY <1>2 DEF Elapse, IInv, TypeOK, ClosedBelowThreshold, HalfOpenCounters,
              NoLeakedProbe, ProbesUnderWay
<1>3. CASE Reset
  <2>0. expired' \in BOOLEAN
    BY <1>3, Zenon DEF Reset
  <2>1. (TypeOK /\ ClosedBelowThreshold /\ HalfOpenCounters)'
    BY <1>3, <2>0, ConfigAssumption
       DEF IInv, Reset, TypeOK, ClosedBelowThreshold, HalfOpenCounters
  <2>2. (NoLeakedProbe /\ ProbesUnderWay)'
    BY <1>3, ClearedProbes DEF Reset
  <2> QED
    BY <2>1, <2>2 DEF IInv
<1>4. ASSUME NEW c \in Calls, Admit(c) \/ Finish(c)
      PROVE  IInv'
  BY <1>4, AdmitKeepsInvariant, RecordKeepsInvariant, GiveBackKeepsInvariant
     DEF Finish
<1> QED
  BY <1>1, <1>2, <1>3, <1>4 DEF Next

(* The breaker keeps its whole invariant in every reachable state. *)
THEOREM Invariant == Spec => []IInv
<1> QED
  BY InitInvariant, NextInvariant, PTL DEF Spec

(* The state of the breaker is well typed. *)
THEOREM TypeCorrect == Spec => []TypeOK
<1>1. IInv => TypeOK
  BY DEF IInv
<1> QED
  BY <1>1, Invariant, PTL

(* No probe slot is leaked, so a half-open breaker without a running call  *)
(* admits the next one (circuit_breaker.py:32-36 and 45-48).               *)
THEOREM NoProbeLeak == Spec => []NoLeakedProbe
<1>1. IInv => NoLeakedProbe
  BY DEF IInv
<1> QED
  BY <1>1, Invariant, PTL

(* The counters are bounded while half-open and zero outside it, and a     *)
(* closed breaker is below its threshold.                                  *)
THEOREM CountersConsistent == Spec => []CountersSound
<1>1. IInv => CountersSound
  BY DEF IInv, CountersSound
<1> QED
  BY <1>1, Invariant, PTL
=============================================================================
