--------------------------- MODULE CircuitBreaker ---------------------------
(***************************************************************************)
(* infrastructure/circuit_breaker/circuit_breaker.py, called by several    *)
(* flush workers at once.  execute takes _lock three times (to admit the   *)
(* call, to record its outcome, to give a probe back) and reads _state     *)
(* once without it, so a call is four steps:                               *)
(*   idle -> running -> checking [-> returning] -> idle                    *)
(* A disabled breaker calls the operation directly and keeps no state.     *)
(***************************************************************************)
EXTENDS Integers, FiniteSets

CONSTANTS
    Calls,              \* threads that may be in execute
    FailureThreshold,   \* config failure_threshold
    HalfOpenRequests,   \* config half_open_requests
    MaxFailures         \* bound: no call begins once _failures is this high

ASSUME CallsAssumption == IsFiniteSet(Calls)
ASSUME ConfigAssumption ==
    FailureThreshold \in Nat \ {0} /\ HalfOpenRequests \in Nat \ {0}
ASSUME MaxFailuresAssumption == MaxFailures \in Nat

VARIABLES
    state,         \* self._state
    failures,      \* self._failures
    successCount,  \* self._success_count
    inFlight,      \* self._half_open_in_flight
    expired,       \* time.time() >= self._next_attempt
    pc,            \* how far each call got
    probes         \* history: calls counted as probes since the last reset of inFlight

vars == <<state, failures, successCount, inFlight, expired, pc, probes>>

Init ==
    /\ state = "closed"
    /\ failures = 0
    /\ successCount = 0
    /\ inFlight = 0
    /\ expired = FALSE
    /\ pc = [c \in Calls |-> "idle"]
    /\ probes = {}

Goto(c, step) == pc' = [pc EXCEPT ![c] = step]

(* reset_timeout has passed since the breaker opened. *)
Elapse ==
    /\ state = "open" /\ ~expired
    /\ expired' = TRUE
    /\ UNCHANGED <<state, failures, successCount, inFlight, pc, probes>>

(* execute, first block: a closed breaker lets the call through. *)
AdmitClosed(c) ==
    /\ pc[c] = "idle" /\ failures < MaxFailures
    /\ state = "closed"
    /\ Goto(c, "running")
    /\ UNCHANGED <<state, failures, successCount, inFlight, expired, probes>>

(* The first call after the timeout makes an open breaker half-open; it    *)
(* counts as a probe.                                                      *)
AdmitFirstProbe(c) ==
    /\ pc[c] = "idle" /\ failures < MaxFailures
    /\ state = "open" /\ expired
    /\ state' = "half-open"
    /\ successCount' = 0
    /\ inFlight' = 1
    /\ expired' = FALSE
    /\ probes' = {c}
    /\ Goto(c, "running")
    /\ UNCHANGED failures

(* Later probes, up to the limit. *)
AdmitProbe(c) ==
    /\ pc[c] = "idle" /\ failures < MaxFailures
    /\ state = "half-open"
    /\ inFlight < HalfOpenRequests
    /\ inFlight' = inFlight + 1
    /\ probes' = probes \cup {c}
    /\ Goto(c, "running")
    /\ UNCHANGED <<state, failures, successCount, expired>>

(* Mutant: the failures of before are remembered when the breaker closes. *)
RecordSuccessKeepsFailures(c) ==
    /\ pc[c] = "running"
    /\ Goto(c, "checking")
    /\ UNCHANGED <<failures, expired>>
    /\ \/ /\ state = "half-open"
          /\ successCount + 1 < HalfOpenRequests
          /\ successCount' = successCount + 1
          /\ UNCHANGED <<state, inFlight, probes>>
       \/ /\ state = "half-open"
          /\ successCount + 1 >= HalfOpenRequests
          /\ state' = "closed"
          /\ successCount' = 0
          /\ inFlight' = 0
          /\ probes' = {}
       \/ /\ state # "half-open"
          /\ UNCHANGED <<state, successCount, inFlight, probes>>

(* Every other call is refused, with no effect on the breaker. *)
Refuses ==
    \/ state = "open" /\ ~expired
    \/ state = "half-open" /\ inFlight >= HalfOpenRequests

(* record_success. *)
RecordSuccess(c) ==
    /\ pc[c] = "running"
    /\ Goto(c, "checking")
    /\ UNCHANGED expired
    /\ \/ /\ state = "half-open"
          /\ successCount + 1 < HalfOpenRequests
          /\ successCount' = successCount + 1
          /\ UNCHANGED <<state, failures, inFlight, probes>>
       \/ /\ state = "half-open"
          /\ successCount + 1 >= HalfOpenRequests
          /\ state' = "closed"
          /\ failures' = 0
          /\ successCount' = 0
          /\ inFlight' = 0
          /\ probes' = {}
       \/ /\ state = "closed"
          /\ failures' = 0
          /\ UNCHANGED <<state, successCount, inFlight, probes>>
       \/ /\ state = "open"
          /\ UNCHANGED <<state, failures, successCount, inFlight, probes>>

(* Mutant: the probes of an episode that failed stay counted. *)
RecordFailureKeepsProbes(c) ==
    /\ pc[c] = "running"
    /\ Goto(c, "checking")
    /\ failures' = failures + 1
    /\ UNCHANGED inFlight
    /\ \/ /\ failures + 1 >= FailureThreshold \/ state = "half-open"
          /\ state' = "open"
          /\ successCount' = 0
          /\ expired' = FALSE
          /\ probes' = {}
       \/ /\ failures + 1 < FailureThreshold /\ state # "half-open"
          /\ UNCHANGED <<state, successCount, expired, probes>>

(* record_failure: a late failure also pushes an open breaker's timeout.   *)
RecordFailure(c) ==
    /\ pc[c] = "running"
    /\ Goto(c, "checking")
    /\ failures' = failures + 1
    /\ \/ /\ failures + 1 >= FailureThreshold \/ state = "half-open"
          /\ state' = "open"
          /\ successCount' = 0
          /\ inFlight' = 0
          /\ expired' = FALSE
          /\ probes' = {}
       \/ /\ failures + 1 < FailureThreshold /\ state # "half-open"
          /\ UNCHANGED <<state, successCount, inFlight, expired, probes>>

(* The finally block reads _state without the lock ... *)
CheckState(c) ==
    /\ pc[c] = "checking"
    /\ \/ /\ state = "half-open"
          /\ Goto(c, "returning")
          /\ UNCHANGED probes
       \/ /\ state # "half-open"
          /\ Goto(c, "idle")
          /\ probes' = probes \ {c}
    /\ UNCHANGED <<state, failures, successCount, inFlight, expired>>

(* Mutant: no max(0, ...). *)
ReturnProbeUnclamped(c) ==
    /\ pc[c] = "returning"
    /\ inFlight' = inFlight - 1
    /\ probes' = probes \ {c}
    /\ Goto(c, "idle")
    /\ UNCHANGED <<state, failures, successCount, expired>>

(* ... and gives a probe back under it, whether or not c was counted. *)
ReturnProbe(c) ==
    /\ pc[c] = "returning"
    /\ inFlight' = IF inFlight > 0 THEN inFlight - 1 ELSE 0
    /\ probes' = probes \ {c}
    /\ Goto(c, "idle")
    /\ UNCHANGED <<state, failures, successCount, expired>>

Reset ==
    /\ state' = "closed"
    /\ failures' = 0
    /\ successCount' = 0
    /\ inFlight' = 0
    /\ expired' = FALSE
    /\ probes' = {}
    /\ UNCHANGED pc

Admit(c) == AdmitClosed(c) \/ AdmitFirstProbe(c) \/ AdmitProbe(c)
Finish(c) == RecordSuccess(c) \/ RecordFailure(c) \/ CheckState(c) \/ ReturnProbe(c)

Next == Elapse \/ Reset \/ \E c \in Calls : Admit(c) \/ Finish(c)

Spec == Init /\ [][Next]_vars

-----------------------------------------------------------------------------
(* The types of the breaker's state. *)
TypeOK ==
    /\ state \in {"closed", "open", "half-open"}
    /\ failures \in Nat
    /\ successCount \in Nat
    /\ inFlight \in Nat
    /\ expired \in BOOLEAN
    /\ pc \in [Calls -> {"idle", "running", "checking", "returning"}]
    /\ probes \subseteq Calls

(* Late outcomes never leave a closed breaker at or over its threshold.    *)
ClosedBelowThreshold == state = "closed" => failures < FailureThreshold

(* The counters of half-open stay under half_open_requests while it lasts  *)
(* and are zero outside it, whatever calls of earlier episodes still run.  *)
HalfOpenCounters ==
    /\ state = "half-open" => successCount < HalfOpenRequests /\ inFlight <= HalfOpenRequests
    /\ state # "half-open" => successCount = 0 /\ inFlight = 0

(* The counters stay consistent although outcomes arrive in a later state  *)
(* of the breaker than the one that admitted their call.                   *)
CountersSound == ClosedBelowThreshold /\ HalfOpenCounters

(* A probe slot is never leaked: each one taken belongs to a call that is  *)
(* still under way, although the finally block decides on an unlocked read *)
(* whether to give it back (circuit_breaker.py:46-48).                     *)
NoLeakedProbe == inFlight <= Cardinality(probes)

(* circuit_breaker.py:33-34 refuses a call when the half-open probe limit  *)
(* is reached: at most half_open_requests probes run at once.              *)
ProbesWithinLimit ==
    state = "half-open"
       => Cardinality({c \in probes : pc[c] = "running"}) <= HalfOpenRequests
=============================================================================
