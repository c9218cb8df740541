---------------------------- MODULE MCLogService ----------------------------
(* Entry sizes and symmetry for the runs of LogService. *)
EXTENDS LogService, TLC

Sizes == [e \in Entries |-> 1]
WorkerThreads == [k \in Entries |-> <<"worker", k>>]
ThreadSymmetry == Permutations(Callers) \cup Permutations(Timers)
=============================================================================
