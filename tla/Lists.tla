------------------------------- MODULE Lists -------------------------------
(***************************************************************************)
(* What the in-memory buffer and the file dead letter queue both do with   *)
(* lists of entries: keep some of them in order, and add up their sizes.   *)
(* SelectSeq and the folds say the same by recursion; here it is said      *)
(* without, in a form that proofs can use.                                 *)
(***************************************************************************)
EXTENDS Integers, Sequences, FiniteSets

Seqs == INSTANCE SequencesExt

(* x stands before y in list s. *)
Precedes(s, x, y) == \E i, j \in DOMAIN s : i < j /\ s[i] = x /\ s[j] = y

(* What a comprehension over list s can keep of it, by any condition.  The *)
(* entries of s are different from each other.                             *)
Sublists(s) ==
    {t \in UNION {[1..n -> Seqs!ToSet(s)] : n \in 0..Len(s)} :
        \A i, j \in DOMAIN t : i < j => Precedes(s, t[i], t[j])}

(* The sum of size[e] over the entries e of S, as the number of units of   *)
(* memory or of disk that they take up.                                    *)
Units(size, S) == UNION {{e} \X (1..size[e]) : e \in S}
TotalOf(size, S) == Cardinality(Units(size, S))
=============================================================================
