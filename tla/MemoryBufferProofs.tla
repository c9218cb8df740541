------------------------- MODULE MemoryBufferProofs -------------------------
(***************************************************************************)
(* Proofs about MemoryBuffer for any set of entries and sizes, any limits  *)
(* and any number of threads and timers.                                   *)
(*                                                                         *)
(* Every operation of the list is a composition of a few steps, and each   *)
(* of them keeps the list sound: without repetitions, tracked exactly,     *)
(* its lost entries counted and gone.  The lemmas say so of the steps, in  *)
(* the order in which add composes them.  That an entry lost stays lost,   *)
(* and that none is counted twice, also needs every entry known to the     *)
(* list to have been offered to it, since add takes each entry once.       *)
(***************************************************************************)
EXTENDS MemoryBuffer, CountingLemmas, FiniteSetTheorems, TLAPS

(* The entries of a list, and those that it has or has lost.               *)
Elements(b) == Seqs!ToSet(b.entries)
Known(b) == Elements(b) \cup b.evicted

BufferType == [entries : Seq(Entries), tracked : SUBSET Entries, total : Int,
               dropped : Nat, evicted : SUBSET Entries]

(* The tracker and the counters are right about the list. *)
Sound(b) ==
    /\ b \in BufferType
    /\ Distinct(b.entries)
    /\ b.tracked = Elements(b)
    /\ b.total = TotalSize(Elements(b))
    /\ IsFiniteSet(b.evicted)
    /\ b.dropped = Cardinality(b.evicted)
    /\ b.evicted \cap Elements(b) = {}

(* The inductive invariant. *)
BufferInv ==
    /\ TypeOK
    /\ Sound(buf)
    /\ BufferBounded
    /\ Known(buf) \subseteq offered
    /\ QuietAfterDestroy

-----------------------------------------------------------------------------
(* The updates of the list, field by field.                                *)

(* The updates that the operations make, with any new values. *)
LEMMA AccountFields ==
    ASSUME NEW b \in BufferType, NEW tracked, NEW total
    PROVE  [b EXCEPT !.tracked = tracked, !.total = total] =
             [entries |-> b.entries, tracked |-> tracked, total |-> total,
              dropped |-> b.dropped, evicted |-> b.evicted]
<1> DEFINE c == [b EXCEPT !.tracked = tracked]
<1>1. c = [entries |-> b.entries, tracked |-> tracked, total |-> b.total,
           dropped |-> b.dropped, evicted |-> b.evicted]
  BY DEF BufferType
<1>2. [b EXCEPT !.tracked = tracked, !.total = total] = [c EXCEPT !.total = total]
  OBVIOUS
<1> HIDE DEF c
<1>3. [c EXCEPT !.total = total] =
        [entries |-> b.entries, tracked |-> tracked, total |-> total,
         dropped |-> b.dropped, evicted |-> b.evicted]
  BY <1>1
<1> QED
  BY <1>2, <1>3

(* The same for the update that counts a loss. *)
LEMMA LossFields ==
    ASSUME NEW e, NEW t, NEW n, NEW x, NEW v,
           NEW u, u = [entries |-> e, tracked |-> t, total |-> n,
                       dropped |-> x, evicted |-> v],
           NEW entries, NEW dropped, NEW evicted
    PROVE  [u EXCEPT !.entries = entries, !.dropped = dropped, !.evicted = evicted] =
             [entries |-> entries, tracked |-> t, total |-> n,
              dropped |-> dropped, evicted |-> evicted]
<1> DEFINE c == [u EXCEPT !.entries = entries]
           d == [c EXCEPT !.dropped = dropped]
<1>1. [u EXCEPT !.entries = entries, !.dropped = dropped, !.evicted = evicted] =
        [d EXCEPT !.evicted = evicted]
  OBVIOUS
<1>2. c = [entries |-> entries, tracked |-> t, total |-> n, dropped |-> x, evicted |-> v]
  OBVIOUS
<1> HIDE DEF c
<1>3. d = [entries |-> entries, tracked |-> t, total |-> n,
           dropped |-> dropped, evicted |-> v]
  BY <1>2
<1> HIDE DEF d
<1>4. [d EXCEPT !.evicted = evicted] =
        [entries |-> entries, tracked |-> t, total |-> n,
         dropped |-> dropped, evicted |-> evicted]
  BY <1>3
<1> QED
  BY <1>1, <1>4

(* What Untrack changes. *)
LEMMA UntrackFields ==
    ASSUME NEW b \in BufferType, NEW S
    PROVE  Untrack(b, S) =
             [entries |-> b.entries, tracked |-> b.tracked \ S,
              total |-> b.total - TotalSize(S \cap b.tracked),
              dropped |-> b.dropped, evicted |-> b.evicted]
BY AccountFields DEF Untrack

(* What Evict changes. *)
LEMMA EvictFields ==
    ASSUME NEW b \in BufferType, NEW S, NEW rest
    PROVE  Evict(b, S, rest) =
             [entries |-> rest, tracked |-> b.tracked \ S,
              total |-> b.total - TotalSize(S \cap b.tracked),
              dropped |-> b.dropped + Cardinality(S), evicted |-> b.evicted \cup S]
<1> DEFINE u == Untrack(b, S)
           n == b.total - TotalSize(S \cap b.tracked)
           t == b.tracked \ S
           lost == Cardinality(S)
           gone == b.evicted \cup S
<1>1. u = [entries |-> b.entries, tracked |-> t, total |-> n,
           dropped |-> b.dropped, evicted |-> b.evicted]
  BY UntrackFields
<1>2. Evict(b, S, rest) = [u EXCEPT !.entries = rest, !.dropped = u.dropped + lost,
                                    !.evicted = u.evicted \cup S]
  BY DEF Evict
<1> HIDE DEF u, n, t, lost
<1>3. u.dropped = b.dropped /\ u.evicted = b.evicted
  BY <1>1
<1>4. Evict(b, S, rest) = [entries |-> rest, tracked |-> t, total |-> n,
                           dropped |-> u.dropped + lost, evicted |-> u.evicted \cup S]
  BY <1>1, <1>2, LossFields
<1> QED
  BY <1>3, <1>4 DEF n, t, lost

(* What Put changes. *)
LEMMA PutFields ==
    ASSUME NEW b \in BufferType, NEW e
    PROVE  Put(b, e) =
             [entries |-> Append(b.entries, e), tracked |-> b.tracked \cup {e},
              total |-> b.total + SizeOf[e], dropped |-> b.dropped, evicted |-> b.evicted]
<1> DEFINE list == Append(b.entries, e)
           t == b.tracked \cup {e}
           n == b.total + SizeOf[e]
           c == [b EXCEPT !.entries = list]
           d == [c EXCEPT !.tracked = t]
<1>1. Put(b, e) = [d EXCEPT !.total = n]
  BY DEF Put
<1> HIDE DEF list, t, n
<1>2. c = [entries |-> list, tracked |-> b.tracked, total |-> b.total,
           dropped |-> b.dropped, evicted |-> b.evicted]
  BY DEF BufferType
<1> HIDE DEF c
<1>3. d = [entries |-> list, tracked |-> t, total |-> b.total,
           dropped |-> b.dropped, evicted |-> b.evicted]
  BY <1>2
<1> HIDE DEF d
<1>4. [d EXCEPT !.total = n] =
        [entries |-> list, tracked |-> t, total |-> n,
         dropped |-> b.dropped, evicted |-> b.evicted]
  BY <1>3
<1> QED
  BY <1>1, <1>4 DEF list, t, n

-----------------------------------------------------------------------------
(* The list.                                                               *)

(* A sound list has finitely many entries, all of them with a size. *)
LEMMA SoundIsFinite ==
    ASSUME NEW b, Sound(b)
    PROVE  /\ IsFiniteSet(Elements(b)) /\ Elements(b) \subseteq Entries
           /\ Cardinality(Elements(b)) = Len(b.entries)
           /\ \A e \in Elements(b) : SizeOf[e] \in Nat
<1>1. b.entries \in Seq(Entries) /\ Distinct(b.entries)
  BY DEF Sound, BufferType
<1>2. IsFiniteSet(Elements(b)) /\ Cardinality(Elements(b)) = Len(b.entries)
  BY <1>1, DistinctLength DEF Elements
<1>3. Elements(b) \subseteq Entries
  BY <1>1 DEF Elements, Seqs!ToSet
<1> QED
  BY <1>2, <1>3, SizeOfAssumption

(* A list without entries, whatever was lost before. *)
LEMMA EmptiedAccounts ==
    ASSUME NEW b, NEW dropped \in Nat, NEW evicted \in SUBSET Entries,
           IsFiniteSet(evicted), dropped = Cardinality(evicted),
           b = [entries |-> <<>>, tracked |-> {}, total |-> 0,
                dropped |-> dropped, evicted |-> evicted]
    PROVE  Sound(b) /\ b.entries = <<>> /\ Known(b) = evicted
<1>1. Elements(b) = {}
  BY DEF Elements, Seqs!ToSet
<1>2. TotalSize({}) = 0
  <2>1. Units(SizeOf, {}) = {}
    BY DEF Units
  <2> QED
    BY <2>1, FS_EmptySet DEF TotalSize, TotalOf
<1>3. b \in BufferType /\ Distinct(b.entries)
  BY DEF BufferType, Distinct
<1> QED
  BY <1>1, <1>2, <1>3 DEF Sound, Known

(* The list and its counters once all but rest are lost. *)
LEMMA EvictSound ==
    ASSUME NEW b, Sound(b), NEW rest \in Seq(Entries), Distinct(rest),
           Seqs!ToSet(rest) \subseteq Elements(b),
           NEW S, S = Elements(b) \ Seqs!ToSet(rest)
    PROVE  LET d == Evict(b, S, rest)
           IN  /\ Sound(d) /\ Known(d) = Known(b) /\ d.total <= b.total
               /\ d.entries = rest /\ d.evicted = b.evicted \cup S
<1> DEFINE d == Evict(b, S, rest)
<1>1. b \in BufferType
  BY DEF Sound
<1>2. /\ d = [entries |-> rest, tracked |-> b.tracked \ S,
              total |-> b.total - TotalSize(S \cap b.tracked),
              dropped |-> b.dropped + Cardinality(S), evicted |-> b.evicted \cup S]
  BY <1>1, EvictFields
<1> HIDE DEF d
<1>3. Elements(d) = Seqs!ToSet(rest)
  BY <1>2 DEF Elements
<1>4. /\ IsFiniteSet(Elements(b)) /\ Elements(b) \subseteq Entries
      /\ \A e \in Elements(b) : SizeOf[e] \in Nat
  BY SoundIsFinite
<1>5. IsFiniteSet(S) /\ S \subseteq Entries /\ Cardinality(S) \in Nat
  BY <1>4, FS_Subset, FS_CardinalityType
<1>6. d.tracked = Elements(d)
  BY <1>2, <1>3 DEF Sound
<1>7. /\ S \cap b.tracked = S /\ b.total = TotalSize(Elements(b))
      /\ Elements(b) \ S = Elements(d)
  BY <1>3 DEF Sound
<1>8. /\ TotalSize(Elements(d)) = TotalSize(Elements(b)) - TotalSize(S)
      /\ TotalSize(Elements(b)) \in Nat /\ TotalSize(S) \in Nat
  BY <1>4, <1>5, <1>7, TotalOfRest, TotalType DEF TotalSize
<1>9. d.total = TotalSize(Elements(d)) /\ d.total <= b.total /\ d.total \in Int
  <2>1. d.total = b.total - TotalSize(S)
    BY <1>2, <1>7
  <2> QED
    BY <1>7, <1>8, <2>1
<1>10. /\ IsFiniteSet(b.evicted) /\ b.dropped = Cardinality(b.evicted)
       /\ b.evicted \cap S = {} /\ b.evicted \subseteq Entries /\ b.dropped \in Nat
  BY DEF Sound, BufferType
<1>11. IsFiniteSet(d.evicted) /\ d.dropped = Cardinality(d.evicted)
  <2>1. Cardinality(b.evicted \cap S) = 0
    BY <1>10, FS_EmptySet
  <2>2. /\ IsFiniteSet(b.evicted \cup S)
        /\ Cardinality(b.evicted \cup S) =
             Cardinality(b.evicted) + Cardinality(S) - Cardinality(b.evicted \cap S)
    BY <1>5, <1>10, FS_Union
  <2> QED
    BY <1>2, <1>5, <1>10, <2>1, <2>2
<1>12. d.evicted \cap Elements(d) = {} /\ Known(d) = Known(b)
  BY <1>2, <1>3, <1>10 DEF Known, Sound
<1>13. d \in BufferType
  <2>1. d.tracked \subseteq Entries
    BY <1>3, <1>4, <1>6
  <2>2. d.dropped \in Nat
    BY <1>2, <1>5, <1>10
  <2> QED
    BY <1>2, <1>5, <1>9, <1>10, <2>1, <2>2 DEF BufferType
<1>14. Distinct(d.entries)
  BY <1>2
<1>15. Sound(d)
  BY <1>6, <1>9, <1>11, <1>12, <1>13, <1>14 DEF Sound
<1>16. d.entries = rest /\ d.evicted = b.evicted \cup S
  BY <1>2
<1> QED
  BY <1>9, <1>12, <1>15, <1>16 DEF d

(* A new entry comes last. *)
LEMMA PutSound ==
    ASSUME NEW b, Sound(b), NEW e \in Entries, e \notin Known(b)
    PROVE  LET d == Put(b, e)
           IN  /\ Sound(d) /\ Known(d) = Known(b) \cup {e}
               /\ d.total = b.total + SizeOf[e]
               /\ d.entries = Append(b.entries, e) /\ d.evicted = b.evicted
<1> DEFINE d == Put(b, e)
<1>1. b \in BufferType
  BY DEF Sound
<1>2. d = [entries |-> Append(b.entries, e), tracked |-> b.tracked \cup {e},
           total |-> b.total + SizeOf[e], dropped |-> b.dropped, evicted |-> b.evicted]
  BY <1>1, PutFields
<1> HIDE DEF d
<1>3. b.entries \in Seq(Entries) /\ Distinct(b.entries)
  BY DEF Sound, BufferType
<1>4. /\ d.entries \in Seq(Entries) /\ Distinct(d.entries)
      /\ Elements(d) = Elements(b) \cup {e}
  BY <1>2, <1>3, AppendElements DEF Elements, Known
<1>5. /\ IsFiniteSet(Elements(b)) /\ Elements(b) \subseteq Entries
      /\ \A x \in Elements(b) : SizeOf[x] \in Nat
  BY SoundIsFinite
<1>6. SizeOf[e] \in Nat
  BY SizeOfAssumption
<1>7. d.total = TotalSize(Elements(d)) /\ d.total \in Int
  <2>1. e \notin Elements(b) /\ b.total = TotalSize(Elements(b)) /\ b.total \in Int
    BY DEF Known, Sound, BufferType
  <2>2. TotalSize(Elements(b) \cup {e}) = TotalSize(Elements(b)) + SizeOf[e]
    BY <1>5, <1>6, <2>1, TotalOfAdded DEF TotalSize
  <2>3. d.total = b.total + SizeOf[e]
    BY <1>2
  <2> QED
    BY <1>4, <1>6, <2>1, <2>2, <2>3
<1>8. d.tracked = Elements(d)
  BY <1>2, <1>4 DEF Sound
<1>9. d.evicted \cap Elements(d) = {} /\ Known(d) = Known(b) \cup {e}
  BY <1>2, <1>4 DEF Known, Sound
<1>10. d \in BufferType
  BY <1>1, <1>2, <1>4, <1>7 DEF BufferType
<1>11. IsFiniteSet(d.evicted) /\ d.dropped = Cardinality(d.evicted)
  BY <1>2 DEF Sound
<1>12. Sound(d)
  BY <1>4, <1>7, <1>8, <1>9, <1>10, <1>11 DEF Sound
<1>13. /\ d.total = b.total + SizeOf[e] /\ d.entries = Append(b.entries, e)
       /\ d.evicted = b.evicted
  BY <1>2
<1> QED
  BY <1>9, <1>12, <1>13 DEF d

(* The oldest entries go: the first n of the list, and at least count. *)
LEMMA DropOldestSound ==
    ASSUME NEW b, Sound(b), NEW count \in Int
    PROVE  LET d == DropOldest(b, count)
           IN  /\ Sound(d) /\ Known(d) = Known(b) /\ d.total <= b.total
               /\ Len(d.entries) <= Len(b.entries)
               /\ Len(d.entries) <= Len(b.entries) - count \/ Len(d.entries) = 0
               /\ \E n \in 0..Len(b.entries) :
                     d.evicted = b.evicted \cup {b.entries[i] : i \in 1..n}
<1> DEFINE d == DropOldest(b, count)
<1>1. b \in BufferType /\ b.entries \in Seq(Entries) /\ Len(b.entries) \in Nat
      /\ b.total \in Int /\ Distinct(b.entries)
  BY DEF Sound, BufferType
<1>2. CASE count <= 0 \/ b.entries = <<>>
  <2>1. d = b
    BY <1>2 DEF DropOldest
  <2>2. Len(b.entries) <= Len(b.entries) - count \/ Len(b.entries) = 0
    BY <1>1, <1>2
  <2>3. b.evicted = b.evicted \cup {b.entries[i] : i \in 1..0} /\ 0 \in 0..Len(b.entries)
    BY <1>1
  <2> QED
    BY <1>1, <2>1, <2>2, <2>3
<1>3. CASE ~(count <= 0 \/ b.entries = <<>>)
  <2> DEFINE n == IF count > Len(b.entries) THEN Len(b.entries) ELSE count
             lost == SubSeq(b.entries, 1, n)
             rest == SubSeq(b.entries, n + 1, Len(b.entries))
  <2>1. d = Evict(b, Seqs!ToSet(lost), rest)
    BY <1>3 DEF DropOldest
  <2>2. n \in 0..Len(b.entries) /\ (n = count \/ n = Len(b.entries))
    BY <1>1, <1>3
  <2> HIDE DEF n
  <2>3. /\ lost \in Seq(Entries) /\ Len(lost) = n /\ \A i \in 1..n : lost[i] = b.entries[i]
        /\ rest \in Seq(Entries) /\ Len(rest) = Len(b.entries) - n /\ Distinct(rest)
        /\ Seqs!ToSet(b.entries) = Seqs!ToSet(lost) \cup Seqs!ToSet(rest)
        /\ Seqs!ToSet(lost) \cap Seqs!ToSet(rest) = {}
    <3> DEFINE list == b.entries
    <3>1. list \in Seq(Entries) /\ Distinct(list) /\ n \in 0..Len(list)
      BY <1>1, <2>2
    <3> HIDE DEF list
    <3>2. LET a == SubSeq(list, 1, n)
              z == SubSeq(list, n + 1, Len(list))
          IN  /\ a \in Seq(Entries) /\ Len(a) = n /\ \A i \in 1..n : a[i] = list[i]
              /\ z \in Seq(Entries) /\ Len(z) = Len(list) - n
              /\ Seqs!ToSet(list) = Seqs!ToSet(a) \cup Seqs!ToSet(z)
              /\ Distinct(z) /\ Seqs!ToSet(a) \cap Seqs!ToSet(z) = {}
      BY <3>1, SplitElements
    <3> QED
      BY <3>2 DEF list
  <2> HIDE DEF lost, rest, d
  <2>4. /\ Seqs!ToSet(lost) = Elements(b) \ Seqs!ToSet(rest)
        /\ Seqs!ToSet(rest) \subseteq Elements(b)
    BY <2>3 DEF Elements
  <2>5. /\ Sound(d) /\ Known(d) = Known(b) /\ d.total <= b.total
        /\ d.entries = rest /\ d.evicted = b.evicted \cup Seqs!ToSet(lost)
    BY <2>1, <2>3, <2>4, EvictSound
  <2>6. Seqs!ToSet(lost) = {b.entries[i] : i \in 1..n}
    <3>1. DOMAIN lost = 1..n
      BY <2>3
    <3> QED
      BY <2>3, <3>1 DEF Seqs!ToSet
  <2>7. /\ Len(d.entries) <= Len(b.entries)
        /\ Len(d.entries) <= Len(b.entries) - count \/ Len(d.entries) = 0
    BY <1>1, <2>2, <2>3, <2>5
  <2>8. \E m \in 0..Len(b.entries) :
           d.evicted = b.evicted \cup {b.entries[i] : i \in 1..m}
    BY <2>2, <2>5, <2>6
  <2> QED
    BY <2>5, <2>7, <2>8 DEF d
<1> QED
  BY <1>2, <1>3

(* add's first limit: no more than max_size entries stay, the oldest go. *)
LEMMA EnforceMaxSizeSound ==
    ASSUME NEW b, Sound(b)
    PROVE  LET d == EnforceMaxSize(b)
           IN  /\ Sound(d) /\ Known(d) = Known(b) /\ d.total <= b.total
               /\ Len(d.entries) <= MaxSize
               /\ \E n \in 0..Len(b.entries) :
                     d.evicted = b.evicted \cup {b.entries[i] : i \in 1..n}
<1> DEFINE count == Len(b.entries) - MaxSize
           d == DropOldest(b, count)
<1>1. b.entries \in Seq(Entries) /\ Len(b.entries) \in Nat /\ MaxSize \in Nat
  BY MaxSizeAssumption DEF Sound, BufferType
<1>2. count \in Int /\ Len(b.entries) - count = MaxSize
  BY <1>1
<1> HIDE DEF count
<1>3. /\ Sound(d) /\ Known(d) = Known(b) /\ d.total <= b.total
      /\ Len(d.entries) <= Len(b.entries) - count \/ Len(d.entries) = 0
      /\ \E n \in 0..Len(b.entries) :
            d.evicted = b.evicted \cup {b.entries[i] : i \in 1..n}
  BY <1>2, DropOldestSound
<1>4. d = EnforceMaxSize(b)
  BY DEF EnforceMaxSize, count
<1> HIDE DEF d
<1>5. Len(d.entries) <= MaxSize
  BY <1>1, <1>2, <1>3
<1> QED
  BY <1>3, <1>4, <1>5

(* add's second limit: old entries go, then a tenth of the others. *)
LEMMA RemoveOldEntriesSound ==
    ASSUME NEW b, Sound(b), NEW young \in Sublists(b.entries)
    PROVE  LET d == RemoveOldEntries(b, young)
           IN  Sound(d) /\ Known(d) = Known(b) /\ b.evicted \subseteq d.evicted
<1> DEFINE old == Seqs!ToSet(b.entries) \ Seqs!ToSet(young)
           kept == Evict(b, old, young)
           tenth == Len(young) \div 10
           count == IF tenth > 1 THEN tenth ELSE 1
           d == DropOldest(kept, count)
<1>1. b.entries \in Seq(Entries) /\ Distinct(b.entries)
  BY DEF Sound, BufferType
<1>2. /\ young \in Seq(Entries) /\ Distinct(young)
      /\ Seqs!ToSet(young) \subseteq Seqs!ToSet(b.entries)
  BY <1>1, SublistElements
<1>3. RemoveOldEntries(b, young) = IF kept.total > MaxMemory THEN d ELSE kept
  BY DEF RemoveOldEntries
<1>4. count \in Int
  BY <1>2
<1> HIDE DEF count
<1>5. old = Elements(b) \ Seqs!ToSet(young) /\ Seqs!ToSet(young) \subseteq Elements(b)
  BY <1>2 DEF Elements
<1> HIDE DEF old
<1>6. Sound(kept) /\ Known(kept) = Known(b) /\ b.evicted \subseteq kept.evicted
  BY <1>2, <1>5, EvictSound
<1> HIDE DEF kept
<1>7. Sound(d) /\ Known(d) = Known(kept) /\ kept.evicted \subseteq d.evicted
  BY <1>4, <1>6, DropOldestSound
<1> QED
  BY <1>3, <1>6, <1>7

(* The list is handed over: nothing is left, nothing more is lost. *)
LEMMA EmptiedSound ==
    ASSUME NEW b, Sound(b)
    PROVE  LET d == Emptied(b)
           IN  Sound(d) /\ d.entries = <<>> /\ Known(d) = b.evicted
<1> DEFINE u == Untrack(b, Seqs!ToSet(b.entries))
           d == [u EXCEPT !.entries = <<>>]
           n == b.total - TotalSize(Seqs!ToSet(b.entries) \cap b.tracked)
           t == b.tracked \ Seqs!ToSet(b.entries)
<1>1. b \in BufferType /\ b.tracked = Seqs!ToSet(b.entries)
  BY DEF Sound, Elements
<1>2. u = [entries |-> b.entries, tracked |-> t, total |-> n,
           dropped |-> b.dropped, evicted |-> b.evicted]
  BY <1>1, UntrackFields
<1>3. n = 0
  <2>1. IsFiniteSet(Elements(b)) /\ \A e \in Elements(b) : SizeOf[e] \in Nat
    BY SoundIsFinite
  <2>2. TotalSize(Elements(b)) \in Nat /\ b.total = TotalSize(Elements(b))
    BY <2>1, TotalType DEF TotalSize, Sound
  <2>3. n = b.total - TotalSize(Elements(b))
    BY <1>1 DEF Elements
  <2> HIDE DEF n
  <2> QED
    BY <2>2, <2>3
<1>4. t = {}
  BY <1>1
<1> HIDE DEF n, t, u
<1>5. d = [entries |-> <<>>, tracked |-> {}, total |-> 0,
           dropped |-> b.dropped, evicted |-> b.evicted]
  <2> DEFINE none == <<>>
  <2> HIDE DEF none
  <2>1. [u EXCEPT !.entries = none] =
          [entries |-> none, tracked |-> t, total |-> n,
           dropped |-> b.dropped, evicted |-> b.evicted]
    BY <1>2
  <2> QED
    BY <1>3, <1>4, <2>1 DEF none
<1>6. d = Emptied(b)
  BY DEF Emptied, u
<1> HIDE DEF d
<1>7. Sound(d) /\ d.entries = <<>> /\ Known(d) = b.evicted
  <2>1. /\ b.dropped \in Nat /\ b.evicted \in SUBSET Entries
        /\ IsFiniteSet(b.evicted) /\ b.dropped = Cardinality(b.evicted)
    BY DEF Sound, BufferType
  <2> QED
    BY <1>5, <2>1, EmptiedAccounts
<1> QED
  BY <1>6, <1>7

(* The same when the tracker is reset. *)
LEMMA DestroyedSound ==
    ASSUME NEW b, Sound(b)
    PROVE  LET d == [b EXCEPT !.entries = <<>>, !.tracked = {}, !.total = 0]
           IN  Sound(d) /\ d.entries = <<>> /\ Known(d) = b.evicted
<1> DEFINE none == <<>>
           c == [b EXCEPT !.entries = none]
           t == [c EXCEPT !.tracked = {}]
           d == [t EXCEPT !.total = 0]
<1>1. b \in BufferType
  BY DEF Sound
<1> HIDE DEF none
<1>2. c = [entries |-> none, tracked |-> b.tracked, total |-> b.total,
           dropped |-> b.dropped, evicted |-> b.evicted]
  BY <1>1 DEF BufferType
<1> HIDE DEF c
<1>3. t = [entries |-> none, tracked |-> {}, total |-> b.total,
           dropped |-> b.dropped, evicted |-> b.evicted]
  BY <1>2
<1> HIDE DEF t
<1>4. d = [entries |-> none, tracked |-> {}, total |-> 0,
           dropped |-> b.dropped, evicted |-> b.evicted]
  BY <1>3
<1>5. d = [b EXCEPT !.entries = <<>>, !.tracked = {}, !.total = 0]
  BY DEF c, t, none
<1> HIDE DEF d
<1>6. /\ b.dropped \in Nat /\ b.evicted \in SUBSET Entries
      /\ IsFiniteSet(b.evicted) /\ b.dropped = Cardinality(b.evicted)
  BY DEF Sound, BufferType
<1>7. Sound(d) /\ d.entries = <<>> /\ Known(d) = b.evicted
  BY <1>4, <1>6, EmptiedAccounts DEF none
<1> QED
  BY <1>5, <1>7

-----------------------------------------------------------------------------
(* The inductive invariant.                                                *)

(* A list that add may leave. *)
LEMMA AddSound ==
    ASSUME BufferInv, NEW e \in Entries, e \notin offered, NEW b \in AddResults(e)
    PROVE  /\ Sound(b) /\ Len(b.entries) <= MaxSize /\ Known(b) = Known(buf) \cup {e}
           /\ buf.evicted \subseteq b.evicted
<1> DEFINE first == Put(buf, e)
           put == EnforceMaxSize(first)
<1>1. Sound(buf) /\ e \notin Known(buf)
  BY DEF BufferInv
<1>2. /\ Sound(first) /\ Known(first) = Known(buf) \cup {e}
      /\ first.evicted = buf.evicted
  BY <1>1, PutSound
<1>3. /\ Sound(put) /\ Known(put) = Known(first) /\ Len(put.entries) <= MaxSize
      /\ first.evicted \subseteq put.evicted
  <2> HIDE DEF first
  <2> QED
    BY <1>2, EnforceMaxSizeSound
<1>4. \/ b = put
      \/ \E young \in Sublists(put.entries) : b = EnforceMaxSize(RemoveOldEntries(put, young))
  BY DEF AddResults
<1> HIDE DEF put
<1>5. CASE b = put
  BY <1>2, <1>3, <1>5
<1>6. ASSUME NEW young \in Sublists(put.entries),
             b = EnforceMaxSize(RemoveOldEntries(put, young))
      PROVE  /\ Sound(b) /\ Len(b.entries) <= MaxSize /\ Known(b) = Known(buf) \cup {e}
             /\ buf.evicted \subseteq b.evicted
  <2> DEFINE rest == RemoveOldEntries(put, young)
  <2>1. Sound(rest) /\ Known(rest) = Known(put) /\ put.evicted \subseteq rest.evicted
    BY <1>3, RemoveOldEntriesSound
  <2>2. b = EnforceMaxSize(rest)
    BY <1>6
  <2> HIDE DEF rest
  <2>3. /\ Sound(b) /\ Known(b) = Known(rest) /\ Len(b.entries) <= MaxSize
        /\ rest.evicted \subseteq b.evicted
    BY <2>1, <2>2, EnforceMaxSizeSound
  <2> QED
    BY <1>2, <1>3, <2>1, <2>3
<1> QED
  BY <1>4, <1>5, <1>6

(* A timer is scheduled in a free slot, or does not start, or is there. *)
LEMMA ScheduleFlushTypes ==
    ASSUME NEW ft \in Timers \cup {None, Unstarted},
           NEW tm \in [Timers -> {"free", "armed", "fired", "running"}],
           ScheduleFlush(ft, tm) \/ ScheduleRaises(ft, tm)
    PROVE  /\ flushTimer' \in Timers \cup {None, Unstarted}
           /\ timer' \in [Timers -> {"free", "armed", "fired", "running"}]
BY DEF ScheduleFlush, ScheduleRaises

(* A new buffer satisfies the invariant. *)
LEMMA BufferInit ==
    ASSUME Init PROVE BufferInv
<1>1. Sound(buf) /\ Known(buf) = {} /\ buf.entries = <<>>
  <2>1. IsFiniteSet({}) /\ Cardinality({}) = 0
    BY FS_EmptySet
  <2>2. buf = [entries |-> <<>>, tracked |-> {}, total |-> 0,
               dropped |-> 0, evicted |-> {}]
    BY DEF Init
  <2>3. /\ 0 \in Nat /\ {} \in SUBSET Entries
    OBVIOUS
  <2> HIDE DEF Init
  <2> QED
    BY ONLY <2>1, <2>2, <2>3, EmptiedAccounts
<1>2. /\ flushTimer \in Timers \cup {None, Unstarted}
      /\ timer \in [Timers -> {"free", "armed", "fired", "running"}]
  BY DEF Init
<1>3. BufferBounded
  BY <1>1, MaxSizeAssumption DEF BufferBounded
<1>4. /\ bufferDestroyed = FALSE /\ lock = None
      /\ kicks = {} /\ offered = {} /\ discarded = {} /\ strayed = {}
  BY DEF Init
<1>5. buf \in BufferType
  BY <1>1 DEF Sound
<1>6. TypeOK
  BY <1>2, <1>4, <1>5 DEF TypeOK, BufferType
<1> QED
  BY <1>1, <1>3, <1>4, <1>6 DEF BufferInv, QuietAfterDestroy

(* What every operation of the list keeps: what it does to the list, and   *)
(* what to the timers, is all that matters.                                *)
LEMMA OperationKeeps ==
    ASSUME BufferInv,
           bufferDestroyed' \in BOOLEAN, lock' \in Timers \cup {None},
           kicks' \subseteq Entries, offered' \subseteq Entries, discarded' \subseteq offered',
           strayed' \subseteq offered', flushTimer' \in Timers \cup {None, Unstarted},
           timer' \in [Timers -> {"free", "armed", "fired", "running"}],
           Sound(buf'), Len(buf'.entries) <= MaxSize, Known(buf') \subseteq offered',
           bufferDestroyed' => buf'.entries = <<>> /\ flushTimer' = None
    PROVE  BufferInv'
<1>1. buf' \in BufferType
  BY DEF Sound
<1>2. TypeOK'
  BY <1>1 DEF TypeOK, BufferType
<1>3. Sound(buf)' /\ Known(buf)' = Known(buf')
  BY DEF Sound, Known, Elements, BufferType, TotalSize
<1> QED
  BY <1>2, <1>3 DEF BufferInv, BufferBounded, QuietAfterDestroy

(* The parts of the invariant, and what they need of every step. *)
LEMMA BufferFacts ==
    ASSUME BufferInv
    PROVE  /\ Sound(buf) /\ BufferBounded /\ Known(buf) \subseteq offered /\ QuietAfterDestroy
           /\ bufferDestroyed \in BOOLEAN /\ lock \in Timers \cup {None}
           /\ kicks \subseteq Entries /\ offered \subseteq Entries /\ discarded \subseteq offered
           /\ strayed \subseteq offered /\ flushTimer \in Timers \cup {None, Unstarted}
           /\ timer \in [Timers -> {"free", "armed", "fired", "running"}]
           /\ Cancelled \in [Timers -> {"free", "armed", "fired", "running"}]
           /\ Held \subseteq offered
           /\ Len(<<>>) <= MaxSize
<1>1. /\ TypeOK /\ Sound(buf) /\ BufferBounded /\ Known(buf) \subseteq offered
      /\ QuietAfterDestroy
  BY DEF BufferInv
<1>2. /\ bufferDestroyed \in BOOLEAN /\ lock \in Timers \cup {None}
      /\ kicks \subseteq Entries /\ offered \subseteq Entries /\ discarded \subseteq offered
      /\ strayed \subseteq offered /\ flushTimer \in Timers \cup {None, Unstarted}
      /\ timer \in [Timers -> {"free", "armed", "fired", "running"}]
  BY <1>1 DEF TypeOK
<1>3. Held \subseteq offered
  BY <1>1 DEF Held, Known, Elements
<1>4. Cancelled \in [Timers -> {"free", "armed", "fired", "running"}]
  BY <1>2 DEF Cancelled
<1>5. Len(<<>>) <= MaxSize
  BY MaxSizeAssumption
<1> QED
  BY <1>1, <1>2, <1>3, <1>4, <1>5

(* add: what it puts into the list and what it loses was offered to it. *)
LEMMA AddKeeps ==
    ASSUME BufferInv, NEW th, NEW e \in Entries, Add(th, e)
    PROVE  /\ BufferInv'
           /\ bufferDestroyed => buf' = buf
           /\ ~bufferDestroyed => /\ Known(buf') = Known(buf) \cup {e}
                                  /\ buf.evicted \subseteq buf'.evicted
<1>1. /\ e \notin offered /\ offered' = offered \cup {e}
      /\ bufferDestroyed' = bufferDestroyed /\ lock' = lock /\ strayed' = strayed
  BY DEF Add
<1>2. CASE /\ bufferDestroyed
           /\ discarded' = discarded \cup {e}
           /\ UNCHANGED <<buf, flushTimer, timer, kicks>>
  <2>1. buf' = buf /\ flushTimer' = flushTimer /\ timer' = timer /\ kicks' = kicks
    BY <1>2
  <2> QED
    BY <1>1, <1>2, <2>1, BufferFacts, OperationKeeps DEF BufferBounded, QuietAfterDestroy
<1>3. CASE /\ ~bufferDestroyed
           /\ buf' \in AddResults(e)
           /\ IF AutoFlush THEN ScheduleFlush(flushTimer, timer)
                           ELSE UNCHANGED <<flushTimer, timer>>
           /\ kicks' = IF AutoFlush /\ Len(buf'.entries) >= MaxSize
                       THEN kicks \cup {e} ELSE kicks
           /\ UNCHANGED discarded
  <2>1. /\ Sound(buf') /\ Len(buf'.entries) <= MaxSize /\ Known(buf') = Known(buf) \cup {e}
        /\ buf.evicted \subseteq buf'.evicted
    <3>1. ASSUME NEW b \in AddResults(e)
          PROVE  /\ Sound(b) /\ Len(b.entries) <= MaxSize /\ Known(b) = Known(buf) \cup {e}
                 /\ buf.evicted \subseteq b.evicted
      BY <1>1, AddSound
    <3> QED
      BY <1>3, <3>1
  <2>2. Known(buf') \subseteq offered'
    BY <1>1, <2>1, BufferFacts
  <2>3. /\ flushTimer' \in Timers \cup {None, Unstarted}
        /\ timer' \in [Timers -> {"free", "armed", "fired", "running"}]
    BY <1>3, BufferFacts, ScheduleFlushTypes
  <2>4. kicks' \subseteq Entries /\ discarded' \subseteq offered' /\ offered' \subseteq Entries
    BY <1>1, <1>3, BufferFacts
  <2> QED
    BY <1>1, <1>3, <2>1, <2>2, <2>3, <2>4, BufferFacts, OperationKeeps
<1> QED
  BY <1>2, <1>3 DEF Add

(* The same when one of its two timers does not start. *)
LEMMA AddRaisesKeeps ==
    ASSUME BufferInv, NEW th, NEW e \in Entries, AddRaises(th, e)
    PROVE  BufferInv' /\ Known(buf') = Known(buf) \cup {e} /\ buf.evicted \subseteq buf'.evicted
<1>1. /\ e \notin offered /\ offered' = offered \cup {e} /\ ~bufferDestroyed
      /\ bufferDestroyed' = bufferDestroyed /\ lock' = lock /\ kicks' = kicks
      /\ discarded' = discarded /\ strayed' = strayed /\ buf' \in AddResults(e)
      /\ ScheduleRaises(flushTimer, timer) \/ ScheduleFlush(flushTimer, timer)
  BY DEF AddRaises
<1>2. /\ Sound(buf') /\ Len(buf'.entries) <= MaxSize /\ Known(buf') = Known(buf) \cup {e}
      /\ buf.evicted \subseteq buf'.evicted
  <2>1. ASSUME NEW b \in AddResults(e)
        PROVE  /\ Sound(b) /\ Len(b.entries) <= MaxSize /\ Known(b) = Known(buf) \cup {e}
               /\ buf.evicted \subseteq b.evicted
    BY <1>1, AddSound
  <2> QED
    BY <1>1, <2>1
<1>3. /\ flushTimer' \in Timers \cup {None, Unstarted}
      /\ timer' \in [Timers -> {"free", "armed", "fired", "running"}]
  BY <1>1, BufferFacts, ScheduleFlushTypes
<1>4. Known(buf') \subseteq offered' /\ offered' \subseteq Entries
  BY <1>1, <1>2, BufferFacts
<1> QED
  BY <1>1, <1>2, <1>3, <1>4, BufferFacts, OperationKeeps

(* flush and clear leave nothing in the list, and lose nothing. *)
LEMMA EmptiedKeeps ==
    ASSUME BufferInv
    PROVE  /\ Sound(Emptied(buf)) /\ Emptied(buf).entries = <<>>
           /\ Known(Emptied(buf)) = buf.evicted /\ buf.evicted \subseteq offered
<1>1. Sound(buf) /\ Known(buf) \subseteq offered
  BY BufferFacts
<1> QED
  BY <1>1, EmptiedSound DEF Known

(* flush keeps the invariant and empties the list, losing nothing. *)
LEMMA FlushKeeps ==
    ASSUME BufferInv, NEW th, Flush(th)
    PROVE  BufferInv' /\ buf'.entries = <<>> /\ Known(buf') = buf.evicted
<1>1. /\ buf' = Emptied(buf)
      /\ bufferDestroyed' = bufferDestroyed /\ lock' = lock /\ kicks' = kicks
      /\ offered' = offered /\ discarded' = discarded /\ strayed' = strayed
  BY DEF Flush
<1>2. /\ flushTimer' \in Timers \cup {None, Unstarted}
      /\ timer' \in [Timers -> {"free", "armed", "fired", "running"}]
      /\ bufferDestroyed => flushTimer' = None
  <2>1. CASE AutoFlush /\ ~bufferDestroyed
    <3>1. ScheduleFlush(None, Cancelled)
      BY <2>1 DEF Flush
    <3> QED
      BY <2>1, <3>1, BufferFacts, ScheduleFlushTypes
  <2>2. CASE ~(AutoFlush /\ ~bufferDestroyed)
    BY <2>2, BufferFacts DEF Flush
  <2> QED
    BY <2>1, <2>2
<1> QED
  BY <1>1, <1>2, BufferFacts, EmptiedKeeps, OperationKeeps

(* So does a flush that raises: the entries it took are astray.            *)
LEMMA FlushRaisesKeeps ==
    ASSUME BufferInv, NEW th, FlushRaises(th)
    PROVE  BufferInv' /\ buf'.entries = <<>> /\ Known(buf') = buf.evicted
<1>1. /\ buf' = Emptied(buf) /\ ~bufferDestroyed /\ ScheduleRaises(None, Cancelled)
      /\ bufferDestroyed' = bufferDestroyed /\ lock' = lock /\ kicks' = kicks
      /\ offered' = offered /\ discarded' = discarded /\ strayed' = strayed \cup Held
  BY DEF FlushRaises
<1>2. /\ flushTimer' \in Timers \cup {None, Unstarted}
      /\ timer' \in [Timers -> {"free", "armed", "fired", "running"}]
  BY <1>1, BufferFacts, ScheduleFlushTypes
<1>3. strayed' \subseteq offered'
  BY <1>1, BufferFacts
<1> QED
  BY <1>1, <1>2, <1>3, BufferFacts, EmptiedKeeps, OperationKeeps

(* clear keeps the invariant. *)
LEMMA ClearKeeps ==
    ASSUME BufferInv, NEW th, Clear(th)
    PROVE  BufferInv'
<1>1. /\ buf' = Emptied(buf) /\ flushTimer' = None /\ timer' = Cancelled
      /\ bufferDestroyed' = bufferDestroyed /\ lock' = lock /\ kicks' = kicks
      /\ offered' = offered /\ discarded' = discarded \cup Held /\ strayed' = strayed
  BY DEF Clear
<1> QED
  BY <1>1, BufferFacts, EmptiedKeeps, OperationKeeps

(* destroy keeps the invariant and empties the list, evicting nothing. *)
LEMMA DestroyKeeps ==
    ASSUME BufferInv, NEW th, Destroy(th)
    PROVE  BufferInv' /\ buf'.entries = <<>> /\ Known(buf') = buf.evicted
<1>1. /\ bufferDestroyed' = TRUE /\ flushTimer' = None /\ timer' = Cancelled
      /\ buf' = [buf EXCEPT !.entries = <<>>, !.tracked = {}, !.total = 0]
      /\ lock' = lock /\ kicks' = kicks
      /\ offered' = offered /\ discarded' = discarded \cup Held /\ strayed' = strayed
  BY DEF Destroy
<1>2. Sound(buf') /\ buf'.entries = <<>> /\ Known(buf') = buf.evicted
  BY <1>1, BufferFacts, DestroyedSound
<1>3. Known(buf') \subseteq offered
  BY <1>2, EmptiedKeeps
<1> QED
  BY <1>1, <1>2, <1>3, BufferFacts, OperationKeeps

(* What the threads of the buffer do leaves the list alone. *)
LEMMA ThreadKeeps ==
    ASSUME BufferInv,
           \/ \E t \in Timers : Expire(t) \/ TimerEnter(t) \/ TimerLeave(t)
           \/ \E e \in Entries : KickStart(e)
           \/ UNCHANGED vars
    PROVE  BufferInv'
<1>1. ASSUME buf' = buf, bufferDestroyed' = bufferDestroyed, offered' = offered,
             discarded' = discarded, strayed' = strayed, flushTimer' \in {flushTimer, None},
             timer' \in [Timers -> {"free", "armed", "fired", "running"}],
             lock' \in Timers \cup {None}, kicks' \subseteq kicks
      PROVE  BufferInv'
  BY <1>1, BufferFacts, OperationKeeps DEF BufferBounded, QuietAfterDestroy
<1>2. ASSUME NEW t \in Timers, Expire(t) PROVE BufferInv'
  BY <1>1, <1>2, BufferFacts DEF Expire
<1>3. ASSUME NEW t \in Timers, TimerEnter(t) PROVE BufferInv'
  <2>1. /\ buf' = buf /\ bufferDestroyed' = bufferDestroyed /\ offered' = offered
        /\ discarded' = discarded /\ strayed' = strayed /\ flushTimer' = None
        /\ kicks' = kicks
    BY <1>3 DEF TimerEnter
  <2>2. /\ timer' \in [Timers -> {"free", "armed", "fired", "running"}]
        /\ lock' \in Timers \cup {None}
    BY <1>3, BufferFacts DEF TimerEnter
  <2> QED
    BY <1>1, <2>1, <2>2
<1>4. ASSUME NEW t \in Timers, TimerLeave(t) PROVE BufferInv'
  BY <1>1, <1>4, BufferFacts DEF TimerLeave
<1>5. ASSUME NEW e \in Entries, KickStart(e) PROVE BufferInv'
  BY <1>1, <1>5, BufferFacts DEF KickStart
<1>6. CASE UNCHANGED vars
  BY <1>1, <1>6, BufferFacts DEF vars
<1> QED
  BY <1>2, <1>3, <1>4, <1>5, <1>6

(* Every step of the buffer keeps the invariant. *)
LEMMA BufferStep ==
    ASSUME BufferInv, [Next]_vars PROVE BufferInv'
<1>1. ASSUME NEW th \in Callers, CallerStep(th) PROVE BufferInv'
  BY <1>1, AddKeeps, AddRaisesKeeps, FlushKeeps, FlushRaisesKeeps, ClearKeeps,
     DestroyKeeps DEF CallerStep
<1>2. ASSUME NEW t \in Timers, TimerStep(t) PROVE BufferInv'
  BY <1>2, FlushKeeps, FlushRaisesKeeps, ThreadKeeps DEF TimerStep
<1> QED
  BY <1>1, <1>2, ThreadKeeps DEF Next

(* The list, the tracker and the timers, in every state of the buffer. *)
THEOREM Invariant == Spec => []BufferInv
<1>1. Init => BufferInv
  BY BufferInit
<1>2. BufferInv /\ [Next]_vars => BufferInv'
  BY BufferStep
<1> QED
  BY <1>1, <1>2, PTL DEF Spec

(* The types of the buffer's state hold for every number of threads. *)
THEOREM TypeCorrect == Spec => []TypeOK
<1>1. BufferInv => TypeOK
  BY DEF BufferInv
<1> QED
  BY <1>1, Invariant, PTL

(* However many threads add, the list never has more than max_size entries *)
(* between two calls.                                                      *)
THEOREM Bounded == Spec => []BufferBounded
<1>1. BufferInv => BufferBounded
  BY DEF BufferInv
<1> QED
  BY <1>1, Invariant, PTL

(* The tracker's set and sum and the count of lost entries are exact after *)
(* any sequence of calls, for any sizes and any limits.                    *)
THEOREM Accounted == Spec => []AccountsExact
<1>1. BufferInv => AccountsExact
  <2> SUFFICES ASSUME BufferInv PROVE AccountsExact
    OBVIOUS
  <2>1. Sound(buf) /\ Held = Elements(buf)
    BY DEF BufferInv, Held, Elements
  <2>2. Cardinality(Elements(buf)) = Len(buf.entries)
    BY <2>1, SoundIsFinite
  <2> QED
    BY <2>1, <2>2 DEF AccountsExact, Sound
<1> QED
  BY <1>1, Invariant, PTL

(* A destroyed buffer stays empty and schedules no timer, whatever calls   *)
(* and orphaned timers still come in.                                      *)
THEOREM QuietOnceDestroyed == Spec => []QuietAfterDestroy
<1>1. BufferInv => QuietAfterDestroy
  BY DEF BufferInv
<1> QED
  BY <1>1, Invariant, PTL

-----------------------------------------------------------------------------
(* Back-pressure. *)

(* An add that finds room in memory takes a first part of the list.        *)
LEMMA AddTakesOldest ==
    ASSUME BufferInv, NEW e \in Entries, e \notin offered, NEW b \in AddResults(e),
           buf.total + SizeOf[e] <= MaxMemory
    PROVE  \E n \in 0..Len(buf.entries) + 1 :
              b.evicted = buf.evicted \cup {Append(buf.entries, e)[i] : i \in 1..n}
<1> DEFINE first == Put(buf, e)
           put == EnforceMaxSize(first)
<1>1. Sound(buf) /\ e \notin Known(buf)
  BY DEF BufferInv
<1>2. /\ Sound(first) /\ first.total = buf.total + SizeOf[e]
      /\ first.entries = Append(buf.entries, e) /\ first.evicted = buf.evicted
  BY <1>1, PutSound
<1>3. /\ put.total <= first.total /\ Sound(put)
      /\ \E n \in 0..Len(first.entries) :
            put.evicted = first.evicted \cup {first.entries[i] : i \in 1..n}
  <2> HIDE DEF first
  <2> QED
    BY <1>2, EnforceMaxSizeSound
<1>4. put.total <= MaxMemory
  <2>1. put.total \in Int /\ first.total \in Int /\ MaxMemory \in Nat
    BY <1>2, <1>3, MaxMemoryAssumption DEF Sound, BufferType
  <2> HIDE DEF put, first
  <2> QED
    BY <1>2, <1>3, <2>1
<1>5. b = put
  BY <1>4 DEF AddResults
<1>6. Len(first.entries) = Len(buf.entries) + 1
  <2>1. buf.entries \in Seq(Entries)
    BY <1>1 DEF Sound, BufferType
  <2> QED
    BY <1>2, <2>1
<1> HIDE DEF put, first
<1> QED
  BY <1>2, <1>3, <1>5, <1>6

(* Unless memory runs out, an entry is lost only after all the older ones. *)
THEOREM OldestGoFirst == Spec => OldestFirst
<1> DEFINE Step == \A e \in offered' \ offered :
              buf.total + SizeOf[e] <= MaxMemory
                 => LET list == Append(buf.entries, e) IN
                    \A i, j \in DOMAIN list :
                       i < j /\ list[j] \in buf'.evicted => list[i] \in buf'.evicted
<1>1. ASSUME BufferInv, [Next]_vars PROVE [Step]_vars
  <2> SUFFICES ASSUME NEW e \in offered' \ offered, buf.total + SizeOf[e] <= MaxMemory,
                      NEW i \in DOMAIN Append(buf.entries, e),
                      NEW j \in DOMAIN Append(buf.entries, e),
                      i < j, Append(buf.entries, e)[j] \in buf'.evicted
               PROVE  Append(buf.entries, e)[i] \in buf'.evicted
    OBVIOUS
  <2> DEFINE list == Append(buf.entries, e)
  <2>1. PICK th \in Callers : e \in Entries /\ (Add(th, e) \/ AddRaises(th, e))
    <3>1. offered' # offered
      OBVIOUS
    <3>2. PICK th \in Callers, x \in Entries : Add(th, x) \/ AddRaises(th, x)
      BY <1>1, <3>1 DEF Next, CallerStep, TimerStep, Flush, FlushRaises, Clear, Destroy,
                        Expire, TimerEnter, TimerLeave, KickStart, vars
    <3>3. e = x
      BY <3>2 DEF Add, AddRaises
    <3> QED
      BY <3>2, <3>3
  <2>2. e \in Entries /\ e \notin offered
    BY <2>1
  <2>3. buf.entries \in Seq(Entries) /\ Sound(buf) /\ Known(buf) \subseteq offered
    BY <1>1 DEF BufferInv, Sound, BufferType
  <2>4. /\ list \in Seq(Entries) /\ DOMAIN list = 1..Len(buf.entries) + 1 /\ Distinct(list)
        /\ \A k \in DOMAIN list : list[k] \notin buf.evicted
    <3>1. e \notin Known(buf) /\ Distinct(buf.entries)
      BY <2>2, <2>3 DEF Sound
    <3>2. /\ list \in Seq(Entries) /\ Len(list) = Len(buf.entries) + 1
          /\ Seqs!ToSet(list) = Elements(buf) \cup {e} /\ Distinct(list)
      BY <2>2, <2>3, <3>1, AppendElements DEF Elements, Known
    <3>3. Seqs!ToSet(list) \cap buf.evicted = {}
      BY <2>3, <3>1, <3>2 DEF Sound, Known
    <3> HIDE DEF list
    <3>4. DOMAIN list = 1..Len(buf.entries) + 1
      BY <3>2
    <3>5. \A k \in DOMAIN list : list[k] \in Seqs!ToSet(list)
      BY DEF Seqs!ToSet
    <3> QED
      BY <3>2, <3>3, <3>4, <3>5
  <2>5. buf' \in AddResults(e)
    <3>1. buf' # buf
      BY <2>4
    <3> QED
      BY <2>1, <3>1 DEF Add, AddRaises
  <2>6. PICK n \in 0..Len(buf.entries) + 1 :
           buf'.evicted = buf.evicted \cup {list[k] : k \in 1..n}
    BY <1>1, <2>2, <2>5, AddTakesOldest
  <2>7. /\ i \in DOMAIN list /\ j \in DOMAIN list
        /\ list[j] \in buf'.evicted
    OBVIOUS
  <2>8. Len(buf.entries) \in Nat
    BY <2>3
  <2> HIDE DEF list
  <2>9. PICK k \in 1..n : list[j] = list[k]
    BY <2>4, <2>6, <2>7
  <2>10. k \in DOMAIN list /\ i \in 1..n
    <3>1. k \in DOMAIN list
      BY <2>4, <2>8
    <3>2. j = k
      BY <2>4, <2>7, <2>9, <3>1 DEF Distinct
    <3> QED
      BY <2>4, <2>7, <2>8, <3>1, <3>2
  <2>11. list[i] \in buf'.evicted
    BY <2>6, <2>10
  <2> QED
    BY <2>11 DEF list
<1> QED
  BY <1>1, Invariant, PTL DEF Spec, OldestFirst
=============================================================================
