--------------------------- MODULE FileDlqProofs ---------------------------
(***************************************************************************)
(* Proofs about FileDlq for any number of entries of any kinds, any limits *)
(* and any sequence of starts, calls, crashes and unreadable files.        *)
(*                                                                         *)
(* All that shortens the queue leaves the newest of it, so the lemmas are  *)
(* about Newest, about what a start reads and about one entry appended.    *)
(* The properties are not inductive alone.  Between the truncation of the  *)
(* file and the end of write_text only the queue says what the file will   *)
(* hold: it must fit then, and it must account for all that the file held  *)
(* before, whatever add_batch calls came and raised since the start.       *)
(***************************************************************************)
EXTENDS FileDlq, CountingLemmas, FiniteSetTheorems, SequenceTheorems, TLAPS

(* In order of arrival. *)
Increasing(q) == \A i, j \in DOMAIN q : i < j => q[i] < q[j]

(* A list of entries in order, all among the first n that have arrived. *)
Ordered(q, n) == q \in Seq(Entries) /\ Increasing(q) /\ Elements(q) \subseteq 1..n

(* What an add_batch has let through until the file is complete. *)
QueueFits == process = "writing" => Bytes(queue) <= MaxBytes

(* The inductive invariant of the queue, the file and the counts. *)
FileInv ==
    /\ TypeOK
    /\ StorageBounded /\ QueueFits
    /\ DropsCounted
    /\ Up \/ queue = <<>>
    /\ Ordered(queue, arrived) /\ Ordered(file, arrived)

(* Entry e is in set S, or it is known how it was left out or lost. *)
AccountedFor(e, S) ==
    \/ e \in S \cup lost
    \/ e \in evicted /\ \A x \in S : x > e

(* While the process is up, its queue accounts for what was on disk. *)
MemoryAccounts ==
    Up => \A e \in persisted \ Of({"split"}) : AccountedFor(e, Elements(queue))

-----------------------------------------------------------------------------
(* Lists in order.                                                         *)

(* No entry stands twice in a list that is in order. *)
LEMMA OrderedIsDistinct ==
    ASSUME NEW q \in Seq(Entries), Increasing(q)
    PROVE  Distinct(q)
<1> SUFFICES ASSUME NEW i \in DOMAIN q, NEW j \in DOMAIN q, q[i] = q[j]
             PROVE  i = j
  BY DEF Distinct
<1>1. i \in Nat /\ j \in Nat /\ q[i] \in Int
  <2>1. i \in 1..Len(q) /\ j \in 1..Len(q) /\ Len(q) \in Nat
    OBVIOUS
  <2>2. q[i] \in Entries
    BY <2>1
  <2> QED
    BY <2>1, <2>2 DEF Entries
<1>2. ~(i < j) /\ ~(j < i)
  BY <1>1 DEF Increasing
<1> QED
  BY <1>1, <1>2

(* The newest n: the end of the list, no longer than n or the list. *)
LEMMA NewestOf ==
    ASSUME NEW q \in Seq(Entries), NEW n \in Nat
    PROVE  LET r == Newest(q, n)
           IN  /\ r \in Seq(Entries) /\ Len(r) <= n /\ Len(r) <= Len(q)
               /\ Len(q) <= n => r = q
               /\ Len(q) > n => Len(r) = n
               /\ \A i \in 1..Len(r) : r[i] = q[Len(q) - Len(r) + i]
               /\ Elements(r) \subseteq Elements(q)
               /\ Increasing(q) => Increasing(r)
<1> DEFINE r == Newest(q, n)
<1>1. Len(q) \in Nat /\ DOMAIN q = 1..Len(q)
  OBVIOUS
<1>2. CASE Len(q) <= n
  <2>1. r = q
    BY <1>2 DEF Newest
  <2>2. /\ Len(q) <= n /\ ~(Len(q) > n) /\ Len(q) <= Len(q)
        /\ \A i \in 1..Len(q) : q[i] = q[Len(q) - Len(q) + i]
    BY <1>1, <1>2
  <2> HIDE DEF r
  <2>3. /\ r \in Seq(Entries) /\ Len(r) <= n /\ Len(r) <= Len(q)
        /\ \A i \in 1..Len(r) : r[i] = q[Len(q) - Len(r) + i]
        /\ Elements(r) \subseteq Elements(q)
        /\ Increasing(q) => Increasing(r)
    BY <2>1, <2>2
  <2> QED
    BY <2>1, <2>2, <2>3 DEF r
<1>3. CASE ~(Len(q) <= n)
  <2>1. r = SubSeq(q, Len(q) - n + 1, Len(q))
    BY <1>3 DEF Newest
  <2>2. Len(q) > n
    BY <1>1, <1>3
  <2> DEFINE old == Len(q) - n
  <2>3. old \in 0..Len(q) /\ Len(q) - old = n
    BY <1>1, <2>2
  <2> HIDE DEF r, old
  <2>4. r = SubSeq(q, old + 1, Len(q))
    BY <2>1 DEF old
  <2>5. /\ r \in Seq(Entries) /\ Len(r) = n /\ \A i \in 1..n : r[i] = q[old + i]
        /\ Elements(r) \subseteq Elements(q)
    <3>1. LET z == SubSeq(q, old + 1, Len(q))
          IN  /\ z \in Seq(Entries) /\ Len(z) = Len(q) - old
              /\ \A i \in 1..Len(q) - old : z[i] = q[old + i]
              /\ Seqs!ToSet(z) \subseteq Seqs!ToSet(q)
      BY <2>3, SplitElements
    <3> QED
      BY <2>3, <2>4, <3>1 DEF Elements
  <2>6. DOMAIN r = 1..n /\ \A i \in 1..n : old + i \in 1..Len(q)
    BY <1>1, <2>3, <2>5
  <2>7. ASSUME Increasing(q) PROVE Increasing(r)
    <3> SUFFICES ASSUME NEW i \in 1..n, NEW j \in 1..n, i < j PROVE r[i] < r[j]
      BY <2>6 DEF Increasing
    <3>1. old + i \in DOMAIN q /\ old + j \in DOMAIN q /\ old + i < old + j
      BY <1>1, <2>3, <2>6
    <3>2. q[old + i] < q[old + j]
      BY <2>7, <3>1 DEF Increasing
    <3> QED
      BY <2>5, <3>2
  <2>8. \A i \in 1..n : r[i] = q[Len(q) - Len(r) + i]
    BY <2>5 DEF old
  <2> QED
    BY <1>1, <2>2, <2>5, <2>7, <2>8 DEF r
<1> QED
  BY <1>2, <1>3

(* A list in order stays so. *)
LEMMA NewestOrdered ==
    ASSUME NEW k \in Nat, NEW q, Ordered(q, k), NEW n \in Nat
    PROVE  Ordered(Newest(q, n), k) /\ Len(Newest(q, n)) <= n /\ Len(Newest(q, n)) <= Len(q)
<1>1. q \in Seq(Entries) /\ Increasing(q) /\ Elements(q) \subseteq 1..k
  BY DEF Ordered
<1>2. /\ Newest(q, n) \in Seq(Entries) /\ Len(Newest(q, n)) <= n /\ Len(Newest(q, n)) <= Len(q)
      /\ Elements(Newest(q, n)) \subseteq Elements(q) /\ Increasing(Newest(q, n))
  BY <1>1, NewestOf
<1> QED
  BY <1>1, <1>2 DEF Ordered

(* The newest n leave out only older entries, and only when there are n.   *)
LEMMA NewestLeavesOlder ==
    ASSUME NEW q \in Seq(Entries), Increasing(q), NEW n \in Nat,
           NEW e \in Elements(q), e \notin Elements(Newest(q, n))
    PROVE  Len(Newest(q, n)) = n /\ \A x \in Elements(Newest(q, n)) : x > e
<1> DEFINE r == Newest(q, n)
<1>1. /\ r \in Seq(Entries) /\ Len(r) <= Len(q)
      /\ Len(q) <= n => r = q
      /\ Len(q) > n => Len(r) = n
      /\ \A i \in 1..Len(r) : r[i] = q[Len(q) - Len(r) + i]
  BY NewestOf
<1> HIDE DEF r
<1>2. e \notin Elements(r)
  BY DEF r
<1>3. Len(r) \in Nat /\ Len(q) \in Nat /\ DOMAIN r = 1..Len(r) /\ DOMAIN q = 1..Len(q)
  BY <1>1
<1>4. Len(r) = n
  <2>1. r # q
    BY <1>2
  <2>2. ~(Len(q) <= n)
    BY <1>1, <2>1
  <2>3. Len(q) > n
    BY <1>3, <2>2
  <2> QED
    BY <1>1, <2>3
<1>5. PICK k \in 1..Len(q) : q[k] = e
  BY <1>3 DEF Elements, Seqs!ToSet
<1>6. k <= Len(q) - Len(r)
  <2> SUFFICES ASSUME k > Len(q) - Len(r) PROVE FALSE
    BY <1>3
  <2> DEFINE i == k - (Len(q) - Len(r))
  <2>1. i \in 1..Len(r) /\ Len(q) - Len(r) + i = k
    BY <1>3
  <2> HIDE DEF i
  <2>2. r[i] = e
    BY <1>1, <1>5, <2>1
  <2> QED
    BY <1>2, <1>3, <2>1, <2>2 DEF Elements, Seqs!ToSet
<1>7. ASSUME NEW x \in Elements(r) PROVE x > e
  <2>1. PICK i \in 1..Len(r) : r[i] = x
    BY <1>3 DEF Elements, Seqs!ToSet
  <2> DEFINE j == Len(q) - Len(r) + i
  <2>2. j \in 1..Len(q) /\ k < j
    <3>1. Len(r) <= Len(q)
      BY <1>1
    <3> QED
      BY <1>3, <1>6, <3>1
  <2>3. q[j] = x
    BY <1>1, <2>1
  <2> HIDE DEF j
  <2>4. q[k] < q[j]
    BY <1>3, <2>2 DEF Increasing
  <2>5. e \in Int /\ x \in Int
    <3>1. q[k] \in Entries /\ q[j] \in Entries
      BY <2>2
    <3> QED
      BY <1>5, <2>3, <3>1 DEF Entries
  <2> QED
    BY <1>5, <2>3, <2>4, <2>5
<1> QED
  BY <1>4, <1>7 DEF r

(* What is left out of a list in order is older than all that stays. *)
LEMMA CutOrdered ==
    ASSUME NEW k \in Nat, NEW q, Ordered(q, k), NEW n \in 0..Len(q)
    PROVE  LET r == Newest(q, n)
           IN  /\ Ordered(r, k) /\ Len(r) = n
               /\ Elements(r) \subseteq Elements(q)
               /\ \A e \in Elements(q) \ Elements(r) : \A x \in Elements(r) : x > e
<1> DEFINE r == Newest(q, n)
<1>1. q \in Seq(Entries) /\ Increasing(q) /\ Elements(q) \subseteq 1..k
  BY DEF Ordered
<1>2. Len(q) \in Nat /\ n \in Nat /\ n <= Len(q)
  BY <1>1
<1>3. /\ r \in Seq(Entries)
      /\ Len(q) <= n => r = q
      /\ Len(q) > n => Len(r) = n
      /\ Elements(r) \subseteq Elements(q) /\ Increasing(r)
  BY <1>1, <1>2, NewestOf
<1>4. \A e \in Elements(q) \ Elements(r) : \A x \in Elements(r) : x > e
  BY <1>1, <1>2, NewestLeavesOlder
<1> HIDE DEF r
<1>5. Len(r) = n
  BY <1>2, <1>3
<1>6. Ordered(r, k)
  BY <1>1, <1>3 DEF Ordered
<1> QED
  BY <1>3, <1>4, <1>5, <1>6 DEF r

(* pop(0) leaves the newest but one. *)
LEMMA TailOrdered ==
    ASSUME NEW k \in Nat, NEW q, Ordered(q, k), q # <<>>
    PROVE  /\ Ordered(Tail(q), k) /\ Len(Tail(q)) = Len(q) - 1
           /\ Elements(Tail(q)) \subseteq Elements(q)
           /\ \A e \in Elements(q) \ Elements(Tail(q)) : \A x \in Elements(Tail(q)) : x > e
<1>1. q \in Seq(Entries)
  BY DEF Ordered
<1>2. Tail(q) = SubSeq(q, 2, Len(q))
  BY <1>1, TailIsSubSeq
<1>3. Len(q) \in Nat /\ Len(q) # 0
  BY <1>1, EmptySeq
<1> DEFINE n == Len(q) - 1
<1>4. n \in 0..Len(q) /\ ~(Len(q) <= n) /\ Len(q) - n + 1 = 2
  BY <1>3
<1>5. Tail(q) = Newest(q, n)
  BY <1>2, <1>4 DEF Newest
<1> HIDE DEF n
<1>6. LET r == Newest(q, n)
      IN  /\ Ordered(r, k) /\ Len(r) = n
          /\ Elements(r) \subseteq Elements(q)
          /\ \A e \in Elements(q) \ Elements(r) : \A x \in Elements(r) : x > e
  BY <1>4, CutOrdered
<1> QED
  BY <1>5, <1>6 DEF n

(* The next entry to arrive is newer than all of the list. *)
LEMMA AppendOrdered ==
    ASSUME NEW k \in Nat, k + 1 \in Entries, NEW q, Ordered(q, k)
    PROVE  LET r == Append(q, k + 1)
           IN  /\ Ordered(r, k + 1) /\ Len(r) = Len(q) + 1
               /\ Elements(r) = Elements(q) \cup {k + 1}
<1> DEFINE r == Append(q, k + 1)
<1>1. q \in Seq(Entries) /\ Increasing(q) /\ Elements(q) \subseteq 1..k
  BY DEF Ordered
<1>2. /\ r \in Seq(Entries) /\ Len(r) = Len(q) + 1
      /\ Elements(r) = Elements(q) \cup {k + 1}
  BY <1>1, AppendElements DEF Elements
<1>3. /\ \A i \in 1..Len(q) : r[i] = q[i]
      /\ r[Len(q) + 1] = k + 1
      /\ DOMAIN q = 1..Len(q) /\ Len(q) \in Nat
  BY <1>1
<1> HIDE DEF r
<1>4. DOMAIN r = 1..Len(q) + 1
  BY <1>2, <1>3
<1>5. Increasing(r)
  <2> SUFFICES ASSUME NEW i \in DOMAIN r, NEW j \in DOMAIN r, i < j
               PROVE  r[i] < r[j]
    BY DEF Increasing
  <2>1. i \in 1..Len(q)
    BY <1>3, <1>4
  <2>2. CASE j \in 1..Len(q)
    <3>1. q[i] < q[j]
      BY <1>1, <1>3, <2>1, <2>2 DEF Increasing
    <3> QED
      BY <1>3, <2>1, <2>2, <3>1
  <2>3. CASE j = Len(q) + 1
    <3>1. q[i] \in Elements(q)
      BY <1>3, <2>1 DEF Elements, Seqs!ToSet
    <3>2. q[i] \in 1..k
      BY <1>1, <3>1
    <3> QED
      BY <1>3, <2>1, <2>3, <3>2
  <2> QED
    BY <1>3, <1>4, <2>2, <2>3
<1>6. Elements(r) \subseteq 1..k + 1
  BY <1>1, <1>2
<1> QED
  BY <1>2, <1>5, <1>6 DEF Ordered, r

(* A part of the lines takes up no more of the file than all of them. *)
LEMMA FewerBytes ==
    ASSUME kind \in [Entries -> Kinds], NEW q \in Seq(Entries), NEW r \in Seq(Entries),
           Elements(r) \subseteq Elements(q)
    PROVE  Bytes(r) <= Bytes(q) /\ Bytes(q) \in Nat /\ Bytes(r) \in Nat
<1>1. \A e \in Entries : LineBytes[e] \in Nat
  BY MaxBytesAssumption DEF LineBytes
<1>2. Elements(q) \subseteq Entries /\ Elements(r) \subseteq Entries
  BY DEF Elements, Seqs!ToSet
<1>3. IsFiniteSet(Elements(q)) /\ IsFiniteSet(Elements(r))
  BY ElementsFinite DEF Elements
<1>4. \A e \in Elements(q) \cup Elements(r) : LineBytes[e] \in Nat
  BY <1>1, <1>2
<1>5. TotalOf(LineBytes, Elements(q)) \in Nat /\ TotalOf(LineBytes, Elements(r)) \in Nat
  BY <1>3, <1>4, TotalType
<1>6. TotalOf(LineBytes, Elements(r)) <= TotalOf(LineBytes, Elements(q))
  BY <1>3, <1>4, SubtotalAtMost
<1> QED
  BY <1>5, <1>6 DEF Bytes

(* What write_text has left of the file when it is cut short. *)
LEMMA TornPrefix ==
    ASSUME FileInv, process = "writing", Torn
    PROVE  /\ Ordered(file', arrived) /\ Bytes(file') <= MaxBytes
           /\ tail' \in {"none", "torn", "half_character"}
           /\ lost' = lost \cup (Elements(queue) \ Readable')
           /\ Elements(file') \subseteq Elements(queue)
<1>1. PICK n \in 0..Len(queue) :
         /\ file' = SubSeq(queue, 1, n)
         /\ tail' \in IF n = Len(queue) THEN {"none"} ELSE {"none", "torn", "half_character"}
  BY DEF Torn
<1>2. /\ queue \in Seq(Entries) /\ Increasing(queue) /\ Elements(queue) \subseteq 1..arrived
      /\ Bytes(queue) <= MaxBytes /\ kind \in [Entries -> Kinds]
  BY DEF FileInv, TypeOK, Ordered, QueueFits
<1>3. /\ file' \in Seq(Entries) /\ Len(file') = n
      /\ \A i \in 1..n : file'[i] = queue[i]
      /\ Elements(file') \subseteq Elements(queue)
  BY <1>1, <1>2, SplitElements DEF Elements
<1>4. DOMAIN file' = 1..n /\ DOMAIN queue = 1..Len(queue)
  BY <1>2, <1>3
<1>5. Increasing(file')
  BY <1>2, <1>3, <1>4 DEF Increasing
<1>6. Bytes(file') <= Bytes(queue) /\ Bytes(file') \in Nat /\ Bytes(queue) \in Nat
  BY <1>2, <1>3, FewerBytes
<1>7. Bytes(file') <= MaxBytes
  BY <1>2, <1>6, MaxBytesAssumption
<1>8. tail' \in {"none", "torn", "half_character"}
  BY <1>1
<1>9. lost' = lost \cup (Elements(queue) \ Readable')
  BY DEF Torn
<1> QED
  BY <1>2, <1>3, <1>5, <1>7, <1>8, <1>9 DEF Ordered, Elements

(* What is in order among few entries is so among more. *)
LEMMA OrderedLater ==
    ASSUME NEW q, NEW m \in Nat, NEW n \in Nat, m <= n, Ordered(q, m)
    PROVE  Ordered(q, n)
<1>1. 1..m \subseteq 1..n
  OBVIOUS
<1> QED
  BY <1>1 DEF Ordered

(* What a start reads is in order. *)
LEMMA ReadInOrder ==
    ASSUME FileInv, NEW valid \in Sublists(file)
    PROVE  Ordered(valid, arrived)
<1>1. file \in Seq(Entries) /\ Increasing(file) /\ Elements(file) \subseteq 1..arrived
  BY DEF FileInv, Ordered
<1>2. /\ valid \in Seq(Entries) /\ Elements(valid) \subseteq Elements(file)
  BY <1>1, OrderedIsDistinct, SublistElements DEF Elements
<1>3. Increasing(valid)
  <2> SUFFICES ASSUME NEW i \in DOMAIN valid, NEW j \in DOMAIN valid, i < j
               PROVE  valid[i] < valid[j]
    BY DEF Increasing
  <2>1. Precedes(file, valid[i], valid[j])
    BY DEF Sublists
  <2> QED
    BY <1>1, <2>1 DEF Precedes, Increasing
<1> QED
  BY <1>1, <1>2, <1>3 DEF Ordered

-----------------------------------------------------------------------------
(* The inductive invariant.                                                *)

(* What a step must leave as it is, or make anew, to keep it. *)
LEMMA StepKeeps ==
    ASSUME FileInv, kind' = kind,
           process' \in {"down", "broken", "idle", "adding", "writing"},
           maxSize' \in MaxSizes,
           tail' \in {"none", "torn", "half_character"},
           arrived' \in 0..MaxEntries, batchEnd' \in 0..MaxEntries,
           dropped' \in Nat, taken' \in Nat, cleared' \in Nat,
           Ordered(queue', arrived'), Ordered(file', arrived'),
           Len(queue') <= maxSize', Bytes(file') <= MaxBytes,
           process' = "writing" => Bytes(queue') <= MaxBytes,
           process' \notin {"down", "broken"} => taken' = Len(queue') + dropped' + cleared',
           process' \notin {"down", "broken"} \/ queue' = <<>>,
           persisted' \cup evicted' \cup lost' \subseteq 1..arrived'
    PROVE  FileInv'
<1>1. kind' \in [Entries -> Kinds]
  BY DEF FileInv, TypeOK
<1>2. queue' \in Seq(Entries) /\ file' \in Seq(Entries)
  BY DEF Ordered
<1>3. TypeOK'
  BY <1>1, <1>2 DEF TypeOK
<1>4. Bytes(file)' = Bytes(file') /\ Bytes(queue)' = Bytes(queue')
  <2>1. LineBytes' = LineBytes
    BY DEF LineBytes
  <2> QED
    BY <2>1 DEF Bytes
<1>5. StorageBounded' /\ QueueFits'
  BY <1>4 DEF StorageBounded, QueueFits
<1>6. DropsCounted' /\ (Up \/ queue = <<>>)'
  BY DEF DropsCounted, Up
<1>7. Ordered(queue, arrived)' /\ Ordered(file, arrived)'
  BY DEF Ordered, Increasing, Elements
<1> QED
  BY <1>3, <1>5, <1>6, <1>7 DEF FileInv

(* An empty list is in order and takes up nothing. *)
LEMMA EmptyList ==
    /\ \A n : Ordered(<<>>, n)
    /\ Len(<<>>) = 0 /\ Bytes(<<>>) = 0 /\ Elements(<<>>) = {}
    /\ \A n \in MaxSizes : 0 <= n
    /\ 0 <= MaxBytes
<1>1. \A n : Ordered(<<>>, n)
  BY DEF Ordered, Increasing, Elements, Seqs!ToSet
<1>2. Elements(<<>>) = {}
  BY DEF Elements, Seqs!ToSet
<1>3. Bytes(<<>>) = 0
  <2>1. Units(LineBytes, Elements(<<>>)) = {}
    BY DEF Units, Elements, Seqs!ToSet
  <2> QED
    BY <2>1, FS_EmptySet DEF Bytes, TotalOf
<1> QED
  BY <1>1, <1>2, <1>3, MaxSizesAssumption, MaxBytesAssumption

LEMMA FileInit ==
    ASSUME Init PROVE FileInv
<1>1. /\ kind \in [Entries -> Kinds] /\ process = "down" /\ maxSize \in MaxSizes
      /\ queue = <<>> /\ dropped = 0 /\ batchEnd = 0 /\ file = <<>> /\ tail = "none"
      /\ arrived = 0 /\ taken = 0 /\ cleared = 0
      /\ persisted = {} /\ evicted = {} /\ lost = {}
  BY DEF Init
<1>2. TypeOK
  BY <1>1, MaxEntriesAssumption DEF TypeOK
<1>3. StorageBounded /\ QueueFits /\ DropsCounted
  BY <1>1, EmptyList DEF StorageBounded, QueueFits, DropsCounted, Up
<1> QED
  BY <1>1, <1>2, <1>3, EmptyList DEF FileInv

(* What the steps start from. *)
LEMMA FileFacts ==
    ASSUME FileInv
    PROVE  /\ kind \in [Entries -> Kinds] /\ maxSize \in MaxSizes
           /\ maxSize \in Nat /\ maxSize > 0
           /\ process \in {"down", "broken", "idle", "adding", "writing"}
           /\ tail \in {"none", "torn", "half_character"}
           /\ arrived \in 0..MaxEntries /\ batchEnd \in 0..MaxEntries /\ arrived \in Nat
           /\ dropped \in Nat /\ taken \in Nat /\ cleared \in Nat
           /\ Ordered(queue, arrived) /\ Ordered(file, arrived)
           /\ queue \in Seq(Entries) /\ Increasing(queue)
           /\ Len(queue) <= maxSize /\ Len(queue) \in Nat /\ Bytes(file) <= MaxBytes
           /\ process = "writing" => Bytes(queue) <= MaxBytes
           /\ process \notin {"down", "broken"} => taken = Len(queue) + dropped + cleared
           /\ process \notin {"down", "broken"} \/ queue = <<>>
           /\ persisted \subseteq 1..arrived /\ evicted \subseteq 1..arrived
           /\ lost \subseteq 1..arrived
           /\ Elements(queue) \subseteq 1..arrived /\ Elements(file) \subseteq 1..arrived
           /\ Readable \subseteq Elements(file)
<1>1. /\ queue \in Seq(Entries) /\ Increasing(queue)
      /\ Elements(queue) \subseteq 1..arrived /\ Elements(file) \subseteq 1..arrived
  BY DEF FileInv, Ordered
<1>2. Len(queue) \in Nat
  BY <1>1
<1>3. maxSize \in Nat /\ maxSize > 0 /\ arrived \in Nat
  BY MaxSizesAssumption, MaxEntriesAssumption DEF FileInv, TypeOK
<1> QED
  BY <1>1, <1>2, <1>3 DEF FileInv, TypeOK, StorageBounded, QueueFits, DropsCounted, Up,
                          Readable

(* What a start takes from the file. *)
LEMMA LoadEffect ==
    ASSUME FileInv, Start, tail # "half_character"
    PROVE  /\ process' = "idle"
           /\ Ordered(queue', arrived) /\ Len(queue') <= maxSize'
           /\ dropped' \in Nat /\ taken' \in Nat /\ cleared' \in Nat
           /\ taken' = Len(queue') + dropped' + cleared'
           /\ evicted' = (evicted \cup Readable) \ Elements(queue')
           /\ lost' = lost \ Readable
           /\ Elements(queue') \subseteq Readable
           /\ \A e \in Readable \ Elements(queue') : \A x \in Elements(queue') : x > e
<1>1. PICK valid \in Sublists(file) :
         /\ Elements(valid) = Readable
         /\ process' = "idle" /\ queue' = Loaded(valid, maxSize')
         /\ dropped' = Excess(valid, maxSize') /\ taken' = Len(valid) /\ cleared' = 0
         /\ evicted' = (evicted \cup Readable) \ Elements(queue')
         /\ lost' = lost \ Readable
  BY DEF Start
<1>2. Ordered(valid, arrived) /\ valid \in Seq(Entries) /\ Len(valid) \in Nat
  <2>1. Ordered(valid, arrived)
    BY ReadInOrder
  <2>2. valid \in Seq(Entries)
    BY <2>1 DEF Ordered
  <2> QED
    BY <2>1, <2>2
<1>3. arrived \in Nat /\ maxSize' \in Nat
  BY MaxSizesAssumption, FileFacts DEF Start
<1> DEFINE n == IF Len(valid) <= maxSize' THEN Len(valid) ELSE maxSize'
<1>4. n \in 0..Len(valid) /\ n <= maxSize' /\ Excess(valid, maxSize') = Len(valid) - n
  BY <1>2, <1>3 DEF Excess
<1>5. queue' = Newest(valid, n)
  BY <1>1, <1>2, <1>3 DEF Loaded, Newest
<1> HIDE DEF n
<1>6. LET r == Newest(valid, n)
      IN  /\ Ordered(r, arrived) /\ Len(r) = n
          /\ Elements(r) \subseteq Elements(valid)
          /\ \A e \in Elements(valid) \ Elements(r) : \A x \in Elements(r) : x > e
  BY <1>2, <1>3, <1>4, CutOrdered
<1>7. Len(queue') = n /\ dropped' = Len(valid) - n
  BY <1>1, <1>4, <1>5, <1>6
<1>8. /\ Len(queue') <= maxSize' /\ dropped' \in Nat
      /\ taken' = Len(queue') + dropped' + cleared'
  BY <1>1, <1>2, <1>4, <1>7
<1> QED
  BY <1>1, <1>2, <1>5, <1>6, <1>8

(* What the loop of add_batch does with one entry. *)
LEMMA PushEffect ==
    ASSUME FileInv, AddNext
    PROVE  /\ arrived + 1 \in Entries /\ arrived + 1 \in 0..MaxEntries
           /\ Ordered(queue', arrived + 1) /\ Len(queue') <= maxSize
           /\ dropped' \in Nat /\ Len(queue') + dropped' = Len(queue) + dropped + 1
           /\ Elements(queue') \subseteq Elements(queue) \cup {arrived + 1}
           /\ \A e \in Elements(queue) \ Elements(queue') : \A x \in Elements(queue') : x > e
<1> USE FileFacts
<1>1. /\ arrived' = arrived + 1 /\ Pushed(arrived') /\ process = "adding"
      /\ arrived < batchEnd
  BY DEF AddNext
<1>2. arrived + 1 \in Entries /\ arrived + 1 \in 0..MaxEntries
  BY <1>1, MaxEntriesAssumption DEF Entries
<1>3. CASE Len(queue) >= maxSize
  <2>1. queue' = Append(Tail(queue), arrived + 1) /\ dropped' = dropped + 1
    BY <1>1, <1>3 DEF Pushed
  <2>2. queue # <<>>
    BY <1>3, EmptyList
  <2>3. /\ Ordered(Tail(queue), arrived) /\ Len(Tail(queue)) = Len(queue) - 1
        /\ Elements(Tail(queue)) \subseteq Elements(queue)
        /\ \A e \in Elements(queue) \ Elements(Tail(queue)) :
              \A x \in Elements(Tail(queue)) : x > e
    BY <2>2, TailOrdered
  <2>4. /\ Ordered(queue', arrived + 1) /\ Len(queue') = Len(Tail(queue)) + 1
        /\ Elements(queue') = Elements(Tail(queue)) \cup {arrived + 1}
    BY <1>2, <2>1, <2>3, AppendOrdered
  <2>5. \A e \in Elements(queue) : arrived + 1 > e
    OBVIOUS
  <2>6. Len(queue') = Len(queue)
    <3>1. Len(queue) \in Nat
      OBVIOUS
    <3> QED
      BY <2>3, <2>4, <3>1
  <2>7. /\ Len(queue') <= maxSize /\ dropped' \in Nat
        /\ Len(queue') + dropped' = Len(queue) + dropped + 1
    <3>1. Len(queue) \in Nat /\ Len(queue) <= maxSize /\ maxSize \in Nat /\ dropped \in Nat
      OBVIOUS
    <3>2. dropped' = dropped + 1
      BY <2>1
    <3> HIDE FileFacts
    <3> QED
      BY <2>6, <3>1, <3>2
  <2>8. \A e \in Elements(queue) \ Elements(queue') : \A x \in Elements(queue') : x > e
    BY <2>3, <2>4, <2>5
  <2> QED
    BY <1>2, <2>3, <2>4, <2>7, <2>8
<1>4. CASE ~(Len(queue) >= maxSize)
  <2>1. queue' = Append(queue, arrived + 1) /\ dropped' = dropped
    BY <1>1, <1>4 DEF Pushed
  <2>2. /\ Ordered(queue', arrived + 1) /\ Len(queue') = Len(queue) + 1
        /\ Elements(queue') = Elements(queue) \cup {arrived + 1}
    BY <1>2, <2>1, AppendOrdered
  <2>3. Len(queue) \in Nat /\ maxSize \in Nat /\ dropped \in Nat
    OBVIOUS
  <2>4. Len(queue') <= maxSize /\ Len(queue') + dropped' = Len(queue) + dropped + 1
    BY <1>4, <2>1, <2>2, <2>3
  <2> QED
    BY <1>2, <2>1, <2>2, <2>4
<1> QED
  BY <1>3, <1>4

(* What halving does to the queue. *)
LEMMA HalveEffect ==
    ASSUME FileInv, Halve
    PROVE  /\ Ordered(queue', arrived) /\ Len(queue') <= maxSize
           /\ dropped' \in Nat /\ Len(queue') + dropped' = Len(queue) + dropped
           /\ Elements(queue') \subseteq Elements(queue)
           /\ \A e \in Elements(queue) \ Elements(queue') : \A x \in Elements(queue') : x > e
<1> USE FileFacts
<1> DEFINE half == Len(queue) \div 2
<1>1. half \in 0..Len(queue)
  OBVIOUS
<1>2. queue' = Newest(queue, half) /\ dropped' = dropped + Len(queue) - half
  BY DEF Halve, Halved
<1> HIDE DEF half
<1>3. LET r == Newest(queue, half)
      IN  /\ Ordered(r, arrived) /\ Len(r) = half
          /\ Elements(r) \subseteq Elements(queue)
          /\ \A e \in Elements(queue) \ Elements(r) : \A x \in Elements(r) : x > e
  BY <1>1, CutOrdered
<1>4. Len(queue') = half
  BY <1>2, <1>3
<1>5. /\ Len(queue') <= maxSize /\ dropped' \in Nat
      /\ Len(queue') + dropped' = Len(queue) + dropped
  BY <1>1, <1>2, <1>4, SMTT(20)
<1> QED
  BY <1>2, <1>3, <1>5

LEMMA StartStep ==
    ASSUME FileInv, Start PROVE FileInv'
<1> USE FileFacts
<1>1. /\ process = "down" /\ maxSize' \in MaxSizes /\ queue = <<>>
      /\ kind' = kind /\ file' = file /\ tail' = tail /\ arrived' = arrived
      /\ batchEnd' = batchEnd /\ persisted' = persisted
  BY DEF Start
<1>2. CASE tail = "half_character"
  <2>1. /\ process' = "broken" /\ queue' = queue /\ dropped' = dropped
        /\ taken' = taken /\ cleared' = cleared /\ evicted' = evicted /\ lost' = lost
    BY <1>2 DEF Start, counts
  <2>2. Len(queue') <= maxSize'
    BY <1>1, <2>1, EmptyList
  <2> QED
    BY <1>1, <2>1, <2>2, StepKeeps
<1>3. CASE tail # "half_character"
  <2>1. /\ process' = "idle" /\ Ordered(queue', arrived) /\ Len(queue') <= maxSize'
        /\ dropped' \in Nat /\ taken' \in Nat /\ cleared' \in Nat
        /\ taken' = Len(queue') + dropped' + cleared'
        /\ evicted' \subseteq evicted \cup Readable /\ lost' \subseteq lost
    BY <1>3, LoadEffect
  <2> QED
    BY <1>1, <2>1, StepKeeps
<1> QED
  BY <1>2, <1>3

LEMMA AddNextStep ==
    ASSUME FileInv, AddNext PROVE FileInv'
<1> USE FileFacts
<1>1. /\ process = "adding" /\ process' = process /\ kind' = kind /\ maxSize' = maxSize
      /\ arrived' = arrived + 1 /\ taken' = taken + 1 /\ cleared' = cleared
      /\ batchEnd' = batchEnd /\ file' = file /\ tail' = tail
      /\ persisted' = persisted /\ lost' = lost
      /\ evicted' = evicted \cup (Elements(queue) \ Elements(queue'))
  BY DEF AddNext
<1>2. /\ arrived + 1 \in 0..MaxEntries /\ Ordered(queue', arrived + 1)
      /\ Len(queue') <= maxSize /\ dropped' \in Nat
      /\ Len(queue') + dropped' = Len(queue) + dropped + 1
  BY PushEffect
<1>3. Len(queue') \in Nat
  <2>1. queue' \in Seq(Entries)
    BY <1>2 DEF Ordered
  <2> QED
    BY <2>1
<1>4. taken' \in Nat /\ taken' = Len(queue') + dropped' + cleared'
  <2>1. /\ taken = Len(queue) + dropped + cleared /\ taken \in Nat /\ cleared \in Nat
        /\ Len(queue) \in Nat /\ dropped \in Nat
    BY <1>1
  <2>2. taken' = taken + 1 /\ cleared' = cleared
    BY <1>1
  <2>3. dropped' \in Nat /\ Len(queue') + dropped' = Len(queue) + dropped + 1
    BY <1>2
  <2> QED
    BY <1>3, <2>1, <2>2, <2>3
<1>5. Ordered(file', arrived') /\ 1..arrived \subseteq 1..arrived'
  BY <1>1, OrderedLater
<1>6. persisted' \cup evicted' \cup lost' \subseteq 1..arrived'
  BY <1>1, <1>5
<1> QED
  BY <1>1, <1>2, <1>4, <1>5, <1>6, StepKeeps

LEMMA FileStep ==
    ASSUME FileInv, [Next]_vars PROVE FileInv'
<1> USE FileFacts
<1>1. ASSUME StartUnreadable PROVE FileInv'
  <2>1. /\ process' = "idle" /\ queue' = <<>> /\ dropped' = 0 /\ taken' = 0 /\ cleared' = 0
        /\ kind' = kind /\ file' = file /\ tail' = tail /\ batchEnd' = batchEnd
        /\ arrived' = arrived /\ maxSize' \in MaxSizes
        /\ persisted' = persisted /\ evicted' = evicted /\ lost' = lost \cup Elements(file)
    BY <1>1 DEF StartUnreadable
  <2>2. Ordered(queue', arrived') /\ Len(queue') = 0 /\ Len(queue') <= maxSize'
    BY <2>1, EmptyList
  <2> QED
    BY <2>1, <2>2, StepKeeps
<1>2. ASSUME AddBatch PROVE FileInv'
  <2>1. /\ process = "idle" /\ process' = "adding" /\ batchEnd' \in arrived + 1..MaxEntries
        /\ kind' = kind /\ maxSize' = maxSize /\ queue' = queue /\ file' = file
        /\ tail' = tail /\ arrived' = arrived /\ dropped' = dropped /\ taken' = taken
        /\ cleared' = cleared /\ persisted' = persisted /\ evicted' = evicted /\ lost' = lost
    BY <1>2 DEF AddBatch, counts, history
  <2>2. batchEnd' \in 0..MaxEntries
    BY <2>1, MaxEntriesAssumption
  <2> QED
    BY <2>1, <2>2, StepKeeps
<1>3. ASSUME Halve PROVE FileInv'
  <2>1. /\ process = "adding" /\ process' = process /\ kind' = kind /\ maxSize' = maxSize
        /\ batchEnd' = batchEnd /\ file' = file /\ tail' = tail /\ arrived' = arrived
        /\ taken' = taken /\ cleared' = cleared /\ persisted' = persisted /\ lost' = lost
        /\ evicted' = evicted \cup (Elements(queue) \ Elements(queue'))
    BY <1>3 DEF Halve, Persisting
  <2>2. /\ Ordered(queue', arrived) /\ Len(queue') <= maxSize /\ dropped' \in Nat
        /\ Len(queue') + dropped' = Len(queue) + dropped
    BY <1>3, HalveEffect
  <2>3. Len(queue') \in Nat
    <3>1. queue' \in Seq(Entries)
      BY <2>2 DEF Ordered
    <3> QED
      BY <3>1
  <2>4. taken' = Len(queue') + dropped' + cleared'
    BY <2>1, <2>2, <2>3
  <2>5. persisted' \cup evicted' \cup lost' \subseteq 1..arrived'
    BY <2>1
  <2> QED
    BY <2>1, <2>2, <2>4, <2>5, StepKeeps
<1>4. ASSUME PersistRaises PROVE FileInv'
  <2>1. /\ process = "adding" /\ process' = "idle" /\ kind' = kind /\ maxSize' = maxSize
        /\ queue' = queue /\ batchEnd' = batchEnd /\ file' = file /\ tail' = tail
        /\ arrived' = arrived /\ dropped' = dropped /\ taken' = taken /\ cleared' = cleared
        /\ persisted' = persisted /\ evicted' = evicted /\ lost' = lost
    BY <1>4 DEF PersistRaises, Persisting, counts, history
  <2> QED
    BY <2>1, StepKeeps
<1>5. ASSUME Truncate PROVE FileInv'
  <2>1. /\ process = "adding" /\ process' = "writing" /\ kind' = kind /\ maxSize' = maxSize
        /\ queue' = queue /\ batchEnd' = batchEnd /\ file' = <<>> /\ tail' = "none"
        /\ arrived' = arrived /\ dropped' = dropped /\ taken' = taken /\ cleared' = cleared
        /\ persisted' = persisted /\ evicted' = evicted /\ lost' = lost
        /\ Bytes(queue) <= MaxBytes
    BY <1>5 DEF Truncate, Persisting, counts, history
  <2>2. Ordered(file', arrived') /\ Bytes(file') <= MaxBytes
    BY <2>1, EmptyList
  <2> QED
    BY <2>1, <2>2, StepKeeps
<1>6. ASSUME Written PROVE FileInv'
  <2>1. /\ process = "writing" /\ process' = "idle" /\ file' = queue
        /\ kind' = kind /\ maxSize' = maxSize /\ queue' = queue /\ dropped' = dropped
        /\ tail' = tail /\ arrived' = arrived /\ taken' = taken /\ cleared' = cleared
        /\ batchEnd' = batchEnd /\ persisted' = persisted \cup Elements(queue)
        /\ evicted' = evicted /\ lost' = lost \ Elements(queue)
    BY <1>6 DEF Written, counts
  <2>2. persisted' \cup evicted' \cup lost' \subseteq 1..arrived'
    BY <2>1
  <2> QED
    BY <2>1, <2>2, StepKeeps
<1>7. ASSUME WriteFails PROVE FileInv'
  <2>1. /\ process = "writing" /\ process' = "idle" /\ Torn
        /\ kind' = kind /\ maxSize' = maxSize /\ queue' = queue /\ dropped' = dropped
        /\ arrived' = arrived /\ taken' = taken /\ cleared' = cleared
        /\ batchEnd' = batchEnd /\ persisted' = persisted /\ evicted' = evicted
    BY <1>7 DEF WriteFails, counts
  <2>2. /\ Ordered(file', arrived') /\ Bytes(file') <= MaxBytes
        /\ tail' \in {"none", "torn", "half_character"}
        /\ lost' \subseteq lost \cup Elements(queue)
    BY <2>1, TornPrefix
  <2>3. persisted' \cup evicted' \cup lost' \subseteq 1..arrived'
    BY <2>1, <2>2
  <2> QED
    BY <2>1, <2>2, <2>3, StepKeeps
<1>8. ASSUME Clear PROVE FileInv'
  <2>1. /\ process = "idle" /\ process' = process /\ persisted' = {} /\ queue' = <<>>
        /\ kind' = kind /\ maxSize' = maxSize /\ dropped' = dropped
        /\ arrived' = arrived /\ taken' = taken /\ cleared' = cleared + Len(queue)
        /\ batchEnd' = batchEnd /\ evicted' = evicted /\ lost' = lost
    BY <1>8 DEF Clear
  <2>2. \/ file' = <<>> /\ tail' = "none"
        \/ file' = file /\ tail' = tail
    BY <1>8 DEF Clear
  <2>3. Ordered(queue', arrived') /\ Len(queue') = 0 /\ Len(queue') <= maxSize'
    BY <2>1, EmptyList
  <2>4. /\ Ordered(file', arrived') /\ Bytes(file') <= MaxBytes
        /\ tail' \in {"none", "torn", "half_character"}
    BY <2>1, <2>2, EmptyList
  <2>5. cleared' \in Nat /\ taken' = Len(queue') + dropped' + cleared'
    BY <2>1, <2>3
  <2>6. persisted' \cup evicted' \cup lost' \subseteq 1..arrived'
    BY <2>1
  <2> QED
    BY <2>1, <2>3, <2>4, <2>5, <2>6, StepKeeps
<1>9. ASSUME Exit \/ Crash PROVE FileInv'
  <2>1. /\ process' = "down" /\ queue' = <<>>
        /\ kind' = kind /\ maxSize' = maxSize /\ dropped' = dropped
        /\ arrived' = arrived /\ taken' = taken /\ cleared' = cleared
        /\ batchEnd' = batchEnd /\ persisted' = persisted /\ evicted' = evicted
    BY <1>9 DEF Exit, Crash, Stop, counts
  <2>2. Ordered(queue', arrived') /\ Len(queue') <= maxSize'
    BY <2>1, EmptyList
  <2>3. /\ Ordered(file', arrived') /\ Bytes(file') <= MaxBytes
        /\ tail' \in {"none", "torn", "half_character"}
        /\ lost' \subseteq lost \cup Elements(queue)
    <3>1. CASE Exit
      BY <2>1, <3>1 DEF Exit
    <3>2. CASE Crash
      BY <2>1, <3>2, TornPrefix DEF Crash
    <3> QED
      BY <1>9, <3>1, <3>2
  <2>4. persisted' \cup evicted' \cup lost' \subseteq 1..arrived'
    BY <2>1, <2>3
  <2> QED
    BY <2>1, <2>2, <2>3, <2>4, StepKeeps
<1>10. CASE UNCHANGED vars
  <2>1. /\ process' = process /\ queue' = queue
        /\ kind' = kind /\ maxSize' = maxSize /\ dropped' = dropped /\ file' = file
        /\ arrived' = arrived /\ taken' = taken /\ cleared' = cleared /\ tail' = tail
        /\ batchEnd' = batchEnd /\ persisted' = persisted /\ evicted' = evicted /\ lost' = lost
    BY <1>10 DEF vars, counts, history
  <2> QED
    BY <2>1, StepKeeps
<1> QED
  BY StartStep, AddNextStep, <1>1, <1>2, <1>3, <1>4, <1>5, <1>6, <1>7, <1>8, <1>9, <1>10
     DEF Next

(* The queue, the file and the counts, in every state, also of a process   *)
(* that has been restarted with another limit.                             *)
THEOREM Invariant == Spec => []FileInv
<1>1. Init => FileInv
  BY FileInit
<1>2. FileInv /\ [Next]_vars => FileInv'
  BY FileStep
<1> QED
  BY <1>1, <1>2, PTL DEF Spec

(* The types of the queue, the file and the history. *)
THEOREM TypeCorrect == Spec => []TypeOK
<1>1. FileInv => TypeOK
  BY DEF FileInv
<1> QED
  BY <1>1, Invariant, PTL

(* Memory and file stay within their limits, whatever arrives, however     *)
(* often the content has to be halved, and whatever a crash has left.      *)
THEOREM Bounded == Spec => []StorageBounded
<1>1. FileInv => StorageBounded
  BY DEF FileInv
<1> QED
  BY <1>1, Invariant, PTL

(* dropped_entries accounts for all that has left the queue unasked, from  *)
(* each of the three places that drop.                                     *)
THEOREM Counted == Spec => []DropsCounted
<1>1. FileInv => DropsCounted
  BY DEF FileInv
<1> QED
  BY <1>1, Invariant, PTL

(* Queue and file keep the order of arrival, without doublings, through    *)
(* evictions, halvings, torn files and reloads.                            *)
THEOREM OrderKept == Spec => []ArrivalOrder
<1>1. FileInv => ArrivalOrder
  BY DEF FileInv, Ordered, Increasing, ArrivalOrder
<1> QED
  BY <1>1, Invariant, PTL

-----------------------------------------------------------------------------
(* What was on disk.                                                       *)

(* Both accounts, the file's and the queue's. *)
Accounts ==
    /\ PersistedEntriesSurvive /\ MemoryAccounts
    /\ process = "writing" => tail = "none"

(* What has to be shown of a step. *)
LEMMA AccountsKept ==
    ASSUME kind' = kind, process' = "writing" => tail' = "none",
           \A e \in persisted' \ Of({"split"}) :
              /\ AccountedFor(e, Stored)'
              /\ Up' => AccountedFor(e, Elements(queue))'
    PROVE  Accounts'
<1>1. Of({"split"})' = Of({"split"})
  BY DEF Of
<1> QED
  BY <1>1 DEF Accounts, PersistedEntriesSurvive, MemoryAccounts, AccountedFor

(* A start loads what it can read; what it leaves out is older. *)
LEMMA StartAccounts ==
    ASSUME FileInv, Accounts, Start
    PROVE  Accounts'
<1>1. /\ process = "down" /\ process' # "writing" /\ kind' = kind /\ file' = file
      /\ tail' = tail /\ persisted' = persisted
  BY DEF Start
<1>2. Readable' = Readable /\ Stored = Readable /\ Stored' = Readable
  BY <1>1 DEF Readable, Of, Stored
<1>3. SUFFICES ASSUME NEW e \in persisted \ Of({"split"})
               PROVE  /\ AccountedFor(e, Stored)'
                      /\ Up' => AccountedFor(e, Elements(queue))'
  BY <1>1, AccountsKept
<1>4. AccountedFor(e, Readable) /\ e \in Int
  BY <1>2, FileFacts DEF Accounts, PersistedEntriesSurvive, AccountedFor
<1>5. CASE tail = "half_character"
  BY <1>2, <1>4, <1>5 DEF Start, AccountedFor, Up
<1>6. CASE tail # "half_character"
  <2>1. /\ evicted' = (evicted \cup Readable) \ Elements(queue')
        /\ lost' = lost \ Readable
        /\ Elements(queue') \subseteq Readable
        /\ \A d \in Readable \ Elements(queue') : \A x \in Elements(queue') : x > d
    BY <1>6, LoadEffect
  <2>2. ~(e > e)
    BY <1>4
  <2>3. e \in Readable \cup lost' \/ (e \in evicted' /\ \A x \in Readable : x > e)
    BY <1>4, <2>1, <2>2 DEF AccountedFor
  <2>4. \/ e \in Elements(queue') \cup lost'
        \/ e \in evicted' /\ \A x \in Elements(queue') : x > e
    BY <2>1, <2>3
  <2> QED
    BY <1>2, <2>3, <2>4 DEF AccountedFor
<1> QED
  BY <1>5, <1>6

(* What leaves the queue for its size is recorded, and older than what     *)
(* stays and what comes.                                                   *)
LEMMA ShorterAccounts ==
    ASSUME FileInv, Accounts, AddNext \/ Halve
    PROVE  Accounts'
<1>1. /\ process = "adding" /\ process' = process /\ kind' = kind /\ file' = file
      /\ tail' = tail /\ persisted' = persisted /\ lost' = lost
      /\ evicted' = evicted \cup (Elements(queue) \ Elements(queue'))
  BY DEF AddNext, Halve, Persisting
<1>2. Stored = Readable /\ Stored' = Readable
  BY <1>1 DEF Readable, Of, Stored
<1>3. SUFFICES ASSUME NEW e \in persisted \ Of({"split"})
               PROVE  /\ AccountedFor(e, Stored)'
                      /\ AccountedFor(e, Elements(queue))'
  BY <1>1, AccountsKept
<1>4. AccountedFor(e, Readable) /\ AccountedFor(e, Elements(queue)) /\ e \in 1..arrived
  BY <1>1, <1>2, FileFacts
     DEF Accounts, PersistedEntriesSurvive, MemoryAccounts, AccountedFor, Up
<1>5. /\ Elements(queue') \subseteq Elements(queue) \cup {arrived + 1}
      /\ \A d \in Elements(queue) \ Elements(queue') : \A x \in Elements(queue') : x > d
  BY PushEffect, HalveEffect
<1>6. arrived + 1 > e
  BY <1>4, FileFacts
<1>7. AccountedFor(e, Stored)'
  BY <1>1, <1>2, <1>4 DEF AccountedFor
<1>8. \/ e \in Elements(queue') \cup lost'
      \/ e \in evicted' /\ \A x \in Elements(queue') : x > e
  BY <1>1, <1>4, <1>5, <1>6 DEF AccountedFor
<1> QED
  BY <1>7, <1>8 DEF AccountedFor

(* A write that is cut short loses what it does not leave in the file. *)
LEMMA TornAccounts ==
    ASSUME FileInv, Accounts, process = "writing", process' # "writing", Torn,
           kind' = kind, persisted' = persisted, evicted' = evicted,
           queue' = queue \/ ~Up'
    PROVE  Accounts'
<1>1. /\ lost' = lost \cup (Elements(queue) \ Readable')
      /\ Elements(file') \subseteq Elements(queue)
  BY TornPrefix
<1>2. Stored = Elements(queue) /\ Stored' = Readable' /\ Readable' \subseteq Elements(queue)
  BY <1>1 DEF Stored, Readable
<1>3. SUFFICES ASSUME NEW e \in persisted \ Of({"split"})
               PROVE  /\ AccountedFor(e, Stored)'
                      /\ Up' => AccountedFor(e, Elements(queue))'
  BY AccountsKept
<1>4. AccountedFor(e, Elements(queue))
  BY <1>2 DEF Accounts, PersistedEntriesSurvive, AccountedFor
<1>5. e \in Readable' \cup lost' \/ (e \in evicted' /\ \A x \in Readable' : x > e)
  BY <1>1, <1>2, <1>4 DEF AccountedFor
<1>6. \/ e \in Elements(queue) \cup lost'
      \/ e \in evicted' /\ \A x \in Elements(queue) : x > e
  BY <1>1, <1>4 DEF AccountedFor
<1> QED
  BY <1>2, <1>5, <1>6 DEF AccountedFor

LEMMA AccountsStep ==
    ASSUME FileInv, Accounts, [Next]_vars
    PROVE  Accounts'
<1>1. \A e \in persisted \ Of({"split"}) :
         AccountedFor(e, Stored) /\ (Up => AccountedFor(e, Elements(queue)))
  BY DEF Accounts, PersistedEntriesSurvive, MemoryAccounts, AccountedFor
<1>2. CASE StartUnreadable
  <2>1. /\ process = "down" /\ process' = "idle" /\ queue' = <<>>
        /\ kind' = kind /\ file' = file /\ tail' = tail
        /\ persisted' = persisted /\ evicted' = evicted /\ lost' = lost \cup Elements(file)
    BY <1>2 DEF StartUnreadable
  <2>2. Stored = Readable /\ Stored' = Readable /\ Readable \subseteq Elements(file)
    BY <2>1, FileFacts DEF Readable, Of, Stored
  <2>3. ASSUME NEW e \in persisted \ Of({"split"})
        PROVE  AccountedFor(e, Stored)' /\ AccountedFor(e, Elements(queue))'
    <3>1. e \in lost' \/ (e \in evicted' /\ \A x \in Readable : x > e)
      BY <1>1, <2>1, <2>2 DEF AccountedFor
    <3>2. Elements(queue)' = {}
      BY <2>1, EmptyList DEF Elements
    <3> QED
      BY <2>2, <3>1, <3>2 DEF AccountedFor
  <2> QED
    BY <2>1, <2>3, AccountsKept
<1>3. CASE AddBatch \/ PersistRaises
  <2>1. /\ process \in {"idle", "adding"} /\ process' \in {"idle", "adding"}
        /\ kind' = kind /\ queue' = queue /\ file' = file /\ tail' = tail
        /\ persisted' = persisted /\ evicted' = evicted /\ lost' = lost
    BY <1>3 DEF AddBatch, PersistRaises, Persisting, history
  <2>2. Stored' = Stored /\ Up
    BY <2>1 DEF Stored, Readable, Of, Up
  <2>3. \A e \in persisted \ Of({"split"}) :
           AccountedFor(e, Stored)' /\ AccountedFor(e, Elements(queue))'
    BY <1>1, <2>1, <2>2 DEF AccountedFor
  <2> QED
    BY <2>1, <2>3, AccountsKept
<1>4. CASE Truncate
  <2>1. /\ process = "adding" /\ process' = "writing" /\ kind' = kind /\ queue' = queue
        /\ tail' = "none"
        /\ persisted' = persisted /\ evicted' = evicted /\ lost' = lost
    BY <1>4 DEF Truncate, Persisting, history
  <2>2. Stored' = Elements(queue) /\ Up
    BY <2>1 DEF Stored, Up
  <2>3. \A e \in persisted \ Of({"split"}) :
           AccountedFor(e, Stored)' /\ AccountedFor(e, Elements(queue))'
    BY <1>1, <2>1, <2>2 DEF AccountedFor
  <2> QED
    BY <2>1, <2>3, AccountsKept
<1>5. CASE Written
  <2>1. /\ process = "writing" /\ process' = "idle" /\ file' = queue
        /\ kind' = kind /\ queue' = queue /\ tail' = tail /\ tail = "none"
        /\ persisted' = persisted \cup Elements(queue)
        /\ evicted' = evicted /\ lost' = lost \ Elements(queue)
    BY <1>5 DEF Written, Accounts
  <2>2. Stored = Elements(queue) /\ Stored' = Elements(queue) \ Of({"split"})
    BY <2>1 DEF Stored, Readable, Of
  <2>3. ASSUME NEW e \in persisted' \ Of({"split"})
        PROVE  AccountedFor(e, Stored)' /\ AccountedFor(e, Elements(queue))'
    <3>1. e \in Elements(queue) \/ AccountedFor(e, Elements(queue))
      BY <1>1, <2>1, <2>2
    <3> QED
      BY <2>1, <2>2, <3>1 DEF AccountedFor
  <2> QED
    BY <2>1, <2>3, AccountsKept
<1>6. CASE WriteFails \/ Crash
  <2>1. /\ process = "writing" /\ process' # "writing" /\ Torn
        /\ kind' = kind /\ persisted' = persisted /\ evicted' = evicted
        /\ queue' = queue \/ ~Up'
    BY <1>6 DEF WriteFails, Crash, Stop, Up
  <2> QED
    BY <2>1, TornAccounts
<1>7. CASE Clear
  <2>1. process' = "idle" /\ kind' = kind /\ persisted' = {}
    BY <1>7 DEF Clear
  <2> QED
    BY <2>1, AccountsKept
<1>8. CASE Exit
  <2>1. /\ process \in {"idle", "adding"} /\ process' = "down"
        /\ kind' = kind /\ file' = file /\ tail' = tail
        /\ persisted' = persisted /\ evicted' = evicted /\ lost' = lost
    BY <1>8 DEF Exit, Stop
  <2>2. Stored' = Stored /\ ~Up'
    BY <2>1 DEF Stored, Readable, Of, Up
  <2>3. \A e \in persisted \ Of({"split"}) : AccountedFor(e, Stored)'
    BY <1>1, <2>1, <2>2 DEF AccountedFor
  <2> QED
    BY <2>1, <2>2, <2>3, AccountsKept
<1>9. CASE UNCHANGED vars
  <2>1. /\ process' = process /\ kind' = kind /\ queue' = queue /\ file' = file
        /\ tail' = tail /\ persisted' = persisted /\ evicted' = evicted /\ lost' = lost
    BY <1>9 DEF vars, history
  <2>2. Stored' = Stored /\ Up' = Up /\ (process' = "writing" => tail' = "none")
    BY <2>1 DEF Stored, Readable, Of, Up, Accounts
  <2>3. \A e \in persisted \ Of({"split"}) :
           AccountedFor(e, Stored)' /\ (Up => AccountedFor(e, Elements(queue))')
    BY <1>1, <2>1, <2>2 DEF AccountedFor
  <2> QED
    BY <2>1, <2>2, <2>3, AccountsKept
<1> QED
  BY StartAccounts, ShorterAccounts, <1>2, <1>3, <1>4, <1>5, <1>6, <1>7, <1>8, <1>9 DEF Next

(* What stood in the file when an add_batch returned is only ever missing  *)
(* because it was cleared, was left out as the oldest, has a line that     *)
(* splits, or was lost to a write cut short after it truncated the file,   *)
(* or to a start that could not read it.                                   *)
THEOREM PersistedSurvive == Spec => []PersistedEntriesSurvive
<1>1. Init => Accounts
  BY DEF Init, Accounts, PersistedEntriesSurvive, MemoryAccounts
<1>2. FileInv /\ Accounts /\ [Next]_vars => Accounts'
  BY AccountsStep
<1>3. Accounts => PersistedEntriesSurvive
  BY DEF Accounts
<1> QED
  BY <1>1, <1>2, <1>3, Invariant, PTL DEF Spec
=============================================================================
