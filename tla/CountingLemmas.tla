--------------------------- MODULE CountingLemmas ---------------------------
(***************************************************************************)
(* How many times a sequence holds a value, how much its entries add up    *)
(* to, and which of them a part of it holds: the facts that the proofs     *)
(* about queues, buffers and files have in common.                         *)
(***************************************************************************)
EXTENDS Lists, FunctionTheorems, FiniteSetTheorems,
        WellFoundedInduction, TLAPS

(* The positions at which a sequence holds a value.                        *)
Places(s, v) == {i \in DOMAIN s : s[i] = v}

LEMMA PlacesFinite ==
    ASSUME NEW S, NEW s \in Seq(S), NEW v
    PROVE  IsFiniteSet(Places(s, v)) /\ Cardinality(Places(s, v)) \in Nat
<1>1. Places(s, v) \subseteq 1..Len(s) /\ IsFiniteSet(1..Len(s))
  BY FS_Interval DEF Places
<1> QED
  BY <1>1, FS_Subset, FS_CardinalityType

(* Append adds a place to those of the value appended, and no other. *)
LEMMA PlacesOfAppend ==
    ASSUME NEW S, NEW s \in Seq(S), NEW x \in S, NEW v
    PROVE  Cardinality(Places(Append(s, x), v)) =
             Cardinality(Places(s, v)) + (IF v = x THEN 1 ELSE 0)
<1>1. IsFiniteSet(Places(s, v)) /\ Cardinality(Places(s, v)) \in Nat
  BY PlacesFinite
<1>2. CASE v = x
  <2>1. Places(Append(s, x), v) = Places(s, v) \cup {Len(s) + 1}
    BY <1>2 DEF Places
  <2>2. Len(s) + 1 \notin Places(s, v)
    BY DEF Places
  <2> QED
    BY <1>1, <1>2, <2>1, <2>2, FS_AddElement
<1>3. CASE v # x
  <2>1. Places(Append(s, x), v) = Places(s, v)
    BY <1>3 DEF Places
  <2> QED
    BY <1>1, <1>3, <2>1
<1> QED
  BY <1>2, <1>3

(* Tail takes the place of the head away, and no other. *)
LEMMA PlacesOfTail ==
    ASSUME NEW S, NEW s \in Seq(S), s # <<>>, NEW v
    PROVE  Cardinality(Places(Tail(s), v)) =
             Cardinality(Places(s, v)) - (IF v = Head(s) THEN 1 ELSE 0)
<1> DEFINE Rest == Places(s, v) \ {1}
           f == [i \in Places(Tail(s), v) |-> i + 1]
<1>0. Tail(s) \in Seq(S)
  OBVIOUS
<1>1. /\ IsFiniteSet(Places(s, v)) /\ Cardinality(Places(s, v)) \in Nat
      /\ IsFiniteSet(Places(Tail(s), v))
  BY <1>0, PlacesFinite
<1>2. Cardinality(Rest) = Cardinality(Places(s, v)) - (IF v = Head(s) THEN 1 ELSE 0)
  <2>1. 1 \in Places(s, v) <=> v = Head(s)
    BY DEF Places
  <2>2. Cardinality(Rest) = IF 1 \in Places(s, v) THEN Cardinality(Places(s, v)) - 1
                                                  ELSE Cardinality(Places(s, v))
    BY <1>1, FS_RemoveElement
  <2> QED
    BY <1>1, <2>1, <2>2
<1>3. f \in Bijection(Places(Tail(s), v), Rest)
  <2>1. f \in [Places(Tail(s), v) -> Rest]
    <3> SUFFICES ASSUME NEW i \in Places(Tail(s), v) PROVE i + 1 \in Rest
      OBVIOUS
    <3> QED
      BY DEF Places
  <2>2. \A i, j \in Places(Tail(s), v) : f[i] = f[j] => i = j
    BY DEF Places
  <2>3. ASSUME NEW j \in Rest
        PROVE  \E i \in Places(Tail(s), v) : f[i] = j
    <3>1. j - 1 \in Places(Tail(s), v)
      BY DEF Places
    <3> QED
      BY <3>1 DEF Places
  <2> QED
    BY <2>1, <2>2, <2>3, Fun_IsBij
<1>4. Cardinality(Rest) = Cardinality(Places(Tail(s), v))
  <2>1. ExistsBijection(Places(Tail(s), v), Rest)
    BY <1>3 DEF ExistsBijection
  <2> HIDE DEF Rest, f
  <2> QED
    BY <1>1, <2>1, FS_Bijection
<1> QED
  BY <1>2, <1>4

-----------------------------------------------------------------------------
(* Sums of sizes.                                                          *)

(* An entry takes up as many units as it is large. *)
LEMMA UnitsOfOne ==
    ASSUME NEW size, NEW e, size[e] \in Nat
    PROVE  IsFiniteSet({e} \X (1..size[e])) /\ Cardinality({e} \X (1..size[e])) = size[e]
<1>1. IsFiniteSet({e}) /\ Cardinality({e}) = 1
  BY FS_Singleton
<1>2. IsFiniteSet(1..size[e]) /\ Cardinality(1..size[e]) = size[e]
  <2>1. 1 \in Int /\ size[e] \in Int
    OBVIOUS
  <2>2. /\ IsFiniteSet(1..size[e])
        /\ Cardinality(1..size[e]) = IF 1 > size[e] THEN 0 ELSE size[e] - 1 + 1
    BY <2>1, FS_Interval, Zenon
  <2> QED
    BY <2>2
<1>3. \A A, B : IsFiniteSet(A) /\ IsFiniteSet(B)
           => IsFiniteSet(A \X B) /\ Cardinality(A \X B) = Cardinality(A) * Cardinality(B)
  BY FS_Product, Zenon
<1>4. /\ IsFiniteSet({e} \X (1..size[e]))
      /\ Cardinality({e} \X (1..size[e])) = Cardinality({e}) * Cardinality(1..size[e])
  BY <1>1, <1>2, <1>3, Zenon
<1> QED
  BY <1>1, <1>2, <1>4

(* The sum over a finite set is a number. *)
LEMMA TotalType ==
    ASSUME NEW size, NEW S, IsFiniteSet(S), \A e \in S : size[e] \in Nat
    PROVE  IsFiniteSet(Units(size, S)) /\ TotalOf(size, S) \in Nat
<1> DEFINE T == {{e} \X (1..size[e]) : e \in S}
           f == [e \in S |-> {e} \X (1..size[e])]
<1>1. f \in Surjection(S, T)
  <2>1. f \in [S -> T]
    OBVIOUS
  <2>2. \A t \in T : \E e \in S : f[e] = t
    OBVIOUS
  <2> QED
    BY <2>1, <2>2, Fun_IsSurj
<1>2. \A t \in T : IsFiniteSet(t)
  BY UnitsOfOne
<1> HIDE DEF T, f
<1>3. IsFiniteSet(UNION T)
  BY <1>1, <1>2, FS_Surjection, FS_UNION
<1> QED
  BY <1>3, FS_CardinalityType DEF TotalOf, Units, T

(* The sum over two disjoint sets. *)
LEMMA TotalOfUnion ==
    ASSUME NEW size, NEW S, IsFiniteSet(S), NEW T, IsFiniteSet(T),
           \A e \in S \cup T : size[e] \in Nat, S \cap T = {}
    PROVE  TotalOf(size, S \cup T) = TotalOf(size, S) + TotalOf(size, T)
<1>1. Units(size, S \cup T) = Units(size, S) \cup Units(size, T)
  BY DEF Units
<1>2. Units(size, S) \cap Units(size, T) = {}
  BY DEF Units
<1>3. /\ IsFiniteSet(Units(size, S)) /\ TotalOf(size, S) \in Nat
      /\ IsFiniteSet(Units(size, T)) /\ TotalOf(size, T) \in Nat
  BY TotalType
<1>4. Cardinality(Units(size, S) \cap Units(size, T)) = 0
  BY <1>2, FS_EmptySet
<1>5. Cardinality(Units(size, S) \cup Units(size, T)) =
        Cardinality(Units(size, S)) + Cardinality(Units(size, T))
          - Cardinality(Units(size, S) \cap Units(size, T))
  BY <1>3, FS_Union
<1>6. TotalOf(size, S \cup T) = Cardinality(Units(size, S) \cup Units(size, T))
  BY <1>1 DEF TotalOf
<1>7. TotalOf(size, S) = Cardinality(Units(size, S)) /\ TotalOf(size, T) = Cardinality(Units(size, T))
  BY DEF TotalOf
<1> QED
  BY <1>3, <1>4, <1>5, <1>6, <1>7

(* One more entry. *)
LEMMA TotalOfAdded ==
    ASSUME NEW size, NEW S, IsFiniteSet(S), NEW e, e \notin S,
           \A x \in S \cup {e} : size[x] \in Nat
    PROVE  TotalOf(size, S \cup {e}) = TotalOf(size, S) + size[e]
<1>1. IsFiniteSet({e})
  BY FS_Singleton
<1>2. TotalOf(size, {e}) = size[e]
  <2>1. Units(size, {e}) = {e} \X (1..size[e])
    BY DEF Units
  <2> QED
    BY <2>1, UnitsOfOne DEF TotalOf
<1>3. TotalOf(size, S \cup {e}) = TotalOf(size, S) + TotalOf(size, {e})
  BY <1>1, TotalOfUnion
<1> QED
  BY <1>2, <1>3

(* Some entries fewer. *)
LEMMA TotalOfRest ==
    ASSUME NEW size, NEW S, IsFiniteSet(S), NEW T, T \subseteq S,
           \A e \in S : size[e] \in Nat
    PROVE  TotalOf(size, S \ T) = TotalOf(size, S) - TotalOf(size, T)
<1>1. IsFiniteSet(T) /\ IsFiniteSet(S \ T)
  BY FS_Subset
<1>2. (S \ T) \cup T = S /\ (S \ T) \cap T = {}
  OBVIOUS
<1>3. TotalOf(size, S) = TotalOf(size, S \ T) + TotalOf(size, T)
  BY <1>1, <1>2, TotalOfUnion
<1>4. TotalOf(size, S \ T) \in Nat /\ TotalOf(size, T) \in Nat
  BY <1>1, TotalType
<1> QED
  BY <1>3, <1>4

(* A part adds up to no more than the whole. *)
LEMMA SubtotalAtMost ==
    ASSUME NEW size, NEW S, IsFiniteSet(S), NEW T, T \subseteq S,
           \A e \in S : size[e] \in Nat
    PROVE  TotalOf(size, T) <= TotalOf(size, S)
<1>1. IsFiniteSet(T) /\ IsFiniteSet(S \ T)
  BY FS_Subset
<1>2. TotalOf(size, S \ T) = TotalOf(size, S) - TotalOf(size, T)
  BY TotalOfRest
<1>3. /\ TotalOf(size, S \ T) \in Nat /\ TotalOf(size, S) \in Nat
      /\ TotalOf(size, T) \in Nat
  BY <1>1, TotalType
<1> QED
  BY <1>2, <1>3

-----------------------------------------------------------------------------
(* Lists in which no entry stands twice.                                   *)
Distinct(s) == \A i, j \in DOMAIN s : s[i] = s[j] => i = j

(* Such a list is as long as it has entries. *)
LEMMA DistinctLength ==
    ASSUME NEW S, NEW s \in Seq(S), Distinct(s)
    PROVE  IsFiniteSet(Seqs!ToSet(s)) /\ Cardinality(Seqs!ToSet(s)) = Len(s)
<1>1. IsFiniteSet(1..Len(s)) /\ Cardinality(1..Len(s)) = Len(s)
  <2>1. Len(s) \in Nat
    OBVIOUS
  <2> HIDE DEF Distinct
  <2> QED
    BY <2>1, FS_Interval, SMTT(20)
<1>2. s \in Bijection(1..Len(s), Seqs!ToSet(s))
  <2>1. s \in [1..Len(s) -> Seqs!ToSet(s)]
    BY DEF Seqs!ToSet
  <2>2. \A i, j \in 1..Len(s) : s[i] = s[j] => i = j
    BY DEF Distinct
  <2>3. \A e \in Seqs!ToSet(s) : \E i \in 1..Len(s) : s[i] = e
    BY DEF Seqs!ToSet
  <2> QED
    BY <2>1, <2>2, <2>3, Fun_IsBij
<1>3. ExistsBijection(1..Len(s), Seqs!ToSet(s))
  BY <1>2 DEF ExistsBijection
<1> QED
  BY <1>1, <1>3, FS_Bijection

(* A list has finitely many entries. *)
LEMMA ElementsFinite ==
    ASSUME NEW S, NEW s \in Seq(S)
    PROVE  IsFiniteSet(Seqs!ToSet(s))
<1>1. IsFiniteSet(1..Len(s))
  BY FS_Interval
<1>2. s \in Surjection(1..Len(s), Seqs!ToSet(s))
  <2>1. s \in [1..Len(s) -> Seqs!ToSet(s)]
    BY DEF Seqs!ToSet
  <2>2. \A e \in Seqs!ToSet(s) : \E i \in 1..Len(s) : s[i] = e
    BY DEF Seqs!ToSet
  <2> QED
    BY <2>1, <2>2, Fun_IsSurj
<1> QED
  BY <1>1, <1>2, FS_Surjection

(* Append adds its entry, at the end. *)
LEMMA AppendElements ==
    ASSUME NEW S, NEW s \in Seq(S), NEW x \in S
    PROVE  /\ Append(s, x) \in Seq(S) /\ Len(Append(s, x)) = Len(s) + 1
           /\ Seqs!ToSet(Append(s, x)) = Seqs!ToSet(s) \cup {x}
           /\ Distinct(s) /\ x \notin Seqs!ToSet(s) => Distinct(Append(s, x))
<1>1. /\ Append(s, x) \in Seq(S) /\ Len(Append(s, x)) = Len(s) + 1
      /\ \A i \in 1..Len(s) : Append(s, x)[i] = s[i]
      /\ Append(s, x)[Len(s) + 1] = x
  OBVIOUS
<1>2. DOMAIN Append(s, x) = 1..Len(s) + 1 /\ DOMAIN s = 1..Len(s)
  OBVIOUS
<1>3. Seqs!ToSet(Append(s, x)) = Seqs!ToSet(s) \cup {x}
  <2>1. ASSUME NEW e \in Seqs!ToSet(Append(s, x)) PROVE e \in Seqs!ToSet(s) \cup {x}
    BY <1>1, <1>2 DEF Seqs!ToSet
  <2>2. ASSUME NEW e \in Seqs!ToSet(s) \cup {x} PROVE e \in Seqs!ToSet(Append(s, x))
    <3>1. CASE e = x
      <4>1. Len(s) + 1 \in 1..Len(s) + 1
        OBVIOUS
      <4> QED
        BY <1>1, <1>2, <3>1, <4>1 DEF Seqs!ToSet
    <3>2. CASE e \in Seqs!ToSet(s)
      BY <1>1, <1>2, <3>2 DEF Seqs!ToSet
    <3> QED
      BY <3>1, <3>2
  <2> QED
    BY <2>1, <2>2
<1>4. Distinct(s) /\ x \notin Seqs!ToSet(s) => Distinct(Append(s, x))
  BY <1>1, <1>2 DEF Distinct, Seqs!ToSet
<1> QED
  BY <1>1, <1>3, <1>4

(* The two parts into which a list falls after n entries. *)
LEMMA SplitElements ==
    ASSUME NEW S, NEW s \in Seq(S), NEW n \in 0..Len(s)
    PROVE  LET a == SubSeq(s, 1, n)
               b == SubSeq(s, n + 1, Len(s))
           IN  /\ a \in Seq(S) /\ Len(a) = n /\ \A i \in 1..n : a[i] = s[i]
               /\ b \in Seq(S) /\ Len(b) = Len(s) - n
               /\ \A i \in 1..Len(s) - n : b[i] = s[n + i]
               /\ Seqs!ToSet(s) = Seqs!ToSet(a) \cup Seqs!ToSet(b)
               /\ Distinct(s) => /\ Distinct(a) /\ Distinct(b)
                                 /\ Seqs!ToSet(a) \cap Seqs!ToSet(b) = {}
<1> DEFINE a == SubSeq(s, 1, n)
           b == SubSeq(s, n + 1, Len(s))
<1>1. /\ a \in Seq(S) /\ Len(a) = n /\ \A i \in 1..n : a[i] = s[i]
      /\ b \in Seq(S) /\ Len(b) = Len(s) - n
      /\ \A i \in 1..Len(s) - n : b[i] = s[n + i]
  OBVIOUS
<1>2. DOMAIN s = 1..Len(s) /\ DOMAIN a = 1..n /\ DOMAIN b = 1..Len(s) - n
  BY <1>1
<1> HIDE DEF a, b
<1>3. Seqs!ToSet(s) = Seqs!ToSet(a) \cup Seqs!ToSet(b)
  <2>1. ASSUME NEW e \in Seqs!ToSet(s) PROVE e \in Seqs!ToSet(a) \cup Seqs!ToSet(b)
    <3>1. PICK i \in 1..Len(s) : s[i] = e
      BY <1>2 DEF Seqs!ToSet
    <3>2. CASE i <= n
      <4>1. i \in 1..n
        BY <3>2
      <4>2. a[i] = e
        BY <1>1, <3>1, <4>1
      <4> QED
        BY <1>2, <4>1, <4>2 DEF Seqs!ToSet
    <3>3. CASE i > n
      <4> DEFINE j == i - n
      <4>1. j \in 1..Len(s) - n /\ n + j = i
        BY <3>3
      <4> HIDE DEF j
      <4>3. b[j] = e
        BY <1>1, <3>1, <4>1
      <4> QED
        BY <1>2, <4>1, <4>3 DEF Seqs!ToSet
    <3> QED
      BY <3>2, <3>3
  <2>2. ASSUME NEW e \in Seqs!ToSet(a) PROVE e \in Seqs!ToSet(s)
    BY <1>1, <1>2 DEF Seqs!ToSet
  <2>3. ASSUME NEW e \in Seqs!ToSet(b) PROVE e \in Seqs!ToSet(s)
    <3>1. PICK i \in 1..Len(s) - n : b[i] = e
      BY <1>2 DEF Seqs!ToSet
    <3>2. n + i \in 1..Len(s)
      OBVIOUS
    <3>3. s[n + i] = e
      BY <1>1, <3>1
    <3> QED
      BY <1>2, <3>2, <3>3 DEF Seqs!ToSet
  <2> QED
    BY <2>1, <2>2, <2>3
<1>4. ASSUME Distinct(s)
      PROVE  Distinct(a) /\ Distinct(b) /\ Seqs!ToSet(a) \cap Seqs!ToSet(b) = {}
  <2>1. \A i, j \in 1..Len(s) : s[i] = s[j] => i = j
    BY <1>2, <1>4 DEF Distinct
  <2>2. Distinct(a)
    BY <1>1, <1>2, <2>1 DEF Distinct
  <2>3. Distinct(b)
    <3>1. ASSUME NEW i \in 1..Len(s) - n, NEW j \in 1..Len(s) - n, b[i] = b[j] PROVE i = j
      <4>1. n + i \in 1..Len(s) /\ n + j \in 1..Len(s)
        OBVIOUS
      <4>2. s[n + i] = s[n + j]
        BY <1>1, <3>1
      <4>3. n + i = n + j
        BY <2>1, <4>1, <4>2
      <4> QED
        BY <4>3
    <3> QED
      BY <1>2, <3>1 DEF Distinct
  <2>4. ASSUME NEW i \in 1..n, NEW j \in 1..Len(s) - n PROVE a[i] # b[j]
    <3>1. i \in 1..Len(s) /\ n + j \in 1..Len(s) /\ i # n + j
      OBVIOUS
    <3> QED
      BY <1>1, <2>1, <3>1
  <2> QED
    BY <1>2, <2>2, <2>3, <2>4 DEF Seqs!ToSet
<1> QED
  BY <1>1, <1>3, <1>4 DEF a, b

(* A part of a list without repetitions has none. *)
LEMMA SublistElements ==
    ASSUME NEW S, NEW s \in Seq(S), Distinct(s), NEW t \in Sublists(s)
    PROVE  t \in Seq(S) /\ Distinct(t) /\ Seqs!ToSet(t) \subseteq Seqs!ToSet(s)
<1>1. PICK n \in 0..Len(s) : t \in [1..n -> Seqs!ToSet(s)]
  BY DEF Sublists
<1>2. Seqs!ToSet(s) \subseteq S
  BY DEF Seqs!ToSet
<1>3. t \in Seq(S) /\ DOMAIN t = 1..n
  BY <1>1, <1>2
<1>4. Distinct(t)
  <2>1. ASSUME NEW i \in 1..n, NEW j \in 1..n, i < j PROVE t[i] # t[j]
    <3>1. Precedes(s, t[i], t[j])
      BY <1>3, <2>1 DEF Sublists
    <3> QED
      BY <3>1 DEF Precedes, Distinct
  <2> QED
    BY <1>3, <2>1 DEF Distinct
<1> QED
  BY <1>1, <1>3, <1>4 DEF Seqs!ToSet

-----------------------------------------------------------------------------
(* What a recursion over the numbers defines.  The induction is over a set *)
(* of numbers: what is outside it would have a least element.              *)

LEMMA NumbersInductive ==
    ASSUME NEW T, T \subseteq Nat, 0 \in T, \A n \in T : n + 1 \in T
    PROVE  T = Nat
<1>1. SUFFICES ASSUME Nat \ T # {} PROVE FALSE
  OBVIOUS
<1>2. PICK n \in Nat \ T : \A m \in Nat \ T : ~(<<m, n>> \in OpToRel(<, Nat))
  BY <1>1, NatLessThanWellFounded, WFMin
<1>3. n # 0
  OBVIOUS
<1>4. n - 1 \in Nat /\ n - 1 < n
  BY <1>3
<1>5. n - 1 \in T
  BY <1>2, <1>4 DEF OpToRel
<1> QED
  BY <1>4, <1>5

(* The first n steps of an iteration. *)
Iterations(S, first, next, n) ==
    {f \in [0..n -> S] : /\ f[0] = first
                         /\ \A m \in 0..n : m # n => f[m + 1] = next[<<m + 1, f[m]>>]}

(* An iteration can be taken to any length. *)
LEMMA IterationsExist ==
    ASSUME NEW S, NEW first \in S, NEW next \in [Nat \X S -> S], NEW n \in Nat
    PROVE  Iterations(S, first, next, n) # {}
<1> DEFINE T == {m \in Nat : Iterations(S, first, next, m) # {}}
<1>1. 0 \in T
  <2>1. [m \in 0..0 |-> first] \in Iterations(S, first, next, 0)
    BY DEF Iterations
  <2> QED
    BY <2>1
<1>2. ASSUME NEW m \in T PROVE m + 1 \in T
  <2>1. PICK f \in Iterations(S, first, next, m) : TRUE
    OBVIOUS
  <2> DEFINE g == [k \in 0..m + 1 |-> IF k \in 0..m THEN f[k] ELSE next[<<m + 1, f[m]>>]]
  <2>2. f \in [0..m -> S] /\ m \in Nat
    BY <2>1 DEF Iterations
  <2>3. <<m + 1, f[m]>> \in Nat \X S
    BY <2>2
  <2>4. g \in [0..m + 1 -> S]
    BY <2>2, <2>3
  <2>5. g[0] = first
    BY <2>1, <2>2 DEF Iterations
  <2>6. ASSUME NEW k \in 0..m + 1, k # m + 1
        PROVE  g[k + 1] = next[<<k + 1, g[k]>>]
    <3>1. k \in 0..m /\ g[k] = f[k]
      BY <2>2, <2>6
    <3>2. CASE k = m
      BY <2>2, <3>1, <3>2
    <3>3. CASE k # m
      <4>1. k + 1 \in 0..m
        BY <2>2, <3>1, <3>3
      <4>2. f[k + 1] = next[<<k + 1, f[k]>>]
        BY <2>1, <3>1, <3>3 DEF Iterations
      <4> QED
        BY <2>2, <3>1, <4>1, <4>2
    <3> QED
      BY <3>2, <3>3
  <2> HIDE DEF g
  <2>7. g \in Iterations(S, first, next, m + 1)
    BY <2>4, <2>5, <2>6 DEF Iterations
  <2> QED
    BY <2>2, <2>7
<1> HIDE DEF T
<1>3. T \subseteq Nat
  BY DEF T
<1>4. T = Nat
  BY <1>1, <1>2, <1>3, NumbersInductive
<1> QED
  BY <1>4 DEF T

(* Two of them agree as far as both go. *)
LEMMA IterationsAgree ==
    ASSUME NEW S, NEW first \in S, NEW next \in [Nat \X S -> S],
           NEW n1 \in Nat, NEW n2 \in Nat,
           NEW f1 \in Iterations(S, first, next, n1), NEW f2 \in Iterations(S, first, next, n2),
           NEW m \in Nat, m <= n1, m <= n2
    PROVE  f1[m] = f2[m]
<1> DEFINE T == {k \in Nat : k <= n1 /\ k <= n2 => f1[k] = f2[k]}
<1>1. 0 \in T
  BY DEF Iterations
<1>2. ASSUME NEW k \in T PROVE k + 1 \in T
  <2>1. SUFFICES ASSUME k + 1 <= n1, k + 1 <= n2 PROVE f1[k + 1] = f2[k + 1]
    OBVIOUS
  <2>2. f1[k] = f2[k]
    BY <2>1
  <2>3. k \in 0..n1 /\ k # n1 /\ k \in 0..n2 /\ k # n2
    BY <2>1
  <2> QED
    BY <2>2, <2>3 DEF Iterations
<1> HIDE DEF T
<1>3. T \subseteq Nat
  BY DEF T
<1>4. T = Nat
  BY <1>1, <1>2, <1>3, NumbersInductive
<1> QED
  BY <1>4 DEF T

(* So there is one that goes on for ever.                                  *)
Iterates(f, first, next) ==
    /\ f[0] = first
    /\ \A n \in Nat : f[n + 1] = next[<<n + 1, f[n]>>]

LEMMA IterationExists ==
    ASSUME NEW S, NEW first \in S, NEW next \in [Nat \X S -> S]
    PROVE  \E f \in [Nat -> S] : Iterates(f, first, next)
<1> DEFINE It(n) == Iterations(S, first, next, n)
           upto == [n \in Nat |-> CHOOSE f : f \in It(n)]
           f == [n \in Nat |-> upto[n][n]]
<1>1. \A n \in Nat : upto[n] \in It(n)
  BY IterationsExist
<1>2. \A n \in Nat : \A g \in It(n) : g \in [0..n -> S] /\ g[0] = first
  BY DEF Iterations
<1> HIDE DEF upto
<1>3. f \in [Nat -> S]
  BY <1>1, <1>2
<1>4. f[0] = first
  BY <1>1, <1>2
<1>5. ASSUME NEW n \in Nat PROVE f[n + 1] = next[<<n + 1, f[n]>>]
  <2>1. upto[n + 1][n + 1] = next[<<n + 1, upto[n + 1][n]>>]
    <3>1. upto[n + 1] \in It(n + 1) /\ n \in 0..n + 1 /\ n # n + 1
      BY <1>1
    <3> QED
      BY <3>1 DEF Iterations
  <2>2. upto[n + 1][n] = upto[n][n]
    <3>1. upto[n] \in It(n) /\ upto[n + 1] \in It(n + 1) /\ n + 1 \in Nat /\ n <= n /\ n <= n + 1
      BY <1>1
    <3> HIDE DEF It
    <3> QED
      BY <3>1, IterationsAgree DEF It
  <2> QED
    BY <2>1, <2>2
<1>6. Iterates(f, first, next)
  BY <1>4, <1>5 DEF Iterates
<1> QED
  BY <1>3, <1>6

(* What stands in one sequence after another. *)
LEMMA ConcatElements ==
    ASSUME NEW S, NEW s \in Seq(S), NEW t \in Seq(S)
    PROVE  /\ s \o t \in Seq(S) /\ Len(s \o t) = Len(s) + Len(t)
           /\ Seqs!ToSet(s \o t) = Seqs!ToSet(s) \cup Seqs!ToSet(t)
<1>1. /\ s \o t \in Seq(S) /\ Len(s \o t) = Len(s) + Len(t)
      /\ \A i \in 1..Len(s) : (s \o t)[i] = s[i]
      /\ \A i \in 1..Len(t) : (s \o t)[Len(s) + i] = t[i]
  OBVIOUS
<1>2. /\ DOMAIN s = 1..Len(s) /\ DOMAIN t = 1..Len(t)
      /\ DOMAIN (s \o t) = 1..Len(s) + Len(t)
      /\ Len(s) \in Nat /\ Len(t) \in Nat
  BY <1>1
<1> DEFINE u == s \o t
<1> HIDE DEF u
<1>3. ASSUME NEW e \in Seqs!ToSet(u) PROVE e \in Seqs!ToSet(s) \cup Seqs!ToSet(t)
  <2>1. PICK i \in 1..Len(s) + Len(t) : u[i] = e
    BY <1>2 DEF Seqs!ToSet, u
  <2>2. CASE i \in 1..Len(s)
    BY <1>1, <1>2, <2>1, <2>2 DEF Seqs!ToSet, u
  <2>3. CASE i \notin 1..Len(s)
    <3>1. i - Len(s) \in 1..Len(t) /\ Len(s) + (i - Len(s)) = i
      BY <1>2, <2>3
    <3>2. t[i - Len(s)] = e
      BY <1>1, <2>1, <3>1 DEF u
    <3> QED
      BY <1>2, <3>1, <3>2 DEF Seqs!ToSet
  <2> QED
    BY <2>2, <2>3
<1>4. ASSUME NEW e \in Seqs!ToSet(s) PROVE e \in Seqs!ToSet(u)
  <2>1. PICK i \in 1..Len(s) : s[i] = e
    BY <1>2 DEF Seqs!ToSet
  <2>2. i \in 1..Len(s) + Len(t) /\ u[i] = e
    BY <1>1, <1>2, <2>1 DEF u
  <2> QED
    BY <1>2, <2>2 DEF Seqs!ToSet, u
<1>5. ASSUME NEW e \in Seqs!ToSet(t) PROVE e \in Seqs!ToSet(u)
  <2>1. PICK i \in 1..Len(t) : t[i] = e
    BY <1>2 DEF Seqs!ToSet
  <2>2. Len(s) + i \in 1..Len(s) + Len(t) /\ u[Len(s) + i] = e
    BY <1>1, <1>2, <2>1 DEF u
  <2> QED
    BY <1>2, <2>2 DEF Seqs!ToSet, u
<1> QED
  BY <1>1, <1>3, <1>4, <1>5 DEF u

(* Two lists that have no entry in common, one after the other. *)
LEMMA ConcatDistinct ==
    ASSUME NEW S, NEW s \in Seq(S), NEW t \in Seq(S), Distinct(s), Distinct(t),
           Seqs!ToSet(s) \cap Seqs!ToSet(t) = {}
    PROVE  Distinct(s \o t)
<1>1. /\ Len(s) \in Nat /\ Len(t) \in Nat /\ DOMAIN (s \o t) = 1..Len(s) + Len(t)
      /\ DOMAIN s = 1..Len(s) /\ DOMAIN t = 1..Len(t)
      /\ \A i \in 1..Len(s) : (s \o t)[i] = s[i]
      /\ \A i \in 1..Len(t) : (s \o t)[Len(s) + i] = t[i]
  OBVIOUS
<1> DEFINE u == s \o t
<1> HIDE DEF u
<1>2. ASSUME NEW i \in 1..Len(s) + Len(t)
      PROVE  \/ i \in 1..Len(s) /\ u[i] = s[i]
             \/ i - Len(s) \in 1..Len(t) /\ u[i] = t[i - Len(s)]
  <2>1. CASE i \in 1..Len(s)
    BY <1>1, <2>1 DEF u
  <2>2. CASE i \notin 1..Len(s)
    <3>1. i - Len(s) \in 1..Len(t) /\ Len(s) + (i - Len(s)) = i
      BY <1>1, <2>2
    <3> QED
      BY <1>1, <3>1 DEF u
  <2> QED
    BY <2>1, <2>2
<1>3. \A i \in 1..Len(s), j \in 1..Len(t) : s[i] # t[j]
  BY <1>1 DEF Seqs!ToSet
<1>4. \A i, j \in 1..Len(s) : s[i] = s[j] => i = j
  BY <1>1 DEF Distinct
<1>5. \A i, j \in 1..Len(t) : t[i] = t[j] => i = j
  BY <1>1 DEF Distinct
<1>6. ASSUME NEW i \in 1..Len(s) + Len(t), NEW j \in 1..Len(s) + Len(t), u[i] = u[j]
      PROVE  i = j
  <2>1. CASE i \in 1..Len(s) /\ u[i] = s[i]
    BY <1>2, <1>3, <1>4, <1>6, <2>1
  <2>2. CASE i - Len(s) \in 1..Len(t) /\ u[i] = t[i - Len(s)]
    <3>1. j - Len(s) \in 1..Len(t) /\ u[j] = t[j - Len(s)]
      BY <1>2, <1>3, <1>6, <2>2
    <3>2. i - Len(s) = j - Len(s)
      BY <1>5, <1>6, <2>2, <3>1
    <3> QED
      BY <1>1, <3>2
  <2> QED
    BY <1>2, <2>1, <2>2
<1> QED
  BY <1>1, <1>6 DEF u, Distinct

(* Lists no two of which have an entry in common. *)
Apart(seqs) ==
    /\ \A i \in DOMAIN seqs : Distinct(seqs[i])
    /\ \A i, j \in DOMAIN seqs : i # j => Seqs!ToSet(seqs[i]) \cap Seqs!ToSet(seqs[j]) = {}

(* FlattenSeq keeps what stands in the sequences, and adds nothing. *)
LEMMA FlattenElements ==
    ASSUME NEW S, NEW seqs \in Seq(Seq(S))
    PROVE  /\ Seqs!FlattenSeq(seqs) \in Seq(S)
           /\ Seqs!ToSet(Seqs!FlattenSeq(seqs)) =
                UNION {Seqs!ToSet(seqs[i]) : i \in DOMAIN seqs}
           /\ Apart(seqs) => Distinct(Seqs!FlattenSeq(seqs))
<1>1. CASE Len(seqs) = 0
  <2>1. seqs = <<>> /\ Seqs!FlattenSeq(seqs) = <<>>
    BY <1>1 DEF Seqs!FlattenSeq
  <2>2. <<>> \in Seq(S) /\ DOMAIN <<>> = {} /\ Seqs!ToSet(<<>>) = {} /\ Distinct(<<>>)
    BY DEF Seqs!ToSet, Distinct
  <2>3. UNION {Seqs!ToSet(seqs[i]) : i \in DOMAIN seqs} = {}
    BY <2>1, <2>2
  <2> QED
    BY <2>1, <2>2, <2>3
<1>2. CASE Len(seqs) # 0
  <2> DEFINE n == Len(seqs)
             Rec(f) == f = [i \in 1..n |-> IF i = 1 THEN seqs[i] ELSE f[i - 1] \o seqs[i]]
             flatten == CHOOSE f : Rec(f)
  <2>1. n \in Nat /\ n >= 1 /\ \A i \in 1..n : seqs[i] \in Seq(S)
    BY <1>2
  <2>2. DOMAIN seqs = 1..n
    OBVIOUS
  <2>3. Seqs!FlattenSeq(seqs) = flatten[n]
    BY <1>2 DEF Seqs!FlattenSeq
  <2> HIDE DEF n
  <2>4. \E f : Rec(f)
    <3> DEFINE next == [p \in Nat \X Seq(S) |-> IF p[1] + 1 \in 1..n THEN p[2] \o seqs[p[1] + 1] ELSE p[2]]
    <3>1. next \in [Nat \X Seq(S) -> Seq(S)]
      <4>1. \A p \in Nat \X Seq(S) : p[1] \in Nat /\ p[2] \in Seq(S)
        OBVIOUS
      <4> QED
        BY <2>1, <4>1, ConcatElements
    <3>2. seqs[1] \in Seq(S)
      BY <2>1
    <3>3. PICK f \in [Nat -> Seq(S)] :
             /\ f[0] = seqs[1]
             /\ \A k \in Nat : f[k + 1] = next[<<k + 1, f[k]>>]
      <4> DEFINE Q == Seq(S)
                 first == seqs[1]
      <4>1. next \in [Nat \X Q -> Q] /\ first \in Q
        BY <3>1, <3>2
      <4> HIDE DEF next, Q, first
      <4>2. \E f \in [Nat -> Q] : Iterates(f, first, next)
        BY <4>1, IterationExists
      <4> QED
        BY <4>2 DEF Q, first, Iterates
    <3> DEFINE g == [i \in 1..n |-> f[i - 1]]
    <3>4. ASSUME NEW i \in 1..n
          PROVE  g[i] = IF i = 1 THEN seqs[i] ELSE g[i - 1] \o seqs[i]
      <4>1. CASE i = 1
        BY <3>3, <4>1
      <4>2. CASE i # 1
        <5>1. i - 1 \in Nat /\ i - 2 \in Nat /\ (i - 2) + 1 = i - 1 /\ (i - 1) + 1 = i /\ i - 1 \in 1..n
          BY <2>1, <4>2
        <5>2. f[i - 1] = next[<<i - 1, f[i - 2]>>]
          BY <3>3, <5>1
        <5>3. <<i - 1, f[i - 2]>> \in Nat \X Seq(S)
          BY <5>1
        <5>4. next[<<i - 1, f[i - 2]>>] = f[i - 2] \o seqs[i]
          BY <5>1, <5>3
        <5>5. g[i] = f[i - 1] /\ g[i - 1] = f[i - 2]
          BY <5>1
        <5> QED
          BY <4>2, <5>2, <5>4, <5>5
      <4> QED
        BY <4>1, <4>2
    <3>5. g = [i \in 1..n |-> IF i = 1 THEN seqs[i] ELSE g[i - 1] \o seqs[i]]
      BY <3>4
    <3> HIDE DEF g
    <3> QED
      BY <3>5
  <2>5. Rec(flatten)
    BY <2>4
  <2> HIDE DEF flatten
  <2> DEFINE All(k) == UNION {Seqs!ToSet(seqs[i]) : i \in 1..k}
             T == {k \in Nat : k + 1 <= n => /\ flatten[k + 1] \in Seq(S)
                                             /\ Seqs!ToSet(flatten[k + 1]) = All(k + 1)
                                             /\ Apart(seqs) => Distinct(flatten[k + 1])}
  <2>6. 0 \in T
    <3>1. flatten[1] = seqs[1]
      BY <2>1, <2>5
    <3>2. All(1) = Seqs!ToSet(seqs[1])
      <4>1. 1..1 = {1}
        OBVIOUS
      <4> QED
        BY <4>1
    <3>3. Apart(seqs) => Distinct(seqs[1])
      BY <2>1, <2>2 DEF Apart
    <3> HIDE DEF All
    <3> QED
      BY <2>1, <3>1, <3>2, <3>3
  <2>7. ASSUME NEW k \in T PROVE k + 1 \in T
    <3>1. SUFFICES ASSUME k + 2 <= n
                   PROVE  /\ flatten[k + 2] \in Seq(S)
                          /\ Seqs!ToSet(flatten[k + 2]) = All(k + 2)
                          /\ Apart(seqs) => Distinct(flatten[k + 2])
      <4>1. k + 1 \in Nat /\ (k + 1) + 1 = k + 2
        OBVIOUS
      <4> HIDE DEF All
      <4> QED
        BY <3>1, <4>1
    <3>2. k \in Nat /\ k + 2 \in 1..n /\ k + 2 # 1 /\ (k + 2) - 1 = k + 1 /\ k + 1 <= n
      BY <2>1, <3>1
    <3>3. flatten[k + 2] = flatten[k + 1] \o seqs[k + 2]
      BY <2>5, <3>2
    <3>4. /\ flatten[k + 1] \in Seq(S) /\ Seqs!ToSet(flatten[k + 1]) = All(k + 1)
          /\ Apart(seqs) => Distinct(flatten[k + 1])
      BY <3>2
    <3>5. seqs[k + 2] \in Seq(S)
      BY <2>1, <3>2
    <3>6. All(k + 2) = All(k + 1) \cup Seqs!ToSet(seqs[k + 2])
      <4>1. 1..k + 2 = (1..k + 1) \cup {k + 2}
        BY <3>2
      <4> QED
        BY <4>1
    <3>7. /\ flatten[k + 1] \o seqs[k + 2] \in Seq(S)
          /\ Seqs!ToSet(flatten[k + 1] \o seqs[k + 2]) =
                Seqs!ToSet(flatten[k + 1]) \cup Seqs!ToSet(seqs[k + 2])
      BY <3>4, <3>5, ConcatElements
    <3>8. ASSUME Apart(seqs) PROVE Distinct(flatten[k + 1] \o seqs[k + 2])
      <4>1. All(k + 1) \cap Seqs!ToSet(seqs[k + 2]) = {}
        <5>1. \A i \in 1..k + 1 : i \in 1..n /\ i # k + 2
          BY <2>1, <3>2
        <5>2. \A i \in 1..k + 1 : Seqs!ToSet(seqs[i]) \cap Seqs!ToSet(seqs[k + 2]) = {}
          BY <2>2, <3>2, <3>8, <5>1 DEF Apart
        <5> QED
          BY <5>2
      <4>2. Distinct(seqs[k + 2])
        BY <2>2, <3>2, <3>8 DEF Apart
      <4> HIDE DEF All
      <4> QED
        BY <3>4, <3>5, <3>8, <4>1, <4>2, ConcatDistinct
    <3> HIDE DEF All
    <3> QED
      BY <3>3, <3>4, <3>6, <3>7, <3>8
  <2>8. T = Nat
    <3>1. T \subseteq Nat
      OBVIOUS
    <3> HIDE DEF T
    <3> QED
      BY <2>6, <2>7, <3>1, NumbersInductive
  <2>9. n - 1 \in T /\ (n - 1) + 1 = n /\ n <= n
    <3> HIDE DEF T
    <3> QED
      BY <2>1, <2>8
  <2>10. /\ flatten[n] \in Seq(S) /\ Seqs!ToSet(flatten[n]) = All(n)
         /\ Apart(seqs) => Distinct(flatten[n])
    <3> HIDE DEF All
    <3> QED
      BY <2>9
  <2> QED
    BY <2>2, <2>3, <2>10
<1> QED
  BY <1>1, <1>2

(* A sequence is its head and its tail. *)
LEMMA TailElements ==
    ASSUME NEW S, NEW s \in Seq(S), s # <<>>
    PROVE  /\ Tail(s) \in Seq(S) /\ Len(Tail(s)) = Len(s) - 1
           /\ Seqs!ToSet(s) = {Head(s)} \cup Seqs!ToSet(Tail(s))
<1> DEFINE t == Tail(s)
<1>1. /\ t \in Seq(S) /\ Len(s) \in Nat /\ Len(s) # 0 /\ Len(t) = Len(s) - 1
      /\ DOMAIN s = 1..Len(s) /\ DOMAIN t = 1..Len(s) - 1
      /\ \A i \in 1..Len(s) - 1 : t[i] = s[i + 1]
      /\ Head(s) = s[1]
  OBVIOUS
<1> HIDE DEF t
<1>2. ASSUME NEW e PROVE e \in Seqs!ToSet(s) <=> e = Head(s) \/ e \in Seqs!ToSet(t)
  <2>1. ASSUME e \in Seqs!ToSet(s) PROVE e = Head(s) \/ e \in Seqs!ToSet(t)
    <3>1. PICK i \in 1..Len(s) : e = s[i]
      BY <1>1, <2>1 DEF Seqs!ToSet
    <3>2. CASE i = 1
      BY <1>1, <3>1, <3>2
    <3>3. CASE i # 1
      <4>1. i - 1 \in 1..Len(s) - 1 /\ (i - 1) + 1 = i
        BY <1>1, <3>3
      <4>2. e = t[i - 1]
        BY <1>1, <3>1, <4>1
      <4> QED
        BY <1>1, <4>1, <4>2 DEF Seqs!ToSet
    <3> QED
      BY <3>2, <3>3
  <2>2. Head(s) \in Seqs!ToSet(s)
    BY <1>1 DEF Seqs!ToSet
  <2>3. ASSUME e \in Seqs!ToSet(t) PROVE e \in Seqs!ToSet(s)
    <3>1. PICK i \in 1..Len(s) - 1 : e = t[i]
      BY <1>1, <2>3 DEF Seqs!ToSet
    <3>2. i + 1 \in 1..Len(s) /\ e = s[i + 1]
      BY <1>1, <3>1
    <3> QED
      BY <1>1, <3>2 DEF Seqs!ToSet
  <2> QED
    BY <2>1, <2>2, <2>3
<1> QED
  BY <1>1, <1>2 DEF t

(* What stands at the head of a list of different entries is not in its tail. *)
LEMMA TailDistinct ==
    ASSUME NEW S, NEW s \in Seq(S), s # <<>>, Distinct(s)
    PROVE  Distinct(Tail(s)) /\ Head(s) \notin Seqs!ToSet(Tail(s))
<1> DEFINE t == Tail(s)
<1>1. /\ Len(s) \in Nat /\ Len(s) # 0
      /\ DOMAIN s = 1..Len(s) /\ DOMAIN t = 1..Len(s) - 1
      /\ \A i \in 1..Len(s) - 1 : t[i] = s[i + 1]
      /\ Head(s) = s[1]
  OBVIOUS
<1> HIDE DEF t
<1>2. \A i, j \in 1..Len(s) : s[i] = s[j] => i = j
  BY <1>1 DEF Distinct
<1>3. \A i \in 1..Len(s) - 1 : i + 1 \in 1..Len(s) /\ 1 \in 1..Len(s) /\ i + 1 # 1
  BY <1>1
<1>4. ASSUME NEW i \in 1..Len(s) - 1, NEW j \in 1..Len(s) - 1, t[i] = t[j]
      PROVE  i = j
  <2>1. s[i + 1] = s[j + 1]
    BY <1>1, <1>4
  <2>2. i + 1 = j + 1
    BY <1>2, <1>3, <2>1
  <2> QED
    BY <2>2
<1>5. \A i \in 1..Len(s) - 1 : t[i] # s[1]
  BY <1>1, <1>2, <1>3
<1> QED
  BY <1>1, <1>4, <1>5 DEF t, Distinct, Seqs!ToSet

=============================================================================
