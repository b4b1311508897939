------------------------------ MODULE SliceProofs ------------------------------
(***************************************************************************)
(* What Sort, Subsequence, Compact and RemoveFirst return, for slices of   *)
(* any length.  Induction is by the least counterexample.                  *)
(***************************************************************************)
EXTENDS Slices, SequenceTheorems, FiniteSetTheorems, WellFoundedInduction, TLAPS

Less == {pair \in Nat \X Nat : pair[1] < pair[2]}

LEMMA LeastNumber ==
    ASSUME NEW T, T \subseteq Nat, T # {}
    PROVE  \E m \in T : \A k \in T : m <= k
<1>1. IsWellFoundedOn(Less, Nat)
  BY NatLessThanWellFounded DEF OpToRel, Less
<1>2. \E m \in T : \A k \in T : <<k, m>> \notin Less
  BY <1>1, WFMin
<1>3. ASSUME NEW m \in T, NEW k \in T, <<k, m>> \notin Less PROVE m <= k
  BY <1>3 DEF Less
<1> QED
  BY <1>2, <1>3

-----------------------------------------------------------------------------
(* Sort *)

\* p puts the first n elements of s into order.
Orders(p, s, n) ==
    /\ p \in Bijection(1..n, 1..n)
    /\ \A i, j \in 1..n : i < j => s[p[i]] <= s[p[j]]

\* Insertion: an order of the first n elements, and a place for the next one.
LEMMA Insertion ==
    ASSUME NEW s \in Seq(Int), NEW n \in Nat, n < Len(s), NEW p, Orders(p, s, n)
    PROVE  \E q : Orders(q, s, n + 1)
<1> DEFINE later == {k \in 1..n : s[p[k]] > s[n + 1]} \cup {n + 1}
           Place(k) == [i \in 1..(n + 1) |-> IF i < k THEN p[i] ELSE IF i = k THEN n + 1 ELSE p[i - 1]]
<1>1. /\ p \in [1..n -> 1..n]
      /\ \A i, j \in 1..n : p[i] = p[j] => i = j
      /\ \A w \in 1..n : \E v \in 1..n : p[v] = w
      /\ \A i, j \in 1..n : i < j => s[p[i]] <= s[p[j]]
  BY DEF Orders, Bijection, Injection, Surjection, IsInjective
<1>2. \A i \in 1..(n + 1) : s[i] \in Int
  <2>1. DOMAIN s = 1..Len(s) /\ Len(s) \in Nat
    BY LenProperties
  <2>2. \A i \in 1..(n + 1) : i \in DOMAIN s
    BY <2>1
  <2> QED
    BY <2>2, ElementOfSeq, <2>1
<1>3. \A i \in 1..n : s[p[i]] \in Int
  BY <1>1, <1>2
<1>4. later \subseteq Nat /\ later # {}
  <2>1. 1..n \subseteq Nat /\ n + 1 \in Nat
    OBVIOUS
  <2> QED
    BY <2>1, Zenon
<1>5. PICK k \in later : \A l \in later : k <= l
  <2> HIDE DEF later
  <2> QED
    BY <1>4, LeastNumber
<1>6. k \in 1..(n + 1) /\ (k # n + 1 => s[p[k]] > s[n + 1])
  BY <1>5
<1>7. \A i \in 1..n : i < k => s[p[i]] <= s[n + 1]
  <2> SUFFICES ASSUME NEW i \in 1..n, i < k PROVE s[p[i]] <= s[n + 1]
    OBVIOUS
  <2>1. i \notin later
    BY <1>4, <1>5, <1>6
  <2>2. ~(s[p[i]] > s[n + 1])
    BY <2>1
  <2>3. s[p[i]] \in Int /\ s[n + 1] \in Int
    BY <1>2, <1>3
  <2> QED
    BY <2>2, <2>3
<1> HIDE DEF later
<1> DEFINE q == Place(k)
<1>8. /\ DOMAIN q = 1..(n + 1)
      /\ \A i \in 1..n : i < k => q[i] = p[i]
      /\ q[k] = n + 1
      /\ \A i \in 1..(n + 1) : i > k => i - 1 \in 1..n /\ q[i] = p[i - 1]
  BY <1>6
<1>9. q = [i \in 1..(n + 1) |-> q[i]]
  OBVIOUS
<1> HIDE DEF q
<1>10. \A i \in 1..(n + 1) : i < k => i \in 1..n
  BY <1>6
<1>11. \A i \in 1..(n + 1) : i < k \/ i = k \/ i > k
  BY <1>6
<1>12. \A i \in 1..n : p[i] \in 1..n /\ p[i] # n + 1 /\ p[i] \in 1..(n + 1)
  BY <1>1
<1>13. \A i \in 1..(n + 1) : q[i] \in 1..(n + 1)
  <2> TAKE i \in 1..(n + 1)
  <2> QED
    BY <1>8, <1>10, <1>11, <1>12
<1>14. \A i, j \in 1..(n + 1) : i < j => q[i] # q[j]
  <2> TAKE i, j \in 1..(n + 1)
  <2> HAVE i < j
  <2>1. CASE j < k
    BY <1>1, <1>6, <1>8, <1>10, <2>1
  <2>2. CASE j = k
    BY <1>8, <1>10, <1>12, <2>2
  <2>3. CASE j > k /\ i < k
    BY <1>1, <1>6, <1>8, <1>10, <2>3
  <2>4. CASE j > k /\ i = k
    BY <1>8, <1>12, <2>4
  <2>5. CASE j > k /\ i > k
    BY <1>1, <1>8, <2>5
  <2> QED
    BY <1>11, <2>1, <2>2, <2>3, <2>4, <2>5
<1>15. \A i, j \in 1..(n + 1) : q[i] = q[j] => i = j
  <2> TAKE i, j \in 1..(n + 1)
  <2>1. i < j \/ j < i \/ i = j
    OBVIOUS
  <2> QED
    BY <1>14, <2>1
<1>16. ASSUME NEW w \in 1..(n + 1) PROVE \E v \in 1..(n + 1) : q[v] = w
  <2>1. CASE w = n + 1
    BY <1>6, <1>8, <2>1
  <2>2. CASE w # n + 1
    <3>1. w \in 1..n
      BY <2>2
    <3>2. PICK v \in 1..n : p[v] = w
      BY <1>1, <3>1
    <3>3. v \in 1..(n + 1) /\ v + 1 \in 1..(n + 1) /\ (v + 1) - 1 = v
      OBVIOUS
    <3>4. CASE v < k
      BY <1>8, <3>2, <3>3, <3>4
    <3>5. CASE v >= k
      <4>1. v + 1 > k
        BY <1>6, <3>5
      <4> QED
        BY <1>8, <3>2, <3>3, <4>1
    <3> QED
      BY <1>6, <3>4, <3>5
  <2> QED
    BY <2>1, <2>2
<1>17. ASSUME NEW i \in 1..(n + 1), NEW j \in 1..(n + 1), i < j PROVE s[q[i]] <= s[q[j]]
  <2>1. CASE j < k
    <3>1. i \in 1..n /\ j \in 1..n /\ i < k
      BY <1>6, <1>10, <1>17, <2>1
    <3>2. q[i] = p[i] /\ q[j] = p[j]
      BY <1>8, <2>1, <3>1
    <3>3. s[p[i]] <= s[p[j]]
      BY <1>1, <1>17, <3>1
    <3> QED
      BY <3>2, <3>3
  <2>2. CASE j = k
    BY <1>7, <1>8, <1>10, <1>17, <2>2
  <2>3. CASE j > k /\ i < k
    <3>1. i \in 1..n /\ j - 1 \in 1..n /\ i < j - 1
      BY <1>6, <1>8, <1>10, <2>3
    <3>2. q[i] = p[i] /\ q[j] = p[j - 1]
      BY <1>8, <2>3, <3>1
    <3>3. s[p[i]] <= s[p[j - 1]]
      BY <1>1, <3>1
    <3> QED
      BY <3>2, <3>3
  <2>4. CASE j > k /\ i = k
    <3>1. k \in 1..n /\ j - 1 \in 1..n /\ k <= j - 1
      BY <1>6, <1>8, <2>4
    <3>2. s[p[k]] <= s[p[j - 1]]
      <4>1. CASE k = j - 1
        BY <1>3, <3>1, <4>1
      <4>2. CASE k < j - 1
        BY <1>1, <3>1, <4>2
      <4> QED
        BY <3>1, <4>1, <4>2
    <3>3. s[p[k]] > s[n + 1] /\ q[i] = n + 1 /\ q[j] = p[j - 1]
      BY <1>6, <1>8, <2>4, <3>1
    <3>4. s[p[k]] \in Int /\ s[p[j - 1]] \in Int /\ s[n + 1] \in Int
      BY <1>2, <1>3, <3>1
    <3> QED
      BY <3>2, <3>3, <3>4
  <2>5. CASE j > k /\ i > k
    <3>1. i - 1 \in 1..n /\ j - 1 \in 1..n /\ i - 1 < j - 1 /\ q[i] = p[i - 1] /\ q[j] = p[j - 1]
      BY <1>8, <1>17, <2>5
    <3>2. s[p[i - 1]] <= s[p[j - 1]]
      BY <1>1, <3>1
    <3> QED
      BY <3>1, <3>2
  <2> QED
    BY <1>11, <2>1, <2>2, <2>3, <2>4, <2>5
<1>18. q \in [1..(n + 1) -> 1..(n + 1)]
  BY <1>9, <1>13
<1>19. Orders(q, s, n + 1)
  BY <1>15, <1>16, <1>17, <1>18 DEF Orders, Bijection, Injection, Surjection, IsInjective
<1> QED
  BY <1>19

LEMMA OrderExists ==
    ASSUME NEW s \in Seq(Int)
    PROVE  \E p : Orders(p, s, Len(s))
<1> DEFINE T == {n \in 0..Len(s) : ~\E p : Orders(p, s, n)}
<1>1. CASE T = {}
  BY <1>1
<1>2. ASSUME T # {} PROVE FALSE
  <2>0. T \subseteq Nat
    BY LenProperties
  <2>1. PICK m \in T : \A k \in T : m <= k
    <3> HIDE DEF T
    <3> QED
      BY <1>2, <2>0, LeastNumber
  <2>2. CASE m = 0
    <3>1. Orders([i \in 1..0 |-> i], s, 0)
      BY DEF Orders, Bijection, Injection, Surjection, IsInjective
    <3> QED
      BY <2>1, <2>2, <3>1
  <2>3. CASE m # 0
    <3>1. m - 1 \in Nat /\ m - 1 < Len(s) /\ m - 1 \notin T /\ (m - 1) + 1 = m
      BY <2>1, <2>3
    <3>2. PICK p : Orders(p, s, m - 1)
      BY <3>1
    <3>3. \E q : Orders(q, s, (m - 1) + 1)
      BY <3>1, <3>2, Insertion
    <3> QED
      BY <2>1, <3>1, <3>3
  <2> QED
    BY <2>2, <2>3
<1> QED
  BY <1>1, <1>2

\* Sort rearranges: same length, same elements, in ascending order.
LEMMA SortProperties ==
    ASSUME NEW s \in Seq(Int)
    PROVE  /\ DOMAIN Sort(s) = DOMAIN s
           /\ Range(Sort(s)) = Range(s)
           /\ \A i, j \in DOMAIN s : i < j => Sort(s)[i] <= Sort(s)[j]
<1> DEFINE order == CHOOSE p \in Bijection(DOMAIN s, DOMAIN s) :
                        \A i, j \in DOMAIN s : i < j => s[p[i]] <= s[p[j]]
<1>1. DOMAIN s = 1..Len(s)
  BY LenProperties
<1>2. \E p \in Bijection(DOMAIN s, DOMAIN s) :
            \A i, j \in DOMAIN s : i < j => s[p[i]] <= s[p[j]]
  BY <1>1, OrderExists DEF Orders
<1>3. order \in Bijection(DOMAIN s, DOMAIN s)
      /\ \A i, j \in DOMAIN s : i < j => s[order[i]] <= s[order[j]]
  BY <1>2
<1>4. Sort(s) = [i \in DOMAIN s |-> s[order[i]]]
  BY DEF Sort
<1> HIDE DEF order
<1>5. /\ order \in [DOMAIN s -> DOMAIN s]
      /\ \A i, j \in DOMAIN s : order[i] = order[j] => i = j
      /\ \A w \in DOMAIN s : \E v \in DOMAIN s : order[v] = w
  BY <1>3 DEF Bijection, Injection, Surjection, IsInjective
<1>6. Range(Sort(s)) = Range(s)
  BY <1>4, <1>5 DEF Range
<1> QED
  BY <1>3, <1>4, <1>6

-----------------------------------------------------------------------------
(* Subsequence *)

Rank(I, i) == Cardinality({j \in I : j <= i})

\* The ranks of a finite set are the numbers up to its size, in its order.
LEMMA RankProperties ==
    ASSUME NEW I, I \subseteq Int, IsFiniteSet(I)
    PROVE  /\ \A i \in I : Rank(I, i) \in 1..Cardinality(I)
           /\ \A k \in 1..Cardinality(I) : \E i \in I : Rank(I, i) = k
           /\ \A i, j \in I : Rank(I, i) < Rank(I, j) => i < j
           /\ \A i, j \in I : Rank(I, i) = Rank(I, j) => i = j
<1> DEFINE upTo(i) == {j \in I : j <= i}
           n == Cardinality(I)
           rank == [i \in I |-> Rank(I, i)]
<1>1. n \in Nat
  BY FS_CardinalityType
<1>2. ASSUME NEW i \in I
      PROVE  IsFiniteSet(upTo(i)) /\ Cardinality(upTo(i)) \in 1..n
  <2>1. upTo(i) \in SUBSET I /\ upTo(i) # {}
    OBVIOUS
  <2> HIDE DEF upTo
  <2>2. IsFiniteSet(upTo(i)) /\ Cardinality(upTo(i)) <= n
    BY <2>1, FS_Subset
  <2>3. Cardinality(upTo(i)) \in Nat /\ Cardinality(upTo(i)) # 0
    BY <2>1, <2>2, FS_CardinalityType, FS_EmptySet
  <2> QED
    BY <1>1, <2>2, <2>3
<1>3. ASSUME NEW i \in I, NEW j \in I, i < j PROVE Rank(I, i) < Rank(I, j)
  <2>1. upTo(i) \in SUBSET upTo(j) /\ upTo(i) # upTo(j)
    <3>1. \A k \in I : k <= i => k <= j
      BY <1>3
    <3>2. j \in upTo(j) /\ j \notin upTo(i)
      BY <1>3
    <3> QED
      BY <3>1, <3>2, Zenon
  <2> HIDE DEF upTo
  <2>2. Cardinality(upTo(i)) <= Cardinality(upTo(j)) /\ Cardinality(upTo(i)) # Cardinality(upTo(j))
    BY <1>2, <2>1, FS_Subset
  <2>3. Cardinality(upTo(i)) \in 1..n /\ Cardinality(upTo(j)) \in 1..n
    BY <1>2
  <2>4. Cardinality(upTo(i)) < Cardinality(upTo(j))
    BY <1>1, <2>2, <2>3
  <2> QED
    BY <2>4 DEF Rank, upTo
<1>4. \A i \in I : Rank(I, i) \in 1..n
  BY <1>2 DEF Rank
<1>5. ASSUME NEW i \in I, NEW j \in I, Rank(I, i) = Rank(I, j) PROVE i = j
  <2>1. ~(i < j) /\ ~(j < i)
    BY <1>1, <1>3, <1>4, <1>5
  <2> QED
    BY <2>1
<1>6. rank \in Surjection(I, 1..n)
  <2>1. rank \in Injection(I, 1..n)
    BY <1>4, <1>5 DEF Injection, IsInjective
  <2>2. IsFiniteSet(1..n) /\ Cardinality(1..n) = n
    BY <1>1, FS_Interval
  <2> QED
    BY <2>1, <2>2, FS_Injection
<1>7. \A k \in 1..n : \E i \in I : Rank(I, i) = k
  BY <1>6 DEF Surjection
<1>8. ASSUME NEW i \in I, NEW j \in I, Rank(I, i) < Rank(I, j) PROVE i < j
  <2>1. ~(j < i) /\ i # j
    BY <1>1, <1>3, <1>4, <1>8
  <2> QED
    BY <2>1
<1> QED
  BY <1>4, <1>5, <1>7, <1>8

\* The slice holds the elements at the positions, and no others.
LEMMA SubsequenceProperties ==
    ASSUME NEW S, NEW s \in Seq(S), NEW I, I \subseteq DOMAIN s
    PROVE  /\ Subsequence(s, I) \in Seq(S)
           /\ Range(Subsequence(s, I)) = {s[i] : i \in I}
           /\ \E at \in [DOMAIN Subsequence(s, I) -> I] :
                /\ \A k \in DOMAIN Subsequence(s, I) : Subsequence(s, I)[k] = s[at[k]]
                /\ \A k, l \in DOMAIN Subsequence(s, I) : k < l => at[k] < at[l]
<1> DEFINE n == Cardinality(I)
           at == [k \in 1..n |-> CHOOSE i \in I : Rank(I, i) = k]
           t == Subsequence(s, I)
<1>1. DOMAIN s = 1..Len(s) /\ Len(s) \in Nat /\ \A i \in DOMAIN s : s[i] \in S
  BY LenProperties, ElementOfSeq
<1>2. IsFiniteSet(I) /\ I \subseteq Int
  <2>1. IsFiniteSet(1..Len(s))
    BY <1>1, FS_Interval
  <2>2. IsFiniteSet(I)
    BY <1>1, <2>1, FS_Subset
  <2> QED
    BY <1>1, <2>2
<1>3. /\ at \in [1..n -> I] /\ Range(at) = I
      /\ \A k, l \in 1..n : k < l => at[k] < at[l]
  <2>1. /\ \A k \in 1..n : \E i \in I : Rank(I, i) = k
        /\ \A i, j \in I : Rank(I, i) < Rank(I, j) => i < j
    BY <1>2, RankProperties
  <2>2. \A k \in 1..n : at[k] \in I /\ Rank(I, at[k]) = k
    BY <2>1
  <2>3. at \in [1..n -> I]
    BY <2>2
  <2> HIDE DEF at
  <2>4. \A k, l \in 1..n : k < l => at[k] < at[l]
    BY <2>1, <2>2
  <2>5. ASSUME NEW i \in I PROVE i \in Range(at)
    <3>1. Rank(I, i) \in 1..n
      BY <1>2, RankProperties
    <3>2. at[Rank(I, i)] \in I /\ Rank(I, at[Rank(I, i)]) = Rank(I, i)
      BY <2>2, <3>1
    <3>3. at[Rank(I, i)] = i
      BY <1>2, <3>2, RankProperties
    <3> QED
      BY <2>3, <3>1, <3>3 DEF Range
  <2> QED
    BY <2>3, <2>4, <2>5 DEF Range
<1>4. n \in Nat
  BY <1>2, FS_CardinalityType
<1>5. t = [k \in DOMAIN at |-> s[at[k]]]
  BY DEF Subsequence, Rank
<1> HIDE DEF at, n, t
<1>6. DOMAIN t = 1..n /\ \A k \in 1..n : t[k] = s[at[k]] /\ s[at[k]] \in S
  BY <1>1, <1>3, <1>5
<1>7. t \in Seq(S)
  <2>1. t = [k \in 1..n |-> t[k]]
    BY <1>3, <1>5
  <2>2. t \in [1..n -> S]
    BY <1>6, <2>1
  <2> QED
    BY <1>4, <2>2
<1>8. Range(t) = {s[i] : i \in I}
  BY <1>3, <1>6 DEF Range
<1>9. \E a \in [DOMAIN t -> I] :
        /\ \A k \in DOMAIN t : t[k] = s[a[k]]
        /\ \A k, l \in DOMAIN t : k < l => a[k] < a[l]
  BY <1>3, <1>6
<1> QED
  BY <1>7, <1>8, <1>9 DEF t

-----------------------------------------------------------------------------
(* Compact and RemoveFirst, of ascending slices *)

Ascending(s) == \A i, j \in DOMAIN s : i < j => s[i] < s[j]

\* Of a sorted slice, Compact leaves every element once.
LEMMA CompactProperties ==
    ASSUME NEW S, S \subseteq Int, NEW s \in Seq(S),
           \A i, j \in DOMAIN s : i < j => s[i] <= s[j]
    PROVE  /\ Compact(s) \in Seq(S)
           /\ Range(Compact(s)) = Range(s)
           /\ Ascending(Compact(s))
<1> DEFINE I == {i \in DOMAIN s : i = 1 \/ s[i] # s[i - 1]}
           t == Subsequence(s, I)
<1>1. DOMAIN s = 1..Len(s) /\ Len(s) \in Nat /\ \A i \in DOMAIN s : s[i] \in S /\ s[i] \in Int
  BY LenProperties, ElementOfSeq
<1>2. I \subseteq DOMAIN s
  OBVIOUS
<1>3. \A i \in I : i - 1 \in DOMAIN s => s[i] # s[i - 1]
  BY <1>1
<1>4. t \in Seq(S) /\ Range(t) = {s[i] : i \in I}
  <2> HIDE DEF I
  <2> QED
    BY <1>2, SubsequenceProperties
<1>5. PICK at \in [DOMAIN t -> I] :
        /\ \A k \in DOMAIN t : t[k] = s[at[k]]
        /\ \A k, l \in DOMAIN t : k < l => at[k] < at[l]
  <2> HIDE DEF I
  <2> QED
    BY <1>2, SubsequenceProperties
<1>6. ASSUME NEW i \in DOMAIN s PROVE \E m \in I : s[m] = s[i]
  <2> DEFINE T == {j \in DOMAIN s : s[j] = s[i]}
  <2>1. T \subseteq Nat /\ T # {}
    BY <1>1
  <2>2. PICK m \in T : \A k \in T : m <= k
    <3> HIDE DEF T
    <3> QED
      BY <2>1, LeastNumber
  <2>3. m \in DOMAIN s /\ s[m] = s[i]
    OBVIOUS
  <2>4. m = 1 \/ s[m] # s[m - 1]
    <3> SUFFICES ASSUME m # 1, s[m] = s[m - 1] PROVE FALSE
      OBVIOUS
    <3>1. m - 1 \in DOMAIN s
      BY <1>1, <2>3
    <3>2. m - 1 \in T
      BY <2>3, <3>1
    <3> QED
      BY <1>1, <2>2, <2>3, <3>2
  <2> QED
    BY <2>3, <2>4
<1> HIDE DEF I, t
<1>7. Range(t) = Range(s)
  BY <1>2, <1>4, <1>6 DEF Range
<1>8. ASSUME NEW k \in DOMAIN t, NEW l \in DOMAIN t, k < l PROVE t[k] < t[l]
  <2>1. /\ at[k] \in DOMAIN s /\ at[l] \in DOMAIN s /\ at[l] \in I /\ at[k] < at[l]
        /\ t[k] = s[at[k]] /\ t[l] = s[at[l]]
    BY <1>2, <1>5, <1>8
  <2>2. at[l] - 1 \in DOMAIN s /\ at[k] <= at[l] - 1
    BY <1>1, <2>1
  <2>3. s[at[k]] <= s[at[l] - 1]
    <3>1. CASE at[k] = at[l] - 1
      BY <1>1, <2>1, <3>1
    <3>2. CASE at[k] < at[l] - 1
      BY <2>1, <2>2, <3>2
    <3> QED
      BY <1>1, <2>1, <2>2, <3>1, <3>2
  <2>4. s[at[l] - 1] <= s[at[l]] /\ s[at[l]] # s[at[l] - 1]
    BY <1>1, <1>3, <2>1, <2>2
  <2>5. s[at[k]] \in Int /\ s[at[l] - 1] \in Int /\ s[at[l]] \in Int
    BY <1>1, <2>1, <2>2
  <2> QED
    BY <2>1, <2>3, <2>4, <2>5
<1>9. Ascending(t)
  BY <1>8 DEF Ascending
<1>10. Compact(s) = t
  BY DEF Compact, t, I
<1> QED
  BY <1>4, <1>7, <1>9, <1>10

\* From an ascending slice, one removal takes the element away altogether.
LEMMA RemoveFirstProperties ==
    ASSUME NEW S, S \subseteq Int, NEW s \in Seq(S), Ascending(s), NEW e
    PROVE  /\ RemoveFirst(s, e) \in Seq(S)
           /\ Range(RemoveFirst(s, e)) = Range(s) \ {e}
           /\ Ascending(RemoveFirst(s, e))
<1>1. DOMAIN s = 1..Len(s) /\ Len(s) \in Nat /\ \A i \in DOMAIN s : s[i] \in S /\ s[i] \in Int
  BY LenProperties, ElementOfSeq
<1>2. CASE \E i \in 1..Len(s) : s[i] = e
  <2> DEFINE I == {i \in 1..Len(s) : s[i] = e}
             m == Min(I)
             t == SubSeq(s, 1, m - 1) \o SubSeq(s, m + 1, Len(s))
  <2>1. RemoveFirst(s, e) = t
    BY <1>2 DEF RemoveFirst, RemoveAt, SelectInSeq
  <2>2. I \subseteq Nat /\ I # {}
    BY <1>1, <1>2
  <2>3. m \in I
    <3> HIDE DEF I
    <3>1. \E x \in I : \A y \in I : x <= y
      BY <2>2, LeastNumber
    <3> QED
      BY <3>1 DEF Min
  <2>4. m \in 1..Len(s) /\ s[m] = e
    BY <2>3
  <2> HIDE DEF m, I
  <2>5. /\ t \in Seq(S) /\ Len(t) = Len(s) - 1
        /\ \A i \in 1..(Len(s) - 1) : t[i] = IF i < m THEN s[i] ELSE s[i + 1]
    <3> DEFINE u == SubSeq(s, 1, m - 1)
               v == SubSeq(s, m + 1, Len(s))
    <3>1. u \in Seq(S) /\ Len(u) = m - 1 /\ \A i \in 1..(m - 1) : u[i] = s[i]
      <4>1. \A i \in 1..(m - 1) : s[i] \in S
        BY <1>1, <2>4
      <4> QED
        BY <1>1, <2>4, <4>1, SubSeqProperties
    <3>2. v \in Seq(S) /\ Len(v) = Len(s) - m /\ \A i \in 1..(Len(s) - m) : v[i] = s[m + i]
      <4>1. \A i \in (m + 1)..Len(s) : s[i] \in S
        BY <1>1, <2>4
      <4>2. /\ Len(v) = IF m + 1 <= Len(s) THEN Len(s) - (m + 1) + 1 ELSE 0
            /\ \A i \in 1..(Len(s) - (m + 1) + 1) : v[i] = s[(m + 1) + i - 1]
            /\ v \in Seq(S)
        BY <1>1, <2>4, <4>1, SubSeqProperties
      <4>3. m \in Int /\ Len(s) \in Int /\ m <= Len(s)
            /\ Len(s) - (m + 1) + 1 = Len(s) - m
            /\ \A i \in 1..(Len(s) - m) : (m + 1) + i - 1 = m + i
        BY <1>1, <2>4
      <4> HIDE DEF v
      <4>4. Len(v) = Len(s) - m
        <5>1. CASE m + 1 <= Len(s)
          BY <4>2, <4>3, <5>1
        <5>2. CASE ~(m + 1 <= Len(s))
          <6>1. Len(v) = 0
            BY <4>2, <5>2, Zenon
          <6>2. m \in Int /\ Len(s) \in Int /\ m <= Len(s)
            BY <4>3
          <6>3. Len(s) - m = 0
            BY <5>2, <6>2
          <6> QED
            BY <6>1, <6>3
        <5> QED
          BY <5>1, <5>2
      <4>5. \A i \in 1..(Len(s) - m) : v[i] = s[m + i]
        BY <4>2, <4>3
      <4> QED
        BY <4>2, <4>4, <4>5
    <3> HIDE DEF u, v
    <3>3. /\ u \o v \in Seq(S) /\ Len(u \o v) = Len(u) + Len(v)
          /\ \A i \in 1..(Len(u) + Len(v)) :
                (u \o v)[i] = IF i <= Len(u) THEN u[i] ELSE v[i - Len(u)]
      BY <3>1, <3>2, ConcatProperties
    <3>4. t = u \o v
      BY DEF u, v
    <3>5. ASSUME NEW i \in 1..(Len(s) - 1) PROVE t[i] = IF i < m THEN s[i] ELSE s[i + 1]
      <4>1. i \in 1..(Len(u) + Len(v))
        BY <1>1, <2>4, <3>1, <3>2
      <4>2. CASE i < m
        <5>1. i <= Len(u) /\ i \in 1..(m - 1)
          BY <1>1, <2>4, <3>1, <4>2
        <5> QED
          BY <3>1, <3>3, <3>4, <4>1, <4>2, <5>1
      <4>3. CASE ~(i < m)
        <5>1. ~(i <= Len(u)) /\ i - Len(u) \in 1..(Len(s) - m) /\ m + (i - Len(u)) = i + 1
          BY <1>1, <2>4, <3>1, <4>3
        <5>2. t[i] = v[i - Len(u)]
          BY <3>3, <3>4, <4>1, <5>1
        <5>3. v[i - Len(u)] = s[m + (i - Len(u))]
          BY <3>2, <5>1
        <5> QED
          BY <4>3, <5>1, <5>2, <5>3
      <4> QED
        BY <4>2, <4>3
    <3>6. Len(t) = Len(s) - 1
      <4> HIDE DEF t
      <4>1. Len(t) = Len(u) + Len(v)
        BY <3>3, <3>4, Zenon
      <4> QED
        BY <1>1, <2>4, <3>1, <3>2, <4>1
    <3> QED
      BY <3>3, <3>4, <3>5, <3>6
  <2> HIDE DEF t
  <2>6. DOMAIN t = 1..(Len(s) - 1)
    BY <1>1, <2>5, LenProperties
  <2>7. Ascending(t)
    <3> SUFFICES ASSUME NEW i \in DOMAIN t, NEW j \in DOMAIN t, i < j PROVE t[i] < t[j]
      BY DEF Ascending
    <3>1. /\ i \in DOMAIN s /\ i + 1 \in DOMAIN s /\ j \in DOMAIN s /\ j + 1 \in DOMAIN s
          /\ i < j + 1 /\ i + 1 < j + 1 /\ (j < m => i < m)
      BY <1>1, <2>4, <2>6
    <3>2. s[i] < s[j] /\ s[i] < s[j + 1] /\ s[i + 1] < s[j + 1]
      BY <3>1 DEF Ascending
    <3> QED
      BY <2>5, <2>6, <3>1, <3>2
  <2>8. \A i \in DOMAIN s : s[i] = e => i = m
    BY <1>1, <2>4 DEF Ascending
  <2>9. ASSUME NEW i \in DOMAIN s, s[i] # e PROVE \E j \in DOMAIN t : t[j] = s[i]
    <3>1. CASE i < m
      BY <1>1, <2>4, <2>5, <2>6, <3>1
    <3>2. CASE i > m
      <4>1. i - 1 \in 1..(Len(s) - 1) /\ ~(i - 1 < m) /\ (i - 1) + 1 = i
        BY <1>1, <2>4, <3>2
      <4> QED
        BY <2>5, <2>6, <4>1
    <3> QED
      BY <1>1, <2>4, <2>9, <3>1, <3>2
  <2>10. ASSUME NEW j \in DOMAIN t PROVE \E i \in DOMAIN s : s[i] # e /\ t[j] = s[i]
    <3>1. CASE j < m
      BY <1>1, <2>4, <2>5, <2>6, <2>8, <3>1
    <3>2. CASE j >= m
      <4>1. j + 1 \in DOMAIN s /\ j + 1 # m /\ t[j] = s[j + 1]
        BY <1>1, <2>4, <2>5, <2>6, <3>2
      <4> QED
        BY <2>8, <4>1
    <3> QED
      BY <1>1, <2>4, <2>6, <3>1, <3>2
  <2>11. Range(t) = Range(s) \ {e}
    BY <2>9, <2>10 DEF Range
  <2> QED
    BY <2>1, <2>5, <2>7, <2>11
<1>3. CASE ~\E i \in 1..Len(s) : s[i] = e
  <2>1. RemoveFirst(s, e) = s
    BY <1>3 DEF RemoveFirst
  <2>2. Range(s) \ {e} = Range(s)
    BY <1>1, <1>3 DEF Range
  <2> QED
    BY <2>1, <2>2
<1> QED
  BY <1>2, <1>3
=============================================================================
