------------------------- MODULE SubsequenceProofs -------------------------
(***************************************************************************)
(* What taking rows out of a list does to it: the lemmas about lists that  *)
(* the proofs about the panel's rows rest on.                              *)
(***************************************************************************)
EXTENDS Subsequences, SequencesExt, SequenceTheorems, FiniteSetTheorems, TLAPS

(* Positions of a list have different places among any of them, and every *)
(* place is one's.                                                         *)
LEMMA RankIsBijection ==
  ASSUME NEW n \in Nat, NEW I \in SUBSET (1 .. n)
  PROVE  /\ IsFiniteSet(I) /\ Cardinality(I) \in Nat
         /\ \A i \in I : Rank(I, i) \in 1 .. Cardinality(I)
         /\ \A i, j \in I : i < j <=> Rank(I, i) < Rank(I, j)
         /\ \A k \in 1 .. Cardinality(I) : \E i \in I : Rank(I, i) = k
<1> DEFINE Upto(i) == {j \in I : j <= i}
<1>1. IsFiniteSet(I) /\ Cardinality(I) \in Nat
  <2>1. IsFiniteSet(1 .. n)
    BY FS_Interval
  <2>2. IsFiniteSet(I)
    BY <2>1, FS_Subset
  <2> QED
    BY <2>2, FS_CardinalityType
<1>2. \A i \in I : IsFiniteSet(Upto(i)) /\ Cardinality(Upto(i)) \in Nat
                   /\ Cardinality(Upto(i)) <= Cardinality(I)
  <2> SUFFICES ASSUME NEW i \in I
               PROVE  IsFiniteSet(Upto(i)) /\ Cardinality(Upto(i)) \in Nat
                      /\ Cardinality(Upto(i)) <= Cardinality(I)
    OBVIOUS
  <2>1. Upto(i) \in SUBSET I
    OBVIOUS
  <2> QED
    BY <2>1, <1>1, FS_Subset, FS_CardinalityType
<1>3. \A i \in I : Cardinality(Upto(i)) # 0
  <2> SUFFICES ASSUME NEW i \in I PROVE Cardinality(Upto(i)) # 0
    OBVIOUS
  <2>1. i \in Upto(i)
    OBVIOUS
  <2> QED
    BY <2>1, <1>2, FS_EmptySet
<1>4. \A i \in I : Rank(I, i) \in 1 .. Cardinality(I)
  BY <1>1, <1>2, <1>3 DEF Rank
<1>5. ASSUME NEW i \in I, NEW j \in I, i < j
      PROVE  Rank(I, i) < Rank(I, j)
  <2>1. Upto(i) \in SUBSET Upto(j) /\ Upto(i) # Upto(j)
    <3>1. \A k \in Upto(i) : k \in Upto(j)
      <4> SUFFICES ASSUME NEW k \in I, k <= i PROVE k <= j
        OBVIOUS
      <4>1. i \in Int /\ j \in Int /\ k \in Int
        OBVIOUS
      <4> QED
        BY <4>1, <1>5
    <3>2. j \in Upto(j) /\ j \notin Upto(i)
      BY <1>5
    <3> QED
      BY <3>1, <3>2
  <2>2. Cardinality(Upto(i)) <= Cardinality(Upto(j))
        /\ Cardinality(Upto(i)) # Cardinality(Upto(j))
    BY <2>1, <1>2, FS_Subset
  <2> QED
    BY <2>2, <1>2 DEF Rank
<1>6. ASSUME NEW i \in I, NEW j \in I, Rank(I, i) < Rank(I, j)
      PROVE  i < j
  <2>1. ~(j < i) /\ j # i
    BY <1>5, <1>6, <1>4
  <2> QED
    BY <2>1
<1>7. \A k \in 1 .. Cardinality(I) : \E i \in I : Rank(I, i) = k
  <2> DEFINE f == [i \in I |-> Rank(I, i)]
             T == 1 .. Cardinality(I)
  <2>1. f \in Injection(I, T)
    <3>1. f \in [I -> T]
      BY <1>4
    <3>2. \A i, j \in I : f[i] = f[j] => i = j
      <4> SUFFICES ASSUME NEW i \in I, NEW j \in I, Rank(I, i) = Rank(I, j)
                   PROVE  i = j
        OBVIOUS
      <4>1. ~(i < j) /\ ~(j < i)
        BY <1>5, <1>4
      <4> QED
        BY <4>1
    <3> QED
      BY <3>1, <3>2, Zenon DEF Injection, IsInjective
  <2>2. IsFiniteSet(T) /\ Cardinality(T) = Cardinality(I)
    BY <1>1, FS_Interval
  <2>3. f \in Surjection(I, T)
    BY <2>1, <2>2, FS_Injection
  <2> QED
    BY <2>3 DEF Surjection
<1> QED
  BY <1>1, <1>4, <1>5, <1>6, <1>7

(* What is at a position that is kept is in the rest, at the position's    *)
(* place; what is in the rest was at the position of its place; and the    *)
(* rest is in the order of the list.                                       *)
LEMMA SubsequenceProperties ==
  ASSUME NEW S, NEW q \in Seq(S), NEW I \in SUBSET DOMAIN q
  PROVE  /\ Subsequence(q, I) \in Seq(S)
         /\ Len(Subsequence(q, I)) = Cardinality(I)
         /\ DOMAIN Subsequence(q, I) = 1 .. Cardinality(I)
         /\ Cardinality(I) \in Nat
         /\ \A k \in DOMAIN Subsequence(q, I) :
               /\ Position(I, k) \in I
               /\ Subsequence(q, I)[k] = q[Position(I, k)]
         /\ \A k, l \in DOMAIN Subsequence(q, I) :
               k < l <=> Position(I, k) < Position(I, l)
         /\ \A i \in I : /\ Rank(I, i) \in DOMAIN Subsequence(q, I)
                         /\ Position(I, Rank(I, i)) = i
                         /\ Subsequence(q, I)[Rank(I, i)] = q[i]
<1>1. I \in SUBSET (1 .. Len(q)) /\ Len(q) \in Nat
  BY LenProperties
<1>2. /\ IsFiniteSet(I) /\ Cardinality(I) \in Nat
      /\ \A i \in I : Rank(I, i) \in 1 .. Cardinality(I)
      /\ \A i, j \in I : i < j <=> Rank(I, i) < Rank(I, j)
      /\ \A k \in 1 .. Cardinality(I) : \E i \in I : Rank(I, i) = k
  BY <1>1, RankIsBijection
<1>3. \A k \in 1 .. Cardinality(I) : Position(I, k) \in I /\ Rank(I, Position(I, k)) = k
  <2> SUFFICES ASSUME NEW k \in 1 .. Cardinality(I)
               PROVE  Position(I, k) \in I /\ Rank(I, Position(I, k)) = k
    OBVIOUS
  <2>1. \E i \in I : Rank(I, i) = k
    BY <1>2
  <2> QED
    BY <2>1, Zenon DEF Position
<1>4. \A i \in I : q[i] \in S
  BY <1>1, ElementOfSeq
<1>5. /\ Subsequence(q, I) \in Seq(S)
      /\ Len(Subsequence(q, I)) = Cardinality(I)
      /\ DOMAIN Subsequence(q, I) = 1 .. Cardinality(I)
  <2> DEFINE e(k) == q[Position(I, k)]
  <2>1. \A k \in 1 .. Cardinality(I) : e(k) \in S
    BY <1>3, <1>4
  <2> HIDE DEF e
  <2>2. [k \in 1 .. Cardinality(I) |-> e(k)] \in Seq(S)
    BY <2>1, <1>2, IsASeq
  <2>3. Subsequence(q, I) = [k \in 1 .. Cardinality(I) |-> e(k)]
    BY DEF Subsequence, e
  <2> QED
    BY <2>2, <2>3, <1>2, LenProperties
<1>6. \A k \in 1 .. Cardinality(I) : Subsequence(q, I)[k] = q[Position(I, k)]
  BY DEF Subsequence
<1>7. \A k, l \in 1 .. Cardinality(I) : k < l <=> Position(I, k) < Position(I, l)
  BY <1>2, <1>3
<1>8. \A i \in I : Position(I, Rank(I, i)) = i
  <2> SUFFICES ASSUME NEW i \in I PROVE Position(I, Rank(I, i)) = i
    OBVIOUS
  <2> DEFINE j == Position(I, Rank(I, i))
  <2>1. j \in I /\ Rank(I, j) = Rank(I, i)
    BY <1>2, <1>3
  <2>2. ~(i < j) /\ ~(j < i)
    BY <2>1, <1>2
  <2> QED
    BY <2>1, <2>2, <1>1
<1> QED
  BY <1>2, <1>3, <1>5, <1>6, <1>7, <1>8

(* Taking one element out leaves the others, in their order.               *)
LEMMA RemoveAtProperties ==
  ASSUME NEW S, NEW q \in Seq(S), NEW i \in DOMAIN q
  PROVE  /\ RemoveAt(q, i) \in Seq(S)
         /\ Len(RemoveAt(q, i)) = Len(q) - 1
         /\ \A k \in 1 .. Len(q) - 1 :
               RemoveAt(q, i)[k] = IF k < i THEN q[k] ELSE q[k + 1]
<1>1. /\ Len(q) \in Nat /\ DOMAIN q = 1 .. Len(q) /\ i \in 1 .. Len(q)
      /\ \A k \in 1 .. Len(q) : q[k] \in S
  BY LenProperties, ElementOfSeq
<1> DEFINE s == SubSeq(q, 1, i - 1)
           t == SubSeq(q, i + 1, Len(q))
<1>2. /\ s \in Seq(S) /\ Len(s) = i - 1
      /\ \A k \in 1 .. i - 1 : s[k] = q[k]
  BY <1>1, SubSeqProperties, 1 \in Int, i - 1 \in Int
<1>3. /\ t \in Seq(S) /\ Len(t) = Len(q) - i
      /\ \A k \in 1 .. Len(q) - i : t[k] = q[k + i]
  <2>1. i + 1 \in Int /\ Len(q) \in Int /\ \A k \in i + 1 .. Len(q) : q[k] \in S
    BY <1>1
  <2>2. /\ t \in Seq(S)
        /\ Len(t) = IF i + 1 <= Len(q) THEN Len(q) - (i + 1) + 1 ELSE 0
        /\ \A k \in 1 .. Len(q) - (i + 1) + 1 : t[k] = q[i + 1 + k - 1]
    BY <2>1, SubSeqProperties
  <2> QED
    BY <2>2, <1>1
<1> HIDE DEF s, t
<1>4. /\ s \o t \in Seq(S) /\ Len(s \o t) = Len(s) + Len(t)
      /\ \A k \in 1 .. Len(s) + Len(t) : (s \o t)[k] = IF k <= Len(s) THEN s[k] ELSE t[k - Len(s)]
  BY <1>2, <1>3, ConcatProperties
<1>5. RemoveAt(q, i) = s \o t
  BY DEF RemoveAt, s, t
<1>6. ASSUME NEW k \in 1 .. Len(q) - 1
      PROVE  (s \o t)[k] = IF k < i THEN q[k] ELSE q[k + 1]
  <2>1. k \in 1 .. Len(s) + Len(t)
    BY <1>1, <1>2, <1>3
  <2>2. CASE k < i
    BY <2>1, <2>2, <1>1, <1>2, <1>4
  <2>3. CASE ~(k < i)
    <3>1. (s \o t)[k] = t[k - (i - 1)]
      BY <2>1, <2>3, <1>1, <1>2, <1>4
    <3>2. k - (i - 1) \in 1 .. Len(q) - i
      BY <2>3, <1>1
    <3>3. t[k - (i - 1)] = q[(k - (i - 1)) + i]
      BY <3>2, <1>3
    <3>4. (k - (i - 1)) + i = k + 1
      BY <1>1
    <3> QED
      BY <3>1, <3>3, <3>4, <2>3
  <2> QED
    BY <2>2, <2>3
<1>7. Len(s) + Len(t) = Len(q) - 1
  BY <1>1, <1>2, <1>3
<1> QED
  BY <1>4, <1>5, <1>6, <1>7
=============================================================================
