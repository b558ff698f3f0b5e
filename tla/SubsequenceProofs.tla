-------------------------- MODULE SubsequenceProofs --------------------------
(***************************************************************************)
(* What a filter leaves of a sequence is a subsequence as long as what was  *)
(* kept; what is taken from a subsequence, or added on both sides, is one.  *)
(***************************************************************************)
EXTENDS Subsequences, SequencesExt, FiniteSetTheorems, TLAPS

----------------------------------------------------------------------------
(* Filters.                                                                 *)

\* Of n positions, the k-th is there and unlike the others.
LEMMA Ranks ==
  ASSUME NEW n \in Nat, NEW I \in SUBSET (1..n)
  PROVE  /\ IsFiniteSet(I) /\ Cardinality(I) \in Nat
         /\ \A k \in 1..Cardinality(I) :
               Nth(I, k) \in I /\ Cardinality({j \in I : j <= Nth(I, k)}) = k
  <1> DEFINE m == Cardinality(I)
             To(i) == {j \in I : j <= i}
             rank == [i \in I |-> Cardinality(To(i))]
             R == Range(rank)
  <1>1. IsFiniteSet(I) /\ m \in Nat /\ I \subseteq Int
    <2>1. IsFiniteSet(1..n)
      BY FS_Interval
    <2>2. IsFiniteSet(I)
      BY <2>1, FS_Subset
    <2>3. \A i \in I : i \in Int
      OBVIOUS
    <2> QED BY <2>2, <2>3, FS_CardinalityType
  <1>2. \A i \in I : IsFiniteSet(To(i)) /\ Cardinality(To(i)) \in 1..m
    <2> SUFFICES ASSUME NEW i \in I
                 PROVE  IsFiniteSet(To(i)) /\ Cardinality(To(i)) \in 1..m
      OBVIOUS
    <2>1. To(i) \in SUBSET I /\ i \in To(i)
      OBVIOUS
    <2>2. IsFiniteSet(To(i)) /\ Cardinality(To(i)) <= m /\ Cardinality(To(i)) \in Nat
      BY <1>1, <2>1, FS_Subset, FS_CardinalityType
    <2>3. Cardinality(To(i)) # 0
      BY <2>1, <2>2, FS_EmptySet
    <2> HIDE DEF To, m
    <2> QED BY <1>1, <2>2, <2>3
  <1>3. \A i, j \in I : i < j => rank[i] < rank[j]
    <2> SUFFICES ASSUME NEW i \in I, NEW j \in I, i < j
                 PROVE  Cardinality(To(i)) < Cardinality(To(j))
      OBVIOUS
    <2>1. \A k \in I : k <= i => k <= j
      BY <1>1
    <2>2. j <= j /\ ~ (j <= i)
      BY <1>1
    <2>3. To(i) \in SUBSET To(j) /\ j \in To(j) /\ j \notin To(i)
      BY <2>1, <2>2
    <2>4. Cardinality(To(i)) <= Cardinality(To(j))
      BY <1>2, <2>3, FS_Subset
    <2>5. Cardinality(To(i)) # Cardinality(To(j))
      BY <1>2, <2>3, FS_Subset
    <2> HIDE DEF To
    <2> QED BY <1>2, <2>4, <2>5
  <1>4. rank \in [I -> 1..m] /\ R \in SUBSET (1..m)
    BY <1>2 DEF Range
  <1>5. rank \in Surjection(I, R)
    BY DEF Surjection, Range
  <1>6. rank \in Injection(I, R)
    <2>1. \A i, j \in I : rank[i] = rank[j] => i = j
      <3> SUFFICES ASSUME NEW i \in I, NEW j \in I, rank[i] = rank[j], i # j
                   PROVE  FALSE
        OBVIOUS
      <3>1. i < j \/ j < i
        OBVIOUS
      <3>2. rank[i] \in 1..m /\ rank[j] \in 1..m
        BY <1>4
      <3> HIDE DEF rank, m
      <3> QED BY <1>1, <1>3, <3>1, <3>2
    <2>2. rank \in [I -> R]
      BY DEF Range
    <2> QED BY <2>1, <2>2 DEF Injection, IsInjective
  <1>7. Cardinality(R) = m
    BY <1>1, <1>5, <1>6, FS_Surjection
  <1>8. R = 1..m
    <2>1. IsFiniteSet(1..m) /\ Cardinality(1..m) = m
      <3> HIDE DEF m
      <3> QED BY <1>1, FS_Interval
    <2> QED BY <1>4, <1>7, <2>1, FS_Subset
  <1>9. ASSUME NEW k \in 1..m
        PROVE  Nth(I, k) \in I /\ Cardinality(To(Nth(I, k))) = k
    <2>1. \E i \in I : Cardinality(To(i)) = k
      <3>1. PICK i \in I : rank[i] = k
        BY <1>8 DEF Range
      <3> QED BY <3>1
    <2> QED BY <2>1 DEF Nth
  <1> QED BY <1>1, <1>9

\* The positions are taken in order.
LEMMA NthGrows ==
  ASSUME NEW n \in Nat, NEW I \in SUBSET (1..n),
         NEW k \in 1..Cardinality(I), NEW l \in 1..Cardinality(I), k < l
  PROVE  Nth(I, k) < Nth(I, l)
  <1> DEFINE p == Nth(I, k)
             q == Nth(I, l)
             P == {j \in I : j <= p}
             Q == {j \in I : j <= q}
  <1>1. p \in I /\ q \in I /\ Cardinality(P) = k /\ Cardinality(Q) = l /\ IsFiniteSet(I)
    BY Ranks
  <1>2. p \in Int /\ q \in Int /\ \A i \in I : i \in Int
    <2>1. \A i \in I : i \in Int
      OBVIOUS
    <2> HIDE DEF p, q
    <2> QED BY <1>1, <2>1
  <1>3. ~ q <= p
    <2> HIDE DEF p, q
    <2> SUFFICES ASSUME q <= p PROVE FALSE
      OBVIOUS
    <2>1. \A i \in I : i <= q => i <= p
      BY <1>2
    <2>2. Q \in SUBSET P /\ P \in SUBSET I
      BY <2>1
    <2>3. IsFiniteSet(P)
      BY <1>1, <2>2, FS_Subset
    <2>4. Cardinality(Q) <= Cardinality(P)
      BY <2>2, <2>3, FS_Subset
    <2> QED BY <1>1, <2>4
  <1> HIDE DEF p, q
  <1>4. p < q
    BY <1>2, <1>3
  <1> QED BY <1>4 DEF p, q

\* What a filter leaves is left in order.
LEMMA PickedLeft ==
  ASSUME NEW S, NEW s \in Seq(S), NEW I \in SUBSET DOMAIN s
  PROVE  /\ Subsequence(Picked(s, I), s) /\ Picked(s, I) \in Seq(S)
         /\ Len(Picked(s, I)) = Cardinality(I)
  <1> DEFINE m == Cardinality(I)
             f == [k \in 1..m |-> Nth(I, k)]
  <1>1. DOMAIN s = 1..Len(s) /\ Len(s) \in Nat
    OBVIOUS
  <1>2. m \in Nat /\ \A k \in 1..m : Nth(I, k) \in I
    BY <1>1, Ranks
  <1> HIDE DEF m
  <1>3. DOMAIN Picked(s, I) = 1..m /\ \A k \in 1..m : Picked(s, I)[k] = s[f[k]]
    BY DEF Picked, m
  <1>4. f \in [1..m -> DOMAIN s]
    BY <1>2
  <1>5. \A k, l \in 1..m : k < l => f[k] < f[l]
    BY <1>1, NthGrows DEF m
  <1>6. Picked(s, I) = [k \in 1..m |-> s[Nth(I, k)]]
    BY DEF Picked, m
  <1>7. Picked(s, I) \in Seq(S) /\ Len(Picked(s, I)) = m
    BY <1>2, <1>6
  <1>8. Subsequence(Picked(s, I), s)
    BY <1>3, <1>4, <1>5 DEF Subsequence
  <1> QED BY <1>7, <1>8 DEF m

\* A filter that keeps the last position ends with it.
LEMMA PickedLast ==
  ASSUME NEW S, NEW s \in Seq(S), NEW I \in SUBSET DOMAIN s, Len(s) \in I
  PROVE  Picked(s, I) # <<>> /\ Last(Picked(s, I)) = s[Len(s)]
  <1> DEFINE m == Cardinality(I)
             n == Len(s)
  <1>1. DOMAIN s = 1..n /\ n \in Nat
    OBVIOUS
  <1>2. IsFiniteSet(I) /\ m \in Nat /\ m # 0
    BY <1>1, Ranks, FS_EmptySet
  <1>3. Nth(I, m) \in I /\ Cardinality({j \in I : j <= Nth(I, m)}) = m
    <2>1. m \in 1..m
      BY <1>2
    <2> QED BY <1>1, <2>1, Ranks
  <1>4. {j \in I : j <= Nth(I, m)} = I
    BY <1>2, <1>3, FS_Subset
  <1>5. Nth(I, m) = n
    BY <1>1, <1>3, <1>4
  <1>6. Len(Picked(s, I)) = m
    BY PickedLeft
  <1>7. Picked(s, I)[m] = s[n]
    <2>1. m \in 1..m
      BY <1>2
    <2> QED BY <1>5, <2>1 DEF Picked
  <1> QED BY <1>2, <1>6, <1>7 DEF Last

----------------------------------------------------------------------------
(* Subsequences.                                                            *)

\* One more element may be left out.
LEMMA LeftOut ==
  ASSUME NEW S, NEW s \in Seq(S), NEW t \in Seq(S), NEW x \in S, Subsequence(s, t)
  PROVE  Subsequence(s, Append(t, x))
  <1>1. PICK f \in [DOMAIN s -> DOMAIN t] :
            /\ \A i, j \in DOMAIN s : i < j => f[i] < f[j]
            /\ \A i \in DOMAIN s : s[i] = t[f[i]]
    BY DEF Subsequence
  <1>2. /\ DOMAIN t \subseteq DOMAIN Append(t, x)
        /\ \A i \in DOMAIN t : Append(t, x)[i] = t[i]
    OBVIOUS
  <1>3. f \in [DOMAIN s -> DOMAIN Append(t, x)]
    BY <1>2
  <1> QED BY <1>1, <1>2, <1>3 DEF Subsequence

\* One more element may be kept.
LEMMA TakenIn ==
  ASSUME NEW S, NEW s \in Seq(S), NEW t \in Seq(S), NEW x \in S, Subsequence(s, t)
  PROVE  Subsequence(Append(s, x), Append(t, x))
  <1> DEFINE m == Len(s) + 1
             n == Len(t) + 1
  <1>1. PICK f \in [DOMAIN s -> DOMAIN t] :
            /\ \A i, j \in DOMAIN s : i < j => f[i] < f[j]
            /\ \A i \in DOMAIN s : s[i] = t[f[i]]
    BY DEF Subsequence
  <1>2. /\ DOMAIN s = 1..Len(s) /\ Len(s) \in Nat
        /\ DOMAIN Append(s, x) = 1..m
        /\ \A i \in 1..Len(s) : Append(s, x)[i] = s[i]
        /\ Append(s, x)[m] = x
    OBVIOUS
  <1>3. /\ DOMAIN t = 1..Len(t) /\ Len(t) \in Nat
        /\ DOMAIN Append(t, x) = 1..n
        /\ \A i \in 1..Len(t) : Append(t, x)[i] = t[i]
        /\ Append(t, x)[n] = x
    OBVIOUS
  <1> DEFINE g == [i \in 1..m |-> IF i = m THEN n ELSE f[i]]
  <1>4. \A i \in 1..Len(s) : g[i] = f[i] /\ f[i] \in 1..Len(t)
    BY <1>1, <1>2, <1>3
  <1>5. g[m] = n
    BY <1>2
  <1> HIDE DEF g
  <1>6. \A i \in 1..m : i = m \/ i \in 1..Len(s)
    BY <1>2
  <1>7. g \in [1..m -> 1..n]
    <2>1. \A i \in 1..m : g[i] \in 1..n
      BY <1>3, <1>4, <1>5, <1>6
    <2> QED BY <2>1 DEF g
  <1>8. \A i, j \in 1..m : i < j => g[i] < g[j]
    <2> SUFFICES ASSUME NEW i \in 1..m, NEW j \in 1..m, i < j
                 PROVE  g[i] < g[j]
      OBVIOUS
    <2>1. i \in 1..Len(s) /\ g[i] = f[i] /\ f[i] \in 1..Len(t)
      BY <1>2, <1>4
    <2>2. CASE j = m
      BY <1>3, <1>5, <2>1, <2>2
    <2>3. CASE j \in 1..Len(s)
      BY <1>1, <1>2, <1>4, <2>1, <2>3
    <2> QED BY <1>6, <2>2, <2>3
  <1>9. \A i \in 1..m : Append(s, x)[i] = Append(t, x)[g[i]]
    BY <1>1, <1>2, <1>3, <1>4, <1>5, <1>6
  <1> QED BY <1>2, <1>3, <1>7, <1>8, <1>9 DEF Subsequence

\* The first n elements are those before the n-th and the n-th.
LEMMA UpTo ==
  ASSUME NEW S, NEW s \in Seq(S), NEW n \in 1..Len(s)
  PROVE  /\ s[n] \in S /\ SubSeq(s, 1, n - 1) \in Seq(S)
         /\ n + 1 \in 1..Len(s) + 1
         /\ SubSeq(s, 1, (n + 1) - 1) = Append(SubSeq(s, 1, n - 1), s[n])
  <1>1. s[n] \in S /\ n + 1 \in 1..Len(s) + 1 /\ (n + 1) - 1 = n
    OBVIOUS
  <1>2. SubSeq(s, 1, n - 1) \in Seq(S)
    OBVIOUS
  <1>3. SubSeq(s, 1, n) = Append(SubSeq(s, 1, n - 1), s[n])
    OBVIOUS
  <1> QED BY <1>1, <1>2, <1>3

\* Nothing is a subsequence of anything.
LEMMA NothingLeft ==
  ASSUME NEW t
  PROVE  Subsequence(<<>>, t)
  <1> DEFINE f == [i \in DOMAIN <<>> |-> t[i]]
  <1>1. DOMAIN <<>> = {}
    OBVIOUS
  <1>2. f \in [DOMAIN <<>> -> DOMAIN t]
    BY <1>1
  <1>3. /\ \A i, j \in DOMAIN <<>> : i < j => f[i] < f[j]
        /\ \A i \in DOMAIN <<>> : <<>>[i] = t[f[i]]
    BY <1>1
  <1> HIDE DEF f
  <1> QED BY <1>2, <1>3 DEF Subsequence

\* What is taken from a subsequence is taken from the sequence.
LEMMA LeftOfLeft ==
  ASSUME NEW S, NEW r \in Seq(S), NEW s \in Seq(S), NEW t \in Seq(S),
         Subsequence(r, s), Subsequence(s, t)
  PROVE  Subsequence(r, t)
  <1>1. PICK f \in [DOMAIN r -> DOMAIN s] :
            /\ \A i, j \in DOMAIN r : i < j => f[i] < f[j]
            /\ \A i \in DOMAIN r : r[i] = s[f[i]]
    BY DEF Subsequence
  <1>2. PICK g \in [DOMAIN s -> DOMAIN t] :
            /\ \A i, j \in DOMAIN s : i < j => g[i] < g[j]
            /\ \A i \in DOMAIN s : s[i] = t[g[i]]
    BY DEF Subsequence
  <1> DEFINE h == [i \in DOMAIN r |-> g[f[i]]]
  <1>3. h \in [DOMAIN r -> DOMAIN t]
    OBVIOUS
  <1>4. \A i, j \in DOMAIN r : i < j => h[i] < h[j]
    BY <1>1, <1>2
  <1>5. \A i \in DOMAIN r : r[i] = t[h[i]]
    BY <1>1, <1>2
  <1> HIDE DEF h
  <1> QED BY <1>3, <1>4, <1>5 DEF Subsequence

\* A subsequence stays one when the sequence goes on.
LEMMA LeftOfLonger ==
  ASSUME NEW S, NEW s \in Seq(S), NEW t \in Seq(S), NEW u \in Seq(S),
         Subsequence(s, t), IsPrefix(t, u)
  PROVE  Subsequence(s, u)
  <1>1. DOMAIN t \subseteq DOMAIN u /\ \A i \in DOMAIN t : t[i] = u[i]
    BY DEF IsPrefix
  <1>2. PICK f \in [DOMAIN s -> DOMAIN t] :
            /\ \A i, j \in DOMAIN s : i < j => f[i] < f[j]
            /\ \A i \in DOMAIN s : s[i] = t[f[i]]
    BY DEF Subsequence
  <1>3. f \in [DOMAIN s -> DOMAIN u] /\ \A i \in DOMAIN s : s[i] = u[f[i]]
    BY <1>1, <1>2
  <1> QED BY <1>2, <1>3 DEF Subsequence

=============================================================================
