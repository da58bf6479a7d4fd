------------------------- MODULE SubsequenceProofs -------------------------
(***************************************************************************)
(* What Pick returns: a sequence of the elements at the positions picked,  *)
(* all of them, in the order they had.                                     *)
(***************************************************************************)
EXTENDS Subsequence, SequenceTheorems, FiniteSetTheorems, FunctionTheorems, TLAPS

(***************************************************************************)
(* The places the elements that stay get are 1, 2, ... without a gap and   *)
(* in the order of the sequence: Place is injective into 1..n, where n is  *)
(* how many are kept, hence onto.                                          *)
(***************************************************************************)
LEMMA Places ==
  ASSUME NEW L \in Nat, NEW K \in SUBSET (1..L)
  PROVE  LET n == Cardinality(K)
         IN  /\ n \in Nat /\ n <= L
             /\ \A i \in K : Place(K, i) \in 1..n
             /\ \A i, j \in K : i < j => Place(K, i) < Place(K, j)
             /\ \A k \in 1..n : \E i \in K : Place(K, i) = k
<1> DEFINE n == Cardinality(K)
           Below(i) == {j \in K : j <= i}
           at == [i \in K |-> Place(K, i)]
<1>1. K \subseteq 1..L /\ L \in Nat /\ \A i \in K : i \in Nat
  OBVIOUS
<1>2. IsFiniteSet(K)
  <2>1. IsFiniteSet(1..L)
    BY <1>1, FS_Interval
  <2> QED BY <1>1, <2>1, FS_Subset
<1>3. n \in Nat /\ n <= L
  <2>1. IsFiniteSet(1..L) /\ Cardinality(1..L) = L
    BY <1>1, FS_Interval
  <2> QED BY <1>1, <1>2, <2>1, FS_CardinalityType, FS_Subset
<1>4. ASSUME NEW i \in K
      PROVE  /\ IsFiniteSet(Below(i)) /\ Cardinality(Below(i)) \in 1..n
             /\ Cardinality(Below(i)) \in Nat
  <2>1. Below(i) \in SUBSET K /\ i \in Below(i)
    BY <1>1
  <2>2. IsFiniteSet(Below(i)) /\ Cardinality(Below(i)) <= n
    BY <1>2, <2>1, FS_Subset
  <2>3. Cardinality(Below(i)) \in Nat /\ Cardinality(Below(i)) # 0
    BY <2>1, <2>2, FS_CardinalityType, FS_EmptySet
  <2> QED BY <1>3, <2>1, <2>2, <2>3
<1>5. ASSUME NEW i \in K, NEW j \in K, i < j
      PROVE  Cardinality(Below(i)) < Cardinality(Below(j))
  <2>1. i \in Nat /\ j \in Nat
    BY <1>1
  <2>2. \A x \in K : x \in Nat /\ (x <= i => x <= j)
    BY <1>1, <1>5, <2>1
  <2>3. \A x : x \in Below(i) => x \in Below(j)
    BY <2>2
  <2>4. j \in Below(j) /\ j \notin Below(i)
    BY <1>5, <2>1
  <2>5. Below(i) \in SUBSET Below(j) /\ j \in Below(j) /\ j \notin Below(i)
    BY <2>3, <2>4, Zenon
  <2>6. IsFiniteSet(Below(j))
    BY <1>4
  <2>7. /\ Cardinality(Below(i)) <= Cardinality(Below(j))
        /\ Cardinality(Below(j)) = Cardinality(Below(i)) => Below(j) = Below(i)
    BY <2>5, <2>6, FS_Subset
  <2>8. Cardinality(Below(i)) \in 1..n /\ Cardinality(Below(j)) \in 1..n
    BY <1>4
  <2> QED BY <1>3, <2>5, <2>7, <2>8
<1>6. \A i \in K : Place(K, i) = Cardinality(Below(i))
  BY DEF Place
<1>7. at \in Injection(K, 1..n)
  <2>1. at \in [K -> 1..n]
    BY <1>4, <1>6
  <2>2. ASSUME NEW i \in K, NEW j \in K, at[i] = at[j] PROVE i = j
    <3>1. Cardinality(Below(i)) = Cardinality(Below(j))
      BY <1>6, <2>2
    <3>2. Cardinality(Below(i)) \in Nat /\ Cardinality(Below(j)) \in Nat
      BY <1>4
    <3>3. i < j => Cardinality(Below(i)) < Cardinality(Below(j))
      BY <1>5
    <3>4. j < i => Cardinality(Below(j)) < Cardinality(Below(i))
      BY <1>5
    <3>5. i \in Nat /\ j \in Nat
      BY <1>1
    <3> QED BY <3>1, <3>2, <3>3, <3>4, <3>5
  <2> QED BY <2>1, <2>2 DEF Injection, IsInjective
<1>8. IsFiniteSet(1..n) /\ Cardinality(1..n) = n
  BY <1>3, FS_Interval
<1>9. at \in Surjection(K, 1..n)
  BY <1>7, <1>8, FS_Injection
<1>10. \A k \in 1..n : \E i \in K : Place(K, i) = k
  BY <1>9 DEF Surjection
<1> HIDE DEF at
<1> QED BY <1>3, <1>4, <1>5, <1>6, <1>10

\* t lists the elements of s at the positions K in order: m says where each one
\* comes from.
Lists(t, s, K, m) ==
    /\ m \in [1..Len(t) -> K]
    /\ \A k \in 1..Len(t) : t[k] = s[m[k]]
    /\ \A k, l \in 1..Len(t) : k < l => m[k] < m[l]
    /\ \A i \in K : \E k \in 1..Len(t) : m[k] = i

\* Pick is a sequence no longer than the one it picks from, and lists what was
\* picked.
LEMMA PickFrom ==
  ASSUME NEW S, NEW s \in Seq(S), NEW K \in SUBSET (1..Len(s))
  PROVE  /\ Pick(s, K) \in Seq(S) /\ Len(Pick(s, K)) <= Len(s)
         /\ \E m : Lists(Pick(s, K), s, K, m)
<1> DEFINE n == Cardinality(K)
           from == [k \in 1..n |-> CHOOSE i \in K : Place(K, i) = k]
           p == Pick(s, K)
<1>1. Len(s) \in Nat /\ K \subseteq 1..Len(s) /\ \A i \in K : i \in Nat
  OBVIOUS
<1>2. /\ n \in Nat /\ n <= Len(s)
      /\ \A i \in K : Place(K, i) \in 1..n
      /\ \A i, j \in K : i < j => Place(K, i) < Place(K, j)
      /\ \A k \in 1..n : \E i \in K : Place(K, i) = k
  BY <1>1, Places
<1>3. from \in [1..n -> K] /\ \A k \in 1..n : Place(K, from[k]) = k
  BY <1>2
<1>4. p = [k \in 1..n |-> s[from[k]]]
  BY DEF Pick
<1> HIDE DEF from, p
<1>5. p \in [1..n -> S] /\ \A k \in 1..n : p[k] = s[from[k]]
  BY <1>1, <1>3, <1>4, ElementOfSeq
<1>6. p \in Seq(S) /\ Len(p) = n
  <2>1. p \in Seq(S)
    BY <1>2, <1>5, SeqDef
  <2>2. DOMAIN p = 1..n /\ DOMAIN p = 1..Len(p) /\ Len(p) \in Nat
    BY <1>5, <2>1, LenProperties
  <2> QED BY <1>2, <2>1, <2>2
<1>7. \A k, l \in 1..n : k < l => from[k] < from[l]
  <2> SUFFICES ASSUME NEW k \in 1..n, NEW l \in 1..n, k < l PROVE from[k] < from[l]
    OBVIOUS
  <2>1. from[k] \in K /\ from[l] \in K /\ Place(K, from[k]) = k /\ Place(K, from[l]) = l
    BY <1>3
  <2>2. from[k] \in Nat /\ from[l] \in Nat
    BY <1>1, <2>1
  <2>3. from[k] # from[l]
    BY <2>1
  <2>4. from[l] < from[k] => l < k
    BY <1>2, <2>1
  <2> QED BY <1>2, <2>2, <2>3, <2>4
<1>8. \A i \in K : Place(K, i) \in 1..n /\ from[Place(K, i)] = i
  <2> SUFFICES ASSUME NEW i \in K PROVE from[Place(K, i)] = i
    BY <1>2
  <2>1. /\ from[Place(K, i)] \in K
        /\ Place(K, from[Place(K, i)]) = Place(K, i)
        /\ Place(K, i) \in 1..n
    BY <1>2, <1>3
  <2> DEFINE j == from[Place(K, i)]
  <2>2. i \in Nat /\ j \in Nat
    BY <1>1, <2>1
  <2>3. (j < i => Place(K, j) < Place(K, i)) /\ (i < j => Place(K, i) < Place(K, j))
    BY <1>2, <2>1
  <2> HIDE DEF j
  <2> QED BY <1>2, <2>1, <2>2, <2>3 DEF j
<1>9. \A i \in K : \E k \in 1..Len(p) : from[k] = i
  BY <1>6, <1>8
<1>10. Lists(p, s, K, from)
  BY <1>3, <1>5, <1>6, <1>7, <1>9 DEF Lists
<1> QED BY <1>2, <1>6, <1>10 DEF p

\* What that says of the elements.
LEMMA PickProperties ==
  ASSUME NEW S, NEW s \in Seq(S), NEW K \in SUBSET (1..Len(s))
  PROVE  /\ Pick(s, K) \in Seq(S) /\ Len(Pick(s, K)) <= Len(s)
         /\ \E from \in [1..Len(Pick(s, K)) -> K] :
              /\ \A k \in 1..Len(Pick(s, K)) : Pick(s, K)[k] = s[from[k]]
              /\ \A k, l \in 1..Len(Pick(s, K)) : k < l => from[k] < from[l]
         /\ \A i \in K : \E k \in 1..Len(Pick(s, K)) : Pick(s, K)[k] = s[i]
<1> DEFINE p == Pick(s, K)
<1>1. p \in Seq(S) /\ Len(p) <= Len(s)
  BY PickFrom
<1>2. PICK from : Lists(p, s, K, from)
  BY PickFrom
<1>0. /\ from \in [1..Len(p) -> K]
      /\ \A k \in 1..Len(p) : p[k] = s[from[k]]
      /\ \A k, l \in 1..Len(p) : k < l => from[k] < from[l]
      /\ \A i \in K : \E k \in 1..Len(p) : from[k] = i
  BY <1>2 DEF Lists
<1> HIDE DEF p
<1>3. \A i \in K : \E k \in 1..Len(p) : p[k] = s[i]
  BY <1>0
<1> QED BY <1>1, <1>0, <1>3 DEF p

\* Pick(s, K) is the only such sequence.
LEMMA PickUnique ==
  ASSUME NEW S, NEW s \in Seq(S), NEW K \in SUBSET (1..Len(s)), NEW t \in Seq(S),
         NEW m, Lists(t, s, K, m)
  PROVE  t = Pick(s, K)
<1> DEFINE n == Len(t)
<1>0. /\ m \in [1..n -> K]
      /\ \A k \in 1..n : t[k] = s[m[k]]
      /\ \A k, l \in 1..n : k < l => m[k] < m[l]
      /\ \A i \in K : \E k \in 1..n : m[k] = i
  BY DEF Lists
<1>1. Len(s) \in Nat /\ n \in Nat /\ K \subseteq 1..Len(s) /\ \A i \in K : i \in Nat
  OBVIOUS
<1>2. /\ \A i \in K : Place(K, i) \in 1..Cardinality(K) /\ Cardinality(K) \in Nat
      /\ \A i, j \in K : i < j => Place(K, i) < Place(K, j)
  BY <1>1, Places
<1>3. \A k \in 1..n : m[k] \in K /\ m[k] \in Nat
  BY <1>0, <1>1
<1>4. \A k, l \in 1..n : m[k] = m[l] => k = l
  <2> SUFFICES ASSUME NEW k \in 1..n, NEW l \in 1..n, m[k] = m[l] PROVE k = l
    OBVIOUS
  <2>1. ~(k < l) /\ ~(l < k)
    BY <1>0, <1>3
  <2> QED BY <1>1, <2>1
<1>5. Cardinality(K) = n
  <2>1. m \in Bijection(1..n, K)
    BY <1>0, <1>4 DEF Bijection, Injection, Surjection, IsInjective
  <2> QED BY <1>1, <2>1, FS_CountingElements DEF ExistsBijection
<1>6. ASSUME NEW k \in 1..n PROVE Place(K, m[k]) = k
  <2> DEFINE B == {j \in K : j <= m[k]}
             b == [i \in 1..k |-> m[i]]
  <2>1. k \in Nat /\ \A i \in 1..k : i \in 1..n
    BY <1>1
  <2>2. ASSUME NEW i \in 1..k PROVE m[i] \in B
    <3>1. i = k \/ (i < k /\ i \in 1..n)
      BY <2>1
    <3>2. m[i] <= m[k]
      BY <1>0, <1>3, <2>1, <3>1
    <3> QED BY <1>3, <2>1, <3>2
  <2>3. ASSUME NEW j \in B PROVE \E i \in 1..k : m[i] = j
    <3>1. PICK i \in 1..n : m[i] = j
      BY <1>0
    <3>2. ~(k < i)
      BY <1>0, <1>3, <3>1
    <3> QED BY <1>1, <2>1, <3>1, <3>2
  <2> HIDE DEF B
  <2>4. b \in [1..k -> B]
    BY <2>2
  <2>5. \A i, j \in 1..k : b[i] = b[j] => i = j
    BY <1>4, <2>1
  <2>6. \A j \in B : \E i \in 1..k : b[i] = j
    BY <2>3
  <2> HIDE DEF b
  <2>7. b \in Bijection(1..k, B)
    BY <2>4, <2>5, <2>6 DEF Bijection, Injection, Surjection, IsInjective
  <2> QED BY <2>1, <2>7, FS_CountingElements DEF ExistsBijection, Place, B
<1>7. ASSUME NEW k \in 1..n PROVE (CHOOSE i \in K : Place(K, i) = k) = m[k]
  <2>1. \A i \in K : Place(K, i) = k => i = m[k]
    <3> SUFFICES ASSUME NEW i \in K, Place(K, i) = k PROVE i = m[k]
      OBVIOUS
    <3>1. ~(i < m[k]) /\ ~(m[k] < i)
      BY <1>1, <1>2, <1>3, <1>6
    <3> QED BY <1>1, <1>3, <3>1
  <2> QED BY <1>3, <1>6, <2>1
<1>8. Pick(s, K) = [k \in 1..n |-> s[m[k]]]
  <2> DEFINE at(k) == CHOOSE i \in K : Place(K, i) = k
  <2>1. Pick(s, K) = [k \in 1..n |-> s[at(k)]]
    BY <1>5 DEF Pick
  <2>2. \A k \in 1..n : at(k) = m[k]
    BY <1>7
  <2> HIDE DEF at
  <2> QED BY <2>1, <2>2
<1>9. t \in [1..n -> S] /\ \A k \in 1..n : t[k] = s[m[k]]
  BY <1>0, LenProperties
<1> QED BY <1>8, <1>9

\* Picking from a longer sequence, the new element left out or picked too.
LEMMA PickAppend ==
  ASSUME NEW S, NEW s \in Seq(S), NEW x \in S, NEW K \in SUBSET (1..Len(s))
  PROVE  /\ Pick(Append(s, x), K) = Pick(s, K)
         /\ Pick(Append(s, x), K \cup {Len(s) + 1}) = Append(Pick(s, K), x)
<1> DEFINE p == Pick(s, K)
           a == Append(s, x)
           t == Append(p, x)
           K1 == K \cup {Len(s) + 1}
<1>1. p \in Seq(S)
  BY PickFrom
<1>2. PICK from : Lists(p, s, K, from)
  BY PickFrom
<1>0. /\ from \in [1..Len(p) -> K]
      /\ \A k \in 1..Len(p) : p[k] = s[from[k]]
      /\ \A k, l \in 1..Len(p) : k < l => from[k] < from[l]
      /\ \A i \in K : \E k \in 1..Len(p) : from[k] = i
  BY <1>2 DEF Lists
<1> HIDE DEF p
<1>3. /\ a \in Seq(S) /\ Len(a) = Len(s) + 1 /\ Len(s) \in Nat /\ a[Len(s) + 1] = x
      /\ \A i \in 1..Len(s) : a[i] = s[i]
  BY AppendProperties
<1>4. /\ t \in Seq(S) /\ Len(t) = Len(p) + 1 /\ Len(p) \in Nat /\ t[Len(p) + 1] = x
      /\ \A i \in 1..Len(p) : t[i] = p[i]
  BY <1>1, AppendProperties
<1> HIDE DEF a, t
<1>5. K \in SUBSET (1..Len(a)) /\ K1 \in SUBSET (1..Len(a)) /\ K \subseteq 1..Len(s)
  <2>1. K \subseteq 1..Len(s) /\ Len(s) + 1 \in 1..Len(a)
    BY <1>3
  <2>2. \A i \in 1..Len(s) : i \in 1..Len(a)
    BY <1>3
  <2> QED BY <2>1, <2>2
<1>6. p = Pick(a, K)
  <2>1. \A k \in 1..Len(p) : p[k] = a[from[k]]
    BY <1>0, <1>3, <1>5
  <2>2. \A k, l \in 1..Len(p) : k < l => from[k] < from[l]
    BY <1>0
  <2>3. \A i \in K : \E k \in 1..Len(p) : from[k] = i
    BY <1>0
  <2>4. a \in Seq(S) /\ K \in SUBSET (1..Len(a)) /\ from \in [1..Len(p) -> K]
    BY <1>0, <1>3, <1>5
  <2>5. Lists(p, a, K, from)
    BY <2>1, <2>2, <2>3, <2>4 DEF Lists
  <2> QED BY <1>1, <2>4, <2>5, PickUnique
<1>7. t = Pick(a, K1)
  <2> DEFINE m == [k \in 1..Len(t) |-> IF k = Len(p) + 1 THEN Len(s) + 1 ELSE from[k]]
  <2>1. \A k \in 1..Len(t) : k = Len(p) + 1 \/ k \in 1..Len(p)
    BY <1>4
  <2>2. \A k \in 1..Len(p) : k \in 1..Len(t) /\ k # Len(p) + 1 /\ m[k] = from[k] /\ from[k] \in K
    BY <1>0, <1>4
  <2>3. Len(p) + 1 \in 1..Len(t) /\ m[Len(p) + 1] = Len(s) + 1
    BY <1>4
  <2>4. m \in [1..Len(t) -> K1]
    BY <2>1, <2>2, <2>3
  <2> HIDE DEF m
  <2>5. \A k \in 1..Len(t) : t[k] = a[m[k]]
    BY <1>0, <1>3, <1>4, <1>5, <2>1, <2>2, <2>3
  <2>6. ASSUME NEW k \in 1..Len(t), NEW l \in 1..Len(t), k < l PROVE m[k] < m[l]
    <3>1. k \in 1..Len(p)
      BY <1>4, <2>6
    <3>2. CASE l \in 1..Len(p)
      BY <1>0, <2>2, <2>6, <3>1, <3>2
    <3>3. CASE l = Len(p) + 1
      <4>1. m[k] \in 1..Len(s) /\ m[l] = Len(s) + 1
        BY <1>5, <2>2, <2>3, <3>1, <3>3
      <4> QED BY <1>3, <4>1
    <3> QED BY <2>1, <3>2, <3>3
  <2>7. \A i \in K1 : \E k \in 1..Len(t) : m[k] = i
    BY <1>0, <2>2, <2>3
  <2>8. a \in Seq(S) /\ t \in Seq(S) /\ K1 \in SUBSET (1..Len(a))
    BY <1>3, <1>4, <1>5
  <2> HIDE DEF K1
  <2>9. Lists(t, a, K1, m)
    BY <2>4, <2>5, <2>6, <2>7 DEF Lists
  <2> QED BY <2>8, <2>9, PickUnique
<1> QED BY <1>6, <1>7 DEF p, a, t

\* Where the elements of three sequences stand in their concatenation.
LEMMA ThreeParts ==
  ASSUME NEW S, NEW A \in Seq(S), NEW P \in Seq(S), NEW B \in Seq(S)
  PROVE  LET t == (A \o P) \o B
         IN  /\ t \in Seq(S) /\ Len(t) = Len(A) + Len(P) + Len(B)
             /\ \A i \in 1..Len(A) : t[i] = A[i]
             /\ \A i \in 1..Len(P) : t[Len(A) + i] = P[i]
             /\ \A i \in 1..Len(B) : t[Len(A) + Len(P) + i] = B[i]
<1> DEFINE u == A \o P
           t == u \o B
<1>1. Len(A) \in Nat /\ Len(P) \in Nat /\ Len(B) \in Nat
  OBVIOUS
<1>2. /\ u \in Seq(S) /\ Len(u) = Len(A) + Len(P)
      /\ \A i \in 1..Len(A) + Len(P) : u[i] = IF i <= Len(A) THEN A[i] ELSE P[i - Len(A)]
  BY ConcatProperties
<1> HIDE DEF u
<1>3. /\ t \in Seq(S) /\ Len(t) = Len(u) + Len(B)
      /\ \A i \in 1..Len(u) + Len(B) : t[i] = IF i <= Len(u) THEN u[i] ELSE B[i - Len(u)]
  <2>1. u \in Seq(S)
    BY <1>2
  <2> QED BY <2>1, ConcatProperties
<1> HIDE DEF t
<1>4. ASSUME NEW i \in 1..Len(A) PROVE t[i] = A[i]
  <2>1. i \in 1..Len(A) + Len(P) /\ i \in 1..Len(u) + Len(B) /\ i <= Len(u) /\ i <= Len(A)
    BY <1>1, <1>2
  <2> QED BY <1>2, <1>3, <2>1
<1>5. ASSUME NEW i \in 1..Len(P) PROVE t[Len(A) + i] = P[i]
  <2> DEFINE k == Len(A) + i
  <2>1. k \in 1..Len(A) + Len(P) /\ k \in 1..Len(u) + Len(B) /\ k <= Len(u) /\ ~(k <= Len(A)) /\ k - Len(A) = i
    BY <1>1, <1>2
  <2> HIDE DEF k
  <2>2. t[k] = P[i]
    BY <1>2, <1>3, <2>1
  <2> QED BY <2>2 DEF k
<1>6. ASSUME NEW i \in 1..Len(B) PROVE t[Len(A) + Len(P) + i] = B[i]
  <2> DEFINE k == Len(A) + Len(P) + i
  <2>1. k \in 1..Len(u) + Len(B) /\ ~(k <= Len(u)) /\ k - Len(u) = i
    BY <1>1, <1>2
  <2> HIDE DEF k
  <2>2. t[k] = B[i]
    BY <1>3, <2>1
  <2> QED BY <2>2 DEF k
<1>7. t \in Seq(S) /\ Len(t) = Len(A) + Len(P) + Len(B)
  BY <1>1, <1>2, <1>3
<1> QED BY <1>4, <1>5, <1>6, <1>7 DEF t, u

\* The positions, after the sequence A, of the elements of P that are not in K.
After(A, P, K) == {Len(A) + i : i \in (1..Len(P)) \ K}

\* s, which is A, P and B, without the positions R is what K picks of P in between.
Narrowed(s, R, A, P, B, K) ==
    /\ R \in SUBSET (1..Len(s))
    /\ \A r \in R : \E i \in (1..Len(P)) \ K : s[r] = P[i]
    /\ Pick(s, (1..Len(s)) \ R) = (A \o Pick(P, K)) \o B

\* Taking elements out of the middle of a sequence.
LEMMA PickMiddle ==
  ASSUME NEW S, NEW A \in Seq(S), NEW P \in Seq(S), NEW B \in Seq(S), NEW K \in SUBSET (1..Len(P)),
         NEW s, s = (A \o P) \o B, NEW R, R = After(A, P, K)
  PROVE  Narrowed(s, R, A, P, B, K)
<1> USE DEF After, Narrowed
<1> DEFINE p == Pick(P, K)
<1>1. Len(A) \in Nat /\ Len(P) \in Nat /\ Len(B) \in Nat /\ K \subseteq 1..Len(P)
  OBVIOUS
<1>2. p \in Seq(S)
  BY PickFrom
<1>3. PICK from : Lists(p, P, K, from)
  BY PickFrom
<1>0. /\ from \in [1..Len(p) -> K]
      /\ \A k \in 1..Len(p) : p[k] = P[from[k]]
      /\ \A k, l \in 1..Len(p) : k < l => from[k] < from[l]
      /\ \A i \in K : \E k \in 1..Len(p) : from[k] = i
  BY <1>3 DEF Lists
<1> HIDE DEF p
<1>4. Len(p) \in Nat /\ \A k \in 1..Len(p) : from[k] \in K /\ from[k] \in 1..Len(P)
  <2>1. Len(p) \in Nat /\ from \in [1..Len(p) -> K]
    BY <1>0, <1>2
  <2>2. \A k \in 1..Len(p) : from[k] \in K
    BY <2>1
  <2> QED BY <1>1, <2>1, <2>2
<1> DEFINE t == (A \o p) \o B
           K1 == (1..Len(s)) \ R
<1>5. /\ s \in Seq(S) /\ Len(s) = Len(A) + Len(P) + Len(B)
      /\ \A i \in 1..Len(A) : s[i] = A[i]
      /\ \A i \in 1..Len(P) : s[Len(A) + i] = P[i]
      /\ \A i \in 1..Len(B) : s[Len(A) + Len(P) + i] = B[i]
  BY ThreeParts
<1>6. /\ t \in Seq(S) /\ Len(t) = Len(A) + Len(p) + Len(B)
      /\ \A i \in 1..Len(A) : t[i] = A[i]
      /\ \A i \in 1..Len(p) : t[Len(A) + i] = p[i]
      /\ \A i \in 1..Len(B) : t[Len(A) + Len(p) + i] = B[i]
  BY <1>2, ThreeParts
<1> HIDE DEF t
<1> DEFINE m == [k \in 1..Len(t) |->
                   IF k <= Len(A) THEN k
                   ELSE IF k <= Len(A) + Len(p) THEN Len(A) + from[k - Len(A)]
                   ELSE k - Len(p) + Len(P)]
<1>7. ASSUME NEW k \in 1..Len(t)
      PROVE  \/ k \in 1..Len(A) /\ m[k] = k
             \/ \E i \in 1..Len(p) : k = Len(A) + i /\ m[k] = Len(A) + from[i]
             \/ \E i \in 1..Len(B) : k = Len(A) + Len(p) + i /\ m[k] = Len(A) + Len(P) + i
  <2>1. CASE k <= Len(A)
    BY <1>1, <1>6, <2>1
  <2>2. CASE ~(k <= Len(A)) /\ k <= Len(A) + Len(p)
    <3>1. k - Len(A) \in 1..Len(p) /\ k = Len(A) + (k - Len(A)) /\ m[k] = Len(A) + from[k - Len(A)]
      BY <1>1, <1>4, <1>6, <2>2
    <3> QED BY <3>1
  <2>3. CASE ~(k <= Len(A)) /\ ~(k <= Len(A) + Len(p))
    <3> DEFINE i == k - (Len(A) + Len(p))
    <3>1. i \in 1..Len(B) /\ k = Len(A) + Len(p) + i /\ m[k] = Len(A) + Len(P) + i
      BY <1>1, <1>4, <1>6, <2>3
    <3> QED BY <3>1
  <2> QED BY <2>1, <2>2, <2>3
<1>8. /\ \A i \in 1..Len(A) : i \in 1..Len(t) /\ m[i] = i
      /\ \A i \in 1..Len(p) : Len(A) + i \in 1..Len(t) /\ m[Len(A) + i] = Len(A) + from[i]
      /\ \A i \in 1..Len(B) : /\ Len(A) + Len(p) + i \in 1..Len(t)
                              /\ m[Len(A) + Len(p) + i] = Len(A) + Len(P) + i
  <2>1. \A i \in 1..Len(A) : i \in 1..Len(t) /\ m[i] = i
    BY <1>1, <1>4, <1>6
  <2>2. ASSUME NEW i \in 1..Len(p)
        PROVE  Len(A) + i \in 1..Len(t) /\ m[Len(A) + i] = Len(A) + from[i]
    <3>1. /\ Len(A) + i \in 1..Len(t) /\ ~(Len(A) + i <= Len(A)) /\ Len(A) + i <= Len(A) + Len(p)
          /\ (Len(A) + i) - Len(A) = i
      BY <1>1, <1>4, <1>6
    <3> QED BY <3>1
  <2>3. ASSUME NEW i \in 1..Len(B)
        PROVE  /\ Len(A) + Len(p) + i \in 1..Len(t)
               /\ m[Len(A) + Len(p) + i] = Len(A) + Len(P) + i
    <3>1. /\ Len(A) + Len(p) + i \in 1..Len(t) /\ ~(Len(A) + Len(p) + i <= Len(A))
          /\ ~(Len(A) + Len(p) + i <= Len(A) + Len(p))
          /\ (Len(A) + Len(p) + i) - Len(p) + Len(P) = Len(A) + Len(P) + i
      BY <1>1, <1>4, <1>6
    <3> QED BY <3>1
  <2> QED BY <2>1, <2>2, <2>3
<1>9. \A i \in 1..Len(s) : i \in R <=> \E k \in 1..Len(P) : i = Len(A) + k /\ k \notin K
  OBVIOUS
<1>10. R \in SUBSET (1..Len(s)) /\ K1 \in SUBSET (1..Len(s))
  BY <1>1, <1>5
<1>11. \A r \in R : \E i \in (1..Len(P)) \ K : s[r] = P[i]
  BY <1>5
<1>12. /\ \A i \in 1..Len(A) : i \in K1
       /\ \A i \in K : Len(A) + i \in K1
       /\ \A i \in 1..Len(B) : Len(A) + Len(P) + i \in K1
  <2>1. ASSUME NEW i \in 1..Len(A) PROVE i \in K1
    BY <1>1, <1>5
  <2>2. ASSUME NEW i \in K PROVE Len(A) + i \in K1
    <3>1. i \in 1..Len(P) /\ Len(A) + i \in 1..Len(s)
      BY <1>1, <1>5
    <3>2. \A k \in 1..Len(P) : Len(A) + i = Len(A) + k => k = i
      BY <1>1, <3>1
    <3> QED BY <3>1, <3>2
  <2>3. ASSUME NEW i \in 1..Len(B) PROVE Len(A) + Len(P) + i \in K1
    BY <1>1, <1>5
  <2> QED BY <2>1, <2>2, <2>3
<1>13. ASSUME NEW i \in K1
       PROVE  \/ i \in 1..Len(A)
              \/ \E k \in K : i = Len(A) + k
              \/ \E k \in 1..Len(B) : i = Len(A) + Len(P) + k
  <2>1. i \in 1..Len(s) /\ i \notin R /\ i \in Nat
    BY <1>5
  <2>2. CASE i <= Len(A)
    BY <1>1, <2>1, <2>2
  <2>3. CASE ~(i <= Len(A)) /\ i <= Len(A) + Len(P)
    <3>1. i - Len(A) \in 1..Len(P) /\ i = Len(A) + (i - Len(A))
      BY <1>1, <2>1, <2>3
    <3> QED BY <2>1, <3>1
  <2>4. CASE ~(i <= Len(A) + Len(P))
    <3>1. i - (Len(A) + Len(P)) \in 1..Len(B) /\ i = Len(A) + Len(P) + (i - (Len(A) + Len(P)))
      BY <1>1, <1>5, <2>1, <2>4
    <3> QED BY <3>1
  <2> QED BY <1>1, <2>1, <2>2, <2>3, <2>4
<1>14. m \in [1..Len(t) -> K1]
  <2>1. ASSUME NEW k \in 1..Len(t) PROVE m[k] \in K1
    <3> HIDE DEF m, K1
    <3>1. CASE k \in 1..Len(A) /\ m[k] = k
      BY <1>12, <3>1
    <3>2. ASSUME NEW i \in 1..Len(p), m[k] = Len(A) + from[i] PROVE m[k] \in K1
      BY <1>4, <1>12, <3>2
    <3>3. ASSUME NEW i \in 1..Len(B), m[k] = Len(A) + Len(P) + i PROVE m[k] \in K1
      BY <1>12, <3>3
    <3> QED BY <1>7, <3>1, <3>2, <3>3
  <2> HIDE DEF K1
  <2> QED BY <2>1
<1> HIDE DEF m, K1
<1>15. ASSUME NEW k \in 1..Len(t) PROVE t[k] = s[m[k]]
  <2>1. CASE k \in 1..Len(A) /\ m[k] = k
    BY <1>5, <1>6, <2>1
  <2>2. ASSUME NEW i \in 1..Len(p), k = Len(A) + i, m[k] = Len(A) + from[i] PROVE t[k] = s[m[k]]
    <3>1. t[k] = p[i] /\ p[i] = P[from[i]] /\ s[Len(A) + from[i]] = P[from[i]]
      BY <1>0, <1>4, <1>5, <1>6, <2>2
    <3> QED BY <2>2, <3>1
  <2>3. ASSUME NEW i \in 1..Len(B), k = Len(A) + Len(p) + i, m[k] = Len(A) + Len(P) + i
        PROVE  t[k] = s[m[k]]
    BY <1>5, <1>6, <2>3
  <2> QED BY <1>7, <2>1, <2>2, <2>3
<1>16. ASSUME NEW k \in 1..Len(t), NEW l \in 1..Len(t), k < l PROVE m[k] < m[l]
  <2>1. CASE k \in 1..Len(A) /\ m[k] = k
    <3>1. CASE l \in 1..Len(A) /\ m[l] = l
      BY <1>16, <2>1, <3>1
    <3>2. ASSUME NEW j \in 1..Len(p), m[l] = Len(A) + from[j] PROVE m[k] < m[l]
      <4>1. from[j] \in 1..Len(P)
        BY <1>4
      <4> QED BY <1>1, <2>1, <3>2, <4>1
    <3>3. ASSUME NEW j \in 1..Len(B), m[l] = Len(A) + Len(P) + j PROVE m[k] < m[l]
      BY <1>1, <2>1, <3>3
    <3> QED BY <1>7, <3>1, <3>2, <3>3
  <2>2. ASSUME NEW i \in 1..Len(p), k = Len(A) + i, m[k] = Len(A) + from[i] PROVE m[k] < m[l]
    <3>1. CASE l \in 1..Len(A)
      BY <1>1, <1>4, <1>16, <2>2, <3>1
    <3>2. ASSUME NEW j \in 1..Len(p), l = Len(A) + j, m[l] = Len(A) + from[j] PROVE m[k] < m[l]
      <4>1. i < j /\ from[i] \in Nat /\ from[j] \in Nat
        BY <1>1, <1>4, <1>16, <2>2, <3>2
      <4>2. from[i] < from[j]
        BY <1>0, <4>1
      <4> QED BY <1>1, <2>2, <3>2, <4>1, <4>2
    <3>3. ASSUME NEW j \in 1..Len(B), m[l] = Len(A) + Len(P) + j PROVE m[k] < m[l]
      <4>1. from[i] \in 1..Len(P)
        BY <1>4
      <4> QED BY <1>1, <2>2, <3>3, <4>1
    <3> QED BY <1>7, <3>1, <3>2, <3>3
  <2>3. ASSUME NEW i \in 1..Len(B), k = Len(A) + Len(p) + i, m[k] = Len(A) + Len(P) + i
        PROVE  m[k] < m[l]
    <3>1. ASSUME NEW j \in 1..Len(p), l = Len(A) + j PROVE FALSE
      BY <1>1, <1>4, <1>16, <2>3, <3>1
    <3>2. ~(l \in 1..Len(A))
      BY <1>1, <1>4, <1>16, <2>3
    <3>3. PICK j \in 1..Len(B) : l = Len(A) + Len(p) + j /\ m[l] = Len(A) + Len(P) + j
      BY <1>7, <3>1, <3>2
    <3> QED BY <1>1, <1>4, <1>16, <2>3, <3>3
  <2> QED BY <1>7, <2>1, <2>2, <2>3
<1>17. \A i \in K1 : \E k \in 1..Len(t) : m[k] = i
  <2> SUFFICES ASSUME NEW i \in K1 PROVE \E k \in 1..Len(t) : m[k] = i
    OBVIOUS
  <2>1. CASE i \in 1..Len(A)
    BY <1>8, <2>1
  <2>2. ASSUME NEW j \in K, i = Len(A) + j PROVE \E k \in 1..Len(t) : m[k] = i
    <3>1. PICK l \in 1..Len(p) : from[l] = j
      BY <1>0
    <3> QED BY <1>8, <2>2, <3>1
  <2>3. ASSUME NEW j \in 1..Len(B), i = Len(A) + Len(P) + j PROVE \E k \in 1..Len(t) : m[k] = i
    BY <1>8, <2>3
  <2> QED BY <1>13, <2>1, <2>2, <2>3
<1>18. Lists(t, s, K1, m)
  BY <1>14, <1>15, <1>16, <1>17 DEF Lists
<1>19. t = Pick(s, K1)
  BY <1>5, <1>6, <1>10, <1>18, PickUnique
<1> QED BY <1>10, <1>11, <1>19 DEF t, p, K1
=============================================================================
