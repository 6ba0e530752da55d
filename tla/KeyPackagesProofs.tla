-------------------------- MODULE KeyPackagesProofs --------------------------
(***************************************************************************)
(* The directory keeps its quotas, hands a publication of a single-use key *)
(* package out once and never takes an identity's last last-resort key     *)
(* package away, for any identities, key packages and quotas, and for      *)
(* either storage.                                                         *)
(***************************************************************************)
EXTENDS KeyPackages, SequenceTheorems, FiniteSetTheorems, TLAPS

(* What is published, and how often.                                       *)

Refs(id) == {k \in Kps : OwnerOf[k] = id}

Directory == /\ published = [id \in Identities |-> published[id]]
             /\ \A id \in Identities : published[id] \in Seq(Refs(id))

Counters ==
    /\ calls \in [Kps -> 0..MaxPublishes]
    /\ arrived \in [Kps -> Nat] /\ stored \in [Kps -> Nat]
    /\ \A k \in Kps : arrived[k] <= calls[k]
    /\ marked \subseteq Kps /\ held \subseteq Kps
    /\ handedOut \in [Kps -> 0..MaxHandOuts]

KpInv == Directory /\ Counters /\ QuotaHolds /\ HandedOutOnce

-----------------------------------------------------------------------------
(* Positions in a sequence.                                                *)

LEMMA LeastOf ==
    ASSUME NEW S, S \subseteq Nat, S # {}
    PROVE  Min(S) \in S /\ \A y \in S : Min(S) <= y
<1>1. PICK x \in S : \A y \in S : ~(<<y, x>> \in OpToRel(<, Nat))
  BY WFMin, NatLessThanWellFounded
<1>2. \A y \in S : ~(y < x)
  BY <1>1, Zenon DEF OpToRel
<1>3. \E z \in S : \A y \in S : z <= y
  BY <1>2
<1> QED
  BY <1>3, Zenon DEF Min

LEMMA PositionsFinite ==
    ASSUME NEW K, NEW s \in Seq(K), NEW S
    PROVE  /\ PositionsOf(s, S) \subseteq 1..Len(s)
           /\ IsFiniteSet(PositionsOf(s, S)) /\ Cardinality(PositionsOf(s, S)) \in Nat
<1>1. PositionsOf(s, S) \in SUBSET (1..Len(s))
  BY DEF PositionsOf
<1>2. IsFiniteSet(1..Len(s))
  BY FS_Interval
<1>3. IsFiniteSet(PositionsOf(s, S))
  BY <1>1, <1>2, FS_Subset
<1> QED
  BY <1>1, <1>3, FS_CardinalityType

LEMMA OldestOf ==
    ASSUME NEW K, NEW s \in Seq(K), NEW S, PositionsOf(s, S) # {}
    PROVE  Oldest(s, S) \in S \cap K /\ Contains(s, Oldest(s, S))
<1>1. PositionsOf(s, S) \subseteq Nat
  BY DEF PositionsOf
<1>2. Min(PositionsOf(s, S)) \in PositionsOf(s, S)
  BY <1>1, LeastOf
<1>3. PICK i \in 1..Len(s) : i = Min(PositionsOf(s, S)) /\ s[i] \in S
  BY <1>2 DEF PositionsOf
<1> QED
  BY <1>3 DEF Oldest, Contains

\* Appending adds one position.
LEMMA PositionsAppend ==
    ASSUME NEW K, NEW s \in Seq(K), NEW k \in K, NEW S
    PROVE  /\ Append(s, k) \in Seq(K) /\ Len(Append(s, k)) = Len(s) + 1
           /\ Contains(Append(s, k), k)
           /\ Cardinality(PositionsOf(Append(s, k), S))
                = Cardinality(PositionsOf(s, S)) + (IF k \in S THEN 1 ELSE 0)
<1> DEFINE t == Append(s, k)
           n == Len(s) + 1
<1>1. /\ t \in Seq(K) /\ Len(t) = n /\ t[n] = k /\ n \in Nat
      /\ \A i \in 1..Len(s) : t[i] = s[i]
  OBVIOUS
<1>2. /\ PositionsOf(t, S) = IF k \in S THEN PositionsOf(s, S) \cup {n} ELSE PositionsOf(s, S)
      /\ n \notin PositionsOf(s, S)
  <2> HIDE DEF t
  <2> QED
    BY <1>1 DEF PositionsOf
<1>3. Contains(t, k)
  BY <1>1 DEF Contains
<1>4. Cardinality(PositionsOf(t, S)) = Cardinality(PositionsOf(s, S)) + (IF k \in S THEN 1 ELSE 0)
  <2>1. IsFiniteSet(PositionsOf(s, S)) /\ Cardinality(PositionsOf(s, S)) \in Nat
    BY PositionsFinite
  <2>2. Cardinality(PositionsOf(s, S) \cup {n}) = Cardinality(PositionsOf(s, S)) + 1
    BY <1>2, <2>1, FS_AddElement
  <2> HIDE DEF t, n
  <2> QED
    BY <1>2, <2>1, <2>2
<1> QED
  BY <1>1, <1>3, <1>4

\* Removing a member takes one of its positions away.
LEMMA RemovedIs ==
    ASSUME NEW K, NEW s \in Seq(K), NEW e, Contains(s, e)
    PROVE  \E m \in 1..Len(s) :
              /\ s[m] = e
              /\ RemoveFirst(s, e) \in Seq(K) /\ Len(RemoveFirst(s, e)) = Len(s) - 1
              /\ \A i \in 1..(Len(s) - 1) :
                    RemoveFirst(s, e)[i] = IF i < m THEN s[i] ELSE s[i + 1]
<1> DEFINE I == {i \in 1..Len(s) : s[i] = e}
           m == Min(I)
<1>1. I \subseteq Nat /\ I # {}
  BY DEF Contains
<1>2. m \in I
  BY <1>1, LeastOf
<1>3. RemoveFirst(s, e) = SubSeq(s, 1, m - 1) \o SubSeq(s, m + 1, Len(s))
  BY <1>1 DEF RemoveFirst, RemoveAt, SelectInSeq
<1>4. PICK p \in 1..Len(s) : p = m /\ s[p] = e
  BY <1>2
<1> HIDE DEF m
<1> DEFINE a == SubSeq(s, 1, p - 1)
           b == SubSeq(s, p + 1, Len(s))
<1>5. /\ a \in Seq(K) /\ Len(a) = p - 1
      /\ \A i \in 1..(p - 1) : a[i] = s[i]
  <2>1. \A i \in 1..(p - 1) : s[i] \in K
    OBVIOUS
  <2>2. /\ a \in Seq(K) /\ Len(a) = IF 1 <= p - 1 THEN (p - 1) - 1 + 1 ELSE 0
        /\ \A i \in 1..((p - 1) - 1 + 1) : a[i] = s[1 + i - 1]
    BY <2>1, SubSeqProperties
  <2> HIDE DEF a
  <2> QED
    BY <2>2
<1>6. /\ b \in Seq(K) /\ Len(b) = Len(s) - p
      /\ \A i \in 1..(Len(s) - p) : b[i] = s[p + i]
  <2>1. \A i \in (p + 1)..Len(s) : s[i] \in K
    OBVIOUS
  <2>2. /\ b \in Seq(K) /\ Len(b) = IF p + 1 <= Len(s) THEN Len(s) - (p + 1) + 1 ELSE 0
        /\ \A i \in 1..(Len(s) - (p + 1) + 1) : b[i] = s[(p + 1) + i - 1]
    BY <2>1, SubSeqProperties
  <2>3. \A i \in 1..(Len(s) - p) : (p + 1) + i - 1 = p + i
    OBVIOUS
  <2> HIDE DEF b
  <2> QED
    BY <2>2, <2>3
<1> HIDE DEF a, b
<1>7. /\ a \o b \in Seq(K) /\ Len(a \o b) = Len(s) - 1
      /\ \A i \in 1..(Len(s) - 1) : (a \o b)[i] = IF i <= p - 1 THEN a[i] ELSE b[i - (p - 1)]
  <2>1. /\ a \o b \in Seq(K) /\ Len(a \o b) = Len(a) + Len(b)
        /\ \A i \in 1 .. Len(a) + Len(b) : (a \o b)[i] =
              IF i <= Len(a) THEN a[i] ELSE b[i - Len(a)]
    BY <1>5, <1>6, ConcatProperties
  <2>2. Len(a) + Len(b) = Len(s) - 1
    BY <1>5, <1>6
  <2> QED
    BY <1>5, <2>1, <2>2
<1>8. \A i \in 1..(Len(s) - 1) : (a \o b)[i] = IF i < p THEN s[i] ELSE s[i + 1]
  <2> TAKE i \in 1..(Len(s) - 1)
  <2>1. CASE i < p
    BY <1>5, <1>7, <2>1
  <2>2. CASE ~(i < p)
    <3>1. i - (p - 1) \in 1..(Len(s) - p) /\ p + (i - (p - 1)) = i + 1
      BY <2>2
    <3> QED
      BY <1>6, <1>7, <2>2, <3>1
  <2> QED
    BY <2>1, <2>2
<1>9. RemoveFirst(s, e) = a \o b
  BY <1>3, <1>4 DEF a, b
<1> QED
  BY <1>4, <1>7, <1>8, <1>9

LEMMA PositionsRemoved ==
    ASSUME NEW K, NEW s \in Seq(K), NEW e, Contains(s, e), NEW S
    PROVE  /\ RemoveFirst(s, e) \in Seq(K) /\ Len(RemoveFirst(s, e)) = Len(s) - 1
           /\ Cardinality(PositionsOf(s, S))
                = Cardinality(PositionsOf(RemoveFirst(s, e), S)) + (IF e \in S THEN 1 ELSE 0)
<1>1. PICK m \in 1..Len(s) :
              /\ s[m] = e
              /\ RemoveFirst(s, e) \in Seq(K) /\ Len(RemoveFirst(s, e)) = Len(s) - 1
              /\ \A i \in 1..(Len(s) - 1) :
                    RemoveFirst(s, e)[i] = IF i < m THEN s[i] ELSE s[i + 1]
  BY RemovedIs
<1> DEFINE t == RemoveFirst(s, e)
           A == PositionsOf(t, S)
           B == PositionsOf(s, S) \ {m}
           f == [i \in A |-> IF i < m THEN i ELSE i + 1]
<1> HIDE DEF t
<1>2. /\ t \in Seq(K) /\ Len(t) = Len(s) - 1
      /\ \A i \in 1..(Len(s) - 1) : t[i] = IF i < m THEN s[i] ELSE s[i + 1]
  BY <1>1 DEF t
<1>3. \A i \in A : i \in 1..(Len(s) - 1) /\ f[i] \in B
  BY <1>2 DEF PositionsOf
<1>4. \A i, j \in A : f[i] = f[j] => i = j
  BY <1>3
<1>5. \A j \in B : \E i \in A : f[i] = j
  <2> TAKE j \in B
  <2>1. j \in 1..Len(s) /\ j # m /\ s[j] \in S
    BY DEF PositionsOf
  <2>2. CASE j < m
    <3>1. j \in 1..(Len(s) - 1)
      BY <2>1, <2>2
    <3>2. j \in A
      BY <1>2, <2>1, <2>2, <3>1 DEF PositionsOf
    <3> QED
      BY <2>2, <3>2
  <2>3. CASE j > m
    <3>1. j - 1 \in 1..(Len(s) - 1) /\ ~(j - 1 < m) /\ (j - 1) + 1 = j
      BY <2>1, <2>3
    <3>2. t[j - 1] = s[j]
      BY <1>2, <3>1
    <3>3. j - 1 \in A
      BY <1>2, <2>1, <3>1, <3>2 DEF PositionsOf
    <3>4. f[j - 1] = j
      BY <3>1, <3>3
    <3> QED
      BY <3>3, <3>4
  <2> QED
    BY <2>1, <2>2, <2>3
<1>6. f \in Bijection(A, B)
  <2>1. f \in [A -> B]
    BY <1>3
  <2> HIDE DEF f
  <2> QED
    BY <1>4, <1>5, <2>1 DEF Bijection, Injection, Surjection, IsInjective
<1>7. IsFiniteSet(A) /\ Cardinality(A) \in Nat
  BY <1>2, PositionsFinite
<1>8. Cardinality(B) = Cardinality(A)
  <2>1. ExistsBijection(A, B)
    BY <1>6, Zenon DEF ExistsBijection
  <2> HIDE DEF A, B, f
  <2> QED
    BY <1>7, <2>1, FS_Bijection
<1>9. /\ IsFiniteSet(PositionsOf(s, S)) /\ Cardinality(PositionsOf(s, S)) \in Nat
      /\ m \in PositionsOf(s, S) <=> e \in S
  BY <1>1, PositionsFinite DEF PositionsOf
<1>10. Cardinality(B) = IF e \in S THEN Cardinality(PositionsOf(s, S)) - 1
                                   ELSE Cardinality(PositionsOf(s, S))
  BY <1>9, FS_RemoveElement
<1>11. Cardinality(PositionsOf(s, S)) = Cardinality(A) + (IF e \in S THEN 1 ELSE 0)
  <2> HIDE DEF A, B
  <2> QED
    BY <1>7, <1>8, <1>9, <1>10
<1> QED
  BY <1>2, <1>11 DEF t

-----------------------------------------------------------------------------
(* The quota.                                                              *)

LastResorts(s) == Cardinality(PositionsOf(s, LastResort))

InQuota(s) == Len(s) <= MaxPerIdentity /\ LastResorts(s) <= MaxLastResort

\* At most one last-resort key package has to make room.
LEMMA EvictedIs ==
    ASSUME NEW K, NEW s \in Seq(K), LastResorts(s) <= MaxLastResort
    PROVE  Evicted(s) = IF LastResorts(s) < MaxLastResort
                        THEN s ELSE RemoveFirst(s, Oldest(s, LastResort))
<1> DEFINE excess == ExcessLastResort(Cardinality(PositionsOf(s, LastResort)))
           Next1(g, n) == IF n = 0 THEN s ELSE RemoveFirst(g[n - 1], Oldest(g[n - 1], LastResort))
           left == CHOOSE g : g = [n \in 0..excess |-> Next1(g, n)]
<1>1. Evicted(s) = left[excess]
  BY Zenon DEF Evicted
<1>2. LastResorts(s) \in Nat
  BY PositionsFinite DEF LastResorts
<1>3. CASE LastResorts(s) < MaxLastResort
  <2>1. excess = 0
    BY <1>2, <1>3, KeyPackageAssumption DEF ExcessLastResort, LastResorts
  <2>2. [n \in 0..excess |-> s] = [n \in 0..excess |-> Next1([i \in 0..excess |-> s], n)]
    BY <2>1
  <2>3. left = [n \in 0..excess |-> Next1(left, n)]
    <3> DEFINE IsLeft(g) == g = [n \in 0..excess |-> Next1(g, n)]
    <3>1. \E g : IsLeft(g)
      BY <2>2, Zenon
    <3> HIDE DEF IsLeft
    <3>2. IsLeft(CHOOSE g : IsLeft(g))
      BY <3>1, Zenon
    <3> QED
      BY <3>2, Zenon DEF IsLeft
  <2> HIDE DEF left
  <2>4. left[excess] = Next1(left, excess)
    BY <2>1, <2>3
  <2> QED
    BY <1>1, <1>3, <2>1, <2>4
<1>4. CASE ~(LastResorts(s) < MaxLastResort)
  <2>1. excess = 1
    BY <1>2, <1>4, KeyPackageAssumption DEF ExcessLastResort, LastResorts
  <2> DEFINE two == [i \in 0..excess |-> IF i = 0 THEN s ELSE RemoveFirst(s, Oldest(s, LastResort))]
  <2>2. two = [n \in 0..excess |-> Next1(two, n)]
    <3>1. two[0] = s
      BY <2>1
    <3>2. \A n \in 0..excess : two[n] = Next1(two, n)
      <4> TAKE n \in 0..excess
      <4>1. n = 0 \/ n = 1
        BY <2>1
      <4>2. CASE n = 0
        BY <3>1, <4>2
      <4>3. CASE n = 1
        <5>1. n - 1 = 0 /\ n # 0
          BY <4>3
        <5>2. two[n] = RemoveFirst(s, Oldest(s, LastResort))
          BY <5>1
        <5> HIDE DEF two
        <5> QED
          BY <3>1, <5>1, <5>2
      <4> QED
        BY <4>1, <4>2, <4>3
    <3> DEFINE other == [n \in 0..excess |-> Next1(two, n)]
    <3>3. \A n \in 0..excess : other[n] = two[n]
      BY <3>2
    <3>4. DOMAIN other = 0..excess /\ DOMAIN two = 0..excess
      OBVIOUS
    <3>5. two = [n \in 0..excess |-> two[n]] /\ other = [n \in 0..excess |-> other[n]]
      OBVIOUS
    <3> HIDE DEF other, two
    <3>6. two = other
      BY <3>3, <3>5
    <3> QED
      BY <3>6 DEF other
  <2>3. left = [n \in 0..excess |-> Next1(left, n)]
    <3> DEFINE IsLeft(g) == g = [n \in 0..excess |-> Next1(g, n)]
    <3>1. \E g : IsLeft(g)
      BY <2>2, Zenon
    <3> HIDE DEF IsLeft
    <3>2. IsLeft(CHOOSE g : IsLeft(g))
      BY <3>1, Zenon
    <3> QED
      BY <3>2, Zenon DEF IsLeft
  <2> HIDE DEF left
  <2>4. left[0] = Next1(left, 0) /\ left[1] = Next1(left, 1)
    BY <2>1, <2>3
  <2>5. left[1] = RemoveFirst(s, Oldest(s, LastResort))
    BY <2>4
  <2> QED
    BY <1>1, <1>4, <2>1, <2>5
<1> QED
  BY <1>3, <1>4

\* How often k is in s.
Times(s, k) == Cardinality(PositionsOf(s, {k}))

\* What it makes room for is last-resort, and another stays if it does not fit.
LEMMA EvictedOK ==
    ASSUME NEW K, NEW s \in Seq(K), InQuota(s)
    PROVE  /\ Evicted(s) \in Seq(K) /\ InQuota(Evicted(s))
           /\ \A k : Times(Evicted(s), k) <= Times(s, k)
           /\ LastResorts(s) < MaxLastResort => Evicted(s) = s
           /\ ~(LastResorts(s) < MaxLastResort) =>
                 /\ LastResorts(s) = MaxLastResort
                 /\ Len(Evicted(s)) = Len(s) - 1
                 /\ LastResorts(Evicted(s)) = LastResorts(s) - 1
<1>1. LastResorts(s) \in Nat /\ LastResorts(s) <= MaxLastResort /\ Len(s) <= MaxPerIdentity
  BY PositionsFinite DEF LastResorts, InQuota
<1>2. \A k : Times(s, k) \in Nat
  BY PositionsFinite DEF Times
<1>3. CASE LastResorts(s) < MaxLastResort
  <2>1. Evicted(s) = s
    BY <1>1, <1>3, EvictedIs
  <2> QED
    BY <1>2, <1>3, <2>1
<1>4. CASE ~(LastResorts(s) < MaxLastResort)
  <2> DEFINE e == Oldest(s, LastResort)
             t == RemoveFirst(s, e)
  <2>1. Evicted(s) = t
    BY <1>1, <1>4, EvictedIs
  <2>2. LastResorts(s) = MaxLastResort /\ LastResorts(s) > 0
    BY <1>1, <1>4, KeyPackageAssumption
  <2>3. PositionsOf(s, LastResort) # {}
    <3>1. PositionsOf(s, LastResort) = {} => LastResorts(s) = 0
      BY FS_EmptySet, Zenon DEF LastResorts
    <3> QED
      BY <2>2, <3>1
  <2>4. e \in LastResort /\ Contains(s, e)
    BY <2>3, OldestOf
  <2> HIDE DEF e
  <2>5. /\ t \in Seq(K) /\ Len(t) = Len(s) - 1
        /\ \A S : Cardinality(PositionsOf(s, S))
                    = Cardinality(PositionsOf(t, S)) + (IF e \in S THEN 1 ELSE 0)
    BY <2>4, PositionsRemoved
  <2> HIDE DEF t
  <2>6. LastResorts(t) \in Nat /\ \A k : Times(t, k) \in Nat
    BY <2>5, PositionsFinite DEF LastResorts, Times
  <2>7. LastResorts(s) = LastResorts(t) + 1
    BY <2>4, <2>5 DEF LastResorts
  <2>8. \A k : Times(s, k) = Times(t, k) + (IF e \in {k} THEN 1 ELSE 0)
    BY <2>5 DEF Times
  <2>9. \A k : Times(t, k) <= Times(s, k)
    BY <2>6, <2>8
  <2>10. Len(t) <= MaxPerIdentity /\ Len(t) = Len(s) - 1
    BY <1>1, <2>5, KeyPackageAssumption
  <2>11. LastResorts(t) = LastResorts(s) - 1 /\ LastResorts(t) <= MaxLastResort
    BY <1>1, <2>6, <2>7, KeyPackageAssumption
  <2> QED
    BY <1>4, <2>1, <2>2, <2>5, <2>9, <2>10, <2>11 DEF InQuota
<1> QED
  BY <1>3, <1>4

LEMMA HoldsLastResort ==
    ASSUME NEW K, NEW s \in Seq(K)
    PROVE  (LastResorts(s) > 0) <=> \E j \in LastResort : Contains(s, j)
<1>1. IsFiniteSet(PositionsOf(s, LastResort)) /\ LastResorts(s) \in Nat
  BY PositionsFinite DEF LastResorts
<1>2. (LastResorts(s) > 0) <=> PositionsOf(s, LastResort) # {}
  BY <1>1, FS_EmptySet DEF LastResorts
<1>3. PositionsOf(s, LastResort) # {} <=> \E j \in LastResort : Contains(s, j)
  BY DEF PositionsOf, Contains
<1> QED
  BY <1>2, <1>3

\* A publication keeps the quotas although the total is checked against a count from
\* before the eviction, stores at most k, and leaves a last-resort key package where
\* there was one.
LEMMA AfterPublishOK ==
    ASSUME NEW K, NEW s \in Seq(K), NEW k \in K, InQuota(s)
    PROVE  LET after == AfterPublish(s, k) IN
           /\ after.ok \in BOOLEAN
           /\ after.store \in Seq(K) /\ InQuota(after.store)
           /\ \A j : Times(after.store, j)
                       <= Times(s, j) + (IF after.ok /\ j = k THEN 1 ELSE 0)
           /\ LastResorts(s) > 0 => LastResorts(after.store) > 0
<1> DEFINE evicted == IF k \in LastResort THEN Evicted(s) ELSE s
           accepted == WithinQuota(s, k) /\ Storable(evicted, k)
<1>1. AfterPublish(s, k)
        = [ok |-> accepted, store |-> IF accepted THEN Append(evicted, k) ELSE evicted]
  BY Zenon DEF AfterPublish
<1>2. /\ LastResorts(s) \in Nat /\ LastResorts(s) <= MaxLastResort /\ Len(s) <= MaxPerIdentity
      /\ \A j : Times(s, j) \in Nat
  BY PositionsFinite DEF LastResorts, InQuota, Times
<1>3. /\ evicted \in Seq(K) /\ InQuota(evicted)
      /\ \A j : Times(evicted, j) <= Times(s, j)
  BY <1>2, EvictedOK
<1>4. LastResorts(evicted) \in Nat /\ \A j : Times(evicted, j) \in Nat
  BY <1>3, PositionsFinite DEF LastResorts, Times
<1>5. accepted \in BOOLEAN
  BY DEF WithinQuota, Storable
<1>6. accepted => Len(evicted) + 1 <= MaxPerIdentity
  <2> SUFFICES ASSUME WithinQuota(s, k) PROVE Len(evicted) + 1 <= MaxPerIdentity
    OBVIOUS
  <2>1. CASE k \notin LastResort
    BY <1>2, <2>1, KeyPackageAssumption DEF WithinQuota
  <2>2. CASE k \in LastResort /\ LastResorts(s) < MaxLastResort
    <3>1. evicted = s
      BY <2>2, EvictedOK
    <3>2. Evicted(s) = s
      BY <2>2, EvictedOK
    <3>3. Len(s) - LastResorts(s) + LastResorts(s) + 1 <= MaxPerIdentity
      BY <2>2, <3>2 DEF WithinQuota, LastResorts
    <3> QED
      BY <1>2, <3>1, <3>3
  <2>3. CASE k \in LastResort /\ ~(LastResorts(s) < MaxLastResort)
    <3>1. Len(evicted) = Len(s) - 1
      BY <2>3, EvictedOK
    <3> QED
      BY <1>2, <3>1, KeyPackageAssumption
  <2> QED
    BY <2>1, <2>2, <2>3
<1>7. accepted => LastResorts(evicted) + (IF k \in LastResort THEN 1 ELSE 0) <= MaxLastResort
  <2>1. CASE k \notin LastResort
    BY <1>2, <2>1
  <2>2. CASE k \in LastResort /\ LastResorts(s) < MaxLastResort
    <3>1. evicted = s
      BY <2>2, EvictedOK
    <3> QED
      BY <1>2, <2>2, <3>1, KeyPackageAssumption
  <2>3. CASE k \in LastResort /\ ~(LastResorts(s) < MaxLastResort)
    <3>1. LastResorts(evicted) = LastResorts(s) - 1
      BY <2>3, EvictedOK
    <3> QED
      BY <1>2, <1>4, <2>3, <3>1, KeyPackageAssumption
  <2> QED
    BY <2>1, <2>2, <2>3
<1>8. LastResorts(s) > 0 /\ ~accepted => LastResorts(evicted) > 0
  <2> SUFFICES ASSUME LastResorts(s) > 0, ~accepted, k \in LastResort,
                      ~(LastResorts(s) < MaxLastResort)
               PROVE  LastResorts(evicted) > 0
    BY EvictedOK
  <2>1. LastResorts(s) = MaxLastResort /\ Len(Evicted(s)) = Len(s) - 1
    BY EvictedOK
  <2>2. WithinQuota(s, k)
    <3>1. \A total \in {Len(s), Len(s) - 1} :
             total - MaxLastResort + (MaxLastResort - 1) + 1 <= MaxPerIdentity
      BY <1>2, KeyPackageAssumption
    <3>2. (IF InMemory THEN Len(Evicted(s)) ELSE Len(s)) \in {Len(s), Len(s) - 1}
      BY <2>1
    <3> QED
      BY <2>1, <3>1, <3>2 DEF WithinQuota, LastResorts
  <2>3. Contains(evicted, k)
    BY <2>2 DEF Storable
  <2> HIDE DEF evicted
  <2> QED
    BY <1>3, <2>3, HoldsLastResort
<1> HIDE DEF evicted, accepted
<1>9. CASE accepted
  <2> DEFINE t == Append(evicted, k)
  <2>1. /\ t \in Seq(K) /\ Len(t) = Len(evicted) + 1 /\ Contains(t, k)
        /\ \A S : Cardinality(PositionsOf(t, S))
                    = Cardinality(PositionsOf(evicted, S)) + (IF k \in S THEN 1 ELSE 0)
    BY <1>3, PositionsAppend
  <2>2. AfterPublish(s, k).ok = accepted /\ AfterPublish(s, k).store = t
    BY <1>1, <1>9
  <2> HIDE DEF t
  <2>3. LastResorts(t) = LastResorts(evicted) + (IF k \in LastResort THEN 1 ELSE 0)
    BY <2>1 DEF LastResorts
  <2>4. \A j : Times(t, j) = Times(evicted, j) + (IF j = k THEN 1 ELSE 0)
    <3> TAKE j
    <3>1. k \in {j} <=> j = k
      OBVIOUS
    <3>2. Times(t, j) = Times(evicted, j) + (IF k \in {j} THEN 1 ELSE 0)
      BY <2>1 DEF Times
    <3> QED
      BY <3>1, <3>2
  <2>5. InQuota(t)
    BY <1>6, <1>7, <1>9, <2>1, <2>3 DEF InQuota
  <2>6. \A j : Times(t, j) <= Times(s, j) + (IF j = k THEN 1 ELSE 0)
    BY <1>2, <1>3, <1>4, <2>4
  <2>7. LastResorts(s) > 0 => LastResorts(t) > 0
    <3>1. CASE k \in LastResort
      BY <1>4, <2>3, <3>1
    <3>2. CASE k \notin LastResort
      BY <1>2, <1>4, <2>3, <3>2 DEF evicted
    <3> QED
      BY <3>1, <3>2
  <2> QED
    BY <1>5, <1>9, <2>1, <2>2, <2>5, <2>6, <2>7
<1>10. CASE ~accepted
  <2>1. AfterPublish(s, k).ok = FALSE /\ AfterPublish(s, k).store = evicted
    BY <1>1, <1>5, <1>10
  <2>2. \A j : Times(evicted, j) <= Times(s, j) + 0
    BY <1>2, <1>3, <1>4
  <2> QED
    BY <1>3, <1>8, <1>10, <2>1, <2>2
<1> QED
  BY <1>9, <1>10

-----------------------------------------------------------------------------
(* Steps.                                                                  *)

LEMMA RemovedOK ==
    ASSUME NEW K, NEW s \in Seq(K), NEW e, Contains(s, e), InQuota(s)
    PROVE  /\ RemoveFirst(s, e) \in Seq(K) /\ InQuota(RemoveFirst(s, e))
           /\ \A j : Times(s, j) = Times(RemoveFirst(s, e), j) + (IF j = e THEN 1 ELSE 0)
           /\ e \notin LastResort => LastResorts(RemoveFirst(s, e)) = LastResorts(s)
<1> DEFINE t == RemoveFirst(s, e)
<1>1. /\ t \in Seq(K) /\ Len(t) = Len(s) - 1
      /\ \A S : Cardinality(PositionsOf(s, S))
                  = Cardinality(PositionsOf(t, S)) + (IF e \in S THEN 1 ELSE 0)
  BY PositionsRemoved
<1> HIDE DEF t
<1>2. /\ LastResorts(t) \in Nat /\ LastResorts(s) \in Nat
      /\ LastResorts(s) <= MaxLastResort /\ Len(s) <= MaxPerIdentity
  BY <1>1, PositionsFinite DEF LastResorts, InQuota
<1>3. LastResorts(s) = LastResorts(t) + (IF e \in LastResort THEN 1 ELSE 0)
  BY <1>1 DEF LastResorts
<1>4. \A j : Times(s, j) = Times(t, j) + (IF j = e THEN 1 ELSE 0)
  <2> TAKE j
  <2>1. e \in {j} <=> j = e
    OBVIOUS
  <2>2. Times(s, j) = Times(t, j) + (IF e \in {j} THEN 1 ELSE 0)
    BY <1>1 DEF Times
  <2> QED
    BY <2>1, <2>2
<1>5. InQuota(t)
  BY <1>1, <1>2, <1>3, KeyPackageAssumption DEF InQuota
<1> QED
  BY <1>1, <1>2, <1>3, <1>4, <1>5 DEF t

LEMMA NextForOK ==
    ASSUME NEW K, NEW s \in Seq(K), s # <<>>
    PROVE  NextFor(s) \in K /\ Contains(s, NextFor(s))
<1>1. CASE PositionsOf(s, Regular) # {}
  BY <1>1, OldestOf DEF NextFor
<1>2. CASE PositionsOf(s, Regular) = {}
  <2>1. Len(s) \in 1..Len(s) /\ NextFor(s) = s[Len(s)]
    BY <1>2 DEF NextFor, Last
  <2> QED
    BY <2>1 DEF Contains
<1> QED
  BY <1>1, <1>2

\* One identity's key packages change, within its quotas.
LEMMA Replaced ==
    ASSUME KpInv, NEW o \in Identities, NEW t \in Seq(Refs(o)), InQuota(t),
           published' = [published EXCEPT ![o] = t]
    PROVE  /\ Directory' /\ QuotaHolds'
           /\ \A k \in Kps : Count(k)' = IF OwnerOf[k] = o THEN Times(t, k) ELSE Count(k)
           /\ \A id \in Identities : published'[id] = IF id = o THEN t ELSE published[id]
<1>1. \A id \in Identities : published'[id] = IF id = o THEN t ELSE published[id]
  BY DEF KpInv, Directory
<1>2. Directory'
  BY <1>1 DEF KpInv, Directory, Refs
<1>3. QuotaHolds'
  BY <1>1 DEF KpInv, QuotaHolds, InQuota, LastResorts
<1>4. \A k \in Kps : Count(k)' = IF OwnerOf[k] = o THEN Times(t, k) ELSE Count(k)
  <2> TAKE k \in Kps
  <2>1. OwnerOf[k] \in Identities
    BY KeyPackageAssumption
  <2>2. Count(k)' = Times(published'[OwnerOf[k]], k)
    BY DEF Count, Times
  <2>3. Count(k) = Times(published[OwnerOf[k]], k)
    BY DEF Count, Times
  <2> QED
    BY <1>1, <2>1, <2>2, <2>3
<1> QED
  BY <1>1, <1>2, <1>3, <1>4

\* What an identity has published is in its quotas.
LEMMA PublishedOK ==
    ASSUME KpInv, NEW k \in Kps
    PROVE  /\ OwnerOf[k] \in Identities /\ k \in Refs(OwnerOf[k])
           /\ published[OwnerOf[k]] \in Seq(Refs(OwnerOf[k])) /\ InQuota(published[OwnerOf[k]])
           /\ Count(k) = Times(published[OwnerOf[k]], k) /\ Count(k) \in Nat
<1>1. OwnerOf[k] \in Identities
  BY KeyPackageAssumption
<1>2. published[OwnerOf[k]] \in Seq(Refs(OwnerOf[k]))
  BY <1>1 DEF KpInv, Directory
<1>3. InQuota(published[OwnerOf[k]])
  BY <1>1 DEF KpInv, QuotaHolds, InQuota, LastResorts
<1>4. Count(k) = Times(published[OwnerOf[k]], k)
  BY DEF Count, Times
<1>5. Count(k) \in Nat
  BY <1>2, <1>4, PositionsFinite DEF Times
<1> QED
  BY <1>1, <1>2, <1>3, <1>4, <1>5 DEF Refs

\* No identity that has a last-resort key package loses the last one.
KeepsLastResort ==
    \A id \in Identities : LastResorts(published[id]) > 0 => LastResorts(published'[id]) > 0

LEMMA PublishArrivesKeeps ==
    ASSUME KpInv, NEW k \in Kps, PublishArrives(k)
    PROVE  KpInv' /\ KeepsLastResort
<1> DEFINE o == OwnerOf[k]
           s == published[o]
           after == AfterPublish(s, k)
<1>1. /\ o \in Identities /\ k \in Refs(o) /\ s \in Seq(Refs(o)) /\ InQuota(s)
  BY PublishedOK
<1>2. /\ after.ok \in BOOLEAN
      /\ after.store \in Seq(Refs(o)) /\ InQuota(after.store)
      /\ \A j : Times(after.store, j) <= Times(s, j) + (IF after.ok /\ j = k THEN 1 ELSE 0)
      /\ LastResorts(s) > 0 => LastResorts(after.store) > 0
  BY <1>1, AfterPublishOK
<1>3. /\ published' = [published EXCEPT ![o] = after.store]
      /\ stored' = [stored EXCEPT ![k] = IF after.ok THEN @ + 1 ELSE @]
      /\ arrived[k] < calls[k] /\ arrived' = [arrived EXCEPT ![k] = @ + 1]
      /\ marked' \in IF after.ok THEN {marked, marked \cup {k}} ELSE {marked}
      /\ calls' = calls /\ held' = held /\ handedOut' = handedOut
  BY DEF PublishArrives
<1> HIDE DEF after
<1>4. /\ Directory' /\ QuotaHolds'
      /\ \A j \in Kps : Count(j)' = IF OwnerOf[j] = o THEN Times(after.store, j) ELSE Count(j)
      /\ \A id \in Identities : published'[id] = IF id = o THEN after.store ELSE published[id]
  <2> HIDE DEF o
  <2> QED
    BY <1>1, <1>2, <1>3, Replaced
<1>5. Counters'
  <2>1. stored \in [Kps -> Nat] /\ stored[k] \in Nat
    BY DEF KpInv, Counters
  <2>2. stored' \in [Kps -> Nat]
    BY <1>2, <1>3, <2>1
  <2>3. /\ arrived \in [Kps -> Nat] /\ calls \in [Kps -> 0..MaxPublishes]
        /\ \A j \in Kps : arrived[j] <= calls[j]
    BY DEF KpInv, Counters
  <2>4. arrived' \in [Kps -> Nat] /\ \A j \in Kps : arrived'[j] <= calls'[j]
    BY <1>3, <2>3
  <2> QED
    BY <1>3, <2>2, <2>4 DEF KpInv, Counters
<1>6. HandedOutOnce'
  <2> SUFFICES ASSUME NEW j \in Regular PROVE handedOut'[j] + Count(j)' <= stored'[j]
    BY DEF HandedOutOnce
  <2>1. /\ j \in Kps /\ handedOut[j] \in Nat /\ stored[j] \in Nat
        /\ handedOut[j] + Count(j) <= stored[j]
    BY DEF KpInv, HandedOutOnce, Counters, Regular
  <2>2. stored \in [Kps -> Nat]
    BY DEF KpInv, Counters
  <2>3. Count(j) \in Nat /\ Count(j) = Times(published[OwnerOf[j]], j)
    BY <2>1, PublishedOK
  <2>4. stored'[j] = stored[j] + (IF after.ok /\ j = k THEN 1 ELSE 0)
    BY <1>2, <1>3, <2>1, <2>2
  <2>5. Count(j)' <= Count(j) + (IF after.ok /\ j = k THEN 1 ELSE 0)
    <3>1. CASE OwnerOf[j] = o
      BY <1>2, <1>4, <2>1, <2>3, <3>1
    <3>2. CASE OwnerOf[j] # o
      BY <1>4, <2>1, <2>3, <3>2
    <3> QED
      BY <3>1, <3>2
  <2>6. Count(j)' \in Nat
    <3>1. CASE OwnerOf[j] = o
      <4>1. Count(j)' = Times(after.store, j)
        BY <1>4, <2>1, <3>1
      <4>2. Times(after.store, j) \in Nat
        BY <1>2, PositionsFinite DEF Times
      <4> QED
        BY <4>1, <4>2
    <3>2. CASE OwnerOf[j] # o
      BY <1>4, <2>1, <2>3, <3>2
    <3> QED
      BY <3>1, <3>2
  <2>7. handedOut'[j] = handedOut[j]
    BY <1>3
  <2> QED
    BY <2>1, <2>3, <2>4, <2>5, <2>6, <2>7
<1>7. KeepsLastResort
  BY <1>2, <1>4 DEF KeepsLastResort
<1> QED
  BY <1>4, <1>5, <1>6, <1>7 DEF KpInv

\* Removing k, and counting at most that one.
LEMMA RemovalKeeps ==
    ASSUME KpInv, NEW k \in Kps, Listed(k),
           published' = [published EXCEPT ![OwnerOf[k]] = RemoveFirst(@, k)],
           stored' = stored, Counters',
           \A j \in Kps : handedOut'[j] <= handedOut[j] + (IF j = k THEN 1 ELSE 0)
    PROVE  KpInv' /\ (k \notin LastResort => KeepsLastResort)
<1> DEFINE o == OwnerOf[k]
           s == published[o]
           t == RemoveFirst(s, k)
<1>1. /\ o \in Identities /\ s \in Seq(Refs(o)) /\ InQuota(s) /\ Contains(s, k)
  BY PublishedOK DEF Listed
<1>2. /\ t \in Seq(Refs(o)) /\ InQuota(t)
      /\ \A j : Times(s, j) = Times(t, j) + (IF j = k THEN 1 ELSE 0)
      /\ k \notin LastResort => LastResorts(t) = LastResorts(s)
  BY <1>1, RemovedOK
<1>3. published' = [published EXCEPT ![o] = t]
  OBVIOUS
<1> HIDE DEF t
<1>4. /\ Directory' /\ QuotaHolds'
      /\ \A j \in Kps : Count(j)' = IF OwnerOf[j] = o THEN Times(t, j) ELSE Count(j)
      /\ \A id \in Identities : published'[id] = IF id = o THEN t ELSE published[id]
  <2> HIDE DEF o
  <2> QED
    BY <1>1, <1>2, <1>3, Replaced
<1>5. HandedOutOnce'
  <2> SUFFICES ASSUME NEW j \in Regular PROVE handedOut'[j] + Count(j)' <= stored'[j]
    BY DEF HandedOutOnce
  <2>1. /\ j \in Kps /\ handedOut[j] \in Nat /\ stored[j] \in Nat
        /\ handedOut[j] + Count(j) <= stored[j]
    BY DEF KpInv, HandedOutOnce, Counters, Regular
  <2>2. handedOut'[j] \in Nat
    BY <2>1 DEF Counters
  <2>3. Count(j) \in Nat /\ Count(j) = Times(published[OwnerOf[j]], j)
    BY <2>1, PublishedOK
  <2>4. Count(j)' \in Nat /\ Count(j) = Count(j)' + (IF j = k THEN 1 ELSE 0)
    <3>1. CASE OwnerOf[j] = o
      <4>1. Count(j)' = Times(t, j)
        BY <1>4, <2>1, <3>1
      <4>2. Times(t, j) \in Nat
        BY <1>2, PositionsFinite DEF Times
      <4> QED
        BY <1>2, <2>3, <3>1, <4>1, <4>2
    <3>2. CASE OwnerOf[j] # o
      BY <1>4, <2>1, <2>3, <3>2
    <3> QED
      BY <3>1, <3>2
  <2>5. handedOut'[j] <= handedOut[j] + (IF j = k THEN 1 ELSE 0)
    BY <2>1
  <2> QED
    BY <2>1, <2>2, <2>3, <2>4, <2>5
<1>6. k \notin LastResort => KeepsLastResort
  BY <1>2, <1>4 DEF KeepsLastResort
<1> QED
  BY <1>4, <1>5, <1>6 DEF KpInv

LEMMA HandOutKeeps ==
    ASSUME KpInv, NEW k \in Kps, Listed(k), HandOut(k)
    PROVE  KpInv' /\ KeepsLastResort
<1>1. /\ handedOut[k] < MaxHandOuts /\ handedOut' = [handedOut EXCEPT ![k] = @ + 1]
      /\ published' = [published EXCEPT ![OwnerOf[k]] = Remaining(@, k)]
      /\ calls' = calls /\ arrived' = arrived /\ stored' = stored
      /\ marked' = marked /\ held' = held
  BY DEF HandOut
<1>2. handedOut \in [Kps -> 0..MaxHandOuts]
  BY DEF KpInv, Counters
<1>3. Counters'
  <2>1. handedOut' \in [Kps -> 0..MaxHandOuts]
    BY <1>1, <1>2, KeyPackageAssumption
  <2> QED
    BY <1>1, <2>1 DEF KpInv, Counters
<1>4. \A j \in Kps : handedOut'[j] <= handedOut[j] + (IF j = k THEN 1 ELSE 0)
  BY <1>1, <1>2
<1>5. CASE k \notin LastResort
  <2>1. published' = [published EXCEPT ![OwnerOf[k]] = RemoveFirst(@, k)]
    BY <1>1, <1>5 DEF Remaining
  <2> QED
    BY <1>1, <1>3, <1>4, <1>5, <2>1, RemovalKeeps
<1>6. CASE k \in LastResort
  <2>1. published' = published
    <3>1. published' = [published EXCEPT ![OwnerOf[k]] = published[OwnerOf[k]]]
      BY <1>1, <1>6 DEF Remaining
    <3>2. published = [id \in Identities |-> published[id]]
      <4>1. OwnerOf[k] \in Identities /\ published[OwnerOf[k]] \in Seq(Refs(OwnerOf[k]))
        BY PublishedOK
      <4> QED
        BY <4>1 DEF KpInv, Directory
    <3> QED
      BY <3>1, <3>2
  <2>2. Directory' /\ QuotaHolds' /\ KeepsLastResort
    BY <2>1 DEF KpInv, Directory, QuotaHolds, KeepsLastResort
  <2>3. HandedOutOnce'
    <3> SUFFICES ASSUME NEW j \in Regular PROVE handedOut'[j] + Count(j)' <= stored'[j]
      BY DEF HandedOutOnce
    <3>1. handedOut'[j] = handedOut[j]
      BY <1>1, <1>2, <1>6 DEF Regular
    <3>2. Count(j)' = Count(j)
      BY <2>1 DEF Count
    <3> QED
      BY <1>1, <3>1, <3>2 DEF KpInv, HandedOutOnce
  <2> QED
    BY <1>3, <2>2, <2>3 DEF KpInv
<1> QED
  BY <1>5, <1>6

\* Whoever is asked for by identity is one of its key packages.
LEMMA ConsumeKeeps ==
    ASSUME KpInv, ConsumeKeyPackage
    PROVE  KpInv' /\ KeepsLastResort
<1>1. CASE \E k \in Kps : ConsumeByRef(k)
  BY <1>1, HandOutKeeps DEF ConsumeByRef
<1>2. CASE \E id \in Identities : ConsumeByIdentity(id)
  <2>1. PICK id \in Identities : ConsumeByIdentity(id)
    BY <1>2
  <2>2. published[id] \in Seq(Refs(id)) /\ published[id] # <<>>
    BY <2>1 DEF KpInv, Directory, ConsumeByIdentity
  <2>3. NextFor(published[id]) \in Refs(id) /\ Contains(published[id], NextFor(published[id]))
    BY <2>2, NextForOK
  <2>4. PICK k \in Kps : k = NextFor(published[id]) /\ OwnerOf[k] = id
    BY <2>3 DEF Refs
  <2>5. Listed(k) /\ HandOut(k)
    BY <2>1, <2>3, <2>4 DEF Listed, ConsumeByIdentity
  <2> QED
    BY <2>5, HandOutKeeps
<1> QED
  BY <1>1, <1>2 DEF ConsumeKeyPackage

LEMMA DeleteKeeps ==
    ASSUME KpInv, NEW k \in Kps, DeleteKeyPackage(k)
    PROVE  KpInv'
<1>1. /\ Listed(k) /\ published' = [published EXCEPT ![OwnerOf[k]] = RemoveFirst(@, k)]
      /\ held' \in {held, held \ {k}}
      /\ calls' = calls /\ arrived' = arrived /\ stored' = stored
      /\ marked' = marked /\ handedOut' = handedOut
  BY DEF DeleteKeyPackage, RemoveKeyPackages
<1>2. Counters'
  BY <1>1 DEF KpInv, Counters
<1>3. \A j \in Kps : handedOut'[j] <= handedOut[j] + (IF j = k THEN 1 ELSE 0)
  <2>1. \A j \in Kps : handedOut[j] \in Nat
    BY DEF KpInv, Counters
  <2> QED
    BY <1>1, <2>1
<1> QED
  BY <1>1, <1>2, <1>3, RemovalKeeps

\* What a client does with its own copies leaves the directory alone.
LEMMA LocalKeeps ==
    ASSUME KpInv, published' = published, stored' = stored, handedOut' = handedOut, Counters'
    PROVE  KpInv' /\ KeepsLastResort
<1>1. Directory' /\ QuotaHolds' /\ KeepsLastResort
  BY DEF KpInv, Directory, QuotaHolds, KeepsLastResort
<1>2. HandedOutOnce'
  BY DEF KpInv, HandedOutOnce, Count
<1> QED
  BY <1>1, <1>2 DEF KpInv

LEMMA KpInvNext ==
    ASSUME KpInv, [KpNext]_kpVars
    PROVE  KpInv' /\ (KeepsLastResort \/ \E j \in Kps : DeleteKeyPackage(j))
<1>1. CASE UNCHANGED kpVars
  <2>1. Counters'
    BY <1>1 DEF kpVars, KpInv, Counters
  <2> QED
    BY <1>1, <2>1, LocalKeeps DEF kpVars
<1>2. ASSUME NEW k \in Kps, GenerateKeyPackage(k)
      PROVE  KpInv' /\ KeepsLastResort
  <2>1. Counters'
    BY <1>2, KeyPackageAssumption DEF GenerateKeyPackage, KpInv, Counters
  <2> QED
    BY <1>2, <2>1, LocalKeeps DEF GenerateKeyPackage
<1>3. ASSUME NEW k \in Kps, PublishKeyPackage(k)
      PROVE  KpInv' /\ KeepsLastResort
  <2>1. Counters'
    BY <1>3, KeyPackageAssumption DEF PublishKeyPackage, KpInv, Counters
  <2> QED
    BY <1>3, <2>1, LocalKeeps DEF PublishKeyPackage
<1>4. ASSUME NEW k \in Kps, ForgetKeyPackage(k) \/ LoadLastResortKeyPackage(k)
      PROVE  KpInv' /\ KeepsLastResort
  <2>1. Counters'
    BY <1>4 DEF ForgetKeyPackage, LoadLastResortKeyPackage, KpInv, Counters
  <2> QED
    BY <1>4, <2>1, LocalKeeps DEF ForgetKeyPackage, LoadLastResortKeyPackage
<1> QED
  BY <1>1, <1>2, <1>3, <1>4, PublishArrivesKeeps, ConsumeKeeps, DeleteKeeps
     DEF KpNext, DirectoryNext, LocalNext

LEMMA KpInvInit == KpInit => KpInv
<1> SUFFICES ASSUME KpInit PROVE KpInv
  OBVIOUS
<1>1. \A id \in Identities : published[id] = <<>>
  BY DEF KpInit
<1>2. \A S : PositionsOf(<<>>, S) = {}
  BY DEF PositionsOf
<1>3. Cardinality({}) = 0
  BY FS_EmptySet
<1>4. Directory
  BY <1>1 DEF KpInit, Directory, Refs
<1>5. QuotaHolds
  <2> SUFFICES ASSUME NEW id \in Identities
               PROVE  /\ Len(published[id]) <= MaxPerIdentity
                      /\ Cardinality(PositionsOf(published[id], LastResort)) <= MaxLastResort
    BY DEF QuotaHolds
  <2>1. Len(published[id]) = 0 /\ Cardinality(PositionsOf(published[id], LastResort)) = 0
    BY <1>1, <1>2, <1>3
  <2> QED
    BY <2>1, KeyPackageAssumption
<1>6. HandedOutOnce
  <2> SUFFICES ASSUME NEW k \in Regular PROVE handedOut[k] + Count(k) <= stored[k]
    BY DEF HandedOutOnce
  <2>1. k \in Kps /\ OwnerOf[k] \in Identities
    BY KeyPackageAssumption DEF Regular
  <2>2. Count(k) = 0
    BY <1>1, <1>2, <1>3, <2>1 DEF Count
  <2> QED
    BY <2>1, <2>2 DEF KpInit
<1>7. Counters
  BY KeyPackageAssumption DEF KpInit, Counters
<1> QED
  BY <1>4, <1>5, <1>6, <1>7 DEF KpInv

-----------------------------------------------------------------------------
(* Theorems.                                                               *)

THEOREM DirectoryInvariant == KpSpec => []KpInv
<1>1. KpInv /\ [KpNext]_kpVars => KpInv'
  BY KpInvNext
<1> QED
  BY <1>1, KpInvInit, PTL DEF KpSpec

\* Every identity lists key packages of its own, and no more requests are executed
\* than were made.
LEMMA KpTypes == KpInv => KpTypeOK
BY DEF KpInv, Directory, Counters, Refs, KpTypeOK

\* Whatever mixture of key packages an identity publishes, re-publishes and deletes,
\* both quotas hold, although the total is checked against a count taken before the
\* eviction (enforceKeyPackageQuota in coordinatorMethods.ts).
THEOREM QuotasHold == KpSpec => []QuotaHolds
<1>1. KpInv => QuotaHolds
  BY DEF KpInv
<1> QED
  BY <1>1, DirectoryInvariant, PTL

\* A publication of a single-use key package is handed out at most once, by ref and
\* by identity in any order (consumeKeyPackage of both storages).
THEOREM HandedOutAtMostOnce == KpSpec => []HandedOutOnce
<1>1. KpInv => HandedOutOnce
  BY DEF KpInv
<1> QED
  BY <1>1, DirectoryInvariant, PTL

\* No publication that is refused, no eviction and no consumption takes the last
\* last-resort key package of an identity away; only a deletion does.
THEOREM LastResortStays == KpSpec => StaysReachable
<1> DEFINE Stays ==
             \A k \in LastResort :
                (Listed(k) /\ ~\E j \in LastResort : OwnerOf[j] = OwnerOf[k] /\ Listed(j)')
                   => \E j \in Kps : DeleteKeyPackage(j)
<1>1. KpInv /\ [KpNext]_kpVars => Stays
  <2> SUFFICES ASSUME KpInv, [KpNext]_kpVars, NEW k \in LastResort, Listed(k),
                      ~\E j \in Kps : DeleteKeyPackage(j)
               PROVE  \E j \in LastResort : OwnerOf[j] = OwnerOf[k] /\ Listed(j)'
    OBVIOUS
  <2>1. KeepsLastResort /\ KpInv'
    BY KpInvNext
  <2>2. k \in Kps /\ OwnerOf[k] \in Identities
    BY KeyPackageAssumption
  <2> DEFINE o == OwnerOf[k]
             s == published'[o]
  <2>3. published[o] \in Seq(Refs(o)) /\ s \in Seq(Refs(o))
    BY <2>1, <2>2 DEF KpInv, Directory
  <2>4. LastResorts(published[o]) > 0
    BY <2>3, HoldsLastResort DEF Listed
  <2>5. LastResorts(s) > 0
    BY <2>1, <2>2, <2>4 DEF KeepsLastResort
  <2>6. PICK j \in LastResort : Contains(s, j)
    <3> HIDE DEF s
    <3> QED
      BY <2>3, <2>5, HoldsLastResort
  <2>7. OwnerOf[j] = o
    BY <2>3, <2>6 DEF Contains, Refs
  <2> QED
    BY <2>6, <2>7 DEF Listed
<1> QED
  BY <1>1, DirectoryInvariant, PTL DEF KpSpec, StaysReachable
=============================================================================
