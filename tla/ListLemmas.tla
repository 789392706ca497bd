----------------------------- MODULE ListLemmas -----------------------------
(***************************************************************************)
(* Lemmas about sequences and sets of numbers that the proofs of several   *)
(* components need.                                                        *)
(***************************************************************************)
EXTENDS Integers, SequencesExt, FiniteSetsExt, SequenceTheorems, FunctionTheorems,
        FiniteSetTheorems, WellFoundedInduction, TLAPS

\* Two sequences, one behind the other.
LEMMA Joined ==
    ASSUME NEW S, NEW s \in Seq(S), NEW t \in Seq(S), NEW r, r = s \o t
    PROVE  /\ r \in Seq(S) /\ Len(r) = Len(s) + Len(t)
           /\ \A i \in 1..Len(s) : r[i] = s[i]
           /\ \A i \in 1..Len(t) : r[Len(s) + i] = t[i]
<1>1. /\ r \in Seq(S) /\ Len(r) = Len(s) + Len(t)
      /\ \A i \in 1..(Len(s) + Len(t)) : r[i] = IF i <= Len(s) THEN s[i] ELSE t[i - Len(s)]
  BY ConcatProperties
<1>2. Len(s) \in Nat /\ Len(t) \in Nat
  OBVIOUS
<1>3. ASSUME NEW i \in 1..Len(t) PROVE r[Len(s) + i] = t[i]
  <2>1. Len(s) + i \in 1..(Len(s) + Len(t)) /\ ~(Len(s) + i <= Len(s))
    BY <1>2
  <2>2. (Len(s) + i) - Len(s) = i
    BY <1>2
  <2> QED BY <1>1, <2>1, <2>2
<1> QED BY <1>1, <1>2, <1>3

\* A set of numbers has a least one: of the intervals 0..n that end in it, one
\* contains no other.
LEMMA LeastExists ==
    ASSUME NEW S, S \subseteq Nat, S # {}
    PROVE  Min(S) \in S /\ \A m \in S : Min(S) <= m
<1> DEFINE Q == {0..n : n \in S}
<1>1. Q \subseteq FiniteSubsetsOf(Nat) /\ Q # {}
  <2>1. ASSUME NEW n \in S PROVE IsFiniteSet(0..n) /\ 0..n \in SUBSET Nat
    BY FS_Interval
  <2> QED BY <2>1 DEF FiniteSubsetsOf
<1>2. IsWellFoundedOn(StrictSubsetOrdering(Nat), FiniteSubsetsOf(Nat))
  BY FS_StrictSubsetOrderingWellFounded
<1>3. PICK x \in Q : \A y \in Q : ~(<<y, x>> \in StrictSubsetOrdering(Nat))
  <2> HIDE DEF Q
  <2> QED BY <1>1, <1>2, WFMin, Zenon
<1>4. PICK n \in S : x = 0..n
  BY <1>3
<1>5. ASSUME NEW m \in S PROVE n <= m
  <2>1. SUFFICES ASSUME m < n PROVE FALSE
    BY <1>4, <1>5
  <2>2. 0..m \subseteq 0..n /\ 0..m # 0..n /\ 0..m \in SUBSET Nat /\ 0..n \in SUBSET Nat
    BY <2>1
  <2>3. <<0..m, 0..n>> \in StrictSubsetOrdering(Nat)
    BY <2>2 DEF StrictSubsetOrdering
  <2> QED BY <1>3, <1>4, <2>3
<1> QED BY <1>5 DEF Min

\* So has a set of integers that has a lower bound.
LEMMA LeastAbove ==
    ASSUME NEW S, S \subseteq Int, S # {}, NEW c \in Int, \A m \in S : c <= m
    PROVE  Min(S) \in S /\ \A m \in S : Min(S) <= m
<1> DEFINE T == {m - c : m \in S}
<1>1. T \subseteq Nat /\ T # {}
  OBVIOUS
<1>2. Min(T) \in T /\ \A t \in T : Min(T) <= t
  <2> HIDE DEF T
  <2> QED BY <1>1, LeastExists
<1>3. PICK m \in S : Min(T) = m - c
  BY <1>2
<1>4. \A k \in S : m <= k
  <2> TAKE k \in S
  <2>1. k - c \in T
    OBVIOUS
  <2>2. m - c <= k - c
    BY <1>2, <1>3, <2>1, Zenon
  <2> QED BY <2>2
<1> QED BY <1>4 DEF Min

\* The place, before n was taken out, of what is at i.
Past(n, i) == IF i < n THEN i ELSE i + 1

\* RemoveAt takes out one place and keeps the order of the others.
LEMMA RemoveAtIs ==
    ASSUME NEW S, NEW l \in Seq(S), NEW n \in 1..Len(l)
    PROVE  /\ RemoveAt(l, n) \in Seq(S) /\ Len(RemoveAt(l, n)) = Len(l) - 1
           /\ \A i \in 1..(Len(l) - 1) : RemoveAt(l, n)[i] = l[Past(n, i)]
<1> DEFINE a == SubSeq(l, 1, n - 1)
           b == SubSeq(l, n + 1, Len(l))
<1>1. n \in Nat /\ n > 0 /\ Len(l) \in Nat /\ n <= Len(l)
  OBVIOUS
<1>2. a \in Seq(S) /\ Len(a) = n - 1 /\ \A i \in 1..(n - 1) : a[i] = l[i]
  <2>1. \A i \in 1..(n - 1) : l[i] \in S
    BY <1>1
  <2> QED BY <1>1, <2>1, SubSeqProperties
<1>3. b \in Seq(S) /\ Len(b) = Len(l) - n /\ \A i \in 1..(Len(l) - n) : b[i] = l[n + i]
  <2>1. \A i \in (n + 1)..Len(l) : l[i] \in S
    BY <1>1
  <2> QED BY <1>1, <2>1, SubSeqProperties
<1> DEFINE r == a \o b
<1>4. r = a \o b /\ RemoveAt(l, n) = r
  BY DEF RemoveAt
<1> HIDE DEF a, b, r
<1>5. r \in Seq(S) /\ Len(r) = Len(a) + Len(b) /\ (\A i \in 1..Len(a) : r[i] = a[i])
      /\ (\A i \in 1..Len(b) : r[Len(a) + i] = b[i])
  <2>1. a \in Seq(S) /\ b \in Seq(S) /\ r = a \o b
    BY <1>2, <1>3, <1>4, Zenon
  <2> QED BY <2>1, Joined
<1>6. ASSUME NEW i \in 1..(Len(l) - 1) PROVE r[i] = l[Past(n, i)]
  <2>1. CASE i < n
    <3>1. i \in 1..Len(a) /\ i \in 1..(n - 1) /\ Past(n, i) = i
      BY <1>1, <1>2, <2>1 DEF Past
    <3> QED BY <1>2, <1>5, <3>1
  <2>2. CASE ~(i < n)
    <3> DEFINE j == i - (n - 1)
    <3>1. j \in 1..Len(b) /\ j \in 1..(Len(l) - n) /\ Len(a) + j = i /\ n + j = Past(n, i)
      BY <1>1, <1>2, <1>3, <2>2 DEF Past
    <3> HIDE DEF j
    <3>2. r[i] = b[j] /\ b[j] = l[n + j]
      BY <1>3, <1>5, <3>1
    <3> QED BY <3>1, <3>2
  <2> QED BY <2>1, <2>2
<1>7. Len(r) = Len(l) - 1
  BY <1>1, <1>2, <1>3, <1>5
<1> QED BY <1>4, <1>5, <1>6, <1>7, Zenon

\* RemoveFirst of an element that is there takes it out of one place.
LEMMA RemoveFirstIs ==
    ASSUME NEW S, NEW l \in Seq(S), NEW e \in ToSet(l)
    PROVE  \E n \in 1..Len(l) :
              /\ l[n] = e
              /\ RemoveFirst(l, e) \in Seq(S) /\ Len(RemoveFirst(l, e)) = Len(l) - 1
              /\ \A i \in 1..(Len(l) - 1) : RemoveFirst(l, e)[i] = l[Past(n, i)]
<1> DEFINE I == {i \in 1..Len(l) : l[i] = e}
<1>1. I \subseteq Nat /\ I # {}
  BY DEF ToSet
<1> DEFINE n == Min(I)
<1>2. n \in 1..Len(l) /\ l[n] = e
  BY <1>1, LeastExists
<1>3. RemoveFirst(l, e) = RemoveAt(l, n)
  BY <1>1 DEF RemoveFirst, SelectInSeq
<1> HIDE DEF n
<1>4. /\ RemoveAt(l, n) \in Seq(S) /\ Len(RemoveAt(l, n)) = Len(l) - 1
      /\ \A i \in 1..(Len(l) - 1) : RemoveAt(l, n)[i] = l[Past(n, i)]
  BY <1>2, RemoveAtIs, Zenon
<1> QED BY <1>2, <1>3, <1>4, Zenon

\* An element that is put in front of a list without it.
LEMMA PushIs ==
    ASSUME NEW S, NEW l \in Seq(S), NEW e \in S, IsInjective(l), e \notin ToSet(l),
           NEW r, r = <<e>> \o l
    PROVE  r \in Seq(S) /\ r # <<>> /\ IsInjective(r)
           /\ \A x : x \in ToSet(r) <=> x \in ToSet(l) \/ x = e
<1>1. <<e>> \in Seq(S) /\ Len(<<e>>) = 1 /\ <<e>>[1] = e
  OBVIOUS
<1> DEFINE o == <<e>>
<1>2. o \in Seq(S) /\ Len(o) = 1 /\ o[1] = e /\ r = o \o l
  BY <1>1
<1> HIDE DEF o
<1>3. /\ r \in Seq(S) /\ Len(r) = Len(o) + Len(l)
      /\ \A i \in 1..Len(o) : r[i] = o[i]
      /\ \A i \in 1..Len(l) : r[Len(o) + i] = l[i]
  <2>1. o \in Seq(S) /\ r = o \o l
    BY <1>2
  <2> QED BY <2>1, Joined
<1>4. Len(l) \in Nat /\ DOMAIN l = 1..Len(l) /\ DOMAIN r = 1..(Len(l) + 1) /\ r[1] = e
      /\ \A i \in 1..Len(l) : r[1 + i] = l[i]
  BY <1>2, <1>3
<1>5. \A i \in DOMAIN r : i = 1 \/ (i - 1 \in DOMAIN l /\ r[i] = l[i - 1])
  <2> TAKE i \in DOMAIN r
  <2>1. CASE i # 1
    <3>1. i - 1 \in 1..Len(l) /\ 1 + (i - 1) = i
      BY <1>4, <2>1
    <3> QED BY <1>4, <3>1
  <2> QED BY <2>1
<1>6. ToSet(r) = ToSet(l) \cup {e}
  <2>1. ASSUME NEW x \in ToSet(r) PROVE x \in ToSet(l) \cup {e}
    BY <1>4, <1>5 DEF ToSet
  <2>2. ASSUME NEW x \in ToSet(l) PROVE x \in ToSet(r)
    <3>1. PICK i \in 1..Len(l) : x = l[i]
      BY <1>4 DEF ToSet
    <3>2. 1 + i \in DOMAIN r /\ r[1 + i] = x
      BY <1>4, <3>1
    <3> QED BY <3>2 DEF ToSet
  <2>3. e \in ToSet(r)
    <3>1. 1 \in DOMAIN r
      BY <1>4
    <3> QED BY <1>4, <3>1 DEF ToSet
  <2> QED BY <2>1, <2>2, <2>3
<1>7. IsInjective(r)
  <2> SUFFICES ASSUME NEW i \in DOMAIN r, NEW j \in DOMAIN r, r[i] = r[j] PROVE i = j
    BY DEF IsInjective
  <2>1. \A k \in DOMAIN l : l[k] # e
    BY DEF ToSet
  <2>2. i \in Int /\ j \in Int
    BY <1>4
  <2> QED BY <1>4, <1>5, <2>1, <2>2 DEF IsInjective
<1>8. r # <<>>
  BY <1>3, <1>4
<1> QED BY <1>3, <1>6, <1>7, <1>8

\* An element that is taken out of a list which has it once.
LEMMA PullIs ==
    ASSUME NEW S, NEW l \in Seq(S), NEW e \in ToSet(l), IsInjective(l),
           NEW r, r = RemoveFirst(l, e)
    PROVE  /\ r \in Seq(S) /\ ToSet(r) = ToSet(l) \ {e} /\ IsInjective(r)
           /\ r = <<>> <=> l = <<e>>
<1>1. PICK n \in 1..Len(l) :
              /\ l[n] = e
              /\ r \in Seq(S) /\ Len(r) = Len(l) - 1
              /\ \A i \in 1..(Len(l) - 1) : r[i] = l[Past(n, i)]
  <2>1. \E n \in 1..Len(l) :
           /\ l[n] = e
           /\ RemoveFirst(l, e) \in Seq(S) /\ Len(RemoveFirst(l, e)) = Len(l) - 1
           /\ \A i \in 1..(Len(l) - 1) : RemoveFirst(l, e)[i] = l[Past(n, i)]
    BY RemoveFirstIs
  <2> QED BY <2>1
<1>2. Len(l) \in Nat /\ Len(l) > 0 /\ DOMAIN l = 1..Len(l) /\ DOMAIN r = 1..(Len(l) - 1)
      /\ n \in Int /\ n >= 1 /\ n <= Len(l)
  BY <1>1
<1>3. ASSUME NEW i \in DOMAIN r PROVE Past(n, i) \in DOMAIN l /\ Past(n, i) # n
  BY <1>2 DEF Past
<1>4. ASSUME NEW j \in DOMAIN l, j # n PROVE \E i \in DOMAIN r : Past(n, i) = j
  <2>1. CASE j < n
    BY <1>2, <1>4, <2>1 DEF Past
  <2>2. CASE j > n
    <3>1. j - 1 \in DOMAIN r /\ Past(n, j - 1) = j
      BY <1>2, <1>4, <2>2 DEF Past
    <3> QED BY <3>1
  <2> QED BY <1>2, <1>4, <2>1, <2>2
<1>5. ToSet(r) = ToSet(l) \ {e}
  <2>1. ASSUME NEW x \in ToSet(r) PROVE x \in ToSet(l) \ {e}
    <3>1. PICK i \in DOMAIN r : x = l[Past(n, i)]
      BY <1>1, <1>2 DEF ToSet
    <3> QED BY <1>1, <1>2, <1>3, <3>1 DEF ToSet, IsInjective
  <2>2. ASSUME NEW x \in ToSet(l) \ {e} PROVE x \in ToSet(r)
    <3>1. PICK j \in DOMAIN l : x = l[j]
      BY DEF ToSet
    <3>2. j # n
      BY <1>1, <2>2, <3>1
    <3>3. PICK i \in DOMAIN r : Past(n, i) = j
      BY <1>4, <3>2
    <3> QED BY <1>1, <1>2, <3>1, <3>3 DEF ToSet
  <2> QED BY <2>1, <2>2
<1>6. IsInjective(r)
  <2> SUFFICES ASSUME NEW i \in DOMAIN r, NEW j \in DOMAIN r, r[i] = r[j] PROVE i = j
    BY DEF IsInjective
  <2>1. l[Past(n, i)] = l[Past(n, j)]
    BY <1>1, <1>2
  <2>2. Past(n, i) = Past(n, j)
    BY <1>3, <2>1 DEF IsInjective
  <2> QED BY <1>2, <2>2 DEF Past
<1>7. r = <<>> <=> l = <<e>>
  <2>1. ASSUME r = <<>> PROVE l = <<e>>
    <3>1. Len(r) = 0
      BY <2>1
    <3>2. Len(l) = 1 /\ l[1] = e
      BY <1>1, <1>2, <3>1
    <3> QED BY <3>2
  <2>2. ASSUME l = <<e>> PROVE r = <<>>
    <3>1. Len(l) = 1
      BY <2>2
    <3>2. Len(r) = 0
      BY <1>1, <3>1
    <3> QED BY <1>1, <3>2
  <2> QED BY <2>1, <2>2
<1> QED BY <1>1, <1>5, <1>6, <1>7
=============================================================================
