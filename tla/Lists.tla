------------------------------- MODULE Lists -------------------------------
(***************************************************************************)
(* Facts about numbers and lists that the proofs of several modules need:  *)
(* smallest and largest numbers, quotients, folds from left to right, and  *)
(* where FlattenSeq puts the members of a list of lists.                   *)
(***************************************************************************)
EXTENDS Integers, Sequences, FiniteSets, SequencesExt, SequenceTheorems, FiniteSetTheorems, TLAPS

----------------------------------------------------------------------------
(* Numbers *)

\* A set of numbers has a smallest one.
LEMMA Smallest ==
    ASSUME NEW S \in SUBSET Nat, S # {}
    PROVE  \E m \in S : \A n \in S : m <= n
<1> DEFINE Below(m) == S \cap (0..m)
           T == {Below(m) : m \in S}
           R == StrictSubsetOrdering(S)
<1>1. \A m \in S : Below(m) \in FiniteSubsetsOf(S)
  <2> SUFFICES ASSUME NEW m \in S
               PROVE  IsFiniteSet(Below(m))
    BY DEF FiniteSubsetsOf
  <2>1. IsFiniteSet(0..m)
    BY FS_Interval
  <2>2. Below(m) \in SUBSET (0..m)
    OBVIOUS
  <2> QED
    BY <2>1, <2>2, FS_Subset
<1>2. T \subseteq FiniteSubsetsOf(S) /\ T # {}
  BY <1>1
<1>3. PICK x \in T : \A y \in T : ~(<<y, x>> \in R)
  <2> HIDE DEF T, R
  <2>1. IsWellFoundedOn(R, FiniteSubsetsOf(S))
    BY FS_StrictSubsetOrderingWellFounded DEF R
  <2> QED
    BY <1>2, <2>1, WFMin
<1>4. PICK m \in S : x = Below(m)
  BY <1>3
<1>5. ASSUME NEW n \in S, n < m
      PROVE  FALSE
  <2>1. Below(n) \subseteq Below(m) /\ m \in Below(m) /\ m \notin Below(n)
    BY <1>5
  <2>2. <<Below(n), Below(m)>> \in R
    BY <2>1 DEF StrictSubsetOrdering
  <2> QED
    BY <1>3, <1>4, <2>2
<1> QED
  BY <1>5

\* A bounded set of numbers has a largest one.
LEMMA Largest ==
    ASSUME NEW S \in SUBSET Nat, S # {}, NEW bound \in Nat, \A n \in S : n <= bound
    PROVE  \E m \in S : \A n \in S : n <= m
<1> DEFINE B == {k \in Nat : \A n \in S : n <= k}
<1>1. PICK m \in B : \A k \in B : m <= k
  BY Smallest
<1>2. m \in S
  <2> SUFFICES ASSUME m \notin S PROVE FALSE
    OBVIOUS
  <2>1. PICK n \in S : TRUE
    OBVIOUS
  <2>2. n <= m /\ n # m
    BY <1>1
  <2>3. m - 1 \in Nat /\ \A k \in S : k <= m - 1
    BY <1>1, <2>2
  <2> QED
    BY <1>1, <2>3
<1> QED
  BY <1>1, <1>2

\* Induction from 1 up to a bound.
LEMMA UpTo ==
    ASSUME NEW n \in Nat, NEW T, n > 0 => 1 \in T,
           \A k \in 1..(n - 1) : k \in T => k + 1 \in T
    PROVE  \A k \in 1..n : k \in T
<1> DEFINE S == {k \in 1..n : k \notin T}
<1> SUFFICES ASSUME S # {} PROVE FALSE
  OBVIOUS
<1>1. PICK m \in S : \A k \in S : m <= k
  <2>1. S \in SUBSET Nat
    OBVIOUS
  <2> HIDE DEF S
  <2> QED
    BY <2>1, Smallest
<1>2. m \in 1..n /\ m \notin T /\ m # 1
  BY <1>1
<1>3. m - 1 \in 1..(n - 1) /\ m - 1 \notin S /\ (m - 1) + 1 = m
  BY <1>1, <1>2
<1>4. m - 1 \in T
  BY <1>3
<1> QED
  BY <1>2, <1>3, <1>4

----------------------------------------------------------------------------
(* Division *)

\* Quotient and remainder.
LEMMA Division ==
    ASSUME NEW n \in Nat \ {0}, NEW d \in Int
    PROVE  d \div n \in Int /\ d % n \in 0..(n - 1) /\ d = (n * (d \div n)) + (d % n)
  BY SMTT(30)

\* Multiples of the divisor do not count.
LEMMA Remainders ==
    ASSUME NEW n \in Nat \ {0}, NEW q \in Int, NEW r \in 0..(n - 1)
    PROVE  ((n * q) + r) % n = r
  BY SMTT(30)

\* What is subtracted and what is left.
LEMMA NearLemma ==
    ASSUME NEW n \in Nat \ {0}, NEW a \in Nat
    PROVE  /\ a % n \in Nat /\ a - (a % n) \in Nat
           /\ (a - (a % n)) % n = 0
<1>1. PICK q, r : q = a \div n /\ r = a % n
  OBVIOUS
<1>2. q \in Int /\ r \in 0..(n - 1) /\ a = (n * q) + r
  BY <1>1, Division
<1>3. a - r = (n * q) + 0
  BY <1>2
<1>4. (a - r) % n = 0
  BY <1>2, <1>3, Remainders
<1>5. q >= 0
  BY <1>2
<1>6. n * q \in Nat
  BY <1>2, <1>5
<1> QED
  BY <1>1, <1>2, <1>3, <1>4, <1>6

----------------------------------------------------------------------------
(* Folds *)

\* The largest number of a bounded set.
LEMMA MaxLemma ==
    ASSUME NEW n \in Nat, NEW s \in SUBSET (1..n), s # {}
    PROVE  Max(s) \in s /\ \A k \in s : k <= Max(s)
<1>1. s \in SUBSET Nat /\ \A k \in s : k <= n
  OBVIOUS
<1>2. \E m \in s : \A k \in s : k <= m
  BY <1>1, Largest
<1>3. \E m \in s : \A k \in s : m >= k
  BY <1>1, <1>2
<1>4. PICK m : m = CHOOSE x \in s : \A y \in s : x >= y
  OBVIOUS
<1>5. m \in s /\ \A k \in s : m >= k
  BY <1>3, <1>4
<1>6. m = Max(s)
  BY <1>4 DEF Max
<1>7. \A k \in s : k <= m
  BY <1>1, <1>5
<1> QED
  BY <1>5, <1>6, <1>7, Zenon

\* it[s] is what F makes of base and the places in s, from the smallest to the largest:
\* F takes a place and what the places before it gave.
Folds(it, F, base, n) ==
    it = [s \in SUBSET (1..n) |-> IF s = {} THEN base ELSE F[<<Max(s), it[s \ {Max(s)}]>>]]

\* There is such a function, and its values are in any set that F does not leave.
LEMMA FoldsExist ==
    ASSUME NEW V, NEW base \in V, NEW F, NEW n \in Nat,
           \A k \in 1..n : \A v \in V : F[<<k, v>>] \in V
    PROVE  \E it \in [SUBSET (1..n) -> V] : Folds(it, F, base, n)
<1> DEFINE Exists(m) == \E it \in [SUBSET (1..m) -> V] : Folds(it, F, base, m)
           T == {m \in Nat : Exists(m)}
<1>1. Exists(0)
  <2> DEFINE it == [s \in SUBSET (1..0) |-> base]
  <2>1. SUBSET (1..0) = {{}}
    OBVIOUS
  <2>2. it \in [SUBSET (1..0) -> V]
    OBVIOUS
  <2>3. it = [s \in SUBSET (1..0) |-> IF s = {} THEN base ELSE F[<<Max(s), it[s \ {Max(s)}]>>]]
    BY <2>1
  <2> HIDE DEF it
  <2> QED
    BY <2>2, <2>3 DEF Folds
<1>2. ASSUME NEW m \in Nat, m < n, Exists(m)
      PROVE  Exists(m + 1)
  <2>1. PICK it \in [SUBSET (1..m) -> V] : Folds(it, F, base, m)
    BY <1>2
  <2> DEFINE g == [s \in SUBSET (1..(m + 1)) |->
                      IF m + 1 \in s THEN F[<<m + 1, it[s \ {m + 1}]>>] ELSE it[s]]
  <2>2. ASSUME NEW s \in SUBSET (1..(m + 1)), m + 1 \notin s
        PROVE  s \in SUBSET (1..m) /\ g[s] = it[s]
    BY <2>2
  <2>3. ASSUME NEW s \in SUBSET (1..(m + 1)), m + 1 \in s
        PROVE  /\ s \ {m + 1} \in SUBSET (1..m)
               /\ g[s] = F[<<m + 1, it[s \ {m + 1}]>>]
    BY <2>3
  <2>4. \A s \in SUBSET (1..m) : it[s] \in V
    OBVIOUS
  <2>5. m + 1 \in 1..n
    BY <1>2
  <2> HIDE DEF g
  <2>6. ASSUME NEW s \in SUBSET (1..(m + 1))
        PROVE  g[s] \in V
    BY <2>2, <2>3, <2>4, <2>5
  <2>7. ASSUME NEW s \in SUBSET (1..(m + 1))
        PROVE  g[s] = IF s = {} THEN base ELSE F[<<Max(s), g[s \ {Max(s)}]>>]
    <3>1. CASE m + 1 \in s
      <4>1. Max(s) = m + 1
        <5>1. Max(s) \in s /\ \A k \in s : k <= Max(s)
          <6>1. m + 1 \in Nat /\ s # {}
            BY <3>1
          <6> QED
            BY <6>1, MaxLemma
        <5>2. PICK x \in s : x = Max(s) /\ \A k \in s : k <= x
          BY <5>1
        <5>3. x \in 1..(m + 1) /\ m + 1 <= x
          BY <3>1, <5>2
        <5>4. x = m + 1
          BY <5>3
        <5> QED
          BY <5>2, <5>4
      <4>2. g[s \ {m + 1}] = it[s \ {m + 1}]
        BY <2>2
      <4> QED
        BY <2>3, <3>1, <4>1, <4>2
    <3>2. CASE m + 1 \notin s
      <4>1. s \in SUBSET (1..m) /\ g[s] = it[s]
        BY <2>2, <3>2
      <4>2. it[s] = IF s = {} THEN base ELSE F[<<Max(s), it[s \ {Max(s)}]>>]
        BY <2>1, <4>1 DEF Folds
      <4>3. PICK r : r = s \ {Max(s)}
        OBVIOUS
      <4>4. r \in SUBSET (1..(m + 1)) /\ m + 1 \notin r
        BY <3>2, <4>3
      <4>5. g[r] = it[r]
        BY <2>2, <4>4
      <4> QED
        BY <4>1, <4>2, <4>3, <4>5
    <3> QED
      BY <3>1, <3>2
  <2>8. g = [s \in SUBSET (1..(m + 1)) |-> g[s]]
    BY DEF g
  <2>9. g \in [SUBSET (1..(m + 1)) -> V]
    BY <2>6, <2>8
  <2>10. Folds(g, F, base, m + 1)
    BY <2>7, <2>8 DEF Folds
  <2> QED
    BY <2>9, <2>10
<1>3. CASE n = 0
  BY <1>1, <1>3
<1>4. CASE n > 0
  <2> HIDE DEF Exists
  <2>1. 1 \in T
    <3>1. Exists(0 + 1)
      BY <1>1, <1>2, <1>4
    <3> QED
      BY <3>1
  <2>2. ASSUME NEW m \in 1..(n - 1), m \in T
        PROVE  m + 1 \in T
    <3>1. m \in Nat /\ m < n /\ Exists(m) /\ m + 1 \in Nat
      BY <2>2
    <3> QED
      BY <3>1, <1>2
  <2> HIDE DEF T
  <2>3. \A m \in 1..n : m \in T
    BY <2>1, <2>2, UpTo
  <2>4. n \in T
    BY <1>4, <2>3
  <2> QED
    BY <2>4 DEF T, Exists
<1> HIDE DEF Exists, T
<1>5. n = 0 \/ n > 0
  OBVIOUS
<1> QED
  BY <1>3, <1>4, <1>5

\* Without its last place, 1..k is 1..(k - 1).
LEMMA MaxOfPlaces ==
    ASSUME NEW k \in Nat \ {0}
    PROVE  1..k # {} /\ Max(1..k) = k /\ (1..k) \ {Max(1..k)} = 1..(k - 1)
<1>1. k \in 1..k
  OBVIOUS
<1>2. Max(1..k) \in 1..k /\ \A l \in 1..k : l <= Max(1..k)
  BY <1>1, MaxLemma
<1>3. Max(1..k) = k
  BY <1>1, <1>2
<1> QED
  BY <1>1, <1>3

----------------------------------------------------------------------------
(* Lists of lists *)

\* f[k] is the first k of the lists ss, one behind the other.
Flattens(ss, f) ==
    f = [k \in 1..Len(ss) |-> IF k = 1 THEN ss[k] ELSE f[k - 1] \o ss[k]]

\* There are such lists, for any ss.
LEMMA FlattensExists ==
    ASSUME NEW S, NEW ss \in Seq(Seq(S))
    PROVE  \E f : Flattens(ss, f)
<1> DEFINE To(n, f) == f = [k \in 1..n |-> IF k = 1 THEN ss[k] ELSE f[k - 1] \o ss[k]]
           T == {n \in Nat : \E f : To(n, f)}
<1>1. Len(ss) \in Nat
  BY LenProperties
<1>2. 1 \in T
  <2> DEFINE f == [k \in 1..1 |-> ss[k]]
  <2>1. To(1, f)
    OBVIOUS
  <2> HIDE DEF To
  <2> QED
    BY <2>1
<1>3. ASSUME NEW n \in 1..(Len(ss) - 1), n \in T
      PROVE  n + 1 \in T
  <2>1. PICK f : To(n, f)
    BY <1>3
  <2> DEFINE g == [k \in 1..(n + 1) |-> IF k = n + 1 THEN f[n] \o ss[n + 1] ELSE f[k]]
  <2>2. n \in Nat /\ n >= 1
    OBVIOUS
  <2>3. ASSUME NEW k \in 1..(n + 1)
        PROVE  g[k] = IF k = 1 THEN ss[k] ELSE g[k - 1] \o ss[k]
    <3>1. CASE k = n + 1
      <4>1. k # 1 /\ k - 1 = n /\ n \in 1..(n + 1) /\ n # n + 1
        BY <2>2, <3>1
      <4>2. g[k] = f[n] \o ss[n + 1] /\ g[n] = f[n]
        BY <3>1, <4>1
      <4> HIDE DEF g
      <4> QED
        BY <3>1, <4>1, <4>2
    <3>2. CASE k = 1
      BY <2>1, <2>2, <3>2
    <3>3. CASE k \in 2..n
      <4>1. k \in 1..n /\ k # 1 /\ k # n + 1 /\ k - 1 \in 1..(n + 1) /\ k - 1 # n + 1
        BY <2>2, <3>3
      <4>2. g[k] = f[k] /\ g[k - 1] = f[k - 1]
        BY <4>1
      <4>3. f[k] = f[k - 1] \o ss[k]
        BY <2>1, <4>1
      <4> HIDE DEF g
      <4> QED
        BY <4>1, <4>2, <4>3
    <3> QED
      BY <2>2, <3>1, <3>2, <3>3
  <2>4. g = [k \in 1..(n + 1) |-> g[k]]
    OBVIOUS
  <2> HIDE DEF g
  <2>5. To(n + 1, g)
    BY <2>3, <2>4
  <2> HIDE DEF To
  <2> QED
    BY <2>2, <2>5
<1>4. CASE Len(ss) = 0
  <2> DEFINE f == [k \in {} |-> ss[k]]
  <2>1. 1..Len(ss) = {}
    BY <1>4
  <2>2. Flattens(ss, f)
    BY <2>1 DEF Flattens
  <2> QED
    BY <2>2
<1>5. CASE Len(ss) > 0
  <2> HIDE DEF T
  <2>1. \A k \in 1..Len(ss) : k \in T
    BY <1>1, <1>2, <1>3, UpTo
  <2>2. Len(ss) \in T
    BY <1>1, <1>5, <2>1
  <2> QED
    BY <2>2 DEF T, Flattens
<1> QED
  BY <1>1, <1>4, <1>5

\* The last of them is what FlattenSeq makes of ss.
LEMMA FlattenIs ==
    ASSUME NEW S, NEW ss \in Seq(Seq(S)), Len(ss) > 0
    PROVE  \E f : Flattens(ss, f) /\ FlattenSeq(ss) = f[Len(ss)]
<1> DEFINE f == CHOOSE g : g = [k \in 1..Len(ss) |-> IF k = 1 THEN ss[k] ELSE g[k - 1] \o ss[k]]
<1>1. Len(ss) # 0
  BY LenProperties
<1>2. FlattenSeq(ss) = f[Len(ss)]
  BY <1>1 DEF FlattenSeq
<1>3. Flattens(ss, f)
  BY FlattensExists DEF Flattens
<1> QED
  BY <1>2, <1>3

\* Each of them is the one before it, with one list behind it.
LEMMA FlattensStep ==
    ASSUME NEW ss, NEW f, Flattens(ss, f), Len(ss) \in Nat, NEW k \in 1..(Len(ss) - 1)
    PROVE  f[k + 1] = f[k] \o ss[k + 1]
<1>1. k \in 1..Len(ss) /\ k + 1 \in 1..Len(ss) /\ k + 1 # 1 /\ (k + 1) - 1 = k
  OBVIOUS
<1> QED
  BY <1>1 DEF Flattens

\* Where the lists begin in what is made of them.
Begin(ss, f, k) == Len(f[k]) - Len(ss[k])

\* Each list begins where the one before it ends.
InPlace(S, ss, f) ==
    /\ \A k \in 1..Len(ss) :
           /\ ss[k] \in Seq(S) /\ Len(ss[k]) \in Nat
           /\ f[k] \in Seq(S) /\ Len(f[k]) \in Nat
           /\ Begin(ss, f, k) \in Nat
           /\ \A m \in 1..Len(ss[k]) : f[k][Begin(ss, f, k) + m] = ss[k][m]
    /\ Len(ss) > 0 => Begin(ss, f, 1) = 0
    /\ \A k \in 1..(Len(ss) - 1) :
           /\ Begin(ss, f, k + 1) = Begin(ss, f, k) + Len(ss[k])
           /\ Begin(ss, f, k + 1) = Len(f[k])

\* The lists are placed like that.
LEMMA FlattensLemma ==
    ASSUME NEW S, NEW ss \in Seq(Seq(S)), NEW f, Flattens(ss, f)
    PROVE  InPlace(S, ss, f)
<1>1. Len(ss) \in Nat /\ \A k \in 1..Len(ss) : ss[k] \in Seq(S) /\ Len(ss[k]) \in Nat
  BY LenProperties, ElementOfSeq
<1>2. Len(ss) > 0 => f[1] = ss[1]
  BY <1>1 DEF Flattens
<1>3. ASSUME NEW k \in 1..(Len(ss) - 1)
      PROVE  f[k + 1] = f[k] \o ss[k + 1] /\ k \in 1..Len(ss) /\ k + 1 \in 1..Len(ss)
  <2>1. k \in 1..Len(ss) /\ k + 1 \in 1..Len(ss)
    BY <1>1
  <2>2. f[k + 1] = f[k] \o ss[k + 1]
    BY <1>1, FlattensStep
  <2> QED
    BY <2>1, <2>2
<1>4. \A k \in 1..Len(ss) : f[k] \in Seq(S)
  <2> DEFINE T == {k \in Nat : f[k] \in Seq(S)}
  <2>1. Len(ss) > 0 => 1 \in T
    BY <1>1, <1>2
  <2>2. ASSUME NEW k \in 1..(Len(ss) - 1), k \in T
        PROVE  k + 1 \in T
    <3>1. f[k] \o ss[k + 1] \in Seq(S)
      BY <1>1, <1>3, <2>2, ConcatProperties
    <3>2. f[k + 1] \in Seq(S)
      BY <3>1, <1>3
    <3>3. k + 1 \in Nat
      OBVIOUS
    <3> QED
      BY <3>2, <3>3
  <2> HIDE DEF T
  <2>3. \A k \in 1..Len(ss) : k \in T
    BY <1>1, <2>1, <2>2, UpTo
  <2> QED
    BY <2>3 DEF T
<1>5. \A k \in 1..Len(ss) : Len(f[k]) \in Nat
  BY <1>4, LenProperties
<1>6. ASSUME NEW k \in 1..(Len(ss) - 1)
      PROVE  /\ Begin(ss, f, k + 1) = Len(f[k])
             /\ \A m \in 1..Len(ss[k + 1]) : f[k + 1][Len(f[k]) + m] = ss[k + 1][m]
  <2>1. PICK a, b : a = f[k] /\ b = ss[k + 1] /\ a \in Seq(S) /\ b \in Seq(S)
    BY <1>1, <1>3, <1>4
  <2>2. Len(a) \in Nat /\ Len(b) \in Nat
    BY <2>1, LenProperties
  <2>3. /\ Len(a \o b) = Len(a) + Len(b)
        /\ \A i \in 1..(Len(a) + Len(b)) : (a \o b)[i] = IF i <= Len(a) THEN a[i] ELSE b[i - Len(a)]
    BY <2>1, ConcatProperties
  <2>4. f[k + 1] = a \o b
    BY <1>3, <2>1
  <2>5. Begin(ss, f, k + 1) = Len(a)
    BY <2>1, <2>2, <2>3, <2>4 DEF Begin
  <2>6. ASSUME NEW m \in 1..Len(b)
        PROVE  (a \o b)[Len(a) + m] = b[m]
    <3>1. /\ Len(a) + m \in 1..(Len(a) + Len(b)) /\ ~(Len(a) + m <= Len(a))
          /\ (Len(a) + m) - Len(a) = m
      BY <2>2
    <3> QED
      BY <2>3, <3>1
  <2> QED
    BY <2>1, <2>4, <2>5, <2>6
<1>7. ASSUME NEW k \in 1..(Len(ss) - 1)
      PROVE  Begin(ss, f, k + 1) = Begin(ss, f, k) + Len(ss[k])
  <2>1. PICK a \in Nat, b \in Nat : a = Len(f[k]) /\ b = Len(ss[k])
    BY <1>1, <1>3, <1>5
  <2>2. a = (a - b) + b
    OBVIOUS
  <2>3. Begin(ss, f, k + 1) = a
    BY <2>1, <1>6
  <2>4. Begin(ss, f, k) = a - b
    BY <2>1 DEF Begin
  <2> QED
    BY <2>1, <2>2, <2>3, <2>4
<1>8. Len(ss) > 0 => Begin(ss, f, 1) = 0
  <2> SUFFICES ASSUME Len(ss) > 0
               PROVE  Len(ss[1]) - Len(ss[1]) = 0
    BY <1>2 DEF Begin
  <2>1. Len(ss[1]) \in Nat
    BY <1>1
  <2> QED
    BY <2>1
<1>9. ASSUME NEW k \in 1..Len(ss)
      PROVE  /\ Begin(ss, f, k) \in Nat
             /\ \A m \in 1..Len(ss[k]) : f[k][Begin(ss, f, k) + m] = ss[k][m]
  <2>1. CASE k = 1
    <3>1. Begin(ss, f, 1) = 0 /\ f[1] = ss[1]
      BY <1>1, <1>2, <1>8, <2>1
    <3>2. \A m \in 1..Len(ss[1]) : 0 + m = m
      BY <1>1
    <3> QED
      BY <2>1, <3>1, <3>2
  <2>2. CASE k # 1
    <3>1. PICK l \in 1..(Len(ss) - 1) : k = l + 1 /\ l \in 1..Len(ss)
      BY <1>1, <2>2
    <3> QED
      BY <3>1, <1>5, <1>6
  <2> QED
    BY <2>1, <2>2
<1> QED
  BY <1>1, <1>4, <1>5, <1>6, <1>7, <1>8, <1>9 DEF InPlace

\* What is made of the first k lists is where the rest is put behind.
LEMMA FlattensPrefix ==
    ASSUME NEW S, NEW ss \in Seq(Seq(S)), NEW f, Flattens(ss, f),
           NEW k \in 1..Len(ss), NEW l \in 1..Len(ss), k <= l
    PROVE  /\ Len(f[k]) <= Len(f[l])
           /\ \A x \in 1..Len(f[k]) : f[l][x] = f[k][x]
<1> DEFINE Same(n) == Len(f[k]) <= Len(f[n]) /\ \A x \in 1..Len(f[k]) : f[n][x] = f[k][x]
           T == {n \in Nat : n >= k => Same(n)}
<1>1. Len(ss) \in Nat
  BY LenProperties
<1>2. \A n \in 1..Len(ss) : f[n] \in Seq(S) /\ Len(f[n]) \in Nat /\ ss[n] \in Seq(S)
  BY FlattensLemma DEF InPlace
<1>3. \A j \in 1..(Len(ss) - 1) : f[j + 1] = f[j] \o ss[j + 1]
  BY <1>1, FlattensStep
<1>4. Same(k)
  BY <1>2
<1>5. 1 \in T
  <2>1. CASE k = 1
    BY <1>4, <2>1
  <2>2. CASE k # 1
    BY <1>1, <2>2
  <2> QED
    BY <2>1, <2>2
<1>6. ASSUME NEW n \in 1..(Len(ss) - 1), n \in T
      PROVE  n + 1 \in T
  <2> SUFFICES ASSUME n + 1 >= k
               PROVE  Same(n + 1)
    BY <1>1
  <2>1. CASE n + 1 = k
    BY <1>4, <2>1
  <2>2. CASE n >= k
    <3>1. n \in 1..Len(ss) /\ n + 1 \in 1..Len(ss)
      BY <1>1
    <3>2. Same(n)
      BY <1>6, <2>2
    <3>3. PICK a, b : a = f[n] /\ b = ss[n + 1] /\ a \in Seq(S) /\ b \in Seq(S)
      BY <1>2, <3>1
    <3>4. f[n + 1] = a \o b
      BY <3>3, <1>3
    <3>5. /\ Len(a \o b) = Len(a) + Len(b) /\ Len(a) \in Nat /\ Len(b) \in Nat
          /\ \A i \in 1..(Len(a) + Len(b)) : (a \o b)[i] = IF i <= Len(a) THEN a[i] ELSE b[i - Len(a)]
      BY <3>3, ConcatProperties, LenProperties
    <3>6. PICK m \in Nat : m = Len(f[k]) /\ m <= Len(a)
      BY <1>2, <3>2, <3>3
    <3>7. \A x \in 1..m : (a \o b)[x] = a[x]
      BY <3>5, <3>6
    <3>8. m <= Len(a \o b)
      BY <3>5, <3>6
    <3> QED
      BY <3>2, <3>3, <3>4, <3>6, <3>7, <3>8
  <2> QED
    BY <1>1, <2>1, <2>2
<1> HIDE DEF T
<1>7. \A n \in 1..Len(ss) : n \in T
  BY <1>1, <1>5, <1>6, UpTo
<1> QED
  BY <1>7 DEF T

\* In flat, the lists ss, of members of S, are one behind the other: list k is from
\* place at[k] + 1 on.
FlatAt(S, ss, flat, at) ==
    /\ at \in [1..Len(ss) -> Nat]
    /\ at[1] = 0
    /\ \A k \in 1..(Len(ss) - 1) : at[k + 1] = at[k] + Len(ss[k])
    /\ \A k, l \in 1..Len(ss) : k < l => at[k] + Len(ss[k]) <= at[l]
    /\ flat \in Seq(S)
    /\ \A k \in 1..Len(ss) : at[k] + Len(ss[k]) <= Len(flat)
    /\ \A k \in 1..Len(ss) : \A m \in 1..Len(ss[k]) : flat[at[k] + m] = ss[k][m]

\* That is how FlattenSeq puts them.
LEMMA FlattenLemma ==
    ASSUME NEW S, NEW ss \in Seq(Seq(S)), Len(ss) > 0
    PROVE  \E at : FlatAt(S, ss, FlattenSeq(ss), at)
<1>1. PICK f : Flattens(ss, f) /\ FlattenSeq(ss) = f[Len(ss)]
  BY FlattenIs
<1>2. PICK n : n = Len(ss) /\ n \in Nat /\ n \in 1..Len(ss)
  BY LenProperties
<1>3. InPlace(S, ss, f)
  BY <1>1, FlattensLemma
<1> DEFINE at == [k \in 1..Len(ss) |-> Begin(ss, f, k)]
<1>4. \A k \in 1..Len(ss) :
          /\ ss[k] \in Seq(S) /\ Len(ss[k]) \in Nat
          /\ f[k] \in Seq(S) /\ Len(f[k]) \in Nat
          /\ Begin(ss, f, k) \in Nat
          /\ \A m \in 1..Len(ss[k]) : f[k][Begin(ss, f, k) + m] = ss[k][m]
  BY <1>3 DEF InPlace
<1>5. Begin(ss, f, 1) = 0
  BY <1>3 DEF InPlace
<1>6. \A k \in 1..(Len(ss) - 1) :
          /\ Begin(ss, f, k + 1) = Begin(ss, f, k) + Len(ss[k])
          /\ Begin(ss, f, k + 1) = Len(f[k])
  BY <1>3 DEF InPlace
<1>7. /\ at \in [1..Len(ss) -> Nat]
      /\ \A k \in 1..Len(ss) : at[k] = Begin(ss, f, k) /\ at[k] \in Nat
  BY <1>4
<1> HIDE DEF at
<1>8. ASSUME NEW k \in 1..Len(ss)
      PROVE  at[k] + Len(ss[k]) = Len(f[k])
  <2>1. PICK a, b : a = Len(f[k]) /\ b = Len(ss[k]) /\ a \in Nat /\ b \in Nat
    BY <1>4
  <2>2. at[k] = a - b
    BY <2>1, <1>7 DEF Begin
  <2>3. (a - b) + b = a
    BY <2>1
  <2> QED
    BY <2>1, <2>2, <2>3
<1>9. ASSUME NEW k \in 1..Len(ss), NEW l \in 1..Len(ss), k < l
      PROVE  at[k] + Len(ss[k]) <= at[l]
  <2>1. PICK j \in 1..Len(ss) : l = j + 1 /\ j \in 1..(Len(ss) - 1) /\ k <= j
    BY <1>2, <1>9
  <2>2. Len(f[k]) <= Len(f[j])
    BY <1>1, <2>1, FlattensPrefix
  <2>3. at[l] = Len(f[j])
    BY <1>6, <1>7, <2>1
  <2> QED
    BY <1>8, <2>2, <2>3
<1>10. ASSUME NEW k \in 1..Len(ss)
      PROVE  /\ at[k] + Len(ss[k]) <= Len(FlattenSeq(ss))
             /\ \A m \in 1..Len(ss[k]) : FlattenSeq(ss)[at[k] + m] = ss[k][m]
  <2>1. k <= n
    BY <1>2
  <2>2. Len(f[k]) <= Len(f[n]) /\ \A x \in 1..Len(f[k]) : f[n][x] = f[k][x]
    <3>1. Flattens(ss, f) /\ n \in 1..Len(ss)
      BY <1>1, <1>2
    <3> QED
      BY <2>1, <3>1, FlattensPrefix
  <2>3. FlattenSeq(ss) = f[n]
    BY <1>1, <1>2
  <2>4. ASSUME NEW m \in 1..Len(ss[k])
        PROVE  f[n][at[k] + m] = ss[k][m]
    <3>1. at[k] \in Nat /\ Len(ss[k]) \in Nat /\ at[k] + Len(ss[k]) = Len(f[k])
      BY <1>4, <1>7, <1>8
    <3>2. at[k] + m \in 1..(at[k] + Len(ss[k]))
      BY <3>1
    <3>3. f[n][at[k] + m] = f[k][at[k] + m]
      BY <2>2, <3>1, <3>2
    <3> QED
      BY <3>3, <1>4, <1>7
  <2> QED
    BY <1>8, <2>2, <2>3, <2>4
<1>11. at[1] = 0 /\ \A k \in 1..(Len(ss) - 1) : at[k + 1] = at[k] + Len(ss[k])
  <2>1. 1 \in 1..Len(ss)
    BY <1>2
  <2>2. \A k \in 1..(Len(ss) - 1) : k \in 1..Len(ss) /\ k + 1 \in 1..Len(ss)
    BY <1>2
  <2> QED
    BY <1>5, <1>6, <1>7, <2>1, <2>2
<1>12. FlattenSeq(ss) \in Seq(S)
  BY <1>1, <1>2, <1>4
<1> QED
  BY <1>7, <1>9, <1>10, <1>11, <1>12 DEF FlatAt

=============================================================================
