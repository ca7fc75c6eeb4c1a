--------------------------- MODULE IpHeaderProofs ---------------------------
(***************************************************************************)
(* Proofs about checksums, IP headers and the packets that Build makes,    *)
(* for any bytes.                                                          *)
(***************************************************************************)
EXTENDS Bytes, Checksums, FiniteSetTheorems, WellFoundedInduction, TLAPS

-----------------------------------------------------------------------------
(* Induction over numbers, for sets that are given by what is to be shown. *)

LEMMA LeastNumber ==
  ASSUME NEW S \in SUBSET Nat, S # {}
  PROVE  \E n \in S : \A m \in S : n <= m
<1> DEFINE Initials == {0 .. n : n \in S}
<1>1. Initials \in SUBSET FiniteSubsetsOf(Nat) /\ Initials # {}
  <2>1. \A n \in S : IsFiniteSet(0 .. n) /\ 0 .. n \in SUBSET Nat
    BY FS_Interval
  <2> QED
    BY <2>1 DEF FiniteSubsetsOf
<1> HIDE DEF Initials
<1>2. PICK X \in Initials : \A Y \in Initials : <<Y, X>> \notin StrictSubsetOrdering(Nat)
  BY <1>1, FS_StrictSubsetOrderingWellFounded, WFMin
<1>3. PICK n \in S : X = 0 .. n
  BY <1>2 DEF Initials
<1>4. ASSUME NEW m \in S, ~ (n <= m) PROVE FALSE
  <2>1. 0 .. m \in Initials
    BY DEF Initials
  <2>2. /\ 0 .. m \in SUBSET Nat /\ 0 .. n \in SUBSET Nat
        /\ 0 .. m \subseteq 0 .. n /\ n \in 0 .. n /\ n \notin 0 .. m
    BY <1>4
  <2> QED
    BY <1>2, <1>3, <2>1, <2>2 DEF StrictSubsetOrdering
<1> QED
  BY <1>4

LEMMA StrongInduction ==
  ASSUME NEW S, \A n \in Nat : (\A m \in 0 .. n - 1 : m \in S) => n \in S
  PROVE  \A n \in Nat : n \in S
<1> SUFFICES ASSUME NEW k \in Nat, k \notin S PROVE FALSE
  OBVIOUS
<1>1. PICK n \in Nat \ S : \A m \in Nat \ S : n <= m
  BY LeastNumber
<1> QED
  BY <1>1

LEMMA UpwardInduction ==
  ASSUME NEW N \in Nat, NEW S, 0 \in S, \A n \in 0 .. N - 1 : n \in S => n + 1 \in S
  PROVE  \A n \in 0 .. N : n \in S
<1> SUFFICES ASSUME NEW k \in 0 .. N, k \notin S PROVE FALSE
  OBVIOUS
<1> DEFINE Missing == {n \in 0 .. N : n \notin S}
<1>1. PICK n \in Missing : \A m \in Missing : n <= m
  <2>1. Missing \in SUBSET Nat /\ Missing # {}
    OBVIOUS
  <2> HIDE DEF Missing
  <2> QED
    BY <2>1, LeastNumber
<1>2. n # 0 /\ n - 1 \in 0 .. N - 1 /\ n - 1 \in 0 .. N
  BY <1>1
<1>3. n - 1 \in S
  BY <1>1, <1>2
<1> QED
  BY <1>1, <1>2, <1>3

-----------------------------------------------------------------------------
(* Sums.                                                                   *)

\* s has the sum of the first n summands at n.
Adds(s, summands, N) ==
  /\ s \in [0 .. N -> Nat] /\ s[0] = 0
  /\ \A n \in 1 .. N : s[n] = s[n - 1] + summands[n]

LEMMA SomethingAdds ==
  ASSUME NEW w \in Seq(Nat)
  PROVE  \E s : Adds(s, w, Len(w))
<1> DEFINE S == {n \in 0 .. Len(w) : \E s : Adds(s, w, n)}
<1>1. 0 \in S
  <2>1. Adds([i \in 0 .. 0 |-> 0], w, 0)
    BY DEF Adds
  <2> QED
    BY <2>1
<1>2. ASSUME NEW n \in 0 .. Len(w) - 1, n \in S PROVE n + 1 \in S
  <2>1. PICK s : Adds(s, w, n)
    BY <1>2
  <2> DEFINE t == [i \in 0 .. n + 1 |-> IF i = n + 1 THEN s[n] + w[n + 1] ELSE s[i]]
  <2>2. w[n + 1] \in Nat /\ s[n] \in Nat
    BY <2>1 DEF Adds
  <2>3. t \in [0 .. n + 1 -> Nat]
    BY <2>1, <2>2 DEF Adds
  <2>4. \A i \in 1 .. n + 1 : t[i] = t[i - 1] + w[i]
    BY <2>1, <2>2 DEF Adds
  <2>5. Adds(t, w, n + 1)
    <3>1. t[0] = 0
      BY <2>1 DEF Adds
    <3> HIDE DEF t
    <3> QED
      BY <2>3, <2>4, <3>1 DEF Adds
  <2> QED
    BY <2>5
<1> HIDE DEF S
<1>3. \A n \in 0 .. Len(w) : n \in S
  <2>1. Len(w) \in Nat /\ \A n \in 0 .. Len(w) - 1 : n \in S => n + 1 \in S
    BY <1>2
  <2> QED
    BY <1>1, <2>1, UpwardInduction
<1> QED
  BY <1>3 DEF S

LEMMA TotalAdds ==
  ASSUME NEW w \in Seq(Nat)
  PROVE  \E s : Adds(s, w, Len(w)) /\ Total(w) = s[Len(w)]
<1> DEFINE f == CHOOSE s : s = [n \in 0 .. Len(w) |-> IF n = 0 THEN 0 ELSE s[n - 1] + w[n]]
<1>1. Total(w) = f[Len(w)]
  BY DEF Total
<1>2. PICK t : Adds(t, w, Len(w))
  BY SomethingAdds
<1>3. t = [n \in 0 .. Len(w) |-> IF n = 0 THEN 0 ELSE t[n - 1] + w[n]]
  BY <1>2 DEF Adds
<1>4. f = [n \in 0 .. Len(w) |-> IF n = 0 THEN 0 ELSE f[n - 1] + w[n]]
  BY <1>3
<1> HIDE DEF f
<1> DEFINE S == {n \in 0 .. Len(w) : f[n] = t[n]}
<1>5. 0 \in S
  BY <1>2, <1>4 DEF Adds
<1>6. ASSUME NEW n \in 0 .. Len(w) - 1, n \in S PROVE n + 1 \in S
  <2>1. n + 1 \in 1 .. Len(w) /\ (n + 1) - 1 = n
    OBVIOUS
  <2> QED
    BY <1>2, <1>4, <1>6, <2>1 DEF Adds
<1> HIDE DEF S
<1>7. \A n \in 0 .. Len(w) : n \in S
  <2>1. Len(w) \in Nat /\ \A n \in 0 .. Len(w) - 1 : n \in S => n + 1 \in S
    BY <1>6
  <2> QED
    BY <1>5, <2>1, UpwardInduction
<1>8. f[Len(w)] = t[Len(w)]
  BY <1>7 DEF S
<1> QED
  BY <1>1, <1>2, <1>8

LEMMA TotalNat ==
  ASSUME NEW w \in Seq(Nat)
  PROVE  Total(w) \in Nat
BY TotalAdds DEF Adds

LEMMA TotalWithOther ==
  ASSUME NEW w \in Seq(Nat), NEW v \in Seq(Nat), Len(v) = Len(w), NEW k \in 1 .. Len(w),
         \A i \in 1 .. Len(w) : i # k => v[i] = w[i]
  PROVE  Total(v) = Total(w) + v[k] - w[k]
<1>1. PICK s : Adds(s, w, Len(w)) /\ Total(w) = s[Len(w)]
  BY TotalAdds
<1>2. PICK t : Adds(t, v, Len(w)) /\ Total(v) = t[Len(w)]
  BY TotalAdds
<1> DEFINE S == {n \in 0 .. Len(w) : t[n] = s[n] + IF n < k THEN 0 ELSE v[k] - w[k]}
<1>0. /\ v \in [1 .. Len(w) -> Nat] /\ w \in [1 .. Len(w) -> Nat]
      /\ v[k] \in Nat /\ w[k] \in Nat
      /\ Len(w) \in Nat /\ Len(w) \in 0 .. Len(w)
  OBVIOUS
<1>3. 0 \in S
  BY <1>1, <1>2 DEF Adds
<1>4. ASSUME NEW n \in 0 .. Len(w) - 1, n \in S PROVE n + 1 \in S
  <2>1. /\ n + 1 \in 1 .. Len(w) /\ (n + 1) - 1 = n
        /\ n \in 0 .. Len(w) /\ n + 1 \in 0 .. Len(w)
    <3>1. PICK l \in Nat : l = Len(w)
      BY <1>0
    <3>2. n \in 0 .. l - 1
      BY <3>1
    <3>3. n + 1 \in 1 .. l /\ (n + 1) - 1 = n /\ n \in 0 .. l /\ n + 1 \in 0 .. l
      BY <3>2
    <3> QED
      BY <3>1, <3>3
  <2>2. /\ s[n + 1] = s[n] + w[n + 1] /\ t[n + 1] = t[n] + v[n + 1]
        /\ s[n] \in Nat /\ t[n] \in Nat /\ v[n + 1] \in Nat /\ w[n + 1] \in Nat
        /\ n + 1 # k => v[n + 1] = w[n + 1]
    BY <1>0, <1>1, <1>2, <2>1 DEF Adds
  <2>3. t[n] = s[n] + IF n < k THEN 0 ELSE v[k] - w[k]
    BY <1>4
  <2>4. t[n + 1] = s[n + 1] + IF n + 1 < k THEN 0 ELSE v[k] - w[k]
    <3>1. PICK a \in Nat, b \in Nat, c \in Nat, d \in Nat, x \in Nat, y \in Nat :
            a = s[n] /\ b = v[k] /\ c = w[k] /\ d = w[n + 1] /\ x = t[n] /\ y = v[n + 1]
      BY <1>0, <2>2
    <3>2. n \in Nat /\ k \in Nat /\ s[n + 1] = a + d /\ t[n + 1] = x + y
      BY <2>1, <2>2, <3>1
    <3>3. x = a + IF n < k THEN 0 ELSE b - c
      BY <2>3, <3>1
    <3>4. n + 1 # k => y = d
      BY <2>2, <3>1
    <3>5. n + 1 = k => y = b /\ d = c
      BY <3>1
    <3>6. CASE n + 1 < k
      <4>1. x = a /\ y = d
        BY <3>2, <3>3, <3>4, <3>6
      <4> QED
        BY <3>2, <3>6, <4>1
    <3>7. CASE n + 1 = k
      <4>1. n < k /\ ~ (n + 1 < k)
        BY <3>2, <3>7
      <4>2. x = a /\ y = b /\ d = c
        BY <3>3, <3>5, <3>7, <4>1
      <4>3. x + y = a + d + (b - c)
        BY <4>2
      <4> QED
        BY <3>1, <3>2, <4>1, <4>3
    <3>8. CASE n + 1 > k
      <4>1. ~ (n < k) /\ ~ (n + 1 < k)
        BY <3>2, <3>8
      <4>2. x = a + (b - c) /\ y = d
        BY <3>2, <3>3, <3>4, <3>8, <4>1
      <4>3. x + y = a + d + (b - c)
        BY <4>2
      <4> QED
        BY <3>1, <3>2, <4>1, <4>3
    <3> QED
      BY <3>2, <3>6, <3>7, <3>8
  <2> QED
    BY <2>1, <2>4
<1> HIDE DEF S
<1>5. \A n \in 0 .. Len(w) : n \in S
  <2>1. Len(w) \in Nat /\ \A n \in 0 .. Len(w) - 1 : n \in S => n + 1 \in S
    BY <1>4
  <2> QED
    BY <1>3, <2>1, UpwardInduction
<1>6. t[Len(w)] = s[Len(w)] + (v[k] - w[k])
  <2>1. Len(w) \in S /\ ~ (Len(w) < k)
    BY <1>5
  <2> QED
    BY <2>1 DEF S
<1>7. s[Len(w)] \in Nat
  BY <1>0, <1>1 DEF Adds
<1> QED
  BY <1>0, <1>1, <1>2, <1>6, <1>7

LEMMA TotalOfBoth ==
  ASSUME NEW u \in Seq(Nat), NEW v \in Seq(Nat), NEW w \in Seq(Nat),
         Len(w) = Len(u) + Len(v),
         \A i \in 1 .. Len(u) : w[i] = u[i],
         \A i \in 1 .. Len(v) : w[Len(u) + i] = v[i]
  PROVE  Total(w) = Total(u) + Total(v)
<1>1. PICK r : Adds(r, u, Len(u)) /\ Total(u) = r[Len(u)]
  BY TotalAdds
<1>2. PICK s : Adds(s, v, Len(v)) /\ Total(v) = s[Len(v)]
  BY TotalAdds
<1>3. PICK t : Adds(t, w, Len(w)) /\ Total(w) = t[Len(w)]
  BY TotalAdds
<1>0. /\ u \in [1 .. Len(u) -> Nat] /\ v \in [1 .. Len(v) -> Nat]
      /\ Len(u) \in Nat /\ Len(v) \in Nat /\ Len(u) \in 0 .. Len(u)
  OBVIOUS
<1> DEFINE S == {n \in 0 .. Len(u) : t[n] = r[n]}
           R == {n \in 0 .. Len(v) : t[Len(u) + n] = r[Len(u)] + s[n]}
<1>4. \A n \in 0 .. Len(u) : n \in S
  <2>1. 0 \in S
    BY <1>1, <1>3 DEF Adds
  <2>2. ASSUME NEW n \in 0 .. Len(u) - 1, n \in S PROVE n + 1 \in S
    <3>1. n + 1 \in 1 .. Len(u) /\ n + 1 \in 1 .. Len(w) /\ (n + 1) - 1 = n
      OBVIOUS
    <3> QED
      BY <1>1, <1>3, <2>2, <3>1 DEF Adds
  <2> HIDE DEF S
  <2>3. Len(u) \in Nat /\ \A n \in 0 .. Len(u) - 1 : n \in S => n + 1 \in S
    BY <2>2
  <2> QED
    BY <2>1, <2>3, UpwardInduction
<1>5. \A n \in 0 .. Len(v) : n \in R
  <2>1. 0 \in R
    <3>1. Len(u) \in S /\ Len(u) + 0 = Len(u)
      BY <1>4
    <3>2. r[Len(u)] \in Nat /\ s[0] = 0
      BY <1>0, <1>1, <1>2 DEF Adds
    <3>3. t[Len(u)] = r[Len(u)]
      BY <3>1
    <3> QED
      BY <3>1, <3>2, <3>3
  <2>2. ASSUME NEW n \in 0 .. Len(v) - 1, n \in R PROVE n + 1 \in R
    <3>1. /\ n + 1 \in 1 .. Len(v) /\ (n + 1) - 1 = n
          /\ Len(u) + (n + 1) \in 1 .. Len(w) /\ (Len(u) + (n + 1)) - 1 = Len(u) + n
      <4>1. PICK k \in Nat, l \in Nat : k = Len(u) /\ l = Len(v)
        BY <1>0
      <4>2. n \in 0 .. l - 1 /\ Len(w) = k + l
        BY <4>1
      <4>3. /\ n + 1 \in 1 .. l /\ (n + 1) - 1 = n
            /\ k + (n + 1) \in 1 .. k + l /\ (k + (n + 1)) - 1 = k + n
        BY <4>2
      <4> QED
        BY <4>1, <4>2, <4>3
    <3>2. /\ t[Len(u) + (n + 1)] = t[Len(u) + n] + w[Len(u) + (n + 1)]
          /\ s[n + 1] = s[n] + v[n + 1]
          /\ s[n] \in Nat /\ r[Len(u)] \in Nat /\ v[n + 1] \in Nat
          /\ w[Len(u) + (n + 1)] = v[n + 1]
      <4>1. n \in 0 .. Len(v) /\ Len(u) \in 0 .. Len(u)
        BY <1>0
      <4> QED
        BY <1>0, <1>1, <1>2, <1>3, <3>1, <4>1 DEF Adds
    <3>3. t[Len(u) + n] = r[Len(u)] + s[n]
      BY <2>2
    <3>4. t[Len(u) + (n + 1)] = (r[Len(u)] + s[n]) + v[n + 1]
      BY <3>2, <3>3
    <3>5. t[Len(u) + (n + 1)] = r[Len(u)] + s[n + 1]
      <4> DEFINE a == r[Len(u)]
                 b == s[n]
                 c == v[n + 1]
      <4>1. a \in Nat /\ b \in Nat /\ c \in Nat /\ s[n + 1] = b + c
        BY <3>2
      <4>2. t[Len(u) + (n + 1)] = (a + b) + c
        BY <3>4
      <4> HIDE DEF a, b, c
      <4>3. (a + b) + c = a + (b + c)
        BY <4>1
      <4>4. t[Len(u) + (n + 1)] = a + s[n + 1]
        BY <4>1, <4>2, <4>3
      <4> QED
        BY <4>4 DEF a
    <3> QED
      BY <3>1, <3>5
  <2> HIDE DEF R
  <2>3. Len(v) \in Nat /\ \A n \in 0 .. Len(v) - 1 : n \in R => n + 1 \in R
    BY <2>2
  <2> QED
    BY <2>1, <2>3, UpwardInduction
<1>6. t[Len(u) + Len(v)] = r[Len(u)] + s[Len(v)]
  BY <1>5 DEF R
<1> QED
  BY <1>1, <1>2, <1>3, <1>6

\* What the byte b adds to the sum of the words at position i.
Weighed(i, b) == IF i % 2 = 1 THEN b * 256 ELSE b
Weighted(data) == [i \in 1 .. Len(data) |-> Weighed(i, data[i])]

LEMMA WeightedBytes ==
  ASSUME NEW data \in Seq(Byte)
  PROVE  /\ Weighted(data) \in Seq(Nat) /\ Len(Weighted(data)) = Len(data)
         /\ Words(data) = Total(Weighted(data)) /\ Words(data) \in Nat
         /\ \A i \in 1 .. Len(data) : Weighted(data)[i] = Weighed(i, data[i])
<1>1. data \in [1 .. Len(data) -> Byte] /\ Len(data) \in Nat
  OBVIOUS
<1>2. \A i \in 1 .. Len(data) : /\ Weighted(data)[i] = Weighed(i, data[i])
                                /\ Weighted(data)[i] \in Nat
  <2> TAKE i \in 1 .. Len(data)
  <2>1. data[i] \in Nat
    BY <1>1 DEF Byte, Below
  <2>2. data[i] \in Nat /\ data[i] * 256 \in Nat
    BY <2>1
  <2>3. Weighed(i, data[i]) \in Nat
    BY <2>2 DEF Weighed
  <2> QED
    BY <2>3 DEF Weighted
<1>3. Weighted(data) \in [1 .. Len(data) -> Nat]
  BY <1>2 DEF Weighted
<1>4. Weighted(data) \in Seq(Nat) /\ Len(Weighted(data)) = Len(data)
  BY <1>1, <1>3
<1>5. Words(data) = Total(Weighted(data))
  BY DEF Words, Weighted, Weighed
<1> QED
  BY <1>2, <1>4, <1>5, TotalNat

LEMMA WordsWithOther ==
  ASSUME NEW data \in Seq(Byte), NEW other \in Seq(Byte), Len(other) = Len(data),
         NEW k \in 1 .. Len(data), \A i \in 1 .. Len(data) : i # k => other[i] = data[i]
  PROVE  Words(other) = Words(data) + Weighed(k, other[k]) - Weighed(k, data[k])
<1>1. \A i \in 1 .. Len(data) : i # k => Weighted(other)[i] = Weighted(data)[i]
  BY WeightedBytes
<1>2. /\ Weighted(other)[k] = Weighed(k, other[k])
      /\ Weighted(data)[k] = Weighed(k, data[k])
  BY WeightedBytes
<1> QED
  BY <1>1, <1>2, WeightedBytes, TotalWithOther

LEMMA EvenShift ==
  ASSUME NEW n \in Nat, NEW i \in Nat, n % 2 = 0
  PROVE  (n + i) % 2 = i % 2
OBVIOUS

LEMMA WordsOfParts ==
  ASSUME NEW a \in Seq(Byte), NEW b \in Seq(Byte), NEW c \in Seq(Byte),
         Len(a) % 2 = 0, Len(c) = Len(a) + Len(b),
         \A i \in 1 .. Len(a) : c[i] = a[i],
         \A i \in 1 .. Len(b) : c[Len(a) + i] = b[i]
  PROVE  Words(c) = Words(a) + Words(b)
<1> DEFINE u == Weighted(a)
           v == Weighted(b)
           w == Weighted(c)
<1>1. /\ u \in Seq(Nat) /\ v \in Seq(Nat) /\ w \in Seq(Nat)
      /\ Len(u) = Len(a) /\ Len(v) = Len(b) /\ Len(w) = Len(c)
  BY WeightedBytes
<1>2. \A i \in 1 .. Len(a) : w[i] = u[i]
  <2> TAKE i \in 1 .. Len(a)
  <2>1. i \in 1 .. Len(c)
    OBVIOUS
  <2> QED
    BY <2>1, WeightedBytes
<1>3. \A i \in 1 .. Len(b) : w[Len(a) + i] = v[i]
  <2> TAKE i \in 1 .. Len(b)
  <2>1. Weighed(Len(a) + i, b[i]) = Weighed(i, b[i])
    <3> DEFINE n == Len(a)
    <3>1. n \in Nat /\ n % 2 = 0 /\ i \in Nat
      OBVIOUS
    <3>2. (n + i) % 2 = i % 2
      BY <3>1, EvenShift
    <3> QED
      BY <3>2 DEF Weighed, n
  <2>2. Len(a) + i \in 1 .. Len(c)
    OBVIOUS
  <2> QED
    BY <2>1, <2>2, WeightedBytes
<1>4. Words(a) = Total(u) /\ Words(b) = Total(v) /\ Words(c) = Total(w)
  BY WeightedBytes
<1> HIDE DEF u, v, w
<1>5. /\ Len(w) = Len(u) + Len(v)
      /\ \A i \in 1 .. Len(u) : w[i] = u[i]
      /\ \A i \in 1 .. Len(v) : w[Len(u) + i] = v[i]
  BY <1>1, <1>2, <1>3
<1>6. Total(w) = Total(u) + Total(v)
  BY <1>1, <1>5, TotalOfBoth
<1> QED
  BY <1>4, <1>6

LEMMA WordsOfBoth ==
  ASSUME NEW a \in Seq(Byte), NEW b \in Seq(Byte), Len(a) % 2 = 0
  PROVE  Words(a \o b) = Words(a) + Words(b)
<1> DEFINE c == a \o b
<1>1. /\ c \in Seq(Byte) /\ Len(c) = Len(a) + Len(b)
      /\ \A i \in 1 .. Len(a) : c[i] = a[i]
      /\ \A i \in 1 .. Len(b) : c[Len(a) + i] = b[i]
  OBVIOUS
<1> HIDE DEF c
<1>2. Words(c) = Words(a) + Words(b)
  BY <1>1, WordsOfParts
<1> QED
  BY <1>2 DEF c

-----------------------------------------------------------------------------
(* Folding takes the rest modulo 65535, except that only 0 gives 0.        *)

Rest(n) == IF n = 0 THEN 0 ELSE ((n - 1) % 65535) + 1

LEMMA RestRange ==
  ASSUME NEW n \in Nat
  PROVE  (n = 0 => Rest(n) = 0) /\ (n # 0 => Rest(n) \in Nat /\ 1 <= Rest(n) /\ Rest(n) <= 65535)
<1>1. CASE n = 0
  BY <1>1 DEF Rest
<1>2. CASE n # 0
  <2>1. (n - 1) % 65535 \in Nat /\ (n - 1) % 65535 < 65535
    BY <1>2
  <2>2. Rest(n) = ((n - 1) % 65535) + 1
    BY <1>2 DEF Rest
  <2> QED
    BY <1>2, <2>1, <2>2
<1> QED
  BY <1>1, <1>2

LEMMA RestOf ==
  ASSUME NEW n \in Nat
  PROVE  \E q \in Nat : n = 65535 * q + Rest(n)
<1>1. CASE n = 0
  BY <1>1 DEF Rest
<1>2. CASE n # 0
  <2> DEFINE q == (n - 1) \div 65535
  <2>1. n - 1 = 65535 * q + ((n - 1) % 65535) /\ q \in Nat /\ (n - 1) % 65535 \in Nat /\ (n - 1) % 65535 < 65535
    BY <1>2
  <2>2. Rest(n) = ((n - 1) % 65535) + 1
    BY <1>2 DEF Rest
  <2> HIDE DEF q
  <2>3. n = 65535 * q + Rest(n)
    BY <2>1, <2>2
  <2> QED
    BY <2>1, <2>3
<1> QED
  BY <1>1, <1>2

LEMMA SameRest ==
  ASSUME NEW m \in Nat, NEW n \in Nat, NEW q \in Nat, m = n + 65535 * q, n # 0
  PROVE  Rest(m) = Rest(n)
<1>1. PICK i \in Nat : m = 65535 * i + Rest(m)
  BY RestOf
<1>2. PICK j \in Nat : n = 65535 * j + Rest(n)
  BY RestOf
<1> DEFINE a == Rest(m)
           b == Rest(n)
           laps == i - (j + q)
<1>3. a \in Nat /\ 1 <= a /\ a <= 65535 /\ b \in Nat /\ 1 <= b /\ b <= 65535
  <2>1. m # 0
    OBVIOUS
  <2> QED
    BY <2>1, RestRange
<1> HIDE DEF a, b
<1>4. m = 65535 * i + a /\ n = 65535 * j + b
  BY <1>1, <1>2 DEF a, b
<1>5. 65535 * laps = b - a /\ laps \in Int
  BY <1>3, <1>4
<1> HIDE DEF laps
<1>6. laps = 0
  <2>1. ~ (laps >= 1)
    BY <1>3, <1>5
  <2>2. ~ (laps <= -1)
    BY <1>3, <1>5
  <2> QED
    BY <1>5, <2>1, <2>2
<1>7. a = b
  BY <1>3, <1>5, <1>6
<1> QED
  BY <1>7 DEF a, b

LEMMA FoldIsRest ==
  ASSUME NEW sum \in Nat
  PROVE  Fold(sum) = Rest(sum)
<1> DEFINE Next16(s) == (s % 65536) + (s \div 65536)
           f == CHOOSE f : f = [s \in Nat |-> IF s > 65535 THEN f[(s % 65536) + (s \div 65536)] ELSE s]
           g == [s \in Nat |-> Rest(s)]
<1>1. Fold(sum) = f[sum]
  BY DEF Fold
<1>2. \A s \in Nat : s > 65535 => Next16(s) \in 0 .. s - 1 /\ Rest(Next16(s)) = Rest(s)
  <2> TAKE s \in Nat
  <2> HAVE s > 65535
  <2> DEFINE high == s \div 65536
             low == s % 65536
  <2>1. s = 65536 * high + low /\ high \in Nat /\ low \in Nat /\ high > 0
    OBVIOUS
  <2> HIDE DEF high, low
  <2>2. low + high \in 0 .. s - 1 /\ low + high # 0 /\ s = (low + high) + 65535 * high
    BY <2>1
  <2>3. Rest(s) = Rest(low + high)
    <3> DEFINE n == low + high
    <3>1. n \in Nat /\ n # 0 /\ s = n + 65535 * high
      BY <2>1, <2>2
    <3>2. Rest(s) = Rest(n)
      BY <2>1, <3>1, SameRest
    <3> QED
      BY <3>2 DEF n
  <2> QED
    BY <2>2, <2>3 DEF high, low
<1>3. \A s \in Nat : s <= 65535 => Rest(s) = s
  BY DEF Rest
<1>4. g = [s \in Nat |-> IF s > 65535 THEN g[(s % 65536) + (s \div 65536)] ELSE s]
  BY <1>2, <1>3
<1>5. f = [s \in Nat |-> IF s > 65535 THEN f[(s % 65536) + (s \div 65536)] ELSE s]
  BY <1>4
<1> HIDE DEF f
<1> DEFINE S == {n \in Nat : f[n] = Rest(n)}
<1>6. \A n \in Nat : (\A m \in 0 .. n - 1 : m \in S) => n \in S
  BY <1>2, <1>3, <1>5
<1> HIDE DEF S
<1>7. sum \in S
  BY <1>6, StrongInduction
<1> QED
  BY <1>1, <1>7 DEF S

LEMMA RestOfSum ==
  ASSUME NEW m \in Nat, NEW n \in Nat
  PROVE  Rest(Rest(m) + Rest(n)) = Rest(m + n)
<1> DEFINE a == Rest(m)
           b == Rest(n)
<1>1. a \in Nat /\ b \in Nat /\ (a = 0 => m = 0) /\ (b = 0 => n = 0)
  BY RestRange
<1>2. PICK i \in Nat : m = 65535 * i + a
  BY RestOf
<1>3. PICK j \in Nat : n = 65535 * j + b
  BY RestOf
<1>4. (m = 0 => a = 0) /\ (n = 0 => b = 0)
  BY RestRange
<1> HIDE DEF a, b
<1>5. CASE a + b = 0
  BY <1>1, <1>2, <1>3, <1>5 DEF a, b
<1>6. CASE a + b # 0
  <2> DEFINE sum == m + n
             rests == a + b
             laps == i + j
  <2>1. /\ sum \in Nat /\ rests \in Nat /\ laps \in Nat /\ rests # 0
        /\ sum = rests + 65535 * laps
    BY <1>1, <1>2, <1>3, <1>6
  <2> HIDE DEF sum, rests, laps
  <2>2. Rest(sum) = Rest(rests)
    BY <2>1, SameRest
  <2> QED
    BY <2>2 DEF sum, rests, a, b
<1> QED
  BY <1>5, <1>6

-----------------------------------------------------------------------------
(* Checksums.                                                              *)

LEMMA ChecksumIsRest ==
  ASSUME NEW data \in Seq(Byte)
  PROVE  /\ Checksum(data) = 65535 - Rest(Words(data))
         /\ Checksum(data) \in Word
<1>1. Words(data) \in Nat
  BY WeightedBytes
<1>2. Fold(Words(data)) = Rest(Words(data))
  BY <1>1, FoldIsRest
<1>3. Rest(Words(data)) \in Nat /\ Rest(Words(data)) <= 65535
  BY <1>1, RestRange
<1> QED
  BY <1>2, <1>3 DEF Checksum, Not16, Word, Below

LEMMA CombinedChecksum ==
  ASSUME NEW a \in Seq(Byte), NEW b \in Seq(Byte), Len(a) % 2 = 0
  PROVE  ChecksumCombine(Checksum(a), Checksum(b)) = Checksum(a \o b)
<1> DEFINE A == Words(a)
           B == Words(b)
<1>1. A \in Nat /\ B \in Nat
  BY WeightedBytes
<1>2. Words(a \o b) = A + B /\ a \o b \in Seq(Byte)
  BY WordsOfBoth
<1>3. Rest(A) \in Nat /\ Rest(B) \in Nat
  BY <1>1, RestRange
<1>4. Not16(Checksum(a)) = Rest(A) /\ Not16(Checksum(b)) = Rest(B)
  BY <1>3, ChecksumIsRest DEF Not16
<1>5. Fold(Rest(A) + Rest(B)) = Rest(Rest(A) + Rest(B))
  BY <1>3, FoldIsRest
<1>6. Rest(Rest(A) + Rest(B)) = Rest(A + B)
  BY <1>1, RestOfSum
<1>7. ChecksumCombine(Checksum(a), Checksum(b)) = Not16(Rest(A + B))
  BY <1>4, <1>5, <1>6 DEF ChecksumCombine
<1>8. Checksum(a \o b) = 65535 - Rest(A + B)
  <2> DEFINE c == a \o b
  <2>1. Words(c) = A + B /\ c \in Seq(Byte)
    BY <1>2
  <2> HIDE DEF c
  <2>2. Checksum(c) = 65535 - Rest(A + B)
    BY <2>1, ChecksumIsRest
  <2> QED
    BY <2>2 DEF c
<1> QED
  BY <1>7, <1>8 DEF Not16

\* A sum with the complement of its rest in it folds to ones, and with the
\* change of a byte it does not.
LEMMA ComplementFolds ==
  ASSUME NEW sum \in Nat
  PROVE  Rest(sum + (65535 - Rest(sum))) = 65535
<1> DEFINE rest == Rest(sum)
           whole == sum + (65535 - rest)
<1>1. PICK i \in Nat : sum = 65535 * i + rest
  BY RestOf
<1>2. rest \in Nat
  BY RestRange
<1> HIDE DEF rest
<1>3. whole = 65535 + 65535 * i /\ whole \in Nat
  BY <1>1, <1>2
<1>4. Rest(whole) = Rest(65535)
  <2> HIDE DEF whole
  <2> QED
    BY <1>3, SameRest
<1>5. Rest(65535) = 65535
  BY DEF Rest
<1> QED
  BY <1>4, <1>5 DEF rest

LEMMA ChangeShows ==
  ASSUME NEW sum \in Nat, Rest(sum) = 65535,
         NEW d \in Int, d # 0, d < 65535, -d < 65535, sum + d \in Nat
  PROVE  Rest(sum + d) # 65535
<1> SUFFICES ASSUME Rest(sum + d) = 65535 PROVE FALSE
  OBVIOUS
<1>1. PICK i \in Nat : sum = 65535 * i + Rest(sum)
  BY RestOf
<1>2. PICK j \in Nat : sum + d = 65535 * j + Rest(sum + d)
  BY RestOf
<1> DEFINE laps == j - i
<1>3. laps \in Int /\ d = 65535 * laps
  BY <1>1, <1>2
<1> HIDE DEF laps
<1> QED
  BY <1>3

-----------------------------------------------------------------------------
(* Bytes of headers.                                                       *)

\* What is known of x when it is s \o t.
Joins(x, s, t, S) ==
  /\ x \in Seq(S) /\ Len(x) = Len(s) + Len(t)
  /\ \A i \in 1 .. Len(s) : x[i] = s[i]
  /\ \A i \in 1 .. Len(t) : x[Len(s) + i] = t[i]

LEMMA Joined ==
  ASSUME NEW S, NEW s \in Seq(S), NEW t \in Seq(S), NEW x, x = s \o t
  PROVE  Joins(x, s, t, S)
<1>1. /\ s \o t \in Seq(S) /\ Len(s \o t) = Len(s) + Len(t)
      /\ \A i \in 1 .. Len(s) : (s \o t)[i] = s[i]
      /\ \A i \in 1 .. Len(t) : (s \o t)[Len(s) + i] = t[i]
  OBVIOUS
<1> QED
  BY <1>1 DEF Joins

InPairs(s, a, b, c, d, e, f) == s = a \o b \o c \o d \o e \o f

\* What is known of the first twelve bytes then.
TwelveBytes(s, a, b, c, d, e, f) ==
  /\ Len(s) = 12
  /\ s[1] = a[1] /\ s[2] = a[2] /\ s[3] = b[1] /\ s[4] = b[2]
  /\ s[5] = c[1] /\ s[6] = c[2] /\ s[7] = d[1] /\ s[8] = d[2]
  /\ s[9] = e[1] /\ s[10] = e[2] /\ s[11] = f[1] /\ s[12] = f[2]

LEMMA SixPairs ==
  ASSUME NEW S,
         NEW a \in Seq(S), NEW b \in Seq(S), NEW c \in Seq(S), NEW d \in Seq(S),
         NEW e \in Seq(S), NEW f \in Seq(S),
         Len(a) = 2, Len(b) = 2, Len(c) = 2, Len(d) = 2, Len(e) = 2, Len(f) = 2,
         NEW s, InPairs(s, a, b, c, d, e, f)
  PROVE  s \in Seq(S) /\ TwelveBytes(s, a, b, c, d, e, f)
<1>1. PICK s2 : s2 = a \o b
  OBVIOUS
<1>2. PICK s3 : s3 = s2 \o c
  OBVIOUS
<1>3. PICK s4 : s4 = s3 \o d
  OBVIOUS
<1>4. PICK s5 : s5 = s4 \o e
  OBVIOUS
<1>5. PICK s6 : s6 = s5 \o f
  OBVIOUS
<1>6. /\ s2 \in Seq(S) /\ Len(s2) = 4 /\ s2[3] = b[1] /\ s2[4] = b[2]
      /\ \A i \in 1 .. 2 : s2[i] = a[i]
  <2>1. Joins(s2, a, b, S)
    BY <1>1, Joined
  <2>2. Len(a) = 2 /\ 1 \in 1 .. Len(b) /\ 2 \in 1 .. Len(b)
    OBVIOUS
  <2> QED
    BY <2>1, <2>2 DEF Joins
<1>7. /\ s3 \in Seq(S) /\ Len(s3) = 6 /\ s3[5] = c[1] /\ s3[6] = c[2]
      /\ \A i \in 1 .. 4 : s3[i] = s2[i]
  <2>1. Joins(s3, s2, c, S)
    BY <1>2, <1>6, Joined
  <2>2. Len(s2) = 4 /\ 1 \in 1 .. Len(c) /\ 2 \in 1 .. Len(c)
    BY <1>6
  <2> QED
    BY <2>1, <2>2 DEF Joins
<1>8. /\ s4 \in Seq(S) /\ Len(s4) = 8 /\ s4[7] = d[1] /\ s4[8] = d[2]
      /\ \A i \in 1 .. 6 : s4[i] = s3[i]
  <2>1. Joins(s4, s3, d, S)
    BY <1>3, <1>7, Joined
  <2>2. Len(s3) = 6 /\ 1 \in 1 .. Len(d) /\ 2 \in 1 .. Len(d)
    BY <1>7
  <2> QED
    BY <2>1, <2>2 DEF Joins
<1>9. /\ s5 \in Seq(S) /\ Len(s5) = 10 /\ s5[9] = e[1] /\ s5[10] = e[2]
      /\ \A i \in 1 .. 8 : s5[i] = s4[i]
  <2>1. Joins(s5, s4, e, S)
    BY <1>4, <1>8, Joined
  <2>2. Len(s4) = 8 /\ 1 \in 1 .. Len(e) /\ 2 \in 1 .. Len(e)
    BY <1>8
  <2> QED
    BY <2>1, <2>2 DEF Joins
<1>10. /\ s6 \in Seq(S) /\ Len(s6) = 12 /\ s6[11] = f[1] /\ s6[12] = f[2]
      /\ \A i \in 1 .. 10 : s6[i] = s5[i]
  <2>1. Joins(s6, s5, f, S)
    BY <1>5, <1>9, Joined
  <2>2. Len(s5) = 10 /\ 1 \in 1 .. Len(f) /\ 2 \in 1 .. Len(f)
    BY <1>9
  <2> QED
    BY <2>1, <2>2 DEF Joins
<1>11. s = s6
  BY <1>1, <1>2, <1>3, <1>4, <1>5 DEF InPairs
<1> QED
  BY <1>6, <1>7, <1>8, <1>9, <1>10, <1>11 DEF TwelveBytes

LEMMA BytesOfWord ==
  ASSUME NEW n \in Word
  PROVE  /\ Bytes16(n) \in Seq(Byte) /\ Len(Bytes16(n)) = 2
         /\ Bytes16(n)[1] \in Byte /\ Bytes16(n)[2] \in Byte
         /\ Bytes16(n)[1] * 256 + Bytes16(n)[2] = n
<1> DEFINE high == n \div 256
           low == n % 256
<1>1. n = 256 * high + low /\ high \in Nat /\ low \in Nat /\ low < 256 /\ high < 256
  BY DEF Word, Below
<1> HIDE DEF high, low
<1>2. high \in Byte /\ low \in Byte
  BY <1>1 DEF Byte, Below
<1>3. Bytes16(n) = <<high, low>>
  BY DEF Bytes16, high, low
<1>4. PICK b : b = <<high, low>>
  OBVIOUS
<1>5. b \in Seq(Byte) /\ Len(b) = 2 /\ b[1] = high /\ b[2] = low
  BY <1>2, <1>4
<1>6. b[1] * 256 + b[2] = n
  BY <1>1, <1>5
<1>7. Bytes16(n) = b
  BY <1>3, <1>4
<1> QED
  BY <1>2, <1>5, <1>6, <1>7

LEMMA FlagsAndOffset ==
  ASSUME NEW flags \in Below(8), NEW offset \in Below(8192)
  PROVE  LET n == ((flags * 8192) % 65536) + (offset % 8192)
         IN  /\ n = flags * 8192 + offset /\ n \in Word
             /\ n \div 8192 = flags /\ n % 8192 = offset
BY DEF Below, Word

LEMMA VersionAndLength ==
  ASSUME NEW ihl \in Below(16)
  PROVE  LET b == ((4 * 16) % 256) + (ihl % 16)
         IN  b = 64 + ihl /\ b \in Byte /\ b \div 16 = 4 /\ b % 16 = ihl
BY DEF Below, Byte

-----------------------------------------------------------------------------
(* The IP header.                                                          *)

LEMMA SameInIp ==
  /\ \A n : I!Bytes16(n) = Bytes16(n)
  /\ \A b, i : I!Uint16(b, i) = Uint16(b, i)
  /\ \A data : I!Checksum(data) = Checksum(data)
  /\ \A a, b : I!ChecksumCombine(a, b) = ChecksumCombine(a, b)
  /\ \A data : I!VerifyChecksum(data) = VerifyChecksum(data)
<1>1. \A n : I!Bytes16(n) = Bytes16(n)
  BY DEF I!Bytes16, Bytes16
<1>2. \A b, i : I!Uint16(b, i) = Uint16(b, i)
  BY DEF I!Uint16, Uint16
<1>3. \A n : I!Fold(n) = Fold(n)
  BY DEF I!Fold, Fold
<1>4. \A data : I!Words(data) = Words(data)
  BY DEF I!Words, Words, I!Total, Total
<1>5. \A data : I!Checksum(data) = Checksum(data)
  BY <1>3, <1>4 DEF I!Checksum, Checksum, I!Not16, Not16
<1>6. \A a, b : I!ChecksumCombine(a, b) = ChecksumCombine(a, b)
  BY <1>3 DEF I!ChecksumCombine, ChecksumCombine, I!Not16, Not16
<1>7. \A data : I!VerifyChecksum(data) = VerifyChecksum(data)
  BY <1>5 DEF I!VerifyChecksum, VerifyChecksum
<1> QED
  BY <1>1, <1>2, <1>5, <1>6, <1>7

\* A header whose fields have the ranges of their types.
InRange(h) ==
  /\ h.Version = 4 /\ h.IHL \in Below(16) /\ h.IHL >= 5
  /\ h.TOS \in Byte /\ h.TotalLen \in Word /\ h.ID \in Word
  /\ h.Flags \in Below(8) /\ h.FragOffset \in Below(8192)
  /\ h.TTL \in Byte /\ h.Protocol \in Byte /\ h.Checksum \in Word
  /\ h.Src \in Address /\ h.Dst \in Address
  /\ h.Options \in Seq(Byte) /\ Len(h.Options) = 4 * h.IHL - 20

\* The bytes b begin with those of the header h.
SaysFields(b, h) ==
  /\ b[1] = 64 + h.IHL /\ b[2] = h.TOS
  /\ b[3] * 256 + b[4] = h.TotalLen
  /\ b[5] * 256 + b[6] = h.ID
  /\ b[7] * 256 + b[8] = h.Flags * 8192 + h.FragOffset
  /\ b[9] = h.TTL /\ b[10] = h.Protocol
  /\ b[11] * 256 + b[12] = h.Checksum
SaysAddresses(b, h) ==
  \A i \in 1 .. 4 : b[12 + i] = h.Src[i] /\ b[16 + i] = h.Dst[i]
SaysOptions(b, h) ==
  \A i \in 1 .. 4 * h.IHL - 20 : b[20 + i] = h.Options[i]
Says(b, h) ==
  /\ b \in Seq(Byte) /\ Len(b) >= 4 * h.IHL
  /\ SaysFields(b, h) /\ SaysAddresses(b, h) /\ SaysOptions(b, h)

\* The twenty bytes that every header has.
Fixed(h) ==
  <<((h.Version * 16) % 256) + (h.IHL % 16), h.TOS>>
  \o I!Bytes16(h.TotalLen) \o I!Bytes16(h.ID) \o I!Bytes16(I!FlagsInPlace(h))
  \o <<h.TTL, h.Protocol>> \o I!Bytes16(h.Checksum)
  \o I!Address(h.Src) \o I!Address(h.Dst)

LEMMA FixedBytes ==
  ASSUME NEW h, InRange(h)
  PROVE  /\ Fixed(h) \in Seq(Byte) /\ Len(Fixed(h)) = 20
         /\ SaysFields(Fixed(h), h) /\ SaysAddresses(Fixed(h), h)
<1> DEFINE first == ((h.Version * 16) % 256) + (h.IHL % 16)
           place == I!FlagsInPlace(h)
<1>1. first = 64 + h.IHL /\ first \in Byte
  <2>1. h.Version = 4 /\ h.IHL \in Below(16)
    BY DEF InRange
  <2> QED
    BY <2>1, VersionAndLength
<1>2. place = h.Flags * 8192 + h.FragOffset /\ place \in Word
  <2>1. h.Flags \in Below(8) /\ h.FragOffset \in Below(8192)
    BY DEF InRange
  <2> QED
    BY <2>1, FlagsAndOffset DEF I!FlagsInPlace
<1>3. I!Address(h.Src) = h.Src /\ I!Address(h.Dst) = h.Dst
  BY DEF InRange, Address, I!Address
<1> HIDE DEF first, place
<1>4. PICK p : p = <<first, h.TOS>>
  OBVIOUS
<1>5. PICK q : q = <<h.TTL, h.Protocol>>
  OBVIOUS
<1>6. /\ p \in Seq(Byte) /\ Len(p) = 2 /\ p[1] = first /\ p[2] = h.TOS
      /\ q \in Seq(Byte) /\ Len(q) = 2 /\ q[1] = h.TTL /\ q[2] = h.Protocol
  BY <1>1, <1>4, <1>5 DEF InRange
<1> DEFINE len == Bytes16(h.TotalLen)
           id == Bytes16(h.ID)
           off == Bytes16(place)
           sum == Bytes16(h.Checksum)
<1>7. /\ len \in Seq(Byte) /\ Len(len) = 2 /\ len[1] * 256 + len[2] = h.TotalLen
      /\ id \in Seq(Byte) /\ Len(id) = 2 /\ id[1] * 256 + id[2] = h.ID
      /\ off \in Seq(Byte) /\ Len(off) = 2 /\ off[1] * 256 + off[2] = place
      /\ sum \in Seq(Byte) /\ Len(sum) = 2 /\ sum[1] * 256 + sum[2] = h.Checksum
  <2>1. h.TotalLen \in Word /\ h.ID \in Word /\ h.Checksum \in Word
    BY DEF InRange
  <2>2. len \in Seq(Byte) /\ Len(len) = 2 /\ len[1] * 256 + len[2] = h.TotalLen
    BY <2>1, BytesOfWord
  <2>3. id \in Seq(Byte) /\ Len(id) = 2 /\ id[1] * 256 + id[2] = h.ID
    BY <2>1, BytesOfWord
  <2>4. off \in Seq(Byte) /\ Len(off) = 2 /\ off[1] * 256 + off[2] = place
    BY <1>2, BytesOfWord
  <2>5. sum \in Seq(Byte) /\ Len(sum) = 2 /\ sum[1] * 256 + sum[2] = h.Checksum
    BY <2>1, BytesOfWord
  <2> QED
    BY <2>2, <2>3, <2>4, <2>5
<1> HIDE DEF len, id, off, sum
<1>8. PICK s : s = p \o len \o id \o off \o q \o sum
  OBVIOUS
<1>9. /\ s \in Seq(Byte) /\ Len(s) = 12
      /\ s[1] = p[1] /\ s[2] = p[2] /\ s[3] = len[1] /\ s[4] = len[2]
      /\ s[5] = id[1] /\ s[6] = id[2] /\ s[7] = off[1] /\ s[8] = off[2]
      /\ s[9] = q[1] /\ s[10] = q[2] /\ s[11] = sum[1] /\ s[12] = sum[2]
  <2>1. InPairs(s, p, len, id, off, q, sum)
    BY <1>8 DEF InPairs
  <2>2. s \in Seq(Byte) /\ TwelveBytes(s, p, len, id, off, q, sum)
    BY <1>6, <1>7, <2>1, SixPairs
  <2> QED
    BY <2>2 DEF TwelveBytes
<1>10. PICK t : t = s \o h.Src
  OBVIOUS
<1>11. PICK b : b = t \o h.Dst
  OBVIOUS
<1>12. h.Src \in Seq(Byte) /\ Len(h.Src) = 4 /\ h.Dst \in Seq(Byte) /\ Len(h.Dst) = 4
  BY DEF InRange, Address
<1>13. Joins(t, s, h.Src, Byte)
  BY <1>9, <1>10, <1>12, Joined
<1>14. t \in Seq(Byte) /\ Len(t) = 16
  BY <1>9, <1>12, <1>13 DEF Joins
<1>15. Joins(b, t, h.Dst, Byte)
  BY <1>11, <1>12, <1>14, Joined
<1>16. b \in Seq(Byte) /\ Len(b) = 20 /\ \A i \in 1 .. 12 : b[i] = s[i]
  BY <1>9, <1>12, <1>13, <1>14, <1>15 DEF Joins
<1>17. \A i \in 1 .. 4 : b[12 + i] = h.Src[i] /\ b[16 + i] = h.Dst[i]
  <2> TAKE i \in 1 .. 4
  <2>1. 12 + i \in 1 .. Len(t) /\ i \in 1 .. Len(h.Src) /\ i \in 1 .. Len(h.Dst)
    BY <1>12, <1>14
  <2>2. t[12 + i] = h.Src[i]
    BY <1>9, <1>13, <2>1 DEF Joins
  <2>3. b[12 + i] = t[12 + i]
    BY <1>15, <2>1 DEF Joins
  <2>4. b[16 + i] = h.Dst[i]
    BY <1>14, <1>15, <2>1 DEF Joins
  <2> QED
    BY <2>2, <2>3, <2>4
<1>18. Fixed(h) = b
  BY <1>3, <1>4, <1>5, <1>8, <1>10, <1>11, SameInIp DEF Fixed, first, place, len, id, off, sum
<1>19. SaysFields(b, h)
  BY <1>1, <1>2, <1>6, <1>7, <1>9, <1>16 DEF SaysFields
<1>20. SaysAddresses(b, h)
  BY <1>17 DEF SaysAddresses
<1> QED
  BY <1>16, <1>18, <1>19, <1>20

LEMMA Entries ==
  ASSUME NEW S, NEW s \in Seq(S), NEW i \in 1 .. Len(s)
  PROVE  s[i] \in S
OBVIOUS

LEMMA MarshalledHeader ==
  ASSUME NEW h, InRange(h)
  PROVE  /\ Says(I!Marshal(h), h) /\ Len(I!Marshal(h)) = 4 * h.IHL
<1> DEFINE b == I!Marshal(h)
           f == Fixed(h)
           o == h.Options
           n == 4 * h.IHL
<1>1. /\ n \in Nat /\ n >= 20 /\ h.IHL * 4 = n
      /\ o \in Seq(Byte) /\ Len(o) = n - 20 /\ DOMAIN o = 1 .. n - 20
  BY DEF InRange, Below
<1>2. b = [i \in 1 .. n |-> CASE i <= 20 -> f[i]
                              [] i - 20 \in DOMAIN o -> o[i - 20]
                              [] OTHER -> 0]
  <2>1. ~ (I!HeaderLen(h) < I!BytesNeeded(h))
    BY <1>1 DEF I!HeaderLen, I!BytesNeeded, I!MinHeaderLen
  <2> QED
    BY <1>1, <2>1 DEF I!Marshal, I!HeaderLen, I!MinHeaderLen, Fixed
<1>3. f \in Seq(Byte) /\ Len(f) = 20 /\ SaysFields(f, h) /\ SaysAddresses(f, h)
  BY FixedBytes
<1> HIDE DEF b, f, o
<1>4. \A i \in 1 .. n : i <= 20 => b[i] = f[i] /\ b[i] \in Byte
  <2> TAKE i \in 1 .. n
  <2> HAVE i <= 20
  <2>1. i \in 1 .. Len(f)
    BY <1>1, <1>3
  <2>2. f[i] \in Byte
    BY <1>3, <2>1, Entries
  <2>3. b[i] = CASE i <= 20 -> f[i]
                 [] i - 20 \in DOMAIN o -> o[i - 20]
                 [] OTHER -> 0
    BY <1>2
  <2>4. ~ (i - 20 \in DOMAIN o)
    BY <1>1
  <2>5. b[i] = f[i]
    BY <2>3, <2>4
  <2> QED
    BY <2>2, <2>5
<1>5. \A i \in 1 .. n - 20 : b[20 + i] = o[i] /\ b[20 + i] \in Byte
  <2> TAKE i \in 1 .. n - 20
  <2>1. 20 + i \in 1 .. n /\ ~ (20 + i <= 20) /\ (20 + i) - 20 = i /\ i \in DOMAIN o
    BY <1>1
  <2>2. o[i] \in Byte
    BY <1>1
  <2> QED
    BY <1>2, <2>1, <2>2
<1>6. b \in Seq(Byte) /\ Len(b) = n
  <2>1. \A i \in 1 .. n : b[i] \in Byte
    <3> TAKE i \in 1 .. n
    <3>1. CASE i <= 20
      BY <1>1, <1>4, <3>1
    <3>2. CASE i > 20
      <4>1. i - 20 \in 1 .. n - 20 /\ 20 + (i - 20) = i
        BY <1>1, <3>2
      <4> QED
        BY <1>5, <4>1
    <3> QED
      BY <1>1, <3>1, <3>2
  <2>2. b \in [1 .. n -> Byte]
    BY <1>2, <2>1
  <2> QED
    BY <1>1, <2>2
<1>7. \A i \in Nat : 1 <= i /\ i <= 20 => b[i] = f[i]
  BY <1>1, <1>4
<1>8. SaysFields(b, h)
  BY <1>3, <1>7 DEF SaysFields
<1>9. SaysAddresses(b, h)
  BY <1>3, <1>7 DEF SaysAddresses
<1>10. SaysOptions(b, h)
  BY <1>5 DEF SaysOptions, o
<1>11. Len(b) >= 4 * h.IHL
  BY <1>1, <1>6
<1> QED
  BY <1>6, <1>8, <1>9, <1>10, <1>11 DEF Says, b

\* What ParseHeader makes of such bytes.
Fields(ihl, tos, totalLen, id, flags, offset, ttl, proto, sum, src, dst, options) ==
  [ok |-> TRUE, Version |-> 4, IHL |-> ihl, TOS |-> tos, TotalLen |-> totalLen,
   ID |-> id, Flags |-> flags, FragOffset |-> offset, TTL |-> ttl, Protocol |-> proto,
   Checksum |-> sum, Src |-> src, Dst |-> dst, Options |-> options]

ReadBack(h) ==
  Fields(h.IHL, h.TOS, h.TotalLen, h.ID, h.Flags, h.FragOffset, h.TTL, h.Protocol,
         h.Checksum, h.Src, h.Dst, h.Options)

LEMMA ParsedHeader ==
  ASSUME NEW h, InRange(h), h.TotalLen >= 4 * h.IHL, NEW b, Says(b, h)
  PROVE  I!ParseHeader(b) = ReadBack(h)
<1>1. /\ b \in Seq(Byte) /\ Len(b) \in Nat /\ Len(b) >= 4 * h.IHL
      /\ h.IHL \in Nat /\ h.IHL >= 5 /\ h.IHL * 4 = 4 * h.IHL
  <2>1. b \in Seq(Byte) /\ Len(b) >= 4 * h.IHL
    BY DEF Says
  <2>2. h.IHL \in Below(16) /\ h.IHL >= 5
    BY DEF InRange
  <2> QED
    BY <2>1, <2>2 DEF Below
<1>2. b[1] % 16 = h.IHL /\ b[1] \div 16 = 4
  <2>1. h.IHL \in Below(16) /\ b[1] = 64 + h.IHL
    BY DEF InRange, Says, SaysFields
  <2> QED
    BY <2>1 DEF Below
<1>3. /\ I!Uint16(b, 3) = h.TotalLen /\ I!Uint16(b, 5) = h.ID
      /\ I!Uint16(b, 11) = h.Checksum
      /\ I!Uint16(b, 7) = h.Flags * 8192 + h.FragOffset
  BY DEF Says, SaysFields, I!Uint16
<1>4. /\ (h.Flags * 8192 + h.FragOffset) \div 8192 = h.Flags
      /\ (h.Flags * 8192 + h.FragOffset) % 8192 = h.FragOffset
  <2>1. h.Flags \in Below(8) /\ h.FragOffset \in Below(8192)
    BY DEF InRange
  <2> QED
    BY <2>1, FlagsAndOffset
<1>5. SubSeq(b, 13, 16) = h.Src /\ SubSeq(b, 17, 20) = h.Dst
  <2>1. h.Src \in Seq(Byte) /\ Len(h.Src) = 4 /\ h.Dst \in Seq(Byte) /\ Len(h.Dst) = 4
    BY DEF InRange, Address
  <2>2. \A i \in 1 .. 4 : b[12 + i] = h.Src[i] /\ b[16 + i] = h.Dst[i]
    BY DEF Says, SaysAddresses
  <2>3. b \in Seq(Byte) /\ Len(b) \in Nat /\ Len(b) >= 20
    BY <1>1
  <2>4. SubSeq(b, 13, 16) = h.Src
    BY <2>1, <2>2, <2>3
  <2>5. SubSeq(b, 17, 20) = h.Dst
    BY <2>1, <2>2, <2>3
  <2> QED
    BY <2>4, <2>5
<1>6. SubSeq(b, 21, h.IHL * 4) = h.Options
  <2>1. h.Options \in Seq(Byte) /\ Len(h.Options) = 4 * h.IHL - 20
    BY DEF InRange
  <2>2. \A i \in 1 .. 4 * h.IHL - 20 : b[20 + i] = h.Options[i]
    BY DEF Says, SaysOptions
  <2> QED
    BY <1>1, <2>1, <2>2
<1> QED
  <2>1. b[2] = h.TOS /\ b[9] = h.TTL /\ b[10] = h.Protocol
    BY DEF Says, SaysFields
  <2>2. ~ (Len(b) < 20 \/ Len(b) < h.IHL * 4 \/ h.TotalLen < h.IHL * 4)
    <3>1. h.TotalLen \in Nat
      BY DEF InRange, Word, Below
    <3>2. PICK l \in Nat, ihl \in Nat, total \in Nat :
            l = Len(b) /\ ihl = h.IHL /\ total = h.TotalLen
      BY <1>1, <3>1
    <3>3. l >= 4 * ihl /\ ihl >= 5 /\ total >= 4 * ihl
      BY <1>1, <3>2
    <3>4. ~ (l < 20 \/ l < ihl * 4 \/ total < ihl * 4)
      BY <3>3
    <3> QED
      BY <3>2, <3>4
  <2> DEFINE ihl == b[1] % 16
             totalLen == I!Uint16(b, 3)
             place == I!Uint16(b, 7)
             flags == place \div 8192
             offset == place % 8192
             src == SubSeq(b, 13, 16)
             dst == SubSeq(b, 17, 20)
             options == SubSeq(b, 21, ihl * 4)
             found == Fields(ihl, b[2], totalLen, I!Uint16(b, 5), flags, offset, b[9],
                             b[10], I!Uint16(b, 11), src, dst, options)
             refused == \/ Len(b) < 20
                        \/ b[1] \div 16 # 4
                        \/ Len(b) < ihl * 4
                        \/ totalLen < ihl * 4
  <2>3. I!ParseHeader(b) = IF refused THEN I!NoHeader ELSE found
    BY DEF I!ParseHeader, I!MinHeaderLen, Fields
  <2>4. /\ ihl = h.IHL /\ totalLen = h.TotalLen
        /\ flags = h.Flags /\ offset = h.FragOffset
    BY <1>2, <1>3, <1>4
  <2>5. ~ refused
    BY <1>2, <2>2, <2>4
  <2>6. found = ReadBack(h)
    <3>1. src = h.Src /\ dst = h.Dst /\ options = h.Options
      BY <1>5, <1>6, <2>4
    <3> HIDE DEF ihl, totalLen, flags, offset, src, dst, options
    <3> QED
      BY <1>3, <2>1, <2>4, <3>1 DEF ReadBack
  <2> HIDE DEF found, refused
  <2> QED
    BY <2>3, <2>5, <2>6

-----------------------------------------------------------------------------
(* A checksum in its field, and what a change does to it.                  *)

\* Two cleared bytes at an odd place take a word.
LEMMA WordsWithWord ==
  ASSUME NEW data \in Seq(Byte), NEW other \in Seq(Byte), Len(other) = Len(data),
         NEW k \in 1 .. Len(data), k + 1 \in 1 .. Len(data), k % 2 = 1,
         \A i \in 1 .. Len(data) : i # k /\ i # k + 1 => other[i] = data[i],
         data[k] = 0, data[k + 1] = 0
  PROVE  Words(other) = Words(data) + (other[k] * 256 + other[k + 1])
<1> DEFINE mid == [data EXCEPT ![k] = other[k]]
<1>1. k \in 1 .. Len(other) /\ k + 1 \in 1 .. Len(other) /\ k # k + 1 /\ k \in Nat
  OBVIOUS
<1>2. other[k] \in Byte /\ other[k + 1] \in Byte
  BY <1>1, Entries
<1>3. /\ mid \in Seq(Byte) /\ Len(mid) = Len(data) /\ mid[k] = other[k]
      /\ \A i \in 1 .. Len(data) : i # k => mid[i] = data[i]
  BY <1>2
<1> HIDE DEF mid
<1>4. /\ mid[k + 1] = 0
      /\ \A i \in 1 .. Len(data) : i # k + 1 => other[i] = mid[i]
  BY <1>1, <1>3
<1>5. Words(mid) = Words(data) + Weighed(k, mid[k]) - Weighed(k, data[k])
  BY <1>3, WordsWithOther
<1>6. Words(other) = Words(mid) + Weighed(k + 1, other[k + 1]) - Weighed(k + 1, mid[k + 1])
  <2> DEFINE j == k + 1
  <2>1. j \in 1 .. Len(mid) /\ \A i \in 1 .. Len(mid) : i # j => other[i] = mid[i]
    BY <1>3, <1>4
  <2>2. Len(other) = Len(mid)
    BY <1>3
  <2> HIDE DEF j
  <2>3. Words(other) = Words(mid) + Weighed(j, other[j]) - Weighed(j, mid[j])
    BY <1>3, <2>1, <2>2, WordsWithOther
  <2> QED
    BY <2>3 DEF j
<1>7. /\ Weighed(k, mid[k]) = other[k] * 256 /\ Weighed(k, data[k]) = 0
      /\ Weighed(k + 1, other[k + 1]) = other[k + 1] /\ Weighed(k + 1, mid[k + 1]) = 0
  <2>1. (k + 1) % 2 = 0
    BY <1>1
  <2> QED
    BY <1>3, <1>4, <2>1 DEF Weighed
<1>8. Words(data) \in Nat /\ other[k] \in Nat /\ other[k + 1] \in Nat
  BY <1>2, WeightedBytes DEF Byte, Below
<1> QED
  BY <1>5, <1>6, <1>7, <1>8

\* The bytes with the complement of their sum, and of more, in such a place.
LEMMA FieldCompletes ==
  ASSUME NEW data \in Seq(Byte), NEW other \in Seq(Byte), Len(other) = Len(data),
         NEW k \in 1 .. Len(data), k + 1 \in 1 .. Len(data), k % 2 = 1,
         \A i \in 1 .. Len(data) : i # k /\ i # k + 1 => other[i] = data[i],
         data[k] = 0, data[k + 1] = 0,
         NEW more \in Nat,
         other[k] * 256 + other[k + 1] = 65535 - Rest(more + Words(data))
  PROVE  Rest(more + Words(other)) = 65535
<1>1. Words(data) \in Nat
  BY WeightedBytes
<1>2. Words(other) = Words(data) + (65535 - Rest(more + Words(data)))
  BY WordsWithWord
<1> DEFINE sum == more + Words(data)
<1>3. sum \in Nat
  BY <1>1
<1>4. Rest(sum) \in Nat
  BY <1>3, RestRange
<1>5. more + Words(other) = sum + (65535 - Rest(sum))
  BY <1>1, <1>2, <1>4
<1> HIDE DEF sum
<1>6. Rest(sum + (65535 - Rest(sum))) = 65535
  BY <1>3, ComplementFolds
<1> QED
  BY <1>5, <1>6

Differs(w, b, k) ==
  /\ w \in Seq(Byte) /\ Len(w) = Len(b) /\ w[k] # b[k]
  /\ \A i \in 1 .. Len(b) : i # k => w[i] = b[i]

LEMMA OtherWeightShows ==
  ASSUME NEW k \in Nat, NEW x \in Nat, NEW y \in Nat, x < 256, y < 256, x # y,
         NEW sum \in Nat, Rest(sum) = 65535,
         NEW t \in Nat, t = sum + Weighed(k, y) - Weighed(k, x)
  PROVE  Rest(t) # 65535
<1> DEFINE d == Weighed(k, y) - Weighed(k, x)
<1>1. d \in Int /\ d # 0 /\ d < 65535 /\ -d < 65535
  BY DEF Weighed
<1>2. Weighed(k, x) \in Int /\ Weighed(k, y) \in Int
  BY DEF Weighed
<1>3. t = sum + d
  BY <1>2
<1> HIDE DEF d
<1>4. \A m \in Nat, e \in Int :
        Rest(m) = 65535 /\ e # 0 /\ e < 65535 /\ -e < 65535 /\ m + e \in Nat
        => Rest(m + e) # 65535
  BY ChangeShows
<1> QED
  BY <1>1, <1>3, <1>4

LEMMA OtherByteShows ==
  ASSUME NEW data \in Seq(Byte), NEW k \in 1 .. Len(data),
         NEW other, Differs(other, data, k),
         NEW more \in Nat, Rest(more + Words(data)) = 65535
  PROVE  Rest(more + Words(other)) # 65535
<1>1. /\ other \in Seq(Byte) /\ Len(other) = Len(data) /\ other[k] # data[k]
      /\ \A i \in 1 .. Len(data) : i # k => other[i] = data[i]
  BY DEF Differs
<1>2. k \in Nat /\ k \in 1 .. Len(other)
  BY <1>1
<1>3. data[k] \in Byte /\ other[k] \in Byte
  BY <1>1, <1>2, Entries
<1>4. PICK x, y : x = data[k] /\ y = other[k]
  OBVIOUS
<1>5. x \in Nat /\ y \in Nat /\ x < 256 /\ y < 256 /\ x # y
  BY <1>1, <1>3, <1>4 DEF Byte, Below
<1>6. PICK m, n : m = Words(data) /\ n = Words(other)
  OBVIOUS
<1>7. m \in Nat /\ n \in Nat
  BY <1>1, <1>6, WeightedBytes
<1>8. n = m + Weighed(k, y) - Weighed(k, x)
  BY <1>1, <1>4, <1>6, WordsWithOther
<1>9. Weighed(k, x) \in Int /\ Weighed(k, y) \in Int
  BY <1>5 DEF Weighed
<1>10. more + n = (more + m) + Weighed(k, y) - Weighed(k, x)
  BY <1>7, <1>8, <1>9
<1>11. PICK sum \in Nat, t \in Nat : sum = more + m /\ t = more + n
  BY <1>7
<1>12. Rest(sum) = 65535
  BY <1>6, <1>11
<1>13. t = sum + Weighed(k, y) - Weighed(k, x)
  BY <1>10, <1>11
<1>14. Rest(t) # 65535
  BY <1>2, <1>5, <1>12, <1>13, OtherWeightShows
<1> QED
  BY <1>6, <1>11, <1>14

LEMMA VerifiedBytes ==
  ASSUME NEW data \in Seq(Byte)
  PROVE  VerifyChecksum(data) <=> Rest(Words(data)) = 65535
<1>1. Words(data) \in Nat
  BY WeightedBytes
<1>2. Rest(Words(data)) \in Nat
  BY <1>1, RestRange
<1> QED
  BY <1>2, ChecksumIsRest DEF VerifyChecksum

-----------------------------------------------------------------------------
(* Parts of packets.                                                       *)

LEMMA FirstOf ==
  ASSUME NEW S, NEW w \in Seq(S), NEW n \in Nat, Len(w) >= n, NEW v, v = SubSeq(w, 1, n)
  PROVE  v \in Seq(S) /\ Len(v) = n /\ \A i \in 1 .. n : v[i] = w[i]
<1>1. Len(w) \in Nat
  OBVIOUS
<1>2. SubSeq(w, 1, n) = [i \in 1 .. n |-> w[i]]
  OBVIOUS
<1>3. \A i \in 1 .. n : w[i] \in S
  OBVIOUS
<1>4. v \in [1 .. n -> S]
  BY <1>2, <1>3
<1> QED
  BY <1>2, <1>4

LEMMA SameBytes ==
  ASSUME NEW S, NEW a \in Seq(S), NEW b \in Seq(S), Len(a) = Len(b),
         \A i \in 1 .. Len(a) : a[i] = b[i]
  PROVE  a = b
OBVIOUS

LEMMA PartIs ==
  ASSUME NEW S, NEW w \in Seq(S), NEW data \in Seq(S), NEW n \in Nat, NEW m \in Nat,
         m = n + Len(data), m <= Len(w), \A i \in 1 .. Len(data) : w[n + i] = data[i]
  PROVE  SubSeq(w, n + 1, m) = data
<1> DEFINE e == SubSeq(w, n + 1, m)
<1>1. Len(data) \in Nat
  OBVIOUS
<1>2. e = [i \in 1 .. Len(data) |-> w[n + i]]
  <2>1. e = [i \in 1 .. m - (n + 1) + 1 |-> w[i + (n + 1) - 1]]
    BY DEF SubSeq
  <2>2. m - (n + 1) + 1 = Len(data)
    BY <1>1
  <2>3. \A i \in 1 .. Len(data) : i + (n + 1) - 1 = n + i
    BY <1>1
  <2> HIDE DEF e
  <2> QED
    BY <2>1, <2>2, <2>3
<1>3. e = [i \in 1 .. Len(data) |-> data[i]]
  BY <1>2
<1>4. data = [i \in 1 .. Len(data) |-> data[i]]
  OBVIOUS
<1> QED
  BY <1>3, <1>4

LEMMA EndOf ==
  ASSUME NEW S, NEW w \in Seq(S), NEW data \in Seq(S), NEW n \in Nat,
         Len(w) = n + Len(data), \A i \in 1 .. Len(data) : w[n + i] = data[i]
  PROVE  SubSeq(w, n + 1, Len(w)) = data
<1>1. Len(w) \in Nat /\ Len(w) <= Len(w)
  OBVIOUS
<1> QED
  BY <1>1, PartIs

Behind(w, n, data) == SubSeq(w, n + 1, Len(w)) = data

\* A header marshalled, with data behind it, says the same.
LEMMA SaysWithData ==
  ASSUME NEW h, InRange(h), NEW m, Says(m, h), Len(m) = 4 * h.IHL, NEW data \in Seq(Byte),
         NEW w, Joins(w, m, data, Byte)
  PROVE  Says(w, h) /\ Len(w) = Len(m) + Len(data) /\ Behind(w, 4 * h.IHL, data)
<1>1. m \in Seq(Byte) /\ h.IHL \in Nat /\ h.IHL >= 5
  BY DEF Says, InRange, Below
<1>3. /\ w \in Seq(Byte) /\ Len(w) = Len(m) + Len(data)
      /\ \A i \in 1 .. Len(m) : w[i] = m[i]
      /\ \A i \in 1 .. Len(data) : w[Len(m) + i] = data[i]
  BY DEF Joins
<1> DEFINE n == Len(m)
<1>4. n \in Nat /\ n >= 20 /\ n = 4 * h.IHL
  BY <1>1
<1>5. \A i \in Nat : 1 <= i /\ i <= 20 => w[i] = m[i]
  BY <1>3, <1>4
<1>6. SaysFields(w, h)
  <2>1. SaysFields(m, h)
    BY DEF Says
  <2>2. /\ w[1] = m[1] /\ w[2] = m[2] /\ w[3] = m[3] /\ w[4] = m[4]
        /\ w[5] = m[5] /\ w[6] = m[6] /\ w[7] = m[7] /\ w[8] = m[8]
        /\ w[9] = m[9] /\ w[10] = m[10] /\ w[11] = m[11] /\ w[12] = m[12]
    BY <1>5
  <2> QED
    BY <2>1, <2>2 DEF SaysFields
<1>7. SaysAddresses(w, h)
  <2>1. SaysAddresses(m, h)
    BY DEF Says
  <2>2. \A i \in 1 .. 4 : w[12 + i] = m[12 + i] /\ w[16 + i] = m[16 + i]
    BY <1>5
  <2> QED
    BY <2>1, <2>2 DEF SaysAddresses
<1>8. SaysOptions(w, h)
  <2> SUFFICES ASSUME NEW i \in 1 .. 4 * h.IHL - 20 PROVE w[20 + i] = h.Options[i]
    BY DEF SaysOptions
  <2>1. 20 + i \in 1 .. Len(m)
    BY <1>4
  <2>2. m[20 + i] = h.Options[i]
    BY DEF Says, SaysOptions
  <2> QED
    BY <1>3, <2>1, <2>2
<1>9. Len(w) >= 4 * h.IHL
  BY <1>1, <1>3
<1>10. Behind(w, n, data)
  <2> HIDE DEF n
  <2>1. n \in Nat /\ Len(w) = n + Len(data) /\ \A i \in 1 .. Len(data) : w[n + i] = data[i]
    BY <1>3, <1>4 DEF n
  <2> QED
    BY <1>3, <2>1, EndOf DEF Behind
<1> QED
  BY <1>3, <1>4, <1>6, <1>7, <1>8, <1>9, <1>10 DEF Says

-----------------------------------------------------------------------------
(* Built packets.                                                          *)

LEMMA SameWord ==
  ASSUME NEW a \in Byte, NEW b \in Byte, NEW c \in Byte, NEW d \in Byte,
         a * 256 + b = c * 256 + d
  PROVE  a = c /\ b = d
BY DEF Byte, Below

\* A header as Build makes it.
LEMMA BuiltFields ==
  ASSUME NEW src \in Address, NEW dst \in Address, NEW proto \in Byte,
         NEW context \in ContextSet, NEW data \in Seq(Byte), 20 + Len(data) <= MaxPacket,
         NEW sum \in Word
  PROVE  LET h == I!Built(src, dst, proto, context, data, sum)
         IN  /\ InRange(h) /\ h.IHL = 5 /\ h.TotalLen = 20 + Len(data)
             /\ h.TOS = context.tos /\ h.ID = context.id /\ h.Flags = context.flags
             /\ h.FragOffset = 0 /\ h.TTL = context.ttl /\ h.Protocol = proto
             /\ h.Checksum = sum /\ h.Src = src /\ h.Dst = dst
<1> DEFINE h == I!Built(src, dst, proto, context, data, sum)
<1>1. /\ h.Version = 4 /\ h.IHL = 5 /\ h.TotalLen = 20 + Len(data)
      /\ h.TOS = context.tos /\ h.ID = context.id /\ h.Flags = context.flags
      /\ h.FragOffset = 0 /\ h.TTL = context.ttl /\ h.Protocol = proto
      /\ h.Checksum = sum /\ h.Src = src /\ h.Dst = dst /\ h.Options = <<>>
  BY DEF I!Built, I!MinHeaderLen
<1> HIDE DEF h
<1>2. /\ context.ttl \in Byte /\ context.tos \in Byte /\ context.flags \in Below(8)
      /\ context.id \in Word
  BY DEF ContextSet
<1>3. 20 + Len(data) \in Word
  BY MaxPacketAssumption DEF Word, Below
<1>4. 5 \in Below(16) /\ 0 \in Below(8192)
  BY DEF Below
<1>5. <<>> \in Seq(Byte) /\ Len(<<>>) = 4 * 5 - 20
  OBVIOUS
<1>6. InRange(h)
  BY <1>1, <1>2, <1>3, <1>4, <1>5 DEF InRange
<1> QED
  BY <1>1, <1>6 DEF h

\* Headers that differ in the checksum have bytes that differ there.
LEMMA ChecksumApart ==
  ASSUME NEW a \in Seq(Byte), NEW b \in Seq(Byte), Len(a) = 20, Len(b) = 20,
         NEW g, NEW h, SaysFields(a, g), SaysAddresses(a, g),
         SaysFields(b, h), SaysAddresses(b, h),
         g.IHL = h.IHL, g.TOS = h.TOS, g.TotalLen = h.TotalLen, g.ID = h.ID,
         g.Flags = h.Flags, g.FragOffset = h.FragOffset, g.TTL = h.TTL,
         g.Protocol = h.Protocol, g.Src = h.Src, g.Dst = h.Dst
  PROVE  \A i \in 1 .. 20 : i # 11 /\ i # 12 => a[i] = b[i]
<1>1. \A i \in Nat : 1 <= i /\ i <= 20 => a[i] \in Byte /\ b[i] \in Byte
  <2> TAKE i \in Nat
  <2> HAVE 1 <= i /\ i <= 20
  <2>1. i \in 1 .. Len(a) /\ i \in 1 .. Len(b)
    OBVIOUS
  <2> QED
    BY <2>1, Entries
<1>2. a[1] = b[1] /\ a[2] = b[2] /\ a[9] = b[9] /\ a[10] = b[10]
  BY DEF SaysFields
<1>3. a[3] = b[3] /\ a[4] = b[4]
  <2>1. a[3] * 256 + a[4] = b[3] * 256 + b[4]
    BY DEF SaysFields
  <2>2. a[3] \in Byte /\ a[4] \in Byte /\ b[3] \in Byte /\ b[4] \in Byte
    BY <1>1
  <2> QED
    BY <2>1, <2>2, SameWord
<1>4. a[5] = b[5] /\ a[6] = b[6]
  <2>1. a[5] * 256 + a[6] = b[5] * 256 + b[6]
    BY DEF SaysFields
  <2>2. a[5] \in Byte /\ a[6] \in Byte /\ b[5] \in Byte /\ b[6] \in Byte
    BY <1>1
  <2> QED
    BY <2>1, <2>2, SameWord
<1>5. a[7] = b[7] /\ a[8] = b[8]
  <2>1. a[7] * 256 + a[8] = b[7] * 256 + b[8]
    BY DEF SaysFields
  <2>2. a[7] \in Byte /\ a[8] \in Byte /\ b[7] \in Byte /\ b[8] \in Byte
    BY <1>1
  <2> QED
    BY <2>1, <2>2, SameWord
<1>6. \A i \in 1 .. 4 : a[12 + i] = b[12 + i] /\ a[16 + i] = b[16 + i]
  BY DEF SaysAddresses
<1> TAKE i \in 1 .. 20
<1> HAVE i # 11 /\ i # 12
<1>7. CASE i <= 10
  <2>1. i = 1 \/ i = 2 \/ i = 3 \/ i = 4 \/ i = 5 \/ i = 6 \/ i = 7 \/ i = 8 \/ i = 9 \/ i = 10
    BY <1>7
  <2> QED
    BY <1>2, <1>3, <1>4, <1>5, <2>1
<1>8. CASE i > 12 /\ i <= 16
  <2>1. i - 12 \in 1 .. 4 /\ 12 + (i - 12) = i
    BY <1>8
  <2> QED
    BY <1>6, <2>1
<1>9. CASE i > 16
  <2>1. i - 16 \in 1 .. 4 /\ 16 + (i - 16) = i
    BY <1>9
  <2> QED
    BY <1>6, <2>1
<1> QED
  BY <1>7, <1>8, <1>9

\* What BuildWithOptions returns, and that its header verifies.
LEMMA BuiltPacket ==
  ASSUME NEW src \in Address, NEW dst \in Address, NEW proto \in Byte,
         NEW context \in ContextSet, NEW data \in Seq(Byte), 20 + Len(data) <= MaxPacket
  PROVE  \E sum \in Word :
           LET m == I!Marshal(I!Built(src, dst, proto, context, data, sum))
           IN  /\ I!BuildWithOptions(src, dst, proto, context, data) = m \o data
               /\ VerifyChecksum(m)
<1> DEFINE g == I!Built(src, dst, proto, context, data, 0)
           sum == Checksum(I!Marshal(g))
           h == I!Built(src, dst, proto, context, data, sum)
           a == I!Marshal(g)
           b == I!Marshal(h)
<1>1. 0 \in Word
  BY DEF Word, Below
<1>2. /\ InRange(g) /\ g.IHL = 5 /\ g.TotalLen = 20 + Len(data)
      /\ g.TOS = context.tos /\ g.ID = context.id /\ g.Flags = context.flags
      /\ g.FragOffset = 0 /\ g.TTL = context.ttl /\ g.Protocol = proto
      /\ g.Checksum = 0 /\ g.Src = src /\ g.Dst = dst
  BY <1>1, BuiltFields
<1>3. Says(a, g) /\ Len(a) = 20
  <2> HIDE DEF g
  <2>1. Says(I!Marshal(g), g) /\ Len(I!Marshal(g)) = 4 * g.IHL
    BY <1>2, MarshalledHeader
  <2>2. 4 * g.IHL = 20
    BY <1>2
  <2> QED
    BY <2>1, <2>2
<1>4. a \in Seq(Byte)
  BY <1>3 DEF Says
<1>5. sum = 65535 - Rest(Words(a)) /\ sum \in Word
  <2> HIDE DEF g
  <2> QED
    BY <1>4, ChecksumIsRest
<1> HIDE DEF sum
<1>6. /\ InRange(h) /\ h.IHL = 5 /\ h.TotalLen = 20 + Len(data)
      /\ h.TOS = context.tos /\ h.ID = context.id /\ h.Flags = context.flags
      /\ h.FragOffset = 0 /\ h.TTL = context.ttl /\ h.Protocol = proto
      /\ h.Checksum = sum /\ h.Src = src /\ h.Dst = dst
  BY <1>5, BuiltFields
<1>7. Says(b, h) /\ Len(b) = 20
  <2> HIDE DEF h
  <2>1. Says(I!Marshal(h), h) /\ Len(I!Marshal(h)) = 4 * h.IHL
    BY <1>6, MarshalledHeader
  <2>2. 4 * h.IHL = 20
    BY <1>6
  <2> QED
    BY <2>1, <2>2
<1>8. I!BuildWithOptions(src, dst, proto, context, data) = b \o data
  <2>1. I!Checksum(I!Marshal(I!Built(src, dst, proto, context, data, 0))) = sum
    BY SameInIp DEF sum
  <2> QED
    BY <2>1, MaxPacketAssumption
    DEF I!BuildWithOptions, I!MinHeaderLen, Word, Below
<1> HIDE DEF a, b, g, h
<1>9. b \in Seq(Byte)
  BY <1>7 DEF Says
<1>10. \A i \in 1 .. 20 : i # 11 /\ i # 12 => b[i] = a[i]
  <2>1. /\ SaysFields(a, g) /\ SaysAddresses(a, g)
        /\ SaysFields(b, h) /\ SaysAddresses(b, h)
    BY <1>3, <1>7 DEF Says
  <2>2. /\ b \in Seq(Byte) /\ a \in Seq(Byte) /\ Len(b) = 20 /\ Len(a) = 20
    BY <1>3, <1>4, <1>7, <1>9
  <2>3. /\ h.IHL = g.IHL /\ h.TOS = g.TOS /\ h.TotalLen = g.TotalLen /\ h.ID = g.ID
        /\ h.Flags = g.Flags /\ h.FragOffset = g.FragOffset /\ h.TTL = g.TTL
        /\ h.Protocol = g.Protocol /\ h.Src = g.Src /\ h.Dst = g.Dst
    BY <1>2, <1>6
  <2> QED
    BY <2>1, <2>2, <2>3, ChecksumApart
<1>11. a[11] = 0 /\ a[12] = 0
  <2>1. a[11] * 256 + a[12] = 0
    BY <1>2, <1>3 DEF Says, SaysFields
  <2>2. 11 \in 1 .. Len(a) /\ 12 \in 1 .. Len(a)
    BY <1>3
  <2>3. a[11] \in Byte /\ a[12] \in Byte
    BY <1>4, <2>2, Entries
  <2> QED
    BY <2>1, <2>3 DEF Byte, Below
<1>12. b[11] * 256 + b[12] = 65535 - Rest(0 + Words(a))
  <2>1. b[11] * 256 + b[12] = sum
    BY <1>6, <1>7 DEF Says, SaysFields
  <2>2. 0 + Words(a) = Words(a)
    BY <1>4, WeightedBytes
  <2> QED
    BY <1>5, <2>1, <2>2
<1>13. Rest(0 + Words(b)) = 65535
  <2> DEFINE k == 11
  <2>1. /\ k \in 1 .. Len(a) /\ k + 1 \in 1 .. Len(a) /\ k % 2 = 1
        /\ \A i \in 1 .. Len(a) : i # k /\ i # k + 1 => b[i] = a[i]
        /\ a[k] = 0 /\ a[k + 1] = 0 /\ Len(b) = Len(a)
        /\ b[k] * 256 + b[k + 1] = 65535 - Rest(0 + Words(a))
    BY <1>3, <1>7, <1>10, <1>11, <1>12
  <2> HIDE DEF k
  <2> QED
    BY <1>4, <1>9, <2>1, FieldCompletes
<1>14. VerifyChecksum(b)
  <2>1. 0 + Words(b) = Words(b)
    BY <1>9, WeightedBytes
  <2> QED
    BY <1>9, <1>13, <2>1, VerifiedBytes
<1> QED
  <2>1. LET m == I!Marshal(I!Built(src, dst, proto, context, data, sum))
        IN  /\ I!BuildWithOptions(src, dst, proto, context, data) = m \o data
            /\ VerifyChecksum(m)
    BY <1>8, <1>14 DEF b, h
  <2>2. sum \in Word
    BY <1>5
  <2> QED
    BY <2>1, <2>2

\* What is known of the bytes of a packet that was built.
BuiltFor(w, src, dst, proto, data) ==
  /\ w \in Seq(Byte) /\ Len(w) = 20 + Len(data)
  /\ w[1] = 69 /\ w[10] = proto /\ I!Uint16(w, 3) = Len(w)
  /\ SubSeq(w, 13, 16) = src /\ SubSeq(w, 17, 20) = dst
  /\ Behind(w, 20, data)
  /\ VerifyChecksum(SubSeq(w, 1, 20))

LEMMA BuiltBytes ==
  ASSUME NEW src \in Address, NEW dst \in Address, NEW proto \in Byte,
         NEW context \in ContextSet, NEW data \in Seq(Byte), 20 + Len(data) <= MaxPacket,
         NEW w, w = I!BuildWithOptions(src, dst, proto, context, data)
  PROVE  BuiltFor(w, src, dst, proto, data)
<1>1. PICK sum \in Word :
        LET m == I!Marshal(I!Built(src, dst, proto, context, data, sum))
        IN  w = m \o data /\ VerifyChecksum(m)
  BY BuiltPacket
<1> DEFINE g == I!Built(src, dst, proto, context, data, sum)
           m == I!Marshal(g)
<1>2. /\ InRange(g) /\ g.IHL = 5 /\ g.TotalLen = 20 + Len(data)
      /\ g.Protocol = proto /\ g.Src = src /\ g.Dst = dst
  BY BuiltFields
<1> HIDE DEF g
<1>3. Says(m, g) /\ Len(m) = 20
  <2>1. Says(m, g) /\ Len(m) = 4 * g.IHL
    BY <1>2, MarshalledHeader
  <2> QED
    BY <1>2, <2>1
<1>4. w = m \o data /\ VerifyChecksum(m)
  BY <1>1 DEF g
<1> HIDE DEF m
<1>5. m \in Seq(Byte)
  BY <1>3 DEF Says
<1>6. Joins(w, m, data, Byte)
  BY <1>4, <1>5, Joined
<1>7. Says(w, g) /\ Len(w) = 20 + Len(data) /\ Behind(w, 20, data)
  <2>1. Len(m) = 4 * g.IHL /\ 4 * g.IHL = 20
    BY <1>2, <1>3
  <2>2. Says(w, g) /\ Len(w) = Len(m) + Len(data) /\ Behind(w, 4 * g.IHL, data)
    BY <1>2, <1>3, <1>6, <2>1, SaysWithData
  <2> QED
    BY <2>1, <2>2
<1>8. w \in Seq(Byte) /\ SaysFields(w, g) /\ SaysAddresses(w, g)
  BY <1>7 DEF Says
<1>9. w[1] = 69 /\ w[10] = proto /\ I!Uint16(w, 3) = Len(w)
  BY <1>2, <1>7, <1>8 DEF SaysFields, I!Uint16
<1>10. SubSeq(w, 13, 16) = src /\ SubSeq(w, 17, 20) = dst
  <2>1. src \in Seq(Byte) /\ Len(src) = 4 /\ dst \in Seq(Byte) /\ Len(dst) = 4
    BY DEF Address
  <2>2. \A i \in 1 .. 4 : w[12 + i] = src[i] /\ w[16 + i] = dst[i]
    BY <1>2, <1>8 DEF SaysAddresses
  <2>3. Len(w) \in Nat /\ Len(w) >= 20
    BY <1>7
  <2>4. ASSUME NEW n \in Nat, NEW a \in Seq(Byte), Len(a) = 4, n + 4 <= Len(w),
               \A i \in 1 .. 4 : w[n + i] = a[i]
        PROVE  SubSeq(w, n + 1, n + 4) = a
    <3>1. n + 4 \in Nat /\ n + 4 = n + Len(a)
      BY <2>4
    <3>2. \A i \in 1 .. Len(a) : w[n + i] = a[i]
      BY <2>4
    <3> QED
      BY <1>8, <2>4, <3>1, <3>2, PartIs
  <2>5. SubSeq(w, 12 + 1, 12 + 4) = src
    <3>1. PICK n \in Nat : n = 12
      OBVIOUS
    <3>2. n + 4 <= Len(w) /\ \A i \in 1 .. 4 : w[n + i] = src[i]
      BY <2>2, <2>3, <3>1
    <3>3. SubSeq(w, n + 1, n + 4) = src
      BY <2>1, <2>4, <3>2
    <3> QED
      BY <3>1, <3>3
  <2>6. SubSeq(w, 16 + 1, 16 + 4) = dst
    <3>1. PICK n \in Nat : n = 16
      OBVIOUS
    <3>2. n + 4 <= Len(w) /\ \A i \in 1 .. 4 : w[n + i] = dst[i]
      BY <2>2, <2>3, <3>1
    <3>3. SubSeq(w, n + 1, n + 4) = dst
      BY <2>1, <2>4, <3>2
    <3> QED
      BY <3>1, <3>3
  <2> QED
    BY <2>5, <2>6
<1>11. SubSeq(w, 1, 20) = m
  <2>1. \A i \in 1 .. 20 : w[i] = m[i]
    BY <1>3, <1>6 DEF Joins
  <2>2. Len(w) \in Nat /\ Len(w) >= 20
    BY <1>7
  <2>3. PICK n \in Nat : n = 20
    OBVIOUS
  <2>4. PICK v : v = SubSeq(w, 1, n)
    OBVIOUS
  <2>5. v \in Seq(Byte) /\ Len(v) = n /\ \A i \in 1 .. n : v[i] = w[i]
    <3>1. Len(w) >= n /\ w \in Seq(Byte)
      BY <1>8, <2>2, <2>3
    <3> QED
      BY <2>4, <3>1, FirstOf
  <2>6. v = m
    <3>1. Len(v) = Len(m) /\ \A i \in 1 .. Len(v) : v[i] = m[i]
      BY <1>3, <2>1, <2>3, <2>5
    <3> QED
      BY <1>5, <2>5, <3>1, SameBytes
  <2> QED
    BY <2>3, <2>4, <2>6
<1> QED
  BY <1>4, <1>7, <1>8, <1>9, <1>10, <1>11 DEF BuiltFor
=============================================================================
