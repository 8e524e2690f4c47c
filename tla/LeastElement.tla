---------------------------- MODULE LeastElement ----------------------------
(***************************************************************************)
(* Facts about the naturals that the proofs take in place of inductions:   *)
(* searches for the first of something (a NUL, a relation, a block) are    *)
(* CHOOSEs of a least number, and sums over a list are functions that are  *)
(* defined by themselves.  At the end, what a quotient is.                 *)
(***************************************************************************)
EXTENDS Integers, WellFoundedInduction, TLAPS

(* A set of naturals has a least element.                                  *)
LEMMA LeastNatural ==
    ASSUME NEW T, T \subseteq Nat, T # {}
    PROVE  \E m \in T : \A k \in T : m <= k
<1> DEFINE R == {p \in Nat \X Nat : p[1] < p[2]}
<1>1. IsWellFoundedOn(R, Nat)
  BY NatLessThanWellFounded DEF OpToRel
<1>2. PICK m \in T : \A k \in T : <<k, m>> \notin R
  BY <1>1, WFMin
<1>3. ASSUME NEW k \in T PROVE m <= k
  <2>1. k \in Nat /\ m \in Nat
    OBVIOUS
  <2>2. k < m => <<k, m>> \in R
    BY <2>1
  <2> QED
    BY <1>2, <2>1, <2>2
<1> QED
  BY <1>3

(* And one of numbers up to n has a greatest.                              *)
LEMMA GreatestNatural ==
    ASSUME NEW n \in Nat, NEW T, T \subseteq 1..n, T # {}
    PROVE  \E m \in T : \A k \in T : k <= m
<1> DEFINE short == {d \in Nat : \E k \in T : d = n - k}
<1>1. short \subseteq Nat /\ short # {}
  <2>1. PICK k \in T : TRUE
    OBVIOUS
  <2>2. n - k \in Nat
    BY <2>1
  <2> QED
    BY <2>1, <2>2
<1>2. PICK d \in short : \A j \in short : d <= j
  <2> HIDE DEF short
  <2> QED
    BY <1>1, LeastNatural
<1>3. PICK m \in T : d = n - m
  OBVIOUS
<1>4. ASSUME NEW k \in T PROVE k <= m
  <2>1. k \in 1..n /\ m \in 1..n /\ n - k \in Nat
    OBVIOUS
  <2>2. n - k \in short
    BY <2>1
  <2>3. d <= n - k
    <3> HIDE DEF short
    <3> QED
      BY <1>2, <2>2
  <2> QED
    BY <1>3, <2>1, <2>3
<1> QED
  BY <1>4

(* Induction up to n, with a set for the predicate.                        *)
LEMMA Reached ==
    ASSUME NEW n \in Nat, NEW B, 0 \in B, \A k \in 1..n : k - 1 \in B => k \in B
    PROVE  \A k \in 0..n : k \in B
<1> DEFINE bad == {k \in 0..n : k \notin B}
<1>1. SUFFICES ASSUME bad # {} PROVE FALSE
  OBVIOUS
<1>2. PICK m \in bad : \A k \in bad : m <= k
  <2>1. bad \subseteq Nat
    OBVIOUS
  <2> HIDE DEF bad
  <2> QED
    BY <1>1, <2>1, LeastNatural
<1>3. m \in 1..n /\ m - 1 \in 0..n /\ ~(m <= m - 1)
  BY <1>2
<1>4. m - 1 \notin bad
  <2> HIDE DEF bad
  <2> QED
    BY <1>2, <1>3
<1> QED
  BY <1>2, <1>3, <1>4

\* g has the sums of the first k of the n naturals e.
Sums(g, n, e) == g = [k \in 0..n |-> IF k = 0 THEN 0 ELSE g[k - 1] + e[k]]

(* There is a function of the sums of a list of naturals: if there were    *)
(* none up to some place, there would be one up to the place before the    *)
(* least of these.                                                         *)
LEMMA SumsExist ==
    ASSUME NEW n \in Nat, NEW e
    PROVE  \E g : Sums(g, n, e)
<1> USE DEF Sums
<1> DEFINE HasSums(m) == \E g : Sums(g, m, e)
           without == {m \in Nat : ~HasSums(m)}
<1>1. SUFFICES ASSUME without # {} PROVE FALSE
  OBVIOUS
<1>2. PICK m \in without : \A k \in without : m <= k
  BY <1>1, LeastNatural
<1>3. CASE m = 0
  <2> DEFINE zero == [k \in 0..0 |-> 0]
  <2>1. zero = [k \in 0..0 |-> IF k = 0 THEN 0 ELSE zero[k - 1] + e[k]]
    OBVIOUS
  <2> QED
    BY <1>2, <1>3, <2>1
<1>4. CASE m # 0
  <2>1. m - 1 \in Nat /\ m - 1 \notin without /\ m \in Nat
    <3> HIDE DEF HasSums
    <3> QED
      BY <1>2, <1>4
  <2>2. PICK g : g = [k \in 0..m - 1 |-> IF k = 0 THEN 0 ELSE g[k - 1] + e[k]]
    <3>1. HasSums(m - 1)
      <4> HIDE DEF HasSums
      <4> QED
        BY <2>1
    <3> QED
      BY <3>1
  <2> DEFINE h == [k \in 0..m |-> IF k = m THEN g[m - 1] + e[m] ELSE g[k]]
  <2>3. ASSUME NEW k \in 0..m PROVE h[k] = IF k = 0 THEN 0 ELSE h[k - 1] + e[k]
    <3>1. CASE k = m
      <4>1. h[k - 1] = g[m - 1]
        BY <1>4, <2>1, <3>1
      <4> QED
        BY <1>4, <3>1, <4>1
    <3>2. CASE k # m /\ k # 0
      <4>1. h[k - 1] = g[k - 1] /\ k \in 0..m - 1
        BY <2>1, <3>2
      <4>2. g[k] = g[k - 1] + e[k]
        BY <2>2, <3>2, <4>1
      <4> QED
        BY <3>2, <4>1, <4>2
    <3>3. CASE k # m /\ k = 0
      <4>1. k \in 0..m - 1
        BY <2>1, <3>3
      <4>2. g[k] = 0
        BY <2>2, <3>3, <4>1
      <4> QED
        BY <3>3, <4>2
    <3> QED
      BY <3>1, <3>2, <3>3
  <2>4. h = [k \in 0..m |-> IF k = 0 THEN 0 ELSE h[k - 1] + e[k]]
    <3>1. h = [k \in 0..m |-> h[k]]
      OBVIOUS
    <3> HIDE DEF h
    <3> QED
      BY <2>3, <3>1
  <2>5. HasSums(m)
    <3> HIDE DEF h
    <3> QED
      BY <2>4
  <2> QED
    BY <1>2, <2>5
<1> QED
  BY <1>3, <1>4

(* The sums of naturals are naturals that grow.                            *)
LEMMA SumsGrow ==
    ASSUME NEW n \in Nat, NEW e, \A k \in 1..n : e[k] \in Nat, NEW g, Sums(g, n, e)
    PROVE  /\ g[0] = 0
           /\ \A k \in 1..n : g[k] = g[k - 1] + e[k]
           /\ \A k \in 0..n : g[k] \in Nat
           /\ \A k \in 0..n : g[k] <= g[n]
<1>1. g[0] = 0
  BY DEF Sums
<1>2. \A k \in 1..n : g[k] = g[k - 1] + e[k]
  BY DEF Sums
<1>3. \A k \in 0..n : g[k] \in Nat
  <2> DEFINE bad == {k \in 0..n : g[k] \notin Nat}
  <2>1. SUFFICES ASSUME bad # {} PROVE FALSE
    OBVIOUS
  <2>2. PICK k \in bad : \A j \in bad : k <= j
    <3>1. bad \subseteq Nat
      OBVIOUS
    <3> HIDE DEF bad
    <3> QED
      BY <2>1, <3>1, LeastNatural
  <2>3. k \in 1..n /\ g[k - 1] \in Nat
    BY <1>1, <2>2
  <2> QED
    BY <1>2, <2>2, <2>3
<1>4. \A k \in 0..n : g[k] <= g[n]
  <2> DEFINE short == {d \in 0..n : ~(g[n - d] <= g[n])}
  <2>1. short = {}
    <3>1. SUFFICES ASSUME short # {} PROVE FALSE
      OBVIOUS
    <3>2. PICK d \in short : \A j \in short : d <= j
      <4>1. short \subseteq Nat
        OBVIOUS
      <4> HIDE DEF short
      <4> QED
        BY <3>1, <4>1, LeastNatural
    <3>3. d \in 1..n
      BY <1>3, <3>2
    <3>4. g[n - (d - 1)] <= g[n]
      <4>1. d - 1 \in 0..n /\ d - 1 < d /\ d - 1 \notin short
        <5>1. d - 1 \in 0..n /\ d - 1 < d /\ d \in Nat
          BY <3>3
        <5> HIDE DEF short
        <5> QED
          BY <3>2, <5>1
      <4> QED
        BY <4>1
    <3>5. n - d + 1 \in 1..n /\ n - (d - 1) = n - d + 1
      BY <3>3
    <3>6. g[n - d + 1] = g[n - d] + e[n - d + 1] /\ e[n - d + 1] \in Nat
      BY <1>2, <3>3, <3>5
    <3>7. g[n - d] \in Nat /\ g[n] \in Nat
      BY <1>3, <3>3
    <3>8. g[n - d] <= g[n]
      BY <3>4, <3>5, <3>6, <3>7
    <3> QED
      BY <3>2, <3>8
  <2>2. ASSUME NEW k \in 0..n PROVE g[k] <= g[n]
    <3>1. n - k \in 0..n /\ n - (n - k) = k
      OBVIOUS
    <3> QED
      BY <2>1, <3>1
  <2> QED
    BY <2>2
<1> QED
  BY <1>1, <1>2, <1>3, <1>4

\* g goes up, or stays, from each of n + 1 naturals to the next.
Climbs(g, n) ==
    /\ \A k \in 1..n + 1 : g[k] \in Nat
    /\ \A k \in 1..n : g[k] <= g[k + 1]

(* What climbs from each to the next climbs from each to all behind it: of *)
(* the places behind j where it were lower, the first has one before it.   *)
LEMMA ClimbsThrough ==
    ASSUME NEW n \in Nat, NEW g, Climbs(g, n), NEW j \in 1..n + 1, NEW k \in 1..n + 1, j <= k
    PROVE  g[j] <= g[k]
<1> DEFINE lower == {m \in j..n + 1 : ~(g[j] <= g[m])}
<1>1. \A m \in 1..n + 1 : g[m] \in Nat
  BY DEF Climbs
<1>2. SUFFICES ASSUME lower # {} PROVE FALSE
  OBVIOUS
<1>3. PICK m \in lower : \A i \in lower : m <= i
  <2>1. lower \subseteq Nat
    OBVIOUS
  <2> HIDE DEF lower
  <2> QED
    BY <1>2, <2>1, LeastNatural
<1>4. m \in j..n + 1 /\ m # j /\ ~(g[j] <= g[m])
  BY <1>1, <1>3
<1>5. m - 1 \in j..n + 1 /\ m - 1 < m /\ m - 1 \in 1..n /\ (m - 1) + 1 = m
  BY <1>4
<1>6. g[j] <= g[m - 1]
  <2>1. m - 1 \notin lower
    <3> HIDE DEF lower
    <3> QED
      BY <1>3, <1>4, <1>5
  <2> QED
    BY <1>5, <2>1
<1>7. g[m - 1] <= g[m]
  BY <1>5 DEF Climbs
<1> QED
  BY <1>1, <1>4, <1>5, <1>6, <1>7

(* Every number it climbs over lies on one step of it, and on no other.    *)
LEMMA StepOf ==
    ASSUME NEW n \in Nat, NEW g, Climbs(g, n), NEW i \in Nat, g[1] <= i, i < g[n + 1]
    PROVE  \E k \in 1..n : g[k] <= i /\ i < g[k + 1]
<1> DEFINE above == {m \in 1..n + 1 : i < g[m]}
<1>1. above # {} /\ above \subseteq Nat
  OBVIOUS
<1>2. PICK m \in above : \A j \in above : m <= j
  <2> HIDE DEF above
  <2> QED
    BY <1>1, LeastNatural
<1>3. m \in 1..n + 1 /\ i < g[m] /\ g[1] \in Nat /\ g[m] \in Nat
  BY <1>2 DEF Climbs
<1>4. m # 1
  BY <1>3
<1>5. m - 1 \in 1..n /\ m - 1 < m /\ (m - 1) + 1 = m /\ m - 1 \in 1..n + 1
  BY <1>3, <1>4
<1>6. m - 1 \notin above
  <2> HIDE DEF above
  <2> QED
    BY <1>2, <1>3, <1>5
<1>7. g[m - 1] \in Nat
  BY <1>5 DEF Climbs
<1>8. g[m - 1] <= i
  BY <1>5, <1>6, <1>7
<1> QED
  BY <1>3, <1>5, <1>8

LEMMA OneStep ==
    ASSUME NEW n \in Nat, NEW g, Climbs(g, n), NEW i \in Nat,
           NEW j \in 1..n, g[j] <= i, i < g[j + 1],
           NEW k \in 1..n, g[k] <= i, i < g[k + 1]
    PROVE  j = k
<1>1. /\ j \in 1..n + 1 /\ k \in 1..n + 1 /\ j + 1 \in 1..n + 1 /\ k + 1 \in 1..n + 1
  OBVIOUS
<1>2. g[j] \in Nat /\ g[k] \in Nat /\ g[j + 1] \in Nat /\ g[k + 1] \in Nat
  BY <1>1 DEF Climbs
<1>3. ~(j < k)
  <2>1. ASSUME j < k PROVE g[j + 1] <= g[k]
    <3>1. j + 1 <= k
      BY <2>1
    <3> QED
      BY <1>1, <3>1, ClimbsThrough
  <2> QED
    BY <1>2, <2>1
<1>4. ~(k < j)
  <2>1. ASSUME k < j PROVE g[k + 1] <= g[j]
    <3>1. k + 1 <= j
      BY <2>1
    <3> QED
      BY <1>1, <3>1, ClimbsThrough
  <2> QED
    BY <1>2, <2>1
<1> QED
  BY <1>3, <1>4

(* Lists that agree have the same sums.                                    *)
LEMMA SumsSame ==
    ASSUME NEW n \in Nat, NEW e, NEW d, \A k \in 1..n : e[k] = d[k],
           NEW g, Sums(g, n, e), NEW h, Sums(h, n, d)
    PROVE  \A k \in 0..n : g[k] = h[k]
<1> DEFINE B == {k \in 0..n : g[k] = h[k]}
<1>1. 0 \in B
  BY DEF Sums
<1>2. ASSUME NEW k \in 1..n, k - 1 \in B PROVE k \in B
  <2>1. k \in 0..n /\ k # 0 /\ g[k - 1] = h[k - 1] /\ e[k] = d[k]
    BY <1>2
  <2>2. g[k] = g[k - 1] + e[k] /\ h[k] = h[k - 1] + d[k]
    BY <2>1 DEF Sums
  <2> QED
    BY <2>1, <2>2
<1> HIDE DEF B
<1>3. \A k \in 0..n : k \in B
  BY <1>1, <1>2, Reached
<1> QED
  BY <1>3 DEF B
-----------------------------------------------------------------------------
(* Quotient and remainder make the number.                                 *)
LEMMA DivisionFacts ==
    ASSUME NEW n \in Nat, NEW d \in Nat \ {0}
    PROVE  /\ n \div d \in Nat /\ n % d \in 0..d - 1
           /\ n = (n \div d) * d + (n % d)
<1>1. n \div d \in Nat
  OBVIOUS
<1>2. n % d \in 0..d - 1
  OBVIOUS
<1>3. n = (n \div d) * d + (n % d)
  OBVIOUS
<1> QED
  BY <1>1, <1>2, <1>3

(* A quotient is the number of times the divisor fits.                     *)
LEMMA QuotientIs ==
    ASSUME NEW t \in Nat \ {0}, NEW q \in Nat, NEW r \in 0..t - 1
    PROVE  (q * t + r) \div t = q /\ (q * t + r) % t = r
<1> DEFINE n == q * t + r
           p == n \div t
           s == n % t
<1>1. n \in Nat /\ q * t \in Nat
  OBVIOUS
<1>2. p \in Nat /\ s \in 0..t - 1 /\ n = p * t + s
  <2> HIDE DEF n
  <2> QED
    BY <1>1, DivisionFacts
<1>3. q * t + r = p * t + s
  BY <1>2
<1>4. \A x, y \in Nat : x < y => x * t + t <= y * t
  <2>1. ASSUME NEW x \in Nat, NEW y \in Nat, x < y PROVE x * t + t <= y * t
    <3>1. y - x - 1 \in Nat
      BY <2>1
    <3>2. (y - x - 1) * t >= 0 /\ (y - x - 1) * t = y * t - x * t - t
      BY <3>1
    <3>3. x * t \in Nat /\ y * t \in Nat
      OBVIOUS
    <3> QED
      BY <3>2, <3>3
  <2> QED
    BY <2>1
<1> HIDE DEF p, s, n
<1>5. p * t \in Nat /\ q * t \in Nat
  BY <1>2
<1>6. ~(p < q)
  <2> SUFFICES ASSUME p < q PROVE FALSE
    OBVIOUS
  <2>1. p * t + t <= q * t
    BY <1>2, <1>4
  <2> QED
    BY <1>2, <1>3, <1>5, <2>1
<1>7. ~(q < p)
  <2> SUFFICES ASSUME q < p PROVE FALSE
    OBVIOUS
  <2>1. q * t + t <= p * t
    BY <1>2, <1>4
  <2> QED
    BY <1>2, <1>3, <1>5, <2>1
<1>8. p = q
  BY <1>2, <1>6, <1>7
<1>9. s = r
  BY <1>2, <1>3, <1>5, <1>8
<1> QED
  BY <1>8, <1>9 DEF p, s, n
=============================================================================
