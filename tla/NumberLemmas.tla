---------------------------- MODULE NumberLemmas ----------------------------
(***************************************************************************)
(* Facts about natural numbers: quotients and remainders by a divisor that *)
(* is a constant of a model and not a number (offsets split into rows and  *)
(* columns or into bytes, addresses into the fields of a descriptor or a   *)
(* gate), and induction, stated for sets of numbers.                       *)
(***************************************************************************)
EXTENDS Integers, WellFoundedInduction, TLAPS

\* A number is its quotient and its remainder.
LEMMA Split ==
    ASSUME NEW a \in Nat, NEW d \in Nat \ {0}
    PROVE  /\ a \div d \in Nat
           /\ a % d \in 0 .. d - 1
           /\ a = d * (a \div d) + (a % d)
  OBVIOUS

\* Multiples grow with the factor.
LEMMA Multiples ==
    ASSUME NEW d \in Nat, NEW m \in Nat, NEW n \in Nat, m <= n
    PROVE  d * m \in Nat /\ d * n \in Nat /\ d * m <= d * n
<1>1. n - m \in Nat /\ n = m + (n - m)
  OBVIOUS
<1>2. d * n = d * m + d * (n - m)
  BY <1>1
<1>3. d * m \in Nat /\ d * n \in Nat /\ d * (n - m) \in Nat
  BY <1>1
<1> QED
  BY <1>2, <1>3

\* A multiple one factor on is further by the whole divisor.
LEMMA NextMultiple ==
    ASSUME NEW d \in Nat, NEW m \in Nat, NEW n \in Nat, m < n
    PROVE  d * m + d <= d * n
<1>1. d * (m + 1) <= d * n
  BY Multiples
<1>2. d * (m + 1) = d * m + d
  OBVIOUS
<1> QED
  BY <1>1, <1>2

\* There is only one way to write a number as a multiple and a remainder.
LEMMA Unique ==
    ASSUME NEW d \in Nat \ {0}, NEW q \in Nat, NEW r \in 0 .. d - 1
    PROVE  /\ d * q + r \in Nat
           /\ (d * q + r) \div d = q
           /\ (d * q + r) % d = r
<1> DEFINE a == d * q + r
           p == a \div d
           s == a % d
<1>1. a \in Nat /\ d * q \in Nat /\ d \in Nat
  OBVIOUS
<1>2. p \in Nat /\ s \in 0 .. d - 1 /\ a = d * p + s
  BY <1>1, Split
<1> HIDE DEF p, s
<1>3. d * p \in Nat
  BY <1>1, <1>2
<1>4. ~(p < q)
  BY <1>1, <1>2, <1>3, NextMultiple
<1>5. ~(q < p)
  BY <1>1, <1>2, <1>3, NextMultiple
<1>6. p = q
  BY <1>2, <1>4, <1>5
<1>7. s = r
  BY <1>1, <1>2, <1>6
<1> QED
  BY <1>1, <1>6, <1>7 DEF p, s

\* A multiple leaves no remainder, and what leaves none is a multiple.
LEMMA NoRemainder ==
    ASSUME NEW d \in Nat \ {0}
    PROVE  /\ \A q \in Nat : d * q \in Nat /\ (d * q) \div d = q /\ (d * q) % d = 0
           /\ \A a \in Nat : a % d = 0 => a \div d \in Nat /\ a = d * (a \div d)
<1>1. ASSUME NEW q \in Nat
      PROVE  d * q \in Nat /\ (d * q) \div d = q /\ (d * q) % d = 0
  <2>1. d * q \in Nat /\ d * q + 0 = d * q /\ 0 \in 0 .. d - 1
    OBVIOUS
  <2>2. (d * q + 0) \div d = q /\ (d * q + 0) % d = 0
    BY <2>1, Unique
  <2> QED
    BY <2>1, <2>2
<1>2. ASSUME NEW a \in Nat, a % d = 0
      PROVE  a \div d \in Nat /\ a = d * (a \div d)
  <2>1. a \div d \in Nat /\ a = d * (a \div d) + (a % d)
    BY Split
  <2>2. d * (a \div d) \in Nat
    BY <2>1
  <2> QED
    BY <1>2, <2>1, <2>2
<1> QED
  BY <1>1, <1>2

\* Dividing twice is dividing by the product.
LEMMA DivideTwice ==
    ASSUME NEW a \in Nat, NEW d \in Nat \ {0}, NEW e \in Nat \ {0}
    PROVE  /\ d * e \in Nat \ {0}
           /\ (a \div d) \div e = a \div (d * e)
<1> DEFINE p == a \div d
           r == a % d
           q == p \div e
           s == p % e
<1>1. p \in Nat /\ r \in 0 .. d - 1 /\ a = d * p + r
  BY Split
<1> HIDE DEF p, r
<1>2. q \in Nat /\ s \in 0 .. e - 1 /\ p = e * q + s
  BY <1>1, Split
<1> HIDE DEF q, s
<1>3. d * e \in Nat \ {0} /\ d \in Nat /\ e \in Nat
  OBVIOUS
<1>4. a = (d * e) * q + (d * s + r)
  <2>1. d * (e * q + s) = (d * e) * q + d * s
    BY <1>2, <1>3
  <2>2. (d * e) * q \in Nat /\ d * s \in Nat
    BY <1>2, <1>3
  <2> QED
    BY <1>1, <1>2, <2>1, <2>2
<1>5. d * s + r \in 0 .. d * e - 1
  <2>1. d * s + d <= d * e
    BY <1>2, <1>3, NextMultiple
  <2>2. d * s \in Nat
    BY <1>2, <1>3
  <2> QED
    BY <1>1, <1>3, <2>1, <2>2
<1> DEFINE t == d * s + r
           f == d * e
<1>6. t \in 0 .. f - 1 /\ f \in Nat \ {0} /\ a = f * q + t
  BY <1>3, <1>4, <1>5
<1> HIDE DEF t, f
<1>7. a \div f = q
  BY <1>2, <1>6, Unique
<1> QED
  BY <1>3, <1>7 DEF p, q, f

\* A quotient is smaller than what the number is smaller than multiples of.
LEMMA QuotientBelow ==
    ASSUME NEW a \in Nat, NEW d \in Nat \ {0}, NEW e \in Nat, a < d * e
    PROVE  a \div d \in 0 .. e - 1
<1>1. a \div d \in Nat /\ a % d \in 0 .. d - 1 /\ a = d * (a \div d) + (a % d)
  BY Split
<1> DEFINE p == a \div d
<1> HIDE DEF p
<1>2. ~(e <= p)
  <2> SUFFICES ASSUME e <= p PROVE FALSE
    OBVIOUS
  <2>1. d * e <= d * p /\ d * p \in Nat /\ d * e \in Nat
    BY <1>1, Multiples DEF p
  <2> QED
    BY <1>1, <2>1 DEF p
<1> QED
  BY <1>1, <1>2 DEF p

\* Two digits of a number.
LEMMA TwoDigits ==
    ASSUME NEW a \in Nat, NEW d \in Nat \ {0}
    PROVE  (a % d) + d * ((a \div d) % d) = a % (d * d)
<1> DEFINE dd == d * d
<1>1. d \in Nat \ {0}
  OBVIOUS
<1> DEFINE p1 == a \div d
           p2 == p1 \div d
           r1 == a % d
           r2 == p1 % d
           r  == r1 + d * r2
<1>2. p1 \in Nat /\ r1 \in 0 .. d - 1 /\ a = d * p1 + r1
  BY <1>1, Split
<1> HIDE DEF p1, r1
<1>3. p2 \in Nat /\ r2 \in 0 .. d - 1 /\ p1 = d * p2 + r2
  BY <1>1, <1>2, Split
<1> HIDE DEF p2, r2
<1>4. dd \in Nat \ {0}
  BY <1>1
<1>5. a = dd * p2 + r
  BY <1>1, <1>2, <1>3
<1>6. r \in 0 .. dd - 1
  <2>1. d * r2 + d <= dd /\ d * r2 \in Nat
    BY <1>1, <1>3, NextMultiple
  <2> QED
    BY <1>1, <1>2, <2>1
<1> HIDE DEF r
<1>7. a % dd = r
  BY <1>3, <1>4, <1>5, <1>6, Unique
<1> QED
  BY <1>7 DEF r, p1, r1, r2

\* A quotient by a product, one factor at a time.
LEMMA ThreeQuotients ==
    ASSUME NEW b \in Nat, NEW w \in Nat \ {0}
    PROVE  /\ w * w \in Nat \ {0} /\ w * w * w \in Nat \ {0}
           /\ b \div (w * w) = (b \div w) \div w
           /\ b \div (w * w * w) = ((b \div w) \div w) \div w
<1> DEFINE ww == w * w
<1>1. ww \in Nat \ {0} /\ b \div ww = (b \div w) \div w
  BY DivideTwice
<1> HIDE DEF ww
<1>2. ww * w \in Nat \ {0} /\ b \div (ww * w) = (b \div ww) \div w
  BY <1>1, DivideTwice
<1> QED
  BY <1>1, <1>2 DEF ww

\* A multiple of a sum.
LEMMA Nested ==
    ASSUME NEW w \in Nat, NEW a \in Nat, NEW c \in Nat, NEW d \in Nat, NEW e \in Nat,
           a = w * d + e
    PROVE  w * a + c = c + w * e + (w * w) * d
<1>1. w * (w * d + e) = (w * w) * d + w * e
  OBVIOUS
<1>2. w * a = (w * w) * d + w * e
  BY <1>1
<1>3. (w * w) * d \in Nat /\ w * e \in Nat
  OBVIOUS
<1> QED
  BY <1>2, <1>3

\* A number is made of its digits.
LEMMA FourDigits ==
    ASSUME NEW w \in Nat \ {0}, NEW b \in Nat
    PROVE  LET q1 == b \div w
               q2 == q1 \div w
               q3 == q2 \div w
           IN  /\ q1 \in Nat
               /\ b = (b % w) + w * (q1 % w) + (w * w) * ((q2 % w) + w * q3)
<1> DEFINE q1 == b \div w
           q2 == q1 \div w
           q3 == q2 \div w
           r0 == b % w
           r1 == q1 % w
           r2 == q2 % w
<1> HIDE DEF q1, q2, q3, r0, r1, r2
<1>1. q1 \in Nat
  BY Split DEF q1
<1>2. q2 \in Nat
  BY <1>1, Split DEF q2
<1>3. q3 \in Nat
  BY <1>2, Split DEF q3
<1>4. r0 \in Nat /\ b = w * q1 + r0
  BY Split DEF q1, r0
<1>5. r1 \in Nat /\ q1 = w * q2 + r1
  BY <1>1, Split DEF q2, r1
<1>6. r2 \in Nat /\ q2 = w * q3 + r2
  BY <1>2, Split DEF q3, r2
<1>7. w * q1 + r0 = r0 + w * r1 + (w * w) * q2
  <2>1. w \in Nat
    OBVIOUS
  <2>2. r0 \in Nat /\ r1 \in Nat
    BY <1>4, <1>5
  <2>3. q1 = w * q2 + r1
    BY <1>5
  <2> QED
    BY <1>1, <1>2, <2>1, <2>2, <2>3, Nested
<1>8. q2 = r2 + w * q3
  BY <1>3, <1>6
<1>9. b = r0 + w * r1 + (w * w) * (r2 + w * q3)
  BY <1>4, <1>7, <1>8
<1> QED
  BY <1>1, <1>9 DEF q1, q2, q3, r0, r1, r2

\* A leading digit is not cut.
LEMMA LeadingDigit ==
    ASSUME NEW w \in Nat \ {0}, NEW e \in Nat \ {0}, NEW b \in Nat, b < e * w
    PROVE  (b \div e) % w = b \div e
<1> DEFINE q == b \div e
<1>1. q \in 0 .. w - 1
  BY QuotientBelow
<1> HIDE DEF q
<1>2. w * 0 + q = q /\ (w * 0 + q) % w = q
  BY <1>1, Unique
<1> QED
  BY <1>2 DEF q
\* A number of two digits.
LEMMA LeadingAndLast ==
    ASSUME NEW h \in Nat \ {0}, NEW b \in Nat, b < h * h
    PROVE  /\ (b \div h) % h = b \div h /\ b \div h \in Nat
           /\ b % h \in Nat /\ b = h * (b \div h) + (b % h)
<1>1. (b \div h) % h = b \div h
  BY LeadingDigit
<1>2. b \div h \in Nat /\ b % h \in Nat /\ b = h * (b \div h) + (b % h)
  BY Split
<1> QED
  BY <1>1, <1>2
-----------------------------------------------------------------------------
(* Induction.                                                              *)

\* A set of natural numbers has a least element.
LEMMA LeastElement ==
    ASSUME NEW T, T \subseteq Nat, T # {}
    PROVE  \E m \in T : \A n \in T : m <= n
<1> DEFINE R == OpToRel(<, Nat)
<1>1. IsWellFoundedOn(R, Nat)
  BY NatLessThanWellFounded DEF OpToRel
<1>2. \A x, y \in Nat : x < y => <<x, y>> \in R
  BY DEF OpToRel
<1> HIDE DEF R
<1>3. PICK m \in T : \A n \in T : ~(<<n, m>> \in R)
  BY <1>1, WFMin
<1>4. ASSUME NEW n \in T PROVE m <= n
  <2>1. ~(n < m)
    BY <1>2, <1>3
  <2> QED
    BY <2>1
<1> QED
  BY <1>4

\* What holds of 0, and of a number's successor if of the number, holds of all.
LEMMA Induction ==
    ASSUME NEW S, 0 \in S, \A n \in Nat : n \in S => n + 1 \in S
    PROVE  Nat \subseteq S
<1> DEFINE T == Nat \ S
<1> SUFFICES ASSUME T # {} PROVE FALSE
  OBVIOUS
<1>1. T \subseteq Nat
  OBVIOUS
<1>2. PICK m \in T : \A n \in T : m <= n
  <2> HIDE DEF T
  <2> QED
    BY <1>1, LeastElement
<1>3. m - 1 \in Nat
  OBVIOUS
<1>4. m - 1 \notin T
  <2>1. ~(m <= m - 1)
    BY <1>3
  <2> QED
    BY <1>2, <2>1
<1>5. m - 1 \in S /\ (m - 1) + 1 = m
  BY <1>3, <1>4
<1> QED
  BY <1>3, <1>5

\* The first position of an interval at which something is so.
LEMMA FirstOf ==
    ASSUME NEW i \in Nat, NEW j \in Nat, NEW S, j \in S, i <= j
    PROVE  \E k \in i .. j : k \in S /\ \A l \in i .. k - 1 : l \notin S
<1> DEFINE T == (i .. j) \intersect S
<1>1. T \subseteq Nat /\ T # {}
  OBVIOUS
<1>2. PICK k \in T : \A l \in T : k <= l
  <2> HIDE DEF T
  <2> QED
    BY <1>1, LeastElement
<1>3. ASSUME NEW l \in i .. k - 1 PROVE l \notin S
  <2>1. l \in i .. j /\ ~(k <= l)
    OBVIOUS
  <2> QED
    BY <1>2, <2>1
<1> QED
  BY <1>3

\* The values of f up to the one at n are a and what each step makes of the one before.
Successive(f, a, step, n) == f[0] = a /\ \A k \in 1 .. n : f[k] = step[k][f[k - 1]]

\* A sequence of values, each made from the one before, exists.
LEMMA Recursion ==
    ASSUME NEW V, NEW a \in V, NEW step \in [Nat -> [V -> V]], NEW n \in Nat
    PROVE  \E f \in [0 .. n -> V] : Successive(f, a, step, n)
<1> DEFINE Made(m, f) == f[0] = a /\ \A k \in 1 .. m : f[k] = step[k][f[k - 1]]
           S == {m \in Nat : \E f \in [0 .. m -> V] : Made(m, f)}
<1>1. 0 \in S
  <2> DEFINE f == [k \in 0 .. 0 |-> a]
  <2>1. f \in [0 .. 0 -> V] /\ Made(0, f)
    OBVIOUS
  <2> QED
    BY <2>1
<1>2. ASSUME NEW m \in Nat, m \in S PROVE m + 1 \in S
  <2>1. PICK f \in [0 .. m -> V] : Made(m, f)
    BY <1>2
  <2> DEFINE g == [k \in 0 .. m + 1 |-> IF k = m + 1 THEN step[m + 1][f[m]] ELSE f[k]]
  <2>2. step[m + 1] \in [V -> V] /\ f[m] \in V
    OBVIOUS
  <2>3. step[m + 1][f[m]] \in V
    BY <2>2
  <2>4. g \in [0 .. m + 1 -> V]
    <3>1. ASSUME NEW k \in 0 .. m + 1, k # m + 1 PROVE f[k] \in V
      BY <3>1
    <3> QED
      BY <2>3, <3>1
  <2>5. g[0] = a
    BY <2>1
  <2>6. ASSUME NEW k \in 1 .. m + 1 PROVE g[k] = step[k][g[k - 1]]
    <3>1. k - 1 \in 0 .. m /\ k - 1 # m + 1
      OBVIOUS
    <3>2. g[k - 1] = f[k - 1]
      BY <3>1
    <3>3. CASE k = m + 1
      BY <3>2, <3>3
    <3>4. CASE k # m + 1
      <4>1. k \in 1 .. m
        BY <3>4
      <4> QED
        BY <2>1, <3>2, <3>4, <4>1
    <3> QED
      BY <3>3, <3>4
  <2> HIDE DEF g
  <2>7. \E h \in [0 .. m + 1 -> V] : Made(m + 1, h)
    BY <2>4, <2>5, <2>6
  <2> QED
    BY <2>7
<1>3. Nat \subseteq S
  <2> HIDE DEF S
  <2> QED
    BY <1>1, <1>2, Induction
<1>4. \E f \in [0 .. n -> V] : Made(n, f)
  BY <1>3
<1> QED
  BY <1>4 DEF Successive

\* Two sequences of values that are made in the same way are the same.
LEMMA OneSequence ==
    ASSUME NEW a, NEW step, NEW n \in Nat,
           NEW f, Successive(f, a, step, n), NEW g, Successive(g, a, step, n)
    PROVE  \A k \in 0 .. n : f[k] = g[k]
<1> DEFINE S == {k \in Nat : k <= n => f[k] = g[k]}
<1>1. 0 \in S
  BY DEF Successive
<1>2. ASSUME NEW k \in Nat, k \in S PROVE k + 1 \in S
  <2>1. CASE k + 1 <= n
    <3>1. k + 1 \in 1 .. n /\ (k + 1) - 1 = k /\ f[k] = g[k]
      BY <1>2, <2>1
    <3>2. f[k + 1] = step[k + 1][f[(k + 1) - 1]] /\ g[k + 1] = step[k + 1][g[(k + 1) - 1]]
      BY <3>1 DEF Successive
    <3> QED
      BY <3>1, <3>2
  <2> QED
    BY <2>1
<1>3. Nat \subseteq S
  <2> HIDE DEF S
  <2> QED
    BY <1>1, <1>2, Induction
<1> QED
  BY <1>3

\* A value for every number, a the first and each made from the one before.
Endless(f, a, step) == f[0] = a /\ \A k \in Nat : f[k + 1] = step[k + 1][f[k]]

LEMMA EndlessRecursion ==
    ASSUME NEW V, NEW a \in V, NEW step \in [Nat -> [V -> V]]
    PROVE  \E f \in [Nat -> V] : Endless(f, a, step)
<1> DEFINE F(n) == CHOOSE f \in [0 .. n -> V] : Successive(f, a, step, n)
           g == [n \in Nat |-> F(n)[n]]
<1>1. ASSUME NEW n \in Nat PROVE F(n) \in [0 .. n -> V] /\ Successive(F(n), a, step, n)
  <2>1. \E f \in [0 .. n -> V] : Successive(f, a, step, n)
    BY Recursion
  <2> QED
    BY <2>1
<1> HIDE DEF F
<1>2. ASSUME NEW n \in Nat PROVE F(n)[n] \in V
  BY <1>1
<1>3. g \in [Nat -> V]
  BY <1>2
<1>4. g[0] = a
  BY <1>1 DEF Successive
<1>5. ASSUME NEW n \in Nat PROVE g[n + 1] = step[n + 1][g[n]]
  <2>1. n + 1 \in Nat /\ n + 1 \in 1 .. n + 1 /\ (n + 1) - 1 = n /\ n \in 0 .. n
    OBVIOUS
  <2>2. Successive(F(n + 1), a, step, n + 1)
    BY <1>1, <2>1
  <2>3. Successive(F(n + 1), a, step, n)
    <3>1. \A k \in 1 .. n : k \in 1 .. n + 1
      OBVIOUS
    <3> QED
      BY <2>2, <3>1 DEF Successive
  <2>4. Successive(F(n), a, step, n)
    BY <1>1
  <2>5. F(n + 1)[n] = F(n)[n]
    BY <2>1, <2>3, <2>4, OneSequence
  <2>6. F(n + 1)[n + 1] = step[n + 1][F(n + 1)[(n + 1) - 1]]
    BY <2>1, <2>2 DEF Successive
  <2> QED
    BY <2>1, <2>5, <2>6
<1> HIDE DEF g
<1> QED
  BY <1>3, <1>4, <1>5 DEF Endless
=============================================================================
