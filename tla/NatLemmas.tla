----------------------------- MODULE NatLemmas ------------------------------
(***************************************************************************)
(* Facts about natural numbers that the proofs of several components use:  *)
(* the least element of a set, from which induction over data is done by   *)
(* the least counterexample, and quotients and remainders.                 *)
(***************************************************************************)
EXTENDS Naturals, WellFoundedInduction, TLAPS

\* A non-empty set of naturals has a least element.
LEMMA LeastNat ==
  ASSUME NEW T \in SUBSET Nat, T # {}
  PROVE  \E x \in T : \A y \in T : x <= y
<1> DEFINE R == OpToRel(<, Nat)
<1>1. IsWellFoundedOn(R, Nat)
  BY NatLessThanWellFounded
<1>2. \A y, x \in Nat : <<y, x>> \in R <=> y < x
  BY DEF OpToRel
<1> HIDE DEF R
<1>3. PICK x \in T : \A y \in T : <<y, x>> \notin R
  BY <1>1, WFMin
<1>4. ASSUME NEW y \in T PROVE x <= y
  <2>1. ~ (y < x)
    BY <1>2, <1>3
  <2> QED BY <2>1
<1> QED BY <1>4

\* A function on the naturals may be defined by recursion, each value from the
\* one before it.
Iterates(f, x0, G) == f[0] = x0 /\ \A n \in Nat : f[n + 1] = G[n][f[n]]

LEMMA Recursion ==
  ASSUME NEW X, NEW x0 \in X, NEW G \in [Nat -> [X -> X]]
  PROVE  \E f \in [Nat -> X] : Iterates(f, x0, G)
<1> DEFINE Good(n, g) == /\ g \in [0 .. n -> X] /\ g[0] = x0
                         /\ \A i \in 0 .. n - 1 : g[i + 1] = G[i][g[i]]
<1>1. \A n \in Nat : \E g : Good(n, g)
  <2> DEFINE T == {n \in Nat : ~ \E g : Good(n, g)}
  <2> SUFFICES ASSUME T # {} PROVE FALSE
    OBVIOUS
  <2>0. PICK n \in T : \A m \in T : n <= m
    BY T \in SUBSET Nat, LeastNat
  <2> HIDE DEF Good
  <2>1. n \in Nat /\ ~(\E g : Good(n, g)) /\ \A m \in Nat : ~(\E g : Good(m, g)) => n <= m
    BY <2>0
  <2> USE DEF Good
  <2>2. CASE n = 0
    <3>1. Good(0, [i \in 0 .. 0 |-> x0])
      OBVIOUS
    <3> QED BY <2>1, <2>2, <3>1
  <2>3. CASE n # 0
    <3>1. n - 1 \in Nat /\ ~(n <= n - 1)
      BY <2>3
    <3>2. PICK g : Good(n - 1, g)
      BY <2>1, <3>1
    <3> DEFINE h == [i \in 0 .. n |-> IF i = n THEN G[n - 1][g[n - 1]] ELSE g[i]]
    <3>3. h \in [0 .. n -> X]
      BY <3>1, <3>2
    <3>4. h[0] = x0
      BY <2>3, <3>2
    <3>5. ASSUME NEW i \in 0 .. n - 1 PROVE h[i + 1] = G[i][h[i]]
      <4>1. h[i] = g[i]
        BY <3>1
      <4>2. CASE i = n - 1
        <5>1. i + 1 = n /\ n \in 0 .. n
          BY <3>1, <4>2
        <5>2. h[n] = G[n - 1][g[n - 1]]
          BY <5>1
        <5> QED BY <4>1, <4>2, <5>1, <5>2
      <4>3. CASE i # n - 1
        <5>1. i \in 0 .. (n - 1) - 1 /\ i + 1 # n /\ i + 1 \in 0 .. n
          BY <3>1, <4>3
        <5>2. g[i + 1] = G[i][g[i]]
          BY <3>2, <5>1
        <5> QED BY <4>1, <5>1, <5>2
      <4> QED BY <4>2, <4>3
    <3> HIDE DEF h
    <3>6. Good(n, h)
      BY <3>3, <3>4, <3>5
    <3> QED BY <2>1, <3>6
  <2> QED BY <2>2, <2>3
<1>2. ASSUME NEW n \in Nat, NEW m \in Nat, n <= m, NEW g, NEW h, Good(n, g), Good(m, h)
      PROVE  g[n] = h[n]
  <2> SUFFICES ASSUME g[n] # h[n] PROVE FALSE
    OBVIOUS
  <2> DEFINE T == {i \in 0 .. n : g[i] # h[i]}
  <2>1. T \in SUBSET Nat /\ T # {}
    OBVIOUS
  <2>2. PICK i \in T : \A j \in T : i <= j
    BY <2>1, LeastNat
  <2>3. i # 0
    BY <1>2, <2>2
  <2>4. i - 1 \in 0 .. n - 1 /\ i - 1 \in 0 .. m - 1 /\ ~(i <= i - 1) /\ (i - 1) + 1 = i
    BY <1>2, <2>2, <2>3
  <2>5. g[i - 1] = h[i - 1]
    BY <2>2, <2>4
  <2>6. g[i] = G[i - 1][g[i - 1]] /\ h[i] = G[i - 1][h[i - 1]]
    BY <1>2, <2>4
  <2> QED BY <2>2, <2>5, <2>6
<1> DEFINE Chosen(n) == CHOOSE g : Good(n, g)
           f == [n \in Nat |-> Chosen(n)[n]]
<1>3. \A n \in Nat : Good(n, Chosen(n))
  BY <1>1
<1> HIDE DEF Chosen
<1>4. f \in [Nat -> X]
  BY <1>3
<1>5. f[0] = x0
  BY <1>3
<1>6. ASSUME NEW n \in Nat PROVE f[n + 1] = G[n][f[n]]
  <2>1. Good(n, Chosen(n)) /\ Good(n + 1, Chosen(n + 1)) /\ n + 1 \in Nat /\ n <= n + 1
    BY <1>3
  <2> HIDE DEF Good
  <2>2. Chosen(n)[n] = Chosen(n + 1)[n]
    BY <1>2, <2>1
  <2> USE DEF Good
  <2>3. n \in 0 .. (n + 1) - 1
    OBVIOUS
  <2>4. Chosen(n + 1)[n + 1] = G[n][Chosen(n + 1)[n]]
    BY <2>1, <2>3
  <2> QED BY <2>1, <2>2, <2>4
<1> QED BY <1>4, <1>5, <1>6 DEF Iterates

-----------------------------------------------------------------------------
\* A number is made of its halves.
LEMMA Halves ==
  ASSUME NEW h \in Nat, h > 0, NEW x \in Nat
  PROVE  /\ x = (x \div h) * h + (x % h)
         /\ x \div h \in Nat /\ x % h \in 0 .. h - 1
  OBVIOUS

\* Products with a larger factor are larger.
LEMMA TimesMonotone ==
  ASSUME NEW h \in Nat, NEW a \in Nat, NEW b \in Nat, a <= b
  PROVE  a * h <= b * h
<1>1. PICK d \in Nat : b = a + d
  BY b - a \in Nat
<1>2. b * h = a * h + d * h /\ d * h \in Nat /\ a * h \in Nat
  BY <1>1
<1> QED BY <1>2

\* The halves of a number are determined by it.
LEMMA HalvesUnique ==
  ASSUME NEW h \in Nat, h > 0, NEW q \in Nat, NEW r \in 0 .. h - 1
  PROVE  /\ (q * h + r) \div h = q
         /\ (q * h + r) % h = r
<1> DEFINE x == q * h + r
           k == x \div h
           m == x % h
<1>1. x \in Nat
  OBVIOUS
<1>2. x = k * h + m /\ k \in Nat /\ m \in 0 .. h - 1
  BY <1>1, Halves
<1>3. q * h \in Nat /\ k * h \in Nat
  BY <1>2
<1> HIDE DEF k, m
<1>4. ~(k < q)
  <2> SUFFICES ASSUME k < q PROVE FALSE
    OBVIOUS
  <2>1. (k + 1) * h <= q * h
    BY <1>2, TimesMonotone
  <2>2. (k + 1) * h = k * h + h
    BY <1>2
  <2> QED BY <1>2, <1>3, <2>1, <2>2
<1>5. ~(q < k)
  <2> SUFFICES ASSUME q < k PROVE FALSE
    OBVIOUS
  <2>1. (q + 1) * h <= k * h
    BY <1>2, TimesMonotone
  <2>2. (q + 1) * h = q * h + h
    OBVIOUS
  <2> QED BY <1>2, <1>3, <2>1, <2>2
<1>6. k = q
  BY <1>2, <1>4, <1>5
<1>7. m = r
  BY <1>2, <1>3, <1>6
<1> QED BY <1>6, <1>7 DEF k, m

\* The high half grows with the number.
LEMMA HighMonotone ==
  ASSUME NEW h \in Nat, h > 0, NEW x \in Nat, NEW y \in Nat, x <= y
  PROVE  x \div h <= y \div h
<1> SUFFICES ASSUME ~(x \div h <= y \div h) PROVE FALSE
  OBVIOUS
<1> DEFINE a == x \div h
           b == y \div h
<1>1. /\ x = a * h + (x % h) /\ a \in Nat /\ x % h \in 0 .. h - 1
      /\ y = b * h + (y % h) /\ b \in Nat /\ y % h \in 0 .. h - 1
  BY Halves
<1>2. ~(a <= b)
  OBVIOUS
<1> HIDE DEF a, b
<1>3. (b + 1) * h <= a * h
  BY <1>1, <1>2, TimesMonotone
<1>4. (b + 1) * h = b * h + h /\ b * h \in Nat /\ a * h \in Nat
  BY <1>1
<1> QED BY <1>1, <1>3, <1>4

\* Numbers below a modulus are their own remainders.
LEMMA SmallMod ==
  ASSUME NEW m \in Nat, NEW x \in Nat, x < m
  PROVE  x % m = x
<1>1. (0 * m + x) % m = x
  BY HalvesUnique
<1> QED BY <1>1
=============================================================================
