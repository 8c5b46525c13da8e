----------------------------- MODULE Arithmetic -----------------------------
(***************************************************************************)
(* What the proofs about data rest on: induction, recursive functions, and *)
(* division with remainder.                                                *)
(***************************************************************************)
EXTENDS Integers, TLAPS, WellFoundedInduction

(* Induction over the naturals, for a set in place of a predicate: a       *)
(* natural outside the set would have a least one.                         *)
LEMMA SetInduction ==
  ASSUME NEW S, 0 \in S, \A n \in Nat : n \in S => n + 1 \in S
  PROVE  Nat \subseteq S
<1> DEFINE R == {ss \in Nat \X Nat : ss[1] < ss[2]}
           T == Nat \ S
<1> SUFFICES ASSUME T # {} PROVE FALSE
  OBVIOUS
<1>1. IsWellFoundedOn(R, Nat)
  BY NatLessThanWellFounded DEF OpToRel
<1>2. PICK x \in T : \A y \in T : <<y, x>> \notin R
  <2> HIDE DEF R
  <2> QED BY <1>1, WFMin
<1>3. x - 1 \in T /\ <<x - 1, x>> \in R
  OBVIOUS
<1> QED BY <1>2, <1>3

(* Induction up to a bound.                                                *)
LEMMA BoundedInduction ==
  ASSUME NEW S, NEW N \in Nat, 0 \in S, \A n \in 0 .. N - 1 : n \in S => n + 1 \in S
  PROVE  0 .. N \subseteq S
<1> DEFINE T == {n \in Nat : n <= N => n \in S}
<1>1. 0 \in T
  OBVIOUS
<1>2. \A n \in Nat : n \in T => n + 1 \in T
  <2> SUFFICES ASSUME NEW n \in Nat, n \in T, n + 1 <= N PROVE n + 1 \in S
    OBVIOUS
  <2> QED OBVIOUS
<1> HIDE DEF T
<1>3. Nat \subseteq T
  BY ONLY <1>1, <1>2, SetInduction
<1> QED BY <1>3 DEF T

(* A function defined by recursion up to a bound exists.                   *)
LEMMA BoundedRecursion ==
  ASSUME NEW N \in Nat, NEW base \in Nat, NEW step \in [0 .. N - 1 -> [Nat -> Nat]]
  PROVE  \E f \in [0 .. N -> Nat] :
           f[0] = base /\ \A n \in 0 .. N - 1 : f[n + 1] = step[n][f[n]]
<1> DEFINE Solves(f, m) == /\ f \in [0 .. m -> Nat]
                           /\ \A n \in 0 .. m : f[n] = IF n = 0 THEN base ELSE step[n - 1][f[n - 1]]
           S == {m \in Nat : \E f : Solves(f, m)}
<1>1. 0 \in S
  <2>1. Solves([n \in 0 .. 0 |-> base], 0)
    OBVIOUS
  <2> HIDE DEF Solves
  <2> QED BY <2>1
<1>2. ASSUME NEW m \in 0 .. N - 1, m \in S PROVE m + 1 \in S
  <2>1. PICK f : Solves(f, m)
    BY <1>2
  <2> DEFINE next == step[m][f[m]]
             g == [n \in 0 .. m + 1 |-> IF n = m + 1 THEN next ELSE f[n]]
  <2>2. next \in Nat
    BY <2>1
  <2>3. g \in [0 .. m + 1 -> Nat]
    BY <2>1, <2>2
  <2>4. ASSUME NEW n \in 0 .. m + 1
        PROVE  g[n] = IF n = 0 THEN base ELSE step[n - 1][g[n - 1]]
    <3>1. CASE n = m + 1
      <4>1. n - 1 = m /\ m \in 0 .. m + 1 /\ m # m + 1 /\ n # 0
        BY <3>1
      <4> QED BY <3>1, <4>1
    <3>2. CASE n # m + 1 /\ n # 0
      <4>1. n \in 0 .. m /\ n - 1 \in 0 .. m + 1 /\ n - 1 # m + 1
        BY <3>2
      <4> QED BY <2>1, <3>2, <4>1
    <3>3. CASE n = 0
      <4>1. n \in 0 .. m /\ n # m + 1
        BY <3>3
      <4> QED BY <2>1, <3>3, <4>1
    <3> QED BY <3>1, <3>2, <3>3
  <2>5. Solves(g, m + 1)
    <3> HIDE DEF g
    <3> QED BY <2>3, <2>4
  <2> HIDE DEF Solves, g
  <2> QED BY <2>5
<1>3. N \in S
  <2> HIDE DEF S
  <2>1. 0 .. N \subseteq S
    BY ONLY <1>1, <1>2, BoundedInduction, N \in Nat
  <2> QED BY <2>1
<1>4. PICK f : Solves(f, N)
  BY <1>3
<1>5. f[0] = base
  BY <1>4
<1>6. ASSUME NEW n \in 0 .. N - 1 PROVE f[n + 1] = step[n][f[n]]
  <2>1. n + 1 \in 0 .. N /\ n + 1 # 0 /\ (n + 1) - 1 = n
    OBVIOUS
  <2> QED BY <1>4, <2>1
<1> QED BY <1>4, <1>5, <1>6

-----------------------------------------------------------------------------
(* Division with remainder.                                                *)

(* Multiples of D are D apart.                                            *)
LEMMA Products ==
  ASSUME NEW D \in Nat \ {0}, NEW a \in Int, NEW b \in Int, a < b
  PROVE  D * a + D <= D * b
<1> DEFINE k == b - a - 1
<1>1. k \in Nat /\ b = a + 1 + k
  OBVIOUS
<1> HIDE DEF k
<1>2. D * b = D * a + D + D * k
  BY <1>1
<1>3. D * k >= 0
  BY <1>1
<1>4. D * a \in Int /\ D * b \in Int /\ D * k \in Int
  BY <1>1
<1> QED BY <1>2, <1>3, <1>4

LEMMA DivIsUnique ==
  ASSUME NEW D \in Nat \ {0}, NEW q \in Int, NEW r \in 0 .. D - 1
  PROVE  (D * q + r) \div D = q /\ (D * q + r) % D = r
<1> DEFINE v == D * q + r
           p == v \div D
           s == v % D
<1>1. v \in Int /\ p \in Int /\ s \in 0 .. D - 1 /\ v = D * p + s
  OBVIOUS
<1>2. v = D * q + r
  OBVIOUS
<1> HIDE DEF v, p, s
<1>3. D * q \in Int /\ D * p \in Int
  BY <1>1
<1>4. p = q
  <2>1. CASE p < q
    <3>1. D * p + D <= D * q
      BY <1>1, <2>1, Products
    <3> QED BY ONLY <1>1, <1>2, <1>3, <3>1, r \in 0 .. D - 1, D \in Nat \ {0}
  <2>2. CASE q < p
    <3>1. D * q + D <= D * p
      BY <1>1, <2>2, Products
    <3> QED BY ONLY <1>1, <1>2, <1>3, <3>1, r \in 0 .. D - 1, D \in Nat \ {0}
  <2> QED BY ONLY <1>1, <2>1, <2>2, q \in Int
<1>5. s = r
  BY ONLY <1>1, <1>2, <1>3, <1>4, r \in 0 .. D - 1
<1> QED BY <1>4, <1>5 DEF v, p, s

(* A shift by two places at once.                                          *)
LEMMA DivByProduct ==
  ASSUME NEW B \in Nat \ {0}, NEW C \in Nat \ {0}, NEW v \in Int
  PROVE  v \div (B * C) = (v \div B) \div C
<1> DEFINE q1 == v \div B
           r1 == v % B
           q2 == q1 \div C
           r2 == q1 % C
<1>1. q1 \in Int /\ r1 \in 0 .. B - 1 /\ v = B * q1 + r1
  OBVIOUS
<1>2. q2 \in Int /\ r2 \in 0 .. C - 1 /\ q1 = C * q2 + r2
  BY <1>1
<1> HIDE DEF q1, r1, q2, r2
<1>3. B * C \in Nat \ {0} /\ B * r2 + r1 \in Nat
  BY <1>1, <1>2
<1>4. v = (B * C) * q2 + (B * r2 + r1)
  BY <1>1, <1>2
<1>5. B * r2 + r1 < B * C
  <2>1. B * r2 + B <= B * C
    BY <1>2, Products
  <2> QED BY <1>1, <1>2, <1>3, <2>1
<1>6. v \div (B * C) = q2
  <2> DEFINE D == B * C  s == B * r2 + r1
  <2>1. D \in Nat \ {0} /\ s \in 0 .. D - 1
    BY <1>3, <1>5
  <2> HIDE DEF D, s
  <2>2. v = D * q2 + s
    BY <1>4 DEF D, s
  <2> QED BY <1>2, <2>1, <2>2, DivIsUnique DEF D
<1> QED BY <1>6 DEF q1, q2

(* The quotient and the remainder, and how an added multiple moves them.   *)
LEMMA DivMod ==
  ASSUME NEW D \in Nat \ {0}, NEW v \in Int
  PROVE  v \div D \in Int /\ v % D \in 0 .. D - 1 /\ v = D * (v \div D) + (v % D)
<1> DEFINE q == v \div D
           r == v % D
<1>1. q \in Int /\ r \in 0 .. D - 1 /\ v = D * q + r
  OBVIOUS
<1> QED BY <1>1

LEMMA AddMultiple ==
  ASSUME NEW D \in Nat \ {0}, NEW v \in Int, NEW k \in Int
  PROVE  (v + D * k) \div D = (v \div D) + k /\ (v + D * k) % D = v % D
<1> DEFINE q == v \div D
           r == v % D
<1>1. q \in Int /\ r \in 0 .. D - 1 /\ v = D * q + r
  BY DivMod
<1> HIDE DEF q, r
<1>2. v + D * k = D * (q + k) + r /\ q + k \in Int
  BY <1>1
<1>3. (D * (q + k) + r) \div D = q + k /\ (D * (q + k) + r) % D = r
  <2> DEFINE p == q + k
  <2>1. p \in Int
    BY <1>2
  <2> HIDE DEF p
  <2> QED BY <1>1, <2>1, DivIsUnique DEF p
<1> QED BY <1>2, <1>3 DEF q, r

LEMMA DivOfProduct ==
  ASSUME NEW D \in Nat \ {0}, NEW v \in Int
  PROVE  (v * D) \div D = v /\ (v * D) % D = 0
<1>1. 0 \in 0 .. D - 1 /\ v * D = D * v + 0
  OBVIOUS
<1> QED BY <1>1, DivIsUnique

LEMMA SmallMod ==
  ASSUME NEW D \in Nat \ {0}, NEW v \in 0 .. D - 1
  PROVE  v \div D = 0 /\ v % D = v
OBVIOUS

(* What is below a product divides to what is below the other factor.      *)
LEMMA DivBelow ==
  ASSUME NEW D \in Nat \ {0}, NEW C \in Nat \ {0}, NEW v \in Nat, v < D * C
  PROVE  v \div D \in 0 .. C - 1
<1> DEFINE q == v \div D
           r == v % D
<1>1. q \in Int /\ r \in 0 .. D - 1 /\ v = D * q + r
  BY DivMod
<1> HIDE DEF q, r
<1>2. q < C
  <2> SUFFICES ASSUME C <= q PROVE FALSE
    BY <1>1
  <2>1. D * C <= D * q
    <3>1. CASE C = q
      BY <1>1, <3>1
    <3>2. CASE C < q
      <4>1. D * C + D <= D * q
        BY <1>1, <3>2, Products
      <4> QED BY <1>1, <4>1
    <3> QED BY <1>1, <3>1, <3>2
  <2>2. D * C \in Int /\ D * q \in Int
    BY <1>1
  <2> QED BY ONLY <1>1, <2>1, <2>2, v < D * C
<1>3. q >= 0
  <2> SUFFICES ASSUME q < 0 PROVE FALSE
    BY <1>1
  <2>1. D * q + D <= D * 0
    BY <1>1, Products
  <2>2. D * q \in Int
    BY <1>1
  <2> QED BY ONLY <1>1, <2>1, <2>2, v \in Nat, D \in Nat
<1> QED BY <1>1, <1>2, <1>3 DEF q

(* A remainder by a product keeps the remainder by a factor, and its       *)
(* quotient is the remainder of the quotient.                              *)
LEMMA ModOfProduct ==
  ASSUME NEW D \in Nat \ {0}, NEW C \in Nat \ {0}, NEW v \in Int
  PROVE  /\ (v % (D * C)) % D = v % D
         /\ (v % (D * C)) \div D = (v \div D) % C
<1> DEFINE q == v \div D
           r == v % D
           p == q \div C
           s == q % C
<1>1. q \in Int /\ r \in 0 .. D - 1 /\ v = D * q + r
  BY DivMod
<1>2. p \in Int /\ s \in 0 .. C - 1 /\ q = C * p + s
  BY <1>1, DivMod
<1> HIDE DEF q, r, p, s
<1> DEFINE m == D * s + r
           DC == D * C
<1>3. DC \in Nat \ {0} /\ m \in 0 .. DC - 1
  <2>1. D * s + D <= D * C
    BY <1>2, Products
  <2>2. D * s \in Nat /\ D * C \in Nat \ {0}
    BY <1>2
  <2> QED BY ONLY <1>1, <2>1, <2>2, D \in Nat
<1>4. v = DC * p + m
  BY <1>1, <1>2
<1> HIDE DEF DC
<1>5. v % DC = m
  <2> HIDE DEF m
  <2> QED BY <1>2, <1>3, <1>4, DivIsUnique
<1>6. m % D = r /\ m \div D = s
  <2>1. s \in Int
    BY <1>2
  <2> QED BY <1>1, <2>1, DivIsUnique
<1> QED BY <1>5, <1>6 DEF DC, q, r, s
=============================================================================
