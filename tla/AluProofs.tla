----------------------------- MODULE AluProofs ------------------------------
(***************************************************************************)
(* Proofs about AluUnit, for registers of any width that is a power of two *)
(* and bytes of any size that divides it: what the loops, masks, shifts    *)
(* and conversions of the callbacks compute, for every operand, and that   *)
(* it meets the assumptions of Hart.                                       *)
(***************************************************************************)
EXTENDS AluUnit, Arithmetic, FiniteSetTheorems

(* The powers of two.                                                      *)

LEMMA PowerSteps ==
  /\ XLen \in Nat \ {0}
  /\ Pow2[0] = 1
  /\ \A n \in 0 .. XLen - 1 : Pow2[n + 1] = 2 * Pow2[n]
  /\ \A n \in 0 .. XLen : Pow2[n] \in Nat \ {0}
<1> DEFINE step == [n \in 0 .. XLen - 1 |-> [v \in Nat |-> 2 * v]]
           Solves(f) == f = [n \in 0 .. XLen |-> IF n = 0 THEN 1 ELSE 2 * f[n - 1]]
           P == Pow2
<1>0. XLen \in Nat \ {0}
  BY WidthAssumption
<1>1. \E f : Solves(f)
  <2>1. XLen \in Nat /\ 1 \in Nat /\ step \in [0 .. XLen - 1 -> [Nat -> Nat]]
    BY <1>0
  <2>2. PICK f \in [0 .. XLen -> Nat] :
          f[0] = 1 /\ \A n \in 0 .. XLen - 1 : f[n + 1] = step[n][f[n]]
    <3> HIDE DEF step
    <3> QED BY ONLY <2>1, BoundedRecursion
  <2>3. ASSUME NEW n \in 0 .. XLen
        PROVE  f[n] = IF n = 0 THEN 1 ELSE 2 * f[n - 1]
    <3>1. CASE n = 0
      BY <2>2, <3>1
    <3>2. CASE n # 0
      <4>1. n - 1 \in 0 .. XLen - 1 /\ n - 1 \in 0 .. XLen /\ (n - 1) + 1 = n
        BY <1>0, <3>2
      <4>2. f[(n - 1) + 1] = step[n - 1][f[n - 1]]
        BY <2>2, <4>1
      <4>3. step[n - 1][f[n - 1]] = 2 * f[n - 1]
        BY <2>2, <4>1
      <4> QED BY <3>2, <4>1, <4>2, <4>3
    <3> QED BY <3>1, <3>2
  <2>4. Solves(f)
    BY <2>3
  <2> QED BY <2>4
<1>2. Solves(P)
  BY <1>1 DEF Pow2
<1> HIDE DEF P
<1>3. P[0] = 1
  BY <1>0, <1>2
<1>4. ASSUME NEW n \in 0 .. XLen - 1 PROVE P[n + 1] = 2 * P[n]
  <2>1. n + 1 \in 0 .. XLen /\ n + 1 # 0 /\ (n + 1) - 1 = n
    BY <1>0
  <2> QED BY <1>2, <2>1
<1>5. \A n \in 0 .. XLen : P[n] \in Nat \ {0}
  <2> DEFINE S == {n \in Nat : P[n] \in Nat \ {0}}
  <2>1. 0 \in S
    BY <1>3
  <2>2. \A n \in 0 .. XLen - 1 : n \in S => n + 1 \in S
    BY <1>4
  <2> HIDE DEF S
  <2>3. 0 .. XLen \subseteq S
    BY <1>0, <2>1, <2>2, BoundedInduction
  <2> QED BY <2>3 DEF S
<1> QED BY <1>0, <1>3, <1>4, <1>5 DEF P

LEMMA PowerOfSum ==
  ASSUME NEW m \in 0 .. XLen, NEW n \in 0 .. XLen - m
  PROVE  Pow2[m + n] = Pow2[m] * Pow2[n] /\ m + n \in 0 .. XLen /\ n \in 0 .. XLen
<1> DEFINE P == Pow2
           S == {k \in Nat : P[m + k] = P[m] * P[k]}
<1>1. /\ XLen \in Nat \ {0} /\ P[0] = 1 /\ \A k \in 0 .. XLen - 1 : P[k + 1] = 2 * P[k]
      /\ \A k \in 0 .. XLen : P[k] \in Nat \ {0}
  BY PowerSteps
<1> HIDE DEF P
<1>2. 0 \in S
  <2>1. m + 0 = m /\ P[m] \in Nat
    BY ONLY <1>1, m \in 0 .. XLen
  <2> QED BY <1>1, <2>1
<1>3. ASSUME NEW k \in 0 .. (XLen - m) - 1, k \in S PROVE k + 1 \in S
  <2>1. /\ m + k \in 0 .. XLen - 1 /\ k \in 0 .. XLen - 1 /\ m + (k + 1) = (m + k) + 1
        /\ k \in 0 .. XLen /\ k \in Nat
    BY ONLY <1>1, m \in 0 .. XLen, k \in 0 .. (XLen - m) - 1
  <2>2. P[m] \in Nat /\ P[k] \in Nat
    BY ONLY <1>1, <2>1, m \in 0 .. XLen
  <2>3. P[m + (k + 1)] = 2 * (P[m] * P[k])
    BY <1>1, <1>3, <2>1
  <2>4. P[m] * P[k + 1] = P[m] * (2 * P[k])
    BY <1>1, <2>1
  <2>5. P[m] * (2 * P[k]) = 2 * (P[m] * P[k])
    BY ONLY <2>2
  <2> QED BY ONLY <2>1, <2>3, <2>4, <2>5
<1>4. XLen - m \in Nat /\ m + n \in 0 .. XLen /\ n \in 0 .. XLen
  BY ONLY <1>1, m \in 0 .. XLen, n \in 0 .. XLen - m
<1>5. 0 .. XLen - m \subseteq S
  <2> HIDE DEF S
  <2> QED BY ONLY <1>2, <1>3, <1>4, BoundedInduction
<1> QED BY <1>4, <1>5 DEF P

LEMMA PowersGrow ==
  ASSUME NEW m \in 0 .. XLen, NEW n \in m .. XLen
  PROVE  Pow2[m] <= Pow2[n]
<1>1. n - m \in 0 .. XLen - m /\ m + (n - m) = n
  BY PowerSteps
<1>2. Pow2[n] = Pow2[m] * Pow2[n - m] /\ n - m \in 0 .. XLen
  BY <1>1, PowerOfSum
<1>3. Pow2[m] \in Nat /\ Pow2[n - m] \in Nat \ {0}
  BY <1>2, PowerSteps
<1> DEFINE a == Pow2[m]
           b == Pow2[n - m]
<1> HIDE DEF a, b
<1>4. a <= a * b
  <2>1. a \in Nat /\ b - 1 \in Nat /\ b = 1 + (b - 1)
    BY <1>3 DEF a, b
  <2>2. a * b = a + a * (b - 1) /\ a * (b - 1) >= 0
    BY ONLY <2>1
  <2>3. a * (b - 1) \in Int
    BY ONLY <2>1
  <2> QED BY ONLY <2>1, <2>2, <2>3
<1> QED BY <1>2, <1>4 DEF a, b

LEMMA BelowPower ==
  ASSUME NEW n \in 0 .. XLen
  PROVE  n < Pow2[n]
<1> DEFINE P == Pow2
           S == {k \in Nat : k < P[k]}
<1>1. /\ XLen \in Nat \ {0} /\ P[0] = 1 /\ \A k \in 0 .. XLen - 1 : P[k + 1] = 2 * P[k]
      /\ \A k \in 0 .. XLen : P[k] \in Nat \ {0}
  BY PowerSteps
<1> HIDE DEF P
<1>2. 0 \in S
  BY <1>1
<1>3. ASSUME NEW k \in 0 .. XLen - 1, k \in S PROVE k + 1 \in S
  <2>1. P[k + 1] = 2 * P[k] /\ P[k] \in Nat /\ k < P[k] /\ k \in Nat
    BY <1>1, <1>3
  <2> QED BY ONLY <2>1
<1>4. 0 .. XLen \subseteq S
  <2> HIDE DEF S
  <2> QED BY ONLY <1>1, <1>2, <1>3, BoundedInduction
<1> QED BY <1>4 DEF P

-----------------------------------------------------------------------------
(* Words and their bits.                                                   *)

LowSum(S) ==
  LET sum[n \in 0 .. XLen] ==
        IF n = 0 THEN 0 ELSE sum[n - 1] + (IF n - 1 \in S THEN Pow2[n - 1] ELSE 0)
  IN  sum

LEMMA SumSteps ==
  ASSUME NEW S
  PROVE  /\ LowSum(S)[0] = 0
         /\ \A n \in 0 .. XLen - 1 :
              LowSum(S)[n + 1] = LowSum(S)[n] + (IF n \in S THEN Pow2[n] ELSE 0)
         /\ \A n \in 0 .. XLen : LowSum(S)[n] \in 0 .. Pow2[n] - 1
<1> DEFINE term(n) == IF n \in S THEN Pow2[n] ELSE 0
           step == [n \in 0 .. XLen - 1 |-> [v \in Nat |-> v + term(n)]]
           Solves(f) == f = [n \in 0 .. XLen |->
                               IF n = 0 THEN 0
                               ELSE f[n - 1] + (IF n - 1 \in S THEN Pow2[n - 1] ELSE 0)]
           L == LowSum(S)
<1>0. /\ XLen \in Nat \ {0} /\ XLen \in Nat /\ Pow2[0] = 1
      /\ \A n \in 0 .. XLen - 1 : Pow2[n + 1] = 2 * Pow2[n]
      /\ \A n \in 0 .. XLen : Pow2[n] \in Nat \ {0}
  BY PowerSteps
<1>1. \E f : Solves(f)
  <2>1. step \in [0 .. XLen - 1 -> [Nat -> Nat]] /\ 0 \in Nat
    <3>1. \A n \in 0 .. XLen - 1 : term(n) \in Nat
      BY <1>0
    <3> HIDE DEF term
    <3> QED BY <3>1
  <2>2. PICK f \in [0 .. XLen -> Nat] :
          f[0] = 0 /\ \A n \in 0 .. XLen - 1 : f[n + 1] = step[n][f[n]]
    <3> DEFINE zero == 0
    <3>1. zero \in Nat /\ XLen \in Nat /\ step \in [0 .. XLen - 1 -> [Nat -> Nat]]
      BY <1>0, <2>1
    <3> HIDE DEF step, zero
    <3>2. \E f \in [0 .. XLen -> Nat] :
            f[0] = zero /\ \A n \in 0 .. XLen - 1 : f[n + 1] = step[n][f[n]]
      BY ONLY <3>1, BoundedRecursion
    <3> QED BY <3>2 DEF zero
  <2>3. ASSUME NEW n \in 0 .. XLen
        PROVE  f[n] = IF n = 0 THEN 0 ELSE f[n - 1] + term(n - 1)
    <3>1. CASE n = 0
      BY <2>2, <3>1
    <3>2. CASE n # 0
      <4>1. n - 1 \in 0 .. XLen - 1 /\ n - 1 \in 0 .. XLen /\ (n - 1) + 1 = n
        BY <1>0, <3>2
      <4>2. f[(n - 1) + 1] = step[n - 1][f[n - 1]]
        BY <2>2, <4>1
      <4>3. step[n - 1][f[n - 1]] = f[n - 1] + term(n - 1)
        BY <2>2, <4>1
      <4> HIDE DEF term
      <4> QED BY <3>2, <4>1, <4>2, <4>3
    <3> HIDE DEF term
    <3> QED BY <3>1, <3>2
  <2>4. Solves(f)
    BY <2>3
  <2> QED BY <2>4
<1>2. Solves(L)
  BY <1>1 DEF LowSum
<1> HIDE DEF L
<1>3. L[0] = 0
  BY <1>0, <1>2
<1>4. ASSUME NEW n \in 0 .. XLen - 1 PROVE L[n + 1] = L[n] + term(n)
  <2>1. n + 1 \in 0 .. XLen /\ n + 1 # 0 /\ (n + 1) - 1 = n
    BY <1>0
  <2> QED BY <1>2, <2>1
<1>5. \A n \in 0 .. XLen : L[n] \in 0 .. Pow2[n] - 1
  <2> DEFINE T == {n \in Nat : L[n] \in 0 .. Pow2[n] - 1}
  <2>1. 0 \in T
    BY <1>0, <1>3
  <2>2. ASSUME NEW n \in 0 .. XLen - 1, n \in T PROVE n + 1 \in T
    <3>1. /\ L[n] \in Nat /\ L[n] < Pow2[n] /\ Pow2[n] \in Nat
          /\ Pow2[n + 1] = 2 * Pow2[n]
      BY <1>0, <2>2
    <3>2. L[n + 1] = L[n] + term(n) /\ (term(n) = Pow2[n] \/ term(n) = 0)
      BY <1>4
    <3> HIDE DEF term
    <3>3. L[n + 1] \in Nat /\ L[n + 1] < Pow2[n + 1]
      BY ONLY <3>1, <3>2
    <3> QED BY ONLY <3>1, <3>3, n \in 0 .. XLen - 1
  <2> HIDE DEF T
  <2>3. 0 .. XLen \subseteq T
    BY ONLY <1>0, <2>1, <2>2, BoundedInduction
  <2> QED BY <2>3 DEF T
<1> QED BY <1>3, <1>4, <1>5 DEF L

LEMMA WordIsRegister ==
  ASSUME NEW S
  PROVE  Word(S) = LowSum(S)[XLen] /\ Word(S) \in Register
<1>1. Word(S) = LowSum(S)[XLen]
  BY DEF Word, LowSum
<1>2. LowSum(S)[XLen] \in 0 .. Pow2[XLen] - 1
  BY PowerSteps, SumSteps
<1> QED BY <1>1, <1>2 DEF Register, WordMod

(* The bits below a place do not depend on what is above.                  *)
LEMMA BitOfLow ==
  ASSUME NEW v \in Int, NEW n \in 0 .. XLen, NEW i \in 0 .. n - 1
  PROVE  IsBitSet(v % Pow2[n], i) <=> IsBitSet(v, i)
<1>1. /\ XLen \in Nat
      /\ i \in 0 .. XLen /\ n - i \in 0 .. XLen - i /\ i + (n - i) = n
      /\ n - i - 1 \in 0 .. XLen - 1 /\ (n - i - 1) + 1 = n - i /\ n - i - 1 \in 0 .. XLen
      /\ n - i \in 0 .. XLen
  BY PowerSteps
<1> DEFINE a == Pow2[i]
           b == Pow2[n - i]
           c == Pow2[n - i - 1]
<1>2. Pow2[n] = a * b
  BY <1>1, PowerOfSum
<1>3. a \in Nat \ {0} /\ b \in Nat \ {0} /\ c \in Nat \ {0} /\ b = 2 * c
  BY <1>1, PowerSteps
<1> HIDE DEF a, b, c
<1>4. (v % (a * b)) \div a = (v \div a) % b
  BY <1>3, ModOfProduct
<1>5. ((v \div a) % (2 * c)) % 2 = (v \div a) % 2
  <2>1. v \div a \in Int
    BY <1>3
  <2> DEFINE q == v \div a  two == 2
  <2>2. two \in Nat \ {0}
    OBVIOUS
  <2> HIDE DEF q, two
  <2>3. (q % (two * c)) % two = q % two
    BY ONLY <1>3, <2>1, <2>2, ModOfProduct DEF q
  <2> QED BY <2>3 DEF q, two
<1>6. IsBitSet(v % (a * b), i) <=> ((v % (a * b)) \div a) % 2 = 1
  BY DEF IsBitSet, a
<1>7. IsBitSet(v, i) <=> (v \div a) % 2 = 1
  BY DEF IsBitSet, a
<1> QED BY ONLY <1>2, <1>3, <1>4, <1>5, <1>6, <1>7

LEMMA BitOfSum ==
  ASSUME NEW S, NEW n \in 0 .. XLen, NEW i \in 0 .. n - 1
  PROVE  IsBitSet(LowSum(S)[n], i) <=> i \in S
<1> DEFINE L == LowSum(S)
           T == {m \in Nat : \A j \in 0 .. m - 1 : IsBitSet(L[m], j) <=> j \in S}
<1>0. XLen \in Nat /\ \A m \in 0 .. XLen : Pow2[m] \in Nat \ {0}
  BY PowerSteps
<1>1. /\ \A m \in 0 .. XLen - 1 : L[m + 1] = L[m] + (IF m \in S THEN Pow2[m] ELSE 0)
      /\ \A m \in 0 .. XLen : L[m] \in 0 .. Pow2[m] - 1
  BY SumSteps
<1> HIDE DEF L
<1>2. 0 \in T
  OBVIOUS
<1>3. ASSUME NEW m \in 0 .. XLen - 1, m \in T PROVE m + 1 \in T
  <2> DEFINE b == IF m \in S THEN 1 ELSE 0
             a == Pow2[m]
             s == L[m]
  <2>0. m \in 0 .. XLen /\ m + 1 \in 0 .. XLen /\ m \in Nat /\ m + 1 \in Nat
    BY ONLY <1>0, m \in 0 .. XLen - 1
  <2>1. b \in Int /\ a \in Nat \ {0} /\ s \in 0 .. a - 1
    BY <1>0, <1>1, <2>0
  <2>2. L[m + 1] = s + a * b
    <3>1. CASE m \in S
      BY <1>1, <2>1, <3>1
    <3>2. CASE m \notin S
      BY <1>1, <2>1, <3>2
    <3> QED BY <3>1, <3>2
  <2>3. b % 2 = 1 <=> m \in S
    OBVIOUS
  <2> HIDE DEF a, b, s
  <2>4. L[m + 1] \div a = b /\ L[m + 1] % a = s
    <3>1. s \in Int /\ s \div a = 0 /\ s % a = s
      BY <2>1, SmallMod
    <3>2. (s + a * b) \div a = (s \div a) + b /\ (s + a * b) % a = s % a
      BY ONLY <2>1, <3>1, AddMultiple
    <3> QED BY ONLY <2>1, <2>2, <3>1, <3>2
  <2>5. ASSUME NEW j \in 0 .. (m + 1) - 1 PROVE IsBitSet(L[m + 1], j) <=> j \in S
    <3>1. CASE j = m
      BY <2>3, <2>4, <3>1 DEF IsBitSet, a
    <3>2. CASE j # m
      <4>1. j \in 0 .. m - 1 /\ L[m + 1] \in Int
        BY <1>1, <2>0, <3>2
      <4>2. IsBitSet(L[m + 1] % Pow2[m], j) <=> IsBitSet(L[m + 1], j)
        BY <2>0, <4>1, BitOfLow
      <4>3. IsBitSet(L[m], j) <=> j \in S
        BY <1>3, <4>1
      <4> QED BY <2>4, <4>2, <4>3 DEF a, s
    <3> QED BY <3>1, <3>2
  <2> QED BY <2>0, <2>5
<1>4. 0 .. XLen \subseteq T
  <2> HIDE DEF T
  <2> QED BY ONLY <1>0, <1>2, <1>3, BoundedInduction
<1> QED BY <1>4 DEF L

(* What the bits of a number sum up to.                                    *)
LEMMA SumOfBits ==
  ASSUME NEW v \in Nat, NEW n \in 0 .. XLen
  PROVE  LowSum(Bits(v))[n] = v % Pow2[n]
<1> DEFINE L == LowSum(Bits(v))
           T == {m \in Nat : L[m] = v % Pow2[m]}
<1>0. /\ XLen \in Nat /\ \A m \in 0 .. XLen : Pow2[m] \in Nat \ {0}
      /\ Pow2[0] = 1 /\ \A m \in 0 .. XLen - 1 : Pow2[m + 1] = 2 * Pow2[m]
  BY PowerSteps
<1>1. /\ L[0] = 0
      /\ \A m \in 0 .. XLen - 1 : L[m + 1] = L[m] + (IF m \in Bits(v) THEN Pow2[m] ELSE 0)
  BY SumSteps
<1> HIDE DEF L
<1>2. 0 \in T
  BY <1>0, <1>1
<1>3. ASSUME NEW m \in 0 .. XLen - 1, m \in T PROVE m + 1 \in T
  <2> DEFINE a == Pow2[m]
             w == v % (a * 2)
             b == (v \div a) % 2
  <2>0. m \in 0 .. XLen /\ m + 1 \in Nat
    BY ONLY <1>0, m \in 0 .. XLen - 1
  <2>1. a \in Nat \ {0} /\ Pow2[m + 1] = a * 2
    BY <1>0, <2>0
  <2>2. m \in Bits(v) <=> b = 1
    BY DEF Bits, IsBitSet
  <2>3. L[m] = v % a
    BY <1>3
  <2>3a. L[m + 1] = L[m] + (IF m \in Bits(v) THEN a ELSE 0)
    BY <1>1
  <2> HIDE DEF a
  <2>4. b \in 0 .. 1 /\ v \div a \in Int
    BY <2>1
  <2>5. w % a = v % a /\ w \div a = b
    <3> DEFINE two == 2
    <3>1. two \in Nat \ {0} /\ v \in Int /\ a \in Nat \ {0}
      BY <2>1
    <3> HIDE DEF two
    <3>2. (v % (a * two)) % a = v % a /\ (v % (a * two)) \div a = (v \div a) % two
      BY ONLY <3>1, ModOfProduct
    <3> QED BY ONLY <3>2 DEF two
  <2>6. w = a * (w \div a) + (w % a)
    <3>1. a * 2 \in Nat \ {0}
      BY <2>1
    <3>2. w \in Int
      BY <3>1
    <3> HIDE DEF w
    <3> QED BY <2>1, <3>2, DivMod
  <2>7. w = a * b + (v % a)
    BY <2>5, <2>6
  <2>8. L[m + 1] = w
    <3>1. v % a \in Int
      BY <2>1
    <3> HIDE DEF w, b
    <3>2. CASE b = 1
      BY <2>1, <2>2, <2>3, <2>3a, <2>7, <3>1, <3>2
    <3>3. CASE b = 0
      BY <2>1, <2>2, <2>3, <2>3a, <2>7, <3>1, <3>3
    <3> QED BY <2>4, <3>2, <3>3
  <2> QED BY <2>0, <2>1, <2>8
<1>4. 0 .. XLen \subseteq T
  <2> HIDE DEF T
  <2> QED BY ONLY <1>0, <1>2, <1>3, BoundedInduction
<1> QED BY <1>4 DEF L

LEMMA RegisterFacts ==
  /\ XLen \in Nat /\ XLen > 0 /\ WordMod \in Nat \ {0} /\ WordMod = Pow2[XLen]
  /\ 0 \in Register /\ AllOnes \in Register
  /\ \A x \in Register : x \in Nat /\ x \in Int /\ x < WordMod
  /\ \A n \in 0 .. XLen : Pow2[n] \in Nat \ {0} /\ Pow2[n] <= WordMod
<1>1. XLen \in Nat /\ XLen > 0 /\ \A n \in 0 .. XLen : Pow2[n] \in Nat \ {0}
  BY PowerSteps
<1>2. \A n \in 0 .. XLen : Pow2[n] <= Pow2[XLen]
  <2> SUFFICES ASSUME NEW n \in 0 .. XLen PROVE Pow2[n] <= Pow2[XLen]
    OBVIOUS
  <2>1. XLen \in n .. XLen
    BY ONLY <1>1, n \in 0 .. XLen
  <2> QED BY <2>1, PowersGrow
<1>3. XLen \in 0 .. XLen
  BY ONLY <1>1
<1>4. WordMod \in Nat \ {0}
  BY ONLY <1>1, <1>3 DEF WordMod
<1> QED BY ONLY <1>1, <1>2, <1>4 DEF WordMod, Register, AllOnes

LEMMA BitsOfWord ==
  ASSUME NEW S
  PROVE  Bits(Word(S)) = S \cap Positions
<1>1. XLen \in 0 .. XLen
  BY RegisterFacts
<1>2. \A i \in 0 .. XLen - 1 : IsBitSet(Word(S), i) <=> i \in S
  BY <1>1, BitOfSum, WordIsRegister
<1> QED BY <1>2 DEF Bits, Positions

LEMMA WordOfBits ==
  ASSUME NEW x \in Register
  PROVE  Word(Bits(x)) = x
<1>1. XLen \in 0 .. XLen /\ x \in Nat
  BY RegisterFacts
<1>2. Word(Bits(x)) = x % WordMod
  BY <1>1, SumOfBits, WordIsRegister DEF WordMod
<1>3. x \in 0 .. WordMod - 1
  BY DEF Register
<1> QED BY <1>2, <1>3, RegisterFacts, SmallMod

(* A register is what its bits are.                                        *)
LEMMA SameBits ==
  ASSUME NEW x \in Register, NEW y \in Register,
         \A i \in Positions : IsBitSet(x, i) <=> IsBitSet(y, i)
  PROVE  x = y
<1>1. Bits(x) = Bits(y)
  BY DEF Bits, Positions
<1> QED BY <1>1, WordOfBits

LEMMA BitwiseBits ==
  ASSUME NEW x, NEW y
  PROVE  /\ And(x, y) \in Register /\ Or(x, y) \in Register /\ Xor(x, y) \in Register
         /\ \A i \in Positions :
              /\ IsBitSet(And(x, y), i) <=> IsBitSet(x, i) /\ IsBitSet(y, i)
              /\ IsBitSet(Or(x, y), i) <=> IsBitSet(x, i) \/ IsBitSet(y, i)
              /\ IsBitSet(Xor(x, y), i) <=> ~ (IsBitSet(x, i) <=> IsBitSet(y, i))
<1>1. And(x, y) \in Register /\ Or(x, y) \in Register /\ Xor(x, y) \in Register
  BY WordIsRegister DEF And, Or, Xor
<1>2. \A z : \A i \in Positions : IsBitSet(z, i) <=> i \in Bits(z)
  BY DEF Bits, Positions
<1>3. /\ Bits(And(x, y)) = Bits(x) \cap Bits(y) \cap Positions
      /\ Bits(Or(x, y)) = (Bits(x) \cup Bits(y)) \cap Positions
      /\ Bits(Xor(x, y)) = ((Bits(x) \cup Bits(y)) \ (Bits(x) \cap Bits(y))) \cap Positions
  BY BitsOfWord DEF And, Or, Xor
<1> QED BY <1>1, <1>2, <1>3

(* A number below 2^n has no bit from n on.                                *)
LEMMA HighBits ==
  ASSUME NEW n \in 0 .. XLen, NEW v \in Nat, v < Pow2[n], NEW i \in n .. XLen
  PROVE  ~ IsBitSet(v, i) /\ v < Pow2[i]
<1> DEFINE a == Pow2[i]
<1>1. Pow2[n] <= a /\ a \in Nat \ {0} /\ Pow2[n] \in Nat
  BY PowersGrow, RegisterFacts
<1>2. IsBitSet(v, i) <=> (v \div a) % 2 = 1
  BY DEF IsBitSet
<1> HIDE DEF a
<1>3. v \in 0 .. a - 1
  BY ONLY <1>1, v \in Nat, v < Pow2[n]
<1>4. v \div a = 0
  BY ONLY <1>1, <1>3, SmallMod
<1> QED BY <1>1, <1>2, <1>3, <1>4 DEF a

(* The bits of x * 2^n.                                                    *)
LEMMA BitOfMultiple ==
  ASSUME NEW v \in Int, NEW n \in 0 .. XLen, NEW i \in 0 .. XLen - 1
  PROVE  IsBitSet(v * Pow2[n], i) <=> i >= n /\ IsBitSet(v, i - n)
<1>0. XLen \in Nat
  BY RegisterFacts
<1>1. CASE i >= n
  <2> DEFINE a == Pow2[n]
             b == Pow2[i - n]
  <2>1. i - n \in 0 .. XLen - n /\ n + (i - n) = i
    BY ONLY <1>0, <1>1, n \in 0 .. XLen, i \in 0 .. XLen - 1
  <2>2. Pow2[i] = a * b /\ a \in Nat \ {0} /\ b \in Nat \ {0}
    BY <2>1, PowerOfSum, RegisterFacts
  <2>3. /\ IsBitSet(v * Pow2[n], i) <=> ((v * a) \div Pow2[i]) % 2 = 1
        /\ IsBitSet(v, i - n) <=> (v \div b) % 2 = 1
    BY DEF IsBitSet
  <2> HIDE DEF a, b
  <2>4. (v * a) \div (a * b) = v \div b
    <3> DEFINE w == v * a
    <3>1. w \in Int
      BY <2>2
    <3>2. w \div a = v
      BY ONLY <2>2, v \in Int, DivOfProduct
    <3> HIDE DEF w
    <3>3. w \div (a * b) = (w \div a) \div b
      BY ONLY <2>2, <3>1, DivByProduct
    <3> QED BY ONLY <3>2, <3>3 DEF w
  <2> QED BY <1>1, <2>2, <2>3, <2>4
<1>2. CASE i < n
  <2> DEFINE a == Pow2[i]
             b == Pow2[n - i]
             c == Pow2[n - i - 1]
  <2>1. /\ i \in 0 .. XLen /\ n - i \in 0 .. XLen - i /\ i + (n - i) = n /\ n - i \in 0 .. XLen
        /\ n - i - 1 \in 0 .. XLen - 1 /\ (n - i - 1) + 1 = n - i /\ n - i - 1 \in 0 .. XLen
    BY ONLY <1>0, <1>2, n \in 0 .. XLen, i \in 0 .. XLen - 1
  <2>2. Pow2[n] = a * b /\ a \in Nat \ {0} /\ c \in Nat \ {0} /\ b = 2 * c
    BY <2>1, PowerOfSum, PowerSteps
  <2>3. IsBitSet(v * Pow2[n], i) <=> ((v * Pow2[n]) \div a) % 2 = 1
    BY DEF IsBitSet
  <2> HIDE DEF a, b, c
  <2>4. v * (a * b) = (v * (2 * c)) * a /\ v * (2 * c) \in Int
    BY <2>2
  <2>5. ((v * (2 * c)) * a) \div a = v * (2 * c)
    <3> DEFINE w == v * (2 * c)
    <3> HIDE DEF w
    <3> QED BY ONLY <2>2, <2>4, DivOfProduct DEF w
  <2>6. (v * (2 * c)) % 2 = 0
    <3> DEFINE k == v * c
    <3>1. v * (2 * c) = 2 * k /\ k \in Int
      BY <2>2
    <3> HIDE DEF k
    <3> QED BY ONLY <3>1
  <2>7. ~ (((v * Pow2[n]) \div a) % 2 = 1)
    BY ONLY <2>2, <2>4, <2>5, <2>6
  <2> QED BY ONLY <1>0, <1>2, <2>3, <2>7, n \in 0 .. XLen, i \in 0 .. XLen - 1
<1> QED BY ONLY <1>0, <1>1, <1>2, n \in 0 .. XLen, i \in 0 .. XLen - 1

(* The bits of x \div 2^n.                                                 *)
LEMMA BitOfQuotient ==
  ASSUME NEW v \in Int, NEW n \in 0 .. XLen, NEW i \in 0 .. XLen - n
  PROVE  IsBitSet(v \div Pow2[n], i) <=> IsBitSet(v, n + i)
<1> DEFINE a == Pow2[n]
           b == Pow2[i]
<1>1. Pow2[n + i] = a * b /\ a \in Nat \ {0} /\ b \in Nat \ {0}
  BY PowerOfSum, RegisterFacts
<1>2. /\ IsBitSet(v \div Pow2[n], i) <=> ((v \div a) \div b) % 2 = 1
      /\ IsBitSet(v, n + i) <=> (v \div Pow2[n + i]) % 2 = 1
  BY DEF IsBitSet
<1> HIDE DEF a, b
<1>3. v \div (a * b) = (v \div a) \div b
  BY ONLY <1>1, v \in Int, DivByProduct
<1> QED BY ONLY <1>1, <1>2, <1>3

(* The bits of 2^n - 1.                                                    *)
LEMMA BitsOfOnes ==
  ASSUME NEW n \in 0 .. XLen
  PROVE  /\ Pow2[n] - 1 \in Register
         /\ \A i \in Positions : IsBitSet(Pow2[n] - 1, i) <=> i < n
<1>1. Pow2[n] - 1 \in Register
  BY RegisterFacts DEF Register
<1>2. ASSUME NEW i \in Positions PROVE IsBitSet(Pow2[n] - 1, i) <=> i < n
  <2>0. XLen \in Nat /\ i \in 0 .. XLen - 1
    BY RegisterFacts DEF Positions
  <2>1. CASE i < n
    <3> DEFINE a == Pow2[i]
               b == Pow2[n - i]
               c == Pow2[n - i - 1]
    <3>1. /\ i \in 0 .. XLen /\ n - i \in 0 .. XLen - i /\ i + (n - i) = n /\ n - i \in 0 .. XLen
          /\ n - i - 1 \in 0 .. XLen - 1 /\ (n - i - 1) + 1 = n - i /\ n - i - 1 \in 0 .. XLen
      BY ONLY <2>0, <2>1, n \in 0 .. XLen
    <3>2. Pow2[n] = a * b /\ a \in Nat \ {0} /\ c \in Nat \ {0} /\ b = 2 * c
      BY <3>1, PowerOfSum, PowerSteps
    <3>3. IsBitSet(Pow2[n] - 1, i) <=> ((Pow2[n] - 1) \div a) % 2 = 1
      BY DEF IsBitSet
    <3> HIDE DEF a, b, c
    <3> DEFINE q == 2 * c - 1
               r == a - 1
    <3>4. a * b - 1 = a * q + r /\ q \in Int /\ r \in 0 .. a - 1 /\ q % 2 = 1
      <4>1. a * (2 * c) = a * (2 * c - 1) + a
        BY ONLY <3>2
      <4>2. a * (2 * c) \in Int /\ a * (2 * c - 1) \in Int
        BY ONLY <3>2
      <4> QED BY ONLY <3>2, <4>1, <4>2
    <3> HIDE DEF q, r
    <3>5. (a * q + r) \div a = q
      BY ONLY <3>2, <3>4, DivIsUnique
    <3> QED BY ONLY <2>1, <3>2, <3>3, <3>4, <3>5
  <2>2. CASE ~ (i < n)
    <3>1. i \in n .. XLen
      BY ONLY <2>0, <2>2, n \in 0 .. XLen
    <3>2. Pow2[n] - 1 \in Nat /\ Pow2[n] - 1 < Pow2[n]
      BY RegisterFacts
    <3> QED BY <2>2, <3>1, <3>2, HighBits
  <2> QED BY <2>1, <2>2
<1> QED BY <1>1, <1>2

(* A mask of n ones is a remainder.                                        *)
LEMMA LowMask ==
  ASSUME NEW x \in Register, NEW n \in 0 .. XLen
  PROVE  And(x, Pow2[n] - 1) = x % Pow2[n] /\ x % Pow2[n] \in Register /\ x % Pow2[n] < Pow2[n]
<1> DEFINE y == x % Pow2[n]
<1>0. /\ XLen \in Nat /\ x \in Nat /\ Pow2[n] \in Nat \ {0} /\ Pow2[n] <= WordMod
      /\ WordMod \in Nat
  BY RegisterFacts
<1>1. y \in Nat /\ y < Pow2[n] /\ y \in Register
  <2>1. y \in 0 .. Pow2[n] - 1
    BY ONLY <1>0
  <2> QED BY ONLY <1>0, <2>1 DEF Register
<1> HIDE DEF y
<1>2. ASSUME NEW i \in Positions
      PROVE  IsBitSet(And(x, Pow2[n] - 1), i) <=> IsBitSet(y, i)
  <2>1. IsBitSet(And(x, Pow2[n] - 1), i) <=> IsBitSet(x, i) /\ i < n
    BY BitwiseBits, BitsOfOnes
  <2>2. i \in 0 .. XLen - 1
    BY DEF Positions
  <2>3. CASE i < n
    <3>1. i \in 0 .. n - 1 /\ x \in Int
      BY ONLY <1>0, <2>2, <2>3, n \in 0 .. XLen
    <3> QED BY <2>1, <2>3, <3>1, BitOfLow DEF y
  <2>4. CASE ~ (i < n)
    <3>1. i \in n .. XLen
      BY ONLY <1>0, <2>2, <2>4, n \in 0 .. XLen
    <3> QED BY <1>1, <2>1, <2>4, <3>1, HighBits
  <2> QED BY <2>3, <2>4
<1>3. And(x, Pow2[n] - 1) \in Register
  BY BitwiseBits
<1>4. And(x, Pow2[n] - 1) = y
  BY <1>1, <1>2, <1>3, SameBits
<1> QED BY <1>1, <1>4 DEF y

(* Words with no bit in common are added by an OR.                         *)
LEMMA SumOfUnion ==
  ASSUME NEW S, NEW T, S \cap T = {}, NEW n \in 0 .. XLen
  PROVE  LowSum(S \cup T)[n] = LowSum(S)[n] + LowSum(T)[n]
<1> DEFINE U == LowSum(S \cup T)
           A == LowSum(S)
           B == LowSum(T)
           N == {m \in Nat : U[m] = A[m] + B[m]}
<1>0. XLen \in Nat /\ \A m \in 0 .. XLen : Pow2[m] \in Nat
  BY RegisterFacts
<1>1. /\ U[0] = 0 /\ A[0] = 0 /\ B[0] = 0
      /\ \A m \in 0 .. XLen - 1 :
           /\ U[m + 1] = U[m] + (IF m \in S \cup T THEN Pow2[m] ELSE 0)
           /\ A[m + 1] = A[m] + (IF m \in S THEN Pow2[m] ELSE 0)
           /\ B[m + 1] = B[m] + (IF m \in T THEN Pow2[m] ELSE 0)
      /\ \A m \in 0 .. XLen : A[m] \in Int /\ B[m] \in Int
  <2>1. \A V : \A m \in 0 .. XLen : LowSum(V)[m] \in Int
    BY <1>0, SumSteps
  <2> QED BY <2>1, SumSteps
<1> HIDE DEF U, A, B
<1>2. 0 \in N
  BY <1>1
<1>3. ASSUME NEW m \in 0 .. XLen - 1, m \in N PROVE m + 1 \in N
  <2>1. m \in 0 .. XLen /\ m + 1 \in Nat
    BY <1>0
  <2>2. Pow2[m] \in Nat /\ A[m] \in Int /\ B[m] \in Int /\ U[m] = A[m] + B[m]
    BY <1>0, <1>1, <1>3, <2>1
  <2>3. CASE m \in S
    BY <1>1, <2>1, <2>2, <2>3
  <2>4. CASE m \in T
    BY <1>1, <2>1, <2>2, <2>4
  <2>5. CASE m \notin S \cup T
    BY <1>1, <2>1, <2>2, <2>5
  <2> QED BY <2>3, <2>4, <2>5
<1>4. 0 .. XLen \subseteq N
  <2> HIDE DEF N
  <2> QED BY ONLY <1>0, <1>2, <1>3, BoundedInduction
<1> QED BY <1>4 DEF U, A, B

LEMMA DisjointOr ==
  ASSUME NEW x \in Register, NEW y \in Register,
         \A i \in Positions : ~ (IsBitSet(x, i) /\ IsBitSet(y, i))
  PROVE  Or(x, y) = x + y
<1>1. Bits(x) \cap Bits(y) = {}
  BY DEF Bits, Positions
<1>2. XLen \in 0 .. XLen
  BY RegisterFacts
<1>3. LowSum(Bits(x) \cup Bits(y))[XLen] = LowSum(Bits(x))[XLen] + LowSum(Bits(y))[XLen]
  BY <1>1, <1>2, SumOfUnion
<1> QED BY <1>3, WordIsRegister, WordOfBits DEF Or

LEMMA NotBits ==
  ASSUME NEW x \in Register
  PROVE  /\ Not(x) \in Register
         /\ \A i \in Positions : IsBitSet(Not(x), i) <=> ~ IsBitSet(x, i)
<1> DEFINE y == Word(Positions \ Bits(x))
<1>1. XLen \in 0 .. XLen /\ Pow2[XLen] = WordMod
  BY RegisterFacts
<1>2. y \in Register /\ Bits(y) = Positions \ Bits(x)
  BY BitsOfWord, WordIsRegister
<1>3. Or(x, y) = x + y
  <2>1. \A i \in Positions : ~ (IsBitSet(x, i) /\ IsBitSet(y, i))
    BY <1>2 DEF Bits, Positions
  <2> HIDE DEF y
  <2> QED BY <1>2, <2>1, DisjointOr
<1>4. Or(x, y) = AllOnes
  <2>1. \A i \in Positions : IsBitSet(AllOnes, i)
    <3>1. \A i \in Positions : IsBitSet(AllOnes, i) <=> i < XLen
      BY <1>1, BitsOfOnes DEF AllOnes
    <3>2. \A i \in Positions : i < XLen
      BY <1>1 DEF Positions
    <3> QED BY <3>1, <3>2
  <2>2. \A i \in Positions : IsBitSet(Or(x, y), i)
    <3>1. \A i \in Positions : IsBitSet(x, i) \/ IsBitSet(y, i)
      BY <1>2 DEF Bits, Positions
    <3> QED BY <3>1, BitwiseBits
  <2>3. Or(x, y) \in Register /\ AllOnes \in Register
    BY BitwiseBits, RegisterFacts
  <2> QED BY <2>1, <2>2, <2>3, SameBits
<1>5. \A i \in Positions : IsBitSet(y, i) <=> ~ IsBitSet(x, i)
  BY <1>2 DEF Bits, Positions
<1> HIDE DEF y
<1>6. Not(x) = y
  <2>1. x \in Int /\ y \in Int
    BY <1>2, RegisterFacts
  <2> QED BY ONLY <1>3, <1>4, <2>1 DEF Not
<1> QED BY <1>2, <1>5, <1>6

(* The sign bit.                                                           *)
LEMMA HalfWord ==
  /\ WordMod = 2 * (WordMod \div 2) /\ WordMod \div 2 = Pow2[XLen - 1]
  /\ WordMod \div 2 \in Nat \ {0}
  /\ XLen - 1 \in Positions /\ XLen - 1 \in 0 .. XLen
<1>1. XLen \in Nat /\ XLen - 1 \in 0 .. XLen - 1 /\ XLen - 1 \in 0 .. XLen
      /\ (XLen - 1) + 1 = XLen
  BY RegisterFacts
<1>2. WordMod = 2 * Pow2[XLen - 1] /\ Pow2[XLen - 1] \in Nat \ {0}
  BY <1>1, PowerSteps DEF WordMod
<1> DEFINE a == Pow2[XLen - 1]
<1> HIDE DEF a
<1>3. (2 * a) \div 2 = a
  BY ONLY <1>2 DEF a
<1> QED BY <1>1, <1>2, <1>3 DEF a, Positions

LEMMA SignBit ==
  ASSUME NEW n \in 1 .. XLen, NEW v \in Nat, v < Pow2[n]
  PROVE  IsBitSet(v, n - 1) <=> v >= Pow2[n - 1]
<1> DEFINE a == Pow2[n - 1]
<1>1. XLen \in Nat
  BY RegisterFacts
<1>2. n - 1 \in 0 .. XLen - 1 /\ n - 1 \in 0 .. XLen /\ (n - 1) + 1 = n
  BY ONLY <1>1, n \in 1 .. XLen
<1>3. a \in Nat \ {0} /\ Pow2[n] = 2 * a
  BY <1>2, PowerSteps
<1>4. IsBitSet(v, n - 1) <=> (v \div a) % 2 = 1
  BY DEF IsBitSet
<1> HIDE DEF a
<1>5. CASE v >= a
  <2>1. v = a * 1 + (v - a) /\ v - a \in 0 .. a - 1 /\ 1 \in Int
    BY ONLY <1>3, <1>5, v \in Nat, v < Pow2[n]
  <2>2. v \div a = 1
    <3> DEFINE one == 1  r == v - a
    <3>1. one \in Int /\ r \in 0 .. a - 1 /\ v = a * one + r
      BY <2>1
    <3> HIDE DEF one, r
    <3>2. (a * one + r) \div a = one
      BY ONLY <1>3, <3>1, DivIsUnique
    <3> QED BY ONLY <3>1, <3>2 DEF one
  <2> QED BY ONLY <1>4, <1>5, <2>2 DEF a
<1>6. CASE v < a
  <2>1. v \in 0 .. a - 1
    BY ONLY <1>3, <1>6, v \in Nat
  <2>2. v \div a = 0
    BY ONLY <1>3, <2>1, SmallMod
  <2> QED BY ONLY <1>3, <1>4, <1>6, <2>2, v \in Nat DEF a
<1> QED BY ONLY <1>3, <1>5, <1>6, v \in Nat

LEMMA SignedRange ==
  ASSUME NEW x \in Register
  PROVE  /\ Signed(x) \in Int
         /\ - (WordMod \div 2) <= Signed(x) /\ Signed(x) < WordMod \div 2
         /\ Signed(x) = x \/ Signed(x) = x - WordMod
         /\ Signed(x) = x <=> x < WordMod \div 2
         /\ Signed(x) < 0 <=> x >= WordMod \div 2
         /\ IsBitSet(x, XLen - 1) <=> Signed(x) < 0
<1> DEFINE h == WordMod \div 2
<1>1. h \in Nat \ {0} /\ WordMod = 2 * h /\ x \in Nat /\ x < WordMod
  BY HalfWord, RegisterFacts
<1>2. IsBitSet(x, XLen - 1) <=> x >= h
  <2>1. XLen \in 1 .. XLen /\ x < Pow2[XLen] /\ h = Pow2[XLen - 1]
    BY HalfWord, RegisterFacts
  <2> QED BY <1>1, <2>1, SignBit
<1>3. Signed(x) = IF x < h THEN x ELSE x - WordMod
  BY DEF Signed
<1> HIDE DEF h
<1>4. /\ Signed(x) \in Int /\ -h <= Signed(x) /\ Signed(x) < h
      /\ Signed(x) = x \/ Signed(x) = x - WordMod
      /\ Signed(x) = x <=> x < h
      /\ Signed(x) < 0 <=> x >= h
  BY ONLY <1>1, <1>3
<1> QED BY <1>2, <1>4 DEF h

LEMMA SignOf ==
  ASSUME NEW x \in Register
  PROVE  Signed(x) = IF IsBitSet(x, XLen - 1) THEN x - WordMod ELSE x
<1> DEFINE h == WordMod \div 2
<1>1. h \in Nat /\ x \in Nat /\ Signed(x) \in Int
  BY HalfWord, RegisterFacts, SignedRange
<1>2. /\ Signed(x) = x \/ Signed(x) = x - WordMod
      /\ Signed(x) = x <=> x < h
      /\ Signed(x) < 0 <=> x >= h
      /\ IsBitSet(x, XLen - 1) <=> Signed(x) < 0
  BY SignedRange
<1> HIDE DEF h
<1> QED BY ONLY <1>1, <1>2

(* Truncation, and the value it keeps.                                     *)
LEMMA TruncFacts ==
  ASSUME NEW z \in Int
  PROVE  /\ Trunc(z) \in Register
         /\ z \in Register => Trunc(z) = z
         /\ -WordMod <= z /\ z < 0 => Trunc(z) = z + WordMod
         /\ - (WordMod \div 2) <= z /\ z < WordMod \div 2 => Signed(Trunc(z)) = z
         /\ \A k \in Int : Trunc(z + WordMod * k) = Trunc(z)
<1> DEFINE h == WordMod \div 2
           W == WordMod
           t == Trunc(z)
<1>1. h \in Nat \ {0} /\ W = 2 * h /\ W \in Nat \ {0}
  BY HalfWord, RegisterFacts
<1>2. t = z % W
  BY DEF Trunc
<1>3. t \in 0 .. W - 1
  BY ONLY <1>1, <1>2, z \in Int
<1>4. t \in Register
  BY <1>3 DEF Register
<1>5. z \in Register => t = z
  <2>1. z \in Register => z \in 0 .. W - 1
    BY DEF Register
  <2> HIDE DEF t, W
  <2> QED BY ONLY <1>1, <1>2, <2>1, SmallMod
<1>6. ASSUME -W <= z, z < 0 PROVE t = z + W
  <2> DEFINE r == z + W  m == -1
  <2>1. r \in 0 .. W - 1 /\ m \in Int /\ z = W * m + r
    BY ONLY <1>1, <1>6, z \in Int
  <2> HIDE DEF r, m, t, W
  <2>2. (W * m + r) % W = r
    BY ONLY <1>1, <2>1, DivIsUnique
  <2> QED BY ONLY <1>2, <2>1, <2>2 DEF r
<1>7. ASSUME -h <= z, z < h PROVE Signed(t) = z
  <2>0. Signed(t) = IF t < h THEN t ELSE t - W
    BY DEF Signed
  <2> HIDE DEF t, W, h
  <2>1. CASE z < 0
    <3>1. t = z + W
      BY ONLY <1>1, <1>6, <1>7, <2>1, z \in Int
    <3> QED BY ONLY <1>1, <1>7, <2>0, <2>1, <3>1, z \in Int
  <2>2. CASE z >= 0
    <3>1. z \in 0 .. W - 1
      BY ONLY <1>1, <1>7, <2>2, z \in Int
    <3>2. t = z
      BY ONLY <1>1, <1>2, <3>1, SmallMod
    <3> QED BY ONLY <1>7, <2>0, <3>2
  <2> QED BY ONLY <2>1, <2>2, z \in Int
<1>8. ASSUME NEW k \in Int PROVE Trunc(z + W * k) = t
  <2>1. Trunc(z + W * k) = (z + W * k) % W
    BY DEF Trunc
  <2> HIDE DEF W, t
  <2>2. (z + W * k) % W = z % W
    BY ONLY <1>1, z \in Int, k \in Int, AddMultiple
  <2> QED BY ONLY <1>2, <2>1, <2>2
<1> QED BY <1>4, <1>5, <1>6, <1>7, <1>8

-----------------------------------------------------------------------------
(* AluUnit: the result is one that the operation gives for its operands.   *)

AluInv ==
  /\ op \in BinOps \cup UnaryOps \cup {"none"}
  /\ rs1 \in Register /\ rs2 \in Register
  /\ op = "none" => rd = 0
  /\ op # "none" => rd \in BinOp(op, rs1, rs2)

LEMMA AlwaysAluInv == Spec => []AluInv
<1>1. "none" \notin BinOps \cup UnaryOps
  BY DEF BinOps, UnaryOps
<1>2. Init => AluInv
  BY OperandAssumption DEF Init, AluInv
<1>3. AluInv /\ [Next]_vars => AluInv'
  <2> SUFFICES ASSUME AluInv, [Next]_vars PROVE AluInv'
    OBVIOUS
  <2>1. ASSUME NEW o \in BinOps \cup UnaryOps, Execute(o) PROVE AluInv'
    <3>1. op' = o /\ rd' \in BinOp(o, rs1, rs2) /\ rs1' = rs1 /\ rs2' = rs2
      BY <2>1 DEF Execute
    <3>2. o # "none"
      BY <1>1
    <3> QED BY <3>1, <3>2 DEF AluInv
  <2>2. CASE UNCHANGED vars
    BY <2>2 DEF AluInv, vars
  <2> QED BY <2>1, <2>2 DEF Next
<1> QED BY <1>2, <1>3, PTL DEF Spec

(* Signed and unsigned order are each the one the mnemonic names, for      *)
(* every pair of operands (OrdersAgree: ext_i_cb.cpp, ext_zbb_cb.cpp).     *)
THEOREM OrdersAreNamed == Spec => []OrdersAgree
<1>1. AluInv => OrdersAgree
  <2> SUFFICES ASSUME AluInv PROVE OrdersAgree
    OBVIOUS
  <2> DEFINE a == Signed(rs1)
             b == Signed(rs2)
  <2>1. rs1 \in Register /\ rs2 \in Register /\ rs1 \in Int /\ rs2 \in Int /\ a \in Int /\ b \in Int
    BY SignedRange, RegisterFacts DEF AluInv
  <2>2. ASSUME op = "SLT" PROVE (rd = 1) = Taken("BLT", rs1, rs2)
    <3>1. rd = IF a < b THEN 1 ELSE 0
      BY <2>2 DEF AluInv, BinOp, SLT
    <3>2. Taken("BLT", rs1, rs2) = (a < b)
      BY DEF Taken
    <3> QED BY <3>1, <3>2
  <2>3. ASSUME op = "SLTU" PROVE (rd = 1) = Taken("BLTU", rs1, rs2)
    <3>1. rd = IF rs1 < rs2 THEN 1 ELSE 0
      BY <2>3 DEF AluInv, BinOp, SLTU
    <3>2. Taken("BLTU", rs1, rs2) = (rs1 < rs2)
      BY DEF Taken
    <3> QED BY <3>1, <3>2
  <2>4. ASSUME op \in {"MIN", "MAX"}
        PROVE  /\ Signed(rd) \in {a, b}
               /\ Signed(rd) * 2 = a + b + (IF op = "MAX" THEN 1 ELSE -1) * Magnitude(a - b)
    <3>1. CASE op = "MIN"
      <4>1. rd = IF a < b THEN rs1 ELSE rs2
        BY <3>1 DEF AluInv, BinOp, MIN
      <4>2. Signed(rd) = IF a < b THEN a ELSE b
        BY <4>1
      <4> HIDE DEF a, b
      <4> QED BY ONLY <2>1, <3>1, <4>2 DEF Magnitude
    <3>2. CASE op = "MAX"
      <4>1. rd = IF a < b THEN rs2 ELSE rs1
        BY <3>2 DEF AluInv, BinOp, MAX
      <4>2. Signed(rd) = IF a < b THEN b ELSE a
        BY <4>1
      <4> HIDE DEF a, b
      <4> QED BY ONLY <2>1, <3>2, <4>2 DEF Magnitude
    <3> QED BY <2>4, <3>1, <3>2
  <2>5. ASSUME op \in {"MINU", "MAXU"}
        PROVE  rd * 2 = rs1 + rs2 + (IF op = "MAXU" THEN 1 ELSE -1) * Magnitude(rs1 - rs2)
    <3>1. CASE op = "MINU"
      <4>1. rd = IF rs1 < rs2 THEN rs1 ELSE rs2
        BY <3>1 DEF AluInv, BinOp, MINU
      <4> QED BY ONLY <2>1, <3>1, <4>1 DEF Magnitude
    <3>2. CASE op = "MAXU"
      <4>1. rd = IF rs1 < rs2 THEN rs2 ELSE rs1
        BY <3>2 DEF AluInv, BinOp, MAXU
      <4> QED BY ONLY <2>1, <3>2, <4>1 DEF Magnitude
    <3> QED BY <2>5, <3>1, <3>2
  <2> QED BY <2>2, <2>3, <2>4, <2>5 DEF OrdersAgree
<1> QED BY <1>1, AlwaysAluInv, PTL

(* The inverted operators of Zbb are right in every bit, for every pair of *)
(* operands (InvertedLogic: ext_zbb_cb.cpp).                               *)
THEOREM InversionIsOfOneOperand == Spec => []InvertedLogic
<1>1. AluInv => InvertedLogic
  <2> SUFFICES ASSUME AluInv, NEW i \in Positions
               PROVE  /\ op = "ANDN" => (Bit(rd, i) <=> Bit(rs1, i) /\ ~ Bit(rs2, i))
                      /\ op = "ORN" => (Bit(rd, i) <=> Bit(rs1, i) \/ ~ Bit(rs2, i))
                      /\ op = "XNOR" => (Bit(rd, i) <=> (Bit(rs1, i) <=> Bit(rs2, i)))
    BY DEF InvertedLogic
  <2>1. rs1 \in Register /\ rs2 \in Register
    BY DEF AluInv
  <2>2. IsBitSet(Not(rs2), i) <=> ~ IsBitSet(rs2, i)
    BY <2>1, NotBits
  <2>3. ASSUME op = "ANDN" PROVE Bit(rd, i) <=> Bit(rs1, i) /\ ~ Bit(rs2, i)
    <3>1. rd = And(rs1, Not(rs2))
      BY <2>3 DEF AluInv, BinOp, ANDN
    <3> QED BY <2>2, <3>1, BitwiseBits DEF Bit
  <2>4. ASSUME op = "ORN" PROVE Bit(rd, i) <=> Bit(rs1, i) \/ ~ Bit(rs2, i)
    <3>1. rd = Or(rs1, Not(rs2))
      BY <2>4 DEF AluInv, BinOp, ORN
    <3> QED BY <2>2, <3>1, BitwiseBits DEF Bit
  <2>5. ASSUME op = "XNOR" PROVE Bit(rd, i) <=> (Bit(rs1, i) <=> Bit(rs2, i))
    <3>1. rd = Not(Xor(rs1, rs2))
      BY <2>5 DEF AluInv, BinOp, XNOR
    <3>2. Xor(rs1, rs2) \in Register
      BY BitwiseBits
    <3> QED BY <3>1, <3>2, BitwiseBits, NotBits DEF Bit
  <2> QED BY <2>3, <2>4, <2>5
<1> QED BY <1>1, AlwaysAluInv, PTL

(* MULHU and MUL are the two halves of one product, for every pair of      *)
(* operands (HighAndLowMakeTheProduct: ext_m_cb.cpp).                      *)
THEOREM HalvesMakeTheProduct == Spec => []HighAndLowMakeTheProduct
<1>1. AluInv => HighAndLowMakeTheProduct
  <2> SUFFICES ASSUME AluInv, op = "MULHU"
               PROVE  rd * WordMod + MUL(rs1, rs2) = rs1 * rs2
    BY DEF HighAndLowMakeTheProduct
  <2> DEFINE W == WordMod
             p == rs1 * rs2
  <2>1. /\ W \in Nat \ {0}
        /\ rs1 \in Nat /\ rs1 < W /\ rs2 \in Nat /\ rs2 < W
    BY RegisterFacts DEF AluInv
  <2>2. rd = (p % (W * W)) \div W /\ MUL(rs1, rs2) = p % W
    BY DEF AluInv, BinOp, MULHU, TruncLow, MUL, Trunc
  <2> HIDE DEF W
  <2>3. p \in Nat /\ p < W * W
    <3>1. W * rs1 + W <= W * W
      BY ONLY <2>1, Products
    <3>2. rs1 * rs2 <= rs1 * W
      <4>1. W = rs2 + (W - rs2) /\ W - rs2 \in Nat
        BY ONLY <2>1
      <4>2. rs1 * W = rs1 * rs2 + rs1 * (W - rs2) /\ rs1 * (W - rs2) >= 0
        <5> DEFINE d == W - rs2
        <5>1. W = rs2 + d /\ d \in Nat
          BY <4>1
        <5> HIDE DEF d
        <5>2. rs1 * W = rs1 * rs2 + rs1 * d /\ rs1 * d >= 0
          BY ONLY <2>1, <5>1
        <5> QED BY <5>2 DEF d
      <4>3. rs1 * rs2 \in Int /\ rs1 * (W - rs2) \in Int
        BY ONLY <2>1
      <4> QED BY ONLY <4>2, <4>3
    <3>3. rs1 * W = W * rs1 /\ W * rs1 \in Int /\ W * W \in Int /\ rs1 * rs2 \in Nat
      BY ONLY <2>1
    <3> QED BY ONLY <2>1, <3>1, <3>2, <3>3
  <2> HIDE DEF p
  <2>4. p % (W * W) = p
    <3> DEFINE D == W * W
    <3>1. D \in Nat \ {0} /\ p \in 0 .. D - 1
      BY ONLY <2>1, <2>3
    <3> HIDE DEF D
    <3> QED BY ONLY <3>1, SmallMod DEF D
  <2>5. p = W * (p \div W) + (p % W)
    BY ONLY <2>1, <2>3, DivMod
  <2>6. p \div W \in Int
    BY ONLY <2>1, <2>3
  <2>7. rd * W + MUL(rs1, rs2) = p
    BY ONLY <2>1, <2>2, <2>4, <2>5, <2>6
  <2> QED BY <2>7 DEF W, p
<1> QED BY <1>1, AlwaysAluInv, PTL

LEMMA MagnitudeFacts ==
  ASSUME NEW x \in Int
  PROVE  /\ Magnitude(x) \in Nat /\ Magnitude(-x) = Magnitude(x)
         /\ x >= 0 => Magnitude(x) = x
         /\ x <= 0 => Magnitude(x) = -x
BY DEF Magnitude

(* Division as the language has it.                                        *)
LEMMA QuotientFacts ==
  ASSUME NEW x \in Int, NEW y \in Int, y # 0
  PROVE  /\ Quotient(x, y) \in Int /\ Remainder(x, y) \in Int
         /\ x = Quotient(x, y) * y + Remainder(x, y)
         /\ Magnitude(Remainder(x, y)) < Magnitude(y)
         /\ Remainder(x, y) # 0 => (Remainder(x, y) < 0) = (x < 0)
         /\ Magnitude(Quotient(x, y)) <= Magnitude(x)
         /\ Magnitude(y) >= 2 /\ x # 0 => Magnitude(Quotient(x, y)) < Magnitude(x)
<1> DEFINE m == Magnitude(x)
           n == Magnitude(y)
           q == m \div n
           r == m % n
<1>1. m \in Nat /\ n \in Nat \ {0}
  BY MagnitudeFacts
<1>2. /\ x >= 0 => m = x
      /\ x < 0 => m = -x
      /\ y >= 0 => n = y
      /\ y < 0 => n = -y
  BY MagnitudeFacts
<1>3. /\ Quotient(x, y) = (IF (x < 0) = (y < 0) THEN q ELSE -q)
      /\ Remainder(x, y) = (IF x < 0 THEN -r ELSE r)
  BY DEF Quotient, Remainder
<1> HIDE DEF m, n
<1>4. q \in Int /\ r \in 0 .. n - 1 /\ m = n * q + r
  BY ONLY <1>1, DivMod
<1> HIDE DEF q, r
<1>5. q >= 0 /\ q <= m /\ (n >= 2 /\ m > 0 => q < m)
  <2>1. q >= 0
    <3>0. q \in Int
      BY <1>4
    <3> SUFFICES ASSUME q < 0 PROVE FALSE
      BY <3>0
    <3>1. n * q + n <= n * 0 /\ n * q \in Int
      BY ONLY <1>1, <1>4, q < 0, Products
    <3> QED BY ONLY <1>1, <1>4, <3>1
  <2>2. n * q = q + (n - 1) * q /\ (n - 1) * q >= 0 /\ (n - 1) * q \in Int
    <3> DEFINE k == n - 1
    <3>1. n = 1 + k /\ k \in Nat
      BY ONLY <1>1
    <3> HIDE DEF k
    <3>2. n * q = q + k * q /\ k * q >= 0 /\ k * q \in Int
      BY ONLY <1>4, <2>1, <3>1
    <3> QED BY ONLY <3>2 DEF k
  <2>3. ASSUME n >= 2 PROVE (n - 1) * q >= q
    <3> DEFINE k == n - 2
    <3>1. n - 1 = 1 + k /\ k \in Nat
      BY ONLY <1>1, <2>3
    <3> HIDE DEF k
    <3>2. (1 + k) * q = q + k * q /\ k * q >= 0 /\ k * q \in Int
      BY ONLY <1>4, <2>1, <3>1
    <3> QED BY ONLY <1>4, <3>1, <3>2
  <2> QED BY ONLY <1>1, <1>4, <2>1, <2>2, <2>3
<1>6. Quotient(x, y) \in Int /\ Remainder(x, y) \in Int
  BY ONLY <1>3, <1>4
<1>7. x = Quotient(x, y) * y + Remainder(x, y)
  <2>0. /\ n * q \in Int /\ q * n = n * q /\ q * (-n) = - (n * q)
        /\ (-q) * n = - (n * q) /\ (-q) * (-n) = n * q
    BY ONLY <1>1, <1>4
  <2>1. CASE x < 0 /\ y < 0
    <3>1. Quotient(x, y) = q /\ Remainder(x, y) = -r /\ x = -m /\ y = -n
      BY ONLY <1>1, <1>2, <1>3, <2>1, x \in Int, y \in Int
    <3> QED BY ONLY <1>4, <2>0, <3>1
  <2>2. CASE x < 0 /\ ~ (y < 0)
    <3>1. Quotient(x, y) = -q /\ Remainder(x, y) = -r /\ x = -m /\ y = n
      BY ONLY <1>1, <1>2, <1>3, <2>2, x \in Int, y \in Int
    <3> QED BY ONLY <1>4, <2>0, <3>1
  <2>3. CASE ~ (x < 0) /\ y < 0
    <3>1. Quotient(x, y) = -q /\ Remainder(x, y) = r /\ x = m /\ y = -n
      BY ONLY <1>1, <1>2, <1>3, <2>3, x \in Int, y \in Int
    <3> QED BY ONLY <1>4, <2>0, <3>1
  <2>4. CASE ~ (x < 0) /\ ~ (y < 0)
    <3>1. Quotient(x, y) = q /\ Remainder(x, y) = r /\ x = m /\ y = n
      BY ONLY <1>1, <1>2, <1>3, <2>4, x \in Int, y \in Int
    <3> QED BY ONLY <1>4, <2>0, <3>1
  <2> QED BY ONLY <2>1, <2>2, <2>3, <2>4
<1>8. Magnitude(Remainder(x, y)) = r
  <2>1. r \in Int /\ r >= 0
    BY ONLY <1>1, <1>4
  <2> QED BY ONLY <1>3, <2>1, MagnitudeFacts
<1>9. Magnitude(Quotient(x, y)) = q
  BY ONLY <1>3, <1>4, <1>5, MagnitudeFacts
<1>10. Remainder(x, y) # 0 => (Remainder(x, y) < 0) = (x < 0)
  BY ONLY <1>1, <1>3, <1>4
<1>11. x # 0 => m > 0
  BY ONLY <1>2, x \in Int
<1> QED BY ONLY <1>1, <1>4, <1>5, <1>6, <1>7, <1>8, <1>9, <1>10, <1>11 DEF m, n

LEMMA TruncOfSigned ==
  ASSUME NEW x \in Register
  PROVE  Trunc(Signed(x)) = x
<1>1. Signed(x) \in Int /\ (Signed(x) = x \/ Signed(x) = x - WordMod)
  BY SignedRange
<1>2. CASE Signed(x) = x
  <2>1. x \in Int
    BY RegisterFacts
  <2> QED BY <1>2, <2>1, TruncFacts
<1>3. CASE Signed(x) = x - WordMod
  <2> DEFINE z == Signed(x)
  <2>1. z \in Int /\ WordMod \in Nat \ {0} /\ x \in Nat /\ x < WordMod /\ z = x - WordMod
    BY <1>1, <1>3, RegisterFacts
  <2> HIDE DEF z
  <2>2. -WordMod <= z /\ z < 0 /\ z + WordMod = x
    BY ONLY <2>1
  <2>3. Trunc(z) = z + WordMod
    BY ONLY <2>1, <2>2, TruncFacts
  <2> QED BY <2>2, <2>3 DEF z
<1> QED BY <1>1, <1>2, <1>3

LEMMA SignedDivision ==
  ASSUME NEW a \in Register, NEW b \in Register
  PROVE  /\ Trunc(Signed(DIV(a, b)) * Signed(b) + Signed(REM(a, b))) = a
         /\ Signed(REM(a, b)) # 0 => (Signed(REM(a, b)) < 0) = (Signed(a) < 0)
         /\ b # 0 => Magnitude(Signed(REM(a, b))) < Magnitude(Signed(b))
         /\ b = 0 => Signed(DIV(a, b)) = -1
<1> DEFINE x == Signed(a)
           y == Signed(b)
           h == WordMod \div 2
           q == Quotient(x, y)
           r == Remainder(x, y)
<1>1. h \in Nat \ {0} /\ WordMod = 2 * h /\ a \in Nat /\ b \in Nat
  BY HalfWord, RegisterFacts
<1>2. x \in Int /\ y \in Int /\ -h <= x /\ x < h /\ -h <= y /\ y < h
  BY SignedRange
<1>3. b = 0 <=> y = 0
  <2>1. (y = b \/ y = b - WordMod) /\ b < WordMod
    BY SignedRange, RegisterFacts
  <2>2. b = 0 => y = b
    <3>1. y = b <=> b < h
      BY SignedRange
    <3> QED BY <1>1, <3>1
  <2> HIDE DEF y, h
  <2> QED BY ONLY <1>1, <2>1, <2>2
<1>4. \A z \in Int : -h <= z /\ z < h => Signed(Trunc(z)) = z
  BY TruncFacts
<1>5. Trunc(x) = a
  BY TruncOfSigned
<1>6. /\ DIV(a, b) = Trunc(IF b = 0 THEN -1 ELSE IF x = -h /\ y = -1 THEN -h ELSE q)
      /\ REM(a, b) = Trunc(IF b = 0 THEN x ELSE IF x = -h /\ y = -1 THEN 0 ELSE r)
  BY DEF DIV, REM, Overflows, MinSigned
<1>7. CASE b = 0
  <2>1. Signed(DIV(a, b)) = -1
    <3>1. -h <= -1 /\ -1 < h /\ -1 \in Int
      BY ONLY <1>1
    <3> QED BY <1>4, <1>6, <1>7, <3>1
  <2>2. Signed(REM(a, b)) = x
    BY <1>2, <1>4, <1>6, <1>7
  <2>3. (-1) * y + x = x
    BY <1>2, <1>3, <1>7
  <2> QED BY <1>5, <1>7, <2>1, <2>2, <2>3
<1>8. CASE b # 0 /\ x = -h /\ y = -1
  <2>1. Signed(DIV(a, b)) = -h
    <3>1. -h <= -h /\ -h < h /\ -h \in Int
      BY ONLY <1>1
    <3> QED BY <1>4, <1>6, <1>8, <3>1
  <2>2. Signed(REM(a, b)) = 0
    <3>1. -h <= 0 /\ 0 < h /\ 0 \in Int
      BY ONLY <1>1
    <3> QED BY <1>4, <1>6, <1>8, <3>1
  <2>3. a = h
    <3>1. (x = a \/ x = a - WordMod)
      BY SignedRange
    <3> HIDE DEF x, h
    <3> QED BY ONLY <1>1, <1>8, <3>1
  <2>4. (-h) * (-1) + 0 = h
    BY ONLY <1>1
  <2>5. Trunc(h) = h
    <3>1. h \in Int /\ h \in Register
      BY <1>1, <2>3
    <3> QED BY <3>1, TruncFacts
  <2>6. Magnitude(0) < Magnitude(-1)
    BY MagnitudeFacts
  <2> QED BY <1>8, <2>1, <2>2, <2>3, <2>4, <2>5, <2>6
<1>9. CASE b # 0 /\ ~ (x = -h /\ y = -1)
  <2>1. /\ q \in Int /\ r \in Int /\ x = q * y + r
        /\ Magnitude(r) < Magnitude(y)
        /\ r # 0 => (r < 0) = (x < 0)
        /\ Magnitude(q) <= Magnitude(x)
        /\ Magnitude(y) >= 2 /\ x # 0 => Magnitude(q) < Magnitude(x)
    BY <1>2, <1>3, <1>9, QuotientFacts
  <2>2. y = 1 /\ x < 0 => q <= 0
    <3> SUFFICES ASSUME y = 1, x < 0 PROVE q <= 0
      OBVIOUS
    <3>1. q * y = q
      BY <2>1
    <3>2. Magnitude(r) < 1 /\ Magnitude(r) \in Nat
      <4>1. Magnitude(1) = 1
        BY MagnitudeFacts
      <4> QED BY <2>1, <4>1, MagnitudeFacts
    <3>3. r = 0
      <4>1. (r >= 0 => Magnitude(r) = r) /\ (r <= 0 => Magnitude(r) = -r)
        BY <2>1, MagnitudeFacts
      <4> HIDE DEF r
      <4> QED BY ONLY <2>1, <3>2, <4>1
    <3> HIDE DEF x, y, q, r
    <3> QED BY ONLY <1>2, <2>1, <3>1, <3>3, x < 0
  <2>3. /\ Magnitude(x) = IF x < 0 THEN -x ELSE x
        /\ Magnitude(y) = IF y < 0 THEN -y ELSE y
        /\ Magnitude(q) = IF q < 0 THEN -q ELSE q
        /\ Magnitude(r) = IF r < 0 THEN -r ELSE r
    BY DEF Magnitude
  <2> HIDE DEF x, y, h, q, r
  <2>4. -h <= q /\ q < h /\ -h <= r /\ r < h
    <3>1. -h <= r /\ r < h
      BY ONLY <1>1, <1>2, <2>1, <2>3
    <3>2. CASE x = -h
      <4>1. CASE y = 1
        BY ONLY <1>1, <1>2, <2>1, <2>2, <2>3, <3>1, <3>2, <4>1
      <4>2. CASE y # 1
        <5>1. Magnitude(y) >= 2 /\ x # 0
          BY ONLY <1>1, <1>2, <1>3, <1>9, <2>3, <3>2, <4>2
        <5>2. Magnitude(q) < Magnitude(x)
          BY ONLY <2>1, <5>1
        <5> QED BY ONLY <1>1, <1>2, <2>1, <2>3, <3>1, <3>2, <5>2
      <4> QED BY ONLY <4>1, <4>2
    <3>3. CASE x # -h
      BY ONLY <1>1, <1>2, <2>1, <2>3, <3>1, <3>3
    <3> QED BY ONLY <3>2, <3>3
  <2>5. Signed(DIV(a, b)) = q /\ Signed(REM(a, b)) = r
    BY ONLY <1>4, <1>6, <1>9, <2>1, <2>4
  <2>6. Trunc(q * y + r) = a
    BY <1>5, <2>1
  <2> QED BY <1>9, <2>1, <2>5, <2>6 DEF x, y
<1> QED BY <1>7, <1>8, <1>9

LEMMA UnsignedDivision ==
  ASSUME NEW a \in Register, NEW b \in Register
  PROVE  /\ Trunc(DIVU(a, b) * b + REMU(a, b)) = a
         /\ b # 0 => REMU(a, b) < b
         /\ DIVU(a, b) \in Register /\ REMU(a, b) \in Register
<1>1. a \in Nat /\ b \in Nat /\ AllOnes \in Int /\ AllOnes \in Register /\ a < WordMod
      /\ b < WordMod /\ WordMod \in Nat
  BY RegisterFacts
<1>2. Trunc(a) = a
  BY <1>1, TruncFacts
<1>3. CASE b = 0
  <2>1. DIVU(a, b) = AllOnes /\ REMU(a, b) = a /\ AllOnes * b + a = a
    BY <1>1, <1>3 DEF DIVU, REMU
  <2> QED BY <1>1, <1>2, <1>3, <2>1
<1>4. CASE b # 0
  <2> DEFINE q == a \div b
             r == a % b
  <2>1. DIVU(a, b) = q /\ REMU(a, b) = r
    BY <1>4 DEF DIVU, REMU
  <2>2. q \in Int /\ r \in 0 .. b - 1 /\ a = b * q + r
    BY ONLY <1>1, <1>4, DivMod
  <2> HIDE DEF q, r
  <2>3. q * b + r = a
    BY ONLY <1>1, <2>2
  <2>4. r < b /\ r \in Register
    BY ONLY <1>1, <2>2 DEF Register
  <2>5. q \in Register
    <3>1. q >= 0 /\ q <= a
      <4>1. a \in 0 .. b * (a + 1) - 1
        <5>1. b * (a + 1) = b * a + b /\ b * a \in Int
          BY ONLY <1>1
        <5>2. b * a = a + (b - 1) * a /\ (b - 1) * a >= 0 /\ (b - 1) * a \in Int
          <6> DEFINE k == b - 1
          <6>1. b = 1 + k /\ k \in Nat
            BY ONLY <1>1, <1>4
          <6> HIDE DEF k
          <6>2. b * a = a + k * a /\ k * a >= 0 /\ k * a \in Int
            BY ONLY <1>1, <6>1
          <6> QED BY ONLY <6>2 DEF k
        <5> QED BY ONLY <1>1, <1>4, <5>1, <5>2
      <4> DEFINE c == a + 1
      <4>2. c \in Nat \ {0} /\ b \in Nat \ {0} /\ a < b * c
        <5>1. b * c \in Int
          BY ONLY <1>1
        <5> QED BY ONLY <1>1, <1>4, <4>1, <5>1
      <4> HIDE DEF c
      <4>3. a \div b \in 0 .. c - 1
        BY ONLY <1>1, <4>2, DivBelow
      <4> QED BY ONLY <1>1, <4>3 DEF c, q
    <3> QED BY ONLY <1>1, <2>2, <3>1 DEF Register
  <2> QED BY <1>2, <2>1, <2>3, <2>4, <2>5
<1> QED BY <1>3, <1>4

(* Quotient and remainder make up the dividend, for every pair of          *)
(* operands, a zero divisor and MIN / -1 included                          *)
(* (QuotientAndRemainderAgree: ext_m_cb.cpp:92-165).                       *)
THEOREM DivisionsAgree == Spec => []QuotientAndRemainderAgree
<1>1. AluInv => QuotientAndRemainderAgree
  <2> SUFFICES ASSUME AluInv PROVE QuotientAndRemainderAgree
    OBVIOUS
  <2>1. rs1 \in Register /\ rs2 \in Register
    BY DEF AluInv
  <2>2. /\ op = "REM" => rd = REM(rs1, rs2)
        /\ op = "REMU" => rd = REMU(rs1, rs2)
        /\ op = "DIV" => rd = DIV(rs1, rs2)
        /\ op = "DIVU" => rd = DIVU(rs1, rs2)
    BY DEF AluInv, BinOp
  <2>3. rs2 = 0 => DIVU(rs1, rs2) = AllOnes
    BY DEF DIVU
  <2> QED BY <2>1, <2>2, <2>3, SignedDivision, UnsignedDivision DEF QuotientAndRemainderAgree
<1> QED BY <1>1, AlwaysAluInv, PTL

-----------------------------------------------------------------------------
(* Shifts and rotates.                                                     *)

(* The mask of a count is a remainder: the width is a power of two.        *)
LEMMA MaskedCount ==
  ASSUME NEW b \in Register
  PROVE  And(b, XLen - 1) = b % XLen /\ b % XLen \in 0 .. XLen - 1
<1>1. PICK k \in 0 .. XLen : XLen = Pow2[k]
  BY WidthAssumption
<1>2. And(b, Pow2[k] - 1) = b % Pow2[k]
  BY LowMask
<1>3. b \in Nat /\ XLen \in Nat \ {0}
  BY RegisterFacts
<1>4. b % XLen \in 0 .. XLen - 1
  BY ONLY <1>3
<1> QED BY ONLY <1>1, <1>2, <1>4

LEMMA QuotientIsRegister ==
  ASSUME NEW a \in Register, NEW n \in 0 .. XLen
  PROVE  /\ a \div Pow2[n] \in Register
         /\ a \div Pow2[n] < Pow2[XLen - n]
<1>1. XLen \in Nat /\ a \in Nat /\ a < WordMod /\ WordMod = Pow2[XLen]
  BY RegisterFacts
<1>2. n \in 0 .. XLen /\ XLen - n \in 0 .. XLen - n /\ n + (XLen - n) = XLen /\ XLen - n \in 0 .. XLen
  BY ONLY <1>1, n \in 0 .. XLen
<1> DEFINE p == Pow2[n]
           q == Pow2[XLen - n]
<1>3. WordMod = p * q /\ p \in Nat \ {0} /\ q \in Nat \ {0} /\ q <= WordMod /\ WordMod \in Nat
  BY <1>1, <1>2, PowerOfSum, RegisterFacts
<1> HIDE DEF p, q
<1>4. a \div p \in 0 .. q - 1
  BY ONLY <1>1, <1>3, DivBelow
<1>5. a \div p \in Register /\ a \div p < q
  BY ONLY <1>3, <1>4 DEF Register
<1> QED BY <1>5 DEF p, q

LEMMA ShiftsAreRegisters ==
  ASSUME NEW a \in Register, NEW n \in Nat
  PROVE  Shl(a, n) \subseteq Register /\ Shr(a, n) \subseteq Register
<1>1. XLen \in Nat \ {0} /\ a \in Int /\ 0 \in Register
  BY RegisterFacts
<1>2. n % XLen \in 0 .. XLen /\ (n < XLen => n \in 0 .. XLen)
  BY ONLY <1>1, n \in Nat
<1>3. ASSUME NEW m \in 0 .. XLen
      PROVE  Trunc(a * Pow2[m]) \in Register /\ a \div Pow2[m] \in Register
  <2>1. a * Pow2[m] \in Int
    BY <1>1, RegisterFacts
  <2> QED BY <2>1, TruncFacts, QuotientIsRegister
<1> QED BY <1>1, <1>2, <1>3 DEF Shl, Shr

(* SRA is a division that rounds downwards.                                *)
LEMMA ArithmeticShift ==
  ASSUME NEW x \in Register, NEW s \in 0 .. XLen - 1
  PROVE  /\ ArithmRightShift(x, s) \in Register
         /\ Signed(ArithmRightShift(x, s)) = Signed(x) \div Pow2[s]
<1> DEFINE W == WordMod
           h == WordMod \div 2
           n == XLen - s
           p == Pow2[s]
           m == Pow2[XLen - s]
           logical == x \div p
           fill == Trunc(AllOnes * m)
<1>1. /\ XLen \in Nat \ {0} /\ W \in Nat \ {0} /\ x \in Nat /\ x < W
      /\ h \in Nat \ {0} /\ W = 2 * h /\ h = Pow2[XLen - 1] /\ W = Pow2[XLen]
  BY RegisterFacts, HalfWord
<1>2. /\ s \in 0 .. XLen /\ n \in 0 .. XLen /\ n \in 0 .. XLen - s /\ s + n = XLen
      /\ s < XLen /\ s \in Int
  BY ONLY <1>1, s \in 0 .. XLen - 1
<1>3. p \in Nat \ {0} /\ m \in Nat \ {0} /\ W = p * m
  BY <1>2, PowerOfSum, RegisterFacts
<1>4. CASE s = 0
  <2>1. ArithmRightShift(x, s) = x
    BY <1>4 DEF ArithmRightShift
  <2>2. p = 1 /\ Signed(x) \in Int
    BY <1>4, PowerSteps, SignedRange
  <2>3. Signed(x) \div 1 = Signed(x)
    BY ONLY <2>2
  <2> QED BY <2>1, <2>2, <2>3
<1>5. CASE s # 0
  <2>1. /\ ~ (s >= XLen)
        /\ ArithmRightShift(x, s) = IF IsBitSet(x, XLen - 1) THEN Or(logical, fill) ELSE logical
    <3>1. ~ (s >= XLen)
      BY ONLY <1>1, <1>2
    <3> QED BY <1>5, <3>1 DEF ArithmRightShift
  <2>2. logical \in Register /\ logical < m /\ logical \in Nat
    BY <1>2, QuotientIsRegister, RegisterFacts
  <2>3. m <= h
    <3>1. XLen - 1 \in n .. XLen
      BY ONLY <1>1, <1>2, <1>5
    <3> QED BY <1>1, <1>2, <3>1, PowersGrow
  <2>4. CASE ~ IsBitSet(x, XLen - 1)
    <3>1. Signed(x) = x
      BY <2>4, SignOf
    <3>2. logical < h
      BY ONLY <1>1, <1>3, <2>2, <2>3
    <3>3. Signed(logical) = logical
      BY <2>2, <3>2, SignedRange
    <3> QED BY <2>1, <2>2, <2>4, <3>1, <3>3
  <2>5. CASE IsBitSet(x, XLen - 1)
    <3>1. Signed(x) = x - W
      BY <2>5, SignOf
    <3>2. fill = W - m
      <4>1. fill = ((W - 1) * m) % W
        BY DEF AllOnes, Trunc
      <4> HIDE DEF fill, m, h, p, logical, n, W
      <4> DEFINE q == m - 1  r == W - m
      <4>2. q \in Int /\ r \in 0 .. W - 1 /\ (W - 1) * m = W * q + r
        BY ONLY <1>1, <1>3, <2>3
      <4> HIDE DEF q, r
      <4>3. (W * q + r) % W = r
        BY ONLY <1>1, <4>2, DivIsUnique
      <4> QED BY ONLY <4>1, <4>2, <4>3 DEF r
    <3>3. fill \in Register /\ fill \in Nat
      <4> HIDE DEF fill, m, h, p, logical, n
      <4> QED BY ONLY <1>1, <1>3, <2>3, <3>2 DEF Register
    <3>4. ASSUME NEW i \in Positions PROVE ~ (IsBitSet(logical, i) /\ IsBitSet(fill, i))
      <4>0. i \in 0 .. XLen - 1
        BY DEF Positions
      <4>1. CASE i >= n
        <5>1. i \in n .. XLen
          BY ONLY <1>1, <1>2, <4>0, <4>1
        <5> HIDE DEF logical, n
        <5>2. logical < Pow2[n]
          BY <2>2 DEF n
        <5> QED BY ONLY <1>2, <2>2, <5>1, <5>2, HighBits
      <4>2. CASE i < n
        <5>1. fill = (p - 1) * Pow2[n] /\ p - 1 \in Int
          <6>1. W - m = (p - 1) * m
            <7> HIDE DEF p, m, W
            <7> QED BY ONLY <1>3
          <6> QED BY <1>3, <3>2, <6>1
        <5> HIDE DEF fill, n
        <5>2. IsBitSet((p - 1) * Pow2[n], i) => i >= n
          <6> DEFINE k == p - 1
          <6>1. k \in Int
            BY <5>1
          <6> HIDE DEF k
          <6>2. IsBitSet(k * Pow2[n], i) => i >= n
            BY ONLY <1>2, <4>0, <6>1, BitOfMultiple
          <6> QED BY <6>2 DEF k
        <5>3. ~ (i >= n)
          BY ONLY <1>2, <4>0, <4>2
        <5> QED BY <5>1, <5>2, <5>3
      <4>3. i >= n \/ i < n
        BY ONLY <1>2, <4>0
      <4> QED BY ONLY <4>1, <4>2, <4>3
    <3>5. Or(logical, fill) = logical + fill
      <4> HIDE DEF logical, fill
      <4> QED BY ONLY <2>2, <3>3, <3>4, DisjointOr
    <3>6. (x - W) \div p = logical - m
      <4> DEFINE k == -m
      <4>1. k \in Int /\ x \in Int
        BY ONLY <1>1, <1>3
      <4>2. x - W = x + p * k
        <5> HIDE DEF p, m, W
        <5> QED BY ONLY <1>1, <1>3
      <4>3. (x + p * k) \div p = (x \div p) + k
        <5> HIDE DEF p, k
        <5> QED BY ONLY <1>3, <4>1, AddMultiple
      <4>4. (x \div p) + k = logical - m
        <5>1. x \div p \in Int
          BY <2>2
        <5> HIDE DEF p, m
        <5> QED BY ONLY <1>3, <5>1
      <4> QED BY ONLY <4>2, <4>3, <4>4
    <3>7. logical + fill \in Register /\ Signed(logical + fill) = logical - m
      <4> DEFINE y == logical + fill
      <4>1. Signed(y) = IF y < h THEN y ELSE y - W
        BY DEF Signed
      <4> HIDE DEF h, W, logical, fill, m
      <4>2. y \in 0 .. W - 1 /\ ~ (y < h) /\ y - W = logical - m
        BY ONLY <1>1, <1>3, <2>2, <2>3, <3>2, <3>3
      <4>3. y \in Register
        BY ONLY <4>2 DEF Register, W
      <4> QED BY ONLY <4>1, <4>2, <4>3
    <3> QED BY ONLY <2>1, <2>5, <3>1, <3>5, <3>6, <3>7
  <2> QED BY ONLY <2>4, <2>5
<1> QED BY ONLY <1>4, <1>5

(* Shifts are exact: SRA for every count, taken modulo the width, SLL and  *)
(* SRL for the counts below it (ShiftsAreExact: ext_i_cb.cpp).             *)
THEOREM ShiftsDivideAndMultiply == Spec => []ShiftsAreExact
<1>1. AluInv => ShiftsAreExact
  <2> SUFFICES ASSUME AluInv PROVE ShiftsAreExact
    OBVIOUS
  <2>1. rs1 \in Register /\ rs2 \in Register
    BY DEF AluInv
  <2>2. ASSUME op = "SRA" PROVE Signed(rd) = Signed(rs1) \div Pow2[rs2 % XLen]
    <3>1. rd = ArithmRightShift(rs1, And(rs2, XLen - 1))
      BY <2>2 DEF AluInv, BinOp, SRA
    <3>2. And(rs2, XLen - 1) = rs2 % XLen /\ rs2 % XLen \in 0 .. XLen - 1
      BY <2>1, MaskedCount
    <3> QED BY <2>1, <3>1, <3>2, ArithmeticShift
  <2>3. ASSUME op = "SRL", rs2 < XLen PROVE rd = rs1 \div Pow2[rs2]
    BY <2>3 DEF AluInv, BinOp, SRL, Shr
  <2>4. ASSUME op = "SLL", rs2 < XLen PROVE rd = (rs1 * Pow2[rs2]) % WordMod
    BY <2>4 DEF AluInv, BinOp, SLL, Shl, Trunc
  <2> QED BY <2>2, <2>3, <2>4 DEF ShiftsAreExact
<1> QED BY <1>1, AlwaysAluInv, PTL

(* The two shifts of a rotation by n bring each bit to its place.          *)
LEMMA ShiftPair ==
  ASSUME NEW a \in Register, NEW n \in 1 .. XLen - 1, NEW j \in Positions
  PROVE  /\ IsBitSet(Trunc(a * Pow2[n]), j) <=> j >= n /\ IsBitSet(a, j - n)
         /\ IsBitSet(a \div Pow2[XLen - n], j) <=> j < n /\ IsBitSet(a, XLen - n + j)
<1>1. /\ XLen \in Nat \ {0} /\ a \in Int /\ a \in Nat /\ WordMod = Pow2[XLen]
      /\ j \in 0 .. XLen - 1
  BY RegisterFacts DEF Positions
<1>2. /\ n \in 0 .. XLen /\ XLen - n \in 0 .. XLen /\ XLen \in 0 .. XLen
      /\ XLen - (XLen - n) = n
  BY ONLY <1>1, n \in 1 .. XLen - 1
<1>3. IsBitSet(Trunc(a * Pow2[n]), j) <=> IsBitSet(a * Pow2[n], j)
  <2> DEFINE v == a * Pow2[n]
  <2>1. v \in Int
    BY <1>1, <1>2, RegisterFacts
  <2>2. Trunc(v) = v % Pow2[XLen]
    BY <1>1 DEF Trunc
  <2> HIDE DEF v
  <2>3. IsBitSet(v % Pow2[XLen], j) <=> IsBitSet(v, j)
    BY ONLY <1>1, <1>2, <2>1, BitOfLow
  <2> QED BY <2>2, <2>3 DEF v
<1>4. IsBitSet(a * Pow2[n], j) <=> j >= n /\ IsBitSet(a, j - n)
  BY ONLY <1>1, <1>2, BitOfMultiple
<1>5. CASE j < n
  <2> DEFINE k == XLen - n
  <2>1. k \in 0 .. XLen /\ j \in 0 .. XLen - k /\ k + j = XLen - n + j
    BY ONLY <1>1, <1>2, <1>5
  <2> HIDE DEF k
  <2>2. IsBitSet(a \div Pow2[k], j) <=> IsBitSet(a, k + j)
    BY ONLY <1>1, <2>1, BitOfQuotient
  <2> QED BY <1>3, <1>4, <1>5, <2>1, <2>2 DEF k
<1>6. CASE ~ (j < n)
  <2> DEFINE y == a \div Pow2[XLen - n]
  <2>1. y \in Register /\ y < Pow2[XLen - (XLen - n)]
    BY <1>2, QuotientIsRegister
  <2>2. y \in Nat /\ y < Pow2[n]
    BY <1>2, <2>1, RegisterFacts
  <2>3. j \in n .. XLen
    BY ONLY <1>1, <1>2, <1>6
  <2> HIDE DEF y
  <2>4. ~ IsBitSet(y, j)
    BY ONLY <1>2, <2>2, <2>3, HighBits
  <2> QED BY <1>3, <1>4, <1>6, <2>4 DEF y
<1> QED BY <1>5, <1>6

LEMMA NoShift ==
  ASSUME NEW a \in Register
  PROVE  /\ Shl(a, 0) = {a} /\ Shr(a, 0) = {a}
         /\ Shl(a, XLen) = {a, 0} /\ Shr(a, XLen) = {a, 0}
<1>1. XLen \in Nat \ {0} /\ a \in Int /\ Pow2[0] = 1
  BY PowerSteps, RegisterFacts
<1>2. 0 < XLen /\ ~ (XLen < XLen) /\ XLen % XLen = 0 /\ a * 1 = a /\ a \div 1 = a
  BY ONLY <1>1
<1>3. Trunc(a) = a
  BY <1>1, TruncFacts
<1> QED BY <1>1, <1>2, <1>3 DEF Shl, Shr

LEMMA RotateBits ==
  ASSUME NEW a \in Register, NEW s \in 0 .. XLen - 1, NEW j \in Positions
  PROVE  /\ \A y \in RotateLeft(a, s) :
              IsBitSet(y, j) <=> IsBitSet(a, IF j >= s THEN j - s ELSE XLen - s + j)
         /\ \A y \in RotateRight(a, s) :
              IsBitSet(y, j) <=> IsBitSet(a, IF s + j < XLen THEN s + j ELSE s + j - XLen)
<1>1. /\ XLen \in Nat \ {0} /\ j \in 0 .. XLen - 1 /\ s \in Nat /\ s < XLen /\ 0 \in Register
  BY RegisterFacts DEF Positions
<1>2. CASE s = 0
  <2>1. /\ \A y \in RotateLeft(a, s) : y = Or(a, a) \/ y = Or(a, 0)
        /\ \A y \in RotateRight(a, s) : y = Or(a, a) \/ y = Or(a, 0)
    <3>1. XLen - s = XLen
      BY ONLY <1>1, <1>2
    <3>2. Shl(a, s) = {a} /\ Shr(a, s) = {a} /\ Shl(a, XLen - s) = {a, 0} /\ Shr(a, XLen - s) = {a, 0}
      BY <1>2, <3>1, NoShift
    <3> QED BY <3>2 DEF RotateLeft, RotateRight
  <2>2. ~ IsBitSet(0, j)
    <3>1. 0 \in Nat /\ 0 < Pow2[0] /\ 0 \in 0 .. XLen /\ j \in 0 .. XLen
      BY <1>1, PowerSteps
    <3> QED BY <3>1, HighBits
  <2>3. (IsBitSet(Or(a, a), j) <=> IsBitSet(a, j)) /\ (IsBitSet(Or(a, 0), j) <=> IsBitSet(a, j))
    BY <2>2, BitwiseBits
  <2>4. (IF j >= s THEN j - s ELSE XLen - s + j) = j
        /\ (IF s + j < XLen THEN s + j ELSE s + j - XLen) = j
    BY ONLY <1>1, <1>2
  <2> QED BY <2>1, <2>3, <2>4
<1>3. CASE s # 0
  <2> DEFINE n == XLen - s
  <2>1. /\ s \in 1 .. XLen - 1 /\ n \in 1 .. XLen - 1 /\ XLen - n = s
        /\ s < XLen /\ n < XLen
    BY ONLY <1>1, <1>3
  <2>2. /\ RotateLeft(a, s) = {Or(Trunc(a * Pow2[s]), a \div Pow2[XLen - s])}
        /\ RotateRight(a, s) = {Or(a \div Pow2[s], Trunc(a * Pow2[n]))}
    BY <2>1 DEF RotateLeft, RotateRight, Shl, Shr
  <2>3. /\ IsBitSet(Trunc(a * Pow2[s]), j) <=> j >= s /\ IsBitSet(a, j - s)
        /\ IsBitSet(a \div Pow2[XLen - s], j) <=> j < s /\ IsBitSet(a, XLen - s + j)
    BY ONLY <2>1, a \in Register, j \in Positions, ShiftPair
  <2>4. /\ IsBitSet(Trunc(a * Pow2[n]), j) <=> j >= n /\ IsBitSet(a, j - n)
        /\ IsBitSet(a \div Pow2[XLen - n], j) <=> j < n /\ IsBitSet(a, XLen - n + j)
    <3> HIDE DEF n
    <3> QED BY ONLY <2>1, a \in Register, j \in Positions, ShiftPair
  <2>5. IsBitSet(Or(Trunc(a * Pow2[s]), a \div Pow2[XLen - s]), j)
          <=> IsBitSet(a, IF j >= s THEN j - s ELSE XLen - s + j)
    <3>1. j >= s <=> ~ (j < s)
      BY ONLY <1>1
    <3> QED BY <2>3, <3>1, BitwiseBits
  <2>6. IsBitSet(Or(a \div Pow2[s], Trunc(a * Pow2[n])), j)
          <=> IsBitSet(a, IF s + j < XLen THEN s + j ELSE s + j - XLen)
    <3>1. /\ j >= n <=> ~ (j < n)
          /\ j < n <=> s + j < XLen
          /\ j - n = s + j - XLen /\ XLen - n + j = s + j
      BY ONLY <1>1
    <3>2. IsBitSet(a \div Pow2[s], j) <=> j < n /\ IsBitSet(a, s + j)
      BY <2>1, <2>4, <3>1
    <3> QED BY <2>4, <3>1, <3>2, BitwiseBits
  <2> QED BY <2>2, <2>5, <2>6
<1> QED BY <1>2, <1>3

(* A rotation moves every bit around the end of the register, whatever an  *)
(* undefined shift gives (RotatesKeepEveryBit: ext_zbb_cb.cpp:242-276).    *)
THEOREM RotationsMoveBits == Spec => []RotatesKeepEveryBit
<1>1. AluInv => RotatesKeepEveryBit
  <2> SUFFICES ASSUME AluInv, NEW i \in Positions
               PROVE  /\ op = "ROL" => (Bit(rd, (i + rs2) % XLen) <=> Bit(rs1, i))
                      /\ op = "ROR" => (Bit(rd, i) <=> Bit(rs1, (i + rs2) % XLen))
    BY DEF RotatesKeepEveryBit
  <2> DEFINE s == rs2 % XLen
             j == (i + rs2) % XLen
  <2>1. /\ rs1 \in Register /\ rs2 \in Register /\ rs2 \in Nat
        /\ XLen \in Nat \ {0} /\ i \in 0 .. XLen - 1
    BY RegisterFacts DEF AluInv, Positions
  <2>2. And(rs2, XLen - 1) = s /\ s \in 0 .. XLen - 1
    BY <2>1, MaskedCount
  <2>3. j = IF i + s < XLen THEN i + s ELSE i + s - XLen
    <3> DEFINE q == rs2 \div XLen
    <3>1. q \in Int /\ rs2 = XLen * q + s
      BY ONLY <2>1, DivMod
    <3> HIDE DEF s, q
    <3>2. i + rs2 = (i + s) + XLen * q /\ i + s \in Int
      BY ONLY <2>1, <2>2, <3>1
    <3>3. ((i + s) + XLen * q) % XLen = (i + s) % XLen
      <4> DEFINE v == i + s
      <4>1. v \in Int
        BY <3>2
      <4> HIDE DEF v
      <4>2. (v + XLen * q) % XLen = v % XLen
        BY ONLY <2>1, <3>1, <4>1, AddMultiple
      <4> QED BY ONLY <4>2 DEF v
    <3>4. (i + s) % XLen = IF i + s < XLen THEN i + s ELSE i + s - XLen
      <4> DEFINE v == i + s  w == i + s - XLen
      <4>1. CASE v < XLen
        <5>1. v \in 0 .. XLen - 1
          BY ONLY <2>1, <2>2, <4>1
        <5> HIDE DEF v
        <5>2. v % XLen = v
          BY ONLY <2>1, <5>1, SmallMod
        <5> QED BY ONLY <4>1, <5>2 DEF v
      <4>2. CASE ~ (v < XLen)
        <5> DEFINE one == 1
        <5>1. w \in 0 .. XLen - 1 /\ v = XLen * one + w /\ one \in Int
          BY ONLY <2>1, <2>2, <4>2
        <5> HIDE DEF v, w, one
        <5>2. (XLen * one + w) % XLen = w
          BY ONLY <2>1, <5>1, DivIsUnique
        <5>3. v % XLen = w
          BY ONLY <5>1, <5>2
        <5> QED BY ONLY <4>2, <5>3 DEF v, w
      <4> QED BY ONLY <4>1, <4>2
    <3> QED BY ONLY <3>2, <3>3, <3>4
  <2>4. j \in Positions /\ j \in 0 .. XLen - 1
    <3> HIDE DEF s, j
    <3>1. j \in 0 .. XLen - 1
      BY ONLY <2>1, <2>2, <2>3
    <3> QED BY <3>1 DEF Positions
  <2>5. ASSUME op = "ROL" PROVE Bit(rd, j) <=> Bit(rs1, i)
    <3>1. rd \in RotateLeft(rs1, s)
      BY <2>2, <2>5 DEF AluInv, BinOp, ROL
    <3> HIDE DEF s, j
    <3>2. IsBitSet(rd, j) <=> IsBitSet(rs1, IF j >= s THEN j - s ELSE XLen - s + j)
      BY <2>1, <2>2, <2>4, <3>1, RotateBits
    <3>3. (IF j >= s THEN j - s ELSE XLen - s + j) = i
      BY ONLY <2>1, <2>2, <2>3, <2>4
    <3> QED BY <3>2, <3>3 DEF Bit
  <2>6. ASSUME op = "ROR" PROVE Bit(rd, i) <=> Bit(rs1, j)
    <3>1. rd \in RotateRight(rs1, s)
      BY <2>2, <2>6 DEF AluInv, BinOp, ROR
    <3> HIDE DEF s, j
    <3>2. IsBitSet(rd, i) <=> IsBitSet(rs1, IF s + i < XLen THEN s + i ELSE s + i - XLen)
      BY <2>1, <2>2, <3>1, RotateBits
    <3>3. (IF s + i < XLen THEN s + i ELSE s + i - XLen) = j
      BY ONLY <2>1, <2>2, <2>3
    <3> QED BY <3>2, <3>3 DEF Bit
  <2> QED BY <2>5, <2>6
<1> QED BY <1>1, AlwaysAluInv, PTL

-----------------------------------------------------------------------------
(* Sign extension and the loops over bytes.                                *)

LEMMA SignExtension ==
  ASSUME NEW a \in Register, NEW n \in 1 .. XLen
  PROVE  LET v == a % Pow2[n]
         IN  /\ SignExt(a, n) \in Register
             /\ Signed(SignExt(a, n)) = IF v < Pow2[n - 1] THEN v ELSE v - Pow2[n]
<1> DEFINE v == a % Pow2[n]
           p == Pow2[n]
           g == Pow2[n - 1]
           W == WordMod
           h == WordMod \div 2
           ones == Pow2[n] - 1
<1>1. XLen \in Nat \ {0} /\ W \in Nat \ {0} /\ h \in Nat /\ W = 2 * h /\ h = Pow2[XLen - 1]
  BY RegisterFacts, HalfWord
<1>2. n \in 0 .. XLen /\ n - 1 \in 0 .. XLen - 1 /\ n - 1 \in 0 .. XLen /\ (n - 1) + 1 = n
      /\ XLen - 1 \in n - 1 .. XLen
  BY ONLY <1>1, n \in 1 .. XLen
<1>3. p \in Nat \ {0} /\ g \in Nat \ {0} /\ p = 2 * g /\ p <= W /\ g <= h
  BY <1>1, <1>2, PowerSteps, RegisterFacts, PowersGrow
<1>4. And(a, ones) = v /\ v \in Register /\ v < p /\ v \in Nat
  BY <1>2, LowMask, RegisterFacts
<1>5. IsBitSet(v, n - 1) <=> v >= g
  <2> HIDE DEF v
  <2> QED BY ONLY <1>4, n \in 1 .. XLen, SignBit DEF p, g
<1>6. SignExt(a, n) = IF v >= g THEN Or(v, Not(ones)) ELSE v
  BY <1>4, <1>5 DEF SignExt
<1>7. CASE ~ (v >= g)
  <2>1. v < h
    <3> HIDE DEF v, g, h, p
    <3> QED BY ONLY <1>1, <1>3, <1>4, <1>7
  <2>2. Signed(v) = v
    BY <1>4, <2>1 DEF Signed
  <2>3. v < g
    <3> HIDE DEF v, g
    <3> QED BY ONLY <1>3, <1>4, <1>7
  <2> QED BY ONLY <1>4, <1>6, <1>7, <2>2, <2>3
<1>8. CASE v >= g
  <2>1. ones \in Register /\ Not(ones) \in Register
    BY <1>2, BitsOfOnes, NotBits
  <2>2. Not(ones) = W - p
    <3> HIDE DEF p, W
    <3>1. p \in Int /\ W \in Int
      BY ONLY <1>1, <1>3
    <3>2. Not(ones) = (W - 1) - (p - 1)
      BY DEF Not, AllOnes, p, W
    <3> QED BY ONLY <3>1, <3>2
  <2>3. ASSUME NEW i \in Positions PROVE ~ (IsBitSet(v, i) /\ IsBitSet(Not(ones), i))
    <3>1. IsBitSet(Not(ones), i) <=> ~ (i < n)
      BY <1>2, <2>1, BitsOfOnes, NotBits
    <3>2. ASSUME ~ (i < n) PROVE ~ IsBitSet(v, i)
      <4>1. i \in n .. XLen
        BY <1>1, <1>2, <3>2 DEF Positions
      <4> HIDE DEF v
      <4> QED BY ONLY <1>2, <1>4, <4>1, HighBits DEF p
    <3> QED BY <3>1, <3>2
  <2>4. Or(v, Not(ones)) = v + (W - p)
    <3>1. Or(v, Not(ones)) = v + Not(ones)
      <4> DEFINE y == Not(ones)
      <4> HIDE DEF v, y
      <4> QED BY ONLY <1>4, <2>1, <2>3, DisjointOr DEF y
    <3> QED BY ONLY <2>2, <3>1
  <2> DEFINE y == v + (W - p)
  <2>5. Signed(y) = IF y < h THEN y ELSE y - W
    BY DEF Signed
  <2> HIDE DEF v, p, g, h, W
  <2>6. y \in 0 .. W - 1 /\ ~ (y < h) /\ y - W = v - p /\ ~ (v < g)
    BY ONLY <1>1, <1>3, <1>4, <1>8
  <2>7. y \in Register
    BY ONLY <2>6 DEF Register, W
  <2>8. SignExt(a, n) = y
    BY ONLY <1>6, <1>8, <2>4
  <2>9. SignExt(a, n) \in Register /\ Signed(SignExt(a, n)) = IF v < g THEN v ELSE v - p
    BY ONLY <2>5, <2>6, <2>7, <2>8
  <2> QED BY <2>9 DEF v, p, g
<1> QED BY <1>7, <1>8

(* Sign extension by masks keeps the value of the low byte or half word,   *)
(* for every register (ExtensionsKeepTheValue: isa_hlp.hpp:122-146).       *)
THEOREM ExtensionsAreExact == Spec => []ExtensionsKeepTheValue
<1>1. AluInv => ExtensionsKeepTheValue
  <2> SUFFICES ASSUME AluInv PROVE ExtensionsKeepTheValue
    OBVIOUS
  <2>1. rs1 \in Register /\ CharBit \in 1 .. XLen /\ 2 * CharBit \in 1 .. XLen
    BY WidthAssumption DEF AluInv
  <2>2. /\ op = "SEXT_B" => rd = SignExt(rs1, CharBit)
        /\ op = "SEXT_H" => rd = SignExt(rs1, 2 * CharBit)
        /\ op = "ZEXT_H" => rd = rs1 % Pow2[2 * CharBit]
    BY DEF AluInv, BinOp, SEXT_B, SEXT_H, ZEXT_H
  <2>3. \A n \in 1 .. XLen :
          Signed(SignExt(rs1, n)) = IF rs1 % Pow2[n] < Pow2[n - 1] THEN rs1 % Pow2[n]
                                    ELSE (rs1 % Pow2[n]) - Pow2[n]
    BY <2>1, SignExtension
  <2> QED BY <2>1, <2>2, <2>3 DEF ExtensionsKeepTheValue
<1> QED BY <1>1, AlwaysAluInv, PTL

(* Where the bytes of a register are.                                      *)
LEMMA BytePlaces ==
  /\ WordBytes \in Nat /\ CharBit \in Nat \ {0} /\ CharBit \in 0 .. XLen
  /\ WordBytes * CharBit = XLen
  /\ \A i \in 0 .. WordBytes :
       i * CharBit \in 0 .. XLen /\ (i + 1) * CharBit = i * CharBit + CharBit
  /\ \A i \in 0 .. WordBytes : \A j \in 0 .. i - 1 :
       j * CharBit \in 0 .. XLen /\ j * CharBit + CharBit <= i * CharBit
<1> DEFINE C == CharBit
           B == WordBytes
<1>1. /\ C \in Nat \ {0} /\ XLen \in Nat \ {0} /\ XLen % C = 0 /\ 2 * C <= XLen
      /\ B = XLen \div C
  BY WidthAssumption DEF WordBytes
<1> HIDE DEF B, C
<1>2. XLen = C * B /\ B \in Int
  <2>1. XLen = C * (XLen \div C) + (XLen % C) /\ XLen \div C \in Int
    BY ONLY <1>1, DivMod
  <2>2. C * (XLen \div C) \in Int
    BY ONLY <1>1, <2>1
  <2> QED BY ONLY <1>1, <2>1, <2>2
<1>3. B \in Nat
  <2>1. XLen \in Nat /\ XLen < C * (XLen + 1)
    <3>1. C * (XLen + 1) = (XLen + 1) + (C - 1) * (XLen + 1) /\ (C - 1) * (XLen + 1) >= 0
          /\ (C - 1) * (XLen + 1) \in Int
      <4> DEFINE k == C - 1
      <4>1. C = 1 + k /\ k \in Nat
        BY ONLY <1>1
      <4> HIDE DEF k
      <4>2. C * (XLen + 1) = (XLen + 1) + k * (XLen + 1) /\ k * (XLen + 1) >= 0
            /\ k * (XLen + 1) \in Int
        BY ONLY <1>1, <4>1
      <4> QED BY ONLY <4>2 DEF k
    <3> QED BY ONLY <1>1, <3>1
  <2> DEFINE d == XLen + 1
  <2>2. d \in Nat \ {0} /\ XLen < C * d
    BY <2>1
  <2> HIDE DEF d
  <2>3. XLen \div C \in 0 .. d - 1
    BY ONLY <1>1, <2>2, DivBelow
  <2> QED BY ONLY <1>1, <2>2, <2>3
<1>4. ASSUME NEW i \in 0 .. B, NEW j \in 0 .. i - 1
      PROVE  j * C \in 0 .. XLen /\ j * C + C <= i * C
  <2>1. j \in Int /\ i \in Int /\ j < i /\ i <= B /\ j >= 0
    BY ONLY <1>3, i \in 0 .. B, j \in 0 .. i - 1
  <2>2. C * j + C <= C * i
    BY ONLY <1>1, <2>1, Products
  <2>3. C * j + C <= C * B
    <3>1. j < B
      BY ONLY <1>2, <2>1
    <3> QED BY ONLY <1>1, <1>2, <2>1, <3>1, Products
  <2>4. j * C = C * j /\ i * C = C * i /\ C * j \in Nat /\ C * i \in Int
    BY ONLY <1>1, <2>1
  <2> QED BY ONLY <1>1, <1>2, <2>2, <2>3, <2>4
<1>5. ASSUME NEW i \in 0 .. B
      PROVE  i * C \in 0 .. XLen /\ (i + 1) * C = i * C + C
  <2>1. (i + 1) * C = i * C + C
    BY ONLY <1>1, i \in 0 .. B
  <2>2. CASE i = B
    BY ONLY <1>1, <1>2, <2>1, <2>2
  <2>3. CASE i # B
    <3>1. i \in 0 .. B - 1 /\ B \in 0 .. B
      BY ONLY <1>3, <2>3, i \in 0 .. B
    <3> QED BY <1>4, <2>1, <3>1
  <2> QED BY ONLY <2>2, <2>3
<1>6. C \in 0 .. XLen /\ B * C = XLen
  BY ONLY <1>1, <1>2
<1> QED BY <1>1, <1>3, <1>4, <1>5, <1>6 DEF B, C

(* A byte does not depend on what is above it.                             *)
LEMMA ByteOfLow ==
  ASSUME NEW v \in Int, NEW i \in 0 .. WordBytes, NEW j \in 0 .. i - 1
  PROVE  GetByte(v % Pow2[i * CharBit], j) = GetByte(v, j)
<1> DEFINE s == i * CharBit
           t == j * CharBit
           a == Pow2[t]
           c == Pow2[CharBit]
           d == Pow2[s - t - CharBit]
<1>1. /\ s \in 0 .. XLen /\ t \in 0 .. XLen /\ t + CharBit <= s
      /\ CharBit \in 0 .. XLen /\ XLen \in Nat
  BY BytePlaces, RegisterFacts
<1> HIDE DEF s, t
<1>2. /\ CharBit \in 0 .. XLen - t
      /\ t + CharBit \in 0 .. XLen
      /\ s - t - CharBit \in 0 .. XLen - (t + CharBit)
      /\ (t + CharBit) + (s - t - CharBit) = s
  BY ONLY <1>1
<1>3. /\ Pow2[t + CharBit] = a * c /\ Pow2[s] = Pow2[t + CharBit] * d
      /\ s - t - CharBit \in 0 .. XLen
  <2> DEFINE m == t + CharBit
             k == s - t - CharBit
  <2>1. m \in 0 .. XLen /\ k \in 0 .. XLen - m /\ m + k = s
    BY <1>2
  <2> HIDE DEF m, k
  <2>2. Pow2[m + k] = Pow2[m] * Pow2[k] /\ k \in 0 .. XLen
    BY ONLY <2>1, PowerOfSum
  <2>3. Pow2[t + CharBit] = Pow2[t] * Pow2[CharBit]
    BY ONLY <1>1, <1>2, PowerOfSum
  <2> QED BY <2>1, <2>2, <2>3 DEF m, k
<1>4. a \in Nat \ {0} /\ c \in Nat \ {0} /\ d \in Nat \ {0}
  BY <1>1, <1>3, RegisterFacts
<1>5. /\ GetByte(v % Pow2[s], j) = ((v % Pow2[s]) \div a) % c
      /\ GetByte(v, j) = (v \div a) % c
  BY DEF GetByte, t
<1> HIDE DEF a, c, d
<1>6. Pow2[s] = a * (c * d) /\ c * d \in Nat \ {0}
  <2>1. (a * c) * d = a * (c * d) /\ c * d \in Nat \ {0}
    BY ONLY <1>4
  <2> QED BY ONLY <1>3, <2>1
<1>7. (v % (a * (c * d))) \div a = (v \div a) % (c * d)
  <2> DEFINE e == c * d
  <2>1. e \in Nat \ {0}
    BY <1>6
  <2> HIDE DEF e
  <2>2. (v % (a * e)) \div a = (v \div a) % e
    BY ONLY <1>4, <2>1, v \in Int, ModOfProduct
  <2> QED BY ONLY <2>2 DEF e
<1>8. ((v \div a) % (c * d)) % c = (v \div a) % c
  <2> DEFINE w == v \div a
  <2>1. w \in Int
    BY ONLY <1>4, v \in Int
  <2> HIDE DEF w
  <2>2. (w % (c * d)) % c = w % c
    BY ONLY <1>4, <2>1, ModOfProduct
  <2> QED BY ONLY <2>2 DEF w
<1> QED BY ONLY <1>5, <1>6, <1>7, <1>8 DEF s

(* SetByte above all bits that are set adds the byte at its place: the     *)
(* mask clears nothing, and the bits of the two parts are apart.           *)
LEMMA SetByteAdds ==
  ASSUME NEW i \in ByteIndex, NEW x \in Nat, x < Pow2[i * CharBit],
         NEW b \in 0 .. Pow2[CharBit] - 1
  PROVE  /\ SetByte(x, b, i) \in 0 .. Pow2[(i + 1) * CharBit] - 1
         /\ GetByte(SetByte(x, b, i), i) = b
         /\ \A j \in 0 .. i - 1 : GetByte(SetByte(x, b, i), j) = GetByte(x, j)
<1> DEFINE s == i * CharBit
           e == (i + 1) * CharBit
           p == Pow2[s]
           c == Pow2[CharBit]
           high == b * p
<1>1. /\ s \in 0 .. XLen /\ e \in 0 .. XLen /\ e = s + CharBit /\ CharBit \in 0 .. XLen
      /\ XLen \in Nat /\ i \in Nat /\ i \in 0 .. WordBytes
  <2>1. i \in 0 .. WordBytes /\ i + 1 \in 0 .. WordBytes /\ i \in Nat
    BY BytePlaces DEF ByteIndex
  <2> QED BY <2>1, BytePlaces, RegisterFacts
<1> HIDE DEF s, e
<1>2. /\ p \in Nat \ {0} /\ c \in Nat \ {0} /\ Pow2[e] = p * c /\ Pow2[e] <= WordMod
      /\ p <= WordMod /\ WordMod \in Nat \ {0}
  <2>1. CharBit \in 0 .. XLen - s
    BY <1>1
  <2>2. Pow2[s + CharBit] = Pow2[s] * Pow2[CharBit]
    BY ONLY <1>1, <2>1, PowerOfSum
  <2> QED BY ONLY <1>1, <2>2, RegisterFacts
<1>3. x \in 0 .. p - 1 /\ b \in 0 .. c - 1 /\ x \in Nat /\ b \in Nat
  BY <1>2 DEF s
<1>4. SetByte(x, b, i) = Or(And(x, p - 1), Trunc(high))
  BY DEF SetByte, s
<1> HIDE DEF p, c
<1>5. high + p <= p * c /\ high \in Nat
  <2>1. p * b + p <= p * c
    BY ONLY <1>2, <1>3, Products
  <2>2. p * b = b * p /\ p * b \in Nat
    BY ONLY <1>2, <1>3
  <2> QED BY ONLY <2>1, <2>2
<1> HIDE DEF high
<1>6. /\ x \in Register /\ high \in Register /\ x + high \in 0 .. Pow2[e] - 1
      /\ x + high \in Nat
  <2>1. p * c \in Nat
    BY ONLY <1>2
  <2> QED BY ONLY <1>2, <1>3, <1>5, <2>1 DEF Register
<1>7. And(x, p - 1) = x
  <2>1. And(x, p - 1) = x % p
    BY ONLY <1>1, <1>6, LowMask DEF p
  <2>2. x % p = x
    BY ONLY <1>2, <1>3, SmallMod
  <2> QED BY <2>1, <2>2
<1>8. Trunc(high) = high
  <2>1. high \in Int
    BY ONLY <1>5
  <2> QED BY ONLY <1>6, <2>1, TruncFacts
<1>9. \A j \in Positions : ~ (IsBitSet(x, j) /\ IsBitSet(high, j))
  <2> SUFFICES ASSUME NEW j \in Positions PROVE ~ (IsBitSet(x, j) /\ IsBitSet(high, j))
    OBVIOUS
  <2>1. CASE j >= s
    <3>1. j \in s .. XLen
      BY ONLY <1>1, <2>1, j \in Positions DEF Positions
    <3>2. x < Pow2[s]
      BY ONLY <1>3, <1>2 DEF p
    <3>3. ~ IsBitSet(x, j)
      BY ONLY <1>1, <1>3, <3>1, <3>2, HighBits
    <3> QED BY <3>3
  <2>2. CASE j < s
    <3>1. j \in 0 .. XLen - 1 /\ b \in Int /\ ~ (j >= s)
      BY ONLY <1>1, <1>3, <2>2, j \in Positions DEF Positions
    <3>2. IsBitSet(b * Pow2[s], j) <=> j >= s /\ IsBitSet(b, j - s)
      BY ONLY <1>1, <3>1, BitOfMultiple
    <3> QED BY ONLY <3>1, <3>2 DEF high, p
  <2> QED BY ONLY <1>1, <2>1, <2>2, j \in Positions DEF Positions
<1>10. SetByte(x, b, i) = x + high
  <2>1. Or(x, high) = x + high
    BY ONLY <1>6, <1>9, DisjointOr
  <2> QED BY ONLY <1>4, <1>7, <1>8, <2>1
<1>11. (x + high) \div p = b /\ (x + high) % p = x
  <2>1. x + high = p * b + x
    BY ONLY <1>2, <1>3 DEF high
  <2>2. (p * b + x) \div p = b /\ (p * b + x) % p = x
    <3>1. b \in Int
      BY ONLY <1>3
    <3> QED BY ONLY <1>2, <1>3, <3>1, DivIsUnique
  <2> QED BY ONLY <2>1, <2>2
<1>12. GetByte(x + high, i) = b
  <2>1. GetByte(x + high, i) = ((x + high) \div p) % c
    BY DEF GetByte, p, c, s
  <2>2. b % c = b
    BY ONLY <1>2, <1>3, SmallMod
  <2> QED BY ONLY <1>11, <2>1, <2>2
<1>13. ASSUME NEW j \in 0 .. i - 1 PROVE GetByte(x + high, j) = GetByte(x, j)
  <2> DEFINE v == x + high
  <2>1. v \in Int
    BY <1>6
  <2>2. v % Pow2[i * CharBit] = x
    BY <1>11 DEF p, s
  <2> HIDE DEF v
  <2>3. GetByte(v % Pow2[i * CharBit], j) = GetByte(v, j)
    BY ONLY <1>1, <2>1, j \in 0 .. i - 1, ByteOfLow
  <2> QED BY <2>2, <2>3 DEF v
<1> QED BY <1>6, <1>10, <1>12, <1>13 DEF e

(* The loop over the bytes, as the function of ByteLoop.                   *)
ByteVals(new_byte) ==
  LET val[i \in 0 .. WordBytes] ==
        IF i = 0 THEN 0 ELSE SetByte(val[i - 1], new_byte[i - 1], i - 1)
  IN  val

LEMMA ByteSteps ==
  ASSUME NEW nb
  PROVE  /\ ByteVals(nb)[0] = 0
         /\ \A i \in ByteIndex : ByteVals(nb)[i + 1] = SetByte(ByteVals(nb)[i], nb[i], i)
<1> DEFINE B == WordBytes
           step == [i \in 0 .. B - 1 |-> [v \in Nat |-> SetByte(v, nb[i], i)]]
           Solves(f) == f = [i \in 0 .. B |-> IF i = 0 THEN 0
                                              ELSE SetByte(f[i - 1], nb[i - 1], i - 1)]
           L == ByteVals(nb)
<1>0. B \in Nat /\ ByteIndex = 0 .. B - 1
  BY BytePlaces DEF ByteIndex
<1>1. \E f : Solves(f)
  <2> DEFINE zero == 0
  <2>1. step \in [0 .. B - 1 -> [Nat -> Nat]] /\ zero \in Nat
    <3>1. \A v, b, i : SetByte(v, b, i) \in Nat
      <4>1. \A v, b, i : SetByte(v, b, i) \in Register
        BY BitwiseBits DEF SetByte
      <4> QED BY <4>1, RegisterFacts
    <3> QED BY <3>1
  <2> HIDE DEF zero
  <2>2. PICK f \in [0 .. B -> Nat] :
          f[0] = zero /\ \A i \in 0 .. B - 1 : f[i + 1] = step[i][f[i]]
    <3> HIDE DEF step, B
    <3> QED BY ONLY <1>0, <2>1, BoundedRecursion
  <2> HIDE DEF B
  <2>3. ASSUME NEW i \in 0 .. B
        PROVE  f[i] = IF i = 0 THEN 0 ELSE SetByte(f[i - 1], nb[i - 1], i - 1)
    <3>1. CASE i = 0
      BY <2>2, <3>1 DEF zero
    <3>2. CASE i # 0
      <4> DEFINE k == i - 1
      <4>1. k \in 0 .. B - 1 /\ k \in 0 .. B /\ k + 1 = i
        BY <1>0, <3>2
      <4> HIDE DEF k
      <4>2. f[k + 1] = step[k][f[k]]
        BY <2>2, <4>1
      <4>3. step[k][f[k]] = SetByte(f[k], nb[k], k)
        BY <2>2, <4>1
      <4>4. f[i] = SetByte(f[k], nb[k], k)
        BY <4>1, <4>2, <4>3
      <4> QED BY <3>2, <4>4 DEF k
    <3> QED BY <3>1, <3>2
  <2>4. Solves(f)
    <3>1. f = [i \in 0 .. B |-> f[i]]
      BY <2>2
    <3> QED BY <2>3, <3>1
  <2> QED BY <2>4
<1>2. Solves(L)
  BY <1>1 DEF ByteVals
<1> HIDE DEF L, B
<1>3. L[0] = 0
  BY <1>0, <1>2
<1>4. ASSUME NEW i \in 0 .. B - 1 PROVE L[i + 1] = SetByte(L[i], nb[i], i)
  <2>1. i + 1 \in 0 .. B /\ i + 1 # 0 /\ (i + 1) - 1 = i
    BY <1>0
  <2> QED BY <1>2, <2>1
<1> QED BY <1>0, <1>3, <1>4 DEF L

(* Every call of SetByte leaves the bytes set before it.                   *)
LEMMA ByteLoopBytes ==
  ASSUME NEW nb, \A i \in ByteIndex : nb[i] \in 0 .. Pow2[CharBit] - 1
  PROVE  /\ ByteLoop(nb) \in Register
         /\ \A i \in ByteIndex : GetByte(ByteLoop(nb), i) = nb[i]
<1> DEFINE B == WordBytes
           L == ByteVals(nb)
           Built(k) == /\ L[k] \in 0 .. Pow2[k * CharBit] - 1
                       /\ \A j \in 0 .. k - 1 : GetByte(L[k], j) = nb[j]
           T == {k \in Nat : Built(k)}
<1>0. B \in Nat /\ ByteIndex = 0 .. B - 1
  BY BytePlaces DEF ByteIndex
<1>1. L[0] = 0 /\ \A i \in ByteIndex : L[i + 1] = SetByte(L[i], nb[i], i)
  BY ByteSteps
<1> HIDE DEF L, B
<1>2. 0 \in T
  <2>1. 0 * CharBit = 0 /\ Pow2[0] = 1
    BY BytePlaces, PowerSteps
  <2>2. L[0] \in 0 .. Pow2[0 * CharBit] - 1
    BY <1>1, <2>1
  <2> QED BY <2>2
<1>3. ASSUME NEW k \in 0 .. B - 1, k \in T PROVE k + 1 \in T
  <2> DEFINE x == L[k]
             b == nb[k]
  <2>1. /\ x \in 0 .. Pow2[k * CharBit] - 1 /\ k \in ByteIndex /\ k \in Nat
        /\ \A j \in 0 .. k - 1 : GetByte(x, j) = nb[j]
        /\ L[k + 1] = SetByte(x, b, k) /\ b \in 0 .. Pow2[CharBit] - 1
    BY <1>0, <1>1, <1>3
  <2>2. Pow2[k * CharBit] \in Nat
    <3>1. k \in 0 .. WordBytes
      BY BytePlaces, <2>1 DEF ByteIndex
    <3>2. k * CharBit \in 0 .. XLen
      BY <3>1, BytePlaces
    <3> QED BY <3>2, RegisterFacts
  <2>3. x \in Nat /\ x < Pow2[k * CharBit]
    BY <2>1, <2>2
  <2> HIDE DEF x, b
  <2>4. /\ SetByte(x, b, k) \in 0 .. Pow2[(k + 1) * CharBit] - 1
        /\ GetByte(SetByte(x, b, k), k) = b
        /\ \A j \in 0 .. k - 1 : GetByte(SetByte(x, b, k), j) = GetByte(x, j)
    BY ONLY <2>1, <2>3, SetByteAdds
  <2>5. \A j \in 0 .. (k + 1) - 1 : GetByte(L[k + 1], j) = nb[j]
    <3> SUFFICES ASSUME NEW j \in 0 .. (k + 1) - 1 PROVE GetByte(L[k + 1], j) = nb[j]
      OBVIOUS
    <3>1. CASE j = k
      BY <2>1, <2>4, <3>1 DEF b
    <3>2. CASE j # k
      <4>1. j \in 0 .. k - 1
        BY <2>1, <3>2
      <4> QED BY ONLY <2>1, <2>4, <4>1
    <3> QED BY <3>1, <3>2
  <2>6. L[k + 1] \in 0 .. Pow2[(k + 1) * CharBit] - 1 /\ k + 1 \in Nat
    BY <2>1, <2>4
  <2> QED BY <2>5, <2>6
<1>4. B \in T
  <2> HIDE DEF T
  <2>1. 0 .. B \subseteq T
    BY ONLY <1>0, <1>2, <1>3, BoundedInduction
  <2> QED BY <1>0, <2>1
<1>5. ByteLoop(nb) = L[B]
  BY DEF ByteLoop, ByteVals, L, B
<1>6. L[B] \in Register
  <2>1. B * CharBit = XLen
    BY BytePlaces DEF B
  <2> QED BY <1>4, <2>1 DEF Register, WordMod
<1> QED BY <1>0, <1>4, <1>5, <1>6

(* A byte is one, and REV8 takes it from the mirrored place.              *)
LEMMA ByteRange ==
  /\ \A a \in Register, i \in ByteIndex : GetByte(a, i) \in 0 .. Pow2[CharBit] - 1
  /\ 0 \in 0 .. Pow2[CharBit] - 1 /\ Pow2[CharBit] - 1 \in 0 .. Pow2[CharBit] - 1
  /\ \A i \in ByteIndex : WordBytes - 1 - i \in ByteIndex
<1>1. Pow2[CharBit] \in Nat \ {0} /\ WordBytes \in Nat
  BY BytePlaces, RegisterFacts
<1>2. ASSUME NEW a \in Register, NEW i \in ByteIndex
      PROVE  GetByte(a, i) \in 0 .. Pow2[CharBit] - 1
  <2> DEFINE d == Pow2[i * CharBit]
             c == Pow2[CharBit]
             q == a \div d
  <2>1. d \in Nat \ {0} /\ a \in Int /\ c \in Nat \ {0}
    <3>1. i \in 0 .. WordBytes
      BY BytePlaces DEF ByteIndex
    <3>2. i * CharBit \in 0 .. XLen
      BY <3>1, BytePlaces
    <3> QED BY <1>1, <3>2, RegisterFacts
  <2>2. GetByte(a, i) = q % c
    BY DEF GetByte
  <2> HIDE DEF c, d
  <2>3. q \in Int
    BY ONLY <2>1
  <2> HIDE DEF q
  <2>4. q % c \in 0 .. c - 1
    BY ONLY <2>1, <2>3
  <2> QED BY <2>2, <2>4 DEF c
<1>3. \A i \in ByteIndex : WordBytes - 1 - i \in ByteIndex
  BY <1>1 DEF ByteIndex
<1> QED BY <1>1, <1>2, <1>3

(* REV8 and ORC_B build their bytes one after the other, and no call of    *)
(* SetByte disturbs the ones already set, for every operand, width and     *)
(* byte (ByteLoopsKeepEveryByte: isa_hlp.hpp:115, ext_zbb_cb.cpp:291-317). *)
THEOREM BytesAreKept == Spec => []ByteLoopsKeepEveryByte
<1>1. AluInv => ByteLoopsKeepEveryByte
  <2> SUFFICES ASSUME AluInv PROVE ByteLoopsKeepEveryByte
    OBVIOUS
  <2> DEFINE rev == [i \in ByteIndex |-> GetByte(rs1, WordBytes - 1 - i)]
             orc == [i \in ByteIndex |-> IF GetByte(rs1, i) = 0 THEN 0
                                         ELSE Pow2[CharBit] - 1]
  <2>1. \A i \in ByteIndex : GetByte(ByteLoop(rev), i) = rev[i]
    <3>1. \A i \in ByteIndex : rev[i] \in 0 .. Pow2[CharBit] - 1
      BY ByteRange DEF AluInv, ByteIndex
    <3> HIDE DEF rev
    <3> QED BY <3>1, ByteLoopBytes
  <2>2. \A i \in ByteIndex : GetByte(ByteLoop(orc), i) = orc[i]
    <3>1. \A i \in ByteIndex : orc[i] \in 0 .. Pow2[CharBit] - 1
      BY ByteRange
    <3> HIDE DEF orc
    <3> QED BY <3>1, ByteLoopBytes
  <2>3. op = "REV8" => rd = ByteLoop(rev)
    BY DEF AluInv, BinOp, REV8
  <2>4. op = "ORC_B" => rd = ByteLoop(orc)
    BY DEF AluInv, BinOp, ORC_B
  <2> QED BY <2>1, <2>2, <2>3, <2>4 DEF ByteLoopsKeepEveryByte, ByteIndex
<1> QED BY <1>1, AlwaysAluInv, PTL

(* Max and Min of a set of integers from 0 to N: the search is a first-    *)
(* order induction over the elements looked at.                            *)
LEMMA HighestOf ==
  ASSUME NEW N \in Nat, NEW S \in SUBSET (0 .. N)
  PROVE  LET m == Sets!Max(S \cup {-1})
         IN  /\ m \in -1 .. N /\ (m # -1 => m \in S)
             /\ \A i \in S : i <= m
<1> DEFINE IsMax(m, n) == /\ m \in S \cup {-1} /\ m <= n
                          /\ \A i \in S : i <= n => i <= m
           T == {n \in Nat : \E m : IsMax(m, n)}
<1>1. 0 \in T
  <2>1. CASE 0 \in S
    <3>1. IsMax(0, 0)
      BY <2>1
    <3> QED BY <3>1
  <2>2. CASE 0 \notin S
    <3>1. IsMax(-1, 0)
      BY <2>2
    <3> QED BY <3>1
  <2> QED BY <2>1, <2>2
<1>2. ASSUME NEW n \in 0 .. N - 1, n \in T PROVE n + 1 \in T
  <2>1. PICK m : IsMax(m, n)
    BY <1>2
  <2>2. CASE n + 1 \in S
    <3>1. IsMax(n + 1, n + 1)
      BY <2>2
    <3> QED BY <3>1
  <2>3. CASE n + 1 \notin S
    <3>1. IsMax(m, n + 1)
      BY <2>1, <2>3
    <3> QED BY <3>1
  <2> QED BY <2>2, <2>3
<1>3. N \in T
  <2> HIDE DEF T
  <2>1. 0 .. N \subseteq T
    BY ONLY <1>1, <1>2, BoundedInduction, N \in Nat
  <2> QED BY <2>1
<1>4. PICK m : IsMax(m, N)
  BY <1>3
<1>5. m \in S \cup {-1} /\ \A i \in S \cup {-1} : m >= i
  BY <1>4
<1>6. Sets!Max(S \cup {-1}) = m
  <2>1. \A k \in S \cup {-1} : (\A i \in S \cup {-1} : k >= i) => k = m
    BY <1>5
  <2> QED BY <1>5, <2>1 DEF Sets!Max
<1> QED BY <1>4, <1>5, <1>6

LEMMA LowestOf ==
  ASSUME NEW N \in Nat, NEW S \in SUBSET (0 .. N - 1)
  PROVE  LET m == Sets!Min(S \cup {N})
         IN  /\ m \in 0 .. N /\ (m # N => m \in S)
             /\ \A i \in S : m <= i
<1> DEFINE U == S \cup {N}
           T == {n \in Nat : \A i \in U : n <= i}
<1>1. \E m \in U : \A i \in U : m <= i
  <2> SUFFICES ASSUME \A m \in U : \E i \in U : ~ (m <= i) PROVE FALSE
    OBVIOUS
  <2>1. 0 \in T
    OBVIOUS
  <2>2. ASSUME NEW n \in 0 .. N, n \in T PROVE n + 1 \in T
    <3>1. n \notin U
      BY <2>2
    <3>2. \A i \in U : n <= i /\ n # i /\ i \in Int
      BY <2>2, <3>1
    <3>3. \A i \in U : n + 1 <= i
      BY <3>2
    <3> QED BY <3>3
  <2> DEFINE K == N + 1
  <2>3. K \in T
    <3>1. K \in Nat /\ \A n \in 0 .. K - 1 : n \in T => n + 1 \in T
      BY <2>2
    <3> HIDE DEF T, K
    <3>2. 0 .. K \subseteq T
      BY ONLY <2>1, <3>1, BoundedInduction
    <3> QED BY <3>1, <3>2
  <2> QED BY <2>3
<1>2. PICK m \in U : \A i \in U : m <= i
  BY <1>1
<1>3. Sets!Min(U) = m
  <2>1. \A k \in U : (\A i \in U : k <= i) => k = m
    BY <1>2
  <2> QED BY <1>2, <2>1 DEF Sets!Min
<1> QED BY <1>2, <1>3

(* What the loops of clz, ctz and cpop find.                               *)
LEMMA LeadingZeros ==
  ASSUME NEW a \in Register
  PROVE  /\ CLZ(a) \in 0 .. XLen
         /\ a < Pow2[XLen - CLZ(a)]
         /\ CLZ(a) < XLen => a >= Pow2[XLen - CLZ(a) - 1]
         /\ \A i \in Bits(a) : i <= XLen - CLZ(a) - 1
<1> DEFINE m == Sets!Max(Bits(a) \cup {-1})
           k == m + 1
           v == a % Pow2[k]
           N == XLen - 1
<1>1. /\ m \in -1 .. XLen - 1 /\ (m # -1 => m \in Bits(a))
      /\ \A i \in Bits(a) : i <= m
  <2>1. N \in Nat /\ Bits(a) \in SUBSET (0 .. N)
    BY RegisterFacts DEF Bits
  <2> HIDE DEF N
  <2>2. LET h == Sets!Max(Bits(a) \cup {-1})
        IN  h \in -1 .. N /\ (h # -1 => h \in Bits(a)) /\ \A i \in Bits(a) : i <= h
    BY ONLY <2>1, HighestOf
  <2> QED BY <2>2 DEF N
<1>2. CLZ(a) = XLen - 1 - m
  BY DEF CLZ
<1> HIDE DEF m
<1>3. /\ k \in 0 .. XLen /\ XLen \in Nat /\ k = XLen - CLZ(a) /\ CLZ(a) \in 0 .. XLen
      /\ m = XLen - CLZ(a) - 1 /\ k - 1 = m /\ (CLZ(a) < XLen <=> m # -1)
  BY <1>1, <1>2, RegisterFacts
<1> HIDE DEF k
<1>4. Pow2[k] \in Nat \ {0} /\ a \in Nat /\ v \in Register /\ v < Pow2[k] /\ v \in Nat
  BY <1>3, LowMask, RegisterFacts
<1>5. a = v
  <2>1. ASSUME NEW i \in Positions PROVE IsBitSet(a, i) <=> IsBitSet(v, i)
    <3>0. i \in 0 .. XLen - 1
      BY DEF Positions
    <3>1. CASE i < k
      <4>1. i \in 0 .. k - 1 /\ a \in Int
        BY ONLY <1>3, <1>4, <3>0, <3>1
      <4> QED BY ONLY <1>3, <4>1, BitOfLow
    <3>2. CASE i >= k
      <4>1. i \in k .. XLen /\ ~ (i <= m)
        BY ONLY <1>1, <1>3, <3>0, <3>2
      <4> HIDE DEF v
      <4>2. ~ IsBitSet(v, i)
        BY ONLY <1>3, <1>4, <4>1, HighBits
      <4>3. ~ IsBitSet(a, i)
        BY <1>1, <3>0, <4>1 DEF Bits
      <4> QED BY <4>2, <4>3
    <3> QED BY ONLY <1>3, <3>0, <3>1, <3>2
  <2> HIDE DEF v
  <2> QED BY <1>4, <2>1, SameBits
<1>6. CLZ(a) < XLen => a >= Pow2[k - 1]
  <2> SUFFICES ASSUME CLZ(a) < XLen PROVE a >= Pow2[k - 1]
    OBVIOUS
  <2>1. k \in 1 .. XLen /\ a < Pow2[k] /\ IsBitSet(a, k - 1)
    BY <1>1, <1>3, <1>4, <1>5 DEF Bits
  <2> QED BY ONLY <1>4, <2>1, SignBit
<1> QED BY <1>1, <1>3, <1>4, <1>5, <1>6

LEMMA TrailingZeros ==
  ASSUME NEW a \in Register
  PROVE  /\ CTZ(a) \in 0 .. XLen
         /\ a % Pow2[CTZ(a)] = 0
         /\ CTZ(a) < XLen => IsBitSet(a, CTZ(a))
         /\ \A i \in Bits(a) : CTZ(a) <= i
<1> DEFINE m == CTZ(a)
           v == a % Pow2[m]
<1>1. XLen \in Nat /\ Bits(a) \in SUBSET (0 .. XLen - 1)
  BY RegisterFacts DEF Bits
<1>2. m \in 0 .. XLen /\ (m # XLen => m \in Bits(a)) /\ \A i \in Bits(a) : m <= i
  BY ONLY <1>1, LowestOf DEF CTZ
<1> HIDE DEF m
<1>3. Pow2[m] \in Nat \ {0} /\ a \in Nat /\ v \in Register /\ v < Pow2[m] /\ v \in Nat
  BY <1>2, LowMask, RegisterFacts
<1>4. v = 0
  <2>1. ASSUME NEW i \in Positions PROVE IsBitSet(v, i) <=> IsBitSet(0, i)
    <3>0. i \in 0 .. XLen - 1 /\ i \in 0 .. XLen
      BY <1>1 DEF Positions
    <3>1. ~ IsBitSet(0, i)
      <4> DEFINE d == Pow2[i]  zero == 0
      <4>1. d \in Nat \ {0} /\ zero \in 0 .. d - 1
        BY <3>0, RegisterFacts
      <4>2. IsBitSet(0, i) <=> (zero \div d) % 2 = 1
        BY DEF IsBitSet
      <4> HIDE DEF d, zero
      <4>3. zero \div d = 0
        BY ONLY <4>1, SmallMod
      <4> QED BY <4>2, <4>3
    <3>2. CASE i < m
      <4>1. i \in 0 .. m - 1 /\ a \in Int /\ ~ (m <= i)
        BY ONLY <1>2, <1>3, <3>0, <3>2
      <4>2. IsBitSet(a % Pow2[m], i) <=> IsBitSet(a, i)
        BY ONLY <1>2, <4>1, BitOfLow
      <4>3. ~ IsBitSet(a, i)
        BY <1>2, <3>0, <4>1 DEF Bits
      <4> QED BY <3>1, <4>2, <4>3
    <3>3. CASE i >= m
      <4>1. i \in m .. XLen
        BY ONLY <1>2, <3>0, <3>3
      <4> HIDE DEF v
      <4>2. ~ IsBitSet(v, i)
        BY ONLY <1>2, <1>3, <4>1, HighBits
      <4> QED BY <3>1, <4>2
    <3> QED BY ONLY <1>2, <3>0, <3>2, <3>3
  <2> HIDE DEF v
  <2> QED BY <1>3, <2>1, SameBits, RegisterFacts
<1>5. m < XLen => IsBitSet(a, m)
  BY <1>1, <1>2 DEF Bits
<1> QED BY <1>2, <1>4, <1>5 DEF m

LEMMA OnesCounted ==
  ASSUME NEW a \in Register
  PROVE  /\ CPOP(a) \in 0 .. XLen
         /\ CPOP(a) + CPOP(Not(a)) = XLen
         /\ CPOP(a) <= XLen - CLZ(a) - (IF a = 0 THEN 0 ELSE CTZ(a))
<1> DEFINE B == Bits(a)
           P == 0 .. XLen - 1
<1>1. XLen \in Nat /\ XLen > 0
  BY RegisterFacts
<1>2. IsFiniteSet(P) /\ Cardinality(P) = XLen
  <2> DEFINE z == 0  h == XLen - 1
  <2>1. z \in Int /\ h \in Int /\ ~ (z > h) /\ h - z + 1 = XLen
    BY <1>1
  <2> HIDE DEF z, h
  <2>2. IsFiniteSet(z .. h) /\ Cardinality(z .. h) = XLen
    BY ONLY <2>1, FS_Interval
  <2> QED BY <2>2 DEF z, h
<1>3. B \in SUBSET P /\ Bits(Not(a)) = P \ B
  BY NotBits DEF Bits, Positions
<1> HIDE DEF B, P
<1>4. IsFiniteSet(B) /\ Cardinality(B) \in Nat /\ Cardinality(B) <= XLen
  <2>1. IsFiniteSet(B) /\ Cardinality(B) <= Cardinality(P)
    BY <1>2, <1>3, FS_Subset
  <2> QED BY <1>2, <2>1, FS_CardinalityType
<1>5. Cardinality(P \ B) = XLen - Cardinality(B)
  <2>1. Cardinality(P \ B) = Cardinality(P) - Cardinality(P \cap B)
    BY <1>2, FS_Difference
  <2>2. P \cap B = B
    BY <1>3
  <2> QED BY <1>2, <2>1, <2>2
<1>6. CPOP(a) = Cardinality(B) /\ CPOP(Not(a)) = Cardinality(P \ B)
  BY <1>3 DEF CPOP, B
<1>7. CPOP(a) \in 0 .. XLen /\ CPOP(a) + CPOP(Not(a)) = XLen
  BY <1>1, <1>4, <1>5, <1>6
<1>8. CPOP(a) <= XLen - CLZ(a) - (IF a = 0 THEN 0 ELSE CTZ(a))
  <2> DEFINE l == CTZ(a)
             h == XLen - CLZ(a) - 1
  <2>1. /\ l \in 0 .. XLen /\ h \in -1 .. XLen - 1 /\ CLZ(a) \in 0 .. XLen
        /\ \A i \in B : l <= i /\ i <= h
        /\ l < XLen => IsBitSet(a, l)
        /\ a < Pow2[XLen - CLZ(a)] /\ a % Pow2[l] = 0
    BY <1>1, LeadingZeros, TrailingZeros DEF B
  <2>2. B \in SUBSET (l .. h)
    BY <1>1, <1>3, <2>1 DEF P
  <2>3. IsFiniteSet(l .. h) /\ Cardinality(l .. h) = IF l > h THEN 0 ELSE h - l + 1
    <3>1. l \in Int /\ h \in Int
      BY <1>1, <2>1
    <3> HIDE DEF l, h
    <3> QED BY ONLY <3>1, FS_Interval
  <2>4. Cardinality(B) <= Cardinality(l .. h)
    BY <2>2, <2>3, FS_Subset
  <2>5. CASE l <= h
    <3> HIDE DEF l
    <3>1. Cardinality(B) <= h - l + 1 /\ l >= 0
      BY <1>1, <2>1, <2>3, <2>4, <2>5
    <3> QED BY <1>1, <1>4, <1>6, <2>1, <3>1 DEF l
  <2>6. CASE l > h
    <3>1. Cardinality(B) = 0
      BY <1>4, <2>3, <2>4, <2>6
    <3>2. B = {}
      BY <1>4, <3>1, FS_EmptySet
    <3>3. l = XLen
      <4> SUFFICES ASSUME l < XLen PROVE FALSE
        BY <1>1, <2>1
      <4>1. l \in B
        BY <1>1, <2>1 DEF Bits, B
      <4> QED BY <3>2, <4>1
    <3>4. a = 0
      <4>1. a % WordMod = 0
        BY <2>1, <3>3 DEF WordMod
      <4>2. a \in 0 .. WordMod - 1 /\ WordMod \in Nat \ {0}
        BY RegisterFacts DEF Register
      <4>3. a % WordMod = a
        BY ONLY <4>2, SmallMod
      <4> QED BY <4>1, <4>3
    <3> QED BY <1>1, <1>6, <2>1, <3>1, <3>4
  <2> QED BY <1>1, <2>1, <2>5, <2>6
<1> QED BY <1>7, <1>8

(* clz, ctz and cpop agree with the value they measure and with each       *)
(* other for every register, 0 included, where the loops find no bit       *)
(* (CountsMeasureTheValue: ext_zbb_cb.cpp:165-229).                        *)
THEOREM CountsAreOfTheValue == Spec => []CountsMeasureTheValue
<1>1. AluInv => CountsMeasureTheValue
  <2> SUFFICES ASSUME AluInv PROVE CountsMeasureTheValue
    OBVIOUS
  <2>1. rs1 \in Register
    BY DEF AluInv
  <2>2. /\ op = "CLZ" => rd = CLZ(rs1)
        /\ op = "CTZ" => rd = CTZ(rs1)
        /\ op = "CPOP" => rd = CPOP(rs1)
    BY DEF AluInv, BinOp
  <2>3. op = "CLZ" => rs1 < Pow2[XLen - rd] /\ (rd < XLen => rs1 >= Pow2[XLen - rd - 1])
    BY <2>1, <2>2, LeadingZeros
  <2>4. op = "CTZ" => rs1 % Pow2[rd] = 0 /\ (rd < XLen => (rs1 \div Pow2[rd]) % 2 = 1)
    BY <2>1, <2>2, TrailingZeros DEF IsBitSet
  <2>5. op = "CPOP" => /\ rd + CPOP(Not(rs1)) = XLen
                       /\ rd <= XLen - CLZ(rs1) - IF rs1 = 0 THEN 0 ELSE CTZ(rs1)
    BY <2>1, <2>2, OnesCounted
  <2> QED BY <2>3, <2>4, <2>5 DEF CountsMeasureTheValue
<1> QED BY <1>1, AlwaysAluInv, PTL

-----------------------------------------------------------------------------
(* Types.                                                                  *)

(* Counts fit in a register, and so does the high half of a product.       *)
LEMMA SmallResults ==
  /\ 0 .. XLen \subseteq Register /\ 1 \in Register
  /\ \A z \in Int : TruncLow(z) \in Register
<1> DEFINE W == WordMod
<1>1. /\ XLen \in Nat /\ XLen > 0 /\ W \in Nat \ {0} /\ XLen \in 0 .. XLen
      /\ W = Pow2[XLen]
  BY RegisterFacts
<1>2. XLen < W
  BY <1>1, BelowPower
<1>3. 0 .. XLen \subseteq Register /\ 1 \in Register
  BY <1>1, <1>2 DEF Register
<1>4. ASSUME NEW z \in Int PROVE TruncLow(z) \in Register
  <2> DEFINE v == z % (W * W)
  <2>1. TruncLow(z) = v \div W
    BY DEF TruncLow
  <2> HIDE DEF W
  <2>2. W * W \in Nat \ {0}
    BY ONLY <1>1
  <2>3. v \in Nat /\ v < W * W
    <3> DEFINE WW == W * W
    <3>1. WW \in Nat \ {0}
      BY <2>2
    <3> HIDE DEF WW
    <3>2. z % WW \in 0 .. WW - 1
      BY ONLY <3>1, z \in Int
    <3> QED BY <3>1, <3>2 DEF WW
  <2> HIDE DEF v
  <2>4. v \div W \in 0 .. W - 1
    BY ONLY <1>1, <2>3, DivBelow
  <2> QED BY <2>1, <2>4 DEF Register, W
<1> QED BY <1>3, <1>4

LEMMA ResultsAreRegisters ==
  ASSUME NEW o \in BinOps \cup UnaryOps, NEW a \in Register, NEW b \in Register
  PROVE  BinOp(o, a, b) \subseteq Register
<1>1. a \in Nat /\ b \in Nat /\ Signed(a) \in Int /\ Signed(b) \in Int
  BY RegisterFacts, SignedRange
<1>2. \A z \in Int : Trunc(z) \in Register
  BY TruncFacts
<1>3. /\ ADD(a, b) \in Register /\ SUB(a, b) \in Register /\ MUL(a, b) \in Register
  <2>1. a + b \in Int /\ a - b \in Int /\ a * b \in Int
    BY <1>1
  <2> QED BY <1>2, <2>1 DEF ADD, SUB, MUL
<1>4. SLT(a, b) \in Register /\ SLTU(a, b) \in Register
  BY SmallResults, RegisterFacts DEF SLT, SLTU
<1>5. /\ AND(a, b) \in Register /\ OR(a, b) \in Register /\ XOR(a, b) \in Register
      /\ ANDN(a, b) \in Register /\ ORN(a, b) \in Register /\ XNOR(a, b) \in Register
  BY BitwiseBits, NotBits DEF AND, OR, XOR, ANDN, ORN, XNOR
<1>6. SLL(a, b) \subseteq Register /\ SRL(a, b) \subseteq Register
  BY <1>1, ShiftsAreRegisters DEF SLL, SRL
<1>7. SRA(a, b) \in Register
  <2>1. SRA(a, b) = ArithmRightShift(a, b % XLen) /\ b % XLen \in 0 .. XLen - 1
    BY MaskedCount DEF SRA
  <2> QED BY <2>1, ArithmeticShift
<1>8. MULH(a, b) \in Register /\ MULHSU(a, b) \in Register /\ MULHU(a, b) \in Register
  <2>1. a * b \in Int /\ Signed(a) * Signed(b) \in Int
    BY <1>1
  <2> QED BY <2>1, SmallResults DEF MULH, MULHSU, MULHU
<1>9. MinSigned \in Int
  BY HalfWord DEF MinSigned
<1>10. DIV(a, b) \in Register /\ REM(a, b) \in Register
  <2>1. CASE b = 0
    BY <1>1, <1>2, <2>1 DEF DIV, REM
  <2>2. CASE b # 0
    <3>1. Signed(b) # 0
      BY <1>1, <2>2, SignedRange, RegisterFacts
    <3>2. Quotient(Signed(a), Signed(b)) \in Int /\ Remainder(Signed(a), Signed(b)) \in Int
      BY <1>1, <3>1, QuotientFacts
    <3> QED BY <1>2, <1>9, <2>2, <3>2 DEF DIV, REM
  <2> QED BY <2>1, <2>2
<1>11. DIVU(a, b) \in Register /\ REMU(a, b) \in Register
  BY UnsignedDivision
<1>12. /\ MIN(a, b) \in Register /\ MINU(a, b) \in Register
       /\ MAX(a, b) \in Register /\ MAXU(a, b) \in Register
  BY DEF MIN, MINU, MAX, MAXU
<1>13. ROL(a, b) \subseteq Register /\ ROR(a, b) \subseteq Register
  BY BitwiseBits DEF ROL, ROR, RotateLeft, RotateRight
<1>14. SEXT_B(a) \in Register /\ SEXT_H(a) \in Register /\ ZEXT_H(a) \in Register
  <2>1. CharBit \in 1 .. XLen /\ 2 * CharBit \in 1 .. XLen /\ 2 * CharBit \in 0 .. XLen
    BY WidthAssumption
  <2> QED BY <2>1, SignExtension, LowMask DEF SEXT_B, SEXT_H, ZEXT_H
<1>15. CLZ(a) \in Register /\ CTZ(a) \in Register /\ CPOP(a) \in Register
  BY LeadingZeros, TrailingZeros, OnesCounted, SmallResults
<1>16. REV8(a) \in Register
  <2> DEFINE rev == [i \in ByteIndex |-> GetByte(a, WordBytes - 1 - i)]
  <2>1. \A i \in ByteIndex : rev[i] \in 0 .. Pow2[CharBit] - 1
    BY ByteRange
  <2> HIDE DEF rev
  <2>2. ByteLoop(rev) \in Register
    BY <2>1, ByteLoopBytes
  <2> QED BY <2>2 DEF REV8, rev
<1>17. ORC_B(a) \in Register
  <2> DEFINE orc == [i \in ByteIndex |-> IF GetByte(a, i) = 0 THEN 0 ELSE Pow2[CharBit] - 1]
  <2>1. \A i \in ByteIndex : orc[i] \in 0 .. Pow2[CharBit] - 1
    BY ByteRange
  <2> HIDE DEF orc
  <2>2. ByteLoop(orc) \in Register
    BY <2>1, ByteLoopBytes
  <2> QED BY <2>2 DEF ORC_B, orc
<1>18. CASE o \in {"ADD", "SUB", "SLT", "SLTU", "AND", "OR", "XOR", "SLL", "SRL", "SRA"}
  BY ONLY <1>3, <1>4, <1>5, <1>6, <1>7, <1>18 DEF BinOp
<1>19. CASE o \in {"MUL", "MULH", "MULHSU", "MULHU", "DIV", "DIVU", "REM", "REMU"}
  BY ONLY <1>3, <1>8, <1>10, <1>11, <1>19 DEF BinOp
<1>20. CASE o \in {"ANDN", "ORN", "XNOR", "MIN", "MINU", "MAX", "MAXU", "ROL", "ROR"}
  BY ONLY <1>5, <1>12, <1>13, <1>20 DEF BinOp
<1>21. CASE o \in UnaryOps
  BY ONLY <1>14, <1>15, <1>16, <1>17, <1>21 DEF BinOp, UnaryOps
<1> QED BY ONLY <1>18, <1>19, <1>20, <1>21, o \in BinOps \cup UnaryOps DEF BinOps

(* Every callback stores a register, whichever outcome an undefined shift  *)
(* has (TypeOK of AluUnit: the casts to Register of ext_i_cb.cpp,          *)
(* ext_m_cb.cpp and ext_zbb_cb.cpp).                                       *)
THEOREM ResultsAreTyped == Spec => []TypeOK
<1>1. AluInv => TypeOK
  <2> SUFFICES ASSUME AluInv PROVE TypeOK
    OBVIOUS
  <2>1. CASE op = "none"
    BY <2>1, RegisterFacts DEF AluInv, TypeOK
  <2>2. CASE op # "none"
    <3>1. op \in BinOps \cup UnaryOps /\ rs1 \in Register /\ rs2 \in Register
      BY <2>2 DEF AluInv
    <3>2. rd \in Register
      BY <2>2, <3>1, ResultsAreRegisters DEF AluInv
    <3> QED BY <3>1, <3>2 DEF TypeOK
  <2> QED BY <2>1, <2>2
<1> QED BY <1>1, AlwaysAluInv, PTL

-----------------------------------------------------------------------------
(* What the hart assumes of its arithmetic, of the operators of Alu.       *)

LEMMA FirstPowers ==
  ASSUME 5 \in 0 .. XLen
  PROVE  Pow2[5] = 32
<1> DEFINE P == Pow2
<1>1. /\ XLen \in Nat /\ XLen >= 5 /\ P[0] = 1
      /\ \A n \in 0 .. XLen - 1 : P[n + 1] = 2 * P[n]
  BY PowerSteps
<1> HIDE DEF P
<1>2. P[1] = 2
  <2>1. P[0 + 1] = 2 * P[0]
    BY <1>1
  <2> QED BY <1>1, <2>1
<1>3. P[2] = 4
  <2>1. P[1 + 1] = 2 * P[1]
    BY <1>1
  <2> QED BY <1>2, <2>1
<1>4. P[3] = 8
  <2>1. P[2 + 1] = 2 * P[2]
    BY <1>1
  <2> QED BY <1>3, <2>1
<1>5. P[4] = 16
  <2>1. P[3 + 1] = 2 * P[3]
    BY <1>1
  <2> QED BY <1>4, <2>1
<1>6. P[5] = 32
  <2>1. P[4 + 1] = 2 * P[4]
    BY <1>1
  <2> QED BY <1>5, <2>1
<1> QED BY <1>6 DEF P

(* The bitwise or of two numbers below 2^n is below 2^n.                   *)
LEMMA OrBelow ==
  ASSUME NEW n \in 0 .. XLen, NEW a \in Register, a < Pow2[n], NEW b \in Register, b < Pow2[n]
  PROVE  Or(a, b) < Pow2[n]
<1> DEFINE c == Or(a, b)
           v == c % Pow2[n]
<1>1. /\ c \in Register /\ a \in Nat /\ b \in Nat /\ c \in Nat /\ XLen \in Nat
      /\ \A i \in Positions : IsBitSet(c, i) <=> IsBitSet(a, i) \/ IsBitSet(b, i)
  BY BitwiseBits, RegisterFacts
<1> HIDE DEF c
<1>2. v \in Register /\ v < Pow2[n] /\ v \in Nat
  BY <1>1, LowMask, RegisterFacts
<1>3. ASSUME NEW i \in Positions PROVE IsBitSet(c, i) <=> IsBitSet(v, i)
  <2>0. i \in 0 .. XLen - 1
    BY DEF Positions
  <2>1. CASE i < n
    <3>1. i \in 0 .. n - 1 /\ c \in Int
      BY ONLY <1>1, <2>0, <2>1, n \in 0 .. XLen
    <3> QED BY ONLY <3>1, BitOfLow, n \in 0 .. XLen
  <2>2. CASE i >= n
    <3>1. i \in n .. XLen
      BY ONLY <1>1, <2>0, <2>2, n \in 0 .. XLen
    <3> HIDE DEF v
    <3>2. ~ IsBitSet(a, i) /\ ~ IsBitSet(b, i) /\ ~ IsBitSet(v, i)
      BY <1>1, <1>2, <3>1, HighBits
    <3> QED BY <1>1, <3>2
  <2> QED BY ONLY <2>0, <2>1, <2>2, n \in 0 .. XLen
<1>4. c = v
  <2> HIDE DEF v
  <2> QED BY <1>1, <1>2, <1>3, SameBits
<1> QED BY <1>2, <1>4 DEF c

(* Hart asks of its arithmetic that it gives registers and truth values    *)
(* (AluAssumption), and of | and & that they keep the five exception flags *)
(* and add one operand's to the other's (BitAssumption, FlagsAssumption:   *)
(* ext_f_cb.cpp:57, ext_zicsr_cb.cpp:44,62,101,120).  The operators of the *)
(* callbacks do, in every register of five bits or more.                   *)
THEOREM ArithmeticIsAsAssumed ==
  ASSUME 5 \in 0 .. XLen
  PROVE  /\ \A a, b \in Register :
              /\ \A o \in BinOps \cup UnaryOps : BinOp(o, a, b) \in SUBSET Register
              /\ \A o \in BranchOps : Taken(o, a, b) \in BOOLEAN
              /\ Or(a, b) \in Register /\ And(a, Not(b)) \in Register
         /\ \A a, b \in 0 .. 31 :
              /\ Or(a, b) \in 0 .. 31
              /\ \A k \in 0 .. 4 : IsBitSet(Or(a, b), k) <=> IsBitSet(a, k) \/ IsBitSet(b, k)
<1>1. Pow2[5] = 32 /\ 32 <= WordMod /\ WordMod \in Nat /\ XLen \in Nat /\ XLen >= 5
  BY FirstPowers, RegisterFacts
<1>2. ASSUME NEW a \in Register, NEW b \in Register
      PROVE  /\ \A o \in BinOps \cup UnaryOps : BinOp(o, a, b) \in SUBSET Register
             /\ \A o \in BranchOps : Taken(o, a, b) \in BOOLEAN
             /\ Or(a, b) \in Register /\ And(a, Not(b)) \in Register
  <2>1. \A o \in BinOps \cup UnaryOps : BinOp(o, a, b) \in SUBSET Register
    BY ResultsAreRegisters
  <2>2. \A o \in BranchOps : Taken(o, a, b) \in BOOLEAN
    <3> SUFFICES ASSUME NEW o \in BranchOps PROVE Taken(o, a, b) \in BOOLEAN
      OBVIOUS
    <3>1. CASE o = "BEQ"
      BY <3>1 DEF Taken
    <3>2. CASE o = "BNE"
      BY <3>2 DEF Taken
    <3>3. CASE o = "BLT"
      BY <3>3 DEF Taken
    <3>4. CASE o = "BGE"
      BY <3>4 DEF Taken
    <3>5. CASE o = "BLTU"
      BY <3>5 DEF Taken
    <3>6. CASE o = "BGEU"
      BY <3>6 DEF Taken
    <3> QED BY <3>1, <3>2, <3>3, <3>4, <3>5, <3>6 DEF BranchOps
  <2> QED BY <2>1, <2>2, BitwiseBits
<1>3. ASSUME NEW a \in 0 .. 31, NEW b \in 0 .. 31
      PROVE  /\ Or(a, b) \in 0 .. 31
             /\ \A k \in 0 .. 4 : IsBitSet(Or(a, b), k) <=> IsBitSet(a, k) \/ IsBitSet(b, k)
  <2>1. a \in Register /\ b \in Register /\ a < Pow2[5] /\ b < Pow2[5]
    BY <1>1 DEF Register
  <2>2. Or(a, b) < Pow2[5]
    <3> DEFINE n == 5
    <3>1. n \in 0 .. XLen /\ a < Pow2[n] /\ b < Pow2[n]
      BY <2>1
    <3> HIDE DEF n
    <3>2. Or(a, b) < Pow2[n]
      BY ONLY <2>1, <3>1, OrBelow
    <3> QED BY <3>2 DEF n
  <2>3. Or(a, b) \in Nat
    BY BitwiseBits, RegisterFacts
  <2>4. 0 .. 4 \subseteq Positions
    BY <1>1 DEF Positions
  <2> QED BY <1>1, <2>2, <2>3, <2>4, BitwiseBits
<1> QED BY <1>2, <1>3

=============================================================================
