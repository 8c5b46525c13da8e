----------------------------- MODULE MiniFloat ------------------------------
(***************************************************************************)
(* The softfloat library, which is not part of this repository, on a       *)
(* format small enough for TLC: a sign, three bits of exponent and four of *)
(* significand, with the infinities, NaNs and subnormals of IEEE 754.      *)
(* Magnitudes are counted in 64ths, the smallest subnormal.                *)
(***************************************************************************)
EXTENDS Integers
LOCAL INSTANCE FiniteSetsExt   \* Max

Inf == 112         \* the encoding of infinity; greater ones are NaNs
QuietNaN == 120

Negative(v) == v >= 128
Abs(v) == v % 128
IsNaN(v) == Abs(v) > Inf
IsInf(v) == Abs(v) = Inf
IsSignaling(v) == IsNaN(v) /\ Abs(v) < QuietNaN
Encode(negative, magnitude) == IF negative THEN 128 + magnitude ELSE magnitude

(* The magnitude of an encoding; that of Inf is where it would come next.  *)
Mag(k) == LET e == k \div 16  m == k % 16
          IN  IF e = 0 THEN m ELSE (16 + m) * 2 ^ (e - 1)
Exact(v) == IF Negative(v) THEN - Mag(Abs(v)) ELSE Mag(Abs(v))

Classify(v) ==
  IF IsNaN(v) THEN "nan" ELSE IF IsInf(v) THEN "infinite"
  ELSE IF Abs(v) = 0 THEN "zero" ELSE IF Abs(v) < 16 THEN "subnormal" ELSE "normal"

(* Exceptions, and rounding modes.                                         *)
inexact == 1
underflow == 2
overflow == 4
infinite == 8
invalid == 16
near_even == 0
minMag == 1
min == 2
max == 3
near_maxMag == 4

Reply(v, flags) == [v |-> v, flags |-> flags]
Invalid == Reply(QuietNaN, invalid)

(* Which neighbour to take, given how the value compares to their middle.  *)
GoesUp(negative, even, below, tie, mode) ==
  CASE mode = minMag -> FALSE
    [] mode = min -> negative
    [] mode = max -> ~ negative
    [] mode = near_even -> ~ below /\ (tie => ~ even)
    [] OTHER -> ~ below

(* The encoding nearest to a magnitude z, known by z >= h / 2 (AtLeast)    *)
(* and z = h / 2 (Is) for every h.                                         *)
Rounded(negative, AtLeast(_), Is(_), mode) ==
  LET lo == Max({k \in 0 .. Inf - 1 : AtLeast(2 * Mag(k))})
      middle == Mag(lo) + Mag(lo + 1)
      up == GoesUp(negative, lo % 2 = 0, ~ AtLeast(middle), Is(middle), mode)
      k == IF up THEN lo + 1 ELSE lo
  IN  IF Is(2 * Mag(lo)) THEN Reply(Encode(negative, lo), 0)
      ELSE Reply(Encode(negative, k),
                 inexact + (IF k = Inf \/ AtLeast(2 * Mag(Inf)) THEN overflow ELSE 0)
                         + (IF lo < 16 THEN underflow ELSE 0))

Magnitude(z) == IF z < 0 THEN - z ELSE z

(* The quotient num / den of 64ths; negative decides the sign of a zero.   *)
Ratio(negative, num, den, mode) ==
  Rounded(negative, LAMBDA h : 2 * num >= h * den, LAMBDA h : 2 * num = h * den, mode)

NaNReply(args) ==
  Reply(QuietNaN, IF \E k \in DOMAIN args : IsSignaling(args[k]) THEN invalid ELSE 0)

(* a + b, given also their values, den times larger.  Opposite values add  *)
(* up to +0, or -0 when rounding down.                                     *)
Add(a, aValue, b, bValue, den, mode) ==
  IF IsInf(a) /\ IsInf(b) THEN IF Negative(a) = Negative(b) THEN Reply(a, 0) ELSE Invalid
  ELSE IF IsInf(a) THEN Reply(a, 0)
  ELSE IF IsInf(b) THEN Reply(b, 0)
  ELSE LET z == aValue + bValue
           negative == IF z # 0 THEN z < 0
                       ELSE IF Negative(a) = Negative(b) THEN Negative(a) ELSE mode = min
       IN  Ratio(negative, Magnitude(z), den, mode)

Mul(a, b, mode) ==
  LET negative == Negative(a) # Negative(b)
  IN  IF IsInf(a) \/ IsInf(b)
      THEN IF Abs(a) = 0 \/ Abs(b) = 0 THEN Invalid ELSE Reply(Encode(negative, Inf), 0)
      ELSE Ratio(negative, Mag(Abs(a)) * Mag(Abs(b)), 64, mode)

Div(a, b, mode) ==
  LET negative == Negative(a) # Negative(b)
  IN  IF (IsInf(a) /\ IsInf(b)) \/ (Abs(a) = 0 /\ Abs(b) = 0) THEN Invalid
      ELSE IF IsInf(a) THEN Reply(Encode(negative, Inf), 0)
      ELSE IF IsInf(b) THEN Reply(Encode(negative, 0), 0)
      ELSE IF Abs(b) = 0 THEN Reply(Encode(negative, Inf), infinite)
      ELSE Ratio(negative, 64 * Mag(Abs(a)), Mag(Abs(b)), mode)

Sqrt(a, mode) ==
  IF Abs(a) = 0 THEN Reply(a, 0)
  ELSE IF Negative(a) THEN Invalid
  ELSE IF IsInf(a) THEN Reply(a, 0)
  ELSE LET square == 256 * Mag(a)
       IN  Rounded(FALSE, LAMBDA h : square >= h * h, LAMBDA h : square = h * h, mode)

MulAdd(a, b, c, mode) ==
  LET product == Encode(Negative(a) # Negative(b), IF IsInf(a) \/ IsInf(b) THEN Inf ELSE 0)
  IN  IF (IsInf(a) /\ Abs(b) = 0) \/ (IsInf(b) /\ Abs(a) = 0) THEN Invalid
      ELSE Add(product, Exact(a) * Exact(b), c, 64 * Exact(c), 64, mode)

Less(args, orEqual) ==
  \/ Exact(args[1]) < Exact(args[2])
  \/ orEqual /\ Exact(args[1]) = Exact(args[2])

(* Conversion to the integers lo .. hi, of which the register keeps 8 bits.*)
ToInteger(a, lo, hi, mode) ==
  LET m == Mag(Abs(a))
      up == GoesUp(Negative(a), (m \div 64) % 2 = 0, m % 64 < 32, m % 64 = 32, mode)
      n == (m \div 64) + (IF m % 64 # 0 /\ up THEN 1 ELSE 0)
      z == IF Negative(a) THEN - n ELSE n
  IN  IF IsNaN(a) \/ (IsInf(a) /\ ~ Negative(a)) \/ z > hi THEN Reply(hi % 256, invalid)
      ELSE IF IsInf(a) \/ z < lo THEN Reply(lo % 256, invalid)
      ELSE Reply(z % 256, IF m % 64 = 0 THEN 0 ELSE inexact)

FromInteger(z, mode) == Ratio(z < 0, 64 * Magnitude(z), 1, mode)

MiniSoftFloat(f, args, mode) ==
  LET a == args[1]
      b == args[2]
      anyNaN == \E k \in DOMAIN args : IsNaN(args[k])
      sb == Encode(~ Negative(b), Abs(b))
      signaling == \E k \in DOMAIN args : IsSignaling(args[k])
  IN {CASE f = "i32_to_f32" -> FromInteger(IF a < 128 THEN a ELSE a - 256, mode)
        [] f = "ui32_to_f32" -> FromInteger(a, mode)
        [] f = "f32_to_i32" -> ToInteger(a, -128, 127, mode)
        [] f = "f32_to_ui32" -> ToInteger(a, 0, 255, mode)
        [] f \in {"f32_le", "f32_lt"} ->
             IF anyNaN THEN Reply(0, invalid) ELSE Reply(IF Less(args, f = "f32_le") THEN 1 ELSE 0, 0)
        [] f = "f32_eq" ->
             Reply(IF ~ anyNaN /\ Exact(a) = Exact(b) THEN 1 ELSE 0, IF signaling THEN invalid ELSE 0)
        [] anyNaN -> NaNReply(args)
        [] f = "f32_add" -> Add(a, Exact(a), b, Exact(b), 1, mode)
        [] f = "f32_sub" -> Add(a, Exact(a), sb, Exact(sb), 1, mode)
        [] f = "f32_mul" -> Mul(a, b, mode)
        [] f = "f32_div" -> Div(a, b, mode)
        [] f = "f32_sqrt" -> Sqrt(a, mode)
        [] OTHER -> MulAdd(a, b, args[3], mode)}
=============================================================================
