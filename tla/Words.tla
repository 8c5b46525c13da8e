------------------------------- MODULE Words --------------------------------
(***************************************************************************)
(* 32-bit registers and the helpers of isa_hlp.hpp, for any width.  A      *)
(* register is the integer its bits stand for; a bitwise operator goes     *)
(* through the set of positions of the 1 bits.                             *)
(***************************************************************************)
EXTENDS Integers, FiniteSets

CONSTANTS
  XLen,     \* kXlen, the bits of a register: 32 in the code
  CharBit   \* CHAR_BIT, the bits of a byte: 8 in the code

(* 2^n, up to the width of a register.                                     *)
Pow2[n \in 0 .. XLen] == IF n = 0 THEN 1 ELSE 2 * Pow2[n - 1]

ASSUME WidthAssumption ==
  /\ CharBit \in Nat \ {0}
  /\ XLen \in Nat \ {0}
  /\ XLen % CharBit = 0 /\ 2 * CharBit <= XLen
  /\ \E k \in 0 .. XLen : XLen = Pow2[k]

WordMod == Pow2[XLen]
Register == 0 .. WordMod - 1
WordBytes == XLen \div CharBit   \* kXlenByte

(* Conversion to an unsigned register, modulo 2^XLen.                      *)
Trunc(z) == z % WordMod

(* RegToIReg: the two's complement value.                                  *)
Signed(x) == IF x < WordMod \div 2 THEN x ELSE x - WordMod

(* WRegister arithmetic is modulo 2^(2 XLen); TruncLow keeps its high half.*)
TruncLow(z) == (z % (WordMod * WordMod)) \div WordMod

IsBitSet(x, i) == (x \div Pow2[i]) % 2 = 1
Bits(x) == {i \in 0 .. XLen - 1 : IsBitSet(x, i)}
Word(S) ==
  LET sum[n \in 0 .. XLen] ==
        IF n = 0 THEN 0 ELSE sum[n - 1] + (IF n - 1 \in S THEN Pow2[n - 1] ELSE 0)
  IN  sum[XLen]

AllOnes == WordMod - 1
Not(x) == AllOnes - x
And(x, y) == Word(Bits(x) \cap Bits(y))
Or(x, y) == Word(Bits(x) \cup Bits(y))
Xor(x, y) == Word((Bits(x) \cup Bits(y)) \ (Bits(x) \cap Bits(y)))

(* x << n and x >> n on a Register.  A count of XLen or more is undefined: *)
(* the processor's shift instruction takes the count modulo XLen, and a    *)
(* compiler that knows the count may fold the result to 0.                 *)
Shl(x, n) == IF n < XLen THEN {Trunc(x * Pow2[n])}
             ELSE {Trunc(x * Pow2[n % XLen]), 0}
Shr(x, n) == IF n < XLen THEN {x \div Pow2[n]}
             ELSE {x \div Pow2[n % XLen], 0}

GetByte(x, index) == (x \div Pow2[index * CharBit]) % Pow2[CharBit]

(* ~uint8_t{0} is the int -1 by promotion, so that clear_byte_mask has     *)
(* ones below the byte and nothing above it.                               *)
SetByte(x, byte_val, index) ==
  LET shift == index * CharBit
      clear_byte_mask == Pow2[shift] - 1
  IN  Or(And(x, clear_byte_mask), Trunc(byte_val * Pow2[shift]))

(* Mutant: the sign bit is looked for one place too high.                  *)
SignExt_nextBit(x, from_bits) ==
  LET value_mask == Pow2[from_bits] - 1
      v == And(x, value_mask)
  IN  IF IsBitSet(x, from_bits) THEN Or(v, Not(value_mask)) ELSE v

(* SignExt<Register> of the low from_bits bits of x.                       *)
SignExt(x, from_bits) ==
  LET value_mask == Pow2[from_bits] - 1
      v == And(x, value_mask)
  IN  IF IsBitSet(v, from_bits - 1) THEN Or(v, Not(value_mask)) ELSE v
=============================================================================
