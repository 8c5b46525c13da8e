-------------------------------- MODULE Alu ---------------------------------
(***************************************************************************)
(* What the register-register and register-immediate callbacks of RV32I,   *)
(* M and Zbb compute (ext_i_cb.cpp, ext_m_cb.cpp, ext_zbb_cb.cpp): one     *)
(* operator for the bin_op of each callback, from the values of its        *)
(* operands.  BinOp gives the set of results the build can produce; only   *)
(* an undefined shift makes it more than one.                              *)
(***************************************************************************)
EXTENDS Words
Sets == INSTANCE FiniteSetsExt   \* Max, Min

ADD(a, b) == Trunc(a + b)
SUB_wide(a, b) == a - b   \* mutant: the difference keeps its sign

SUB(a, b) == Trunc(a - b)
SLT(a, b) == IF Signed(a) < Signed(b) THEN 1 ELSE 0
SLTU(a, b) == IF a < b THEN 1 ELSE 0
AND(a, b) == And(a, b)
OR(a, b) == Or(a, b)
XOR(a, b) == Xor(a, b)
SLL(a, b) == Shl(a, b)
SRL(a, b) == Shr(a, b)

(* Mutant: the mask of ones starts one place too high.                     *)
ArithmRightShift_shortMask(x, shift) ==
  LET negative == IsBitSet(x, XLen - 1)
      logical == x \div Pow2[shift]
      fill_mask == Trunc(AllOnes * Pow2[XLen - shift + 1])
  IN  IF shift = 0 THEN x
      ELSE IF shift >= XLen THEN IF negative THEN AllOnes ELSE 0
      ELSE IF negative THEN Or(logical, fill_mask) ELSE logical

(* The sign is put back by a mask of ones above the shifted bits.          *)
ArithmRightShift(x, shift) ==
  LET negative == IsBitSet(x, XLen - 1)
      logical == x \div Pow2[shift]
      fill_mask == Trunc(AllOnes * Pow2[XLen - shift])
  IN  IF shift = 0 THEN x
      ELSE IF shift >= XLen THEN IF negative THEN AllOnes ELSE 0
      ELSE IF negative THEN Or(logical, fill_mask) ELSE logical

SRA(a, b) == ArithmRightShift(a, And(b, XLen - 1))

MUL(a, b) == Trunc(a * b)
(* WIRegister rs1 = GetXReg(...) is a widening of the unsigned value; the  *)
(* product may overflow it, which wraps.                                   *)
MULH(a, b) == TruncLow(a * b)
(* RegToIReg makes the second operand signed too.                          *)
MULHSU(a, b) == TruncLow(Signed(a) * Signed(b))
MULHU_signed(a, b) == TruncLow(Signed(a) * Signed(b))   \* mutant: as in MULHSU

MULHU(a, b) == TruncLow(a * b)

(* The operators / and % of the language round towards zero.               *)
Magnitude(x) == IF x < 0 THEN -x ELSE x
Quotient(x, y) ==
  LET q == Magnitude(x) \div Magnitude(y) IN IF (x < 0) = (y < 0) THEN q ELSE -q
Remainder(x, y) ==
  LET r == Magnitude(x) % Magnitude(y) IN IF x < 0 THEN -r ELSE r

MinSigned == - (WordMod \div 2)
Overflows(a, b) == Signed(a) = MinSigned /\ Signed(b) = -1

DIV(a, b) ==
  Trunc(IF b = 0 THEN -1
        ELSE IF Overflows(a, b) THEN MinSigned ELSE Quotient(Signed(a), Signed(b)))
DIVU(a, b) == IF b = 0 THEN AllOnes ELSE a \div b
(* Mutant: no case for MIN / -1, whose quotient traps, and a zero divisor  *)
(* leaves no remainder.                                                    *)
REM_zeroByZero(a, b) == Trunc(IF b = 0 THEN 0 ELSE Remainder(Signed(a), Signed(b)))

REM(a, b) ==
  Trunc(IF b = 0 THEN Signed(a)
        ELSE IF Overflows(a, b) THEN 0 ELSE Remainder(Signed(a), Signed(b)))
REMU(a, b) == IF b = 0 THEN a ELSE a % b

ANDN(a, b) == And(a, Not(b))
ORN_nor(a, b) == Not(Or(a, b))   \* mutant: the inversion is outside

ORN(a, b) == Or(a, Not(b))
XNOR(a, b) == Not(Xor(a, b))
MIN_unsigned(a, b) == IF a < b THEN a ELSE b   \* mutant: no RegToIReg

MIN(a, b) == IF Signed(a) < Signed(b) THEN a ELSE b
MINU(a, b) == IF a < b THEN a ELSE b
MAX(a, b) == IF Signed(a) < Signed(b) THEN b ELSE a
MAXU(a, b) == IF a < b THEN b ELSE a
SEXT_B(a) == SignExt(a, CharBit)
SEXT_H(a) == SignExt(a, 2 * CharBit)
ZEXT_H(a) == a % Pow2[2 * CharBit]

CLZ_fromXLen(a) == XLen - Sets!Max(Bits(a) \cup {0})   \* mutant: 0 as highest_set

(* The loops stop at the first bit that is set.                            *)
CLZ(a) == (XLen - 1) - Sets!Max(Bits(a) \cup {-1})
CTZ(a) == Sets!Min(Bits(a) \cup {XLen})
CPOP(a) == Cardinality(Bits(a))

(* A shift amount of 0 makes the other shift of a rotation one of XLen.    *)
RotateLeft(a, shamt) == {Or(x, y) : x \in Shl(a, shamt), y \in Shr(a, XLen - shamt)}
RotateRight(a, shamt) == {Or(x, y) : x \in Shr(a, shamt), y \in Shl(a, XLen - shamt)}
(* Mutant: the count is not masked.                                        *)
ROL_anyCount(a, b) == {Or(x, y) : x \in Shl(a, b), y \in Shr(a, Magnitude(XLen - b))}

ROL(a, b) == RotateLeft(a, And(b, XLen - 1))
ROR(a, b) == RotateRight(a, And(b, XLen - 1))

(* The loops that build the result byte by byte, from the lowest.          *)
ByteIndex == 0 .. WordBytes - 1
ByteLoop(new_byte) ==
  LET val[i \in 0 .. WordBytes] ==
        IF i = 0 THEN 0 ELSE SetByte(val[i - 1], new_byte[i - 1], i - 1)
  IN  val[WordBytes]

(* Mutant: the bytes are taken from one past the highest.                  *)
REV8_pastTheEnd(a) == ByteLoop([i \in ByteIndex |-> GetByte(a, WordBytes - i)])

REV8(a) == ByteLoop([i \in ByteIndex |-> GetByte(a, WordBytes - 1 - i)])
ORC_B(a) == ByteLoop([i \in ByteIndex |-> IF GetByte(a, i) = 0 THEN 0 ELSE Pow2[CharBit] - 1])

BinOps == {"ADD", "SUB", "SLT", "SLTU", "AND", "OR", "XOR", "SLL", "SRL", "SRA",
           "MUL", "MULH", "MULHSU", "MULHU", "DIV", "DIVU", "REM", "REMU",
           "ANDN", "ORN", "XNOR", "MIN", "MINU", "MAX", "MAXU", "ROL", "ROR"}
UnaryOps == {"SEXT_B", "SEXT_H", "ZEXT_H", "CLZ", "CTZ", "CPOP", "REV8", "ORC_B"}

(* The results of operation op; a unary one leaves b alone.                *)
BinOp(op, a, b) ==
  CASE op = "ADD"    -> {ADD(a, b)}     [] op = "SUB"    -> {SUB(a, b)}
    [] op = "SLT"    -> {SLT(a, b)}     [] op = "SLTU"   -> {SLTU(a, b)}
    [] op = "AND"    -> {AND(a, b)}     [] op = "OR"     -> {OR(a, b)}
    [] op = "XOR"    -> {XOR(a, b)}     [] op = "SLL"    -> SLL(a, b)
    [] op = "SRL"    -> SRL(a, b)       [] op = "SRA"    -> {SRA(a, b)}
    [] op = "MUL"    -> {MUL(a, b)}     [] op = "MULH"   -> {MULH(a, b)}
    [] op = "MULHSU" -> {MULHSU(a, b)}  [] op = "MULHU"  -> {MULHU(a, b)}
    [] op = "DIV"    -> {DIV(a, b)}     [] op = "DIVU"   -> {DIVU(a, b)}
    [] op = "REM"    -> {REM(a, b)}     [] op = "REMU"   -> {REMU(a, b)}
    [] op = "ANDN"   -> {ANDN(a, b)}    [] op = "ORN"    -> {ORN(a, b)}
    [] op = "XNOR"   -> {XNOR(a, b)}    [] op = "MIN"    -> {MIN(a, b)}
    [] op = "MINU"   -> {MINU(a, b)}    [] op = "MAX"    -> {MAX(a, b)}
    [] op = "MAXU"   -> {MAXU(a, b)}    [] op = "ROL"    -> ROL(a, b)
    [] op = "ROR"    -> ROR(a, b)       [] op = "SEXT_B" -> {SEXT_B(a)}
    [] op = "SEXT_H" -> {SEXT_H(a)}     [] op = "ZEXT_H" -> {ZEXT_H(a)}
    [] op = "CLZ"    -> {CLZ(a)}        [] op = "CTZ"    -> {CTZ(a)}
    [] op = "CPOP"   -> {CPOP(a)}       [] op = "REV8"   -> {REV8(a)}
    [] op = "ORC_B"  -> {ORC_B(a)}

BranchOps == {"BEQ", "BNE", "BLT", "BGE", "BLTU", "BGEU"}

(* The predicates that ExecuteBranch is given.                             *)
Taken(op, a, b) ==
  CASE op = "BEQ"  -> a = b
    [] op = "BNE"  -> a # b
    [] op = "BLT"  -> Signed(a) < Signed(b)
    [] op = "BGE"  -> Signed(a) >= Signed(b)
    [] op = "BLTU" -> a < b
    [] op = "BGEU" -> a >= b
=============================================================================
