------------------------------ MODULE AluUnit -------------------------------
(***************************************************************************)
(* One instruction that computes a register from one or two others         *)
(* (ExecuteRRRBinOp, ExecuteRRIBinOp, ExecuteRRIShift and the callbacks of *)
(* the same shape), and what its result must be: arithmetic on values and  *)
(* statements about single bits, where the code has loops, masks, shifts   *)
(* and conversions.                                                        *)
(***************************************************************************)
EXTENDS Alu

CONSTANTS Rs1Values, Rs2Values   \* the operands tried

ASSUME OperandAssumption ==
  Rs1Values \subseteq Register /\ Rs2Values \subseteq Register

VARIABLES
  op,         \* the operation executed, or "none"
  rs1, rs2,   \* its operands
  rd          \* its result

vars == <<op, rs1, rs2, rd>>

TypeOK ==
  /\ op \in BinOps \cup UnaryOps \cup {"none"}
  /\ {rs1, rs2, rd} \subseteq Register

Init ==
  /\ op = "none"
  /\ rs1 \in Rs1Values
  /\ rs2 \in Rs2Values
  /\ rd = 0

Execute(o) ==
  /\ op = "none"
  /\ op' = o
  /\ rd' \in BinOp(o, rs1, rs2)
  /\ UNCHANGED <<rs1, rs2>>

Next == \E o \in BinOps \cup UnaryOps : Execute(o)

Spec == Init /\ [][Next]_vars
-----------------------------------------------------------------------------
Positions == 0 .. XLen - 1
Bit(x, i) == IsBitSet(x, i)

(* SRA takes the count modulo XLen and rounds towards minus infinity on    *)
(* the signed value; ArithmRightShift gets there by a logical shift and a  *)
(* mask (ext_i_cb.cpp:19-37,497).  SLL and SRL do so for counts below XLen,*)
(* the only ones that SLLI and SRLI have.                                  *)
ShiftsAreExact ==
  /\ op = "SRA" => Signed(rd) = Signed(rs1) \div Pow2[rs2 % XLen]
  /\ op = "SRL" /\ rs2 < XLen => rd = rs1 \div Pow2[rs2]
  /\ op = "SLL" /\ rs2 < XLen => rd = (rs1 * Pow2[rs2]) % WordMod

(* Bit i of the operand ends up rs2 places away, around the end of the     *)
(* register, also for an amount of 0, where the other shift of the         *)
(* rotation is by XLen and undefined (ext_zbb_cb.cpp:242,259,276): either  *)
(* outcome of it gives the right result.                                   *)
RotatesKeepEveryBit ==
  \A i \in Positions :
    /\ op = "ROL" => (Bit(rd, (i + rs2) % XLen) <=> Bit(rs1, i))
    /\ op = "ROR" => (Bit(rd, i) <=> Bit(rs1, (i + rs2) % XLen))

(* The dividend is what quotient and remainder say, the remainder has the  *)
(* dividend's sign and is smaller than the divisor; DIV and REM have       *)
(* separate code for a zero divisor and for MIN / -1, which must agree     *)
(* (ext_m_cb.cpp:101-107,145-151).                                         *)
QuotientAndRemainderAgree ==
  /\ op = "REM" =>
       /\ Trunc(Signed(DIV(rs1, rs2)) * Signed(rs2) + Signed(rd)) = rs1
       /\ Signed(rd) # 0 => (Signed(rd) < 0) = (Signed(rs1) < 0)
       /\ rs2 # 0 => Magnitude(Signed(rd)) < Magnitude(Signed(rs2))
  /\ op = "REMU" =>
       /\ Trunc(DIVU(rs1, rs2) * rs2 + rd) = rs1
       /\ rs2 # 0 => rd < rs2
  /\ op = "DIV" /\ rs2 = 0 => Signed(rd) = -1
  /\ op = "DIVU" /\ rs2 = 0 => rd = AllOnes

(* MULHU and MUL are the two halves of one product.                        *)
HighAndLowMakeTheProduct ==
  op = "MULHU" => rd * WordMod + MUL(rs1, rs2) = rs1 * rs2

(* The counts of zeros bound the value, and the ones and the zeros on      *)
(* either side of it make up the register, 0 included, where the loops     *)
(* find no bit (ext_zbb_cb.cpp:165-229).                                   *)
CountsMeasureTheValue ==
  /\ op = "CLZ" => rs1 < Pow2[XLen - rd] /\ (rd < XLen => rs1 >= Pow2[XLen - rd - 1])
  /\ op = "CTZ" => rs1 % Pow2[rd] = 0 /\ (rd < XLen => (rs1 \div Pow2[rd]) % 2 = 1)
  /\ op = "CPOP" => /\ rd + CPOP(Not(rs1)) = XLen
                    /\ rd <= XLen - CLZ(rs1) - IF rs1 = 0 THEN 0 ELSE CTZ(rs1)

(* REV8 and ORC_B call SetByte for one byte after the other; no call may   *)
(* disturb the bytes already set, though the mask of SetByte clears more   *)
(* than its byte (isa_hlp.hpp:115, ext_zbb_cb.cpp:291-317).                *)
ByteLoopsKeepEveryByte ==
  \A i \in 0 .. WordBytes - 1 :
    /\ op = "REV8" => GetByte(rd, i) = GetByte(rs1, WordBytes - 1 - i)
    /\ op = "ORC_B" => GetByte(rd, i) = IF GetByte(rs1, i) = 0 THEN 0
                                        ELSE Pow2[CharBit] - 1

(* Sign extension by masks keeps the signed value of the low byte or half  *)
(* word (isa_hlp.hpp:122-146).                                             *)
ExtensionsKeepTheValue ==
  LET Low(n) == rs1 % Pow2[n]
      Value(n) == IF Low(n) < Pow2[n - 1] THEN Low(n) ELSE Low(n) - Pow2[n]
  IN  /\ op = "SEXT_B" => Signed(rd) = Value(CharBit)
      /\ op = "SEXT_H" => Signed(rd) = Value(2 * CharBit)
      /\ op = "ZEXT_H" => rd = Low(2 * CharBit)

(* Signed and unsigned order are each the one the mnemonic names, ties and *)
(* the boundary between them included.                                     *)
OrdersAgree ==
  /\ op = "SLT" => (rd = 1) = Taken("BLT", rs1, rs2)
  /\ op = "SLTU" => (rd = 1) = Taken("BLTU", rs1, rs2)
  /\ op \in {"MIN", "MAX"} =>
       /\ Signed(rd) \in {Signed(rs1), Signed(rs2)}
       /\ Signed(rd) * 2 = Signed(rs1) + Signed(rs2)
            + (IF op = "MAX" THEN 1 ELSE -1) * Magnitude(Signed(rs1) - Signed(rs2))
  /\ op \in {"MINU", "MAXU"} =>
       rd * 2 = rs1 + rs2 + (IF op = "MAXU" THEN 1 ELSE -1) * Magnitude(rs1 - rs2)

(* The inverted operators of Zbb, bit by bit.                              *)
InvertedLogic ==
  \A i \in Positions :
    /\ op = "ANDN" => (Bit(rd, i) <=> Bit(rs1, i) /\ ~ Bit(rs2, i))
    /\ op = "ORN" => (Bit(rd, i) <=> Bit(rs1, i) \/ ~ Bit(rs2, i))
    /\ op = "XNOR" => (Bit(rd, i) <=> (Bit(rs1, i) <=> Bit(rs2, i)))
-----------------------------------------------------------------------------
(* What tests/mul.s:50-54 and 63-67 expect: mulh gives the high half of    *)
(* the signed product ("expect 0" for -1 * MIN), mulhsu that of a signed   *)
(* and an unsigned operand.                                                *)
HighHalvesAreSigned ==
  /\ op = "MULH" => Signed(rd) = (Signed(rs1) * Signed(rs2)) \div WordMod
  /\ op = "MULHSU" => Signed(rd) = (Signed(rs1) * rs2) \div WordMod

(* README.md:2 promises RV32I: SLL and SRL take the low bits of rs2, as    *)
(* SRA does in ext_i_cb.cpp:497.                                           *)
RegisterShiftsMaskTheCount ==
  /\ op = "SLL" => rd = (rs1 * Pow2[rs2 % XLen]) % WordMod
  /\ op = "SRL" => rd = rs1 \div Pow2[rs2 % XLen]
=============================================================================
