------------------------------ MODULE Toolchain ------------------------------
(***************************************************************************)
(* The words that the decoder meets: those an assembler makes of an        *)
(* instruction and its operands, one operand bit after the other, and      *)
(* others, such as data that the guest jumps into.                         *)
(***************************************************************************)
EXTENDS Decoder

CONSTANTS
  MaxBits     \* how many operand bits may be 1: a bound

ASSUME MaxBitsAssumption == MaxBits \in Nat

VARIABLES
  row,        \* the row of the instruction, or 0 for a word that is none
  bits,       \* the pairs <<operand, bit>> that the programmer set to 1
  raw_insn    \* the word that Fetch returns

vars == <<row, bits, raw_insn>>
-----------------------------------------------------------------------------
(* What the assembler lets the programmer write.                           *)

Unary == {"SEXT_B", "SEXT_H", "ZEXT_H", "CLZ", "CTZ", "CPOP", "REV8", "ORC_B", "FSQRT_S"}
FourOperands == {"FMADD_S", "FMSUB_S", "FNMSUB_S", "FNMADD_S"}
NoOperands == {"FENCE", "ECALL", "EBREAK"}

Uses(e) ==
  {f \in {"rd", "rs1", "rs2", "rs3", "rm", "imm"} :
     /\ e.kind \notin NoOperands
     /\ f = "rd" => e.kind \notin {"BRANCH", "STORE", "FSW"}
     /\ f = "rs1" => e.kind \notin {"LUI", "AUIPC", "JAL"}
     /\ f = "rs2" => /\ e.kind \in {"RRR", "BRANCH", "STORE", "FSW", "FARITH", "FSGN",
                                    "FMINMAX", "FCMP"}
                     /\ e.mnem \notin Unary
     /\ f = "rs3" => e.mnem \in FourOperands
     /\ f = "rm" => e.kind \in {"FARITH", "FCVT_TO_X", "FCVT_TO_F"}
     /\ f = "imm" => e.imm # "none"}

(* The bits of an immediate that the word holds.                           *)
ImmBits(imm) ==
  CASE imm \in {"I", "S", "csr"} -> 0 .. 11
    [] imm = "B" -> 1 .. 12 [] imm = "U" -> 12 .. 31
    [] imm = "J" -> 1 .. 20 [] imm = "shamt" -> 0 .. 4

(* Where the word holds bit i of an immediate: the formats I, S, B, U, J.  *)
ImmPosition(imm, i) ==
  CASE imm \in {"I", "csr", "shamt"} -> 20 + i
    [] imm = "S" -> IF i <= 4 THEN 7 + i ELSE 20 + i
    [] imm = "B" -> IF i = 11 THEN 7 ELSE IF i = 12 THEN 31 ELSE IF i <= 4 THEN 7 + i ELSE 20 + i
    [] imm = "U" -> i
    [] imm = "J" -> IF i = 11 THEN 20 ELSE IF i = 20 THEN 31 ELSE IF i <= 10 THEN 20 + i ELSE i

Position(e, f, i) ==
  CASE f = "rd" -> 7 + i [] f = "rs1" -> 15 + i [] f = "rs2" -> 20 + i
    [] f = "rs3" -> 27 + i [] f = "rm" -> 12 + i [] OTHER -> ImmPosition(e.imm, i)

OperandBits(e, f) ==
  CASE f = "imm" -> ImmBits(e.imm) [] f = "rm" -> 0 .. 2 [] OTHER -> 0 .. 4

(* The operand bits of an instruction, each with its operand.  A format    *)
(* gives each a place of its own, which the mask of the entry leaves out.  *)
Operands(e) ==
  {o \in {"rd", "rs1", "rs2", "rs3", "rm", "imm"} \X Bit :
     o[1] \in Uses(e) /\ o[2] \in OperandBits(e, o[1])}

ASSUME FormatAssumption ==
  \A k \in DOMAIN Table :
    LET e == Table[k]
        Place(o) == Position(e, o[1], o[2])
    IN  /\ e.match \subseteq e.mask
        /\ \A o \in Operands(e) : Place(o) \notin e.mask
        /\ \A o1, o2 \in Operands(e) : o1 # o2 => Place(o1) # Place(o2)

(* The bits of a register number, or of an immediate as a 32-bit number:   *)
(* above its highest bit in the word a signed one repeats that bit.        *)
SignBit(imm) == CASE imm \in {"I", "S"} -> 11 [] imm = "B" -> 12 [] imm = "J" -> 20 [] OTHER -> 31
Written(e, f) ==
  {i \in Bit : <<f, IF f = "imm" /\ i > SignBit(e.imm) THEN SignBit(e.imm) ELSE i>> \in bits}
-----------------------------------------------------------------------------
Init ==
  /\ row \in DOMAIN Table
  /\ bits = {}
  /\ raw_insn = Table[row].match

(* The same instruction with one more operand bit.                         *)
WriteOperand(f, i) ==
  /\ row # 0 /\ Cardinality(bits) < MaxBits
  /\ f \in Uses(Table[row]) /\ i \in OperandBits(Table[row], f)
  /\ <<f, i>> \notin bits
  /\ bits' = bits \union {<<f, i>>}
  /\ raw_insn' = raw_insn \union {Position(Table[row], f, i)}
  /\ UNCHANGED row

(* A word with the ones of two instructions.                               *)
Blend(k) ==
  /\ row # 0 /\ bits = {}
  /\ row' = 0
  /\ raw_insn' = raw_insn \union Table[k].match
  /\ UNCHANGED bits

Next ==
  \/ \E f \in {"rd", "rs1", "rs2", "rs3", "rm", "imm"}, i \in Bit : WriteOperand(f, i)
  \/ \E k \in DOMAIN Table : Blend(k)

Spec == Init /\ [][Next]_vars
-----------------------------------------------------------------------------
(* Every field that a callback reads holds a number that indexes the       *)
(* register file, or a 32-bit immediate: the asserts of rv_sim.hpp:93,107  *)
(* cannot fail.                                                            *)
TypeOK ==
  /\ row \in 0 .. Len(Table)
  /\ raw_insn \in Word
  /\ {Rd(raw_insn), Rs1(raw_insn), Rs2(raw_insn), Rs3(raw_insn)} \subseteq SUBSET (0 .. 4)
  /\ Decode(raw_insn) # 0 => Imm(Table[Decode(raw_insn)].imm, raw_insn) \in Word

(* No word matches two entries, so the order of the five .inc files does   *)
(* not matter to the search that stops at the first (decode.cpp:30-34).    *)
OneEntry == Cardinality(Candidates(raw_insn)) <= 1

(* What the programmer wrote reaches the callback: the operands do not     *)
(* change what the word decodes to, and each comes out as it went in,      *)
(* immediates sign-extended (decode.cpp:29-37, rv_insn.hpp:36-144).        *)
OperandsArrive ==
  row # 0 =>
    /\ Decode(raw_insn) = row
    /\ \A f \in Uses(Table[row]) : Operand(f, Table[row], raw_insn) = Written(Table[row], f)

(* Bit i of a B or J immediate comes from the place of the word that its   *)
(* format gives it, in any word at all (rv_insn.hpp:98-144).               *)
Gathered(imm, w) ==
  {i \in Bit : /\ i >= 1
               /\ ImmPosition(imm, IF i > SignBit(imm) THEN SignBit(imm) ELSE i) \in w}
TargetsAreGathered ==
  /\ ImmB(raw_insn) = Gathered("B", raw_insn)
  /\ ImmJ(raw_insn) = Gathered("J", raw_insn)
=============================================================================
