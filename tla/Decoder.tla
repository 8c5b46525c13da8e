------------------------------- MODULE Decoder -------------------------------
(***************************************************************************)
(* From a word to a callback and its operands: Decode (decode.cpp), the    *)
(* callback table (dispatch.cpp) and what class RvInsn and its two         *)
(* subclasses read in the word.  A word, and a uint32_t made from it, is   *)
(* the set of its bits that are 1.                                         *)
(***************************************************************************)
EXTENDS Integers, Sequences, FiniteSets

CONSTANTS
  Table    \* InsnDecodeTable and callback_table: a sequence of records

Bit == 0 .. 31
Word == SUBSET Bit

(* The immediates that callbacks ask for.                                  *)
ImmNames == {"I", "S", "B", "U", "J", "csr", "shamt", "none"}
Entry == [mnem : STRING, mask : Word, match : Word, kind : STRING, imm : ImmNames]

Distinguishable(e1, e2) == \E b \in e1.mask \intersect e2.mask : (b \in e1.match) # (b \in e2.match)

(* What decoding relies on, evaluated for the table of module InsnTable.   *)
ASSUME TableAssumption ==
  /\ Table \in Seq(Entry)
  /\ \A k, l \in DOMAIN Table : k # l => Distinguishable(Table[k], Table[l])

(* Mutant: the word is compared without the mask.                          *)
Matches_noMask(w, e) == e.match \subseteq w

(* (insn & entry.mask) == entry.match                                      *)
Matches(w, e) == w \intersect e.mask = e.match

Candidates(w) == {k \in DOMAIN Table : Matches(w, Table[k])}

(* The first entry that matches, or 0 for kInvalid.                        *)
Decode(w) ==
  IF Candidates(w) = {} THEN 0
  ELSE CHOOSE k \in Candidates(w) : \A l \in Candidates(w) : k <= l
-----------------------------------------------------------------------------
(* Shifts and masks.                                                       *)

Shl(v, n) == {b \in Bit : b - n \in v}
Shr(v, n) == {b \in Bit : b + n \in v}
Low(n) == 0 .. n - 1      \* the mask with n ones

SignExtend_unsigned(value, bits) == value \intersect Low(bits)   \* mutant

(* (masked ^ sign_bit) - sign_bit                                          *)
SignExtend(value, bits) ==
  LET masked == value \intersect Low(bits)
  IN  IF bits - 1 \in masked THEN masked \union (bits .. 31) ELSE masked

(* The fields of the word.                                                 *)
Rd(w) == Shr(w, 7) \intersect Low(5)
Rs1_wide(w) == Shr(w, 15)     \* mutant: the mask is left out
Rs1(w) == Shr(w, 15) \intersect Low(5)
Rs2(w) == Shr(w, 20) \intersect Low(5)
Shamt(w) == Shr(w, 20) \intersect Low(5)
Rs3(w) == Shr(w, 27) \intersect Low(5)
Rm(w) == Shr(w, 12) \intersect Low(3)

ImmI(w) == SignExtend(Shr(w, 20), 12)
ImmS(w) ==
  LET low == Shr(w, 7) \intersect Low(5)
      high == Shr(w, 25) \intersect Low(7)
  IN  SignExtend(low \union Shl(high, 5), 12)

(* Mutant: bits 7 and 31 change places.                                    *)
ImmB_swapped(w) ==
  SignExtend(Shl(Shr(w, 7) \intersect Low(1), 12) \union Shl(Shr(w, 31) \intersect Low(1), 11)
             \union Shl(Shr(w, 25) \intersect Low(6), 5) \union Shl(Shr(w, 8) \intersect Low(4), 1), 13)
ImmB(w) ==
  LET bit11 == Shr(w, 7) \intersect Low(1)
      bits4_1 == Shr(w, 8) \intersect Low(4)
      bits10_5 == Shr(w, 25) \intersect Low(6)
      bit12 == Shr(w, 31) \intersect Low(1)
  IN  SignExtend(Shl(bit12, 12) \union Shl(bit11, 11) \union Shl(bits10_5, 5)
                 \union Shl(bits4_1, 1), 13)

ImmU(w) == w \intersect (12 .. 31)

ImmJ(w) ==
  LET bit20 == Shr(w, 31) \intersect Low(1)
      bits10_1 == Shr(w, 21) \intersect Low(10)
      bit11 == Shr(w, 20) \intersect Low(1)
      bits19_12 == Shr(w, 12) \intersect Low(8)
  IN  SignExtend(Shl(bit20, 20) \union Shl(bits19_12, 12) \union Shl(bit11, 11)
                 \union Shl(bits10_1, 1), 21)

ImmCSR(w) == Shr(w, 20)

(* What the callback takes for its immediate.                              *)
Imm(imm, w) ==
  CASE imm = "I" -> ImmI(w) [] imm = "S" -> ImmS(w) [] imm = "B" -> ImmB(w)
    [] imm = "U" -> ImmU(w) [] imm = "J" -> ImmJ(w) [] imm = "csr" -> ImmCSR(w)
    [] imm = "shamt" -> Shamt(w) [] OTHER -> {}

(* An operand of the word w, which entry e decodes.                        *)
Operand(f, e, w) ==
  CASE f = "rd" -> Rd(w) [] f = "rs1" -> Rs1(w) [] f = "rs2" -> Rs2(w)
    [] f = "rs3" -> Rs3(w) [] f = "rm" -> Rm(w) [] OTHER -> Imm(e.imm, w)
=============================================================================
