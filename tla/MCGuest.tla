------------------------------ MODULE MCGuest -------------------------------
(***************************************************************************)
(* Guest programs for TLC.  A register has 8 bits, in four bytes of 2 bits *)
(* as the code's has 32 in four of 8; an instruction word is the number of *)
(* the instruction in a table, and 0 is no instruction.                    *)
(***************************************************************************)
EXTENDS RVSim

A == INSTANCE Alu WITH XLen <- 8, CharBit <- 2
F == INSTANCE MiniFloat

AluBinOp(op, a, b) == A!BinOp(op, a, b)
AluTaken(op, a, b) == A!Taken(op, a, b)
WordOr(a, b) == A!Or(a, b)
WordAndNot(a, b) == A!And(a, A!Not(b))
MiniFloat(f, args, mode) == F!MiniSoftFloat(f, args, mode)
MiniClassify(v) == F!Classify(v)
MiniSignaling(v) == F!IsSignaling(v)

(* The registers, in the order of XRegAlias.                               *)
zero == 0
ra == 1
sp == 2
t1 == 3
t2 == 4
a0 == 5
a1 == 6
a2 == 7
a7 == 8

MCXRegs == 9

(* Rounding modes.                                                         *)
RNE == 0
RTZ == 1
RDN == 2
RUP == 3

(* An assembler.  Negative immediates become two's complement.             *)
Assemble(kind, op, rd, rs1, rs2, imm) ==
  [kind |-> kind, op |-> op, rd |-> rd, rs1 |-> rs1, rs2 |-> rs2, rs3 |-> 0, rm |-> 0,
   imm |-> Trunc(imm)]

RRR(op, rd, rs1, rs2) == Assemble("RRR", op, rd, rs1, rs2, 0)
RRI(op, rd, rs1, imm) == Assemble("RRI", op, rd, rs1, 0, imm)
Upper(kind, rd, imm) == Assemble(kind, "none", rd, 0, 0, imm)
Jump(rd, imm) == Assemble("JAL", "none", rd, 0, 0, imm)
JumpR(rd, rs1, imm) == Assemble("JALR", "none", rd, rs1, 0, imm)
Br(op, rs1, rs2, imm) == Assemble("BRANCH", op, 0, rs1, rs2, imm)
Ld(op, rd, imm, rs1) == Assemble("LOAD", op, rd, rs1, 0, imm)
St(op, rs2, imm, rs1) == Assemble("STORE", op, 0, rs1, rs2, imm)
Plain(kind) == Assemble(kind, "none", 0, 0, 0, 0)

(* CSR instructions: source is a register, or the number of an I form.     *)
CsrI(op, rd, csr, source) == Assemble("CSR", op, rd, source, 0, csr)
(* Instructions of the F extension with a rounding mode, and without.      *)
FRounded(kind, op, rd, rs1, rs2, rs3, rm) ==
  [Assemble(kind, op, rd, rs1, rs2, 0) EXCEPT !.rs3 = rs3, !.rm = rm]
FPlain(kind, op, rd, rs1, rs2) == Assemble(kind, op, rd, rs1, rs2, 0)

li(rd, imm) == RRI("ADD", rd, zero, imm)
ret == JumpR(zero, ra, 0)

(* The integer that a register stands for.                                 *)
Signed(v) == IF v < Half THEN v ELSE v - AddrMod

(* What a word stands for, given the table.                                *)
Lookup(table, w) == IF w \in DOMAIN table THEN table[w] ELSE Plain("INVALID")

(* The words of a program whose instructions follow entry number at of the *)
(* table, and whether it is the one that runs.                             *)
WordsAfter(at, code) == [k \in 1 .. Len(code) |-> at + k]
Runs(at) == Value([k \in 0 .. 3 |-> memory[1].data[k + 1]], 4) = at + 1

(* The text segment at start that holds these words.                       *)
Text(start, words) ==
  LET n == 4 * Len(words)
  IN  [start |-> start, end |-> start + n,
       data |-> [p \in 1 .. n |->
                   LowBytes(words[((p - 1) \div 4) + 1], 4)[(p - 1) % 4]]]

(* A segment of zeros, slack addresses longer than its vector.             *)
Data(start, size, slack) ==
  [start |-> start, end |-> start + size + slack,
   data |-> [p \in 1 .. size |-> 0]]

(* Registers not named are 0.                                              *)
Registers(known) ==
  [r \in XReg |-> IF r \in DOMAIN known THEN known[r] ELSE 0]

(* A guest starts with one of these.                                       *)
Started(images, registers, inputs) ==
  memory \in images /\ xregs \in registers /\ input \in inputs
=============================================================================
