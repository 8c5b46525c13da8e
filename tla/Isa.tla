-------------------------------- MODULE Isa ---------------------------------
(***************************************************************************)
(* The machine a guest program is written for: a flat memory divided into  *)
(* regions, two register files, a rounding mode and a set of accrued       *)
(* exceptions.  Nothing of the simulator shows: no segment list, no flags  *)
(* or mode kept in a library between instructions, no status of a loop.    *)
(* What a build with asserts makes of a guest's mistake is a trap, after   *)
(* which nothing is promised; every other step is one instruction.         *)
(***************************************************************************)
EXTENDS Integers

CONSTANTS
  AddrMod, ByteMod, NumXRegisters, A0, A1, A2, A7,
  Decode(_),                \* what a word stands for
  BinOpFunc(_, _, _), BranchPredFunc(_, _, _), BitOr(_, _), BitAndNot(_, _),
  SoftFloat(_, _, _),       \* the replies of an operation in a rounding mode
  ClassShift(_),            \* the class of a float
  NoByte,                   \* not a byte: nothing at this address
  ReadId, WriteId, ExitId   \* the calls of the environment

VARIABLES
  mode,     \* "user"; "exited" after an exit call; "trapped"
  pc, x, f,
  frm,      \* the dynamic rounding mode
  fflags,   \* the exceptions raised since a program cleared them
  mem,      \* the byte at an address, or NoByte
  region    \* the region of an address

vars == <<mode, pc, x, f, frm, fflags, mem, region>>

Address == 0 .. AddrMod - 1
Mod(z) == z % AddrMod
Half == AddrMod \div 2

X(r) == IF r = 0 THEN 0 ELSE x[r]
Write(r, v) == IF r = 0 THEN x ELSE [x EXCEPT ![r] = v]

(* An access that every region it touches can serve.                       *)
At(a, k) == Mod(a + k)
Reaches(a, n) ==
  \A k \in 0 .. n - 1 : mem[At(a, k)] # NoByte /\ region[At(a, k)] = region[a]

MemValue(a, n) ==
  LET b(k) == IF k < n THEN mem[At(a, k)] ELSE 0
  IN  b(0) + ByteMod * (b(1) + ByteMod * (b(2) + ByteMod * b(3)))

(* The weight of byte k of a word.                                         *)
Place(k) ==
  CASE k = 0 -> 1 [] k = 1 -> ByteMod [] k = 2 -> ByteMod * ByteMod
    [] OTHER -> ByteMod * (ByteMod * ByteMod)

(* mem after the n low bytes of v are put at a.                            *)
Put(a, n, v) ==
  [y \in Address |->
     LET k == Mod(y - a) IN IF k < n THEN (v \div Place(k)) % ByteMod ELSE mem[y]]

Bytes(op) == CASE op \in {"LB", "LBU", "SB"} -> 1 [] op \in {"LH", "LHU", "SH"} -> 2 [] OTHER -> 4

(* A loaded byte or half, its sign extended through the register.          *)
Extended(op, v) ==
  LET range == Place(Bytes(op))
  IN  IF op \in {"LB", "LH"} /\ v >= range \div 2 THEN Mod(v - range) ELSE v

FlagSet(bits) == {k \in 0 .. 4 : (bits \div 2 ^ k) % 2 = 1}
FlagBits(S) ==
  LET bit(k) == IF k \in S THEN 2 ^ k ELSE 0
  IN  bit(0) + bit(1) + bit(2) + bit(3) + bit(4)
-----------------------------------------------------------------------------
(* The instructions, by what they change.                                  *)

EA(i) == Mod(X(i.rs1) + i.imm)

(* What an integer instruction may put in rd.                              *)
Results(i) ==
  CASE i.kind = "RRR" -> BinOpFunc(i.op, X(i.rs1), X(i.rs2))
    [] i.kind = "RRI" -> BinOpFunc(i.op, X(i.rs1), i.imm)
    [] i.kind = "LUI" -> {i.imm}
    [] i.kind = "AUIPC" -> {Mod(pc + i.imm)}
    [] i.kind \in {"JAL", "JALR"} -> {Mod(pc + 4)}
    [] i.kind = "LOAD" -> {Extended(i.op, MemValue(EA(i), Bytes(i.op)))}
    [] i.kind = "FMV_X_W" -> {f[i.rs1]}
    [] i.kind = "FCLASS" -> {Mod(2 ^ ClassShift(f[i.rs1]))}
    [] OTHER -> {X(i.rd)}

Targets(i) ==
  CASE i.kind = "JAL" -> Mod(pc + i.imm)
    [] i.kind = "JALR" -> 2 * (EA(i) \div 2)
    [] i.kind = "BRANCH" /\ BranchPredFunc(i.op, X(i.rs1), X(i.rs2)) -> Mod(pc + i.imm)
    [] OTHER -> Mod(pc + 4)

Integer(i) ==
  /\ i.kind \in {"RRR", "RRI", "LUI", "AUIPC", "JAL", "JALR", "BRANCH", "LOAD",
                 "FENCE", "EBREAK", "FMV_X_W", "FCLASS"}
  /\ i.kind = "LOAD" => Reaches(EA(i), Bytes(i.op))
  /\ \E v \in Results(i) : x' = Write(i.rd, v)
  /\ pc' = Targets(i)
  /\ UNCHANGED <<mode, f, frm, fflags, mem>>

Store(i) ==
  /\ i.kind \in {"STORE", "FSW"}
  /\ Reaches(EA(i), Bytes(i.op))
  /\ mem' = Put(EA(i), Bytes(i.op), IF i.kind = "FSW" THEN f[i.rs2] ELSE X(i.rs2))
  /\ pc' = Mod(pc + 4)
  /\ UNCHANGED <<mode, x, f, frm, fflags>>

(* The accrued exceptions, the rounding mode, or both in one register.     *)
CsrRead(c) == CASE c = 1 -> FlagBits(fflags) [] c = 2 -> frm [] OTHER -> FlagBits(fflags) + 32 * frm

Csr(i) ==
  /\ i.kind = "CSR" /\ i.imm \in {1, 2, 3}
  /\ LET old == CsrRead(i.imm)
         source == IF i.op \in {"CSRRWI", "CSRRSI", "CSRRCI"} THEN i.rs1 ELSE X(i.rs1)
         new == CASE i.op \in {"CSRRW", "CSRRWI"} -> source
                  [] i.op \in {"CSRRS", "CSRRSI"} -> BitOr(old, source)
                  [] OTHER -> BitAndNot(old, source)
     IN  /\ x' = Write(i.rd, old)
         /\ fflags' = IF i.imm \in {1, 3} THEN FlagSet(new) ELSE fflags
         /\ frm' = CASE i.imm = 2 -> new % 8 [] i.imm = 3 -> (new \div 32) % 8 [] OTHER -> frm
  /\ pc' = Mod(pc + 4)
  /\ UNCHANGED <<mode, f, mem>>

(* The modes an operation may round in: the one in the instruction, the    *)
(* dynamic one for 7; any when the encoding is reserved.  The conversions  *)
(* from integers do not say.                                               *)
Rounding(i) ==
  LET rm == IF i.rm = 7 THEN frm ELSE i.rm
  IN  IF i.kind \in {"FARITH", "FCVT_TO_X"} /\ rm <= 4 THEN {rm} ELSE 0 .. 4

Negated(v) == Mod(v + Half)

Operation(i) ==
  CASE i.op = "FADD" -> "f32_add" [] i.op = "FSUB" -> "f32_sub" [] i.op = "FMUL" -> "f32_mul"
    [] i.op = "FDIV" -> "f32_div" [] i.op = "FSQRT" -> "f32_sqrt"
    [] i.op = "FLE" -> "f32_le" [] i.op = "FLT" -> "f32_lt" [] i.op = "FEQ" -> "f32_eq"
    [] i.op = "FCVT_W_S" -> "f32_to_i32" [] i.op = "FCVT_WU_S" -> "f32_to_ui32"
    [] i.op = "FCVT_S_W" -> "i32_to_f32" [] i.op = "FCVT_S_WU" -> "ui32_to_f32"
    [] OTHER -> "f32_mulAdd"

Operands(i) ==
  LET a == f[i.rs1]  b == f[i.rs2]  c == f[i.rs3]
  IN  CASE i.kind = "FCVT_TO_F" -> <<X(i.rs1)>>
        [] i.kind = "FCVT_TO_X" \/ i.op = "FSQRT" -> <<a>>
        [] i.op \in {"FMADD", "FNMADD"} -> <<a, b, c>>
        [] i.op = "FMSUB" -> <<a, b, Negated(c)>>
        [] i.op = "FNMSUB" -> <<Negated(a), b, c>>
        [] OTHER -> <<a, b>>

(* A comparison replies with a truth value.                                *)
Truth(r) == IF r.v # 0 THEN 1 ELSE 0

(* An operation gives a register and adds its exceptions to those accrued. *)
Float(i) ==
  /\ i.kind \in {"FARITH", "FCMP", "FCVT_TO_X", "FCVT_TO_F"}
  /\ \E rm \in Rounding(i) : \E r \in SoftFloat(Operation(i), Operands(i), rm) :
       /\ CASE i.kind = "FCMP" -> x' = Write(i.rd, Truth(r)) /\ UNCHANGED f
            [] i.kind = "FCVT_TO_X" -> x' = Write(i.rd, r.v) /\ UNCHANGED f
            [] i.op = "FNMADD" -> f' = [f EXCEPT ![i.rd] = Negated(r.v)] /\ UNCHANGED x
            [] OTHER -> f' = [f EXCEPT ![i.rd] = r.v] /\ UNCHANGED x
       /\ fflags' = fflags \cup FlagSet(r.flags)
  /\ pc' = Mod(pc + 4)
  /\ UNCHANGED <<mode, frm, mem>>

(* What the order says of two floats.  No mode is named for a comparison,  *)
(* which does not round.                                                   *)
LessOrEqual(a, b) ==
  {Truth(r) : r \in UNION {SoftFloat("f32_le", <<a, b>>, rm) : rm \in 0 .. 4}}

(* What an instruction that raises nothing may put in a float register: a  *)
(* minimum or maximum is one of its operands, the one the order says.      *)
Moves(i) ==
  LET a == f[i.rs1]  b == f[i.rs2]
      magnitude == a % Half
      minus(v) == v >= Half
  IN  CASE i.kind = "FMV_W_X" -> {X(i.rs1)}
        [] i.kind = "FLW" -> {MemValue(EA(i), 4)}
        [] i.op = "FSGNJ" -> {IF minus(b) THEN magnitude + Half ELSE magnitude}
        [] i.op = "FSGNJN" -> {IF minus(b) THEN magnitude ELSE magnitude + Half}
        [] i.op = "FSGNJX" -> {IF minus(a) # minus(b) THEN magnitude + Half ELSE magnitude}
        [] i.op = "FMIN" -> {IF t = 1 THEN a ELSE b : t \in LessOrEqual(a, b)}
        [] OTHER -> {IF t = 1 THEN b ELSE a : t \in LessOrEqual(a, b)}

Move(i) ==
  /\ i.kind \in {"FMV_W_X", "FLW", "FSGN", "FMINMAX"}
  /\ i.kind = "FLW" => Reaches(EA(i), 4)
  /\ \E v \in Moves(i) : f' = [f EXCEPT ![i.rd] = v]
  /\ pc' = Mod(pc + 4)
  /\ UNCHANGED <<mode, x, frm, fflags, mem>>

(* A call of the environment changes a0, and a read the buffer it is given.*)
Call(i) ==
  /\ i.kind = "ECALL"
  /\ pc' = Mod(pc + 4)
  /\ \/ X(A7) = ExitId /\ mode' = "exited" /\ UNCHANGED <<x, mem>>
     \/ /\ X(A7) \in {ReadId, WriteId}
        /\ x' = [x EXCEPT ![A0] = x'[A0]]
        /\ X(A7) = WriteId => UNCHANGED mem
        /\ \A y \in Address : mem'[y] # mem[y] => Mod(y - X(A1)) < X(A2) /\ mem[y] # NoByte
        /\ UNCHANGED mode
  /\ UNCHANGED <<f, frm, fflags>>
-----------------------------------------------------------------------------
(* What a program may do wrong.                                            *)
Mistake(i) ==
  \/ i.kind = "INVALID"
  \/ i.kind = "CSR" /\ i.imm \notin {1, 2, 3}
  \/ i.kind \in {"FARITH", "FCVT_TO_X"} /\ i.rm = 7 /\ frm = 7
  \/ i.kind \in {"LOAD", "STORE", "FLW", "FSW"} /\ ~ Reaches(EA(i), Bytes(i.op))
  \/ i.kind = "ECALL" /\ X(A7) \notin {ReadId, WriteId, ExitId}
  \/ i.kind = "ECALL" /\ X(A7) # ExitId
     /\ \E k \in 0 .. X(A2) - 1 : mem[At(X(A1), k)] = NoByte

(* A read may have filled part of its buffer.                              *)
Trap ==
  /\ mode' = "trapped"
  /\ UNCHANGED <<pc, x, f, frm, fflags>>

Next ==
  /\ mode = "user"
  /\ UNCHANGED region
  /\ \/ ~ Reaches(pc, 4) /\ Trap
     \/ /\ Reaches(pc, 4)
        /\ \E i \in {Decode(MemValue(pc, 4))} :
             \/ Integer(i) \/ Store(i) \/ Csr(i) \/ Float(i) \/ Move(i) \/ Call(i)
             \/ Mistake(i) /\ Trap

Init ==
  /\ mode = "user"
  /\ x[0] = 0
  /\ frm = 0 /\ fflags = {}

Spec == Init /\ [][Next]_vars
=============================================================================
