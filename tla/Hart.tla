-------------------------------- MODULE Hart --------------------------------
(***************************************************************************)
(* What the callbacks work on: the state of class RVSim, the registers and *)
(* CSRs it gives access to, and the calls on its memory (rv_sim.hpp).  The *)
(* callbacks are in modules of their own, one per source file; module      *)
(* RVSim puts them together.                                               *)
(*                                                                         *)
(* Left to the constants: what a word decodes to (module Decoder), what    *)
(* each bin_op computes (module Alu), what the softfloat library computes, *)
(* and what the constructor is given (module Boot).                        *)
(***************************************************************************)
EXTENDS Segments

CONSTANTS
  NDEBUG,          \* TRUE in a build without asserts and sanitizers
  ByteMod,         \* 2^CHAR_BIT: a Register has four bytes
  NumXRegisters,   \* kNumXRegisters, also kNumFRegisters
  A0, A1, A2, A7,  \* the XRegAlias values that system calls use
  Decode(_),       \* the instruction a word stands for
  BinOpNames,      \* the operations that compute a register
  BinOpFunc(_, _, _),  \* the possible results of one on two values
  BranchNames,     \* the conditional branches
  BranchPredFunc(_, _, _),  \* whether one is taken on two values
  BitOr(_, _),     \* a | b
  BitAndNot(_, _), \* a & ~b
  SoftFloat(_, _, _),  \* the possible replies of a function of the library,
                   \* given its arguments and a rounding mode
  FPClassify(_),   \* std::fpclassify
  IsSignalingNaN(_),   \* f32_isSignalingNaN
  Images,          \* what the constructor may leave in memory_
  Entries,         \* ParsedElf::entry_point
  RegisterFiles,   \* what the constructor may leave in xregs_
  Inputs,          \* the bytes a read system call may find
  OutputRoom       \* the bytes the host takes before its writes fail: a bound

Register == Address
XReg == 0 .. NumXRegisters - 1
FReg == XReg      \* kNumFRegisters = kNumXRegisters
StepSize == 4     \* kStepSize

LoadNames == {"LB", "LBU", "LH", "LHU", "LW"}
StoreNames == {"SB", "SH", "SW"}
CsrNames == {"CSRRW", "CSRRS", "CSRRC", "CSRRWI", "CSRRSI", "CSRRCI"}
FArithNames == {"FADD", "FSUB", "FMUL", "FDIV", "FSQRT", "FMADD", "FMSUB", "FNMSUB", "FNMADD"}
FSignNames == {"FSGNJ", "FSGNJN", "FSGNJX"}
FMinMaxNames == {"FMIN", "FMAX"}
FCmpNames == {"FLE", "FLT", "FEQ"}

(* The shapes of callbacks, and the instructions that have each.           *)
Kinds == {"RRR", "RRI", "LUI", "AUIPC", "JAL", "JALR", "BRANCH", "LOAD", "STORE",
          "FENCE", "EBREAK", "ECALL", "INVALID", "CSR",
          "FLW", "FSW", "FARITH", "FSGN", "FMINMAX", "FCMP",
          "FCVT_TO_X", "FCVT_TO_F", "FMV_X_W", "FMV_W_X", "FCLASS"}

OpsOf(kind) ==
  CASE kind \in {"RRR", "RRI"} -> BinOpNames
    [] kind = "BRANCH" -> BranchNames
    [] kind = "LOAD" -> LoadNames
    [] kind = "STORE" -> StoreNames
    [] kind = "CSR" -> CsrNames
    [] kind = "FARITH" -> FArithNames
    [] kind = "FSGN" -> FSignNames
    [] kind = "FMINMAX" -> FMinMaxNames
    [] kind = "FCMP" -> FCmpNames
    [] kind = "FCVT_TO_X" -> {"FCVT_W_S", "FCVT_WU_S"}
    [] kind = "FCVT_TO_F" -> {"FCVT_S_W", "FCVT_S_WU"}
    [] OTHER -> {"none"}

(* A decoded instruction: the operands that RvInsn, RvFInsn and RvCSRInsn  *)
(* extract from the word, the immediate as a two's complement register     *)
(* (for a shift, Shamt; for a CSR instruction, the number of the CSR).     *)
Insn ==
  {i \in [kind : Kinds, op : UNION {OpsOf(k) : k \in Kinds},
          rd : XReg, rs1 : XReg, rs2 : XReg, rs3 : XReg, rm : 0 .. 7, imm : Register] :
     i.op \in OpsOf(i.kind)}

FPClasses == {"infinite", "nan", "normal", "subnormal", "zero"}

(* What a function of softfloat gives: a word, and the exceptions raised.  *)
FloatReply == [v : Register, flags : 0 .. 31]

ASSUME RVSimAssumption ==
  /\ NDEBUG \in BOOLEAN
  /\ ByteMod \in Nat /\ ByteMod > 1 /\ ByteMod % 2 = 0
  /\ AddrMod >= 256    \* fcsr has 8 bits
  /\ Byte = 0 .. ByteMod - 1 /\ ZeroByte = 0
  /\ NumXRegisters \in Nat /\ NumXRegisters <= AddrMod
  /\ {A0, A1, A2, A7} \subseteq XReg \ {0}
  /\ Images \subseteq Seq(Segment)
  /\ Entries \subseteq Address
  /\ RegisterFiles \subseteq [XReg -> Register]
  /\ \A regs \in RegisterFiles : regs[0] = 0
  /\ Inputs \subseteq Seq(Byte)
  /\ OutputRoom \in Nat

ASSUME FourByteAssumption == AddrMod = ByteMod * (ByteMod * (ByteMod * ByteMod))

(* The loader checks nothing of e_entry; a linker never makes it odd.      *)
ASSUME EntryAssumption == \A entry \in Entries : entry % 2 = 0

(* The immediates of JAL and of branches are shifted left by one           *)
(* (RvInsn::ImmB and ImmJ).                                                *)
ASSUME DecodeAssumption ==
  \A w \in Register :
    /\ Decode(w) \in Insn
    /\ Decode(w).kind \in {"JAL", "BRANCH"} => Decode(w).imm % 2 = 0

ASSUME AluAssumption ==
  \A a, b \in Register :
    /\ \A op \in BinOpNames : BinOpFunc(op, a, b) \in SUBSET Register
    /\ \A op \in BranchNames : BranchPredFunc(op, a, b) \in BOOLEAN

ASSUME BitAssumption ==
  /\ \A a, b \in Register : BitOr(a, b) \in Register /\ BitAndNot(a, b) \in Register
  /\ \A a, b \in 0 .. 31 : BitOr(a, b) \in 0 .. 31

(* The flags in a | b are those in a and those in b.                       *)
ASSUME FlagsAssumption ==
  \A a, b \in 0 .. 31, k \in 0 .. 4 :
    (BitOr(a, b) \div 2 ^ k) % 2 = 1 <=> (a \div 2 ^ k) % 2 = 1 \/ (b \div 2 ^ k) % 2 = 1

ASSUME FloatAssumption ==
  \A v \in Register : FPClassify(v) \in FPClasses /\ IsSignalingNaN(v) \in BOOLEAN

VARIABLES
  memory,       \* memory_
  ip,           \* ip_
  xregs,        \* xregs_
  fregs,        \* fregs_, as words
  fcsr,         \* fcsr_
  softfloat_roundingMode,    \* the two globals of the softfloat library
  softfloat_exceptionFlags,
  should_stop,  \* should_stop_
  status,       \* "running"; "returned" from Execute; "abort" by an assert
                \* or a sanitizer; "terminate" by the exception for an
                \* invalid instruction; "undefined" after heap corruption
  input,        \* the bytes a read can still get
  output        \* the bytes written

softfloat == <<softfloat_roundingMode, softfloat_exceptionFlags>>
floats == <<fregs, fcsr, softfloat>>
host == <<input, output>>
vars == <<memory, ip, xregs, floats, should_stop, status, host>>

TypeOK ==
  /\ memory \in Seq(Segment)
  /\ ip \in Address
  /\ xregs \in [XReg -> Register]
  /\ fregs \in [FReg -> Register]
  /\ fcsr \in 0 .. 255
  /\ softfloat_roundingMode \in 0 .. 4
  /\ softfloat_exceptionFlags \in 0 .. 31
  /\ should_stop \in BOOLEAN
  /\ status \in {"running", "returned", "abort", "terminate", "undefined"}
  /\ input \in Seq(Byte)
  /\ output \in Seq(Byte)

Init ==
  /\ memory \in Images
  /\ ip \in Entries
  /\ xregs \in RegisterFiles
  /\ fregs = [r \in FReg |-> 0]
  /\ fcsr = 0
  /\ softfloat_roundingMode = 0      \* softfloat_round_near_even
  /\ softfloat_exceptionFlags = 0
  /\ should_stop = FALSE
  /\ status = "running"
  /\ input \in Inputs
  /\ output = << >>
-----------------------------------------------------------------------------
(* Registers and words.                                                    *)

Trunc(z) == z % AddrMod
GetXReg(r) == IF r = 0 THEN 0 ELSE xregs[r]
SetXReg_anyRegister(r, v) == [xregs EXCEPT ![r] = v]   \* mutant: x0 is writable

SetXReg(r, v) == IF r = 0 THEN xregs ELSE [xregs EXCEPT ![r] = v]
NextIp == Trunc(ip + StepSize)

(* The little-endian value of the n bytes b.                               *)
Value(b, n) ==
  IF n = 1 THEN b[0]
  ELSE IF n = 2 THEN b[0] + ByteMod * b[1]
  ELSE b[0] + ByteMod * (b[1] + ByteMod * (b[2] + ByteMod * b[3]))

(* The n low bytes of v: TruncHigh<uint8_t> and <uint16_t> for SB and SH.  *)
LowBytes(v, n) ==
  [i \in 0 .. n - 1 |->
     LET shift == IF i = 0 THEN 1
                  ELSE IF i = 1 THEN ByteMod
                  ELSE IF i = 2 THEN ByteMod * ByteMod
                  ELSE ByteMod * (ByteMod * ByteMod)
     IN  (v \div shift) % ByteMod]

(* SignExt<uint32_t> of a loaded byte or half word.                        *)
SignExtended(v, n) ==
  LET range == IF n = 1 THEN ByteMod ELSE ByteMod * ByteMod
  IN  IF v < range \div 2 THEN v ELSE v + (AddrMod - range)

Width(op) == IF op \in {"LB", "LBU", "SB"} THEN 1
             ELSE IF op \in {"LH", "LHU", "SH"} THEN 2 ELSE 4
Loaded(op, b) ==
  IF op \in {"LB", "LH"} THEN SignExtended(Value(b, Width(op)), Width(op))
  ELSE Value(b, Width(op))

EffectiveAddress(i) == Trunc(GetXReg(i.rs1) + i.imm)
-----------------------------------------------------------------------------
(* The outcomes of a call that this step makes on the memory.              *)

Faults(addr, n) == ~ NDEBUG /\ ~ Fits(memory, addr, n)

Abort ==
  /\ status' = "abort"
  /\ UNCHANGED <<memory, ip, xregs, floats, should_stop, host>>

Spill == status' \in {status, "undefined"}

StoreBytes(n, addr, b) ==
  IF Unmatched(memory, addr) THEN UNCHANGED <<memory, status>>
  ELSE /\ memory' = WriteBytes(memory, addr, n, b)
       /\ IF Fits(memory, addr, n) THEN UNCHANGED status ELSE Spill

(* The rest of an instruction that touches registers only.                 *)
Retire(r, v, next) ==
  /\ xregs' = SetXReg(r, v)
  /\ ip' = next
  /\ UNCHANGED <<memory, floats, should_stop, status, host>>
-----------------------------------------------------------------------------
(* fcsr: five exception flags and, above them, three bits of rounding      *)
(* mode; and what of it an instruction asks for.                           *)

fflags == 1
frm == 2
KnownCSRs == {fflags, frm, 3}   \* enum class CSR

DYN == 7
RoundingModes == 0 .. 4   \* RNE, RTZ, RDN, RUP, RMM: softfloat numbers them alike

GetCSR(index) ==
  CASE index = fflags -> fcsr % 32
    [] index = frm -> (fcsr \div 32) % 8
    [] index = 3 -> fcsr % 256
    [] OTHER -> 0

(* Mutant: the flags are not cut to their field.                           *)
SetCSR_wide(index, v) ==
  CASE index = fflags -> (fcsr - (fcsr % 32)) + v
    [] index = frm -> (fcsr - 32 * ((fcsr \div 32) % 8)) + 32 * (v % 8)
    [] index = 3 -> v % 256
    [] OTHER -> fcsr

SetCSR(index, v) ==
  CASE index = fflags -> (fcsr - (fcsr % 32)) + (v % 32)
    [] index = frm -> (fcsr - 32 * ((fcsr \div 32) % 8)) + 32 * (v % 8)
    [] index = 3 -> v % 256
    [] OTHER -> fcsr

GetRM_flags(rm) == IF rm = DYN THEN fcsr % 8 ELSE rm   \* mutant: the wrong field

GetRM(rm) == IF rm = DYN THEN GetCSR(frm) ELSE rm
=============================================================================
