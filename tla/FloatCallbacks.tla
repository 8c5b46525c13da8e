-------------------------- MODULE FloatCallbacks ----------------------------
(***************************************************************************)
(* The callbacks of ext_f_cb.cpp.  The arithmetic is that of the softfloat *)
(* library, whose two globals, a rounding mode and the exceptions raised   *)
(* since they were cleared, are state between instructions.                *)
(***************************************************************************)
EXTENDS Hart

Half == AddrMod \div 2    \* the word with the sign bit only
Sign(v) == v \div Half
WithSign(s, v) == (s * Half) + (v % Half)
f32_neg(v) == WithSign(1 - Sign(v), v)

SetFReg(r, v) == [fregs EXCEPT ![r] = v]

(* The replies of f on these registers in the given rounding mode.         *)
Replies(f, args, mode) == SoftFloat(f, args, mode) \cap FloatReply

(* SoftFloatSetRM: what it leaves in the global, and what it returns.  The *)
(* two reserved encodings, and DYN where no assert stops it, leave the     *)
(* mode of an earlier instruction and return 0.                            *)
ModeSet_late(rm) == softfloat_roundingMode   \* mutant: the global is not set

ModeSet(rm) == IF rm \in RoundingModes THEN rm ELSE softfloat_roundingMode
ModeReturned(rm) == IF rm \in RoundingModes THEN rm ELSE 0

(* SoftFloatSetFExcp, after the flags were cleared and a function raised   *)
(* some: fcsr accumulates them.                                            *)
SetFExcp(flags) ==
  IF flags = 0 THEN fcsr ELSE SetCSR(fflags, BitOr(GetCSR(fflags), flags))

(* The end of a callback that clears the flags before it calls softfloat.  *)
Accrue(flags) ==
  /\ softfloat_exceptionFlags' = flags
  /\ fcsr' = SetFExcp(flags)
  /\ ip' = NextIp
  /\ UNCHANGED <<memory, should_stop, status, host>>

(* The assert of SoftFloatSetRM, reached with the flags cleared.           *)
RoundingFails(i) == ~ NDEBUG /\ GetRM(i.rm) = DYN
AbortRounding ==
  /\ status' = "abort"
  /\ softfloat_exceptionFlags' = 0
  /\ UNCHANGED <<memory, ip, xregs, fregs, fcsr, softfloat_roundingMode, should_stop, host>>

(* The end of a callback that calls nothing of softfloat.                  *)
FMove(r, v) ==
  /\ fregs' = SetFReg(r, v)
  /\ ip' = NextIp
  /\ UNCHANGED <<memory, xregs, fcsr, softfloat, should_stop, status, host>>
-----------------------------------------------------------------------------
(* The function an arithmetic instruction calls, and with what.            *)
ArithFunc(op) ==
  CASE op = "FADD" -> "f32_add" [] op = "FSUB" -> "f32_sub" [] op = "FMUL" -> "f32_mul"
    [] op = "FDIV" -> "f32_div" [] op = "FSQRT" -> "f32_sqrt" [] OTHER -> "f32_mulAdd"

ArithArgs(i) ==
  LET a == fregs[i.rs1]  b == fregs[i.rs2]  c == fregs[i.rs3]
  IN  CASE i.op = "FSQRT" -> <<a>>
        [] i.op \in {"FADD", "FSUB", "FMUL", "FDIV"} -> <<a, b>>
        [] i.op = "FMSUB" -> <<a, b, f32_neg(c)>>
        [] i.op = "FNMSUB" -> <<f32_neg(a), b, c>>
        [] OTHER -> <<a, b, c>>

(* FNMADD negates the rounded result.                                      *)
ArithResult(op, v) == IF op = "FNMADD" THEN f32_neg(v) ELSE v

(* ExecuteRRRFBinOp, ExecuteRRRRFTernOp and FSQRT.                         *)
FArith(i) ==
  /\ i.kind = "FARITH"
  /\ \/ RoundingFails(i) /\ AbortRounding
     \/ /\ ~ RoundingFails(i)
        /\ softfloat_roundingMode' = ModeSet(GetRM(i.rm))
        /\ \E r \in Replies(ArithFunc(i.op), ArithArgs(i), softfloat_roundingMode') :
             /\ fregs' = SetFReg(i.rd, ArithResult(i.op, r.v))
             /\ Accrue(r.flags)
        /\ UNCHANGED xregs

CmpFunc(op) ==
  CASE op = "FLE" -> "f32_le" [] op = "FLT" -> "f32_lt" [] OTHER -> "f32_eq"

(* ExecuteRRRCmpOp: a comparison replies 1 or 0.                           *)
FCompare(i) ==
  /\ i.kind = "FCMP"
  /\ \E r \in Replies(CmpFunc(i.op), <<fregs[i.rs1], fregs[i.rs2]>>, softfloat_roundingMode) :
       /\ xregs' = SetXReg(i.rd, IF r.v # 0 THEN 1 ELSE 0)
       /\ Accrue(r.flags)
  /\ UNCHANGED <<fregs, softfloat_roundingMode>>

(* f32_min and f32_max choose by f32_le, which is false for a NaN, and     *)
(* leave the exceptions it raises in softfloat.                            *)
Chosen_equal(op, le, a, b) == IF le THEN a ELSE b   \* mutant: FMAX as FMIN

Chosen(op, le, a, b) == IF (op = "FMIN") = le THEN a ELSE b

FMinMax(i) ==
  /\ i.kind = "FMINMAX"
  /\ LET a == fregs[i.rs1]
         b == fregs[i.rs2]
     IN  \E r \in Replies("f32_le", <<a, b>>, softfloat_roundingMode) :
           /\ fregs' = SetFReg(i.rd, Chosen(i.op, r.v # 0, a, b))
           /\ softfloat_exceptionFlags' = IF r.flags = 0 THEN softfloat_exceptionFlags
                ELSE BitOr(softfloat_exceptionFlags, r.flags)
  /\ ip' = NextIp
  /\ UNCHANGED <<memory, xregs, fcsr, softfloat_roundingMode, should_stop, status, host>>

(* FCVT_W_S and FCVT_WU_S pass the mode as an argument.                    *)
FToInteger(i) ==
  /\ i.kind = "FCVT_TO_X"
  /\ \/ RoundingFails(i) /\ AbortRounding
     \/ /\ ~ RoundingFails(i)
        /\ softfloat_roundingMode' = ModeSet(GetRM(i.rm))
        /\ \E r \in Replies(IF i.op = "FCVT_W_S" THEN "f32_to_i32" ELSE "f32_to_ui32",
                            <<fregs[i.rs1]>>, ModeReturned(GetRM(i.rm))) :
             /\ xregs' = SetXReg(i.rd, r.v)
             /\ Accrue(r.flags)
        /\ UNCHANGED fregs

(* FCVT_S_W and FCVT_S_WU set no rounding mode: the one in softfloat is    *)
(* that of the last instruction that set one.                              *)
FToFloat(i) ==
  /\ i.kind = "FCVT_TO_F"
  /\ \E r \in Replies(IF i.op = "FCVT_S_W" THEN "i32_to_f32" ELSE "ui32_to_f32",
                      <<GetXReg(i.rs1)>>, softfloat_roundingMode) :
       /\ fregs' = SetFReg(i.rd, r.v)
       /\ Accrue(r.flags)
  /\ UNCHANGED <<xregs, softfloat_roundingMode>>
-----------------------------------------------------------------------------
(* Instructions that only move bits.                                       *)

FSignInject(i) ==
  /\ i.kind = "FSGN"
  /\ LET s1 == Sign(fregs[i.rs1])
         s2 == Sign(fregs[i.rs2])
         s == CASE i.op = "FSGNJ" -> s2
                [] i.op = "FSGNJN" -> 1 - s2
                [] OTHER -> IF s1 = s2 THEN 0 ELSE 1
     IN  FMove(i.rd, WithSign(s, fregs[i.rs1]))

FMoveToX(i) == i.kind = "FMV_X_W" /\ Retire(i.rd, fregs[i.rs1], NextIp)

FMoveToF(i) == i.kind = "FMV_W_X" /\ FMove(i.rd, GetXReg(i.rs1))

(* The bit that FCLASS sets: std::fpclassify, signbit and the quiet bit.   *)
ClassShift(v) ==
  LET minus == Sign(v) = 1
      class == FPClassify(v)
  IN  CASE class = "infinite" -> IF minus THEN 0 ELSE 7
        [] class = "nan" -> IF IsSignalingNaN(v) THEN 8 ELSE 9
        [] class = "normal" -> IF minus THEN 1 ELSE 6
        [] class = "subnormal" -> IF minus THEN 2 ELSE 5
        [] OTHER -> IF minus THEN 3 ELSE 4

FClass(i) == i.kind = "FCLASS" /\ Retire(i.rd, Trunc(2 ^ ClassShift(fregs[i.rs1])), NextIp)

FLoad(i) ==
  /\ i.kind = "FLW"
  /\ LET addr == EffectiveAddress(i)
     IN  \/ Faults(addr, 4) /\ Abort
         \/ /\ ~ Faults(addr, 4)
            /\ \E b \in LoadReplies(memory, addr, 4) : FMove(i.rd, Value(b, 4))

FStore(i) ==
  /\ i.kind = "FSW"
  /\ LET addr == EffectiveAddress(i)
     IN  \/ Faults(addr, 4) /\ Abort
         \/ /\ ~ Faults(addr, 4)
            /\ StoreBytes(4, addr, LowBytes(fregs[i.rs2], 4))
            /\ ip' = NextIp
            /\ UNCHANGED <<xregs, floats, should_stop, host>>
=============================================================================
