------------------------------ MODULE MCFloat -------------------------------
(***************************************************************************)
(* Every program of two instructions of the F and Zicsr extensions from a  *)
(* table, after two loads of float registers: normal numbers, subnormals,  *)
(* zeros, infinities and NaNs, every kind of rounding mode, static and     *)
(* dynamic, and CSRs that exist or not.                                    *)
(***************************************************************************)
EXTENDS MCGuest, TLC

csr == 3   \* fcsr

FloatAt == 40   \* the table follows this entry of the whole one

Arith(op, rd, rs1, rs2, rs3, rm) == FRounded("FARITH", op, rd, rs1, rs2, rs3, rm)
FloatLoads == <<Assemble("FLW", "none", 1, a2, 0, 0), Assemble("FLW", "none", 2, a2, 0, 4)>>

FloatTable == FloatLoads \o <<
  Arith("FADD", 0, 1, 2, 0, DYN),
  Arith("FSUB", 2, 0, 1, 0, RUP),
  Arith("FMUL", 0, 1, 2, 0, RNE),
  Arith("FDIV", 1, 1, 2, 0, DYN),
  Arith("FSQRT", 1, 2, 0, 0, RTZ),
  Arith("FMADD", 0, 1, 2, 1, RUP),
  Arith("FMSUB", 0, 1, 2, 1, DYN),
  Arith("FNMSUB", 0, 1, 2, 1, 5),
  Arith("FNMADD", 0, 1, 2, 1, RDN),
  FRounded("FCVT_TO_X", "FCVT_W_S", a0, 1, 0, 0, DYN),
  FRounded("FCVT_TO_X", "FCVT_WU_S", a0, 1, 0, 0, 6),
  FRounded("FCVT_TO_F", "FCVT_S_W", 1, a1, 0, 0, DYN),
  FRounded("FCVT_TO_F", "FCVT_S_WU", 2, a1, 0, 0, RTZ),
  FPlain("FMINMAX", "FMIN", 0, 1, 2),
  FPlain("FMINMAX", "FMAX", 1, 2, 1),
  FPlain("FCMP", "FLE", a0, 1, 2),
  FPlain("FCMP", "FLT", zero, 1, 2),
  FPlain("FCMP", "FEQ", a1, 1, 2),
  FPlain("FSGN", "FSGNJ", 1, 1, 2),
  FPlain("FSGN", "FSGNJN", 0, 2, 1),
  FPlain("FSGN", "FSGNJX", 2, 1, 2),
  FPlain("FMV_X_W", "none", a1, 1, 0),
  FPlain("FMV_W_X", "none", 2, a1, 0),
  FPlain("FCLASS", "none", a0, 1, 0),
  Assemble("FLW", "none", 1, a2, 0, 2),
  Assemble("FLW", "none", 1, a2, 0, 6),
  Assemble("FSW", "none", 0, a2, 2, 0),
  Assemble("FSW", "none", 0, a2, 1, 5),
  CsrI("CSRRW", a1, csr, a1),
  CsrI("CSRRS", a0, fflags, a0),
  CsrI("CSRRC", a0, csr, a1),
  CsrI("CSRRWI", zero, frm, DYN),
  CsrI("CSRRWI", a1, frm, RDN),
  CsrI("CSRRSI", a0, frm, 5),
  CsrI("CSRRCI", a1, fflags, 1),
  CsrI("CSRRW", a0, 5, a1),
  Plain("ECALL") >>

(* Two floats after the text: 1.5 and 3; the largest and a signaling NaN;  *)
(* -0 and a subnormal; -4.5 and infinity.                                  *)
FloatPairs == {<<56, 72>>, <<111, 115>>, <<128, 5>>, <<210, 112>>}
FloatsAt == 20
FloatImages ==
  {<<Text(0, <<FloatAt + 1, FloatAt + 2, FloatAt + w, FloatAt + v, FloatAt + Len(FloatTable)>>),
     Text(FloatsAt, pair)>> : w, v \in 3 .. Len(FloatTable), pair \in FloatPairs}
FloatRegisters ==
  {Registers((a0 :> 34) @@ (a1 :> 20) @@ (a2 :> FloatsAt) @@ (a7 :> 93))}
=============================================================================
