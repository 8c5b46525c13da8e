---------------------------- MODULE MCDeviations ----------------------------
(***************************************************************************)
(* Two guests that show where float instructions are not those of the      *)
(* architecture: a conversion, in the dynamic mode, from an integer that   *)
(* has no exact float, and a negated product-sum in a static mode.         *)
(***************************************************************************)
EXTENDS MCGuest

DeviatingInputs == {<< >>}
DeviatingBinOps == {"ADD"}
DeviatingBranches == {}

ConversionProgram == <<
  CsrI("CSRRW", zero, frm, a1),
  FRounded("FCVT_TO_F", "FCVT_S_W", 1, t1, 0, 0, DYN),
  li(a7, 93),
  Plain("ECALL") >>
ConversionDecode(w) == Lookup(ConversionProgram, w)
ConversionImages == {<<Text(0, WordsAfter(0, ConversionProgram))>>}
ConversionRegisters ==
  {[r \in XReg |-> CASE r = t1 -> Trunc(n) [] r = a1 -> m [] OTHER -> 0] :
     n \in {-40, 3, 40}, m \in RoundingModes}

(* isa_defs.hpp:120: DYN takes the mode from frm, in a conversion from an  *)
(* integer as in any other instruction.                                    *)
ConversionIsDynamic ==
  status = "returned" =>
    \E r \in MiniFloat("i32_to_f32", <<xregs[t1]>>, xregs[a1]) : fregs[1] = r.v

NegatedProgram == <<
  FRounded("FCVT_TO_F", "FCVT_S_W", 1, t1, 0, 0, 0),
  FRounded("FCVT_TO_F", "FCVT_S_W", 2, t2, 0, 0, 0),
  FRounded("FARITH", "FDIV", 3, 1, 2, 0, 0),
  FRounded("FARITH", "FNMADD", 4, 3, 3, 1, RDN),
  li(a7, 93),
  Plain("ECALL") >>
NegatedDecode(w) == Lookup(NegatedProgram, w)
NegatedImages == {<<Text(0, WordsAfter(0, NegatedProgram))>>}
NegatedRegisters ==
  {[r \in XReg |-> CASE r = t1 -> n [] r = t2 -> d [] OTHER -> 0] : n \in 1 .. 4, d \in 1 .. 4}

(* README.md:2: rv32imf, in which FNMADD rounds -(rs1 * rs2) - rs3.        *)
NegatedSumRounds ==
  status = "returned" =>
    \E r \in MiniFloat("f32_mulAdd", <<f32_neg(fregs[3]), fregs[3], f32_neg(fregs[1])>>, RDN) :
       fregs[4] = r.v
=============================================================================
