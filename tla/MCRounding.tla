----------------------------- MODULE MCRounding -----------------------------
(***************************************************************************)
(* tests/dyn_rm.s for any numerator, some denominators and every rounding  *)
(* mode: a quotient is converted to an integer in the mode that frm holds, *)
(* and fflags tells whether it was exact.                                  *)
(***************************************************************************)
EXTENDS MCGuest

RoundingProgram == <<
  FRounded("FCVT_TO_F", "FCVT_S_W", 1, t1, 0, 0, DYN),
  FRounded("FCVT_TO_F", "FCVT_S_W", 2, t2, 0, 0, DYN),
  FRounded("FARITH", "FDIV", 1, 1, 2, 0, DYN),
  CsrI("CSRRW", zero, frm, a1),
  CsrI("CSRRWI", zero, fflags, 0),
  FRounded("FCVT_TO_X", "FCVT_W_S", a0, 1, 0, 0, DYN),
  CsrI("CSRRS", a2, fflags, zero),
  li(a7, 93),
  Plain("ECALL") >>

RoundingAt == 100
RoundingImage == <<Text(0, WordsAfter(RoundingAt, RoundingProgram))>>
RoundingImages == {RoundingImage}
Numerators == -15 .. 15
Denominators == {1, 2, 4, 8}
RoundingRegisters ==
  {[r \in XReg |-> CASE r = t1 -> Trunc(n) [] r = t2 -> d [] r = a1 -> m [] OTHER -> 0] :
     n \in Numerators, d \in Denominators, m \in RoundingModes}

(* n / d rounded to an integer, by the definition of each mode.            *)
Quotient(n, d, m) ==
  LET floor == n \div d
      ceiling == - ((- n) \div d)
      twice == 2 * n - d * (floor + ceiling)   \* the sign of n / d - middle
      away == IF n < 0 THEN floor ELSE ceiling
      toZero == IF n < 0 THEN ceiling ELSE floor
      even == IF floor % 2 = 0 THEN floor ELSE ceiling
  IN  CASE m = 1 -> toZero
        [] m = 2 -> floor
        [] m = 3 -> ceiling
        [] OTHER -> IF twice < 0 THEN floor ELSE IF twice > 0 THEN ceiling
                    ELSE IF m = 0 THEN even ELSE away

(* What the guest is compiled for, and what the library computes of these  *)
(* operands: that their quotient, converted to an integer in mode m, is    *)
(* rounded as that mode says and raises no exception but inexact.          *)
Converted(x) == {r.v : r \in Replies("i32_to_f32", <<x>>, 0)}
Quotients(x, d) ==
  UNION {{r.v : r \in Replies("f32_div", <<a, b>>, 0)} : a \in Converted(x), b \in Converted(d)}
Inexact(n, d) == IF n % d = 0 THEN 0 ELSE 1
ASSUME RoundingAssumption ==
  /\ A0 = a0 /\ A7 = a7
  /\ \A k \in DOMAIN RoundingProgram : Decode(RoundingAt + k) = RoundingProgram[k]
  /\ \A x, y \in Register : BinOpFunc("ADD", x, y) = {Trunc(x + y)}
  /\ BitOr(0, 1) = 1
  /\ \A x \in {z \in Register : Signed(z) \in Numerators}, d \in Denominators, m \in RoundingModes :
       \A q \in Quotients(x, d) : \A r \in Replies("f32_to_i32", <<q>>, m) :
         Signed(r.v) = Quotient(Signed(x), d, m) /\ r.flags = Inexact(Signed(x), d)

(* The simulator with this guest in its memory, and operands in registers. *)
RoundingOperands(regs) ==
  Signed(regs[t1]) \in Numerators /\ regs[t2] \in Denominators /\ regs[a1] \in RoundingModes
RoundingInit ==
  /\ xregs \in {regs \in RegisterFiles : RoundingOperands(regs)}
  /\ memory = RoundingImage
  /\ ip = 0
  /\ Init
RoundingSpec == RoundingInit /\ [][Next]_vars

(* The mode that a CSR instruction stored long before decides how an       *)
(* instruction with the dynamic mode rounds, and the exceptions of the     *)
(* instructions before fflags was cleared do not come back                 *)
(* (ext_f_cb.cpp:21-57, rv_sim.hpp:133-182, tests/dyn_rm.s).               *)
DynamicModeRounds ==
  Runs(RoundingAt) /\ status = "returned" =>
    LET n == Signed(xregs[t1])
        d == xregs[t2]
    IN  /\ Signed(xregs[a0]) = Quotient(n, d, xregs[a1])
        /\ xregs[a2] = Inexact(n, d)
=============================================================================
