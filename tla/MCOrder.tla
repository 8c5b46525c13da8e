------------------------------- MODULE MCOrder ------------------------------
(***************************************************************************)
(* A guest that compares, classifies, chooses between and changes the sign *)
(* of two floats: any first one, and a second one on each side of every    *)
(* boundary between classes.                                               *)
(***************************************************************************)
EXTENDS MCGuest

OrderProgram == <<
  Assemble("FLW", "none", 1, t1, 0, 0),
  Assemble("FLW", "none", 2, t1, 0, 4),
  FPlain("FCLASS", "none", t1, 1, 0),
  FPlain("FCLASS", "none", t2, 2, 0),
  FPlain("FCMP", "FLE", a0, 1, 2),
  FPlain("FCMP", "FLT", a1, 2, 1),
  FPlain("FMINMAX", "FMIN", 3, 1, 2),
  FPlain("FMINMAX", "FMAX", 4, 1, 2),
  FPlain("FSGN", "FSGNJN", 5, 1, 1),
  FPlain("FSGN", "FSGNJN", 6, 2, 2),
  FPlain("FCMP", "FLE", a2, 6, 5),
  FPlain("FSGN", "FSGNJX", 7, 1, 2),
  FPlain("FSGN", "FSGNJX", 7, 7, 2),
  FPlain("FSGN", "FSGNJ", 8, 1, 2),
  FPlain("FCMP", "FEQ", ra, 7, 8),
  li(a7, 93),
  Plain("ECALL") >>

OrderAt == 80
OperandsAt == 72
OrderImage(v, w) ==
  <<Text(0, WordsAfter(OrderAt, OrderProgram)), Text(OperandsAt, <<v, w>>)>>

Boundaries == {0, 15, 16, 111, 112, 115, 121, 128, 143, 144, 239, 240}
OrderImages == {OrderImage(v, w) : v \in Register, w \in Boundaries}
OrderRegisters == {Registers([r \in {t1} |-> OperandsAt])}

NaN(v) == FPClassify(v) = "nan"
SameSign(v, w) == Sign(v) = Sign(w)
IsZero(v) == v % Half = 0

(* What the guest is compiled for, and what IEEE 754 says of words as the  *)
(* library compares them: the magnitudes are in the order of the words,    *)
(* the classes too, the negative numbers are below the others, a NaN is    *)
(* unordered, and a comparison without NaNs raises no exception.           *)
Ordinal(v) == IF Sign(v) = 1 THEN - (v % Half) ELSE v % Half
Rank(v) ==
  LET class == FPClassify(v)
  IN  CASE class = "zero" -> 0 [] class = "subnormal" -> 1 [] class = "normal" -> 2
        [] class = "infinite" -> 3 [] OTHER -> 4
Answers(f, v, w, holds) ==
  \A r \in Replies(f, <<v, w>>, 0) :
    IF NaN(v) \/ NaN(w) THEN r.v = 0 ELSE (r.v # 0 <=> holds) /\ r.flags = 0
ASSUME OrderAssumption ==
  /\ A0 = a0 /\ A7 = a7
  /\ \A k \in DOMAIN OrderProgram : Decode(OrderAt + k) = OrderProgram[k]
  /\ \A x, y \in Register : BinOpFunc("ADD", x, y) = {Trunc(x + y)}
  /\ \A v, w \in Register :
       /\ v % Half <= w % Half => Rank(v) <= Rank(w)
       /\ Answers("f32_le", v, w, Ordinal(v) <= Ordinal(w))
       /\ Answers("f32_lt", v, w, Ordinal(v) < Ordinal(w))
       /\ Answers("f32_eq", v, w, Ordinal(v) = Ordinal(w))

(* The simulator with this guest and two floats in its memory.             *)
OrderStart(seconds) ==
  /\ xregs \in {regs \in RegisterFiles : regs[t1] = OperandsAt}
  /\ \E v \in Register, w \in seconds : memory = OrderImage(v, w)
  /\ ip = 0
  /\ Init
OrderInit == OrderStart(Register)
OrderSpec == OrderInit /\ [][Next]_vars

(* The instructions that look at floats agree on one order: a lower class  *)
(* (FCLASS numbers them from -inf to +inf) is never above a higher one,    *)
(* FLT is the negation of FLE reversed, FMIN and FMAX give back both       *)
(* operands, a change of both signs reverses the order, two changes by the *)
(* same sign undo each other, and nothing of this raises an exception;     *)
(* with a NaN every comparison fails (ext_f_cb.cpp:60-66,117-135,280-395,498-538). *)
FloatsAreOrdered ==
  Runs(OrderAt) /\ status = "returned" =>
    LET a == fregs[1]
        b == fregs[2]
    IN  /\ fregs[7] = a
        /\ xregs[ra] = 1 <=> ~ NaN(a) /\ (SameSign(a, b) \/ IsZero(a))
        /\ IF NaN(a) \/ NaN(b) THEN xregs[a0] = 0 /\ xregs[a1] = 0
           ELSE /\ xregs[t1] < xregs[t2] => xregs[a0] = 1
                /\ (xregs[a1] = 1) = (xregs[a0] = 0)
                /\ xregs[a2] = xregs[a0]
                /\ {fregs[3], fregs[4]} = {a, b}
                /\ xregs[a0] = 1 => fregs[3] = a
                /\ GetCSR(fflags) = 0
=============================================================================
