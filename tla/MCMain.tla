------------------------------- MODULE MCMain --------------------------------
(***************************************************************************)
(* A guest that writes its arguments out and exits with argc, which it     *)
(* keeps in its data segment meanwhile, for command lines and files right  *)
(* and wrong.                                                              *)
(***************************************************************************)
EXTENDS MCGuest, Main, TLC

gp == 9
ArgsXRegs == 10

Top == 168
StackBytes == 20
DataStart == 112

Program == <<
  Ld("LW", t1, 0, sp),
  St("SB", t1, 3, gp),          \* above what the file has of the segment
  li(a7, 64),
  RRI("ADD", t2, sp, 4),
  Ld("LW", a1, 0, t2),          \* argument: the next one, or the null pointer
  Br("BEQ", a1, zero, 52),      \* to exit
  li(a2, 0),
  RRR("ADD", a0, a1, a2),       \* length:
  Ld("LBU", a0, 0, a0),
  Br("BEQ", a0, zero, 12),      \* to more
  RRI("ADD", a2, a2, 1),
  Jump(zero, -16),              \* to length
  Plain("ECALL"),               \* more:
  Br("BLT", a0, zero, 32),      \* to failed
  RRR("ADD", a1, a1, a0),
  RRR("SUB", a2, a2, a0),
  Br("BNE", a2, zero, -16),     \* to more
  Jump(zero, 28),               \* to next
  Ld("LBU", a0, 3, gp),         \* exit:
  li(a7, 93),
  Plain("ECALL"),
  li(a0, -1),                   \* failed:
  li(a7, 93),
  Plain("ECALL"),
  RRI("ADD", t2, t2, 4),        \* next:
  Jump(zero, -84) >>            \* to argument

ArgsDecode(w) == Lookup(Program, w)
ArgsBinOps == {"ADD", "SUB"}
ArgsBranches == {"BEQ", "BLT", "BNE"}

TextData == Text(0, [k \in 1 .. Len(Program) |-> k]).data
LoadText == [type |-> "PT_LOAD", start |-> 0, mem_size |-> Len(TextData), data |-> TextData]
LoadData == [type |-> "PT_LOAD", start |-> DataStart, mem_size |-> 4, data |-> <<3, 1>>]
Note == [type |-> "other", start |-> DataStart, mem_size |-> 4, data |-> <<2, 2, 2, 2>>]
(* It meets LoadData in one byte, and the argv segment in others.          *)
Over(start) == [type |-> "PT_LOAD", start |-> start, mem_size |-> 3, data |-> <<1>>]
(* It ends where the addresses do.                                         *)
High == [type |-> "PT_LOAD", start |-> 252, mem_size |-> 4, data |-> <<1>>]
Short == [type |-> "PT_LOAD", start |-> 200, mem_size |-> 1, data |-> <<1, 1>>]

Guest(segments) ==
  [target |-> "EM_RISCV 32", segments |-> segments,
   symtabs |-> <<NoSymbol, DataStart + 1, DataStart, NoSymbol>>, entry |-> 0]

(* Names are bytes: 1 is the guest; the rest are wrong in some way.        *)
ArgsFiles ==
  (<<1>> :> Guest(<<LoadText, Note, LoadData, High>>))
  @@ (<<2>> :> Guest(<<LoadText, LoadData, Over(DataStart + 3)>>))
  @@ (<<3>> :> Guest(<<LoadText, LoadData, Over(Top + 5)>>))
  @@ (<<1, 1>> :> Guest(<<LoadText, Short>>))
  @@ (<<1, 2>> :> [Guest(<<LoadText>>) EXCEPT !.target = "other"])

ArgsCommandLines ==
  {<< >>, <<<<3, 3>>>>, <<<<1, 1>>>>, <<<<1, 2>>>>,
   <<<<1>>>>, <<<<1>>, <<2, 3>>>>, <<<<1>>, <<1, 2, 3>>, <<2>>>>, <<<<1>>, << >>, <<3>>>>,
   <<<<1>>, <<1>>, <<2>>, <<3>>>>, <<<<2>>, <<3>>>>, <<<<3>>, <<2, 2>>>>}

ArgsInputs == {<< >>}

(* The guest that got every byte of its arguments through wrote them in    *)
(* order, its own name first, and exits with their number: main leaves the *)
(* simulator's name out (program_args.hpp:16, rv_sim.hpp:62-77).           *)
Concatenated(strings) ==
  LET upTo[k \in 1 .. Len(strings)] ==
        IF k = 1 THEN strings[1] ELSE upTo[k - 1] \o strings[k]
  IN  upTo[Len(strings)]
GuestSeesArguments ==
  status = "returned" /\ LeavesRoom =>
    \/ xregs[a0] = Trunc(-1)
    \/ output = Concatenated(argv) /\ xregs[a0] = Len(argv)
=============================================================================
