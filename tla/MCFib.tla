------------------------------- MODULE MCFib --------------------------------
(***************************************************************************)
(* tests/fib_rec.s: recursive calls, a frame on the stack for each, and an *)
(* exit with 0 if the result is the expected one.                          *)
(***************************************************************************)
EXTENDS MCGuest

Fib[n \in 0 .. 6] == IF n < 2 THEN n ELSE Fib[n - 1] + Fib[n - 2]

FibAt == 0        \* its instructions follow this entry of the table
FibStack == 248

(* _start at 0, fib at 28 and fib_recurse at 60.                           *)
FibProgram(n) == <<
  Upper("LUI", sp, FibStack),
  li(a0, n),
  Jump(ra, 20),
  li(t1, Fib[n]),
  RRR("SUB", a0, a0, t1),
  li(a7, 93),
  Plain("ECALL"),

  RRI("ADD", sp, sp, -16),
  St("SW", ra, 12, sp),
  St("SW", a0, 8, sp),
  li(t1, 1),
  Br("BLT", t1, a0, 16),
  Ld("LW", ra, 12, sp),
  RRI("ADD", sp, sp, 16),
  ret,

  RRI("ADD", a0, a0, -1),
  Jump(ra, -36),
  St("SW", a0, 4, sp),
  Ld("LW", a0, 8, sp),
  RRI("ADD", a0, a0, -2),
  Jump(ra, -52),
  Ld("LW", t2, 4, sp),
  RRR("ADD", a0, a0, t2),
  Ld("LW", ra, 12, sp),
  RRI("ADD", sp, sp, 16),
  ret >>

(* The instruction words: those of n = 0, then the two that depend on n.   *)
FibArguments == 2 .. 6
FibTable ==
  [w \in 1 .. 40 |->
     IF w <= 26 THEN FibProgram(0)[w]
     ELSE IF w \in {27 + n : n \in FibArguments} THEN FibProgram(w - 27)[2]
     ELSE IF w \in {33 + n : n \in FibArguments} THEN FibProgram(w - 33)[4]
     ELSE Plain("INVALID")]

FibImages ==
  {<<Text(0, [k \in 1 .. 26 |->
                FibAt + CASE k = 2 -> 27 + n [] k = 4 -> 33 + n [] OTHER -> k]),
     Data(FibStack - 96, 96, 0)>> : n \in FibArguments}

(* The calls of a recursive guest nest: each returns where it was called,  *)
(* with the words it saved and its stack pointer back, so that the sum is  *)
(* right (tests/fib_rec.s; JAL, JALR, LW and SW of ext_i_cb.cpp).          *)
FibIsComputed ==
  Runs(FibAt) /\ status = "returned" => xregs[a0] = 0 /\ xregs[sp] = FibStack
=============================================================================
