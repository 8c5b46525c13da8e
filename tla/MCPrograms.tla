----------------------------- MODULE MCPrograms -----------------------------
(***************************************************************************)
(* Whole guest programs, each with the result it must have: a recursion    *)
(* and a copy of the input.                                                *)
(***************************************************************************)
EXTENDS MCFib, MCEcho

ProgramsDecode(w) ==
  IF w > EchoAt THEN Lookup(EchoProgram, w - EchoAt) ELSE Lookup(FibTable, w)

ProgramsImages == FibImages \cup {EchoImage}
ProgramsRegisters == {Registers(<< >>)}
ProgramsBinOps == {"ADD", "SUB"}
ProgramsBranches == {"BGE", "BLT", "BNE"}

(* The recursion reads nothing.                                            *)
ProgramsInit ==
  \/ Started(FibImages, ProgramsRegisters, {<<1>>}) /\ Init
  \/ EchoInit
ProgramsSpec == ProgramsInit /\ [][Next]_vars /\ WF_vars(Next)

(* Each of these programs reaches its exit call and the simulator returns, *)
(* whatever the host answers to its reads and writes: a wrong target, link *)
(* register or count would make one run for ever (rv_sim.cpp:17,           *)
(* syscall_handler.cpp:48,67).                                             *)
GuestsReturn == <>(status = "returned")
=============================================================================
