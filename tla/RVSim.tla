------------------------------- MODULE RVSim --------------------------------
(***************************************************************************)
(* RVSim::Execute: it fetches a word, decodes it and calls the callback,   *)
(* one iteration of its loop per step of Next (rv_sim.cpp).                *)
(***************************************************************************)
EXTENDS IntegerCallbacks, CsrCallbacks, FloatCallbacks, Syscalls

Callback(i) ==
  \/ Compute(i) \/ LUI(i) \/ AUIPC(i)
  \/ JAL(i) \/ JALR(i) \/ Branch(i)
  \/ Load(i) \/ Store(i)
  \/ NoOperation(i) \/ Terminate(i)
  \/ Csr(i)
  \/ FArith(i) \/ FCompare(i) \/ FMinMax(i) \/ FToInteger(i) \/ FToFloat(i)
  \/ FSignInject(i) \/ FMoveToX(i) \/ FMoveToF(i) \/ FClass(i) \/ FLoad(i) \/ FStore(i)
  \/ EcallExit(i) \/ EcallRead(i) \/ EcallWrite(i) \/ EcallUnknown(i)

(* Mutant: the loop does not test should_stop_.                            *)
Iterate_unconditional ==
  /\ status = "running"
  /\ \/ Faults(ip, StepSize) /\ Abort
     \/ /\ ~ Faults(ip, StepSize)
        /\ \E b \in LoadReplies(memory, ip, StepSize) : Callback(Decode(Value(b, StepSize)))

(* One iteration of the loop of Execute.                                   *)
Iterate ==
  /\ status = "running" /\ ~ should_stop
  /\ \/ Faults(ip, StepSize) /\ Abort
     \/ /\ ~ Faults(ip, StepSize)
        /\ \E b \in LoadReplies(memory, ip, StepSize) : Callback(Decode(Value(b, StepSize)))

(* The loop ends; main returns a0, of which the host keeps the low byte.   *)
Return ==
  /\ status = "running" /\ should_stop
  /\ status' = "returned"
  /\ UNCHANGED <<memory, ip, xregs, floats, should_stop, host>>

ExitStatus == xregs[A0] % ByteMod

Next == Iterate \/ Return

Spec == Init /\ [][Next]_vars

(* The process runs on, and a read or write returns, as long as nothing    *)
(* has ended it.                                                           *)
FairSpec == Spec /\ WF_vars(Next)
-----------------------------------------------------------------------------
(* x0 holds 0 after any program, though most instructions and two system   *)
(* calls write a register chosen by the guest (rv_sim.hpp:97).             *)
ZeroRegister == xregs[0] = 0

(* ip is even in every state: JALR clears bit 0, every other target is a   *)
(* sum of even numbers, modulo 2^32 (ext_i_cb.cpp:102-106,144,154-156).    *)
IpIsEven == ip % 2 = 0

(* Where the guest's byte at x is, if it has one.                          *)
Mapped(x) == Fits(memory, x, 1)
GuestBuffer(n) == {Wrap(xregs[A1] + j) : j \in 0 .. n - 1}

(* A byte taken from the host is neither lost, reordered nor put over      *)
(* another one: when a read returns, it has reported as many bytes as it   *)
(* took, and the guest finds them in its buffer, across segments, with the *)
(* rest of the memory as it was (syscall_handler.cpp:40-48).  A build      *)
(* without asserts drops the bytes that have no place.                     *)
ReadsDeliver ==
  [][Len(input') < Len(input) /\ status' = "running" =>
       LET count == Len(input) - Len(input')
       IN  /\ xregs'[A0] = count
           /\ NDEBUG \/ \A x \in GuestBuffer(count) : Mapped(x)
           /\ \A j \in 0 .. count - 1 :
                LET x == Wrap(xregs[A1] + j)
                IN  Mapped(x) => ByteAt(memory', x) = input[j + 1]
           /\ \A x \in Address \ GuestBuffer(count) :
                Mapped(x) => ByteAt(memory', x) = ByteAt(memory, x)]_vars

(* What a write gives to the host is the prefix of the guest's buffer that *)
(* it reports, and nothing in the guest but a0 and ip tells that it was    *)
(* called (syscall_handler.cpp:59-67).                                     *)
WritesShowMemory ==
  [][output' # output =>
       LET count == Len(output') - Len(output)
       IN  /\ count \in 1 .. xregs[A2]
           /\ xregs' = [xregs EXCEPT ![A0] = count]
           /\ memory' = memory
           /\ SubSeq(output', 1, Len(output)) = output
           /\ \A j \in 0 .. count - 1 :
                LET x == Wrap(xregs[A1] + j)
                IN  Mapped(x) => output'[Len(output) + j + 1] = ByteAt(memory, x)]_vars

(* What the host sees: a process that moves bytes and ends once, with the  *)
(* status the guest gave to exit and with no effect after that call.  The  *)
(* call only sets should_stop_ and leaves the status in a0, and the loop   *)
(* must not run another instruction that could change it                   *)
(* (syscall_handler.cpp:25-26, rv_sim.cpp:17,33).                          *)
Process == INSTANCE GuestProcess WITH
  phase <- IF status \in {"abort", "terminate", "undefined"} THEN "killed"
           ELSE IF should_stop THEN "exited" ELSE "running",
  code <- IF should_stop THEN ExitStatus ELSE 0

ImplementsProcess == Process!Spec

(* In a build with asserts, what Execute does is what the machine of       *)
(* module Isa does: the segment list, the flags and the rounding mode kept *)
(* in softfloat, and the order in which a callback reads and writes        *)
(* registers and CSRs never show.                                          *)
Machine == INSTANCE Isa WITH
  mode <- IF status \in {"abort", "terminate", "undefined"} THEN "trapped"
          ELSE IF should_stop THEN "exited" ELSE "user",
  pc <- ip, x <- xregs, f <- fregs,
  frm <- (fcsr \div 32) % 8,
  fflags <- {k \in 0 .. 4 : (fcsr \div 2 ^ k) % 2 = 1},
  mem <- [y \in Address |-> IF Fits(memory, y, 1) THEN ByteAt(memory, y) ELSE -1],
  region <- [y \in Address |-> RegionOf(memory, y)],
  NoByte <- -1, ReadId <- kRead, WriteId <- kWrite, ExitId <- kExit

ImplementsIsa == Machine!Spec

(* The instruction at ip is a mistake of the guest, or there is none: an   *)
(* assert stops it, if the build has asserts.                              *)
Mistaken ==
  \/ ~ Machine!Reaches(ip, StepSize)
  \/ Machine!Mistake(Decode(Machine!MemValue(ip, StepSize)))

(* Asserts are all that the builds differ in: without them, too, an        *)
(* instruction that is no mistake does what the architecture says, and     *)
(* does so after a mistake that went unnoticed (memory.cpp:34,52,          *)
(* isa_hlp.hpp, syscall_handler.cpp:73).                                   *)
InstructionsAreIsa ==
  [][(NDEBUG /\ Mistaken) \/ [Machine!Next]_(Machine!vars)]_vars
=============================================================================
