------------------------------- MODULE MCEcho -------------------------------
(***************************************************************************)
(* A guest that copies its input to its output, with the read and write    *)
(* loops that short counts call for; it exits with 0 at the end of the     *)
(* input and with the failing count otherwise.  The buffer lies across two *)
(* segments.                                                               *)
(***************************************************************************)
EXTENDS MCGuest

EchoAt == 50
Buffer == 80
BufferSize == 3

EchoProgram == <<
  li(a7, 63),                   \* again:
  li(a0, 0),
  li(a1, Buffer),
  li(a2, BufferSize),
  Plain("ECALL"),
  Br("BGE", zero, a0, 44),      \* to exit
  RRR("ADD", a2, a0, zero),

  li(a7, 64),
  li(a0, 1),                    \* more:
  Plain("ECALL"),
  Br("BLT", a0, zero, 24),      \* to exit
  RRR("ADD", a1, a1, a0),
  RRR("SUB", a2, a2, a0),
  Br("BNE", a2, zero, -20),     \* to more
  Jump(zero, -56),              \* to again
  Plain("INVALID"),

  li(a7, 93),                   \* exit:
  Plain("ECALL") >>

EchoImage ==
  <<Text(0, WordsAfter(EchoAt, EchoProgram)), Data(Buffer, 1, 0), Data(Buffer + 1, 2, 0)>>
(* No input is a prefix of another one.                                    *)
EchoInputs == {<<1>>, <<3, 0, 2, 1>>, <<2, 2, 3, 0, 1, 1, 2>>}

(* What the guest is compiled for: its words decode to it, and the         *)
(* operations that it uses are those their names say.                      *)
ASSUME EchoAssumption ==
  /\ A0 = a0 /\ A1 = a1 /\ A2 = a2 /\ A7 = a7
  /\ \A k \in DOMAIN EchoProgram : Decode(EchoAt + k) = EchoProgram[k]
  /\ \A x, y \in Register :
       /\ BinOpFunc("ADD", x, y) = {Trunc(x + y)}
       /\ BinOpFunc("SUB", x, y) = {Trunc(x - y)}
       /\ BranchPredFunc("BNE", x, y) <=> x # y
       /\ BranchPredFunc("BLT", x, y) <=> Signed(x) < Signed(y)
       /\ BranchPredFunc("BGE", x, y) <=> Signed(x) >= Signed(y)

(* The simulator with this guest in its memory.                            *)
EchoInit == memory = EchoImage /\ ip = 0 /\ Init
EchoSpec == EchoInit /\ [][Next]_vars

(* However the host splits the bytes, the guest passes on what it got, in  *)
(* order, and all of it when it exits with 0 (the results of read and      *)
(* write in a0, syscall_handler.cpp:48,67).                                *)
NothingLost ==
  Runs(EchoAt) =>
    \E all \in Inputs :
      /\ \E n \in 0 .. Len(all) : output = SubSeq(all, 1, n)
      /\ status = "returned" /\ xregs[a0] = 0 => output = all
=============================================================================
