---------------------------- MODULE GuestProcess ----------------------------
(***************************************************************************)
(* A guest program as the host that runs the simulator sees it: bytes go   *)
(* in and out, one way at a time, until it exits with a status or is       *)
(* killed.                                                                 *)
(***************************************************************************)
EXTENDS Integers, Sequences

CONSTANTS Byte, ByteMod

VARIABLES
  phase,    \* "running", "exited" or "killed"
  code,     \* the exit status, 0 before the exit
  input,    \* the bytes not yet taken
  output    \* the bytes given

vars == <<phase, code, input, output>>

Init ==
  /\ phase = "running"
  /\ code = 0
  /\ input \in Seq(Byte)
  /\ output = << >>

(* The first count bytes, in order.                                        *)
Take(count) == input' = SubSeq(input, count + 1, Len(input))

Read(count) == Take(count) /\ UNCHANGED <<phase, code, output>>

(* output grows at its end.                                                *)
Write ==
  /\ Len(output') > Len(output)
  /\ \A i \in 1 .. Len(output') : output'[i] \in Byte
  /\ \A i \in 1 .. Len(output) : output'[i] = output[i]
  /\ UNCHANGED <<phase, code, input>>

Exit ==
  /\ phase' = "exited"
  /\ code' \in 0 .. ByteMod - 1
  /\ UNCHANGED <<input, output>>

(* A fault may come in the middle of a read.                               *)
Kill(count) ==
  /\ phase' = "killed"
  /\ Take(count)
  /\ UNCHANGED <<code, output>>

Next ==
  /\ phase = "running"
  /\ \/ \E count \in 1 .. Len(input) : Read(count)
     \/ Write
     \/ Exit
     \/ \E count \in 0 .. Len(input) : Kill(count)

Spec == Init /\ [][Next]_vars
=============================================================================
