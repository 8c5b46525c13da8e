------------------------------- MODULE MCAny --------------------------------
(***************************************************************************)
(* Every program of two integer instructions from a table, run from        *)
(* several register files on a memory with adjacent segments, slack and    *)
(* holes; and every one of two float or CSR instructions (MCFloat).        *)
(***************************************************************************)
EXTENDS MCFloat

IntegerTable == <<
  (* Registers, with x0 as source and destination, and undefined shifts.   *)
  RRR("ADD", a0, a0, a1),
  RRR("ADD", zero, a0, a1),
  RRR("SUB", a0, zero, a2),
  RRR("SLL", a2, a0, a1),
  RRI("ADD", a1, a1, -1),
  RRI("SLTU", a2, a1, 3),
  Upper("LUI", zero, 16),
  Upper("LUI", a1, 255),
  Upper("AUIPC", a1, 12),
  (* Jumps: backwards, into the middle of a word, on to themselves.        *)
  Jump(a0, -4),
  Jump(zero, 6),
  JumpR(a1, a1, 1),
  JumpR(zero, a2, 3),
  Br("BEQ", a0, zero, 8),
  Br("BNE", a1, a2, -4),
  Br("BGEU", a1, a0, 2),
  (* Loads and stores at, across and outside the segments and the text.    *)
  Ld("LB", a0, 0, a1),
  Ld("LH", a0, 1, a1),
  Ld("LBU", zero, 0, a1),
  Ld("LHU", a2, -1, a1),
  Ld("LW", a0, 4, zero),
  Ld("LW", a1, 0, a1),
  St("SB", a2, 4, zero),
  St("SB", a0, 0, a1),
  St("SH", a0, 0, a1),
  St("SW", a2, 0, a1),
  Plain("FENCE"),
  Plain("EBREAK"),
  Plain("ECALL"),
  li(a7, 64),
  li(a7, 93) >>

ecall == CHOOSE w \in 1 .. Len(IntegerTable) : IntegerTable[w].kind = "ECALL"

AnyDecode(w) ==
  IF w > FloatAt THEN Lookup(FloatTable, w - FloatAt) ELSE Lookup(IntegerTable, w)

(* Text at 0, a segment right after it whose range is longer than its      *)
(* vector, as the argv segment's is, one after that, and one that ends at  *)
(* the last address a segment can contain.  The third word is a system     *)
(* call.                                                                   *)
Image(w, v) ==
  <<Text(0, <<w, v, ecall>>), Data(12, 2, 1), Data(15, 2, 0), Data(253, 2, 0)>>

RegistersWith(buffers) ==
  {Registers((a0 :> 1) @@ (a1 :> buffer) @@ (a2 :> 3) @@ (a7 :> id)) :
     buffer \in buffers, id \in {62, 63}}

IntegerImages == {Image(w, v) : w, v \in 1 .. Len(IntegerTable)}

IntegerRegisters == RegistersWith({11, 13, 15, 254})

AnyImages == IntegerImages \cup FloatImages
ASSUME AnyImagesAreUnbroken == \A mem \in AnyImages : Unbroken(mem)
AnyRegisters == IntegerRegisters \cup FloatRegisters
AnyInputs == {<<2, 1, 3>>}
AnyBinOps == {"ADD", "SUB", "SLL", "SLTU"}
AnyBranches == {"BEQ", "BNE", "BGEU"}

AnyInit ==
  /\ \/ Started(IntegerImages, IntegerRegisters, AnyInputs)
     \/ Started(FloatImages, FloatRegisters, AnyInputs)
  /\ Init
AnySpec == AnyInit /\ [][Next]_vars
=============================================================================
