----------------------------- MODULE MCRelease ------------------------------
(***************************************************************************)
(* The build without asserts: programs of two integer instructions, and    *)
(* two programs that compute with floats.                                  *)
(***************************************************************************)
EXTENDS MCAny, MCOrder, MCRounding

ReleaseDecode(w) ==
  CASE w > RoundingAt -> Lookup(RoundingProgram, w - RoundingAt)
    [] w > OrderAt /\ w <= RoundingAt -> Lookup(OrderProgram, w - OrderAt)
    [] OTHER -> AnyDecode(w)

(* In a build without asserts a wild load has many outcomes, and a wild    *)
(* fetch more: no jumps backwards or to a register, and a hole after the   *)
(* text.                                                                   *)
Forward ==
  {w \in 1 .. Len(IntegerTable) :
     IntegerTable[w].imm # 252 /\ IntegerTable[w].kind # "JALR"}
TwoImages ==
  {<<Text(0, <<w, v, ecall>>), Data(16, 2, 1), Data(19, 2, 0), Data(253, 2, 0)>> :
     w, v \in Forward}
TwoRegisters == RegistersWith({15, 17, 19, 254})

ReleaseImages == TwoImages \cup OrderImages \cup RoundingImages
ReleaseRegisters == TwoRegisters \cup OrderRegisters \cup RoundingRegisters
ReleaseInputs == AnyInputs \cup {<< >>}
ReleaseInit ==
  \/ Started(TwoImages, TwoRegisters, AnyInputs) /\ Init
  \/ OrderStart(Boundaries) /\ input = << >>
  \/ RoundingInit /\ input = << >>
ReleaseSpec == ReleaseInit /\ [][Next]_vars
=============================================================================
