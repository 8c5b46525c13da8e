---------------------------- MODULE DecoderProofs ----------------------------
(***************************************************************************)
(* Proofs about the decoder, for every word, not only those the runs meet, *)
(* and for every table whose entries can be told apart, as TableAssumption *)
(* says and TLC evaluates.                                                 *)
(***************************************************************************)
EXTENDS Toolchain, FiniteSetTheorems, TLAPS

(* A shift or a mask gives a word.                                         *)
LEMMA FieldsAreWords ==
  ASSUME NEW w \in Word
  PROVE  /\ Rd(w) \subseteq 0 .. 4 /\ Rs1(w) \subseteq 0 .. 4 /\ Rs2(w) \subseteq 0 .. 4
         /\ Rs3(w) \subseteq 0 .. 4 /\ Shamt(w) \subseteq 0 .. 4
BY DEF Rd, Rs1, Rs2, Rs3, Shamt, Low

LEMMA ImmediatesAreWords ==
  ASSUME NEW w \in Word, NEW imm
  PROVE  Imm(imm, w) \in Word
<1>1. \A v : SignExtend(v, 12) \in Word /\ SignExtend(v, 13) \in Word /\ SignExtend(v, 21) \in Word
  BY DEF SignExtend, Low, Word, Bit
<1>2. ImmI(w) \in Word /\ ImmS(w) \in Word /\ ImmB(w) \in Word /\ ImmJ(w) \in Word
  BY <1>1 DEF ImmI, ImmS, ImmB, ImmJ
<1>3. ImmU(w) \in Word /\ ImmCSR(w) \in Word /\ Shamt(w) \in Word /\ {} \in Word
  BY DEF ImmU, ImmCSR, Shamt, Shr, Word
<1> QED BY <1>2, <1>3, Zenon DEF Imm

-----------------------------------------------------------------------------
(* Bit by bit.                                                             *)

LEMMA ImmBIsGathered ==
  ASSUME NEW w \in Word
  PROVE  ImmB(w) = Gathered("B", w)
<1> DEFINE v == Shl(Shr(w, 31) \intersect Low(1), 12) \union Shl(Shr(w, 7) \intersect Low(1), 11)
                \union Shl(Shr(w, 25) \intersect Low(6), 5) \union Shl(Shr(w, 8) \intersect Low(4), 1)
           at(i) == IF i = 11 THEN 7 ELSE IF i = 12 THEN 31
                    ELSE IF i <= 4 THEN 7 + i ELSE 20 + i
<1>1. \A i \in Bit : i \in v <=> i \in 1 .. 12 /\ at(i) \in w
  BY DEF Shl, Shr, Low, Bit, Word
<1>2. ImmB(w) = SignExtend(v, 13)
  BY DEF ImmB
<1>3. SignBit("B") = 12 /\ \A i : ImmPosition("B", i) = at(i)
  BY Zenon DEF SignBit, ImmPosition
<1>4. Gathered("B", w) = {i \in Bit : i >= 1 /\ at(IF i > 12 THEN 12 ELSE i) \in w}
  BY <1>3 DEF Gathered
<1> HIDE DEF v
<1>5. SignExtend(v, 13) = {i \in Bit : i >= 1 /\ at(IF i > 12 THEN 12 ELSE i) \in w}
  <2>1. ASSUME NEW i \in Bit
        PROVE  i \in SignExtend(v, 13) <=> i >= 1 /\ at(IF i > 12 THEN 12 ELSE i) \in w
    BY <1>1, <2>1 DEF SignExtend, Low, Bit
  <2>2. SignExtend(v, 13) \subseteq Bit
    BY DEF SignExtend, Low, Bit
  <2> QED BY <2>1, <2>2
<1> QED BY <1>2, <1>4, <1>5

LEMMA ImmJIsGathered ==
  ASSUME NEW w \in Word
  PROVE  ImmJ(w) = Gathered("J", w)
<1> DEFINE v == Shl(Shr(w, 31) \intersect Low(1), 20) \union Shl(Shr(w, 12) \intersect Low(8), 12)
                \union Shl(Shr(w, 20) \intersect Low(1), 11) \union Shl(Shr(w, 21) \intersect Low(10), 1)
           at(i) == IF i = 11 THEN 20 ELSE IF i = 20 THEN 31
                    ELSE IF i <= 10 THEN 20 + i ELSE i
<1>1. \A i \in Bit : i \in v <=> i \in 1 .. 20 /\ at(i) \in w
  BY DEF Shl, Shr, Low, Bit, Word
<1>2. ImmJ(w) = SignExtend(v, 21)
  BY DEF ImmJ
<1>3. SignBit("J") = 20 /\ \A i : ImmPosition("J", i) = at(i)
  BY Zenon DEF SignBit, ImmPosition
<1>4. Gathered("J", w) = {i \in Bit : i >= 1 /\ at(IF i > 20 THEN 20 ELSE i) \in w}
  BY <1>3 DEF Gathered
<1> HIDE DEF v
<1>5. SignExtend(v, 21) = {i \in Bit : i >= 1 /\ at(IF i > 20 THEN 20 ELSE i) \in w}
  <2>1. ASSUME NEW i \in Bit
        PROVE  i \in SignExtend(v, 21) <=> i >= 1 /\ at(IF i > 20 THEN 20 ELSE i) \in w
    BY <1>1, <2>1 DEF SignExtend, Low, Bit
  <2>2. SignExtend(v, 21) \subseteq Bit
    BY DEF SignExtend, Low, Bit
  <2> QED BY <2>1, <2>2
<1> QED BY <1>2, <1>4, <1>5

-----------------------------------------------------------------------------
(* The search of the table.                                                *)

LEMMA CandidatesAgree ==
  ASSUME NEW w \in Word, NEW k \in Candidates(w), NEW l \in Candidates(w)
  PROVE  k = l
<1> SUFFICES ASSUME k # l PROVE FALSE
  OBVIOUS
<1>1. k \in DOMAIN Table /\ l \in DOMAIN Table /\ Matches(w, Table[k]) /\ Matches(w, Table[l])
  BY DEF Candidates
<1>2. PICK b \in Table[k].mask \intersect Table[l].mask :
         (b \in Table[k].match) # (b \in Table[l].match)
  BY <1>1, TableAssumption DEF Distinguishable
<1>3. (b \in w <=> b \in Table[k].match) /\ (b \in w <=> b \in Table[l].match)
  BY <1>1, <1>2 DEF Matches
<1> QED BY <1>2, <1>3

(* Whatever the order of the table, a word is decoded by the one entry     *)
(* that matches it, if there is one (decode.cpp:30-34).                    *)
THEOREM SearchOrderIsIrrelevant ==
  ASSUME NEW w \in Word, NEW k \in DOMAIN Table, Matches(w, Table[k])
  PROVE  Decode(w) = k
<1>1. k \in Candidates(w)
  BY DEF Candidates
<1>2. \A l \in Candidates(w) : l = k
  BY <1>1, CandidatesAgree
<1>3. k \in Nat
  BY TableAssumption
<1>4. Candidates(w) = {k}
  BY <1>1, <1>2
<1> QED BY <1>3, <1>4 DEF Decode

LEMMA DecodeGivesARow ==
  ASSUME NEW w \in Word
  PROVE  Decode(w) = 0 \/ Decode(w) \in DOMAIN Table
<1>1. CASE Candidates(w) = {}
  BY <1>1 DEF Decode
<1>2. CASE Candidates(w) # {}
  <2>1. PICK k \in DOMAIN Table : Matches(w, Table[k])
    BY <1>2 DEF Candidates
  <2> QED BY <2>1, SearchOrderIsIrrelevant
<1> QED BY <1>1, <1>2
-----------------------------------------------------------------------------
(* The invariant: the word is one, and its row exists.                     *)
IInv == raw_insn \in Word /\ row \in 0 .. Len(Table)

LEMMA PositionsAreBits ==
  ASSUME NEW e \in Entry, NEW f \in {"rd", "rs1", "rs2", "rs3", "rm", "imm"},
         NEW i \in OperandBits(e, f), f \in Uses(e)
  PROVE  Position(e, f, i) \in Bit
<1>1. CASE f = "imm"
  <2>1. Position(e, f, i) = ImmPosition(e.imm, i) /\ i \in ImmBits(e.imm)
    BY <1>1, Zenon DEF Position, OperandBits
  <2>2. e.imm \in ImmNames /\ e.imm # "none"
    BY <1>1 DEF Entry, Uses
  <2> DEFINE imm == e.imm
  <2> HIDE DEF imm
  <2>3. CASE imm \in {"I", "csr", "shamt"}
    <3>1. i \in 0 .. 11
      BY <2>1, <2>3 DEF ImmBits, imm
    <3>2. ImmPosition(imm, i) = 20 + i
      BY <2>3, Zenon DEF ImmPosition
    <3> QED BY <2>1, <3>1, <3>2 DEF imm, Bit
  <2>4. CASE imm \in {"S", "B", "U", "J"}
    BY <2>1, <2>4 DEF ImmBits, ImmPosition, imm, Bit
  <2> QED BY <2>2, <2>3, <2>4 DEF ImmNames, imm
<1>2. CASE f # "imm"
  <2>1. i \in 0 .. 4 /\ (f = "rm" => i \in 0 .. 2)
    BY <1>2 DEF OperandBits
  <2>2. Position(e, f, i) \in {7 + i, 12 + i, 15 + i, 20 + i, 27 + i}
    BY <1>2, Zenon DEF Position
  <2> QED BY <2>1, <2>2 DEF Bit
<1> QED BY <1>1, <1>2

LEMMA InitIInv == Init => IInv
<1> SUFFICES ASSUME Init PROVE IInv
  OBVIOUS
<1>1. Table[row] \in Entry /\ row \in 1 .. Len(Table)
  BY TableAssumption DEF Init
<1> QED BY <1>1, TableAssumption DEF Init, IInv, Entry

LEMMA NextIInv == IInv /\ [Next]_vars => IInv'
<1> SUFFICES ASSUME IInv, [Next]_vars PROVE IInv'
  OBVIOUS
<1>0. Len(Table) \in Nat
  BY TableAssumption
<1>1. ASSUME NEW f \in {"rd", "rs1", "rs2", "rs3", "rm", "imm"}, NEW i \in Bit, WriteOperand(f, i)
      PROVE  IInv'
  <2>1. Table[row] \in Entry
    BY <1>1, TableAssumption DEF WriteOperand, IInv
  <2>2. Position(Table[row], f, i) \in Bit
    BY <1>1, <2>1, PositionsAreBits DEF WriteOperand
  <2> QED BY <1>1, <2>2 DEF WriteOperand, IInv, Word
<1>2. ASSUME NEW k \in DOMAIN Table, Blend(k) PROVE IInv'
  <2>1. Table[k].match \in Word
    <3>1. Table[k] \in Entry
      BY <1>2, TableAssumption
    <3> QED BY <3>1 DEF Entry
  <2> QED BY <1>0, <1>2, <2>1 DEF Blend, IInv, Word
<1>3. CASE UNCHANGED vars
  BY <1>3 DEF vars, IInv
<1> QED BY <1>1, <1>2, <1>3 DEF Next

THEOREM WordsReachTheDecoder == Spec => []IInv
<1> QED BY InitIInv, NextIInv, PTL DEF Spec
-----------------------------------------------------------------------------
(* Every register number indexes the register file, and every immediate is *)
(* a 32-bit word (rv_sim.hpp:93,107).                                      *)
THEOREM OperandsFit == Spec => []TypeOK
<1>1. IInv => TypeOK
  <2> SUFFICES ASSUME IInv PROVE TypeOK
    OBVIOUS
  <2>1. {Rd(raw_insn), Rs1(raw_insn), Rs2(raw_insn), Rs3(raw_insn)} \subseteq SUBSET (0 .. 4)
    BY FieldsAreWords DEF IInv
  <2>2. Imm(Table[Decode(raw_insn)].imm, raw_insn) \in Word
    BY ImmediatesAreWords DEF IInv
  <2> QED BY <2>1, <2>2 DEF TypeOK, IInv
<1> QED BY <1>1, WordsReachTheDecoder, PTL

(* No word matches two entries (decode.cpp:30-34).                         *)
THEOREM EntriesExclude == Spec => []OneEntry
<1>1. IInv => OneEntry
  <2> SUFFICES ASSUME IInv PROVE OneEntry
    OBVIOUS
  <2>1. CASE Candidates(raw_insn) = {}
    BY <2>1, FS_EmptySet DEF OneEntry
  <2>2. CASE Candidates(raw_insn) # {}
    <3>1. PICK k : k \in Candidates(raw_insn)
      BY <2>2
    <3>2. Candidates(raw_insn) = {k}
      BY <3>1, CandidatesAgree DEF IInv
    <3>3. Cardinality({k}) = 1
      BY FS_Singleton
    <3> QED BY <3>2, <3>3 DEF OneEntry
  <2> QED BY <2>1, <2>2
<1> QED BY <1>1, WordsReachTheDecoder, PTL

(* Each bit of a B or J immediate comes from its place, in any word        *)
(* (rv_insn.hpp:98-144).                                                   *)
THEOREM JumpsReadTheirFormat == Spec => []TargetsAreGathered
<1>1. IInv => TargetsAreGathered
  BY ImmBIsGathered, ImmJIsGathered DEF IInv, TargetsAreGathered
<1> QED BY <1>1, WordsReachTheDecoder, PTL

(* No word makes a branch or a jump change the parity of ip, as            *)
(* DecodeAssumption of module Hart asks (rv_insn.hpp:115,144).             *)
LEMMA JumpsKeepParity == \A w \in Word : 0 \notin ImmB(w) /\ 0 \notin ImmJ(w)
<1>1. \A w : 0 \notin Gathered("B", w) /\ 0 \notin Gathered("J", w)
  BY DEF Gathered
<1> QED BY <1>1, ImmBIsGathered, ImmJIsGathered
-----------------------------------------------------------------------------
(* The way of an operand through the word, bit by bit.                     *)

(* The bit of an immediate that gives bit i of the 32-bit number.          *)
Held(imm, i) == IF i > SignBit(imm) THEN SignBit(imm) ELSE i
Spread(imm, w) ==
  {i \in Bit : Held(imm, i) \in ImmBits(imm) /\ ImmPosition(imm, Held(imm, i)) \in w}

LEMMA IIsSpread ==
  ASSUME NEW w \in Word
  PROVE  ImmI(w) = Spread("I", w)
<1>1. SignBit("I") = 11 /\ ImmBits("I") = 0 .. 11 /\ \A i : ImmPosition("I", i) = 20 + i
  BY Zenon DEF SignBit, ImmBits, ImmPosition
<1>2. \A i \in Bit : i \in Spread("I", w) <=> (IF i > 11 THEN 31 ELSE 20 + i) \in w
  BY <1>1 DEF Spread, Held, Bit
<1>3. \A i \in Bit : i \in ImmI(w) <=> (IF i > 11 THEN 31 ELSE 20 + i) \in w
  BY DEF ImmI, SignExtend, Low, Shr, Bit, Word
<1>4. ImmI(w) \subseteq Bit /\ Spread("I", w) \subseteq Bit
  BY DEF ImmI, SignExtend, Low, Bit, Spread
<1> QED BY <1>2, <1>3, <1>4

LEMMA SIsSpread ==
  ASSUME NEW w \in Word
  PROVE  ImmS(w) = Spread("S", w)
<1> DEFINE v == (Shr(w, 7) \intersect Low(5)) \union Shl(Shr(w, 25) \intersect Low(7), 5)
           at(i) == IF i <= 4 THEN 7 + i ELSE 20 + i
<1>1. /\ SignBit("S") = 11 /\ ImmBits("S") = 0 .. 11
      /\ \A i : ImmPosition("S", i) = at(i)
  BY Zenon DEF SignBit, ImmBits, ImmPosition
<1>2. \A i \in Bit : i \in v <=> i \in 0 .. 11 /\ at(i) \in w
  BY DEF Shl, Shr, Low, Bit, Word
<1>3. ImmS(w) = SignExtend(v, 12)
  BY DEF ImmS
<1> HIDE DEF v
<1>4. ASSUME NEW i \in Bit
      PROVE  i \in SignExtend(v, 12) <=> i \in Spread("S", w)
  <2>1. i \in SignExtend(v, 12) <=> at(IF i > 11 THEN 11 ELSE i) \in w
    BY <1>2 DEF SignExtend, Low, Bit
  <2>2. i \in Spread("S", w) <=> at(IF i > 11 THEN 11 ELSE i) \in w
    <3>1. (IF i > 11 THEN 11 ELSE i) \in 0 .. 11
      BY DEF Bit
    <3> QED BY <1>1, <3>1 DEF Spread, Held
  <2> QED BY <2>1, <2>2
<1>5. SignExtend(v, 12) \subseteq Bit /\ Spread("S", w) \subseteq Bit
  BY DEF SignExtend, Low, Bit, Spread
<1> QED BY <1>3, <1>4, <1>5

LEMMA JumpsAreSpread ==
  ASSUME NEW w \in Word
  PROVE  ImmB(w) = Spread("B", w) /\ ImmJ(w) = Spread("J", w)
<1>1. SignBit("B") = 12 /\ ImmBits("B") = 1 .. 12 /\ SignBit("J") = 20 /\ ImmBits("J") = 1 .. 20
  BY Zenon DEF SignBit, ImmBits
<1>2. ASSUME NEW i \in Bit
      PROVE  /\ i >= 1 <=> Held("B", i) \in ImmBits("B")
             /\ i >= 1 <=> Held("J", i) \in ImmBits("J")
  BY <1>1 DEF Held, Bit
<1>3. Gathered("B", w) = Spread("B", w) /\ Gathered("J", w) = Spread("J", w)
  BY <1>2 DEF Gathered, Spread, Held
<1> QED BY <1>3, ImmBIsGathered, ImmJIsGathered

LEMMA OthersAreSpread ==
  ASSUME NEW w \in Word
  PROVE  ImmU(w) = Spread("U", w) /\ ImmCSR(w) = Spread("csr", w) /\ Shamt(w) = Spread("shamt", w)
<1>1. /\ SignBit("U") = 31 /\ SignBit("csr") = 31 /\ SignBit("shamt") = 31
      /\ ImmBits("U") = 12 .. 31 /\ ImmBits("csr") = 0 .. 11 /\ ImmBits("shamt") = 0 .. 4
  BY Zenon DEF SignBit, ImmBits
<1>2. \A i : /\ ImmPosition("U", i) = i
             /\ ImmPosition("csr", i) = 20 + i /\ ImmPosition("shamt", i) = 20 + i
  BY Zenon DEF ImmPosition
<1>3. \A i \in Bit : Held("U", i) = i /\ Held("csr", i) = i /\ Held("shamt", i) = i
  BY <1>1 DEF Held, Bit
<1>4. ImmU(w) = Spread("U", w)
  BY <1>1, <1>2, <1>3 DEF ImmU, Spread, Bit, Word
<1>5. ImmCSR(w) = Spread("csr", w)
  BY <1>1, <1>2, <1>3 DEF ImmCSR, Shr, Spread, Bit, Word
<1>6. Shamt(w) = Spread("shamt", w)
  BY <1>1, <1>2, <1>3 DEF Shamt, Shr, Low, Spread, Bit, Word
<1> QED BY <1>4, <1>5, <1>6

LEMMA ImmediatesAreSpread ==
  ASSUME NEW w \in Word, NEW imm \in ImmNames \ {"none"}
  PROVE  /\ Imm(imm, w) = Spread(imm, w)
         /\ \A i \in Bit : Held(imm, i) \in Bit
         /\ ImmBits(imm) \subseteq Bit
<1>1. /\ imm = "I" => Imm(imm, w) = ImmI(w)
      /\ imm = "S" => Imm(imm, w) = ImmS(w)
      /\ imm = "B" => Imm(imm, w) = ImmB(w)
      /\ imm = "U" => Imm(imm, w) = ImmU(w)
      /\ imm = "J" => Imm(imm, w) = ImmJ(w)
      /\ imm = "csr" => Imm(imm, w) = ImmCSR(w)
      /\ imm = "shamt" => Imm(imm, w) = Shamt(w)
  BY Zenon DEF Imm
<1>2. Imm(imm, w) = Spread(imm, w)
  BY <1>1, IIsSpread, SIsSpread, JumpsAreSpread, OthersAreSpread DEF ImmNames
<1>3. SignBit(imm) \in {11, 12, 20, 31}
  BY DEF SignBit, ImmNames
<1>4. ImmBits(imm) \in {0 .. 11, 1 .. 12, 12 .. 31, 1 .. 20, 0 .. 4}
  BY DEF ImmBits, ImmNames
<1>5. \A i \in Bit : Held(imm, i) \in Bit
  BY <1>3 DEF Held, Bit
<1> QED BY <1>2, <1>4, <1>5 DEF Bit

(* The word of an instruction: the bits of its entry, and each operand bit *)
(* that is 1 in its place.                                                 *)
Assembled ==
  LET e == Table[row]
  IN  /\ bits \subseteq Operands(e)
      /\ raw_insn = e.match \union {Position(e, o[1], o[2]) : o \in bits}
AInv == IInv /\ (row # 0 => Assembled)

LEMMA AlwaysAssembled == Spec => []AInv
<1>1. Init => AInv
  <2> SUFFICES ASSUME Init PROVE Assembled
    BY InitIInv DEF AInv
  <2> QED BY DEF Init, Assembled
<1>2. AInv /\ [Next]_vars => AInv'
  <2> SUFFICES ASSUME AInv, [Next]_vars, row' # 0 PROVE Assembled'
    BY NextIInv DEF AInv
  <2>1. ASSUME NEW f \in {"rd", "rs1", "rs2", "rs3", "rm", "imm"}, NEW i \in Bit,
               WriteOperand(f, i)
        PROVE  Assembled'
    <3> DEFINE e == Table[row]
               o == <<f, i>>
    <3>1. /\ row' = row /\ row # 0 /\ bits' = bits \union {o}
          /\ raw_insn' = raw_insn \union {Position(e, f, i)}
          /\ f \in Uses(e) /\ i \in OperandBits(e, f)
      BY <2>1 DEF WriteOperand
    <3>2. o \in Operands(e) /\ o[1] = f /\ o[2] = i
      BY <3>1 DEF Operands
    <3>3. bits \subseteq Operands(e)
          /\ raw_insn = e.match \union {Position(e, p[1], p[2]) : p \in bits}
      BY <3>1 DEF AInv, Assembled
    <3> HIDE DEF e, o
    <3>4. {Position(e, p[1], p[2]) : p \in bits \union {o}}
            = {Position(e, p[1], p[2]) : p \in bits} \union {Position(e, f, i)}
      BY <3>2
    <3>5. bits' \subseteq Operands(e)
          /\ raw_insn' = e.match \union {Position(e, p[1], p[2]) : p \in bits'}
      BY <3>1, <3>2, <3>3, <3>4
    <3> QED BY <3>1, <3>5 DEF Assembled, e
  <2>2. ASSUME NEW k \in DOMAIN Table, Blend(k) PROVE FALSE
    BY <2>2 DEF Blend
  <2>3. CASE UNCHANGED vars
    BY <2>3 DEF AInv, Assembled, vars
  <2> QED BY <2>1, <2>2, <2>3 DEF Next
<1> QED BY <1>1, <1>2, PTL DEF Spec

(* A place in the word is 1 if the operand bit that it is for is.          *)
LEMMA PlacesHoldBits ==
  ASSUME AInv, row # 0, NEW o \in Operands(Table[row])
  PROVE  Position(Table[row], o[1], o[2]) \in raw_insn <=> o \in bits
<1> DEFINE e == Table[row]
           Place(p) == Position(e, p[1], p[2])
<1>1. row \in DOMAIN Table
  BY TableAssumption DEF AInv, IInv
<1>2. /\ e.match \subseteq e.mask
      /\ \A p \in Operands(e) : Place(p) \notin e.mask
      /\ \A p, q \in Operands(e) : p # q => Place(p) # Place(q)
  BY <1>1, FormatAssumption
<1>3. bits \subseteq Operands(e) /\ raw_insn = e.match \union {Place(p) : p \in bits}
  BY DEF AInv, Assembled
<1> HIDE DEF Place, e
<1>4. Place(o) \in raw_insn <=> o \in bits
  BY <1>2, <1>3 DEF e
<1> QED BY <1>4 DEF Place, e

(* A register number or an immediate, however many of its bits are 1,      *)
(* reaches the callback as the programmer wrote it, for every row of any   *)
(* table whose formats keep operands apart (decode.cpp:29-37,              *)
(* rv_insn.hpp:36-144).                                                    *)
THEOREM OperandsReachCallbacks == Spec => []OperandsArrive
<1>1. AInv => OperandsArrive
  <2> SUFFICES ASSUME AInv, row # 0
               PROVE  /\ Decode(raw_insn) = row
                      /\ \A f \in Uses(Table[row]) :
                           Operand(f, Table[row], raw_insn) = Written(Table[row], f)
    BY DEF OperandsArrive
  <2> DEFINE e == Table[row]
             w == raw_insn
  <2>0. /\ row \in DOMAIN Table /\ e \in Entry /\ w \in Word
    BY TableAssumption DEF AInv, IInv
  <2>1. Decode(w) = row
    <3>1. bits \subseteq Operands(e)
          /\ w = e.match \union {Position(e, p[1], p[2]) : p \in bits}
      BY DEF AInv, Assembled
    <3>2. e.match \subseteq e.mask /\ \A p \in Operands(e) : Position(e, p[1], p[2]) \notin e.mask
      BY <2>0, FormatAssumption
    <3>3. Matches(w, e)
      BY <3>1, <3>2 DEF Matches
    <3> QED BY <2>0, <3>3, SearchOrderIsIrrelevant
  <2>2. ASSUME NEW f \in Uses(e), f # "imm"
        PROVE  Operand(f, e, w) = Written(e, f)
    <3>0. f \in {"rd", "rs1", "rs2", "rs3", "rm"}
      BY <2>2 DEF Uses
    <3>1. OperandBits(e, f) = IF f = "rm" THEN 0 .. 2 ELSE 0 .. 4
      BY <2>2, Zenon DEF OperandBits
    <3>2. \A i \in OperandBits(e, f) : <<f, i>> \in Operands(e)
      BY <3>0, <3>1 DEF Operands, Bit
    <3>3. \A i \in OperandBits(e, f) : Position(e, f, i) \in w <=> <<f, i>> \in bits
      <4> SUFFICES ASSUME NEW i \in OperandBits(e, f)
                   PROVE  Position(e, f, i) \in w <=> <<f, i>> \in bits
        OBVIOUS
      <4> DEFINE o == <<f, i>>
      <4>1. o \in Operands(e) /\ o[1] = f /\ o[2] = i
        BY <3>2
      <4> HIDE DEF o
      <4>2. Position(e, o[1], o[2]) \in w <=> o \in bits
        BY <4>1, PlacesHoldBits
      <4> QED BY <4>1, <4>2 DEF o
    <3>4. Written(e, f) = {i \in OperandBits(e, f) : <<f, i>> \in bits}
      <4>1. Written(e, f) = {i \in Bit : <<f, i>> \in bits}
        BY <2>2 DEF Written
      <4>2. \A i \in Bit : <<f, i>> \in bits => i \in OperandBits(e, f)
        BY DEF AInv, Assembled, Operands
      <4>3. OperandBits(e, f) \subseteq Bit
        BY <3>1 DEF Bit
      <4> QED BY <4>1, <4>2, <4>3
    <3>5. Operand(f, e, w) = {i \in OperandBits(e, f) : Position(e, f, i) \in w}
      <4>1. CASE f = "rd"
        <5>1. Operand(f, e, w) = Rd(w) /\ \A i : Position(e, f, i) = 7 + i
          BY <4>1, Zenon DEF Operand, Position
        <5> QED BY <3>1, <4>1, <5>1 DEF Rd, Shr, Low, Bit
      <4>2. CASE f = "rs1"
        <5>1. Operand(f, e, w) = Rs1(w) /\ \A i : Position(e, f, i) = 15 + i
          BY <4>2, Zenon DEF Operand, Position
        <5> QED BY <3>1, <4>2, <5>1 DEF Rs1, Shr, Low, Bit
      <4>3. CASE f = "rs2"
        <5>1. Operand(f, e, w) = Rs2(w) /\ \A i : Position(e, f, i) = 20 + i
          BY <4>3, Zenon DEF Operand, Position
        <5> QED BY <3>1, <4>3, <5>1 DEF Rs2, Shr, Low, Bit
      <4>4. CASE f = "rs3"
        <5>1. Operand(f, e, w) = Rs3(w) /\ \A i : Position(e, f, i) = 27 + i
          BY <4>4, Zenon DEF Operand, Position
        <5> QED BY <3>1, <4>4, <5>1 DEF Rs3, Shr, Low, Bit
      <4>5. CASE f = "rm"
        <5>1. Operand(f, e, w) = Rm(w) /\ \A i : Position(e, f, i) = 12 + i
          BY <4>5, Zenon DEF Operand, Position
        <5> QED BY <3>1, <4>5, <5>1 DEF Rm, Shr, Low, Bit
      <4> QED BY <3>0, <4>1, <4>2, <4>3, <4>4, <4>5
    <3> QED BY <3>3, <3>4, <3>5
  <2>3. ASSUME "imm" \in Uses(e)
        PROVE  Operand("imm", e, w) = Written(e, "imm")
    <3> DEFINE imm == e.imm
    <3>0. imm \in ImmNames \ {"none"}
      BY <2>0, <2>3 DEF Uses, Entry
    <3>1. /\ Operand("imm", e, w) = Imm(imm, w) /\ OperandBits(e, "imm") = ImmBits(imm)
          /\ \A i : Position(e, "imm", i) = ImmPosition(imm, i)
      BY Zenon DEF Operand, OperandBits, Position
    <3>2. Imm(imm, w) = Spread(imm, w) /\ ImmBits(imm) \subseteq Bit
      BY <2>0, <3>0, ImmediatesAreSpread
    <3>3. \A i \in ImmBits(imm) : ImmPosition(imm, i) \in w <=> <<"imm", i>> \in bits
      <4> SUFFICES ASSUME NEW i \in ImmBits(imm)
                   PROVE  ImmPosition(imm, i) \in w <=> <<"imm", i>> \in bits
        OBVIOUS
      <4> DEFINE o == <<"imm", i>>
      <4>1. o \in Operands(e) /\ o[1] = "imm" /\ o[2] = i
        BY <2>3, <3>1, <3>2 DEF Operands
      <4> HIDE DEF o
      <4>2. Position(e, o[1], o[2]) \in w <=> o \in bits
        BY <4>1, PlacesHoldBits
      <4> QED BY <3>1, <4>1, <4>2 DEF o
    <3>4. \A i : <<"imm", i>> \in bits => i \in ImmBits(imm)
      BY <3>1 DEF AInv, Assembled, Operands
    <3>5. Written(e, "imm") = {i \in Bit : <<"imm", Held(imm, i)>> \in bits}
      BY DEF Written, Held
    <3> HIDE DEF imm
    <3>6. Spread(imm, w) = {i \in Bit : <<"imm", Held(imm, i)>> \in bits}
      BY <3>3, <3>4 DEF Spread
    <3> QED BY <3>1, <3>2, <3>5, <3>6
  <2> QED BY <2>1, <2>2, <2>3
<1> QED BY <1>1, AlwaysAssembled, PTL
=============================================================================
