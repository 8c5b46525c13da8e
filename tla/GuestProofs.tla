---------------------------- MODULE GuestProofs -----------------------------
(***************************************************************************)
(* Proofs about guests that the simulator runs, in both builds, for every  *)
(* width of addresses, number of registers, host and input: the one of     *)
(* MCEcho loses no byte (NothingLost), to the one of MCOrder the float     *)
(* instructions show one order (FloatsAreOrdered), and the one of          *)
(* MCRounding rounds in the mode that it stored (DynamicModeRounds).       *)
(***************************************************************************)
EXTENDS MCEcho, MCOrder, MCRounding, RVSimProofs

-----------------------------------------------------------------------------
(* Guests in memory, of any width.                                         *)

LEMMA SmallWords ==
  /\ AddrMod \in Nat /\ AddrMod >= 256
  /\ \A z \in 0 .. 255 : z \in Address /\ z \in Register /\ Trunc(z) = z
<1>1. AddrMod \in Nat /\ AddrMod >= 256
  BY Sizes, RVSimAssumption
<1> QED BY <1>1, TruncOfAddress DEF Address, Register

(* Half of the words are negative numbers.                                 *)
LEMMA HalfWords == Half \in Nat \ {0} /\ AddrMod = 2 * Half
<1> DEFINE cube == ByteMod * (ByteMod * ByteMod)
           h == ByteMod \div 2
<1>1. ByteMod \in Nat /\ ByteMod % 2 = 0 /\ cube \in Nat
  BY Sizes, RVSimAssumption
<1>2. h \in Nat /\ ByteMod = 2 * h
  BY <1>1
<1>3. AddrMod = (2 * h) * cube
  BY <1>2, FourByteAssumption
<1> HIDE DEF cube, h
<1>4. h * cube \in Nat /\ AddrMod = 2 * (h * cube)
  BY <1>1, <1>2, <1>3
<1> DEFINE n == h * cube
<1> HIDE DEF n
<1>5. n \in Nat /\ AddrMod = 2 * n
  BY <1>4 DEF n
<1> QED BY <1>5, SmallWords DEF Half

(* A text segment holds its words.                                         *)
HoldsWords(segm, start, words) ==
  /\ Len(words) \in Nat
  /\ segm.start = start /\ segm.end = start + 4 * Len(words)
  /\ Size(segm) = 4 * Len(words)
  /\ \A n \in 1 .. Len(words) : \A i \in 0 .. 3 :
       ByteOf(segm, 4 * (n - 1) + i) = LowBytes(words[n], 4)[i]

LEMMA TextHoldsWords ==
  ASSUME NEW start \in Nat, NEW words \in Seq(Register)
  PROVE  HoldsWords(Text(start, words), start, words)
<1> DEFINE size == 4 * Len(words)
           byte(p) == LowBytes(words[((p - 1) \div 4) + 1], 4)[(p - 1) % 4]
           data == [p \in 1 .. size |-> byte(p)]
           segm == Text(start, words)
<1>1. Len(words) \in Nat /\ size \in Nat
  OBVIOUS
<1>2. segm = [start |-> start, end |-> start + size, data |-> data]
  BY DEF Text
<1> HIDE DEF segm, byte, size
<1>3. Len(data) = size
  <2>1. data \in [1 .. size -> {byte(p) : p \in 1 .. size}]
    OBVIOUS
  <2> HIDE DEF data
  <2> QED BY <1>1, <2>1
<1>4. Size(segm) = size
  <2> HIDE DEF data
  <2> QED BY <1>2, <1>3 DEF Size
<1>5. ASSUME NEW n \in 1 .. Len(words), NEW i \in 0 .. 3
      PROVE  ByteOf(segm, 4 * (n - 1) + i) = LowBytes(words[n], 4)[i]
  <2> DEFINE p == 4 * (n - 1) + i + 1
  <2>1. p \in 1 .. size /\ ((p - 1) \div 4) + 1 = n /\ (p - 1) % 4 = i
    BY <1>1 DEF size
  <2> HIDE DEF p
  <2>2. data[p] = LowBytes(words[n], 4)[i]
    BY <2>1 DEF byte
  <2> QED BY <1>2, <2>2 DEF ByteOf, p
<1> QED BY <1>1, <1>2, <1>4, <1>5 DEF size, segm, HoldsWords

(* A load of one of the words of a text segment, wherever it is.           *)
LEMMA WordIsThere ==
  ASSUME NEW mem \in Seq(Segment), NEW k \in DOMAIN mem,
         NEW start \in Nat, NEW words \in Seq(Register), mem[k] = Text(start, words),
         NEW n \in 1 .. Len(words), Hits(mem, k, start + 4 * (n - 1))
  PROVE  LET x == start + 4 * (n - 1)
         IN  /\ Fits(mem, x, 4)
             /\ \A b \in LoadReplies(mem, x, 4) : Value(b, 4) = words[n]
<1> DEFINE x == start + 4 * (n - 1)
           segm == mem[k]
<1>1. /\ Len(words) \in Nat /\ segm.start = start /\ Size(segm) = 4 * Len(words)
      /\ \A i \in 0 .. 3 : ByteOf(segm, 4 * (n - 1) + i) = LowBytes(words[n], 4)[i]
  <2>1. HoldsWords(segm, start, words)
    BY TextHoldsWords
  <2> QED BY <2>1 DEF HoldsWords
<1>2. x \in Nat /\ x - segm.start = 4 * (n - 1) /\ 4 * (n - 1) + 4 <= Size(segm)
      /\ 4 * (n - 1) \in Nat /\ Size(segm) \in Nat
  <2>1. n \in Nat /\ 1 <= n /\ n <= Len(words)
    BY <1>1
  <2> HIDE DEF segm
  <2>2. x \in Nat /\ x - start = 4 * (n - 1) /\ 4 * (n - 1) + 4 <= 4 * Len(words)
    BY <1>1, <2>1
  <2> QED BY <1>1, <2>1, <2>2
<1>3. Hits(mem, k, x) /\ SegmentOf(mem, x) = k /\ ~ Unmatched(mem, x)
  BY HitIsUnique
<1> HIDE DEF x, segm
<1>4. Fits(mem, x, 4)
  BY <1>2, <1>3 DEF Fits, FitsIn, segm
<1>5. ASSUME NEW b \in LoadReplies(mem, x, 4) PROVE Value(b, 4) = words[n]
  <2> DEFINE offset == 4 * (n - 1)
             inside == {i \in 0 .. 3 : offset + i < Size(segm)}
  <2>1. PICK past \in [(0 .. 3) \ inside -> Byte] :
          b = [i \in 0 .. 3 |-> IF i \in inside THEN ByteOf(segm, offset + i) ELSE past[i]]
    <3> DEFINE found == SegmentOf(mem, x)
               at == x - mem[found].start
               within == {i \in 0 .. 4 - 1 : at + i < Size(mem[found])}
    <3>1. PICK past \in [(0 .. 4 - 1) \ within -> Byte] :
            b = [i \in 0 .. 4 - 1 |->
                   IF i \in within THEN ByteOf(mem[found], at + i) ELSE past[i]]
      BY <1>3, <1>5 DEF LoadReplies
    <3>2. mem[found] = segm
      BY <1>3 DEF segm
    <3> HIDE DEF found
    <3>3. at = offset /\ 4 - 1 = 3
      BY <1>2, <3>2
    <3> HIDE DEF at, offset
    <3>4. within = inside
      BY <3>2, <3>3
    <3> HIDE DEF within, inside
    <3>5. past \in [(0 .. 3) \ inside -> Byte]
      BY <3>1, <3>3, <3>4
    <3>6. b = [i \in 0 .. 3 |-> IF i \in inside THEN ByteOf(segm, offset + i) ELSE past[i]]
      BY <3>1, <3>2, <3>3, <3>4
    <3> QED BY <3>5, <3>6
  <2>2. ASSUME NEW i \in 0 .. 3 PROVE i \in inside
    <3>1. offset + i < Size(segm)
      BY <1>2
    <3> QED BY <3>1
  <2> HIDE DEF inside
  <2>3. \A i \in 0 .. 3 : b[i] = ByteOf(segm, offset + i)
    BY <2>1, <2>2
  <2>4. \A i \in 0 .. 3 : b[i] = LowBytes(words[n], 4)[i]
    BY <1>1, <2>3
  <2>5. words[n] \in Register
    OBVIOUS
  <2> QED BY <2>4, <2>5, ValueOfLowBytes
<1> QED BY <1>4, <1>5 DEF x

(* The words of a guest, if they are few, are in registers of any width.   *)
LEMMA WordsFit ==
  ASSUME NEW at \in Nat, NEW code, Len(code) \in Nat, at + Len(code) < 256
  PROVE  LET words == WordsAfter(at, code)
         IN  /\ words \in Seq(Register) /\ Len(words) = Len(code)
             /\ \A k \in 1 .. Len(code) : words[k] = at + k
<1> DEFINE words == WordsAfter(at, code)
<1>1. words = [n \in 1 .. Len(code) |-> at + n]
  BY DEF WordsAfter
<1>2. ASSUME NEW n \in 1 .. Len(code) PROVE at + n \in Register
  <2>1. at + n \in 0 .. 255
    OBVIOUS
  <2> QED BY <2>1, SmallWords
<1>3. words \in [1 .. Len(code) -> Register]
  BY <1>1, <1>2
<1>4. \A k \in 1 .. Len(code) : words[k] = at + k
  BY <1>1
<1>5. DOMAIN words = 1 .. Len(code)
  BY <1>1
<1> HIDE DEF words
<1>6. words \in Seq(Register) /\ Len(words) = Len(code)
  BY <1>3, <1>5
<1> QED BY <1>4, <1>6 DEF words

(* The instruction at ip, if the words of code begin at 0.                 *)
LEMMA FetchFinds ==
  ASSUME NEW at \in Nat, NEW code, Len(code) \in Nat, at + Len(code) < 256, Len(code) < 32,
         memory \in Seq(Segment), 1 \in DOMAIN memory,
         memory[1] = Text(0, WordsAfter(at, code)),
         NEW k \in 1 .. Len(code), ip = 4 * (k - 1), Iterate
  PROVE  Callback(Decode(at + k)) /\ NextIp = 4 * k
<1> DEFINE words == WordsAfter(at, code)
<1>1. words \in Seq(Register) /\ Len(words) = Len(code) /\ words[k] = at + k
  BY WordsFit
<1> HIDE DEF words
<1>2. memory[1] = Text(0, words)
  BY DEF words
<1>3. memory[1].start = 0 /\ memory[1].end = 0 + 4 * Len(words)
  <2>1. HoldsWords(Text(0, words), 0, words)
    BY <1>1, TextHoldsWords
  <2> QED BY <1>2, <2>1 DEF HoldsWords
<1>4. IsAddrInSegment(ip, memory[1])
  BY <1>1, <1>3 DEF IsAddrInSegment
<1>5. Hits(memory, 1, ip)
  BY <1>4 DEF Hits
<1>6. ip = 0 + 4 * (k - 1)
  OBVIOUS
<1>7. Fits(memory, ip, 4) /\ \A b \in LoadReplies(memory, ip, 4) : Value(b, 4) = at + k
  BY <1>1, <1>2, <1>5, <1>6, WordIsThere
<1>8. Callback(Decode(at + k))
  BY <1>7 DEF Iterate, StepSize, Faults
<1>9. NextIp = 4 * k
  <2>1. ip + 4 = 4 * k /\ 4 * k \in 0 .. 255
    OBVIOUS
  <2> QED BY <2>1, SmallWords DEF NextIp, StepSize
<1> QED BY <1>8, <1>9
-----------------------------------------------------------------------------
(* What an instruction does is what its kind says.                         *)
LEMMA KindDecides ==
  ASSUME NEW i, Callback(i)
  PROVE  /\ i.kind \in {"RRR", "RRI"} => Compute(i)
         /\ i.kind = "JAL" => JAL(i)
         /\ i.kind = "BRANCH" => Branch(i)
         /\ i.kind = "ECALL" => EcallExit(i) \/ EcallRead(i) \/ EcallWrite(i) \/ EcallUnknown(i)
         /\ i.kind = "FLW" => FLoad(i)
         /\ i.kind = "FCLASS" => FClass(i)
         /\ i.kind = "FCMP" => FCompare(i)
         /\ i.kind = "FMINMAX" => FMinMax(i)
         /\ i.kind = "FSGN" => FSignInject(i)
         /\ i.kind = "FARITH" => FArith(i)
         /\ i.kind = "FCVT_TO_X" => FToInteger(i)
         /\ i.kind = "FCVT_TO_F" => FToFloat(i)
         /\ i.kind = "CSR" => Csr(i)
<1>1. LUI(i) \/ AUIPC(i) \/ JALR(i) \/ Load(i) \/ Store(i) \/ NoOperation(i) \/ Terminate(i)
        => i.kind \in {"LUI", "AUIPC", "JALR", "LOAD", "STORE", "FENCE", "EBREAK", "INVALID"}
  BY DEF LUI, AUIPC, JALR, Load, Store, NoOperation, Terminate
<1>2. FStore(i) \/ FMoveToX(i) \/ FMoveToF(i) => i.kind \in {"FSW", "FMV_X_W", "FMV_W_X"}
  BY DEF FStore, FMoveToX, FMoveToF
<1>3. /\ FLoad(i) => i.kind = "FLW"
      /\ FClass(i) => i.kind = "FCLASS"
      /\ FCompare(i) => i.kind = "FCMP"
      /\ FMinMax(i) => i.kind = "FMINMAX"
      /\ FSignInject(i) => i.kind = "FSGN"
      /\ FArith(i) => i.kind = "FARITH"
      /\ FToInteger(i) => i.kind = "FCVT_TO_X"
      /\ FToFloat(i) => i.kind = "FCVT_TO_F"
      /\ Csr(i) => i.kind = "CSR"
  BY DEF FLoad, FClass, FCompare, FMinMax, FSignInject, FArith, FToInteger, FToFloat, Csr
<1>4. /\ Compute(i) => i.kind \in {"RRR", "RRI"}
      /\ JAL(i) => i.kind = "JAL"
      /\ Branch(i) => i.kind = "BRANCH"
      /\ EcallExit(i) \/ EcallRead(i) \/ EcallWrite(i) \/ EcallUnknown(i) => i.kind = "ECALL"
  BY DEF Compute, JAL, Branch, EcallExit, EcallRead, EcallWrite, EcallUnknown, Ecall
<1> QED BY <1>1, <1>2, <1>3, <1>4 DEF Callback
-----------------------------------------------------------------------------
(* A guest that copies (module MCEcho).                                    *)

(* Its text stays what it was, and its buffer where it was.                *)
EchoMemory(mem) == SameLayout(EchoImage, mem) /\ mem[1] = EchoImage[1]

(* Of some input, the host has got all but the n bytes of the guest's      *)
(* buffer from addr on, and what it still has to give.                     *)
InBuffer(addr, n) == addr \in Nat /\ n \in Nat /\ addr >= Buffer /\ addr + n <= Buffer + BufferSize
Buffered(mem, addr, n) == [j \in 1 .. n |-> ByteAt(mem, addr + (j - 1))]
InFlight(addr, n) ==
  /\ InBuffer(addr, n)
  /\ \E all \in Inputs : all = (output \o Buffered(memory, addr, n)) \o input

Failed == xregs[a0] = AddrMod - 1   \* the result -1
Kept == \E addr, n \in Nat : InFlight(addr, n)
Done ==
  \/ Failed /\ Kept
  \/ xregs[a0] = 0 /\ input = << >> /\ InFlight(Buffer, 0)

(* What is true before instruction k of the program.                       *)
Reading(k) ==
  /\ InFlight(Buffer, 0)
  /\ k >= 2 => xregs[a7] = kRead
  /\ k >= 4 => xregs[a1] = Buffer
  /\ k >= 5 => xregs[a2] = BufferSize
ReadDone ==
  /\ xregs[a1] = Buffer
  /\ \/ Failed /\ Kept
     \/ InFlight(Buffer, xregs[a0]) /\ (xregs[a0] = 0 => input = << >>)
Writing == xregs[a7] = kWrite /\ xregs[a2] >= 1 /\ InFlight(xregs[a1], xregs[a2])
Written ==
  /\ xregs[a7] = kWrite
  /\ xregs[a0] \in 1 .. xregs[a2] /\ xregs[a2] <= BufferSize
  /\ InFlight(xregs[a1] + xregs[a0], xregs[a2] - xregs[a0])

EchoAssertion(k) ==
  /\ k \in 1 .. 5 => Reading(k)
  /\ k = 6 => ReadDone
  /\ k = 7 => xregs[a0] >= 1 /\ xregs[a1] = Buffer /\ InFlight(Buffer, xregs[a0])
  /\ k = 8 => xregs[a2] >= 1 /\ InFlight(xregs[a1], xregs[a2])
  /\ k \in {9, 10} => Writing
  /\ k = 11 => (Failed /\ Kept) \/ Written
  /\ k = 12 => Written
  /\ k = 13 => xregs[a7] = kWrite /\ xregs[a0] \in 1 .. xregs[a2] /\ InFlight(xregs[a1], xregs[a2] - xregs[a0])
  /\ k = 14 => xregs[a7] = kWrite /\ InFlight(xregs[a1], xregs[a2])
  /\ k = 15 => InFlight(Buffer, 0)
  /\ k \in {17, 18} => Done
  /\ k = 18 => xregs[a7] = kExit

EchoInv ==
  /\ EchoMemory(memory)
  /\ \/ /\ status = "running" /\ ~ should_stop
        /\ \E k \in 1 .. 18 : ip = 4 * (k - 1) /\ k # 16 /\ EchoAssertion(k)
     \/ status \in {"running", "returned"} /\ should_stop /\ Done
-----------------------------------------------------------------------------
LEMMA TruncWraps ==
  ASSUME NEW z \in Int, NEW q \in Int, NEW r \in Address, z = AddrMod * q + r
  PROVE  Trunc(z) = r
<1>1. r \in Nat /\ r < AddrMod /\ AddrMod \in Nat \ {0}
  BY SmallWords DEF Address
<1> QED BY <1>1, DivIsUnique DEF Trunc

(* The guest's jumps backwards.                                            *)
LEMMA JumpsBack ==
  /\ Trunc(52 + Trunc(-20)) = 32
  /\ Trunc(56 + Trunc(-56)) = 0
<1>1. /\ -20 = AddrMod * (-1) + (AddrMod - 20) /\ AddrMod - 20 \in Address
      /\ -56 = AddrMod * (-1) + (AddrMod - 56) /\ AddrMod - 56 \in Address
  BY SmallWords DEF Address
<1>2. Trunc(-20) = AddrMod - 20
  BY <1>1, TruncWraps
<1>3. Trunc(-56) = AddrMod - 56
  BY <1>1, TruncWraps
<1>4. /\ 52 + (AddrMod - 20) = AddrMod * 1 + 32 /\ 52 + (AddrMod - 20) \in Int /\ 32 \in Address
      /\ 56 + (AddrMod - 56) = AddrMod * 1 + 0 /\ 56 + (AddrMod - 56) \in Int /\ 0 \in Address
  BY SmallWords
<1>5. Trunc(52 + (AddrMod - 20)) = 32
  BY <1>4, TruncWraps
<1>6. Trunc(56 + (AddrMod - 56)) = 0
  BY <1>4, TruncWraps
<1> QED BY <1>2, <1>3, <1>5, <1>6

-----------------------------------------------------------------------------
(* Where the guest's memory is, and what is fetched from it.               *)

LEMMA ProgramLength == Len(EchoProgram) = 18 /\ DOMAIN EchoProgram = 1 .. 18
BY DEF EchoProgram

LEMMA TextOfEcho ==
  EchoImage[1].start = 0 /\ EchoImage[1].end = 72 /\ Size(EchoImage[1]) = 72
<1> DEFINE words == WordsAfter(EchoAt, EchoProgram)
<1>1. words \in Seq(Register) /\ Len(words) = 18
  <2>1. EchoAt \in Nat /\ Len(EchoProgram) \in Nat /\ EchoAt + Len(EchoProgram) < 256
    BY ProgramLength DEF EchoAt
  <2> QED BY <2>1, ProgramLength, WordsFit
<1>2. EchoImage[1] = Text(0, words)
  BY DEF EchoImage
<1> HIDE DEF words
<1>3. HoldsWords(Text(0, words), 0, words)
  BY <1>1, TextHoldsWords
<1> QED BY <1>1, <1>2, <1>3 DEF HoldsWords

LEMMA EchoPlaces ==
  ASSUME NEW mem, EchoMemory(mem)
  PROVE  /\ mem \in Seq(Segment) /\ DOMAIN mem = 1 .. 3
         /\ mem[1].start = 0 /\ mem[1].end = 72 /\ Size(mem[1]) = 72
         /\ mem[2].start = 80 /\ mem[2].end = 81 /\ Size(mem[2]) = 1
         /\ mem[3].start = 81 /\ mem[3].end = 83 /\ Size(mem[3]) = 2
<1>1. DOMAIN EchoImage = 1 .. 3
  BY DEF EchoImage
<1>2. /\ EchoImage[2] = [start |-> 80, end |-> 81, data |-> [p \in 1 .. 1 |-> 0]]
      /\ EchoImage[3] = [start |-> 81, end |-> 83, data |-> [p \in 1 .. 2 |-> 0]]
  BY DEF EchoImage, Data, Buffer
<1>3. Len([p \in 1 .. 1 |-> 0]) = 1 /\ Len([p \in 1 .. 2 |-> 0]) = 2
  OBVIOUS
<1>4. Size(EchoImage[2]) = 1 /\ Size(EchoImage[3]) = 2
  BY <1>2, <1>3 DEF Size
<1>5. mem \in Seq(Segment) /\ DOMAIN mem = 1 .. 3
  BY <1>1 DEF EchoMemory, SameLayout
<1>6. \A k \in 1 .. 3 : /\ mem[k].start = EchoImage[k].start
                        /\ mem[k].end = EchoImage[k].end
                        /\ Size(mem[k]) = Size(EchoImage[k])
  BY <1>1 DEF EchoMemory, SameLayout
<1>7. mem[1].start = 0 /\ mem[1].end = 72 /\ Size(mem[1]) = 72
  BY <1>6, TextOfEcho
<1>8. mem[2].start = 80 /\ mem[2].end = 81 /\ Size(mem[2]) = 1
  <2>1. mem[2].start = EchoImage[2].start /\ mem[2].end = EchoImage[2].end
    BY <1>6
  <2> QED BY <1>2, <1>4, <1>6, <2>1
<1>9. mem[3].start = 81 /\ mem[3].end = 83 /\ Size(mem[3]) = 2
  <2>1. mem[3].start = EchoImage[3].start /\ mem[3].end = EchoImage[3].end
    BY <1>6
  <2> QED BY <1>2, <1>4, <1>6, <2>1
<1> QED BY <1>5, <1>7, <1>8, <1>9

(* The two segments of the buffer have places of their own.                *)
LEMMA EchoHits ==
  ASSUME NEW mem, EchoMemory(mem)
  PROVE  /\ Hits(mem, 2, 80) /\ \A x \in {81, 82} : Hits(mem, 3, x)
         /\ \A x \in 80 .. 82 : Fits(mem, x, 1)
<1>1. /\ mem \in Seq(Segment) /\ DOMAIN mem = 1 .. 3
      /\ mem[1].start = 0 /\ mem[1].end = 72
      /\ mem[2].start = 80 /\ mem[2].end = 81 /\ Size(mem[2]) = 1
      /\ mem[3].start = 81 /\ mem[3].end = 83 /\ Size(mem[3]) = 2
  BY EchoPlaces
<1>2. Hits(mem, 2, 80) /\ \A x \in {81, 82} : Hits(mem, 3, x)
  <2>1. /\ IsAddrInSegment(80, mem[2]) /\ ~ IsAddrInSegment(80, mem[1])
        /\ \A x \in {81, 82} : /\ IsAddrInSegment(x, mem[3])
                               /\ ~ IsAddrInSegment(x, mem[1]) /\ ~ IsAddrInSegment(x, mem[2])
    BY ONLY <1>1 DEF IsAddrInSegment
  <2>2. 1 .. 2 - 1 = {1} /\ 1 .. 3 - 1 = {1, 2}
    OBVIOUS
  <2> QED BY ONLY <2>1, <2>2 DEF Hits
<1>3. Fits(mem, 80, 1)
  BY ONLY <1>1, <1>2 DEF Fits, FitsIn
<1>4. \A x \in {81, 82} : Fits(mem, x, 1)
  BY ONLY <1>1, <1>2 DEF Fits, FitsIn
<1>5. \A x \in 80 .. 82 : Fits(mem, x, 1)
  BY ONLY <1>3, <1>4
<1> QED BY ONLY <1>2, <1>5

LEMMA EchoFetch ==
  ASSUME NEW k \in 1 .. 18, EchoMemory(memory), ip = 4 * (k - 1), Iterate
  PROVE  Callback(EchoProgram[k]) /\ NextIp = 4 * k
<1>1. EchoAt \in Nat /\ Len(EchoProgram) \in Nat /\ EchoAt + Len(EchoProgram) < 256
      /\ Len(EchoProgram) < 32 /\ k \in 1 .. Len(EchoProgram)
  BY ProgramLength DEF EchoAt
<1>2. /\ memory \in Seq(Segment) /\ 1 \in DOMAIN memory
      /\ memory[1] = Text(0, WordsAfter(EchoAt, EchoProgram))
  BY EchoPlaces DEF EchoMemory, EchoImage
<1>3. Callback(Decode(EchoAt + k)) /\ NextIp = 4 * k
  BY <1>1, <1>2, FetchFinds
<1>4. Decode(EchoAt + k) = EchoProgram[k]
  BY EchoAssumption, ProgramLength
<1> QED BY <1>3, <1>4
-----------------------------------------------------------------------------
(* Bytes on their way from the input to the output.                        *)

LEMMA BufferedBytes ==
  ASSUME NEW mem, EchoMemory(mem), NEW addr, NEW n, InBuffer(addr, n)
  PROVE  /\ Buffered(mem, addr, n) \in Seq(Byte)
         /\ Len(Buffered(mem, addr, n)) = n
         /\ \A j \in 1 .. n : Buffered(mem, addr, n)[j] = ByteAt(mem, addr + (j - 1))
<1>1. addr \in Nat /\ n \in Nat /\ addr >= 80 /\ addr + n <= 83
  BY DEF InBuffer, Buffer, BufferSize
<1>2. ASSUME NEW j \in 1 .. n PROVE ByteAt(mem, addr + (j - 1)) \in Byte
  <2>1. addr + (j - 1) \in 80 .. 82 /\ addr + (j - 1) \in 0 .. 255
    BY <1>1
  <2> QED BY <2>1, EchoHits, EchoPlaces, SmallWords, ByteAtIsByte
<1>3. Buffered(mem, addr, n) \in [1 .. n -> Byte]
  BY <1>2 DEF Buffered
<1>4. \A j \in 1 .. n : Buffered(mem, addr, n)[j] = ByteAt(mem, addr + (j - 1))
  BY DEF Buffered
<1> DEFINE part == Buffered(mem, addr, n)
<1> HIDE DEF part
<1> QED BY <1>1, <1>3, <1>4 DEF part

LEMMA BufferedSplits ==
  ASSUME NEW mem, EchoMemory(mem), NEW addr, NEW n, InBuffer(addr, n), NEW w \in 0 .. n
  PROVE  /\ InBuffer(addr, w) /\ InBuffer(addr + w, n - w)
         /\ Buffered(mem, addr, n) = Buffered(mem, addr, w) \o Buffered(mem, addr + w, n - w)
<1>1. addr \in Nat /\ n \in Nat /\ addr >= 80 /\ addr + n <= 83
  BY DEF InBuffer, Buffer, BufferSize
<1>2. InBuffer(addr, w) /\ InBuffer(addr + w, n - w)
  BY <1>1 DEF InBuffer, Buffer, BufferSize
<1> DEFINE whole == Buffered(mem, addr, n)
           first == Buffered(mem, addr, w)
           rest == Buffered(mem, addr + w, n - w)
<1>3. /\ whole \in Seq(Byte) /\ Len(whole) = n
      /\ \A j \in 1 .. n : whole[j] = ByteAt(mem, addr + (j - 1))
  BY BufferedBytes
<1>4. /\ first \in Seq(Byte) /\ Len(first) = w
      /\ \A j \in 1 .. w : first[j] = ByteAt(mem, addr + (j - 1))
  BY <1>2, BufferedBytes
<1>5. /\ rest \in Seq(Byte) /\ Len(rest) = n - w
      /\ \A j \in 1 .. n - w : rest[j] = ByteAt(mem, (addr + w) + (j - 1))
  BY <1>2, BufferedBytes
<1> HIDE DEF whole, first, rest
<1>6. /\ first \o rest \in Seq(Byte) /\ Len(first \o rest) = n
      /\ \A j \in 1 .. n : (first \o rest)[j] = IF j <= w THEN first[j] ELSE rest[j - w]
  <2>1. first \in Seq(Byte) /\ rest \in Seq(Byte) /\ Len(first) = w /\ Len(rest) = n - w
        /\ w + (n - w) = n
    BY <1>1, <1>4, <1>5
  <2>2. /\ first \o rest \in Seq(Byte) /\ Len(first \o rest) = Len(first) + Len(rest)
        /\ \A j \in 1 .. Len(first) + Len(rest) :
             (first \o rest)[j] = IF j <= Len(first) THEN first[j] ELSE rest[j - Len(first)]
    BY ONLY <2>1, ConcatProperties, ZenonT(30)
  <2> QED BY ONLY <2>1, <2>2
<1>7. ASSUME NEW j \in 1 .. n PROVE whole[j] = (first \o rest)[j]
  <2>1. CASE j <= w
    BY <1>1, <1>3, <1>4, <1>6, <2>1
  <2>2. CASE j > w
    <3>1. j - w \in 1 .. n - w /\ (addr + w) + ((j - w) - 1) = addr + (j - 1)
      BY <1>1, <2>2
    <3>2. rest[j - w] = ByteAt(mem, addr + (j - 1))
      BY <1>5, <3>1
    <3>3. ~ (j <= w)
      BY <1>1, <2>2
    <3> QED BY <1>3, <1>6, <3>2, <3>3
  <2>3. j <= w \/ j > w
    BY <1>1
  <2> QED BY <2>1, <2>2, <2>3
<1>8. whole = first \o rest
  BY <1>3, <1>6, <1>7, SeqEqual
<1> QED BY <1>2, <1>8 DEF whole, first, rest

(* Nothing is in flight when nothing is in the buffer.                     *)
LEMMA EmptyFlight ==
  ASSUME NEW a, NEW b, InBuffer(a, 0), InBuffer(b, 0), InFlight(a, 0)
  PROVE  InFlight(b, 0)
<1>1. Buffered(memory, a, 0) = Buffered(memory, b, 0)
  BY DEF Buffered
<1> QED BY <1>1 DEF InFlight

(* What has been written is the beginning of the input.                    *)
LEMMA KeptIsPrefix ==
  ASSUME IInv, EchoMemory(memory), Kept
  PROVE  \E all \in Inputs : \E n \in 0 .. Len(all) : output = SubSeq(all, 1, n)
<1>1. PICK addr, m \in Nat : InFlight(addr, m)
  BY DEF Kept
<1>2. InBuffer(addr, m)
  BY <1>1 DEF InFlight
<1>3. PICK all \in Inputs : all = (output \o Buffered(memory, addr, m)) \o input
  BY <1>1 DEF InFlight
<1> DEFINE held == Buffered(memory, addr, m)
           rest == held \o input
<1>4. output \in Seq(Byte) /\ input \in Seq(Byte) /\ held \in Seq(Byte)
  BY <1>2, BufferedBytes DEF IInv, TypeOK
<1>5. rest \in Seq(Byte) /\ all = output \o rest
  <2>1. all = (output \o held) \o input
    BY <1>3
  <2> HIDE DEF held
  <2> QED BY <1>4, <2>1, ConcatProperties, ConcatAssociative
<1> HIDE DEF rest
<1>6. /\ all \in Seq(Byte) /\ Len(all) = Len(output) + Len(rest)
      /\ \A j \in 1 .. Len(output) : all[j] = output[j]
  BY <1>4, <1>5
<1> DEFINE n == Len(output)
<1>7. n \in 0 .. Len(all) /\ n \in Nat /\ Len(all) \in Nat
  BY <1>4, <1>5, <1>6
<1>8. /\ SubSeq(all, 1, n) \in Seq(Byte) /\ Len(SubSeq(all, 1, n)) = n
      /\ \A j \in 1 .. n : SubSeq(all, 1, n)[j] = all[j]
  <2> HIDE DEF n
  <2> QED BY <1>6, <1>7
<1>9. output = SubSeq(all, 1, n)
  BY <1>4, <1>6, <1>8, SeqEqual
<1> HIDE DEF n
<1> QED BY <1>7, <1>9

(* The end of the input, with nothing left to write.                       *)
LEMMA AllIsWritten ==
  ASSUME IInv, input = << >>, InFlight(Buffer, 0)
  PROVE  output \in Inputs
<1>1. Buffered(memory, Buffer, 0) = << >>
  BY DEF Buffered
<1>2. PICK all \in Inputs : all = (output \o << >>) \o << >>
  BY <1>1 DEF InFlight
<1>3. output \in Seq(Byte)
  BY DEF IInv, TypeOK
<1> QED BY <1>2, <1>3, ConcatEmptySeq
-----------------------------------------------------------------------------
(* What each kind of instruction does here.                                *)

Quiet == UNCHANGED <<memory, should_stop, status, host>>

LEMMA EchoRegisters ==
  ASSUME IInv
  PROVE  /\ xregs \in [XReg -> Address]
         /\ a0 \in XReg /\ a1 \in XReg /\ a2 \in XReg /\ a7 \in XReg
         /\ \A r \in {a0, a1, a2, a7} :
              GetXReg(r) = xregs[r] /\ xregs[r] \in Register /\ xregs[r] \in Nat
         /\ GetXReg(zero) = 0
         /\ \A r \in {a0, a1, a2, a7} : \A v : SetXReg(r, v) = [xregs EXCEPT ![r] = v]
         /\ \A v : SetXReg(zero, v) = xregs
<1>1. xregs \in [XReg -> Address]
  BY DEF IInv, TypeOK, Register
<1>2. {a0, a1, a2, a7} \subseteq XReg
  BY EchoAssumption, RVSimAssumption
<1>3. \A r \in {a0, a1, a2, a7} : r # 0
  BY DEF a0, a1, a2, a7
<1>4. \A r \in XReg : xregs[r] \in Register /\ xregs[r] \in Nat
  BY <1>1 DEF Register, Address
<1> QED BY <1>1, <1>2, <1>3, <1>4 DEF GetXReg, SetXReg, zero

LEMMA LiStep ==
  ASSUME IInv, NEW r \in {a0, a1, a2, a7}, NEW v \in 0 .. 255, Callback(li(r, v))
  PROVE  xregs' = [xregs EXCEPT ![r] = v] /\ ip' = NextIp /\ Quiet
<1> DEFINE i == li(r, v)
<1>1. /\ i.kind = "RRI" /\ i.op = "ADD" /\ i.rd = r /\ i.rs1 = zero /\ i.imm = Trunc(v)
  BY DEF li, RRI, Assemble
<1> HIDE DEF i
<1>2. Compute(i)
  BY <1>1, KindDecides DEF i
<1>3. GetXReg(i.rs1) = 0 /\ Trunc(v) = v /\ 0 \in Register /\ v \in Register /\ Trunc(0 + v) = v
  BY <1>1, EchoRegisters, SmallWords
<1>4. PICK w \in BinOpFunc("ADD", 0, v) : Retire(r, w, NextIp)
  BY <1>1, <1>2, <1>3 DEF Compute
<1>5. w = v
  BY <1>3, <1>4, EchoAssumption
<1> QED BY <1>4, <1>5, EchoRegisters DEF Retire, Quiet

LEMMA AddStep ==
  ASSUME IInv, NEW r \in {a1, a2}, NEW s \in {zero, a0, a1, a2}, NEW t \in {zero, a0},
         Callback(RRR("ADD", r, s, t))
  PROVE  /\ xregs' = [xregs EXCEPT ![r] = Trunc(GetXReg(s) + GetXReg(t))]
         /\ ip' = NextIp /\ Quiet
<1> DEFINE i == RRR("ADD", r, s, t)
<1>1. i.kind = "RRR" /\ i.op = "ADD" /\ i.rd = r /\ i.rs1 = s /\ i.rs2 = t
  BY DEF RRR, Assemble
<1> HIDE DEF i
<1>2. Compute(i)
  BY <1>1, KindDecides DEF i
<1>3. GetXReg(s) \in Register /\ GetXReg(t) \in Register
  BY EchoRegisters, SmallWords
<1>4. PICK w \in BinOpFunc("ADD", GetXReg(s), GetXReg(t)) : Retire(r, w, NextIp)
  BY <1>1, <1>2 DEF Compute
<1>5. w = Trunc(GetXReg(s) + GetXReg(t))
  BY <1>3, <1>4, EchoAssumption
<1> QED BY <1>4, <1>5, EchoRegisters DEF Retire, Quiet

LEMMA SubStep ==
  ASSUME IInv, Callback(RRR("SUB", a2, a2, a0))
  PROVE  /\ xregs' = [xregs EXCEPT ![a2] = Trunc(xregs[a2] - xregs[a0])]
         /\ ip' = NextIp /\ Quiet
<1> DEFINE i == RRR("SUB", a2, a2, a0)
<1>1. i.kind = "RRR" /\ i.op = "SUB" /\ i.rd = a2 /\ i.rs1 = a2 /\ i.rs2 = a0
  BY DEF RRR, Assemble
<1> HIDE DEF i
<1>2. Compute(i)
  BY <1>1, KindDecides DEF i
<1>3. /\ GetXReg(a2) = xregs[a2] /\ GetXReg(a0) = xregs[a0]
      /\ xregs[a2] \in Register /\ xregs[a0] \in Register
  BY EchoRegisters
<1>4. PICK w \in BinOpFunc("SUB", xregs[a2], xregs[a0]) : Retire(a2, w, NextIp)
  BY <1>1, <1>2, <1>3 DEF Compute
<1>5. w = Trunc(xregs[a2] - xregs[a0])
  BY <1>3, <1>4, EchoAssumption
<1> QED BY <1>4, <1>5, EchoRegisters DEF Retire, Quiet

LEMMA BranchStep ==
  ASSUME NEW op, NEW s, NEW t, NEW imm, Callback(Br(op, s, t, imm))
  PROVE  /\ ip' = IF BranchPredFunc(op, GetXReg(s), GetXReg(t)) THEN Trunc(ip + Trunc(imm))
                  ELSE NextIp
         /\ xregs' = xregs /\ Quiet
<1> DEFINE i == Br(op, s, t, imm)
<1>1. i.kind = "BRANCH" /\ i.op = op /\ i.rs1 = s /\ i.rs2 = t /\ i.imm = Trunc(imm)
  BY DEF Br, Assemble
<1> HIDE DEF i
<1>2. Branch(i)
  BY <1>1, KindDecides DEF i
<1> QED BY <1>1, <1>2 DEF Branch, Quiet

LEMMA JumpStep ==
  ASSUME IInv, NEW imm, Callback(Jump(zero, imm))
  PROVE  ip' = Trunc(ip + Trunc(imm)) /\ xregs' = xregs /\ Quiet
<1> DEFINE i == Jump(zero, imm)
<1>1. i.kind = "JAL" /\ i.rd = zero /\ i.imm = Trunc(imm)
  BY DEF Jump, Assemble
<1> HIDE DEF i
<1>2. JAL(i)
  BY <1>1, KindDecides DEF i
<1> QED BY <1>1, <1>2, EchoRegisters DEF JAL, Retire, Quiet

LEMMA CallStep ==
  ASSUME IInv, Callback(Plain("ECALL")), xregs[a7] \in {kRead, kWrite, kExit}
  PROVE  LET i == Plain("ECALL")
         IN  /\ xregs[a7] = kRead => EcallRead(i)
             /\ xregs[a7] = kWrite => EcallWrite(i)
             /\ xregs[a7] = kExit => EcallExit(i)
<1> DEFINE i == Plain("ECALL")
<1>1. i.kind = "ECALL"
  BY DEF Plain, Assemble
<1> HIDE DEF i
<1>2. EcallExit(i) \/ EcallRead(i) \/ EcallWrite(i) \/ EcallUnknown(i)
  BY <1>1, KindDecides DEF i
<1>3. GetXReg(A7) = xregs[a7]
  BY EchoRegisters, EchoAssumption
<1>4. kRead # kWrite /\ kRead # kExit /\ kWrite # kExit
  BY DEF kRead, kWrite, kExit
<1>5. ~ EcallUnknown(i)
  BY <1>3 DEF EcallUnknown
<1>6. /\ EcallExit(i) => xregs[a7] = kExit
      /\ EcallRead(i) => xregs[a7] = kRead
      /\ EcallWrite(i) => xregs[a7] = kWrite
  BY <1>3 DEF EcallExit, EcallRead, EcallWrite, Ecall
<1> QED BY <1>2, <1>4, <1>5, <1>6 DEF i

(* Bytes in flight and the guest's text are of no register.                *)
LEMMA QuietKeeps ==
  ASSUME Quiet
  PROVE  /\ \A addr, n : InFlight(addr, n)' <=> InFlight(addr, n)
         /\ Kept' <=> Kept
         /\ EchoMemory(memory') <=> EchoMemory(memory)
         /\ input' = input
<1>1. memory' = memory /\ input' = input /\ output' = output
  BY DEF Quiet, host
<1>2. \A addr, n : InFlight(addr, n)' <=> InFlight(addr, n)
  BY <1>1 DEF InFlight
<1> QED BY <1>1, <1>2 DEF Kept
-----------------------------------------------------------------------------
(* The guest's system calls.                                               *)

LEMMA BufferAddress == Buffer = 80 /\ Buffer \in Address /\ \A n \in 0 .. 3 : n < AddrMod
<1>1. Buffer = 80 /\ Buffer \in 0 .. 255
  BY DEF Buffer
<1> QED BY <1>1, SmallWords

(* The text is not in the buffer.                                          *)
LEMMA CopyLeavesText ==
  ASSUME NEW mem, EchoMemory(mem), NEW n \in 0 .. 3, NEW b \in Bytes(n)
  PROVE  EchoMemory(CopyBytes(mem, Buffer, n, b))
<1> DEFINE new == CopyBytes(mem, Buffer, n, b)
<1>1. mem \in Seq(Segment) /\ Buffer \in Address /\ n \in Nat /\ n < AddrMod
  BY EchoPlaces, BufferAddress
<1>2. SameLayout(mem, new)
  BY <1>1, CopyKeepsLayout
<1>3. SameLayout(EchoImage, new)
  BY <1>2 DEF SameLayout, EchoMemory
<1>4. new[1] = mem[1]
  <2>1. mem[1] \in Segment /\ new[1] \in Segment
    BY <1>1, <1>2, EchoPlaces DEF SameLayout
  <2>2. ASSUME NEW o \in 0 .. 71 PROVE ByteOf(new[1], o) = ByteOf(mem[1], o)
    <3>1. o \in 0 .. Size(mem[1]) - 1 /\ 1 \in DOMAIN mem /\ mem[1].start + o = o
      BY EchoPlaces
    <3>2. Wrap(o - Buffer) = o - 80 + AddrMod /\ ~ (o - 80 + AddrMod < n)
      BY SmallWords DEF Wrap, Buffer
    <3> QED BY <1>1, <3>1, <3>2, CopyEffect
  <2>3. /\ new[1].start = mem[1].start /\ new[1].end = mem[1].end
        /\ Size(new[1]) = 72 /\ Size(mem[1]) = 72
    BY <1>2, EchoPlaces DEF SameLayout
  <2>4. new[1].data = mem[1].data
    <3>1. ASSUME NEW p \in 1 .. 72 PROVE new[1].data[p] = mem[1].data[p]
      <4>1. p - 1 \in 0 .. 71 /\ (p - 1) + 1 = p
        OBVIOUS
      <4> HIDE DEF new
      <4> QED BY <2>2, <4>1 DEF ByteOf
    <3>2. new[1].data \in Seq(Byte) /\ mem[1].data \in Seq(Byte)
      BY <2>1, SegmentFields
    <3> DEFINE after == new[1].data
               before == mem[1].data
    <3>3. Len(after) = 72 /\ Len(before) = 72
      BY <2>3 DEF Size
    <3>4. \A p \in 1 .. 72 : after[p] = before[p]
      BY <3>1
    <3>5. after \in Seq(Byte) /\ before \in Seq(Byte)
      BY <3>2
    <3> HIDE DEF new, after, before
    <3>6. Len(after) = Len(before) /\ \A p \in 1 .. Len(after) : after[p] = before[p]
      BY <3>3, <3>4
    <3>7. after = before
      BY ONLY <3>5, <3>6, SeqEqual
    <3> QED BY <3>7 DEF after, before
  <2> HIDE DEF new
  <2> QED BY <2>1, <2>3, <2>4 DEF Segment
<1> QED BY <1>3, <1>4 DEF EchoMemory

LEMMA BufferedAfterRead ==
  ASSUME NEW mem, EchoMemory(mem), NEW n \in 0 .. 3, NEW b \in Bytes(n)
  PROVE  Buffered(CopyBytes(mem, Buffer, n, b), Buffer, n) = [j \in 1 .. n |-> b[j - 1]]
<1> DEFINE new == CopyBytes(mem, Buffer, n, b)
<1>1. mem \in Seq(Segment) /\ Buffer \in Address /\ n \in Nat /\ n < AddrMod /\ Buffer = 80
  BY EchoPlaces, BufferAddress
<1>2. ASSUME NEW j \in 1 .. n PROVE ByteAt(new, Buffer + (j - 1)) = b[j - 1]
  <2> DEFINE x == Buffer + (j - 1)
  <2>1. x \in 80 .. 82 /\ x \in 0 .. 255 /\ x - Buffer = j - 1 /\ j - 1 < n /\ j - 1 \in 0 .. 2
    BY <1>1
  <2>2. Wrap(j - 1) = j - 1
    BY <2>1, SmallWords DEF Wrap
  <2>3. x \in Address /\ Fits(mem, x, 1)
    BY <2>1, SmallWords, EchoHits
  <2>4. Wrap(x - Buffer) = j - 1
    BY <2>1, <2>2
  <2> HIDE DEF x
  <2>5. ByteAt(CopyBytes(mem, Buffer, n, b), x) =
          IF Wrap(x - Buffer) < n THEN b[Wrap(x - Buffer)] ELSE ByteAt(mem, x)
    BY <1>1, <2>3, CopiedByte
  <2> QED BY <2>1, <2>5, <2>4 DEF x
<1> HIDE DEF new
<1> QED BY <1>2 DEF Buffered, new

LEMMA NothingIsMissing ==
  ASSUME EchoMemory(memory), NEW addr, NEW n, InBuffer(addr, n)
  PROVE  /\ Missing(memory, addr, n) = {} /\ Spilling(memory, addr, n) = {}
         /\ \A j \in 0 .. n - 1 : Wrap(addr + j) = addr + j /\ Fits(memory, addr + j, 1)
<1>1. ASSUME NEW j \in 0 .. n - 1 PROVE Wrap(addr + j) = addr + j /\ Fits(memory, addr + j, 1)
  <2> DEFINE x == addr + j
  <2>1. x \in 80 .. 82 /\ x >= 0 /\ x < AddrMod
    BY SmallWords DEF InBuffer, Buffer, BufferSize
  <2> HIDE DEF x
  <2>2. Wrap(x) = x
    BY <2>1, SmallWords DEF Wrap
  <2>3. Fits(memory, x, 1)
    BY <2>1, EchoHits
  <2> QED BY <2>2, <2>3 DEF x
<1> QED BY <1>1 DEF Missing, Spilling, Overruns

LEMMA TruncOfMinusOne == Trunc(-1) = AddrMod - 1
<1>1. -1 = AddrMod * (-1) + (AddrMod - 1) /\ AddrMod - 1 \in Address
  BY SmallWords DEF Address
<1> QED BY <1>1, TruncWraps

LEMMA SubSeqSplits ==
  ASSUME NEW S, NEW s \in Seq(S), NEW n \in 0 .. Len(s)
  PROVE  /\ SubSeq(s, 1, n) \in Seq(S) /\ SubSeq(s, n + 1, Len(s)) \in Seq(S)
         /\ s = SubSeq(s, 1, n) \o SubSeq(s, n + 1, Len(s))
<1> DEFINE first == SubSeq(s, 1, n)
           rest == SubSeq(s, n + 1, Len(s))
<1>1. /\ first \in Seq(S) /\ Len(first) = n
      /\ \A j \in 1 .. n : first[j] = s[j]
  OBVIOUS
<1>2. /\ rest \in Seq(S) /\ Len(rest) = Len(s) - n
      /\ \A j \in 1 .. Len(s) - n : rest[j] = s[n + j]
  OBVIOUS
<1> HIDE DEF first, rest
<1>3. first \o rest \in Seq(S) /\ Len(first \o rest) = Len(s)
  <2>1. Len(s) \in Nat /\ Len(first) + Len(rest) = Len(s)
    BY <1>1, <1>2
  <2>2. first \o rest \in Seq(S) /\ Len(first \o rest) = Len(first) + Len(rest)
    BY ONLY <1>1, <1>2, ConcatProperties
  <2> QED BY <2>1, <2>2
<1>4. ASSUME NEW j \in 1 .. Len(s) PROVE (first \o rest)[j] = s[j]
  <2>1. (first \o rest)[j] = IF j <= n THEN first[j] ELSE rest[j - n]
    <3>1. j \in 1 .. Len(first) + Len(rest)
      BY <1>1, <1>2
    <3> QED BY <1>1, <1>2, <3>1, ConcatProperties
  <2>2. j > n => rest[j - n] = s[j]
    <3> HAVE j > n
    <3>1. j - n \in 1 .. Len(s) - n /\ n + (j - n) = j
      OBVIOUS
    <3> QED BY <1>2, <3>1
  <2> QED BY <1>1, <2>1, <2>2
<1>5. s = first \o rest
  BY <1>3, <1>4, SeqEqual
<1> QED BY <1>1, <1>2, <1>5 DEF first, rest

LEMMA EchoReads ==
  ASSUME IInv, EchoMemory(memory), xregs[a1] = Buffer, xregs[a2] = BufferSize,
         InFlight(Buffer, 0), EcallRead(Plain("ECALL"))
  PROVE  /\ EchoMemory(memory') /\ ip' = NextIp
         /\ UNCHANGED <<status, should_stop>>
         /\ ReadDone'
<1>1. GetXReg(A1) = 80 /\ GetXReg(A2) = 3 /\ A0 = a0
  BY EchoRegisters, EchoAssumption DEF Buffer, BufferSize
<1>2. PICK rc \in ReadResults(3) :
        LET count == IF rc < 0 THEN 0 ELSE rc
            buf == [j \in 0 .. count - 1 |-> input[j + 1]]
            missing == Missing(memory, 80, count)
        IN  /\ input' = SubSeq(input, count + 1, Len(input))
            /\ \/ /\ NDEBUG \/ missing = {}
                  /\ memory' = CopyBytes(memory, 80, count, buf)
                  /\ IF Spilling(memory, 80, count) = {} THEN UNCHANGED status
                     ELSE Spill
                  /\ xregs' = SetXReg(A0, Trunc(rc))
                  /\ ip' = NextIp
               \/ ~ NDEBUG /\ \E m \in missing : TRUE
  BY <1>1, ZenonT(30) DEF EcallRead
<1>3. output' = output /\ should_stop' = should_stop
  BY DEF EcallRead
<1> DEFINE count == IF rc < 0 THEN 0 ELSE rc
           buf == [j \in 0 .. count - 1 |-> input[j + 1]]
<1>4. input \in Seq(Byte) /\ Len(input) \in Nat
  BY DEF IInv, TypeOK
<1>5. /\ rc \in Int /\ count \in 0 .. 3 /\ count <= Len(input)
      /\ rc = -1 \/ (rc = count /\ (rc = 0 => input = << >>))
  BY <1>2, <1>4 DEF ReadResults
<1>6. buf \in Bytes(count)
  <2>1. 3 \in Register
    BY SmallWords
  <2> QED BY <1>2, <2>1, ReadCounts
<1>7. InBuffer(80, count)
  BY <1>5 DEF InBuffer, Buffer, BufferSize
<1>8. Missing(memory, 80, count) = {} /\ Spilling(memory, 80, count) = {}
  BY <1>7, NothingIsMissing
<1>9. /\ input' = SubSeq(input, count + 1, Len(input))
      /\ memory' = CopyBytes(memory, 80, count, buf)
      /\ UNCHANGED status
      /\ xregs' = SetXReg(A0, Trunc(rc))
      /\ ip' = NextIp
  BY <1>2, <1>8
<1>10. xregs'[a0] = Trunc(rc) /\ xregs'[a1] = Buffer
  <2>1. xregs' = [xregs EXCEPT ![a0] = Trunc(rc)]
    BY <1>1, <1>9, EchoRegisters
  <2>2. a0 \in XReg /\ a1 \in XReg /\ a1 # a0
    BY EchoRegisters DEF a0, a1
  <2> QED BY <2>1, <2>2, EchoRegisters
<1>11. EchoMemory(memory')
  BY <1>5, <1>6, <1>9, CopyLeavesText DEF Buffer
<1> HIDE DEF count
<1>12. Buffered(memory', 80, count) = [j \in 1 .. count |-> buf[j - 1]]
  <2>1. count \in 0 .. 3 /\ buf \in Bytes(count) /\ memory' = CopyBytes(memory, Buffer, count, buf)
    BY <1>5, <1>6, <1>9 DEF Buffer
  <2> HIDE DEF buf
  <2>2. Buffered(CopyBytes(memory, Buffer, count, buf), Buffer, count) =
          [j \in 1 .. count |-> buf[j - 1]]
    BY ONLY <2>1, EchoMemory(memory), BufferedAfterRead, ZenonT(30)
  <2> QED BY <2>1, <2>2 DEF Buffer
<1>13. InFlight(80, count)'
  <2> DEFINE got == SubSeq(input, 1, count)
             rest == SubSeq(input, count + 1, Len(input))
  <2>1. got \in Seq(Byte) /\ rest \in Seq(Byte) /\ input = got \o rest
    <3>1. count \in 0 .. Len(input)
      BY <1>4, <1>5
    <3> QED BY <1>4, <3>1, SubSeqSplits
  <2>2. Buffered(memory', 80, count) = got
    <3>1. \A j \in 1 .. count : buf[j - 1] = input[j]
      BY <1>5
    <3>2. got = [j \in 1 .. count |-> input[j]]
      BY <1>4, <1>5
    <3> HIDE DEF buf, got
    <3> QED BY <1>12, <3>1, <3>2
  <2>3. PICK all \in Inputs : all = (output \o << >>) \o input
    <3>1. Buffered(memory, Buffer, 0) = << >>
      BY DEF Buffered
    <3> QED BY <3>1 DEF InFlight
  <2> HIDE DEF got, rest
  <2>4. output \in Seq(Byte)
    BY DEF IInv, TypeOK
  <2>5. all = (output \o got) \o rest
    <3>1. all = output \o input
      BY ONLY <2>3, <2>4, ConcatEmptySeq
    <3>2. input = got \o rest /\ got \in Seq(Byte) /\ rest \in Seq(Byte)
      BY <2>1
    <3>3. (output \o got) \o rest = output \o (got \o rest)
      BY ONLY <2>4, <3>2, ConcatAssociative, SMTT(30)
    <3> QED BY ONLY <3>1, <3>2, <3>3
  <2>6. all = (output' \o Buffered(memory', 80, count)) \o input'
    BY <1>3, <1>9, <2>2, <2>5 DEF rest
  <2> QED BY <1>7, <2>6 DEF InFlight
<1>14. CASE rc = -1
  <2>1. xregs'[a0] = AddrMod - 1
    BY <1>10, <1>14, TruncOfMinusOne
  <2>2. Kept'
    BY <1>5, <1>13 DEF Kept
  <2> QED BY <1>3, <1>9, <1>10, <1>11, <2>1, <2>2 DEF ReadDone, Failed
<1>15. CASE rc = count /\ (rc = 0 => input = << >>)
  <2>1. xregs'[a0] = count
    <3>1. count \in 0 .. 255 /\ rc = count
      BY <1>5, <1>15
    <3> QED BY <1>10, <3>1, SmallWords
  <2>2. count = 0 => input' = << >>
    <3>1. ASSUME count = 0 PROVE SubSeq(input, count + 1, Len(input)) = << >>
      BY <1>4, <1>15, <3>1
    <3> QED BY <1>9, <3>1
  <2> QED BY <1>3, <1>9, <1>10, <1>11, <1>13, <2>1, <2>2 DEF ReadDone, Buffer
<1> QED BY <1>5, <1>14, <1>15

(* What a write leaves to be written.                                      *)
LEMMA EchoWrites ==
  ASSUME IInv, EchoMemory(memory), Writing, EcallWrite(Plain("ECALL"))
  PROVE  /\ memory' = memory /\ ip' = NextIp
         /\ UNCHANGED <<status, should_stop>>
         /\ (Failed' /\ Kept') \/ Written'
<1>1. PICK addr \in Nat, n \in Nat : addr = xregs[a1] /\ n = xregs[a2]
  BY EchoRegisters
<1>2. GetXReg(A1) = addr /\ GetXReg(A2) = n /\ A0 = a0
  BY <1>1, EchoRegisters, EchoAssumption
<1>3. InFlight(addr, n) /\ InBuffer(addr, n) /\ n \in 1 .. 3 /\ addr \in Nat
  <2>1. InFlight(addr, n) /\ n >= 1
    BY <1>1 DEF Writing
  <2>2. InBuffer(addr, n)
    BY <2>1 DEF InFlight
  <2> QED BY <2>1, <2>2 DEF InBuffer, Buffer, BufferSize
<1>4. /\ Missing(memory, addr, n) = {} /\ Spilling(memory, addr, n) = {}
      /\ \A j \in 0 .. n - 1 : Wrap(addr + j) = addr + j /\ Fits(memory, addr + j, 1)
  BY <1>3, NothingIsMissing
<1>5. PICK buf \in CopyReplies(memory, addr, n), wc \in WriteResults(n) :
        /\ output' = output \o [j \in 1 .. wc |-> buf[j - 1]]
        /\ xregs' = SetXReg(A0, Trunc(wc))
        /\ ip' = NextIp
        /\ UNCHANGED <<memory, floats, should_stop, status, input>>
  BY <1>2, <1>4 DEF EcallWrite
<1>6. wc = -1 \/ wc \in 1 .. n
  BY <1>3, <1>5 DEF WriteResults
<1>7. \A j \in 0 .. n - 1 : buf[j] = ByteAt(memory, addr + j)
  BY <1>4, <1>5 DEF CopyReplies
<1>8. /\ xregs'[a0] = Trunc(wc) /\ xregs'[a1] = addr /\ xregs'[a2] = n
      /\ xregs'[a7] = kWrite
  <2>1. xregs' = [xregs EXCEPT ![a0] = Trunc(wc)]
    BY <1>2, <1>5, EchoRegisters
  <2>2. a0 \in XReg /\ a0 \notin {a1, a2, a7} /\ xregs \in [XReg -> Address]
        /\ {a1, a2, a7} \subseteq XReg
    BY EchoRegisters DEF a0, a1, a2, a7
  <2> QED BY <1>1, <2>1, <2>2 DEF Writing
<1>9. PICK all \in Inputs : all = (output \o Buffered(memory, addr, n)) \o input
  BY <1>3 DEF InFlight
<1>10. output \in Seq(Byte) /\ input \in Seq(Byte) /\ memory' = memory /\ input' = input
  BY <1>5 DEF IInv, TypeOK
<1>11. CASE wc = -1
  <2>1. output' = output
    <3>1. [j \in 1 .. wc |-> buf[j - 1]] = << >>
      BY <1>11
    <3> QED BY <1>5, <1>10, <3>1, ConcatEmptySeq
  <2>2. InFlight(addr, n)'
    BY <1>3, <1>9, <1>10, <2>1 DEF InFlight
  <2>3. Failed'
    BY <1>8, <1>11, TruncOfMinusOne DEF Failed
  <2>4. Kept'
    BY <1>3, <2>2 DEF Kept
  <2> QED BY <1>5, <2>3, <2>4
<1>12. CASE wc \in 1 .. n
  <2> DEFINE given == Buffered(memory, addr, wc)
             rest == Buffered(memory, addr + wc, n - wc)
  <2>1. /\ InBuffer(addr, wc) /\ InBuffer(addr + wc, n - wc)
        /\ Buffered(memory, addr, n) = given \o rest
    <3>1. EchoMemory(memory) /\ InBuffer(addr, n) /\ wc \in 0 .. n
      BY <1>3, <1>12
    <3> QED BY ONLY <3>1, BufferedSplits, SMTT(30)
  <2>2. output' = output \o given
    <3>1. ASSUME NEW j \in 1 .. wc PROVE buf[j - 1] = ByteAt(memory, addr + (j - 1))
      <4>1. j - 1 \in 0 .. n - 1
        BY <1>3, <1>12
      <4> QED BY <1>7, <4>1
    <3>2. [j \in 1 .. wc |-> buf[j - 1]] = given
      BY <3>1 DEF Buffered
    <3> QED BY <1>5, <3>2
  <2>3. given \in Seq(Byte) /\ rest \in Seq(Byte)
    BY <2>1, BufferedBytes
  <2> HIDE DEF given, rest
  <2>4. all = (output' \o rest) \o input'
    <3>1. (output \o given) \o rest = output \o (given \o rest)
      BY ONLY <1>10, <2>3, ConcatAssociative, SMTT(30)
    <3>2. all = (output \o (given \o rest)) \o input
      BY <1>9, <2>1
    <3> QED BY ONLY <1>10, <2>2, <3>1, <3>2
  <2>5. InFlight(addr + wc, n - wc)'
    BY <1>10, <2>1, <2>4 DEF InFlight, rest
  <2>6. xregs'[a0] = wc
    <3>1. wc \in 0 .. 255
      BY <1>3, <1>12
    <3> QED BY <1>8, <3>1, SmallWords
  <2>7. Written'
    BY <1>3, <1>8, <1>12, <2>5, <2>6 DEF Written, BufferSize
  <2> QED BY <1>5, <2>7
<1> QED BY <1>6, <1>11, <1>12
-----------------------------------------------------------------------------
(* One instruction after the other.                                        *)

LEMMA GoesOn ==
  ASSUME EchoMemory(memory'), status' = "running", ~ should_stop',
         NEW k \in 1 .. 18, k # 16, ip' = 4 * (k - 1), EchoAssertion(k)'
  PROVE  EchoInv'
BY DEF EchoInv

(* Before every instruction the bytes are somewhere.                       *)
LEMMA AlwaysKept ==
  ASSUME IInv, EchoInv
  PROVE  Kept
<1>1. \A addr, n : InFlight(addr, n) => Kept
  BY DEF InFlight, InBuffer, Kept
<1>2. ASSUME NEW k \in 1 .. 18, k # 16, EchoAssertion(k) PROVE Kept
  BY <1>1, <1>2 DEF EchoAssertion, Reading, ReadDone, Writing, Written, Done
<1> QED BY <1>1, <1>2 DEF EchoInv, Done

(* After exit nothing moves.                                               *)
LEMMA StoppedIsKept ==
  ASSUME EchoMemory(memory), Done, should_stop', status' \in {"running", "returned"},
         UNCHANGED <<memory, xregs, input, output>>
  PROVE  EchoInv'
<1>1. Kept' <=> Kept
  BY DEF Kept, InFlight
<1>2. InFlight(Buffer, 0)' <=> InFlight(Buffer, 0)
  BY DEF InFlight
<1>3. Done'
  BY <1>1, <1>2 DEF Done, Failed
<1> QED BY <1>3 DEF EchoInv

(* The program, one instruction at a time.                                *)
LEMMA ProgramText ==
  /\ EchoProgram[1] = li(a7, 63) /\ EchoProgram[2] = li(a0, 0)
  /\ EchoProgram[3] = li(a1, Buffer) /\ EchoProgram[4] = li(a2, BufferSize)
  /\ EchoProgram[5] = Plain("ECALL") /\ EchoProgram[6] = Br("BGE", zero, a0, 44)
  /\ EchoProgram[7] = RRR("ADD", a2, a0, zero) /\ EchoProgram[8] = li(a7, 64)
  /\ EchoProgram[9] = li(a0, 1) /\ EchoProgram[10] = Plain("ECALL")
  /\ EchoProgram[11] = Br("BLT", a0, zero, 24) /\ EchoProgram[12] = RRR("ADD", a1, a1, a0)
  /\ EchoProgram[13] = RRR("SUB", a2, a2, a0) /\ EchoProgram[14] = Br("BNE", a2, zero, -20)
  /\ EchoProgram[15] = Jump(zero, -56)
  /\ EchoProgram[17] = li(a7, 93) /\ EchoProgram[18] = Plain("ECALL")
BY DEF EchoProgram

(* The registers of the guest are different ones.                          *)
LEMMA Numbers ==
  /\ a0 = 5 /\ a1 = 6 /\ a2 = 7 /\ a7 = 8 /\ zero = 0
  /\ Buffer = 80 /\ BufferSize = 3 /\ kRead = 63 /\ kWrite = 64 /\ kExit = 93
BY DEF a0, a1, a2, a7, zero, Buffer, BufferSize, kRead, kWrite, kExit

(* What a count that is in flight can be.                                  *)
LEMMA FlightRange ==
  ASSUME NEW addr, NEW n, InFlight(addr, n)
  PROVE  addr \in 80 .. 83 /\ n \in 0 .. 3 /\ addr + n <= 83 /\ addr \in Nat /\ n \in Nat
BY Numbers DEF InFlight, InBuffer

LEMMA SignOfResult ==
  /\ \A z \in 0 .. 3 : Signed(z) = z
  /\ Signed(AddrMod - 1) = -1 /\ AddrMod - 1 \in Register
BY SmallWords, HalfWords DEF Signed, Register, Address

(* The instructions that load a number.                                    *)
LEMMA EchoLoads ==
  ASSUME IInv, EchoMemory(memory), status = "running", ~ should_stop,
         NEW k \in {1, 2, 3, 4, 8, 9, 17}, ip = 4 * (k - 1), EchoAssertion(k),
         Callback(EchoProgram[k]), NextIp = 4 * k
  PROVE  EchoInv'
<1> USE Numbers
<1>1. xregs \in [XReg -> Address] /\ {5, 6, 7, 8} \subseteq XReg
  BY EchoRegisters
<1>2. PICK r \in {a0, a1, a2, a7}, v \in 0 .. 255 :
        /\ EchoProgram[k] = li(r, v)
        /\ <<k, r, v>> \in {<<1, 8, 63>>, <<2, 5, 0>>, <<3, 6, 80>>, <<4, 7, 3>>,
                            <<8, 8, 64>>, <<9, 5, 1>>, <<17, 8, 93>>}
  <2>1. CASE k = 1
    BY <2>1, ProgramText
  <2>2. CASE k = 2
    BY <2>2, ProgramText
  <2>3. CASE k = 3
    BY <2>3, ProgramText
  <2>4. CASE k = 4
    BY <2>4, ProgramText
  <2>5. CASE k = 8
    BY <2>5, ProgramText
  <2>6. CASE k = 9
    BY <2>6, ProgramText
  <2>7. CASE k = 17
    BY <2>7, ProgramText
  <2> QED BY <2>1, <2>2, <2>3, <2>4, <2>5, <2>6, <2>7
<1>3. xregs' = [xregs EXCEPT ![r] = v] /\ ip' = NextIp /\ Quiet
  BY <1>2, LiStep
<1>4. /\ \A addr, n : InFlight(addr, n)' <=> InFlight(addr, n)
      /\ Kept' <=> Kept
      /\ EchoMemory(memory') /\ input' = input
      /\ status' = "running" /\ ~ should_stop'
  BY <1>3, QuietKeeps DEF Quiet
<1>5. k + 1 \in 1 .. 18 /\ k + 1 # 16 /\ ip' = 4 * ((k + 1) - 1)
  BY <1>3
<1>6. EchoAssertion(k + 1)'
  <2>1. CASE k = 1
    BY <1>1, <1>2, <1>3, <1>4, <2>1 DEF EchoAssertion, Reading
  <2>2. CASE k = 2
    BY <1>1, <1>2, <1>3, <1>4, <2>2 DEF EchoAssertion, Reading
  <2>3. CASE k = 3
    BY <1>1, <1>2, <1>3, <1>4, <2>3 DEF EchoAssertion, Reading
  <2>4. CASE k = 4
    BY <1>1, <1>2, <1>3, <1>4, <2>4 DEF EchoAssertion, Reading
  <2>5. CASE k = 8
    BY <1>1, <1>2, <1>3, <1>4, <2>5 DEF EchoAssertion, Writing
  <2>6. CASE k = 9
    BY <1>1, <1>2, <1>3, <1>4, <2>6 DEF EchoAssertion, Writing
  <2>7. CASE k = 17
    BY <1>1, <1>2, <1>3, <1>4, <2>7 DEF EchoAssertion, Done, Failed
  <2> QED BY <2>1, <2>2, <2>3, <2>4, <2>5, <2>6, <2>7
<1> QED BY <1>4, <1>5, <1>6, GoesOn

(* Those that compute a pointer or a count.                                *)
LEMMA EchoComputes ==
  ASSUME IInv, EchoMemory(memory), status = "running", ~ should_stop,
         NEW k \in {7, 12, 13}, ip = 4 * (k - 1), EchoAssertion(k),
         Callback(EchoProgram[k]), NextIp = 4 * k
  PROVE  EchoInv'
<1> USE Numbers
<1>1. xregs \in [XReg -> Address] /\ {5, 6, 7, 8} \subseteq XReg
  BY EchoRegisters
<1>2. /\ GetXReg(zero) = 0 /\ GetXReg(a0) = xregs[5] /\ GetXReg(a1) = xregs[6]
      /\ xregs[5] \in Nat /\ xregs[6] \in Nat /\ xregs[7] \in Nat
  BY EchoRegisters
<1>3. ASSUME Quiet, ip' = NextIp, EchoAssertion(k + 1)' PROVE EchoInv'
  <2>1. EchoMemory(memory') /\ status' = "running" /\ ~ should_stop'
    BY <1>3, QuietKeeps DEF Quiet
  <2>2. k + 1 \in 1 .. 18 /\ k + 1 # 16 /\ ip' = 4 * ((k + 1) - 1)
    BY <1>3
  <2> QED BY <1>3, <2>1, <2>2, GoesOn
<1>4. CASE k = 7
  <2>1. xregs[5] >= 1 /\ xregs[6] = 80 /\ InFlight(80, xregs[5])
    BY <1>4 DEF EchoAssertion
  <2>2. xregs[5] \in 0 .. 255
    BY <2>1, FlightRange
  <2>3. xregs' = [xregs EXCEPT ![7] = xregs[5]] /\ ip' = NextIp /\ Quiet
    <3>1. xregs' = [xregs EXCEPT ![a2] = Trunc(GetXReg(a0) + GetXReg(zero))] /\ ip' = NextIp /\ Quiet
      BY <1>4, ProgramText, AddStep
    <3>2. Trunc(GetXReg(a0) + GetXReg(zero)) = xregs[5]
      BY <1>2, <2>2, SmallWords
    <3> QED BY <3>1, <3>2
  <2>4. xregs'[7] = xregs[5] /\ xregs'[6] = 80
    BY <1>1, <2>1, <2>3
  <2>5. InFlight(xregs[6], xregs[7])'
    BY <2>1, <2>3, <2>4, QuietKeeps
  <2>6. EchoAssertion(8)'
    BY <2>1, <2>4, <2>5 DEF EchoAssertion
  <2> QED BY <1>3, <1>4, <2>3, <2>6
<1>5. CASE k = 12
  <2>1. /\ xregs[8] = kWrite /\ xregs[5] \in 1 .. xregs[7]
        /\ InFlight(xregs[6] + xregs[5], xregs[7] - xregs[5])
    BY <1>5 DEF EchoAssertion, Written
  <2>2. xregs[6] + xregs[5] \in 0 .. 255
    BY <2>1, FlightRange
  <2>3. xregs' = [xregs EXCEPT ![6] = xregs[6] + xregs[5]] /\ ip' = NextIp /\ Quiet
    <3>1. xregs' = [xregs EXCEPT ![a1] = Trunc(GetXReg(a1) + GetXReg(a0))] /\ ip' = NextIp /\ Quiet
      BY <1>5, ProgramText, AddStep
    <3>2. Trunc(GetXReg(a1) + GetXReg(a0)) = xregs[6] + xregs[5]
      BY <1>2, <2>2, SmallWords
    <3> QED BY <3>1, <3>2
  <2>4. /\ xregs'[6] = xregs[6] + xregs[5]
        /\ xregs'[5] = xregs[5] /\ xregs'[7] = xregs[7] /\ xregs'[8] = xregs[8]
    BY <1>1, <2>3
  <2>5. InFlight(xregs[6], xregs[7] - xregs[5])'
    BY <2>1, <2>3, <2>4, QuietKeeps
  <2>6. EchoAssertion(13)'
    BY <2>1, <2>4, <2>5 DEF EchoAssertion
  <2> QED BY <1>3, <1>5, <2>3, <2>6
<1>6. CASE k = 13
  <2>1. /\ xregs[8] = kWrite /\ xregs[5] \in 1 .. xregs[7]
        /\ InFlight(xregs[6], xregs[7] - xregs[5])
    BY <1>6 DEF EchoAssertion
  <2>2. xregs[7] - xregs[5] \in 0 .. 255
    BY <2>1, FlightRange
  <2>3. xregs' = [xregs EXCEPT ![7] = xregs[7] - xregs[5]] /\ ip' = NextIp /\ Quiet
    <3>1. xregs' = [xregs EXCEPT ![a2] = Trunc(xregs[a2] - xregs[a0])] /\ ip' = NextIp /\ Quiet
      BY <1>6, ProgramText, SubStep
    <3>2. Trunc(xregs[a2] - xregs[a0]) = xregs[7] - xregs[5]
      BY <2>2, SmallWords
    <3> QED BY <3>1, <3>2
  <2>4. xregs'[7] = xregs[7] - xregs[5] /\ xregs'[6] = xregs[6] /\ xregs'[8] = xregs[8]
    BY <1>1, <2>3
  <2>5. InFlight(xregs[6], xregs[7])'
    BY <2>1, <2>3, <2>4, QuietKeeps
  <2>6. EchoAssertion(14)'
    BY <2>1, <2>4, <2>5 DEF EchoAssertion
  <2> QED BY <1>3, <1>6, <2>3, <2>6
<1> QED BY <1>4, <1>5, <1>6

(* Those that decide which way to go.                                      *)
LEMMA EchoBranches ==
  ASSUME IInv, EchoMemory(memory), status = "running", ~ should_stop,
         NEW k \in {6, 11, 14, 15}, ip = 4 * (k - 1), EchoAssertion(k),
         Callback(EchoProgram[k]), NextIp = 4 * k
  PROVE  EchoInv'
<1> USE Numbers
<1>1. /\ GetXReg(zero) = 0 /\ GetXReg(a0) = xregs[5] /\ GetXReg(a2) = xregs[7]
      /\ xregs[5] \in Register /\ xregs[7] \in Register /\ 0 \in Register
      /\ xregs[5] \in Nat /\ xregs[6] \in Nat /\ xregs[7] \in Nat
  BY EchoRegisters, SmallWords
<1>2. ASSUME Quiet, xregs' = xregs, NEW l \in 1 .. 18, l # 16, ip' = 4 * (l - 1), EchoAssertion(l)
      PROVE  EchoInv'
  <2>1. EchoMemory(memory') /\ status' = "running" /\ ~ should_stop'
    BY <1>2, QuietKeeps DEF Quiet
  <2>2. EchoAssertion(l)'
    BY <1>2, QuietKeeps DEF EchoAssertion, Reading, ReadDone, Writing, Written, Done, Failed
  <2> QED BY <1>2, <2>1, <2>2, GoesOn
<1>3. CASE k = 6
  <2>1. /\ ip' = IF BranchPredFunc("BGE", 0, xregs[5]) THEN Trunc(ip + Trunc(44)) ELSE NextIp
        /\ xregs' = xregs /\ Quiet
    BY <1>1, <1>3, ProgramText, BranchStep
  <2>2. Trunc(44) = 44 /\ Trunc(20 + 44) = 64
    BY SmallWords
  <2>3. BranchPredFunc("BGE", 0, xregs[5]) <=> Signed(0) >= Signed(xregs[5])
    BY <1>1, EchoAssumption
  <2>4. xregs[6] = 80 /\ ((Failed /\ Kept) \/ (InFlight(80, xregs[5]) /\ (xregs[5] = 0 => input = << >>)))
    BY <1>3 DEF EchoAssertion, ReadDone
  <2>5. CASE Failed /\ Kept
    <3>1. ip' = 4 * (17 - 1)
      BY <1>3, <2>1, <2>2, <2>3, <2>5, SignOfResult DEF Failed
    <3>2. EchoAssertion(17)
      BY <2>5 DEF EchoAssertion, Done
    <3> QED BY <1>2, <2>1, <3>1, <3>2
  <2>6. CASE InFlight(80, xregs[5]) /\ xregs[5] = 0 /\ input = << >>
    <3>1. ip' = 4 * (17 - 1)
      BY <1>3, <2>1, <2>2, <2>3, <2>6, SignOfResult
    <3>2. EchoAssertion(17)
      BY <2>6 DEF EchoAssertion, Done
    <3> QED BY <1>2, <2>1, <3>1, <3>2
  <2>7. CASE InFlight(80, xregs[5]) /\ xregs[5] # 0
    <3>1. xregs[5] \in 0 .. 3
      BY <2>7, FlightRange
    <3>2. ip' = 4 * (7 - 1)
      BY <1>3, <2>1, <2>3, <2>7, <3>1, SignOfResult
    <3>3. EchoAssertion(7)
      BY <2>4, <2>7, <3>1 DEF EchoAssertion
    <3> QED BY <1>2, <2>1, <3>2, <3>3
  <2> QED BY <2>4, <2>5, <2>6, <2>7
<1>4. CASE k = 11
  <2>1. /\ ip' = IF BranchPredFunc("BLT", xregs[5], 0) THEN Trunc(ip + Trunc(24)) ELSE NextIp
        /\ xregs' = xregs /\ Quiet
    BY <1>1, <1>4, ProgramText, BranchStep
  <2>2. Trunc(24) = 24 /\ Trunc(40 + 24) = 64
    BY SmallWords
  <2>3. BranchPredFunc("BLT", xregs[5], 0) <=> Signed(xregs[5]) < Signed(0)
    BY <1>1, EchoAssumption
  <2>4. (Failed /\ Kept) \/ Written
    BY <1>4 DEF EchoAssertion
  <2>5. CASE Failed /\ Kept
    <3>1. ip' = 4 * (17 - 1)
      BY <1>4, <2>1, <2>2, <2>3, <2>5, SignOfResult DEF Failed
    <3>2. EchoAssertion(17)
      BY <2>5 DEF EchoAssertion, Done
    <3> QED BY <1>2, <2>1, <3>1, <3>2
  <2>6. CASE Written
    <3>1. xregs[5] \in 0 .. 3
      BY <1>1, <2>6 DEF Written
    <3>2. ip' = 4 * (12 - 1)
      BY <1>4, <2>1, <2>3, <3>1, SignOfResult
    <3>3. EchoAssertion(12)
      BY <2>6 DEF EchoAssertion
    <3> QED BY <1>2, <2>1, <3>2, <3>3
  <2> QED BY <2>4, <2>5, <2>6
<1>5. CASE k = 14
  <2>1. /\ ip' = IF BranchPredFunc("BNE", xregs[7], 0) THEN Trunc(ip + Trunc(-20)) ELSE NextIp
        /\ xregs' = xregs /\ Quiet
    BY <1>1, <1>5, ProgramText, BranchStep
  <2>2. Trunc(52 + Trunc(-20)) = 32
    BY JumpsBack
  <2>3. BranchPredFunc("BNE", xregs[7], 0) <=> xregs[7] # 0
    BY <1>1, EchoAssumption
  <2>4. xregs[8] = 64 /\ InFlight(xregs[6], xregs[7])
    BY <1>5 DEF EchoAssertion
  <2>5. CASE xregs[7] # 0
    <3>1. ip' = 4 * (9 - 1)
      BY <1>5, <2>1, <2>2, <2>3, <2>5
    <3>2. EchoAssertion(9)
      BY <1>1, <2>4, <2>5 DEF EchoAssertion, Writing
    <3> QED BY <1>2, <2>1, <3>1, <3>2
  <2>6. CASE xregs[7] = 0
    <3>1. ip' = 4 * (15 - 1)
      BY <1>5, <2>1, <2>3, <2>6
    <3>2. InFlight(80, 0)
      <4>1. InFlight(xregs[6], 0) /\ InBuffer(xregs[6], 0)
        BY <2>4, <2>6 DEF InFlight
      <4>2. InBuffer(80, 0)
        BY Numbers DEF InBuffer
      <4> QED BY <4>1, <4>2, EmptyFlight
    <3>3. EchoAssertion(15)
      BY <3>2 DEF EchoAssertion
    <3> QED BY <1>2, <2>1, <3>1, <3>3
  <2> QED BY <2>5, <2>6
<1>6. CASE k = 15
  <2>1. ip' = Trunc(ip + Trunc(-56)) /\ xregs' = xregs /\ Quiet
    BY <1>6, ProgramText, JumpStep
  <2>2. Trunc(56 + Trunc(-56)) = 0
    BY JumpsBack
  <2>3. ip' = 4 * (1 - 1)
    BY <1>6, <2>1, <2>2
  <2>4. EchoAssertion(1)
    BY <1>6 DEF EchoAssertion, Reading
  <2> QED BY <1>2, <2>1, <2>3, <2>4
<1> QED BY <1>3, <1>4, <1>5, <1>6

(* Those that call the host.                                               *)
LEMMA EchoCalls ==
  ASSUME IInv, EchoMemory(memory), status = "running", ~ should_stop,
         NEW k \in {5, 10, 18}, ip = 4 * (k - 1), EchoAssertion(k),
         Callback(EchoProgram[k]), NextIp = 4 * k
  PROVE  EchoInv'
<1>1. Callback(Plain("ECALL"))
  BY ProgramText
<1>2. CASE k = 5
  <2>1. Reading(5) /\ xregs[a7] = kRead /\ InFlight(Buffer, 0)
        /\ xregs[a1] = Buffer /\ xregs[a2] = BufferSize
    BY <1>2 DEF EchoAssertion, Reading
  <2>2. EcallRead(Plain("ECALL"))
    BY <1>1, <2>1, CallStep
  <2>3. EchoMemory(memory') /\ status' = "running" /\ ~ should_stop' /\ ReadDone' /\ ip' = 4 * (6 - 1)
    BY <1>2, <2>1, <2>2, EchoReads
  <2>4. EchoAssertion(6)'
    BY <2>3 DEF EchoAssertion
  <2> QED BY <2>3, <2>4, GoesOn
<1>3. CASE k = 10
  <2>1. Writing /\ xregs[a7] = kWrite
    BY <1>3 DEF EchoAssertion, Writing
  <2>2. EcallWrite(Plain("ECALL"))
    BY <1>1, <2>1, CallStep
  <2>3. /\ EchoMemory(memory') /\ status' = "running" /\ ~ should_stop'
        /\ (Failed' /\ Kept') \/ Written'
        /\ ip' = 4 * (11 - 1)
    BY <1>3, <2>1, <2>2, EchoWrites
  <2>4. EchoAssertion(11)'
    BY <2>3 DEF EchoAssertion
  <2> QED BY <2>3, <2>4, GoesOn
<1>4. CASE k = 18
  <2>1. Done /\ xregs[a7] = kExit
    BY <1>4 DEF EchoAssertion
  <2>2. EcallExit(Plain("ECALL"))
    BY <1>1, <2>1, CallStep
  <2>3. should_stop' /\ status' = status /\ UNCHANGED <<memory, xregs, input, output>>
    BY <2>2 DEF EcallExit, host
  <2> QED BY <2>1, <2>3, StoppedIsKept
<1> QED BY <1>2, <1>3, <1>4

(* An iteration of the loop of Execute.                                    *)
LEMMA EchoIterates ==
  ASSUME IInv, EchoInv, Iterate
  PROVE  EchoInv'
<1>1. status = "running" /\ ~ should_stop /\ EchoMemory(memory)
  BY DEF Iterate, EchoInv
<1>2. PICK k \in 1 .. 18 : ip = 4 * (k - 1) /\ k # 16 /\ EchoAssertion(k)
  BY <1>1 DEF EchoInv
<1>3. Callback(EchoProgram[k]) /\ NextIp = 4 * k
  BY <1>1, <1>2, EchoFetch
<1>4. CASE k \in {1, 2, 3, 4, 8, 9, 17}
  BY <1>1, <1>2, <1>3, <1>4, EchoLoads
<1>5. CASE k \in {7, 12, 13}
  BY <1>1, <1>2, <1>3, <1>5, EchoComputes
<1>6. CASE k \in {6, 11, 14, 15}
  BY <1>1, <1>2, <1>3, <1>6, EchoBranches
<1>7. CASE k \in {5, 10, 18}
  BY <1>1, <1>2, <1>3, <1>7, EchoCalls
<1>8. k \in {1, 2, 3, 4, 8, 9, 17} \cup {7, 12, 13} \cup {6, 11, 14, 15} \cup {5, 10, 18}
  BY <1>2
<1> QED BY <1>4, <1>5, <1>6, <1>7, <1>8

LEMMA InitEchoInv == EchoInit => EchoInv
<1> SUFFICES ASSUME EchoInit PROVE EchoInv
  OBVIOUS
<1>1. IInv /\ memory = EchoImage /\ ip = 0 /\ status = "running" /\ ~ should_stop
      /\ input \in Inputs /\ output = << >>
  BY InitIInv DEF EchoInit, Init
<1>2. EchoMemory(memory)
  BY <1>1, SameLayoutAsItself DEF EchoMemory, IInv, TypeOK
<1>3. InFlight(Buffer, 0)
  <2>1. InBuffer(Buffer, 0)
    BY Numbers DEF InBuffer
  <2>2. Buffered(memory, Buffer, 0) = << >>
    BY DEF Buffered
  <2>3. input = (<< >> \o << >>) \o input /\ input \in Seq(Byte)
    BY <1>1, ConcatEmptySeq DEF IInv, TypeOK
  <2> QED BY <1>1, <2>1, <2>2, <2>3 DEF InFlight
<1>4. ip = 4 * (1 - 1) /\ EchoAssertion(1)
  BY <1>1, <1>3 DEF EchoAssertion, Reading
<1> QED BY <1>1, <1>2, <1>4 DEF EchoInv

LEMMA NextEchoInv == IInv /\ EchoInv /\ [Next]_vars => EchoInv'
<1> SUFFICES ASSUME IInv, EchoInv, [Next]_vars PROVE EchoInv'
  OBVIOUS
<1>1. CASE Iterate
  BY <1>1, EchoIterates
<1>2. CASE Return
  <2>1. should_stop' /\ status' = "returned" /\ UNCHANGED <<memory, xregs, input, output>>
    BY <1>2 DEF Return, host
  <2>2. Done /\ EchoMemory(memory)
    BY <1>2 DEF Return, EchoInv
  <2> QED BY <2>1, <2>2, StoppedIsKept
<1>3. CASE UNCHANGED vars
  <2>1. UNCHANGED <<memory, ip, xregs, should_stop, status, input, output>>
    BY <1>3 DEF vars, host
  <2>2. CASE should_stop
    <3>1. Done /\ EchoMemory(memory) /\ status \in {"running", "returned"}
      BY <2>2 DEF EchoInv
    <3> QED BY <2>1, <2>2, <3>1, StoppedIsKept
  <2>3. CASE ~ should_stop
    <3>1. PICK k \in 1 .. 18 : ip = 4 * (k - 1) /\ k # 16 /\ EchoAssertion(k)
      BY <2>3 DEF EchoInv
    <3>2. EchoMemory(memory) /\ status = "running"
      BY <2>3 DEF EchoInv
    <3>3. /\ \A addr, n : InFlight(addr, n)' <=> InFlight(addr, n)
          /\ Kept' <=> Kept
      BY <2>1 DEF InFlight, Kept
    <3>4. EchoAssertion(k)'
      BY <2>1, <3>1, <3>3 DEF EchoAssertion, Reading, ReadDone, Writing, Written, Done, Failed
    <3> QED BY <2>1, <2>3, <3>1, <3>2, <3>4, GoesOn
  <2> QED BY <2>2, <2>3
<1> QED BY <1>1, <1>2, <1>3 DEF Next

LEMMA KeepsNothingBack ==
  ASSUME IInv, EchoInv
  PROVE  NothingLost
<1>1. EchoMemory(memory) /\ Kept
  BY AlwaysKept DEF EchoInv
<1>2. CASE status = "returned" /\ xregs[a0] = 0
  <2>1. Done /\ ~ Failed
    BY <1>2, SmallWords DEF EchoInv, Failed
  <2>2. input = << >> /\ InFlight(Buffer, 0)
    BY <2>1 DEF Done
  <2>3. output \in Inputs /\ output \in Seq(Byte)
    BY <2>2, AllIsWritten DEF IInv, TypeOK
  <2>4. \E n \in 0 .. Len(output) : output = SubSeq(output, 1, n)
    <3>1. PICK n \in 0 .. Len(output) : n = Len(output)
      BY <2>3
    <3>2. output = SubSeq(output, 1, n)
      BY <2>3, <3>1
    <3> QED BY <3>1, <3>2
  <2> QED BY ONLY <2>3, <2>4 DEF NothingLost
<1>3. CASE ~ (status = "returned" /\ xregs[a0] = 0)
  BY <1>1, <1>3, KeptIsPrefix DEF NothingLost
<1> QED BY <1>2, <1>3

(* The guest of MCEcho, in any build, with any input and however the host  *)
(* splits what read and write transfer: at every instruction, what it has  *)
(* written is the beginning of the input, and all of it when it exits with *)
(* 0.  The two system calls return the host's count and move exactly that  *)
(* many bytes (syscall_handler.cpp:36-48,57-67).                           *)
THEOREM EchoLosesNothing == EchoSpec => []NothingLost
<1>1. EchoSpec => Spec
  <2>1. EchoInit => Init
    BY DEF EchoInit
  <2> QED BY <2>1, PTL DEF EchoSpec, Spec
<1>2. IInv /\ EchoInv => NothingLost
  BY KeepsNothingBack
<1> QED BY <1>1, <1>2, AlwaysIInv, InitEchoInv, NextEchoInv, PTL DEF EchoSpec
-----------------------------------------------------------------------------
(* Floats as words.                                                        *)

LEMMA SignAndMagnitude ==
  ASSUME NEW v \in Register
  PROVE  Sign(v) \in {0, 1} /\ v % Half \in 0 .. Half - 1 /\ v = (Sign(v) * Half) + (v % Half)
<1>1. v \in Nat /\ v < 2 * Half /\ Half \in Nat \ {0}
  BY HalfWords DEF Register, Address
<1>2. v \div Half \in Int /\ v % Half \in 0 .. Half - 1 /\ v = Half * (v \div Half) + (v % Half)
  BY <1>1, DivMod
<1>3. v \div Half \in 0 .. 2 - 1
  BY <1>1, DivBelow
<1>4. v \div Half \in {0, 1}
  BY <1>3
<1> QED BY <1>1, <1>2, <1>4 DEF Sign

LEMMA SignIsSet ==
  ASSUME NEW s \in {0, 1}, NEW v \in Register
  PROVE  /\ WithSign(s, v) \in Register
         /\ Sign(WithSign(s, v)) = s
         /\ WithSign(s, v) % Half = v % Half
<1>1. v % Half \in 0 .. Half - 1 /\ Half \in Nat \ {0} /\ AddrMod = 2 * Half
  BY SignAndMagnitude, HalfWords
<1>2. (Half * s + (v % Half)) \div Half = s /\ (Half * s + (v % Half)) % Half = v % Half
  <2> DEFINE r == v % Half
  <2>1. r \in 0 .. Half - 1 /\ s \in Int
    BY <1>1
  <2> HIDE DEF r
  <2>2. (Half * s + r) \div Half = s /\ (Half * s + r) % Half = r
    BY ONLY <1>1, <2>1, DivIsUnique
  <2> QED BY <2>2 DEF r
<1>3. WithSign(s, v) = Half * s + (v % Half)
  BY <1>1 DEF WithSign
<1>4. WithSign(s, v) \in 0 .. AddrMod - 1
  BY <1>1, <1>3
<1> QED BY <1>2, <1>3, <1>4 DEF Sign, Register, Address

LEMMA SignsComposed ==
  ASSUME NEW v \in Register
  PROVE  \A s \in {0, 1} : WithSign(Sign(v), WithSign(s, v)) = v
<1> SUFFICES ASSUME NEW s \in {0, 1} PROVE WithSign(Sign(v), WithSign(s, v)) = v
  OBVIOUS
<1>1. WithSign(s, v) % Half = v % Half
  BY SignIsSet
<1> QED BY <1>1, SignAndMagnitude DEF WithSign

(* A change of the sign makes no NaN of a number and no number of a NaN.   *)
LEMMA SignIsNoNaN ==
  ASSUME NEW v \in Register, NEW s \in {0, 1}
  PROVE  NaN(WithSign(s, v)) <=> NaN(v)
<1> DEFINE w == WithSign(s, v)
<1>1. w \in Register /\ w % Half = v % Half /\ v % Half \in Nat
  BY SignIsSet, SignAndMagnitude
<1> HIDE DEF w
<1>2. Rank(v) <= Rank(w) /\ Rank(w) <= Rank(v)
  BY <1>1, OrderAssumption
<1>3. \A z \in Register : Rank(z) \in 0 .. 4 /\ (Rank(z) = 4 <=> NaN(z))
  BY FloatAssumption DEF Rank, NaN, FPClasses
<1>4. Rank(v) = Rank(w)
  BY <1>1, <1>2, <1>3
<1> QED BY <1>1, <1>3, <1>4 DEF w

(* What the three comparisons say of two words.                            *)
LessEqual(v, w) == ~ NaN(v) /\ ~ NaN(w) /\ Ordinal(v) <= Ordinal(w)
Below(v, w) == ~ NaN(v) /\ ~ NaN(w) /\ Ordinal(v) < Ordinal(w)
Alike(v, w) == ~ NaN(v) /\ ~ NaN(w) /\ Ordinal(v) = Ordinal(w)
Bit(holds) == IF holds THEN 1 ELSE 0
ClassBit(v) == Trunc(2 ^ ClassShift(v))

LEMMA OrdinalsAreIntegers == \A v \in Register : Ordinal(v) \in Int
BY SignAndMagnitude, HalfWords DEF Ordinal

LEMMA NegationReverses ==
  ASSUME NEW v \in Register, NEW w \in Register
  PROVE  LessEqual(f32_neg(w), f32_neg(v)) <=> LessEqual(v, w)
<1>1. ASSUME NEW z \in Register
      PROVE  (NaN(f32_neg(z)) <=> NaN(z)) /\ Ordinal(f32_neg(z)) = - Ordinal(z)
  <2>1. 1 - Sign(z) \in {0, 1} /\ Sign(z) \in {0, 1} /\ z % Half \in Int
    BY SignAndMagnitude, HalfWords
  <2>2. Sign(f32_neg(z)) = 1 - Sign(z) /\ f32_neg(z) % Half = z % Half
        /\ (NaN(f32_neg(z)) <=> NaN(z))
    BY <2>1, SignIsSet, SignIsNoNaN DEF f32_neg
  <2> QED BY <2>1, <2>2 DEF Ordinal
<1> QED BY <1>1, OrdinalsAreIntegers DEF LessEqual

LEMMA SignInjectionIsEqual ==
  ASSUME NEW v \in Register, NEW w \in Register
  PROVE  Alike(v, WithSign(Sign(w), v)) <=> ~ NaN(v) /\ (SameSign(v, w) \/ IsZero(v))
<1>1. Sign(w) \in {0, 1} /\ Sign(v) \in {0, 1} /\ v % Half \in Nat
  BY SignAndMagnitude, HalfWords
<1>2. Sign(WithSign(Sign(w), v)) = Sign(w) /\ WithSign(Sign(w), v) % Half = v % Half
      /\ (NaN(WithSign(Sign(w), v)) <=> NaN(v))
  BY <1>1, SignIsSet, SignIsNoNaN
<1> QED BY <1>1, <1>2 DEF Alike, Ordinal, SameSign, IsZero

LEMMA ClassesAreOrdered ==
  ASSUME NEW v \in Register, NEW w \in Register, ~ NaN(v), ~ NaN(w), ClassBit(v) < ClassBit(w)
  PROVE  LessEqual(v, w)
<1>1. \A z \in Register :
        ~ NaN(z) => LET s == ClassShift(z)
                    IN  /\ Rank(z) \in 0 .. 3
                        /\ Sign(z) \in {0, 1}
                        /\ s = IF Sign(z) = 1 THEN 3 - Rank(z) ELSE 4 + Rank(z)
  BY FloatAssumption, SignAndMagnitude DEF Rank, NaN, FPClasses, ClassShift
<1> DEFINE P(s) == 2 ^ s
<1>2. /\ P(0) = 1 /\ P(1) = 2 /\ P(2) = 4 /\ P(3) = 8
      /\ P(4) = 16 /\ P(5) = 32 /\ P(6) = 64 /\ P(7) = 128
  OBVIOUS
<1> HIDE DEF P
<1>3. \A s \in 0 .. 7 : P(s) \in 0 .. 255 /\ \A t \in 0 .. 7 : P(s) < P(t) => s < t
  BY ONLY <1>2
<1>4. ClassShift(v) \in 0 .. 7 /\ ClassShift(w) \in 0 .. 7
  BY <1>1
<1>5. ClassShift(v) < ClassShift(w)
  <2>1. ClassBit(v) = P(ClassShift(v)) /\ ClassBit(w) = P(ClassShift(w))
    BY <1>3, <1>4, SmallWords DEF ClassBit, P
  <2> QED BY <1>3, <1>4, <2>1
<1>6. v % Half \in Nat /\ w % Half \in Nat
  BY SignAndMagnitude, HalfWords
<1>7. /\ v % Half <= w % Half => Rank(v) <= Rank(w)
      /\ w % Half <= v % Half => Rank(w) <= Rank(v)
  BY OrderAssumption
<1>8. Ordinal(v) <= Ordinal(w)
  BY <1>1, <1>5, <1>6, <1>7 DEF Ordinal
<1> QED BY <1>8 DEF LessEqual
-----------------------------------------------------------------------------
(* A guest that compares floats (module MCOrder).                          *)

(* What is true before instruction k of the program, and of 17 after it.   *)
OrderAssertion(k, v, w) ==
  /\ k <= 2 => xregs[t1] = OperandsAt
  /\ k > 1 => fregs[1] = v
  /\ k > 2 => fregs[2] = w
  /\ k > 3 => xregs[t1] = ClassBit(v)
  /\ k > 4 => xregs[t2] = ClassBit(w)
  /\ k > 5 => xregs[a0] = Bit(LessEqual(v, w))
  /\ k > 6 => xregs[a1] = Bit(Below(w, v))
  /\ k > 7 => fregs[3] = IF LessEqual(v, w) THEN v ELSE w
  /\ k > 8 => fregs[4] = IF LessEqual(v, w) THEN w ELSE v
  /\ k > 9 => fregs[5] = f32_neg(v)
  /\ k > 10 => fregs[6] = f32_neg(w)
  /\ k > 11 => xregs[a2] = Bit(LessEqual(f32_neg(w), f32_neg(v)))
  /\ k = 13 => fregs[7] = WithSign(IF Sign(v) = Sign(w) THEN 0 ELSE 1, v)
  /\ k > 13 => fregs[7] = v
  /\ k > 14 => fregs[8] = WithSign(Sign(w), v)
  /\ k > 15 => xregs[ra] = Bit(Alike(v, WithSign(Sign(w), v)))
  /\ k > 16 => xregs[a7] = kExit
  /\ NaN(v) \/ NaN(w) \/ fcsr = 0
  /\ softfloat_roundingMode = 0

OrderInv ==
  \E v, w \in Register :
    /\ memory = OrderImage(v, w)
    /\ \/ /\ status = "running" /\ ~ should_stop
          /\ \E k \in 1 .. 17 : ip = 4 * (k - 1) /\ OrderAssertion(k, v, w)
       \/ status \in {"running", "returned"} /\ should_stop /\ OrderAssertion(17, v, w)

(* The result of it all.                                                   *)
LEMMA OrderResults ==
  ASSUME OrderInv
  PROVE  FloatsAreOrdered
<1> SUFFICES ASSUME status = "returned" PROVE FloatsAreOrdered
  BY DEF FloatsAreOrdered
<1>1. PICK v, w \in Register : OrderAssertion(17, v, w)
  BY DEF OrderInv
<1>2. /\ fregs[1] = v /\ fregs[2] = w /\ fregs[7] = v
      /\ xregs[t1] = ClassBit(v) /\ xregs[t2] = ClassBit(w)
      /\ xregs[a0] = Bit(LessEqual(v, w)) /\ xregs[a1] = Bit(Below(w, v))
      /\ fregs[3] = (IF LessEqual(v, w) THEN v ELSE w)
      /\ fregs[4] = (IF LessEqual(v, w) THEN w ELSE v)
      /\ xregs[a2] = Bit(LessEqual(f32_neg(w), f32_neg(v)))
      /\ xregs[ra] = Bit(Alike(v, WithSign(Sign(w), v)))
      /\ NaN(v) \/ NaN(w) \/ fcsr = 0
  BY <1>1 DEF OrderAssertion
<1>3. xregs[ra] = 1 <=> ~ NaN(v) /\ (SameSign(v, w) \/ IsZero(v))
  BY <1>2, SignInjectionIsEqual DEF Bit
<1>4. CASE NaN(v) \/ NaN(w)
  <2>1. xregs[a0] = 0 /\ xregs[a1] = 0
    BY <1>2, <1>4 DEF Bit, LessEqual, Below
  <2> QED BY <1>2, <1>3, <1>4, <2>1 DEF FloatsAreOrdered
<1>5. CASE ~ NaN(v) /\ ~ NaN(w)
  <2>1. xregs[t1] < xregs[t2] => xregs[a0] = 1
    BY <1>2, <1>5, ClassesAreOrdered DEF Bit
  <2>2. (xregs[a1] = 1) = (xregs[a0] = 0)
    BY <1>2, <1>5, OrdinalsAreIntegers DEF Bit, LessEqual, Below
  <2>3. xregs[a2] = xregs[a0]
    BY <1>2, NegationReverses DEF Bit
  <2>4. {fregs[3], fregs[4]} = {v, w} /\ (xregs[a0] = 1 => fregs[3] = v)
    BY <1>2 DEF Bit
  <2>5. GetCSR(fflags) = 0
    <3>1. fcsr = 0 /\ 0 % 32 = 0
      BY <1>2, <1>5
    <3> QED BY <3>1 DEF GetCSR, fflags
  <2> QED BY <1>2, <1>3, <1>5, <2>1, <2>2, <2>3, <2>4, <2>5 DEF FloatsAreOrdered
<1> QED BY <1>4, <1>5
-----------------------------------------------------------------------------
(* The registers of this guest.                                            *)
LEMMA OrderRegs ==
  ASSUME IInv
  PROVE  /\ xregs \in [XReg -> Register] /\ fregs \in [FReg -> Register]
         /\ 0 .. 8 \subseteq XReg /\ 0 .. 8 \subseteq FReg
         /\ GetXReg(t1) = xregs[t1] /\ GetXReg(zero) = 0 /\ GetXReg(a7) = xregs[a7]
         /\ \A r \in {ra, t1, t2, a0, a1, a2, a7} : \A z : SetXReg(r, z) = [xregs EXCEPT ![r] = z]
<1>1. NumXRegisters \in Nat /\ 8 \in XReg
  BY OrderAssumption, RVSimAssumption DEF a7
<1>2. 0 .. 8 \subseteq XReg
  BY <1>1 DEF XReg
<1> QED BY <1>2 DEF IInv, TypeOK, FReg, GetXReg, SetXReg, ra, t1, t2, a0, a1, a2, a7, zero

(* The floats are in the second segment.                                   *)
LEMMA OperandsAreThere ==
  ASSUME NEW v \in Register, NEW w \in Register, NEW mem \in Seq(Segment), mem = OrderImage(v, w)
  PROVE  /\ DOMAIN mem = 1 .. 2
         /\ mem[1] = Text(0, WordsAfter(OrderAt, OrderProgram))
         /\ \A x \in {OperandsAt, OperandsAt + 4} :
              /\ Fits(mem, x, 4)
              /\ \A b \in LoadReplies(mem, x, 4) : Value(b, 4) = IF x = OperandsAt THEN v ELSE w
<1> DEFINE code == WordsAfter(OrderAt, OrderProgram)
           words == <<v, w>>
<1>1. DOMAIN mem = 1 .. 2 /\ mem[1] = Text(0, code) /\ mem[2] = Text(OperandsAt, words)
  BY DEF OrderImage
<1>2. Len(OrderProgram) = 17
  BY DEF OrderProgram
<1>3. code \in Seq(Register) /\ Len(code) = 17
  <2>1. OrderAt \in Nat /\ Len(OrderProgram) \in Nat /\ OrderAt + Len(OrderProgram) < 256
    BY <1>2 DEF OrderAt
  <2>2. code \in Seq(Register) /\ Len(code) = Len(OrderProgram)
    BY ONLY <2>1, WordsFit
  <2> QED BY <1>2, <2>2
<1>4. words \in Seq(Register) /\ Len(words) = 2 /\ words[1] = v /\ words[2] = w
  OBVIOUS
<1> HIDE DEF code, words
<1>5. mem[1].start = 0 /\ mem[1].end = 68
  <2>1. HoldsWords(Text(0, code), 0, code)
    BY <1>3, TextHoldsWords
  <2> QED BY <1>1, <1>3, <2>1 DEF HoldsWords
<1>6. mem[2].start = 72 /\ mem[2].end = 80
  <2>1. OperandsAt = 72
    BY DEF OperandsAt
  <2>2. HoldsWords(Text(OperandsAt, words), OperandsAt, words)
    BY <1>4, <2>1, TextHoldsWords
  <2> QED BY <1>1, <1>4, <2>1, <2>2 DEF HoldsWords
<1>7. ASSUME NEW n \in 1 .. 2
      PROVE  LET x == 72 + 4 * (n - 1)
             IN  Fits(mem, x, 4) /\ \A b \in LoadReplies(mem, x, 4) : Value(b, 4) = words[n]
  <2> DEFINE x == 72 + 4 * (n - 1)
  <2>1. x \in {72, 76}
    OBVIOUS
  <2> HIDE DEF x
  <2>2. IsAddrInSegment(x, mem[2]) /\ ~ IsAddrInSegment(x, mem[1])
    BY <1>5, <1>6, <2>1 DEF IsAddrInSegment
  <2>3. Hits(mem, 2, x)
    <3>1. \A l \in 1 .. 2 - 1 : l = 1
      OBVIOUS
    <3> QED BY <2>2, <3>1 DEF Hits
  <2>4. mem[2] = Text(72, words) /\ 2 \in DOMAIN mem
    BY <1>1 DEF OperandsAt
  <2>5. Hits(mem, 2, 72 + 4 * (n - 1))
    BY <2>3 DEF x
  <2> QED BY <1>4, <2>4, <2>5, WordIsThere DEF x
<1>8. /\ Fits(mem, 72, 4) /\ \A b \in LoadReplies(mem, 72, 4) : Value(b, 4) = v
      /\ Fits(mem, 76, 4) /\ \A b \in LoadReplies(mem, 76, 4) : Value(b, 4) = w
  <2>1. 72 + 4 * (1 - 1) = 72 /\ 72 + 4 * (2 - 1) = 76
    OBVIOUS
  <2> QED BY <1>4, <1>7, <2>1
<1> QED BY <1>1, <1>8 DEF OperandsAt, code
-----------------------------------------------------------------------------
(* What each kind of instruction does here.                                *)

Proceeds == ip' = NextIp /\ UNCHANGED <<memory, should_stop, status, softfloat_roundingMode>>

LEMMA OperandStep ==
  ASSUME IInv, NEW v \in Register, NEW w \in Register, memory = OrderImage(v, w),
         xregs[t1] = OperandsAt, NEW r, NEW imm \in {0, 4},
         Callback(Assemble("FLW", "none", r, t1, 0, imm))
  PROVE  /\ fregs' = [fregs EXCEPT ![r] = IF imm = 0 THEN v ELSE w]
         /\ UNCHANGED <<xregs, fcsr>> /\ Proceeds
<1> DEFINE i == Assemble("FLW", "none", r, t1, 0, imm)
<1>1. i.kind = "FLW" /\ i.rd = r /\ i.rs1 = t1 /\ i.imm = Trunc(imm)
  BY DEF Assemble
<1> HIDE DEF i
<1>2. FLoad(i)
  BY <1>1, KindDecides DEF i
<1>3. EffectiveAddress(i) = OperandsAt + imm
  <2>1. Trunc(imm) = imm /\ OperandsAt + imm \in 0 .. 255
    BY SmallWords DEF OperandsAt
  <2> QED BY <1>1, <2>1, OrderRegs, SmallWords DEF EffectiveAddress
<1>4. memory \in Seq(Segment)
  BY DEF IInv, TypeOK
<1>5. OperandsAt + imm \in {OperandsAt, OperandsAt + 4} /\ (OperandsAt + imm = OperandsAt <=> imm = 0)
  BY DEF OperandsAt
<1>6. Fits(memory, OperandsAt + imm, 4)
      /\ \A b \in LoadReplies(memory, OperandsAt + imm, 4) : Value(b, 4) = IF imm = 0 THEN v ELSE w
  BY <1>4, <1>5, OperandsAreThere
<1>7. PICK b \in LoadReplies(memory, OperandsAt + imm, 4) : FMove(r, Value(b, 4))
  BY <1>1, <1>2, <1>3, <1>6 DEF FLoad, Faults
<1> QED BY <1>6, <1>7 DEF FMove, SetFReg, Proceeds, softfloat

LEMMA ClassStep ==
  ASSUME IInv, NEW r \in {t1, t2}, NEW s, Callback(FPlain("FCLASS", "none", r, s, 0))
  PROVE  /\ xregs' = [xregs EXCEPT ![r] = ClassBit(fregs[s])]
         /\ UNCHANGED <<fregs, fcsr>> /\ Proceeds
<1> DEFINE i == FPlain("FCLASS", "none", r, s, 0)
<1>1. i.kind = "FCLASS" /\ i.rd = r /\ i.rs1 = s
  BY DEF FPlain, Assemble
<1> HIDE DEF i
<1>2. FClass(i)
  BY <1>1, KindDecides DEF i
<1>3. xregs' = SetXReg(r, ClassBit(fregs[s]))
  BY <1>1, <1>2 DEF FClass, Retire, ClassBit
<1>4. UNCHANGED <<fregs, fcsr>> /\ Proceeds
  BY <1>2 DEF FClass, Retire, Proceeds, floats, softfloat
<1> QED BY <1>3, <1>4, OrderRegs

Compares(op, v, w) ==
  CASE op = "FLE" -> LessEqual(v, w) [] op = "FLT" -> Below(v, w) [] OTHER -> Alike(v, w)

LEMMA RepliesAreRight ==
  ASSUME NEW op \in {"FLE", "FLT", "FEQ"}, NEW v \in Register, NEW w \in Register,
         NEW r \in Replies(CmpFunc(op), <<v, w>>, 0)
  PROVE  /\ r.v # 0 <=> Compares(op, v, w)
         /\ NaN(v) \/ NaN(w) \/ r.flags = 0
<1>1. CASE op = "FLE"
  <2>1. Answers("f32_le", v, w, Ordinal(v) <= Ordinal(w)) /\ CmpFunc(op) = "f32_le"
    BY <1>1, OrderAssumption DEF CmpFunc
  <2> QED BY <1>1, <2>1 DEF Answers, Compares, LessEqual
<1>2. CASE op = "FLT"
  <2>1. Answers("f32_lt", v, w, Ordinal(v) < Ordinal(w)) /\ CmpFunc(op) = "f32_lt"
    BY <1>2, OrderAssumption DEF CmpFunc
  <2> QED BY <1>2, <2>1 DEF Answers, Compares, Below
<1>3. CASE op = "FEQ"
  <2>1. Answers("f32_eq", v, w, Ordinal(v) = Ordinal(w)) /\ CmpFunc(op) = "f32_eq"
    BY <1>3, OrderAssumption DEF CmpFunc
  <2> QED BY <1>3, <2>1 DEF Answers, Compares, Alike
<1> QED BY <1>1, <1>2, <1>3

LEMMA CompareStep ==
  ASSUME IInv, softfloat_roundingMode = 0,
         NEW op \in {"FLE", "FLT", "FEQ"}, NEW r \in {a0, a1, a2, ra},
         NEW s \in FReg, NEW t \in FReg, Callback(FPlain("FCMP", op, r, s, t))
  PROVE  /\ xregs' = [xregs EXCEPT ![r] = Bit(Compares(op, fregs[s], fregs[t]))]
         /\ NaN(fregs[s]) \/ NaN(fregs[t]) \/ fcsr' = fcsr
         /\ fregs' = fregs /\ Proceeds
<1> DEFINE i == FPlain("FCMP", op, r, s, t)
<1>1. i.kind = "FCMP" /\ i.op = op /\ i.rd = r /\ i.rs1 = s /\ i.rs2 = t
  BY DEF FPlain, Assemble
<1> HIDE DEF i
<1>2. FCompare(i)
  BY <1>1, KindDecides DEF i
<1>3. PICK reply \in Replies(CmpFunc(op), <<fregs[s], fregs[t]>>, 0) :
        /\ xregs' = SetXReg(r, IF reply.v # 0 THEN 1 ELSE 0)
        /\ Accrue(reply.flags)
  BY <1>1, <1>2 DEF FCompare
<1>4. fregs[s] \in Register /\ fregs[t] \in Register
  BY OrderRegs
<1>5. /\ reply.v # 0 <=> Compares(op, fregs[s], fregs[t])
      /\ NaN(fregs[s]) \/ NaN(fregs[t]) \/ reply.flags = 0
  BY <1>4, RepliesAreRight
<1>6. fregs' = fregs /\ softfloat_roundingMode' = softfloat_roundingMode
  BY <1>2 DEF FCompare
<1>7. xregs' = [xregs EXCEPT ![r] = Bit(Compares(op, fregs[s], fregs[t]))]
  BY <1>3, <1>5, OrderRegs DEF Bit
<1> QED BY <1>3, <1>5, <1>6, <1>7 DEF Accrue, SetFExcp, Proceeds

LEMMA MinMaxStep ==
  ASSUME IInv, softfloat_roundingMode = 0, NEW op, NEW r, NEW s \in FReg, NEW t \in FReg,
         Callback(FPlain("FMINMAX", op, r, s, t))
  PROVE  /\ fregs' = [fregs EXCEPT ![r] = IF (op = "FMIN") = LessEqual(fregs[s], fregs[t])
                                          THEN fregs[s] ELSE fregs[t]]
         /\ UNCHANGED <<xregs, fcsr>> /\ Proceeds
<1> DEFINE i == FPlain("FMINMAX", op, r, s, t)
<1>1. i.kind = "FMINMAX" /\ i.op = op /\ i.rd = r /\ i.rs1 = s /\ i.rs2 = t
  BY DEF FPlain, Assemble
<1> HIDE DEF i
<1>2. FMinMax(i)
  BY <1>1, KindDecides DEF i
<1>3. PICK reply \in Replies("f32_le", <<fregs[s], fregs[t]>>, 0) :
        fregs' = SetFReg(r, Chosen(op, reply.v # 0, fregs[s], fregs[t]))
  BY <1>1, <1>2 DEF FMinMax
<1>4. fregs[s] \in Register /\ fregs[t] \in Register
  BY OrderRegs
<1>5. reply.v # 0 <=> LessEqual(fregs[s], fregs[t])
  <2>1. CmpFunc("FLE") = "f32_le"
    BY DEF CmpFunc
  <2>2. reply.v # 0 <=> Compares("FLE", fregs[s], fregs[t])
    BY <1>3, <1>4, <2>1, RepliesAreRight
  <2> QED BY <2>2 DEF Compares
<1>6. UNCHANGED <<xregs, fcsr>> /\ Proceeds
  BY <1>2 DEF FMinMax, Proceeds
<1>7. fregs' = [fregs EXCEPT ![r] = Chosen(op, reply.v # 0, fregs[s], fregs[t])]
  BY <1>3 DEF SetFReg
<1>8. Chosen(op, reply.v # 0, fregs[s], fregs[t]) =
        IF (op = "FMIN") = LessEqual(fregs[s], fregs[t]) THEN fregs[s] ELSE fregs[t]
  <2>1. CASE LessEqual(fregs[s], fregs[t])
    <3>1. (reply.v # 0) = LessEqual(fregs[s], fregs[t])
      BY <1>5, <2>1 DEF LessEqual
    <3> QED BY <3>1 DEF Chosen
  <2>2. CASE ~ LessEqual(fregs[s], fregs[t])
    <3>1. (reply.v # 0) = LessEqual(fregs[s], fregs[t])
      BY <1>5, <2>2 DEF LessEqual
    <3> QED BY <3>1 DEF Chosen
  <2> QED BY <2>1, <2>2
<1> QED BY <1>6, <1>7, <1>8

LEMMA SignStep ==
  ASSUME NEW op, NEW r, NEW s, NEW t, Callback(FPlain("FSGN", op, r, s, t))
  PROVE  LET s1 == Sign(fregs[s])
             s2 == Sign(fregs[t])
             sign == CASE op = "FSGNJ" -> s2 [] op = "FSGNJN" -> 1 - s2
                       [] OTHER -> IF s1 = s2 THEN 0 ELSE 1
         IN  /\ fregs' = [fregs EXCEPT ![r] = WithSign(sign, fregs[s])]
             /\ UNCHANGED <<xregs, fcsr>> /\ Proceeds
<1> DEFINE i == FPlain("FSGN", op, r, s, t)
<1>1. i.kind = "FSGN" /\ i.op = op /\ i.rd = r /\ i.rs1 = s /\ i.rs2 = t
  BY DEF FPlain, Assemble
<1> HIDE DEF i
<1>2. FSignInject(i)
  BY <1>1, KindDecides DEF i
<1> QED BY <1>1, <1>2 DEF FSignInject, FMove, SetFReg, Proceeds, softfloat

LEMMA ExitNumberStep ==
  ASSUME IInv, Callback(li(a7, 93))
  PROVE  xregs' = [xregs EXCEPT ![a7] = kExit] /\ UNCHANGED <<fregs, fcsr>> /\ Proceeds
<1> DEFINE i == li(a7, 93)
<1>1. i.kind = "RRI" /\ i.op = "ADD" /\ i.rd = a7 /\ i.rs1 = zero /\ i.imm = Trunc(93)
  BY DEF li, RRI, Assemble
<1> HIDE DEF i
<1>2. Compute(i)
  BY <1>1, KindDecides DEF i
<1>3. GetXReg(i.rs1) = 0 /\ Trunc(93) = 93 /\ 0 \in Register /\ 93 \in Register /\ Trunc(0 + 93) = 93
  BY <1>1, OrderRegs, SmallWords
<1>4. PICK z \in BinOpFunc("ADD", 0, 93) : Retire(a7, z, NextIp)
  BY <1>1, <1>2, <1>3 DEF Compute
<1>5. z = 93
  BY <1>3, <1>4, OrderAssumption
<1> QED BY <1>4, <1>5, OrderRegs DEF Retire, Proceeds, kExit, floats, softfloat

LEMMA LastStep ==
  ASSUME Callback(Plain("ECALL")), GetXReg(A7) = kExit
  PROVE  should_stop' /\ UNCHANGED <<memory, xregs, floats, status>>
<1> DEFINE i == Plain("ECALL")
<1>1. i.kind = "ECALL"
  BY DEF Plain, Assemble
<1> HIDE DEF i
<1>2. EcallExit(i) \/ EcallRead(i) \/ EcallWrite(i) \/ EcallUnknown(i)
  BY <1>1, KindDecides DEF i
<1>3. EcallExit(i)
  BY <1>2 DEF EcallRead, EcallWrite, EcallUnknown, Ecall, kRead, kWrite, kExit
<1> QED BY <1>3 DEF EcallExit
-----------------------------------------------------------------------------
(* The program, instruction by instruction.                                *)
LEMMA OrderText ==
  /\ Len(OrderProgram) = 17 /\ DOMAIN OrderProgram = 1 .. 17
  /\ OrderProgram[1] = Assemble("FLW", "none", 1, t1, 0, 0)
  /\ OrderProgram[2] = Assemble("FLW", "none", 2, t1, 0, 4)
  /\ OrderProgram[3] = FPlain("FCLASS", "none", t1, 1, 0)
  /\ OrderProgram[4] = FPlain("FCLASS", "none", t2, 2, 0)
  /\ OrderProgram[5] = FPlain("FCMP", "FLE", a0, 1, 2)
  /\ OrderProgram[6] = FPlain("FCMP", "FLT", a1, 2, 1)
  /\ OrderProgram[7] = FPlain("FMINMAX", "FMIN", 3, 1, 2)
  /\ OrderProgram[8] = FPlain("FMINMAX", "FMAX", 4, 1, 2)
  /\ OrderProgram[9] = FPlain("FSGN", "FSGNJN", 5, 1, 1)
  /\ OrderProgram[10] = FPlain("FSGN", "FSGNJN", 6, 2, 2)
  /\ OrderProgram[11] = FPlain("FCMP", "FLE", a2, 6, 5)
  /\ OrderProgram[12] = FPlain("FSGN", "FSGNJX", 7, 1, 2)
  /\ OrderProgram[13] = FPlain("FSGN", "FSGNJX", 7, 7, 2)
  /\ OrderProgram[14] = FPlain("FSGN", "FSGNJ", 8, 1, 2)
  /\ OrderProgram[15] = FPlain("FCMP", "FEQ", ra, 7, 8)
  /\ OrderProgram[16] = li(a7, 93)
  /\ OrderProgram[17] = Plain("ECALL")
BY DEF OrderProgram

LEMMA OrderFetch ==
  ASSUME IInv, NEW v \in Register, NEW w \in Register, memory = OrderImage(v, w),
         NEW k \in 1 .. 17, ip = 4 * (k - 1), Iterate
  PROVE  Callback(OrderProgram[k]) /\ NextIp = 4 * k
<1>1. memory \in Seq(Segment)
  BY DEF IInv, TypeOK
<1>2. DOMAIN memory = 1 .. 2 /\ memory[1] = Text(0, WordsAfter(OrderAt, OrderProgram))
  BY <1>1, OperandsAreThere
<1>3. /\ OrderAt \in Nat /\ Len(OrderProgram) \in Nat /\ OrderAt + Len(OrderProgram) < 256
      /\ Len(OrderProgram) < 32 /\ k \in 1 .. Len(OrderProgram) /\ 1 \in DOMAIN memory
  BY <1>2, OrderText DEF OrderAt
<1>4. Callback(Decode(OrderAt + k)) /\ NextIp = 4 * k
  BY <1>1, <1>2, <1>3, FetchFinds
<1>5. Decode(OrderAt + k) = OrderProgram[k]
  BY OrderText, OrderAssumption
<1> QED BY <1>4, <1>5

(* The loads and the classes.                                              *)
LEMMA OrderLoads ==
  ASSUME IInv, NEW v \in Register, NEW w \in Register, memory = OrderImage(v, w),
         NEW k \in 1 .. 4, OrderAssertion(k, v, w), Callback(OrderProgram[k])
  PROVE  OrderAssertion(k + 1, v, w)' /\ Proceeds
<1>1. CASE k \in {1, 2}
  <2>1. xregs[t1] = OperandsAt
    BY <1>1 DEF OrderAssertion
  <2>2. /\ fregs' = [fregs EXCEPT ![k] = IF k = 1 THEN v ELSE w]
        /\ UNCHANGED <<xregs, fcsr>> /\ Proceeds
    <3>1. CASE k = 1
      BY <2>1, <3>1, OrderText, OperandStep
    <3>2. CASE k = 2
      BY <2>1, <3>2, OrderText, OperandStep
    <3> QED BY <1>1, <3>1, <3>2
  <2> QED BY <1>1, <2>2, OrderRegs DEF OrderAssertion, Proceeds
<1>2. CASE k \in {3, 4}
  <2>1. fregs[1] = v /\ fregs[2] = w
    BY <1>2 DEF OrderAssertion
  <2>2. /\ xregs' = IF k = 3 THEN [xregs EXCEPT ![t1] = ClassBit(fregs[1])]
                    ELSE [xregs EXCEPT ![t2] = ClassBit(fregs[2])]
        /\ UNCHANGED <<fregs, fcsr>> /\ Proceeds
    <3>1. CASE k = 3
      BY <3>1, OrderText, ClassStep
    <3>2. CASE k = 4
      BY <3>2, OrderText, ClassStep
    <3> QED BY <1>2, <3>1, <3>2
  <2> QED BY <1>2, <2>1, <2>2, OrderRegs DEF OrderAssertion, Proceeds, t1, t2
<1> QED BY <1>1, <1>2

(* The comparisons.                                                        *)
LEMMA OrderCompares ==
  ASSUME IInv, NEW v \in Register, NEW w \in Register,
         NEW k \in {5, 6, 11, 15}, OrderAssertion(k, v, w), Callback(OrderProgram[k])
  PROVE  OrderAssertion(k + 1, v, w)' /\ Proceeds
<1>1. /\ fregs[1] = v /\ fregs[2] = w /\ softfloat_roundingMode = 0
      /\ NaN(v) \/ NaN(w) \/ fcsr = 0
  BY DEF OrderAssertion
<1>2. {1, 2, 5, 6, 7, 8} \subseteq FReg
  BY OrderRegs
<1>3. CASE k = 5
  <2>1. /\ xregs' = [xregs EXCEPT ![a0] = Bit(LessEqual(v, w))]
        /\ NaN(v) \/ NaN(w) \/ fcsr' = fcsr
        /\ fregs' = fregs /\ Proceeds
    BY <1>1, <1>2, <1>3, OrderText, CompareStep DEF Compares
  <2> QED BY <1>1, <1>3, <2>1, OrderRegs DEF OrderAssertion, Proceeds, t1, t2, a0
<1>4. CASE k = 6
  <2>1. /\ xregs' = [xregs EXCEPT ![a1] = Bit(Below(w, v))]
        /\ NaN(v) \/ NaN(w) \/ fcsr' = fcsr
        /\ fregs' = fregs /\ Proceeds
    BY <1>1, <1>2, <1>4, OrderText, CompareStep DEF Compares
  <2> QED BY <1>1, <1>4, <2>1, OrderRegs DEF OrderAssertion, Proceeds, t1, t2, a0, a1
<1>5. CASE k = 11
  <2>1. fregs[5] = f32_neg(v) /\ fregs[6] = f32_neg(w)
    BY <1>5 DEF OrderAssertion
  <2>2. (NaN(f32_neg(v)) <=> NaN(v)) /\ (NaN(f32_neg(w)) <=> NaN(w))
    <3>1. 1 - Sign(v) \in {0, 1} /\ 1 - Sign(w) \in {0, 1}
      BY SignAndMagnitude
    <3> QED BY <3>1, SignIsNoNaN DEF f32_neg
  <2>3. /\ xregs' = [xregs EXCEPT ![a2] = Bit(LessEqual(f32_neg(w), f32_neg(v)))]
        /\ NaN(v) \/ NaN(w) \/ fcsr' = fcsr
        /\ fregs' = fregs /\ Proceeds
    BY <1>1, <1>2, <1>5, <2>1, <2>2, OrderText, CompareStep DEF Compares
  <2> QED BY <1>1, <1>5, <2>3, OrderRegs DEF OrderAssertion, Proceeds, t1, t2, a0, a1, a2
<1>6. CASE k = 15
  <2>1. fregs[7] = v /\ fregs[8] = WithSign(Sign(w), v)
    BY <1>6 DEF OrderAssertion
  <2>2. NaN(WithSign(Sign(w), v)) <=> NaN(v)
    BY SignAndMagnitude, SignIsNoNaN
  <2>3. /\ xregs' = [xregs EXCEPT ![ra] = Bit(Alike(v, WithSign(Sign(w), v)))]
        /\ NaN(v) \/ NaN(w) \/ fcsr' = fcsr
        /\ fregs' = fregs /\ Proceeds
    BY <1>1, <1>2, <1>6, <2>1, <2>2, OrderText, CompareStep DEF Compares
  <2> QED BY <1>1, <1>6, <2>3, OrderRegs DEF OrderAssertion, Proceeds, t1, t2, a0, a1, a2, ra
<1> QED BY <1>3, <1>4, <1>5, <1>6

(* The instructions that write floats.                                     *)
LEMMA OrderChooses ==
  ASSUME IInv, NEW v \in Register, NEW w \in Register,
         NEW k \in {7, 8}, OrderAssertion(k, v, w), Callback(OrderProgram[k])
  PROVE  OrderAssertion(k + 1, v, w)' /\ Proceeds
<1>1. fregs[1] = v /\ fregs[2] = w /\ softfloat_roundingMode = 0
  BY DEF OrderAssertion
<1>2. {1, 2} \subseteq FReg
  BY OrderRegs
<1>3. CASE k = 7
  <2>1. /\ fregs' = [fregs EXCEPT ![3] = IF LessEqual(v, w) THEN v ELSE w]
        /\ UNCHANGED <<xregs, fcsr>> /\ Proceeds
    <3>1. ("FMIN" = "FMIN") = LessEqual(v, w) <=> LessEqual(v, w)
      BY DEF LessEqual
    <3> QED BY <1>1, <1>2, <1>3, <3>1, OrderText, MinMaxStep
  <2> QED BY <1>3, <2>1, OrderRegs DEF OrderAssertion, Proceeds
<1>4. CASE k = 8
  <2>1. /\ fregs' = [fregs EXCEPT ![4] = IF LessEqual(v, w) THEN w ELSE v]
        /\ UNCHANGED <<xregs, fcsr>> /\ Proceeds
    <3>1. ("FMAX" = "FMIN") = LessEqual(v, w) <=> ~ LessEqual(v, w)
      BY DEF LessEqual
    <3> QED BY <1>1, <1>2, <1>4, <3>1, OrderText, MinMaxStep
  <2> QED BY <1>4, <2>1, OrderRegs DEF OrderAssertion, Proceeds
<1> QED BY <1>3, <1>4

LEMMA OrderSigns ==
  ASSUME IInv, NEW v \in Register, NEW w \in Register,
         NEW k \in {9, 10, 12, 13, 14}, OrderAssertion(k, v, w), Callback(OrderProgram[k])
  PROVE  OrderAssertion(k + 1, v, w)' /\ Proceeds
<1> DEFINE x == IF Sign(v) = Sign(w) THEN 0 ELSE 1
<1>1. fregs[1] = v /\ fregs[2] = w
  BY DEF OrderAssertion
<1>2. CASE k = 9
  <2>1. fregs' = [fregs EXCEPT ![5] = f32_neg(v)] /\ UNCHANGED <<xregs, fcsr>> /\ Proceeds
    BY <1>1, <1>2, OrderText, SignStep DEF f32_neg
  <2> QED BY <1>2, <2>1, OrderRegs DEF OrderAssertion, Proceeds
<1>3. CASE k = 10
  <2>1. fregs' = [fregs EXCEPT ![6] = f32_neg(w)] /\ UNCHANGED <<xregs, fcsr>> /\ Proceeds
    BY <1>1, <1>3, OrderText, SignStep DEF f32_neg
  <2> QED BY <1>3, <2>1, OrderRegs DEF OrderAssertion, Proceeds
<1>4. CASE k = 12
  <2>1. fregs' = [fregs EXCEPT ![7] = WithSign(x, v)] /\ UNCHANGED <<xregs, fcsr>> /\ Proceeds
    BY <1>1, <1>4, OrderText, SignStep
  <2> QED BY <1>4, <2>1, OrderRegs DEF OrderAssertion, Proceeds
<1>5. CASE k = 13
  <2>1. fregs[7] = WithSign(x, v)
    BY <1>5 DEF OrderAssertion
  <2>2. Sign(v) \in {0, 1} /\ Sign(w) \in {0, 1} /\ x \in {0, 1}
    BY SignAndMagnitude
  <2>3. Sign(WithSign(x, v)) = x
    BY <2>2, SignIsSet
  <2>4. (IF x = Sign(w) THEN 0 ELSE 1) = Sign(v)
    BY <2>2
  <2>5. WithSign(Sign(v), WithSign(x, v)) = v
    BY <2>2, SignsComposed
  <2>6. fregs' = [fregs EXCEPT ![7] = v] /\ UNCHANGED <<xregs, fcsr>> /\ Proceeds
    <3> HIDE DEF x
    <3> QED BY <1>1, <1>5, <2>1, <2>3, <2>4, <2>5, OrderText, SignStep
  <2> QED BY <1>5, <2>6, OrderRegs DEF OrderAssertion, Proceeds
<1>6. CASE k = 14
  <2>1. fregs' = [fregs EXCEPT ![8] = WithSign(Sign(w), v)] /\ UNCHANGED <<xregs, fcsr>> /\ Proceeds
    BY <1>1, <1>6, OrderText, SignStep
  <2> QED BY <1>6, <2>1, OrderRegs DEF OrderAssertion, Proceeds
<1> QED BY <1>2, <1>3, <1>4, <1>5, <1>6

LEMMA OrderStepsOn ==
  ASSUME IInv, NEW v \in Register, NEW w \in Register, memory = OrderImage(v, w),
         NEW k \in 1 .. 16, OrderAssertion(k, v, w), Callback(OrderProgram[k])
  PROVE  OrderAssertion(k + 1, v, w)' /\ Proceeds
<1>1. CASE k \in 1 .. 4
  BY <1>1, OrderLoads
<1>2. CASE k \in {5, 6, 11, 15}
  BY <1>2, OrderCompares
<1>3. CASE k \in {7, 8}
  BY <1>3, OrderChooses
<1>4. CASE k \in {9, 10, 12, 13, 14}
  BY <1>4, OrderSigns
<1>5. CASE k = 16
  <2>1. xregs' = [xregs EXCEPT ![a7] = kExit] /\ UNCHANGED <<fregs, fcsr>> /\ Proceeds
    BY <1>5, OrderText, ExitNumberStep
  <2> QED BY <1>5, <2>1, OrderRegs
        DEF OrderAssertion, Proceeds, t1, t2, a0, a1, a2, ra, a7
<1>6. k \in 1 .. 4 \/ k \in {5, 6, 11, 15} \/ k \in {7, 8} \/ k \in {9, 10, 12, 13, 14} \/ k = 16
  OBVIOUS
<1> QED BY <1>1, <1>2, <1>3, <1>4, <1>5, <1>6

LEMMA OrderIterates ==
  ASSUME IInv, OrderInv, Iterate
  PROVE  OrderInv'
<1>1. status = "running" /\ ~ should_stop
  BY DEF Iterate
<1>2. PICK v, w \in Register :
        memory = OrderImage(v, w) /\ \E k \in 1 .. 17 : ip = 4 * (k - 1) /\ OrderAssertion(k, v, w)
  BY <1>1 DEF OrderInv
<1>3. PICK k \in 1 .. 17 : ip = 4 * (k - 1) /\ OrderAssertion(k, v, w)
  BY <1>2
<1>4. Callback(OrderProgram[k]) /\ NextIp = 4 * k
  BY <1>2, <1>3, OrderFetch
<1>5. CASE k \in 1 .. 16
  <2>1. OrderAssertion(k + 1, v, w)' /\ Proceeds
    BY <1>2, <1>3, <1>4, <1>5, OrderStepsOn
  <2>2. k + 1 \in 1 .. 17 /\ ip' = 4 * ((k + 1) - 1)
    BY <1>4, <1>5, <2>1 DEF Proceeds
  <2>3. memory' = OrderImage(v, w) /\ status' = "running" /\ ~ should_stop'
    BY <1>1, <1>2, <2>1 DEF Proceeds
  <2>4. \E n \in 1 .. 17 : ip' = 4 * (n - 1) /\ OrderAssertion(n, v, w)'
    BY <2>1, <2>2
  <2> QED BY <2>3, <2>4 DEF OrderInv
<1>6. CASE k = 17
  <2>1. GetXReg(A7) = kExit
    <3>1. xregs[a7] = kExit
      BY <1>3, <1>6 DEF OrderAssertion
    <3> QED BY <3>1, OrderRegs, OrderAssumption
  <2>2. should_stop' /\ UNCHANGED <<memory, xregs, floats, status>>
    BY <1>4, <1>6, <2>1, OrderText, LastStep
  <2>3. OrderAssertion(17, v, w)'
    BY <1>3, <1>6, <2>2 DEF OrderAssertion, floats, softfloat
  <2> QED BY <1>1, <1>2, <2>2, <2>3 DEF OrderInv
<1>7. k \in 1 .. 16 \/ k = 17
  OBVIOUS
<1> QED BY <1>5, <1>6, <1>7

LEMMA InitOrderInv == OrderInit => OrderInv
<1> SUFFICES ASSUME OrderInit PROVE OrderInv
  OBVIOUS
<1>1. PICK v, w \in Register : memory = OrderImage(v, w)
  BY DEF OrderInit, OrderStart
<1>2. /\ xregs[t1] = OperandsAt /\ ip = 0 /\ status = "running" /\ ~ should_stop
      /\ fcsr = 0 /\ softfloat_roundingMode = 0
  BY DEF OrderInit, OrderStart, Init
<1>3. OrderAssertion(1, v, w) /\ ip = 4 * (1 - 1)
  BY <1>2 DEF OrderAssertion
<1> QED BY <1>1, <1>2, <1>3 DEF OrderInv

LEMMA NextOrderInv == IInv /\ OrderInv /\ [Next]_vars => OrderInv'
<1> SUFFICES ASSUME IInv, OrderInv, [Next]_vars PROVE OrderInv'
  OBVIOUS
<1>1. CASE Iterate
  BY <1>1, OrderIterates
<1>2. CASE Return \/ UNCHANGED vars
  <2>1. /\ UNCHANGED <<memory, ip, xregs, fregs, fcsr, softfloat_roundingMode, should_stop>>
        /\ status' = status \/ (status' = "returned" /\ should_stop)
    BY <1>2 DEF Return, vars, floats, softfloat
  <2>2. \A k, v, w : OrderAssertion(k, v, w)' <=> OrderAssertion(k, v, w)
    BY <2>1 DEF OrderAssertion
  <2> QED BY <2>1, <2>2 DEF OrderInv
<1> QED BY <1>1, <1>2 DEF Next

(* The guest of MCOrder, in any build, for any two floats: FCLASS, FLE,    *)
(* FLT, FEQ, FMIN, FMAX and the sign injections agree on one order, in     *)
(* which a NaN has no place, and raise no exception without one            *)
(* (ext_f_cb.cpp:60-66,117-135,280-395,498-538).                           *)
THEOREM FloatInstructionsAgree == OrderSpec => []FloatsAreOrdered
<1>1. OrderSpec => Spec
  <2>1. OrderInit => Init
    BY DEF OrderInit, OrderStart
  <2> QED BY <2>1, PTL DEF OrderSpec, Spec
<1>2. OrderInv => FloatsAreOrdered
  BY OrderResults
<1> QED BY <1>1, <1>2, AlwaysIInv, InitOrderInv, NextOrderInv, PTL DEF OrderSpec
-----------------------------------------------------------------------------
(* A guest that rounds in the mode of frm (module MCRounding).             *)

(* What is true before instruction k of the program, and of 9 after it.    *)
RoundingAssertion(k) ==
  LET n == Signed(xregs[t1])
      d == xregs[t2]
      m == xregs[a1]
  IN  /\ k <= 4 => fcsr \in 0 .. 31 /\ softfloat_roundingMode = 0
      /\ k \in {2, 3} => fregs[1] \in Converted(xregs[t1])
      /\ k = 3 => fregs[2] \in Converted(d)
      /\ k \in 4 .. 6 => fregs[1] \in Quotients(xregs[t1], d)
      /\ k = 5 => \E flags \in 0 .. 31 : fcsr = 32 * m + flags
      /\ k = 6 => fcsr = 32 * m
      /\ k = 7 => fcsr = 32 * m + Inexact(n, d)
      /\ k > 6 => Signed(xregs[a0]) = Quotient(n, d, m)
      /\ k > 7 => xregs[a2] = Inexact(n, d)
      /\ k > 8 => xregs[a7] = kExit

RoundingInv ==
  /\ memory = RoundingImage /\ RoundingOperands(xregs)
  /\ \/ /\ status = "running" /\ ~ should_stop
        /\ \E k \in 1 .. 9 : ip = 4 * (k - 1) /\ RoundingAssertion(k)
     \/ status \in {"running", "returned"} /\ should_stop /\ RoundingAssertion(9)

LEMMA RoundingResults == RoundingInv => DynamicModeRounds
BY DEF RoundingInv, RoundingAssertion, DynamicModeRounds

(* The fields of fcsr that this guest uses.                                *)
LEMMA FcsrFields ==
  ASSUME NEW m \in 0 .. 7, NEW f \in 0 .. 31
  PROVE  /\ (32 * m + f) % 32 = f /\ ((32 * m + f) \div 32) % 8 = m
         /\ 32 * m + f \in 0 .. 255
OBVIOUS

LEMMA FlagsAccrue ==
  ASSUME fcsr \in 0 .. 31, NEW flags \in 0 .. 31
  PROVE  SetFExcp(flags) \in 0 .. 31
<1> DEFINE all == BitOr(fcsr, flags)
<1>1. all \in 0 .. 31 /\ fcsr % 32 = fcsr
  BY BitAssumption
<1>2. GetCSR(fflags) = fcsr /\ SetCSR(fflags, all) = (fcsr - (fcsr % 32)) + (all % 32)
  BY <1>1 DEF GetCSR, SetCSR, fflags, frm
<1> HIDE DEF all
<1>3. (fcsr - (fcsr % 32)) + (all % 32) = all
  BY <1>1
<1>4. SetFExcp(flags) = fcsr \/ SetFExcp(flags) = SetCSR(fflags, all)
  BY <1>2 DEF SetFExcp, all
<1> QED BY <1>1, <1>2, <1>3, <1>4

LEMMA RoundingRegs ==
  ASSUME IInv
  PROVE  /\ xregs \in [XReg -> Register] /\ fregs \in [FReg -> Register]
         /\ 0 .. 8 \subseteq XReg /\ 0 .. 8 \subseteq FReg
         /\ \A r \in {t1, t2, a1, a7} : GetXReg(r) = xregs[r]
         /\ GetXReg(zero) = 0
         /\ \A r \in {a0, a2, a7} : \A z : SetXReg(r, z) = [xregs EXCEPT ![r] = z]
         /\ \A z : SetXReg(zero, z) = xregs
<1>1. NumXRegisters \in Nat /\ 8 \in XReg
  BY RoundingAssumption, RVSimAssumption DEF a7
<1>2. 0 .. 8 \subseteq XReg
  BY <1>1 DEF XReg
<1> QED BY <1>2 DEF IInv, TypeOK, FReg, GetXReg, SetXReg, t1, t2, a0, a1, a2, a7, zero

(* What an instruction here leaves alone.                                  *)
RoundsOn == ip' = NextIp /\ UNCHANGED <<memory, should_stop, status>>

LEMMA ConvertStep ==
  ASSUME IInv, softfloat_roundingMode = 0, fcsr \in 0 .. 31, NEW r \in {1, 2}, NEW s \in {t1, t2},
         Callback(FRounded("FCVT_TO_F", "FCVT_S_W", r, s, 0, 0, DYN))
  PROVE  /\ \E z \in Converted(xregs[s]) : fregs' = [fregs EXCEPT ![r] = z]
         /\ fcsr' \in 0 .. 31
         /\ UNCHANGED <<xregs, softfloat_roundingMode>> /\ RoundsOn
<1> DEFINE i == FRounded("FCVT_TO_F", "FCVT_S_W", r, s, 0, 0, DYN)
<1>1. i.kind = "FCVT_TO_F" /\ i.op = "FCVT_S_W" /\ i.rd = r /\ i.rs1 = s
  BY DEF FRounded, Assemble
<1> HIDE DEF i
<1>2. FToFloat(i)
  BY <1>1, KindDecides DEF i
<1>3. PICK reply \in Replies("i32_to_f32", <<xregs[s]>>, 0) :
        fregs' = [fregs EXCEPT ![r] = reply.v] /\ Accrue(reply.flags)
  BY <1>1, <1>2, RoundingRegs DEF FToFloat, SetFReg
<1>4. fcsr' \in 0 .. 31
  BY <1>3, FlagsAccrue DEF Replies, FloatReply, Accrue
<1> QED BY <1>2, <1>3, <1>4 DEF Converted, FToFloat, Accrue, RoundsOn

LEMMA DivideStep ==
  ASSUME IInv, softfloat_roundingMode = 0, fcsr \in 0 .. 31,
         Callback(FRounded("FARITH", "FDIV", 1, 1, 2, 0, DYN))
  PROVE  /\ \E q \in Replies("f32_div", <<fregs[1], fregs[2]>>, 0) :
              fregs' = [fregs EXCEPT ![1] = q.v]
         /\ fcsr' \in 0 .. 31
         /\ UNCHANGED <<xregs, softfloat_roundingMode>> /\ RoundsOn
<1> DEFINE i == FRounded("FARITH", "FDIV", 1, 1, 2, 0, DYN)
<1>1. i.kind = "FARITH" /\ i.op = "FDIV" /\ i.rd = 1 /\ i.rs1 = 1 /\ i.rs2 = 2 /\ i.rm = DYN
  BY DEF FRounded, Assemble
<1> HIDE DEF i
<1>2. FArith(i)
  BY <1>1, KindDecides DEF i
<1>3. GetRM(i.rm) = 0
  <2>1. (fcsr \div 32) % 8 = 0
    OBVIOUS
  <2> QED BY <1>1, <2>1 DEF GetRM, GetCSR, frm, fflags
<1>4. ~ RoundingFails(i) /\ ModeSet(GetRM(i.rm)) = 0
  BY <1>3 DEF RoundingFails, DYN, ModeSet, RoundingModes
<1>5. softfloat_roundingMode' = 0 /\ xregs' = xregs
  BY <1>2, <1>4 DEF FArith
<1>6. ArithFunc(i.op) = "f32_div" /\ ArithArgs(i) = <<fregs[1], fregs[2]>>
      /\ \A v : ArithResult(i.op, v) = v
  BY <1>1 DEF ArithFunc, ArithArgs, ArithResult
<1>7. PICK q \in Replies("f32_div", <<fregs[1], fregs[2]>>, 0) :
        fregs' = [fregs EXCEPT ![1] = q.v] /\ Accrue(q.flags)
  BY <1>1, <1>2, <1>4, <1>5, <1>6 DEF FArith, SetFReg
<1>8. fcsr' \in 0 .. 31
  BY <1>7, FlagsAccrue DEF Replies, FloatReply, Accrue
<1> QED BY <1>5, <1>7, <1>8 DEF Accrue, RoundsOn

(* The three CSR instructions.                                             *)
LEMMA CsrStep ==
  ASSUME IInv, NEW op, NEW r, NEW csr \in {fflags, frm}, NEW source,
         Callback(CsrI(op, r, csr, source))
  PROVE  LET i == CsrI(op, r, csr, source)
         IN  /\ fcsr' = SetCSR(csr, CsrValue(i, GetCSR(csr)))
             /\ xregs' = SetXReg(r, GetCSR(csr))
             /\ UNCHANGED <<fregs, softfloat_roundingMode>> /\ RoundsOn
<1> DEFINE i == CsrI(op, r, csr, source)
<1>1. i.kind = "CSR" /\ i.op = op /\ i.rd = r /\ i.rs1 = source /\ i.imm = csr
  <2>1. Trunc(csr) = csr
    BY SmallWords DEF fflags, frm
  <2> QED BY <2>1 DEF CsrI, Assemble
<1> HIDE DEF i
<1>2. Csr(i)
  BY <1>1, KindDecides DEF i
<1>3. i.imm \in KnownCSRs
  BY <1>1 DEF KnownCSRs
<1>4. /\ fcsr' = SetCSR(csr, CsrValue(i, GetCSR(csr)))
      /\ xregs' = SetXReg(r, GetCSR(csr))
      /\ UNCHANGED <<fregs, softfloat_roundingMode>> /\ RoundsOn
  BY <1>1, <1>2, <1>3 DEF Csr, RoundsOn, softfloat
<1> QED BY <1>4 DEF i

(* A conversion in the dynamic mode, with fflags clear.                    *)
LEMMA RoundStep ==
  ASSUME IInv, NEW m \in RoundingModes, fcsr = 32 * m,
         Callback(FRounded("FCVT_TO_X", "FCVT_W_S", a0, 1, 0, 0, DYN))
  PROVE  /\ \E r \in Replies("f32_to_i32", <<fregs[1]>>, m) :
              /\ xregs' = [xregs EXCEPT ![a0] = r.v]
              /\ r.flags = 0 => fcsr' = 32 * m
              /\ r.flags = 1 => fcsr' = 32 * m + 1
         /\ fregs' = fregs /\ RoundsOn
<1> DEFINE i == FRounded("FCVT_TO_X", "FCVT_W_S", a0, 1, 0, 0, DYN)
<1>1. i.kind = "FCVT_TO_X" /\ i.op = "FCVT_W_S" /\ i.rd = a0 /\ i.rs1 = 1 /\ i.rm = DYN
  BY DEF FRounded, Assemble
<1> HIDE DEF i
<1>2. FToInteger(i)
  BY <1>1, KindDecides DEF i
<1>3. m \in 0 .. 7 /\ fcsr = 32 * m + 0 /\ fcsr % 32 = 0 /\ (fcsr \div 32) % 8 = m
  BY DEF RoundingModes
<1>4. GetRM(i.rm) = m
  BY <1>1, <1>3 DEF GetRM, GetCSR, frm, fflags
<1>5. ~ RoundingFails(i) /\ ModeReturned(GetRM(i.rm)) = m
  BY <1>4 DEF RoundingFails, DYN, ModeReturned, RoundingModes
<1>6. PICK r \in Replies("f32_to_i32", <<fregs[1]>>, m) :
        xregs' = [xregs EXCEPT ![a0] = r.v] /\ Accrue(r.flags)
  BY <1>1, <1>2, <1>5, RoundingRegs DEF FToInteger
<1>7. fregs' = fregs
  BY <1>2, <1>5 DEF FToInteger
<1>8. r.flags = 0 => fcsr' = 32 * m
  BY <1>6 DEF Accrue, SetFExcp
<1>9. r.flags = 1 => fcsr' = 32 * m + 1
  <2>1. GetCSR(fflags) = 0 /\ SetCSR(fflags, 1) = (fcsr - (fcsr % 32)) + (1 % 32)
    BY <1>3 DEF GetCSR, SetCSR, fflags, frm
  <2>2. (fcsr - (fcsr % 32)) + (1 % 32) = 32 * m + 1
    BY <1>3
  <2>3. r.flags = 1 => fcsr' = SetCSR(fflags, BitOr(0, 1))
    BY <1>6, <2>1 DEF Accrue, SetFExcp
  <2> QED BY <2>1, <2>2, <2>3, RoundingAssumption
<1> QED BY <1>6, <1>7, <1>8, <1>9 DEF Accrue, RoundsOn

LEMMA RoundingExitNumber ==
  ASSUME IInv, Callback(li(a7, 93))
  PROVE  /\ xregs' = [xregs EXCEPT ![a7] = kExit]
         /\ UNCHANGED <<fregs, fcsr, softfloat_roundingMode>> /\ RoundsOn
<1> DEFINE i == li(a7, 93)
<1>1. i.kind = "RRI" /\ i.op = "ADD" /\ i.rd = a7 /\ i.rs1 = zero /\ i.imm = Trunc(93)
  BY DEF li, RRI, Assemble
<1> HIDE DEF i
<1>2. Compute(i)
  BY <1>1, KindDecides DEF i
<1>3. GetXReg(i.rs1) = 0 /\ Trunc(93) = 93 /\ 0 \in Register /\ 93 \in Register /\ Trunc(0 + 93) = 93
  BY <1>1, RoundingRegs, SmallWords
<1>4. PICK z \in BinOpFunc("ADD", 0, 93) : Retire(a7, z, NextIp)
  BY <1>1, <1>2, <1>3 DEF Compute
<1>5. z = 93
  BY <1>3, <1>4, RoundingAssumption
<1> QED BY <1>4, <1>5, RoundingRegs DEF Retire, RoundsOn, kExit, floats, softfloat
-----------------------------------------------------------------------------
LEMMA RoundingText ==
  /\ Len(RoundingProgram) = 9 /\ DOMAIN RoundingProgram = 1 .. 9
  /\ RoundingProgram[1] = FRounded("FCVT_TO_F", "FCVT_S_W", 1, t1, 0, 0, DYN)
  /\ RoundingProgram[2] = FRounded("FCVT_TO_F", "FCVT_S_W", 2, t2, 0, 0, DYN)
  /\ RoundingProgram[3] = FRounded("FARITH", "FDIV", 1, 1, 2, 0, DYN)
  /\ RoundingProgram[4] = CsrI("CSRRW", zero, frm, a1)
  /\ RoundingProgram[5] = CsrI("CSRRWI", zero, fflags, 0)
  /\ RoundingProgram[6] = FRounded("FCVT_TO_X", "FCVT_W_S", a0, 1, 0, 0, DYN)
  /\ RoundingProgram[7] = CsrI("CSRRS", a2, fflags, zero)
  /\ RoundingProgram[8] = li(a7, 93)
  /\ RoundingProgram[9] = Plain("ECALL")
BY DEF RoundingProgram

LEMMA RoundingFetch ==
  ASSUME IInv, memory = RoundingImage, NEW k \in 1 .. 9, ip = 4 * (k - 1), Iterate
  PROVE  Callback(RoundingProgram[k]) /\ NextIp = 4 * k
<1>1. memory \in Seq(Segment) /\ 1 \in DOMAIN memory
      /\ memory[1] = Text(0, WordsAfter(RoundingAt, RoundingProgram))
  BY DEF IInv, TypeOK, RoundingImage
<1>2. /\ RoundingAt \in Nat /\ Len(RoundingProgram) \in Nat
      /\ RoundingAt + Len(RoundingProgram) < 256
      /\ Len(RoundingProgram) < 32 /\ k \in 1 .. Len(RoundingProgram)
  BY RoundingText DEF RoundingAt
<1>3. Callback(Decode(RoundingAt + k)) /\ NextIp = 4 * k
  BY <1>1, <1>2, FetchFinds
<1>4. Decode(RoundingAt + k) = RoundingProgram[k]
  BY RoundingText, RoundingAssumption
<1> QED BY <1>3, <1>4

(* The operands stay in their registers.                                   *)
LEMMA OperandsStay ==
  ASSUME IInv, RoundingOperands(xregs), NEW r \in {a0, a2, a7}, NEW z,
         xregs' = [xregs EXCEPT ![r] = z]
  PROVE  /\ RoundingOperands(xregs')
         /\ xregs'[t1] = xregs[t1] /\ xregs'[t2] = xregs[t2] /\ xregs'[a1] = xregs[a1]
         /\ xregs'[r] = z /\ \A s \in {a0, a2, a7} : s # r => xregs'[s] = xregs[s]
<1>1. r # t1 /\ r # t2 /\ r # a1
  BY DEF t1, t2, a0, a1, a2, a7
<1>2. r \in XReg /\ {t1, t2, a1, a0, a2, a7} \subseteq XReg /\ xregs \in [XReg -> Register]
  BY RoundingRegs DEF t1, t2, a0, a1, a2, a7
<1>3. xregs'[t1] = xregs[t1] /\ xregs'[t2] = xregs[t2] /\ xregs'[a1] = xregs[a1]
      /\ xregs'[r] = z /\ \A s \in {a0, a2, a7} : s # r => xregs'[s] = xregs[s]
  BY <1>1, <1>2
<1> QED BY <1>3 DEF RoundingOperands

LEMMA RoundingComputes ==
  ASSUME IInv, RoundingOperands(xregs), NEW k \in 1 .. 3,
         RoundingAssertion(k), Callback(RoundingProgram[k])
  PROVE  RoundingAssertion(k + 1)' /\ RoundsOn /\ RoundingOperands(xregs')
<1>1. fcsr \in 0 .. 31 /\ softfloat_roundingMode = 0
  BY DEF RoundingAssertion
<1>2. fregs \in [FReg -> Register] /\ {1, 2} \subseteq FReg
  BY RoundingRegs
<1>3. CASE k = 1
  <2>1. PICK z \in Converted(xregs[t1]) :
          /\ fregs' = [fregs EXCEPT ![1] = z] /\ fcsr' \in 0 .. 31
          /\ UNCHANGED <<xregs, softfloat_roundingMode>> /\ RoundsOn
    BY <1>1, <1>3, RoundingText, ConvertStep
  <2>2. fregs'[1] = z
    BY <1>2, <2>1
  <2> QED BY <1>1, <1>3, <2>1, <2>2 DEF RoundingAssertion
<1>4. CASE k = 2
  <2>1. PICK z \in Converted(xregs[t2]) :
          /\ fregs' = [fregs EXCEPT ![2] = z] /\ fcsr' \in 0 .. 31
          /\ UNCHANGED <<xregs, softfloat_roundingMode>> /\ RoundsOn
    BY <1>1, <1>4, RoundingText, ConvertStep
  <2>2. fregs'[2] = z /\ fregs'[1] = fregs[1]
    BY <1>2, <2>1
  <2> QED BY <1>1, <1>4, <2>1, <2>2 DEF RoundingAssertion
<1>5. CASE k = 3
  <2>1. fregs[1] \in Converted(xregs[t1]) /\ fregs[2] \in Converted(xregs[t2])
    BY <1>5 DEF RoundingAssertion
  <2>2. PICK q \in Replies("f32_div", <<fregs[1], fregs[2]>>, 0) :
          /\ fregs' = [fregs EXCEPT ![1] = q.v] /\ fcsr' \in 0 .. 31
          /\ UNCHANGED <<xregs, softfloat_roundingMode>> /\ RoundsOn
    BY <1>1, <1>5, RoundingText, DivideStep
  <2>3. fregs'[1] = q.v
    BY <1>2, <2>2
  <2>4. q.v \in Quotients(xregs[t1], xregs[t2])
    <3> DEFINE of(a, b) == {r.v : r \in Replies("f32_div", <<a, b>>, 0)}
    <3>1. q.v \in of(fregs[1], fregs[2])
      BY <2>2
    <3> HIDE DEF of
    <3>2. q.v \in UNION {of(a, b) : a \in Converted(xregs[t1]), b \in Converted(xregs[t2])}
      BY <2>1, <3>1
    <3> QED BY ONLY <3>2, SMTT(30) DEF of, Quotients
  <2> QED BY <1>1, <1>5, <2>2, <2>3, <2>4 DEF RoundingAssertion
<1> QED BY <1>3, <1>4, <1>5

LEMMA RoundingSetsMode ==
  ASSUME IInv, RoundingOperands(xregs), NEW k \in {4, 5},
         RoundingAssertion(k), Callback(RoundingProgram[k])
  PROVE  RoundingAssertion(k + 1)' /\ RoundsOn /\ RoundingOperands(xregs')
<1>1. fregs[1] \in Quotients(xregs[t1], xregs[t2])
  BY DEF RoundingAssertion
<1>2. xregs[a1] \in 0 .. 4
  BY DEF RoundingOperands, RoundingModes
<1>3. CASE k = 4
  <2>1. fcsr \in 0 .. 31
    BY <1>3 DEF RoundingAssertion
  <2> DEFINE i == CsrI("CSRRW", zero, frm, a1)
  <2>2. /\ fcsr' = SetCSR(frm, CsrValue(i, GetCSR(frm))) /\ xregs' = xregs
        /\ UNCHANGED <<fregs, softfloat_roundingMode>> /\ RoundsOn
    <3>1. Callback(i)
      BY <1>3, RoundingText
    <3>2. \A z : SetXReg(zero, z) = xregs
      BY RoundingRegs
    <3> QED BY <3>1, <3>2, CsrStep
  <2>3. CsrValue(i, GetCSR(frm)) = xregs[a1]
    <3>1. i.op = "CSRRW" /\ i.rs1 = a1
      BY DEF CsrI, Assemble
    <3> HIDE DEF i
    <3> QED BY <3>1, RoundingRegs DEF CsrValue, CsrOperand
  <2>4. SetCSR(frm, xregs[a1]) = (fcsr - 32 * ((fcsr \div 32) % 8)) + 32 * (xregs[a1] % 8)
    BY DEF SetCSR, frm, fflags
  <2>5. (fcsr - 32 * ((fcsr \div 32) % 8)) + 32 * (xregs[a1] % 8) = 32 * xregs[a1] + fcsr
    BY <1>2, <2>1
  <2>6. fcsr' = 32 * xregs[a1] + fcsr
    BY <2>2, <2>3, <2>4, <2>5
  <2> HIDE DEF i
  <2> QED BY <1>1, <1>3, <2>1, <2>2, <2>6 DEF RoundingAssertion
<1>4. CASE k = 5
  <2>1. PICK flags \in 0 .. 31 : fcsr = 32 * xregs[a1] + flags
    BY <1>4 DEF RoundingAssertion
  <2> DEFINE i == CsrI("CSRRWI", zero, fflags, 0)
  <2>2. /\ fcsr' = SetCSR(fflags, CsrValue(i, GetCSR(fflags))) /\ xregs' = xregs
        /\ UNCHANGED <<fregs, softfloat_roundingMode>> /\ RoundsOn
    <3>1. Callback(i)
      BY <1>4, RoundingText
    <3>2. \A z : SetXReg(zero, z) = xregs
      BY RoundingRegs
    <3> QED BY <3>1, <3>2, CsrStep
  <2>3. CsrValue(i, GetCSR(fflags)) = 0
    <3>1. i.op = "CSRRWI" /\ i.rs1 = 0
      BY DEF CsrI, Assemble
    <3> HIDE DEF i
    <3> QED BY <3>1 DEF CsrValue, CsrOperand
  <2>4. SetCSR(fflags, 0) = (fcsr - (fcsr % 32)) + (0 % 32)
    BY DEF SetCSR, fflags, frm
  <2>5. (fcsr - (fcsr % 32)) + (0 % 32) = 32 * xregs[a1]
    <3>1. fcsr % 32 = flags
      BY <1>2, <2>1, FcsrFields
    <3> QED BY <1>2, <2>1, <3>1
  <2>6. fcsr' = 32 * xregs[a1]
    BY <2>2, <2>3, <2>4, <2>5
  <2> HIDE DEF i
  <2> QED BY <1>1, <1>4, <2>2, <2>6 DEF RoundingAssertion
<1> QED BY <1>3, <1>4

LEMMA RoundingEnds ==
  ASSUME IInv, RoundingOperands(xregs), NEW k \in {6, 7, 8},
         RoundingAssertion(k), Callback(RoundingProgram[k])
  PROVE  RoundingAssertion(k + 1)' /\ RoundsOn /\ RoundingOperands(xregs')
<1> DEFINE x == xregs[t1]
           n == Signed(x)
           d == xregs[t2]
           m == xregs[a1]
<1>1. n \in Numerators /\ d \in Denominators /\ m \in RoundingModes /\ x \in Register
  BY RoundingRegs DEF RoundingOperands, t1
<1>2. m \in 0 .. 7 /\ Inexact(n, d) \in {0, 1}
  BY <1>1 DEF RoundingModes, Inexact
<1>3. CASE k = 6
  <2>1. fregs[1] \in Quotients(x, d) /\ fcsr = 32 * m
    BY <1>3 DEF RoundingAssertion
  <2>2. PICK r \in Replies("f32_to_i32", <<fregs[1]>>, m) :
          /\ xregs' = [xregs EXCEPT ![a0] = r.v]
          /\ r.flags = 0 => fcsr' = 32 * m
          /\ r.flags = 1 => fcsr' = 32 * m + 1
          /\ fregs' = fregs /\ RoundsOn
    BY <1>1, <1>3, <2>1, RoundingText, RoundStep
  <2>3. Signed(r.v) = Quotient(n, d, m) /\ r.flags = Inexact(n, d)
    BY <1>1, <2>1, RoundingAssumption
  <2>4. fcsr' = 32 * m + Inexact(n, d)
    BY <1>2, <2>2, <2>3
  <2>5. /\ RoundingOperands(xregs')
        /\ xregs'[t1] = x /\ xregs'[t2] = d /\ xregs'[a1] = m /\ xregs'[a0] = r.v
    BY <2>2, OperandsStay
  <2> QED BY <1>3, <2>2, <2>3, <2>4, <2>5 DEF RoundingAssertion
<1>4. CASE k = 7
  <2>1. fcsr = 32 * m + Inexact(n, d) /\ Signed(xregs[a0]) = Quotient(n, d, m)
    BY <1>4 DEF RoundingAssertion
  <2>2. xregs' = [xregs EXCEPT ![a2] = GetCSR(fflags)] /\ RoundsOn
    <3>1. Callback(CsrI("CSRRS", a2, fflags, zero))
      BY <1>4, RoundingText
    <3>2. xregs' = SetXReg(a2, GetCSR(fflags)) /\ RoundsOn
      BY <3>1, CsrStep
    <3> QED BY <3>2, RoundingRegs
  <2>3. GetCSR(fflags) = Inexact(n, d)
    <3>1. fcsr % 32 = Inexact(n, d)
      BY <1>2, <2>1, FcsrFields
    <3> QED BY <3>1 DEF GetCSR, fflags, frm
  <2>4. /\ RoundingOperands(xregs')
        /\ xregs'[t1] = x /\ xregs'[t2] = d /\ xregs'[a1] = m
        /\ xregs'[a2] = Inexact(n, d) /\ xregs'[a0] = xregs[a0]
    <3>1. a0 # a2
      BY DEF a0, a2
    <3> QED BY <2>2, <2>3, <3>1, OperandsStay
  <2> QED BY <1>4, <2>1, <2>2, <2>4 DEF RoundingAssertion
<1>5. CASE k = 8
  <2>1. Signed(xregs[a0]) = Quotient(n, d, m) /\ xregs[a2] = Inexact(n, d)
    BY <1>5 DEF RoundingAssertion
  <2>2. xregs' = [xregs EXCEPT ![a7] = kExit] /\ RoundsOn
    BY <1>5, RoundingText, RoundingExitNumber
  <2>3. /\ RoundingOperands(xregs')
        /\ xregs'[t1] = x /\ xregs'[t2] = d /\ xregs'[a1] = m
        /\ xregs'[a7] = kExit /\ xregs'[a0] = xregs[a0] /\ xregs'[a2] = xregs[a2]
    <3>1. a0 # a7 /\ a2 # a7
      BY DEF a0, a2, a7
    <3> QED BY <2>2, <3>1, OperandsStay
  <2> QED BY <1>5, <2>1, <2>2, <2>3 DEF RoundingAssertion
<1> QED BY <1>3, <1>4, <1>5

LEMMA RoundingIterates ==
  ASSUME IInv, RoundingInv, Iterate
  PROVE  RoundingInv'
<1>1. status = "running" /\ ~ should_stop /\ memory = RoundingImage /\ RoundingOperands(xregs)
  BY DEF Iterate, RoundingInv
<1>2. PICK k \in 1 .. 9 : ip = 4 * (k - 1) /\ RoundingAssertion(k)
  BY <1>1 DEF RoundingInv
<1>3. Callback(RoundingProgram[k]) /\ NextIp = 4 * k
  BY <1>1, <1>2, RoundingFetch
<1>4. CASE k \in 1 .. 8
  <2>1. RoundingAssertion(k + 1)' /\ RoundsOn /\ RoundingOperands(xregs')
    <3>1. k \in 1 .. 3 \/ k \in {4, 5} \/ k \in {6, 7, 8}
      BY <1>4
    <3> QED BY <1>1, <1>2, <1>3, <3>1, RoundingComputes, RoundingSetsMode, RoundingEnds
  <2>2. k + 1 \in 1 .. 9 /\ ip' = 4 * ((k + 1) - 1)
    BY <1>3, <1>4, <2>1 DEF RoundsOn
  <2>3. memory' = RoundingImage /\ status' = "running" /\ ~ should_stop'
    BY <1>1, <2>1 DEF RoundsOn
  <2>4. \E n \in 1 .. 9 : ip' = 4 * (n - 1) /\ RoundingAssertion(n)'
    BY <2>1, <2>2
  <2> QED BY <2>1, <2>3, <2>4 DEF RoundingInv
<1>5. CASE k = 9
  <2>1. xregs[a7] = kExit
    BY <1>2, <1>5 DEF RoundingAssertion
  <2>2. GetXReg(A7) = kExit
    BY <2>1, RoundingAssumption, RoundingRegs
  <2>3. should_stop' /\ UNCHANGED <<memory, xregs, floats, status>>
    BY <1>3, <1>5, <2>2, RoundingText, LastStep
  <2>4. RoundingAssertion(9)'
    BY <1>2, <1>5, <2>3 DEF RoundingAssertion
  <2> QED BY <1>1, <2>3, <2>4 DEF RoundingInv
<1>6. k \in 1 .. 8 \/ k = 9
  OBVIOUS
<1> QED BY <1>4, <1>5, <1>6

LEMMA InitRoundingInv == RoundingInit => RoundingInv
<1> SUFFICES ASSUME RoundingInit PROVE RoundingInv
  OBVIOUS
<1>1. /\ memory = RoundingImage /\ RoundingOperands(xregs) /\ ip = 0
      /\ status = "running" /\ ~ should_stop /\ fcsr = 0 /\ softfloat_roundingMode = 0
  BY DEF RoundingInit, Init
<1>2. RoundingAssertion(1) /\ ip = 4 * (1 - 1)
  BY <1>1 DEF RoundingAssertion
<1> QED BY <1>1, <1>2 DEF RoundingInv

LEMMA NextRoundingInv == IInv /\ RoundingInv /\ [Next]_vars => RoundingInv'
<1> SUFFICES ASSUME IInv, RoundingInv, [Next]_vars PROVE RoundingInv'
  OBVIOUS
<1>1. CASE Iterate
  BY <1>1, RoundingIterates
<1>2. CASE Return \/ UNCHANGED vars
  <2>1. /\ UNCHANGED <<memory, ip, xregs, fregs, fcsr, softfloat_roundingMode, should_stop>>
        /\ status' = status \/ (status' = "returned" /\ should_stop)
    BY <1>2 DEF Return, vars, floats, softfloat
  <2>2. \A k : RoundingAssertion(k)' <=> RoundingAssertion(k)
    BY <2>1 DEF RoundingAssertion
  <2> QED BY <2>1, <2>2 DEF RoundingInv
<1> QED BY <1>1, <1>2 DEF Next

(* The guest of MCRounding, in any build and with any library that rounds  *)
(* as its mode says: the mode that a CSR instruction put in frm is the one *)
(* that the conversion uses, and fflags holds what that conversion raised  *)
(* and nothing older (ext_f_cb.cpp:21-57, rv_sim.hpp:133-182).             *)
THEOREM StoredModeDecides == RoundingSpec => []DynamicModeRounds
<1>1. RoundingSpec => Spec
  <2>1. RoundingInit => Init
    BY DEF RoundingInit
  <2> QED BY <2>1, PTL DEF RoundingSpec, Spec
<1> QED BY <1>1, RoundingResults, AlwaysIInv, InitRoundingInv, NextRoundingInv, PTL
      DEF RoundingSpec
=============================================================================
