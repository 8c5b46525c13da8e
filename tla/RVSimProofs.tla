---------------------------- MODULE RVSimProofs -----------------------------
(***************************************************************************)
(* Proofs about RVSim, for every width of bytes and addresses, number of   *)
(* registers, decoding, arithmetic, float library, memory image and build: *)
(* type correctness, ZeroRegister, IpIsEven, the refinement of             *)
(* GuestProcess, and that what a read or write call moves is what it       *)
(* reports, byte by byte; from a memory without broken segments            *)
(* (Unbroken), that Execute implements the machine of module Isa, in a     *)
(* build with asserts, and in one without as long as the guest makes no    *)
(* mistake.                                                                *)
(***************************************************************************)
EXTENDS RVSim, SegmentsProofs, Arithmetic

(* The fields of an 8-bit fcsr, read and written.                          *)
LEMMA FieldReads ==
  ASSUME NEW f \in 0 .. 255
  PROVE  {f % 32, (f \div 32) % 8, f % 256, 0} \subseteq 0 .. 255
OBVIOUS

LEMMA FieldWrites ==
  ASSUME NEW f \in 0 .. 255, NEW v \in Int
  PROVE  /\ (f - (f % 32)) + (v % 32) \in 0 .. 255
         /\ (f - 32 * ((f \div 32) % 8)) + 32 * (v % 8) \in 0 .. 255
         /\ v % 256 \in 0 .. 255
<1>1. PICK q \in 0 .. 7 : f \div 32 = q /\ f = (32 * q) + (f % 32)
  <2>1. f = (32 * (f \div 32)) + (f % 32) /\ f % 32 \in 0 .. 31 /\ f \div 32 \in 0 .. 7
    OBVIOUS
  <2> QED BY <2>1
<1>2. q % 8 = q
  OBVIOUS
<1>3. v % 32 \in 0 .. 31 /\ v % 8 \in 0 .. 7 /\ v % 256 \in 0 .. 255
  OBVIOUS
<1>4. f % 32 \in 0 .. 31 /\ f % 256 \in 0 .. 255
  OBVIOUS
<1>5. (f - 32 * ((f \div 32) % 8)) = f % 32
  BY <1>1, <1>2, <1>4
<1>6. f - (f % 32) = 32 * q
  BY <1>1, <1>4
<1> QED BY <1>1, <1>2, <1>3, <1>4, <1>5, <1>6

LEMMA CsrRanges ==
  ASSUME fcsr \in 0 .. 255
  PROVE  /\ \A c : GetCSR(c) \in 0 .. 255
         /\ \A c : \A v \in Int : SetCSR(c, v) \in 0 .. 255
<1>1. ASSUME NEW c PROVE GetCSR(c) \in 0 .. 255
  <2>1. GetCSR(c) \in {fcsr % 32, (fcsr \div 32) % 8, fcsr % 256, 0}
    BY ZenonT(60) DEF GetCSR
  <2> QED BY <2>1, FieldReads, ZenonT(60)
<1>2. ASSUME NEW c, NEW v \in Int PROVE SetCSR(c, v) \in 0 .. 255
  <2> DEFINE lo == (fcsr - (fcsr % 32)) + (v % 32)
             hi == (fcsr - 32 * ((fcsr \div 32) % 8)) + 32 * (v % 8)
  <2>1. SetCSR(c, v) \in {lo, hi, v % 256, fcsr}
    BY ZenonT(60) DEF SetCSR
  <2>2. lo \in 0 .. 255 /\ hi \in 0 .. 255 /\ v % 256 \in 0 .. 255
    BY <1>2, FieldWrites, ZenonT(60)
  <2> QED BY <2>1, <2>2, ZenonT(60)
<1> QED BY <1>1, <1>2

USE RVSimAssumption DEF floats, softfloat, host
-----------------------------------------------------------------------------
(* Arithmetic on words.                                                    *)

LEMMA Horner ==
  ASSUME NEW B \in Nat, NEW M \in Nat, NEW a \in 0 .. B - 1, NEW h \in 0 .. M - 1
  PROVE  a + (B * h) \in 0 .. (B * M) - 1
<1>1. B * (M - 1 - h) >= 0
  <2>1. M - 1 - h \in Nat
    OBVIOUS
  <2> QED BY <2>1
<1>2. B * (M - 1 - h) = (B * M) - B - (B * h)
  OBVIOUS
<1>3. B * h \in Nat /\ B * M \in Nat
  OBVIOUS
<1> QED BY <1>1, <1>2, <1>3

LEMMA Sizes ==
  /\ ByteMod \in Nat /\ ByteMod > 1
  /\ ByteMod * ByteMod \in Nat
  /\ ByteMod * (ByteMod * ByteMod) \in Nat
  /\ ByteMod <= ByteMod * ByteMod
  /\ ByteMod * ByteMod <= ByteMod * (ByteMod * ByteMod)
  /\ ByteMod * (ByteMod * ByteMod) <= AddrMod
  /\ AddrMod \in Nat /\ AddrMod > 1
<1>1. \A x \in Nat : x <= ByteMod * x /\ ByteMod * x \in Nat
  OBVIOUS
<1>2. ByteMod * ByteMod \in Nat
  BY <1>1
<1>3. ByteMod * (ByteMod * ByteMod) \in Nat
  BY <1>1, <1>2
<1>4. ByteMod <= ByteMod * ByteMod
  BY <1>1
<1>5. ByteMod * ByteMod <= ByteMod * (ByteMod * ByteMod)
  BY <1>1, <1>2
<1>6. /\ ByteMod * (ByteMod * ByteMod) <= AddrMod
      /\ AddrMod \in Nat
  BY <1>1, <1>3, FourByteAssumption
<1> QED BY <1>2, <1>3, <1>4, <1>5, <1>6

LEMMA ValueInRange ==
  ASSUME NEW n \in {1, 2, 4}, NEW b \in Bytes(n)
  PROVE  /\ Value(b, n) \in Register
         /\ n = 1 => Value(b, n) \in 0 .. ByteMod - 1
         /\ n = 2 => Value(b, n) \in 0 .. (ByteMod * ByteMod) - 1
<1>1. \A i \in 0 .. n - 1 : b[i] \in 0 .. ByteMod - 1
  BY DEF Bytes
<1>2. CASE n = 1
  <2>1. b[0] \in 0 .. ByteMod - 1
    BY <1>1, <1>2
  <2> QED BY <1>2, <2>1, Sizes, SMTT(30) DEF Value, Register, Address
<1>3. CASE n = 2
  <2>1. b[0] \in 0 .. ByteMod - 1 /\ b[1] \in 0 .. ByteMod - 1
    BY <1>1, <1>3
  <2>2. b[0] + (ByteMod * b[1]) \in 0 .. (ByteMod * ByteMod) - 1
    BY <2>1, Horner
  <2> QED BY <1>3, <2>2, Sizes, SMTT(30) DEF Value, Register, Address
<1>4. CASE n = 4
  <2>1. /\ b[0] \in 0 .. ByteMod - 1 /\ b[1] \in 0 .. ByteMod - 1
        /\ b[2] \in 0 .. ByteMod - 1 /\ b[3] \in 0 .. ByteMod - 1
    BY <1>1, <1>4
  <2>2. b[2] + (ByteMod * b[3]) \in 0 .. (ByteMod * ByteMod) - 1
    BY <2>1, Horner
  <2>3. b[1] + (ByteMod * (b[2] + ByteMod * b[3])) \in 0 .. (ByteMod * (ByteMod * ByteMod)) - 1
    BY <2>1, <2>2, Horner, Sizes
  <2>4. b[0] + (ByteMod * (b[1] + ByteMod * (b[2] + ByteMod * b[3]))) \in 0 .. AddrMod - 1
    BY <2>1, <2>3, Horner, Sizes, FourByteAssumption
  <2> QED BY <1>4, <2>4 DEF Value, Register, Address
<1> QED BY <1>2, <1>3, <1>4

LEMMA TruncIsRegister ==
  ASSUME NEW z \in Int
  PROVE  Trunc(z) \in Register
BY Sizes DEF Trunc, Register, Address

LEMMA LowBytesAreBytes ==
  ASSUME NEW n \in {1, 2, 4}, NEW v \in Register
  PROVE  LowBytes(v, n) \in Bytes(n)
<1>1. \A s \in Nat \ {0} : (v \div s) % ByteMod \in Byte
  <2>1. \A s \in Nat \ {0} : v \div s \in Int
    BY DEF Register, Address
  <2> QED BY <2>1, Sizes
<1> QED BY <1>1, Sizes DEF LowBytes, Bytes

LEMMA LoadedIsRegister ==
  ASSUME NEW op \in LoadNames, NEW b \in Bytes(Width(op))
  PROVE  Loaded(op, b) \in Register
<1>1. Width(op) \in {1, 2, 4} /\ (op = "LB" => Width(op) = 1) /\ (op = "LH" => Width(op) = 2)
  BY DEF LoadNames, Width
<1>2. Value(b, Width(op)) \in Register
  BY <1>1, ValueInRange
<1>3. CASE op \in {"LB", "LH"}
  <2> DEFINE v == Value(b, Width(op))
             range == IF Width(op) = 1 THEN ByteMod ELSE ByteMod * ByteMod
  <2>1. v \in 0 .. range - 1 /\ range \in Nat /\ range <= AddrMod
    BY <1>1, <1>3, ValueInRange, Sizes
  <2>2. SignExtended(v, Width(op)) = IF v < range \div 2 THEN v ELSE v + (AddrMod - range)
    BY DEF SignExtended
  <2> HIDE DEF v, range
  <2>3. v + (AddrMod - range) \in Register
    BY <2>1, Sizes DEF Register, Address
  <2> QED BY <1>2, <1>3, <2>2, <2>3 DEF Loaded, v
<1> QED BY <1>2, <1>3 DEF Loaded

(* Sums of even numbers stay even modulo the even number of addresses.     *)
LEMMA AddrModIsEven == \E m \in Nat : AddrMod = 2 * m
<1>1. PICK k \in Nat : ByteMod = 2 * k
  OBVIOUS
<1> DEFINE m == k * (ByteMod * (ByteMod * ByteMod))
<1>2. m \in Nat
  BY <1>1, Sizes
<1>3. AddrMod = 2 * m
  BY <1>1, Sizes, FourByteAssumption
<1> QED BY <1>2, <1>3

LEMMA EvenTrunc ==
  ASSUME NEW z \in Int, z % 2 = 0
  PROVE  Trunc(z) % 2 = 0
<1>1. PICK m \in Nat : AddrMod = 2 * m
  BY AddrModIsEven
<1> DEFINE q == z \div AddrMod
<1>2. q \in Int /\ z = (AddrMod * q) + (z % AddrMod) /\ z % AddrMod \in Int
  BY Sizes
<1> HIDE DEF q
<1>3. AddrMod * q = 2 * (m * q) /\ m * q \in Int
  BY <1>1, <1>2
<1> DEFINE r == z % AddrMod
           p == m * q
<1>4. z = (2 * p) + r /\ p \in Int /\ r \in Int
  BY <1>2, <1>3
<1> HIDE DEF p, r
<1>5. r % 2 = 0
  BY <1>4
<1> QED BY <1>5 DEF Trunc, r

-----------------------------------------------------------------------------
(* What the memory returns.                                                *)

LEMMA LoadRepliesAreBytes ==
  ASSUME NEW mem \in Seq(Segment), NEW addr \in Address, NEW n \in Nat,
         NEW b \in LoadReplies(mem, addr, n)
  PROVE  b \in Bytes(n)
<1>1. CASE Unmatched(mem, addr)
  BY <1>1, AddressAssumption DEF LoadReplies, Bytes
<1>2. CASE ~ Unmatched(mem, addr)
  <2>1. PICK k \in DOMAIN mem : Hits(mem, k, addr) /\ SegmentOf(mem, addr) = k
    BY <1>2, HitIsUnique DEF Unmatched
  <2>2. mem[k] \in Segment
    BY ListOfSegments
  <2> DEFINE kk == SegmentOf(mem, addr)
             offset == addr - mem[kk].start
             inside == {i \in 0 .. n - 1 : offset + i < Size(mem[kk])}
  <2>3. PICK past \in [(0 .. n - 1) \ inside -> Byte] :
          b = [i \in 0 .. n - 1 |-> IF i \in inside THEN ByteOf(mem[kk], offset + i)
                                                    ELSE past[i]]
    BY <1>2 DEF LoadReplies
  <2>4. offset \in Nat
    BY <2>1, <2>2, SegmentFields DEF Hits, IsAddrInSegment, Address
  <2> HIDE DEF offset
  <2>5. ASSUME NEW i \in inside PROVE ByteOf(mem[k], offset + i) \in Byte
    <3>1. offset + i \in 0 .. Size(mem[k]) - 1
      BY <2>1, <2>2, <2>4, SegmentFields DEF Address
    <3> QED BY <2>2, <3>1, SegmentFields
  <2>6. \A i \in (0 .. n - 1) \ inside : past[i] \in Byte
    BY <2>3
  <2> HIDE DEF inside
  <2>7. \A i \in 0 .. n - 1 : b[i] \in Byte
    <3> TAKE i \in 0 .. n - 1
    <3>1. b[i] = IF i \in inside THEN ByteOf(mem[k], offset + i) ELSE past[i]
      BY <2>1, <2>3
    <3> QED BY <2>5, <2>6, <3>1
  <2>8. b = [i \in 0 .. n - 1 |-> b[i]]
    BY <2>3
  <2> QED BY <2>7, <2>8 DEF Bytes
<1> QED BY <1>1, <1>2

LEMMA ByteAtIsByte ==
  ASSUME NEW mem \in Seq(Segment), NEW x \in Address, Fits(mem, x, 1)
  PROVE  ByteAt(mem, x) \in Byte
<1>1. PICK k \in DOMAIN mem : Hits(mem, k, x) /\ x - mem[k].start + 1 <= Size(mem[k])
  BY DEF Fits, FitsIn
<1>2. SegmentOf(mem, x) = k /\ mem[k] \in Segment
  BY <1>1, HitIsUnique, ListOfSegments
<1>3. x - mem[k].start \in 0 .. Size(mem[k]) - 1
  <2>1. mem[k].start \in Nat /\ Size(mem[k]) \in Nat /\ x \in Nat /\ mem[k].start <= x
    BY <1>1, <1>2, SegmentFields DEF Hits, IsAddrInSegment, Address
  <2> QED BY <1>1, <2>1
<1> QED BY <1>2, <1>3, SegmentFields DEF ByteAt

LEMMA CopyRepliesAreBytes ==
  ASSUME NEW mem \in Seq(Segment), NEW addr \in Address, NEW n \in Address,
         NEW b \in CopyReplies(mem, addr, n)
  PROVE  b \in Bytes(n)
<1>1. PICK past \in [Spilling(mem, addr, n) -> Byte] :
        b = [i \in 0 .. n - 1 |->
               LET x == Wrap(addr + i)
               IN  IF Fits(mem, x, 1) THEN ByteAt(mem, x)
                   ELSE IF Unmatched(mem, x) THEN ZeroByte ELSE past[i]]
  BY DEF CopyReplies
<1>2. ASSUME NEW i \in 0 .. n - 1 PROVE b[i] \in Byte
  <2> DEFINE x == Wrap(addr + i)
  <2>1. x \in Address
    <3>1. addr \in 0 .. AddrMod - 1 /\ n \in 0 .. AddrMod - 1 /\ i \in 0 .. n - 1
      BY DEF Address
    <3> QED BY ONLY <3>1, AddressAssumption DEF Address, Wrap
  <2>2. b[i] = IF Fits(mem, x, 1) THEN ByteAt(mem, x)
               ELSE IF Unmatched(mem, x) THEN ZeroByte ELSE past[i]
    BY <1>1
  <2>3. ~ Fits(mem, x, 1) /\ ~ Unmatched(mem, x) => i \in Spilling(mem, addr, n)
    BY DEF Spilling, Overruns
  <2> HIDE DEF x
  <2> QED BY <1>1, <2>1, <2>2, <2>3, ByteAtIsByte, AddressAssumption
<1>3. b = [i \in 0 .. n - 1 |-> b[i]]
  BY <1>1
<1> QED BY <1>2, <1>3 DEF Bytes
-----------------------------------------------------------------------------
(* The inductive invariant and the shapes of steps that keep it.           *)

IInv == TypeOK /\ ZeroRegister /\ IpIsEven

LEMMA RegisterAccess ==
  ASSUME IInv
  PROVE  /\ \A r \in XReg : GetXReg(r) \in Register
         /\ \A r \in XReg, v \in Register :
              SetXReg(r, v) \in [XReg -> Register] /\ SetXReg(r, v)[0] = 0
         /\ NextIp \in Address /\ NextIp % 2 = 0
<1>1. 0 \in XReg /\ 0 \in Register
  BY Sizes DEF XReg, Register, Address
<1>2. \A r \in XReg : GetXReg(r) \in Register
  BY <1>1 DEF IInv, TypeOK, GetXReg
<1>3. \A r \in XReg, v \in Register :
        SetXReg(r, v) \in [XReg -> Register] /\ SetXReg(r, v)[0] = 0
  BY <1>1 DEF IInv, TypeOK, SetXReg, ZeroRegister
<1>4. ip + StepSize \in Int /\ (ip + StepSize) % 2 = 0
  BY DEF IInv, TypeOK, IpIsEven, StepSize, Address
<1>5. NextIp \in Register /\ NextIp % 2 = 0
  BY <1>4, TruncIsRegister, EvenTrunc DEF NextIp
<1> QED BY <1>2, <1>3, <1>5 DEF Register

LEMMA RetireKeeps ==
  ASSUME IInv, NEW r \in XReg, NEW v \in Register, NEW next \in Address, next % 2 = 0,
         Retire(r, v, next)
  PROVE  IInv'
BY RegisterAccess DEF Retire, IInv, TypeOK, ZeroRegister, IpIsEven

LEMMA AbortKeeps ==
  ASSUME IInv, Abort
  PROVE  IInv'
BY DEF Abort, IInv, TypeOK, ZeroRegister, IpIsEven

LEMMA StoreKeepsMemory ==
  ASSUME IInv, NEW n \in Nat, NEW addr \in Address, NEW b \in Bytes(n),
         StoreBytes(n, addr, b)
  PROVE  memory' \in Seq(Segment) /\ status' \in {status, "undefined"}
<1>1. CASE Unmatched(memory, addr)
  BY <1>1 DEF StoreBytes, IInv, TypeOK
<1>2. CASE ~ Unmatched(memory, addr)
  <2>1. SameLayout(memory, WriteBytes(memory, addr, n, b))
    BY <1>2, WriteKeepsLayout DEF IInv, TypeOK
  <2> QED BY <1>2, <2>1 DEF StoreBytes, Spill, SameLayout
<1> QED BY <1>1, <1>2

LEMMA InsnFields ==
  ASSUME NEW i \in Insn
  PROVE  /\ i.kind \in Kinds /\ i.op \in OpsOf(i.kind)
         /\ i.rd \in XReg /\ i.rs1 \in XReg /\ i.rs2 \in XReg /\ i.rs3 \in XReg
         /\ i.rm \in 0 .. 7 /\ i.imm \in Register
BY DEF Insn

LEMMA EffectiveAddressIsAddress ==
  ASSUME IInv, NEW i \in Insn
  PROVE  EffectiveAddress(i) \in Address
<1>1. GetXReg(i.rs1) + i.imm \in Int
  <2>1. GetXReg(i.rs1) \in Register /\ i.imm \in Register
    BY InsnFields, RegisterAccess
  <2> QED BY <2>1 DEF Register, Address
<1> QED BY <1>1, TruncIsRegister DEF EffectiveAddress, Register

(* A target relative to ip.                                                *)
LEMMA TargetIsEven ==
  ASSUME IInv, NEW imm \in Register, imm % 2 = 0
  PROVE  Trunc(ip + imm) \in Address /\ Trunc(ip + imm) % 2 = 0
<1>1. ip + imm \in Int /\ (ip + imm) % 2 = 0
  <2>1. ip \in Int /\ imm \in Int /\ ip % 2 = 0
    BY DEF IInv, TypeOK, IpIsEven, Register, Address
  <2> QED BY <2>1
<1> QED BY <1>1, TruncIsRegister, EvenTrunc DEF Register

-----------------------------------------------------------------------------
(* Every step keeps IInv: one lemma per callback.                          *)

LEMMA InitIInv == Init => IInv
<1> SUFFICES ASSUME Init PROVE IInv
  OBVIOUS
<1>1. << >> \in Seq(Byte) /\ 0 \in Register
  BY Sizes DEF Register, Address
<1>2. fregs \in [FReg -> Register] /\ fcsr \in 0 .. 255
  BY <1>1 DEF Init
<1>3. xregs \in [XReg -> Register] /\ xregs[0] = 0
  BY DEF Init
<1>4. softfloat_roundingMode \in 0 .. 4 /\ softfloat_exceptionFlags \in 0 .. 31
  BY DEF Init
<1>5. ip \in Address /\ ip % 2 = 0 /\ memory \in Seq(Segment)
  BY EntryAssumption DEF Init
<1> QED BY <1>1, <1>2, <1>3, <1>4, <1>5 DEF Init, IInv, TypeOK, ZeroRegister, IpIsEven

LEMMA ComputeKeeps ==
  ASSUME IInv, NEW i \in Insn, Compute(i)
  PROVE  IInv'
<1> DEFINE operand == IF i.kind = "RRR" THEN GetXReg(i.rs2) ELSE i.imm
<1>1. GetXReg(i.rs1) \in Register /\ operand \in Register
  BY InsnFields, RegisterAccess
<1>2. i.op \in BinOpNames /\ i.rd \in XReg
  BY InsnFields DEF Compute, OpsOf
<1>3. PICK v \in BinOpFunc(i.op, GetXReg(i.rs1), operand) : Retire(i.rd, v, NextIp)
  BY DEF Compute
<1> HIDE DEF operand
<1>4. v \in Register
  BY <1>1, <1>2, <1>3, AluAssumption
<1> QED BY <1>2, <1>3, <1>4, RegisterAccess, RetireKeeps

LEMMA LUIKeeps ==
  ASSUME IInv, NEW i \in Insn, LUI(i)
  PROVE  IInv'
BY InsnFields, RegisterAccess, RetireKeeps DEF LUI

LEMMA AUIPCKeeps ==
  ASSUME IInv, NEW i \in Insn, AUIPC(i)
  PROVE  IInv'
<1>1. i.rd \in XReg /\ ip + i.imm \in Int
  BY InsnFields DEF IInv, TypeOK, Register, Address
<1>2. Trunc(ip + i.imm) \in Register
  BY <1>1, TruncIsRegister
<1> QED BY <1>1, <1>2, RegisterAccess, RetireKeeps DEF AUIPC

LEMMA JALKeeps ==
  ASSUME IInv, NEW i \in Insn, JAL(i), i.imm % 2 = 0
  PROVE  IInv'
<1>1. i.rd \in XReg /\ i.imm \in Register
  BY InsnFields
<1>2. Trunc(ip + i.imm) \in Address /\ Trunc(ip + i.imm) % 2 = 0
  BY <1>1, TargetIsEven
<1> QED BY <1>1, <1>2, RegisterAccess, RetireKeeps DEF JAL, Register

LEMMA JALRKeeps ==
  ASSUME IInv, NEW i \in Insn, JALR(i)
  PROVE  IInv'
<1> DEFINE target == EffectiveAddress(i)
           next == target - (target % 2)
<1>1. target \in Address
  BY EffectiveAddressIsAddress
<1>2. Retire(i.rd, NextIp, next)
  BY DEF JALR
<1> HIDE DEF target
<1>3. next \in Address /\ next % 2 = 0
  BY ONLY <1>1, AddressAssumption DEF Address
<1> HIDE DEF next
<1> QED BY <1>2, <1>3, InsnFields, RegisterAccess, RetireKeeps DEF Register

LEMMA BranchKeeps ==
  ASSUME IInv, NEW i \in Insn, Branch(i), i.imm % 2 = 0
  PROVE  IInv'
<1>1. Trunc(ip + i.imm) \in Address /\ Trunc(ip + i.imm) % 2 = 0
  BY InsnFields, TargetIsEven
<1>2. ip' \in Address /\ ip' % 2 = 0
  BY <1>1, RegisterAccess DEF Branch
<1> QED BY <1>2 DEF Branch, IInv, TypeOK, ZeroRegister, IpIsEven

LEMMA WidthIsNat == \A op : Width(op) \in {1, 2, 4}
BY DEF Width

LEMMA LoadKeeps ==
  ASSUME IInv, NEW i \in Insn, Load(i)
  PROVE  IInv'
<1> DEFINE addr == EffectiveAddress(i)
           n == Width(i.op)
<1>1. CASE Abort
  BY <1>1, AbortKeeps
<1>2. CASE ~ Abort
  <2>1. PICK b \in LoadReplies(memory, addr, n) : Retire(i.rd, Loaded(i.op, b), NextIp)
    BY <1>2 DEF Load
  <2>2. addr \in Address /\ n \in Nat /\ memory \in Seq(Segment)
    <3>1. addr \in Address
      BY ONLY IInv, i \in Insn, EffectiveAddressIsAddress
    <3>2. n \in Nat
      BY ONLY WidthIsNat
    <3>3. memory \in Seq(Segment)
      BY ONLY IInv DEF IInv, TypeOK
    <3> QED BY <3>1, <3>2, <3>3
  <2>3. b \in Bytes(Width(i.op))
    BY <2>1, <2>2, LoadRepliesAreBytes
  <2>4. i.op \in LoadNames /\ i.rd \in XReg
    BY InsnFields DEF Load, OpsOf
  <2>5. Loaded(i.op, b) \in Register
    BY <2>3, <2>4, LoadedIsRegister
  <2> QED BY <2>1, <2>4, <2>5, RegisterAccess, RetireKeeps
<1> QED BY <1>1, <1>2

LEMMA StoreKeeps ==
  ASSUME IInv, NEW i \in Insn, Store(i)
  PROVE  IInv'
<1> DEFINE addr == EffectiveAddress(i)
           n == Width(i.op)
           b == LowBytes(GetXReg(i.rs2), n)
<1>1. CASE Abort
  BY <1>1, AbortKeeps
<1>2. CASE ~ Abort
  <2>1. /\ StoreBytes(n, addr, b)
        /\ ip' = NextIp
        /\ UNCHANGED <<xregs, floats, should_stop, host>>
    BY <1>2 DEF Store
  <2>2. addr \in Address /\ n \in {1, 2, 4} /\ GetXReg(i.rs2) \in Register
    BY WidthIsNat, EffectiveAddressIsAddress, InsnFields, RegisterAccess
  <2>3. b \in Bytes(n)
    BY <2>2, LowBytesAreBytes
  <2> HIDE DEF addr, n, b
  <2>4. memory' \in Seq(Segment) /\ status' \in {status, "undefined"}
    BY <2>1, <2>2, <2>3, StoreKeepsMemory
  <2> QED BY <2>1, <2>4, RegisterAccess DEF IInv, TypeOK, ZeroRegister, IpIsEven
<1> QED BY <1>1, <1>2

LEMMA IpOnlyKeeps ==
  ASSUME IInv, ip' = NextIp, UNCHANGED <<memory, xregs, floats, status, host>>,
         should_stop' \in BOOLEAN
  PROVE  IInv'
BY RegisterAccess DEF IInv, TypeOK, ZeroRegister, IpIsEven

LEMMA TerminateKeeps ==
  ASSUME IInv, NEW i \in Insn, Terminate(i)
  PROVE  IInv'
BY DEF Terminate, IInv, TypeOK, ZeroRegister, IpIsEven

(* What a read takes from the input leaves bytes, and those it took fill   *)
(* a buffer.                                                               *)
LEMMA ReadCounts ==
  ASSUME IInv, NEW size \in Register, NEW rc \in ReadResults(size)
  PROVE  LET count == IF rc < 0 THEN 0 ELSE rc
         IN  /\ rc \in Int
             /\ count \in 0 .. Len(input) /\ count < AddrMod
             /\ SubSeq(input, count + 1, Len(input)) \in Seq(Byte)
             /\ [j \in 0 .. count - 1 |-> input[j + 1]] \in Bytes(count)
<1> DEFINE count == IF rc < 0 THEN 0 ELSE rc
<1>1. input \in Seq(Byte) /\ Len(input) \in Nat
  BY DEF IInv, TypeOK
<1>2. size \in Nat /\ size < AddrMod
  BY Sizes DEF Register, Address
<1>3. rc \in Int /\ count \in 0 .. Len(input) /\ count < AddrMod
  BY <1>1, <1>2, Sizes DEF ReadResults
<1> HIDE DEF count
<1>4. SubSeq(input, count + 1, Len(input)) \in Seq(Byte)
  BY <1>1, <1>3
<1>5. [j \in 0 .. count - 1 |-> input[j + 1]] \in Bytes(count)
  <2>1. ASSUME NEW j \in 0 .. count - 1
        PROVE  input[j + 1] \in Byte
    <3>1. j + 1 \in 1 .. Len(input)
      BY <1>1, <1>3
    <3> QED BY ONLY <1>1, <3>1
  <2> QED BY ONLY <2>1 DEF Bytes
<1> QED BY <1>3, <1>4, <1>5 DEF count

LEMMA EcallReadKeeps ==
  ASSUME IInv, NEW i \in Insn, EcallRead(i)
  PROVE  IInv'
<1>1. GetXReg(A2) \in Register /\ GetXReg(A1) \in Address /\ A0 \in XReg
  BY RegisterAccess DEF Register
<1>2. PICK rc \in ReadResults(GetXReg(A2)) :
        LET count == IF rc < 0 THEN 0 ELSE rc
            addr == GetXReg(A1)
            buf == [j \in 0 .. count - 1 |-> input[j + 1]]
            missing == Missing(memory, addr, count)
        IN  /\ input' = SubSeq(input, count + 1, Len(input))
            /\ \/ /\ NDEBUG \/ missing = {}
                  /\ memory' = CopyBytes(memory, addr, count, buf)
                  /\ IF Spilling(memory, addr, count) = {} THEN UNCHANGED status
                     ELSE Spill
                  /\ xregs' = SetXReg(A0, Trunc(rc))
                  /\ ip' = NextIp
               \/ /\ ~ NDEBUG
                  /\ \E m \in missing :
                       /\ \A j \in missing : m <= j
                       /\ memory' = CopyBytes(memory, addr, m, buf)
                  /\ status' = "abort"
                  /\ UNCHANGED <<xregs, ip>>
  BY DEF EcallRead
<1> DEFINE count == IF rc < 0 THEN 0 ELSE rc
           addr == GetXReg(A1)
           buf == [j \in 0 .. count - 1 |-> input[j + 1]]
           missing == Missing(memory, addr, count)
<1>3. /\ rc \in Int /\ count \in Nat /\ count < AddrMod
      /\ input' \in Seq(Byte) /\ buf \in Bytes(count)
  <2>1. /\ rc \in Int
        /\ count \in 0 .. Len(input) /\ count < AddrMod
        /\ SubSeq(input, count + 1, Len(input)) \in Seq(Byte)
        /\ buf \in Bytes(count)
    BY <1>1, <1>2, ReadCounts
  <2>2. input' = SubSeq(input, count + 1, Len(input))
    BY <1>2
  <2> HIDE DEF count, buf
  <2> QED BY <2>1, <2>2
<1>4. UNCHANGED <<floats, should_stop, output>>
  BY DEF EcallRead
<1>5. \A m \in 0 .. count : CopyBytes(memory, addr, m, buf) \in Seq(Segment)
  <2> TAKE m \in 0 .. count
  <2> HIDE DEF count, addr, buf
  <2>1. memory \in Seq(Segment) /\ addr \in Address
    BY <1>1 DEF IInv, TypeOK, addr
  <2>2. SameLayout(memory, CopyBytes(memory, addr, m, buf))
    BY <1>3, <2>1, CopyKeepsLayout
  <2> QED BY <2>2 DEF SameLayout
<1>6. CASE /\ memory' = CopyBytes(memory, addr, count, buf)
           /\ status' \in {status, "undefined"}
           /\ xregs' = SetXReg(A0, Trunc(rc))
           /\ ip' = NextIp
  <2>1. Trunc(rc) \in Register
    BY <1>3, TruncIsRegister
  <2>2. memory' \in Seq(Segment)
    BY <1>3, <1>5, <1>6
  <2> HIDE DEF count, addr, buf
  <2> QED BY <1>1, <1>3, <1>4, <1>6, <2>1, <2>2, RegisterAccess
          DEF IInv, TypeOK, ZeroRegister, IpIsEven
<1>7. CASE /\ \E m \in missing : memory' = CopyBytes(memory, addr, m, buf)
           /\ status' = "abort"
           /\ UNCHANGED <<xregs, ip>>
  <2>1. missing \subseteq 0 .. count
    BY <1>3 DEF Missing
  <2>2. memory' \in Seq(Segment)
    BY <1>5, <1>7, <2>1
  <2> HIDE DEF count, addr, buf, missing
  <2> QED BY <1>3, <1>4, <1>7, <2>2 DEF IInv, TypeOK, ZeroRegister, IpIsEven
<1> QED BY <1>2, <1>6, <1>7 DEF Spill

(* The bytes that a write gives come after those given before.             *)
LEMMA WriteGives ==
  ASSUME IInv, NEW buf \in CopyReplies(memory, GetXReg(A1), GetXReg(A2)),
         NEW wc \in WriteResults(GetXReg(A2)),
         output' = output \o [j \in 1 .. wc |-> buf[j - 1]]
  PROVE  /\ wc \in Int
         /\ output' \in Seq(Byte)
         /\ Len(output') = Len(output) + (IF wc < 0 THEN 0 ELSE wc)
         /\ \A j \in 1 .. Len(output) : output'[j] = output[j]
         /\ wc <= 0 => output' = output
<1>1. GetXReg(A2) \in Address /\ GetXReg(A1) \in Address
  BY RegisterAccess DEF Register
<1>2. buf \in Bytes(GetXReg(A2))
  BY <1>1, CopyRepliesAreBytes DEF IInv, TypeOK
<1>3. wc \in Int /\ wc <= GetXReg(A2) /\ wc >= -1
  BY <1>1 DEF WriteResults, Address
<1> DEFINE size == GetXReg(A2)
           given == [j \in 1 .. wc |-> buf[j - 1]]
           count == IF wc < 0 THEN 0 ELSE wc
<1>4. size \in Nat /\ buf \in Bytes(size) /\ wc <= size
  BY <1>1, <1>2, <1>3 DEF Address
<1> HIDE DEF size
<1>5. count \in Nat /\ 1 .. wc = 1 .. count
  BY <1>3
<1>6. \A j \in 1 .. wc : buf[j - 1] \in Byte
  BY <1>3, <1>4 DEF Bytes
<1>7. given \in Seq(Byte) /\ Len(given) = count
  <2>1. given = [j \in 1 .. count |-> buf[j - 1]]
    BY <1>5
  <2>2. \A j \in 1 .. count : buf[j - 1] \in Byte
    BY <1>5, <1>6
  <2>3. count \in Nat
    BY <1>5
  <2> HIDE DEF count
  <2>4. [j \in 1 .. count |-> buf[j - 1]] \in [1 .. count -> Byte]
    BY <2>2
  <2>5. given \in [1 .. count -> Byte]
    BY <2>1, <2>4
  <2> HIDE DEF given
  <2> QED BY <2>3, <2>5
<1>8. output \in Seq(Byte) /\ output' = output \o given
  BY DEF IInv, TypeOK
<1> HIDE DEF given, count
<1>9. /\ output' \in Seq(Byte) /\ Len(output') = Len(output) + count
      /\ \A j \in 1 .. Len(output) : output'[j] = output[j]
      /\ count = 0 => output' = output
  <2>1. output' \in Seq(Byte) /\ Len(output') = Len(output) + count
    <3>1. output \o given \in Seq(Byte) /\ Len(output \o given) = Len(output) + Len(given)
      BY <1>7, <1>8, ConcatProperties
    <3> QED BY <1>7, <1>8, <3>1
  <2>2. \A j \in 1 .. Len(output) : output'[j] = output[j]
    BY <1>7, <1>8, ConcatProperties
  <2>3. count = 0 => output' = output
    BY <1>7, <1>8, EmptySeq, ConcatEmptySeq
  <2> QED BY <2>1, <2>2, <2>3
<1> USE DEF count
<1>10. wc <= 0 => count = 0
  BY <1>3
<1> QED BY <1>3, <1>9, <1>10

LEMMA EcallWriteKeeps ==
  ASSUME IInv, NEW i \in Insn, EcallWrite(i)
  PROVE  IInv'
<1>1. CASE Abort
  BY <1>1, AbortKeeps
<1>2. CASE ~ Abort
  <2>1. PICK buf \in CopyReplies(memory, GetXReg(A1), GetXReg(A2)),
             wc \in WriteResults(GetXReg(A2)) :
          /\ output' = output \o [j \in 1 .. wc |-> buf[j - 1]]
          /\ xregs' = SetXReg(A0, Trunc(wc))
          /\ ip' = NextIp
          /\ UNCHANGED <<memory, floats, should_stop, status, input>>
    BY <1>2 DEF EcallWrite
  <2>2. wc \in Int /\ output' \in Seq(Byte)
    BY <2>1, WriteGives
  <2>3. Trunc(wc) \in Register /\ A0 \in XReg
    BY <2>2, TruncIsRegister
  <2> QED BY <2>1, <2>2, <2>3, RegisterAccess DEF IInv, TypeOK, ZeroRegister, IpIsEven
<1> QED BY <1>1, <1>2

LEMMA CsrAccess ==
  ASSUME IInv
  PROVE  /\ \A c : GetCSR(c) \in 0 .. 255 /\ GetCSR(c) \in Register
         /\ \A c : \A v \in Int : SetCSR(c, v) \in 0 .. 255
         /\ \A flags \in 0 .. 31 : SetFExcp(flags) \in 0 .. 255
<1>0. fcsr \in 0 .. 255
  BY DEF IInv, TypeOK
<1>1. \A c : GetCSR(c) \in 0 .. 255
  BY <1>0, CsrRanges, Zenon
<1>2. \A z \in 0 .. 255 : z \in Register
  BY Sizes DEF Register, Address
<1>3. \A c : \A v \in Int : SetCSR(c, v) \in 0 .. 255
  BY <1>0, CsrRanges, Zenon
<1>4. ASSUME NEW flags \in 0 .. 31 PROVE SetFExcp(flags) \in 0 .. 255
  <2>1. GetCSR(fflags) \in Register /\ flags \in Register
    <3>1. GetCSR(fflags) \in Register
      BY <1>1, <1>2, Zenon
    <3>2. flags \in Register
      BY Sizes DEF Register, Address
    <3> QED BY <3>1, <3>2
  <2>2. BitOr(GetCSR(fflags), flags) \in Int
    BY <2>1, BitAssumption DEF Register, Address
  <2>3. SetCSR(fflags, BitOr(GetCSR(fflags), flags)) \in 0 .. 255
    BY <1>3, <2>2, Zenon
  <2> QED BY <1>0, <2>3, Zenon DEF SetFExcp
<1> QED BY <1>1, <1>2, <1>3, <1>4

(* What a callback of the F and Zicsr extensions may change.               *)
LEMMA FloatStateKeeps ==
  ASSUME IInv, ip' = NextIp, UNCHANGED <<memory, should_stop, status, host>>,
         xregs' \in [XReg -> Register], xregs'[0] = 0,
         fregs' \in [FReg -> Register], fcsr' \in 0 .. 255,
         softfloat_roundingMode' \in 0 .. 4, softfloat_exceptionFlags' \in 0 .. 31
  PROVE  IInv'
BY RegisterAccess DEF IInv, TypeOK, ZeroRegister, IpIsEven

LEMMA CsrKeeps ==
  ASSUME IInv, NEW i \in Insn, Csr(i)
  PROVE  IInv'
<1>1. CASE Abort
  BY <1>1, AbortKeeps
<1>2. CASE ~ Abort
  <2> DEFINE old == GetCSR(i.imm)
  <2>1. /\ fcsr' = SetCSR(i.imm, CsrValue(i, old))
        /\ xregs' = SetXReg(i.rd, old)
        /\ ip' = NextIp
        /\ UNCHANGED <<memory, fregs, softfloat, should_stop, status, host>>
    BY <1>2 DEF Csr
  <2>2. /\ i.rd \in XReg /\ i.rs1 \in XReg /\ i.rs1 \in Register
        /\ old \in Register /\ i.imm \in Int
    <3>1. i.rd \in XReg /\ i.rs1 \in XReg /\ i.imm \in Register
      BY InsnFields
    <3>2. old \in Register
      BY CsrAccess, Zenon
    <3> QED BY <3>1, <3>2, Sizes DEF XReg, Register, Address
  <2> HIDE DEF old
  <2>3. CsrOperand(i) \in Register
    BY <2>2, RegisterAccess DEF CsrOperand
  <2>4. CsrValue(i, old) \in Int
    BY <2>2, <2>3, BitAssumption DEF CsrValue, Register, Address
  <2>5. fcsr' \in 0 .. 255
    BY <2>1, <2>4, CsrAccess
  <2>6. xregs' \in [XReg -> Register] /\ xregs'[0] = 0
    BY <2>1, <2>2, RegisterAccess
  <2> QED BY <2>1, <2>5, <2>6, FloatStateKeeps DEF IInv, TypeOK
<1> QED BY <1>1, <1>2

(* The sign of a word, and a word with another sign.                       *)
LEMMA SignedWords ==
  /\ \A v \in Register : Sign(v) \in {0, 1}
  /\ \A s \in {0, 1}, v \in Register : WithSign(s, v) \in Register
  /\ \A v \in Register : f32_neg(v) \in Register
<1>1. PICK m \in Nat : AddrMod = 2 * m
  BY AddrModIsEven
<1>2. Half = m /\ m > 0
  BY <1>1, Sizes DEF Half
<1>3. ASSUME NEW v \in Register PROVE Sign(v) \in {0, 1}
  <2> DEFINE q == v \div m
             r == v % m
  <2>1. v = (m * q) + r /\ q \in Int /\ r \in 0 .. m - 1 /\ v \in 0 .. (2 * m) - 1
    BY <1>1, <1>2 DEF Register, Address
  <2> HIDE DEF q, r
  <2>2. ~ (q >= 2)
    <3> SUFFICES ASSUME q >= 2 PROVE FALSE
      OBVIOUS
    <3>1. m * (q - 2) >= 0
      <4>1. q - 2 \in Nat
        BY <2>1
      <4> QED BY <1>1, <4>1
    <3>2. m * (q - 2) = (m * q) - (2 * m)
      BY <2>1
    <3> QED BY <2>1, <3>1, <3>2
  <2>3. ~ (q <= -1)
    <3> SUFFICES ASSUME q <= -1 PROVE FALSE
      OBVIOUS
    <3>1. m * (-1 - q) >= 0
      <4>1. -1 - q \in Nat
        BY <2>1
      <4> QED BY <1>1, <4>1
    <3>2. m * (-1 - q) = - m - (m * q)
      BY <2>1
    <3> QED BY <2>1, <3>1, <3>2
  <2>4. q \in {0, 1}
    BY <2>1, <2>2, <2>3
  <2> QED BY <1>2, <2>4 DEF Sign, q
<1>4. ASSUME NEW s \in {0, 1}, NEW v \in Register PROVE WithSign(s, v) \in Register
  <2>1. v % m \in 0 .. m - 1
    BY <1>1, <1>2 DEF Register, Address
  <2>2. s * m = IF s = 0 THEN 0 ELSE m
    BY <1>1
  <2> QED BY <1>1, <1>2, <2>1, <2>2 DEF WithSign, Register, Address
<1> QED BY <1>3, <1>4 DEF f32_neg

LEMMA RepliesAreTyped ==
  ASSUME NEW fn, NEW args, NEW mode, NEW r \in Replies(fn, args, mode)
  PROVE  /\ r.v \in Register /\ r.flags \in 0 .. 31
         /\ \A op : ArithResult(op, r.v) \in Register
BY SignedWords DEF Replies, FloatReply, ArithResult

LEMMA ModeSetIsMode ==
  ASSUME IInv, NEW rm
  PROVE  ModeSet(rm) \in 0 .. 4
BY DEF ModeSet, RoundingModes, IInv, TypeOK

LEMMA AbortRoundingKeeps ==
  ASSUME IInv, AbortRounding
  PROVE  IInv'
BY DEF AbortRounding, IInv, TypeOK, ZeroRegister, IpIsEven

LEMMA FArithKeeps ==
  ASSUME IInv, NEW i \in Insn, FArith(i)
  PROVE  IInv'
<1>1. CASE AbortRounding
  BY <1>1, AbortRoundingKeeps
<1>2. CASE ~ AbortRounding
  <2>1. softfloat_roundingMode' = ModeSet(GetRM(i.rm)) /\ UNCHANGED xregs
    BY <1>2 DEF FArith
  <2>2. PICK r \in Replies(ArithFunc(i.op), ArithArgs(i), softfloat_roundingMode') :
          fregs' = SetFReg(i.rd, ArithResult(i.op, r.v)) /\ Accrue(r.flags)
    BY <1>2 DEF FArith
  <2>3. r.flags \in 0 .. 31 /\ ArithResult(i.op, r.v) \in Register /\ i.rd \in FReg
    BY <2>2, RepliesAreTyped, InsnFields DEF FReg
  <2>4. fregs' \in [FReg -> Register]
    BY <2>2, <2>3 DEF SetFReg, IInv, TypeOK
  <2> QED BY <2>1, <2>2, <2>3, <2>4, ModeSetIsMode, CsrAccess, FloatStateKeeps
          DEF Accrue, IInv, TypeOK, ZeroRegister
<1> QED BY <1>1, <1>2

LEMMA FCompareKeeps ==
  ASSUME IInv, NEW i \in Insn, FCompare(i)
  PROVE  IInv'
<1>1. PICK r \in Replies(CmpFunc(i.op), <<fregs[i.rs1], fregs[i.rs2]>>, softfloat_roundingMode) :
        xregs' = SetXReg(i.rd, IF r.v # 0 THEN 1 ELSE 0) /\ Accrue(r.flags)
  BY DEF FCompare
<1>2. r.flags \in 0 .. 31 /\ i.rd \in XReg /\ UNCHANGED <<fregs, softfloat_roundingMode>>
  BY <1>1, RepliesAreTyped, InsnFields DEF FCompare
<1>3. (IF r.v # 0 THEN 1 ELSE 0) \in Register
  BY Sizes DEF Register, Address
<1> QED BY <1>1, <1>2, <1>3, RegisterAccess, CsrAccess, FloatStateKeeps DEF Accrue, IInv, TypeOK

LEMMA FMinMaxKeeps ==
  ASSUME IInv, NEW i \in Insn, FMinMax(i)
  PROVE  IInv'
<1> DEFINE a == fregs[i.rs1]
           b == fregs[i.rs2]
<1>1. PICK r \in Replies("f32_le", <<a, b>>, softfloat_roundingMode) :
        /\ fregs' = SetFReg(i.rd, Chosen(i.op, r.v # 0, a, b))
        /\ softfloat_exceptionFlags' = IF r.flags = 0 THEN softfloat_exceptionFlags
             ELSE BitOr(softfloat_exceptionFlags, r.flags)
  BY DEF FMinMax
<1>2. /\ ip' = NextIp
      /\ UNCHANGED <<memory, xregs, fcsr, softfloat_roundingMode, should_stop, status, host>>
  BY DEF FMinMax
<1>3. r.flags \in 0 .. 31 /\ i.rd \in FReg /\ a \in Register /\ b \in Register
  BY <1>1, RepliesAreTyped, InsnFields DEF FReg, IInv, TypeOK
<1> HIDE DEF a, b
<1>4. softfloat_exceptionFlags' \in 0 .. 31
  BY <1>1, <1>3, BitAssumption DEF IInv, TypeOK
<1>5. fregs' \in [FReg -> Register]
  BY <1>1, <1>3, SMTT(30) DEF SetFReg, Chosen, IInv, TypeOK
<1> QED BY <1>2, <1>4, <1>5, FloatStateKeeps DEF IInv, TypeOK, ZeroRegister

LEMMA FToIntegerKeeps ==
  ASSUME IInv, NEW i \in Insn, FToInteger(i)
  PROVE  IInv'
<1>1. CASE AbortRounding
  BY <1>1, AbortRoundingKeeps
<1>2. CASE ~ AbortRounding
  <2>1. softfloat_roundingMode' = ModeSet(GetRM(i.rm)) /\ UNCHANGED fregs
    BY <1>2 DEF FToInteger
  <2>2. PICK r \in Replies(IF i.op = "FCVT_W_S" THEN "f32_to_i32" ELSE "f32_to_ui32",
                           <<fregs[i.rs1]>>, ModeReturned(GetRM(i.rm))) :
          xregs' = SetXReg(i.rd, r.v) /\ Accrue(r.flags)
    BY <1>2 DEF FToInteger
  <2>3. r.flags \in 0 .. 31 /\ r.v \in Register /\ i.rd \in XReg
    BY <2>2, RepliesAreTyped, InsnFields
  <2> QED BY <2>1, <2>2, <2>3, RegisterAccess, ModeSetIsMode, CsrAccess, FloatStateKeeps
          DEF Accrue, IInv, TypeOK
<1> QED BY <1>1, <1>2

LEMMA FToFloatKeeps ==
  ASSUME IInv, NEW i \in Insn, FToFloat(i)
  PROVE  IInv'
<1>1. PICK r \in Replies(IF i.op = "FCVT_S_W" THEN "i32_to_f32" ELSE "ui32_to_f32",
                         <<GetXReg(i.rs1)>>, softfloat_roundingMode) :
        fregs' = SetFReg(i.rd, r.v) /\ Accrue(r.flags)
  BY DEF FToFloat
<1>2. r.flags \in 0 .. 31 /\ r.v \in Register /\ i.rd \in FReg
  BY <1>1, RepliesAreTyped, InsnFields DEF FReg
<1>3. fregs' \in [FReg -> Register] /\ UNCHANGED <<xregs, softfloat_roundingMode>>
  BY <1>1, <1>2 DEF SetFReg, FToFloat, IInv, TypeOK
<1> QED BY <1>1, <1>2, <1>3, CsrAccess, FloatStateKeeps DEF Accrue, IInv, TypeOK, ZeroRegister

LEMMA FMoveKeeps ==
  ASSUME IInv, NEW r \in FReg, NEW v \in Register, FMove(r, v)
  PROVE  IInv'
<1>1. fregs' \in [FReg -> Register]
  BY DEF FMove, SetFReg, IInv, TypeOK
<1> QED BY <1>1, FloatStateKeeps DEF FMove, IInv, TypeOK, ZeroRegister

LEMMA FMovesKeep ==
  ASSUME IInv, NEW i \in Insn, FSignInject(i) \/ FMoveToX(i) \/ FMoveToF(i) \/ FClass(i)
  PROVE  IInv'
<1>1. /\ i.rd \in XReg /\ i.rd \in FReg
      /\ fregs[i.rs1] \in Register /\ fregs[i.rs2] \in Register /\ GetXReg(i.rs1) \in Register
  BY InsnFields, RegisterAccess DEF FReg, IInv, TypeOK
<1>2. CASE FSignInject(i)
  <2> DEFINE s1 == Sign(fregs[i.rs1])
             s2 == Sign(fregs[i.rs2])
             s == CASE i.op = "FSGNJ" -> s2
                    [] i.op = "FSGNJN" -> 1 - s2
                    [] OTHER -> IF s1 = s2 THEN 0 ELSE 1
  <2>1. FMove(i.rd, WithSign(s, fregs[i.rs1]))
    BY <1>2 DEF FSignInject
  <2>2. s1 \in {0, 1} /\ s2 \in {0, 1}
    BY <1>1, SignedWords
  <2> HIDE DEF s1, s2
  <2>3. s \in {0, 1}
    BY <2>2
  <2> HIDE DEF s
  <2> QED BY <1>1, <2>1, <2>3, SignedWords, FMoveKeeps
<1>3. CASE FMoveToX(i)
  BY <1>1, <1>3, RegisterAccess, RetireKeeps DEF FMoveToX
<1>4. CASE FMoveToF(i)
  BY <1>1, <1>4, FMoveKeeps DEF FMoveToF
<1>5. CASE FClass(i)
  <2>1. 2 ^ ClassShift(fregs[i.rs1]) \in Int
    <3>1. ClassShift(fregs[i.rs1]) \in Nat
      BY DEF ClassShift
    <3> QED BY <3>1
  <2>2. Trunc(2 ^ ClassShift(fregs[i.rs1])) \in Register
    BY <2>1, TruncIsRegister
  <2> QED BY <1>1, <1>5, <2>2, RegisterAccess, RetireKeeps DEF FClass
<1> QED BY <1>2, <1>3, <1>4, <1>5

LEMMA FLoadKeeps ==
  ASSUME IInv, NEW i \in Insn, FLoad(i)
  PROVE  IInv'
<1> DEFINE addr == EffectiveAddress(i)
<1>1. CASE Abort
  BY <1>1, AbortKeeps
<1>2. CASE ~ Abort
  <2>1. PICK b \in LoadReplies(memory, addr, 4) : FMove(i.rd, Value(b, 4))
    BY <1>2 DEF FLoad
  <2>2. b \in Bytes(4)
    BY <2>1, EffectiveAddressIsAddress, LoadRepliesAreBytes DEF IInv, TypeOK
  <2>3. Value(b, 4) \in Register /\ i.rd \in FReg
    BY <2>2, ValueInRange, InsnFields DEF FReg
  <2> QED BY <2>1, <2>3, FMoveKeeps
<1> QED BY <1>1, <1>2

LEMMA FStoreKeeps ==
  ASSUME IInv, NEW i \in Insn, FStore(i)
  PROVE  IInv'
<1> DEFINE addr == EffectiveAddress(i)
           b == LowBytes(fregs[i.rs2], 4)
<1>1. CASE Abort
  BY <1>1, AbortKeeps
<1>2. CASE ~ Abort
  <2>1. /\ StoreBytes(4, addr, b)
        /\ ip' = NextIp
        /\ UNCHANGED <<xregs, floats, should_stop, host>>
    BY <1>2 DEF FStore
  <2>2. addr \in Address /\ fregs[i.rs2] \in Register
    BY EffectiveAddressIsAddress, InsnFields DEF FReg, IInv, TypeOK
  <2>3. b \in Bytes(4)
    BY <2>2, LowBytesAreBytes
  <2> HIDE DEF addr, b
  <2>4. memory' \in Seq(Segment) /\ status' \in {status, "undefined"}
    BY <2>1, <2>2, <2>3, StoreKeepsMemory
  <2> QED BY <2>1, <2>4, RegisterAccess DEF IInv, TypeOK, ZeroRegister, IpIsEven
<1> QED BY <1>1, <1>2

LEMMA FloatKeeps ==
  ASSUME IInv, NEW i \in Insn,
         \/ FArith(i) \/ FCompare(i) \/ FMinMax(i) \/ FToInteger(i) \/ FToFloat(i)
         \/ FSignInject(i) \/ FMoveToX(i) \/ FMoveToF(i) \/ FClass(i) \/ FLoad(i) \/ FStore(i)
  PROVE  IInv'
BY FArithKeeps, FCompareKeeps, FMinMaxKeeps, FToIntegerKeeps, FToFloatKeeps, FMovesKeep,
   FLoadKeeps, FStoreKeeps

LEMMA CallbackKeeps ==
  ASSUME IInv, NEW i \in Insn, Callback(i),
         i.kind \in {"JAL", "BRANCH"} => i.imm % 2 = 0
  PROVE  IInv'
<1>1. CASE Compute(i) \/ LUI(i) \/ AUIPC(i)
  BY <1>1, ComputeKeeps, LUIKeeps, AUIPCKeeps
<1>2. CASE JAL(i) \/ JALR(i) \/ Branch(i)
  BY <1>2, JALKeeps, JALRKeeps, BranchKeeps DEF JAL, Branch
<1>3. CASE Load(i) \/ Store(i)
  BY <1>3, LoadKeeps, StoreKeeps
<1>4. CASE NoOperation(i)
  BY <1>4, IpOnlyKeeps DEF NoOperation, IInv, TypeOK
<1>5. CASE Terminate(i)
  BY <1>5, TerminateKeeps
<1>6. CASE EcallExit(i)
  BY <1>6, IpOnlyKeeps DEF EcallExit
<1>7. CASE EcallRead(i) \/ EcallWrite(i)
  BY <1>7, EcallReadKeeps, EcallWriteKeeps
<1>8. CASE EcallUnknown(i)
  BY <1>8, AbortKeeps, IpOnlyKeeps DEF EcallUnknown, IInv, TypeOK
<1>9. CASE Csr(i)
  BY <1>9, CsrKeeps
<1>10. CASE \/ FArith(i) \/ FCompare(i) \/ FMinMax(i) \/ FToInteger(i) \/ FToFloat(i)
            \/ FSignInject(i) \/ FMoveToX(i) \/ FMoveToF(i) \/ FClass(i)
            \/ FLoad(i) \/ FStore(i)
  BY <1>10, FloatKeeps
<1> QED BY <1>1, <1>2, <1>3, <1>4, <1>5, <1>6, <1>7, <1>8, <1>9, <1>10 DEF Callback

(* A step runs the callback of an instruction, unless the fetch aborts.    *)
LEMMA FetchDecodes ==
  ASSUME IInv, Iterate
  PROVE  \/ Abort
         \/ \E i \in Insn : /\ Callback(i)
                            /\ i.kind \in {"JAL", "BRANCH"} => i.imm % 2 = 0
<1>1. CASE Abort
  BY <1>1
<1>2. CASE ~ Abort
  <2>1. PICK b \in LoadReplies(memory, ip, StepSize) : Callback(Decode(Value(b, StepSize)))
    BY <1>2 DEF Iterate
  <2>2. b \in Bytes(StepSize)
    BY <2>1, LoadRepliesAreBytes DEF IInv, TypeOK, StepSize
  <2>3. Value(b, StepSize) \in Register
    BY <2>2, ValueInRange DEF StepSize
  <2> QED BY <2>1, <2>3, DecodeAssumption
<1> QED BY <1>1, <1>2

LEMMA NextIInv == IInv /\ [Next]_vars => IInv'
<1> SUFFICES ASSUME IInv, [Next]_vars PROVE IInv'
  OBVIOUS
<1>1. CASE Iterate
  <2>1. CASE Abort
    BY <2>1, AbortKeeps
  <2>2. CASE ~ Abort
    <3>1. PICK i \in Insn : /\ Callback(i)
                            /\ i.kind \in {"JAL", "BRANCH"} => i.imm % 2 = 0
      BY <1>1, <2>2, FetchDecodes
    <3> QED BY <3>1, CallbackKeeps
  <2> QED BY <2>1, <2>2
<1>2. CASE Return
  BY <1>2 DEF Return, IInv, TypeOK, ZeroRegister, IpIsEven
<1>3. CASE UNCHANGED vars
  BY <1>3 DEF vars, IInv, TypeOK, ZeroRegister, IpIsEven
<1> QED BY <1>1, <1>2, <1>3 DEF Next

LEMMA AlwaysIInv == Spec => []IInv
<1> QED BY InitIInv, NextIInv, PTL DEF Spec
-----------------------------------------------------------------------------
(* Every register, address and byte of the simulated machine stays in its  *)
(* range, whatever the guest does: each callback truncates (isa_hlp.hpp),  *)
(* and a store or a read system call never resizes a segment.              *)
THEOREM MachineIsTyped == Spec => []TypeOK
<1>1. IInv => TypeOK
  BY DEF IInv
<1> QED BY <1>1, AlwaysIInv, PTL

(* No instruction and no system call changes x0 (RVSim::SetXReg).          *)
THEOREM ZeroRegisterIsKept == Spec => []ZeroRegister
<1>1. IInv => ZeroRegister
  BY DEF IInv
<1> QED BY <1>1, AlwaysIInv, PTL

(* No jump, branch or step reaches an odd address, so that a fetch never   *)
(* starts in the second byte of a half word (RVSim::Execute).              *)
THEOREM FetchesAreEven == Spec => []IpIsEven
<1>1. IInv => IpIsEven
  BY DEF IInv
<1> QED BY <1>1, AlwaysIInv, PTL
-----------------------------------------------------------------------------
(* The refinement.  While Execute runs, the process is "running".          *)

(* What the host does not see, or sees as a kill.                          *)
LEMMA HiddenStep ==
  ASSUME IInv, status = "running", ~ should_stop,
         should_stop' = FALSE, UNCHANGED <<input, output>>
  PROVE  [Process!Next]_(Process!vars)
<1>1. input = SubSeq(input, 0 + 1, Len(input))
  <2>1. input \in Seq(Byte)
    BY DEF IInv, TypeOK
  <2> QED BY <2>1
<1>2. CASE status' \in {"abort", "terminate", "undefined"}
  <2>1. Process!Kill(0)
    BY <1>1, <1>2 DEF Process!Kill, Process!Take
  <2>2. 0 \in 0 .. Len(input)
    BY DEF IInv, TypeOK
  <2> QED BY <2>1, <2>2 DEF Process!Next
<1>3. CASE status' \notin {"abort", "terminate", "undefined"}
  BY <1>3 DEF Process!vars
<1> QED BY <1>2, <1>3

LEMMA ExitStep ==
  ASSUME IInv, status = "running", ~ should_stop, NEW i \in Insn, EcallExit(i)
  PROVE  Process!Next
<1>1. xregs[A0] % ByteMod \in 0 .. ByteMod - 1
  <2>1. xregs[A0] \in Nat
    BY DEF IInv, TypeOK, Register, Address
  <2> QED BY <2>1, Sizes
<1> QED BY <1>1 DEF EcallExit, ExitStatus, Process!Next, Process!Exit

LEMMA WriteStep ==
  ASSUME IInv, status = "running", ~ should_stop, NEW i \in Insn, EcallWrite(i)
  PROVE  [Process!Next]_(Process!vars)
<1>1. CASE Abort
  BY <1>1, HiddenStep DEF Abort, IInv, TypeOK
<1>2. CASE ~ Abort
  <2>1. PICK buf \in CopyReplies(memory, GetXReg(A1), GetXReg(A2)),
             wc \in WriteResults(GetXReg(A2)) :
          /\ output' = output \o [j \in 1 .. wc |-> buf[j - 1]]
          /\ UNCHANGED <<memory, should_stop, status, input>>
    BY <1>2 DEF EcallWrite
  <2>2. /\ wc \in Int
        /\ output' \in Seq(Byte)
        /\ Len(output') = Len(output) + (IF wc < 0 THEN 0 ELSE wc)
        /\ \A j \in 1 .. Len(output) : output'[j] = output[j]
        /\ wc <= 0 => output' = output
    BY <2>1, WriteGives
  <2>3. CASE wc <= 0
    BY <2>1, <2>2, <2>3, HiddenStep DEF IInv, TypeOK
  <2>4. CASE wc > 0
    <3>1. Len(output') > Len(output)
      BY <2>2, <2>4 DEF IInv, TypeOK
    <3>2. \A j \in 1 .. Len(output') : output'[j] \in Byte
      BY <2>2
    <3> QED BY <2>1, <2>2, <3>1, <3>2 DEF Process!Next, Process!Write
  <2> QED BY <2>2, <2>3, <2>4
<1> QED BY <1>1, <1>2

LEMMA ReadStep ==
  ASSUME IInv, status = "running", ~ should_stop, NEW i \in Insn, EcallRead(i)
  PROVE  [Process!Next]_(Process!vars)
<1>1. PICK rc \in ReadResults(GetXReg(A2)) :
        LET count == IF rc < 0 THEN 0 ELSE rc
        IN  /\ input' = SubSeq(input, count + 1, Len(input))
            /\ status' \in {status, "abort", "undefined"}
  BY DEF EcallRead, Spill
<1> DEFINE count == IF rc < 0 THEN 0 ELSE rc
<1>2. count \in 0 .. Len(input)
  <2>1. GetXReg(A2) \in Register
    BY RegisterAccess
  <2> QED BY <1>1, <2>1, ReadCounts
<1>3. /\ input' = SubSeq(input, count + 1, Len(input))
      /\ status' \in {status, "abort", "undefined"}
      /\ should_stop' = should_stop /\ output' = output
  BY <1>1 DEF EcallRead
<1> HIDE DEF count
<1>4. CASE status' # status
  BY <1>2, <1>3, <1>4 DEF Process!Next, Process!Kill, Process!Take
<1>5. CASE status' = status /\ count > 0
  <2>1. count \in 1 .. Len(input)
    BY <1>2, <1>5
  <2> QED BY <1>3, <1>5, <2>1 DEF Process!Next, Process!Read, Process!Take
<1>6. CASE status' = status /\ count = 0
  <2>1. SubSeq(input, 0 + 1, Len(input)) = input
    <3>1. input \in Seq(Byte)
      BY DEF IInv, TypeOK
    <3> QED BY <3>1
  <2> QED BY <1>3, <1>6, <2>1, HiddenStep DEF IInv, TypeOK
<1> QED BY <1>2, <1>4, <1>5, <1>6

LEMMA CallbackStep ==
  ASSUME IInv, status = "running", ~ should_stop, NEW i \in Insn, Callback(i)
  PROVE  [Process!Next]_(Process!vars)
<1>1. CASE \/ Compute(i) \/ LUI(i) \/ AUIPC(i) \/ JAL(i) \/ JALR(i)
  BY <1>1, HiddenStep DEF Compute, LUI, AUIPC, JAL, JALR, Retire, IInv, TypeOK
<1>2. CASE Load(i)
  BY <1>2, HiddenStep DEF Load, Retire, Abort, IInv, TypeOK
<1>3. CASE Store(i)
  BY <1>3, HiddenStep DEF Store, Abort, IInv, TypeOK
<1>4. CASE Branch(i) \/ NoOperation(i) \/ Terminate(i) \/ EcallUnknown(i)
  BY <1>4, HiddenStep DEF Branch, NoOperation, Terminate, EcallUnknown, Abort, IInv, TypeOK
<1>5. CASE EcallExit(i)
  BY <1>5, ExitStep
<1>6. CASE EcallRead(i) \/ EcallWrite(i)
  BY <1>6, ReadStep, WriteStep
<1>7. CASE Csr(i) \/ FLoad(i) \/ FStore(i)
  BY <1>7, HiddenStep DEF Csr, FLoad, FStore, FMove, Abort, IInv, TypeOK
<1>8. CASE FArith(i) \/ FToInteger(i)
  <2>1. CASE AbortRounding
    BY <2>1, HiddenStep DEF AbortRounding, IInv, TypeOK
  <2>2. CASE ~ AbortRounding
    <3>1. UNCHANGED <<should_stop, host>>
      BY <1>8, <2>2 DEF FArith, FToInteger, Accrue
    <3> QED BY <3>1, HiddenStep DEF IInv, TypeOK
  <2> QED BY <2>1, <2>2
<1>9. CASE FCompare(i) \/ FMinMax(i) \/ FToFloat(i)
  <2>1. UNCHANGED <<should_stop, host>>
    BY <1>9 DEF FCompare, FMinMax, FToFloat, Accrue
  <2> QED BY <2>1, HiddenStep DEF IInv, TypeOK
<1>10. CASE FSignInject(i) \/ FMoveToX(i) \/ FMoveToF(i) \/ FClass(i)
  <2>1. UNCHANGED <<should_stop, host>>
    BY <1>10 DEF FSignInject, FMoveToX, FMoveToF, FClass, FMove, Retire
  <2> QED BY <2>1, HiddenStep DEF IInv, TypeOK
<1> QED BY <1>1, <1>2, <1>3, <1>4, <1>5, <1>6, <1>7, <1>8, <1>9, <1>10 DEF Callback

(* Bytes cross the host's side of the simulator in order and one way at a  *)
(* time, the process ends once, with the status the guest gave, and        *)
(* nothing is read or written after that (RVSim::Execute, SyscallHandler). *)
THEOREM ExecuteImplementsProcess == Spec => ImplementsProcess
<1>1. Init => Process!Init
  BY DEF Init, Process!Init
<1>2. IInv /\ [Next]_vars => [Process!Next]_(Process!vars)
  <2> SUFFICES ASSUME IInv, [Next]_vars PROVE [Process!Next]_(Process!vars)
    OBVIOUS
  <2>1. CASE Iterate
    <3>1. CASE Abort
      BY <2>1, <3>1, HiddenStep DEF Iterate, Abort, IInv, TypeOK
    <3>2. CASE ~ Abort
      BY <2>1, <3>2, FetchDecodes, CallbackStep DEF Iterate
    <3> QED BY <3>1, <3>2
  <2>2. CASE Return
    BY <2>2 DEF Return, ExitStatus, Process!vars
  <2>3. CASE UNCHANGED vars
    BY <2>3 DEF vars, ExitStatus, Process!vars
  <2> QED BY <2>1, <2>2, <2>3 DEF Next
<1> QED BY <1>1, <1>2, AlwaysIInv, PTL DEF Spec, ImplementsProcess, Process!Spec

-----------------------------------------------------------------------------
USE AddressAssumption

(* Bytes in a list of segments, before and after a copy.                   *)

(* A byte that is there is in the vector of one segment.                   *)
LEMMA MappedByte ==
  ASSUME NEW mem \in Seq(Segment), NEW x \in Address, Fits(mem, x, 1)
  PROVE  \E k \in DOMAIN mem :
           /\ Hits(mem, k, x) /\ SegmentOf(mem, x) = k
           /\ x - mem[k].start \in 0 .. Size(mem[k]) - 1
           /\ mem[k].start + (x - mem[k].start) = x
           /\ ByteAt(mem, x) = ByteOf(mem[k], x - mem[k].start)
<1>1. PICK k \in DOMAIN mem : Hits(mem, k, x) /\ x - mem[k].start + 1 <= Size(mem[k])
  BY DEF Fits, FitsIn
<1>2. SegmentOf(mem, x) = k /\ mem[k] \in Segment
  BY <1>1, HitIsUnique, ListOfSegments
<1>3. mem[k].start \in Nat /\ Size(mem[k]) \in Nat /\ x \in Nat /\ mem[k].start <= x
  BY <1>1, <1>2, SegmentFields DEF Hits, IsAddrInSegment, Address
<1>4. x - mem[k].start \in 0 .. Size(mem[k]) - 1 /\ mem[k].start + (x - mem[k].start) = x
  BY <1>1, <1>3
<1> QED BY <1>1, <1>2, <1>4 DEF ByteAt

(* A copy puts its bytes at the addresses from addr on, around the end of  *)
(* the address space, and touches no other byte.                           *)
LEMMA CopiedByte ==
  ASSUME NEW mem \in Seq(Segment), NEW addr \in Address, NEW m \in Nat,
         NEW n \in Nat, m <= n, n < AddrMod, NEW b \in Bytes(n),
         NEW x \in Address, Fits(mem, x, 1)
  PROVE  ByteAt(CopyBytes(mem, addr, m, b), x) =
           IF Wrap(x - addr) < m THEN b[Wrap(x - addr)] ELSE ByteAt(mem, x)
<1> DEFINE new == CopyBytes(mem, addr, m, b)
<1>1. PICK k \in DOMAIN mem :
        /\ Hits(mem, k, x) /\ SegmentOf(mem, x) = k
        /\ x - mem[k].start \in 0 .. Size(mem[k]) - 1
        /\ mem[k].start + (x - mem[k].start) = x
        /\ ByteAt(mem, x) = ByteOf(mem[k], x - mem[k].start)
  BY MappedByte
<1>2. SameLayout(mem, new)
  BY CopyKeepsLayout
<1>3. SegmentOf(new, x) = k /\ new[k].start = mem[k].start
  BY <1>1, <1>2, LayoutDecides DEF SameLayout
<1>4. ByteOf(new[k], x - mem[k].start) =
        IF Wrap(x - addr) < m THEN b[Wrap(x - addr)] ELSE ByteOf(mem[k], x - mem[k].start)
  BY <1>1, CopyEffect
<1>5. ByteAt(new, x) = ByteOf(new[k], x - mem[k].start)
  <2> HIDE DEF new
  <2> QED BY <1>3 DEF ByteAt
<1> QED BY <1>1, <1>4, <1>5
-----------------------------------------------------------------------------
(* Which callbacks move bytes.                                             *)

LEMMA OthersMoveNothing ==
  ASSUME NEW i \in Insn, Callback(i), ~ EcallRead(i), ~ EcallWrite(i)
  PROVE  UNCHANGED host
<1>1. CASE Compute(i) \/ LUI(i) \/ AUIPC(i) \/ JAL(i) \/ JALR(i)
  BY <1>1 DEF Compute, LUI, AUIPC, JAL, JALR, Retire
<1>2. CASE Load(i) \/ Store(i)
  BY <1>2 DEF Load, Store, Retire, Abort
<1>3. CASE Branch(i) \/ NoOperation(i) \/ Terminate(i) \/ EcallExit(i) \/ EcallUnknown(i)
  BY <1>3 DEF Branch, NoOperation, Terminate, EcallExit, EcallUnknown, Abort
<1>4. CASE Csr(i) \/ FLoad(i) \/ FStore(i)
  BY <1>4 DEF Csr, FLoad, FStore, FMove, Abort
<1>5. CASE FArith(i) \/ FCompare(i) \/ FMinMax(i) \/ FToInteger(i) \/ FToFloat(i)
  BY <1>5 DEF FArith, FCompare, FMinMax, FToInteger, FToFloat, Accrue, AbortRounding
<1>6. CASE FSignInject(i) \/ FMoveToX(i) \/ FMoveToF(i) \/ FClass(i)
  BY <1>6 DEF FSignInject, FMoveToX, FMoveToF, FClass, FMove, Retire
<1> QED BY <1>1, <1>2, <1>3, <1>4, <1>5, <1>6 DEF Callback

LEMMA OnlyCallsMoveBytes ==
  ASSUME IInv, [Next]_vars, input' # input \/ output' # output
  PROVE  \E i \in Insn : EcallRead(i) \/ EcallWrite(i)
<1>1. CASE Iterate
  <2>1. ~ Abort
    BY DEF Abort
  <2>2. PICK i \in Insn : Callback(i)
    BY <1>1, <2>1, FetchDecodes
  <2> QED BY <2>2, OthersMoveNothing
<1>2. ~ Return
  BY DEF Return
<1>3. ~ UNCHANGED vars
  BY DEF vars
<1> QED BY <1>1, <1>2, <1>3 DEF Next

LEMMA ReadGivesNothing ==
  ASSUME NEW i \in Insn, EcallRead(i)
  PROVE  output' = output
BY DEF EcallRead

LEMMA WriteTakesNothing ==
  ASSUME NEW i \in Insn, EcallWrite(i)
  PROVE  input' = input
<1>1. CASE Abort
  BY <1>1 DEF Abort
<1>2. CASE ~ Abort
  BY <1>2 DEF EcallWrite
<1> QED BY <1>1, <1>2
-----------------------------------------------------------------------------
(* The registers that pass the arguments of a call are not x0.             *)
LEMMA CallRegisters ==
  ASSUME IInv
  PROVE  /\ GetXReg(A1) = xregs[A1] /\ xregs[A1] \in Address
         /\ GetXReg(A2) = xregs[A2] /\ xregs[A2] \in Address
         /\ \A v : SetXReg(A0, v) = [xregs EXCEPT ![A0] = v]
         /\ \A v : [xregs EXCEPT ![A0] = v][A0] = v
<1>1. /\ xregs \in [XReg -> Address]
      /\ {A0, A1, A2} \subseteq XReg /\ A0 # 0 /\ A1 # 0 /\ A2 # 0
  BY DEF IInv, TypeOK, Register
<1>2. \A v : SetXReg(A0, v) = [xregs EXCEPT ![A0] = v]
  BY <1>1 DEF SetXReg
<1> QED BY <1>1, <1>2 DEF GetXReg

LEMMA ReadDelivers ==
  ASSUME IInv, NEW i \in Insn, EcallRead(i), Len(input') < Len(input), status' = "running"
  PROVE  LET count == Len(input) - Len(input')
         IN  /\ xregs'[A0] = count
             /\ NDEBUG \/ \A x \in GuestBuffer(count) : Mapped(x)
             /\ \A j \in 0 .. count - 1 :
                  LET x == Wrap(xregs[A1] + j)
                  IN  Mapped(x) => ByteAt(memory', x) = input[j + 1]
             /\ \A x \in Address \ GuestBuffer(count) :
                  Mapped(x) => ByteAt(memory', x) = ByteAt(memory, x)
<1> DEFINE addr == xregs[A1]
           Buf(n) == [j \in 0 .. n - 1 |-> input[j + 1]]
<1>1. PICK rc \in ReadResults(GetXReg(A2)) :
        LET count == IF rc < 0 THEN 0 ELSE rc
        IN  /\ input' = SubSeq(input, count + 1, Len(input))
            /\ NDEBUG \/ Missing(memory, addr, count) = {}
            /\ memory' = CopyBytes(memory, addr, count, Buf(count))
            /\ xregs' = SetXReg(A0, Trunc(rc))
  BY CallRegisters DEF EcallRead
<1> DEFINE count == IF rc < 0 THEN 0 ELSE rc
<1>2. /\ rc \in Int
      /\ count \in 0 .. Len(input) /\ count < AddrMod
      /\ Buf(count) \in Bytes(count)
  <2>1. GetXReg(A2) \in Register
    BY CallRegisters DEF Register
  <2> QED BY <1>1, <2>1, ReadCounts
<1>3. input \in Seq(Byte) /\ Len(input) \in Nat /\ memory \in Seq(Segment) /\ addr \in Address
  BY CallRegisters DEF IInv, TypeOK
<1>4. /\ input' = SubSeq(input, count + 1, Len(input))
      /\ NDEBUG \/ Missing(memory, addr, count) = {}
      /\ memory' = CopyBytes(memory, addr, count, Buf(count))
      /\ xregs' = SetXReg(A0, Trunc(rc))
  BY <1>1
<1>5. count \in Nat /\ count > 0 /\ Len(input) - Len(input') = count /\ rc = count
  <2> DEFINE c == count
  <2>1. c \in 0 .. Len(input) /\ input' = SubSeq(input, c + 1, Len(input))
    BY <1>2, <1>4
  <2> HIDE DEF c
  <2>2. Len(input') = Len(input) - c /\ c > 0
    BY <1>3, <2>1
  <2>3. c \in Nat /\ c > 0 /\ Len(input) - Len(input') = c
    BY <1>3, <2>1, <2>2
  <2> QED BY <1>2, <2>3 DEF c
<1>6. xregs'[A0] = count
  <2>1. rc \in Nat /\ rc < AddrMod
    BY <1>2, <1>5
  <2>2. Trunc(rc) = rc
    BY <2>1 DEF Trunc
  <2> QED BY <1>4, <1>5, <2>2, CallRegisters
<1> HIDE DEF count, addr, Buf
<1>7. ASSUME NEW x \in Address, Mapped(x)
      PROVE  ByteAt(memory', x) = IF Wrap(x - addr) < count THEN Buf(count)[Wrap(x - addr)]
                                                            ELSE ByteAt(memory, x)
  BY <1>2, <1>3, <1>4, <1>5, <1>7, CopiedByte DEF Mapped
<1>8. ASSUME NEW j \in 0 .. count - 1
      PROVE  /\ j \in Address /\ Wrap(addr + j) \in Address
             /\ Wrap(Wrap(addr + j) - addr) = j
             /\ Buf(count)[j] = input[j + 1]
  <2>1. j \in Address
    <3>1. count \in Nat /\ count < AddrMod
      BY <1>2, <1>5
    <3> QED BY <3>1 DEF Address
  <2>2. Wrap(addr + j) \in Address
    <3>1. addr \in Address
      BY <1>3
    <3> QED BY <2>1, <3>1 DEF Wrap, Address
  <2>3. Wrap(Wrap(addr + j) - addr) = j
    BY <1>3, <2>1, <2>2, WrapBack
  <2> QED BY <2>1, <2>2, <2>3 DEF Buf
<1>9. NDEBUG \/ \A x \in GuestBuffer(count) : Mapped(x)
  BY <1>4 DEF GuestBuffer, Mapped, Missing, addr
<1>10. ASSUME NEW j \in 0 .. count - 1, Mapped(Wrap(addr + j))
       PROVE  ByteAt(memory', Wrap(addr + j)) = input[j + 1]
  <2>1. ByteAt(memory', Wrap(addr + j)) = IF j < count THEN Buf(count)[j]
                                          ELSE ByteAt(memory, Wrap(addr + j))
    BY <1>7, <1>8, <1>10
  <2> QED BY <1>5, <1>8, <2>1
<1>11. ASSUME NEW x \in Address \ GuestBuffer(count), Mapped(x)
       PROVE  ByteAt(memory', x) = ByteAt(memory, x)
  <2>1. Wrap(x - addr) \in Address /\ Wrap(addr + Wrap(x - addr)) = x
    BY <1>3, WrapBack
  <2>2. ~ (Wrap(x - addr) < count)
    <3>1. Wrap(x - addr) < count => Wrap(x - addr) \in 0 .. count - 1
      BY <1>5, <2>1 DEF Address
    <3> QED BY <2>1, <3>1 DEF GuestBuffer, addr
  <2> QED BY <1>7, <1>11, <2>2
<1> QED BY <1>5, <1>6, <1>9, <1>10, <1>11 DEF addr

(* A write gives a prefix of what the call finds in the buffer.            *)
LEMMA WriteShows ==
  ASSUME IInv, NEW i \in Insn, EcallWrite(i), output' # output
  PROVE  LET count == Len(output') - Len(output)
         IN  /\ count \in 1 .. xregs[A2]
             /\ xregs' = [xregs EXCEPT ![A0] = count]
             /\ memory' = memory
             /\ SubSeq(output', 1, Len(output)) = output
             /\ \A j \in 0 .. count - 1 :
                  LET x == Wrap(xregs[A1] + j)
                  IN  Mapped(x) => output'[Len(output) + j + 1] = ByteAt(memory, x)
<1>1. ~ Abort
  BY DEF Abort
<1>2. PICK buf \in CopyReplies(memory, GetXReg(A1), GetXReg(A2)),
           wc \in WriteResults(GetXReg(A2)) :
        /\ output' = output \o [j \in 1 .. wc |-> buf[j - 1]]
        /\ xregs' = SetXReg(A0, Trunc(wc))
        /\ memory' = memory
  BY <1>1 DEF EcallWrite
<1>3. /\ wc \in Int /\ output' \in Seq(Byte)
      /\ Len(output') = Len(output) + (IF wc < 0 THEN 0 ELSE wc)
      /\ \A j \in 1 .. Len(output) : output'[j] = output[j]
      /\ wc <= 0 => output' = output
  BY <1>2, WriteGives
<1>4. xregs[A2] \in Nat /\ xregs[A2] < AddrMod /\ GetXReg(A2) = xregs[A2]
  BY CallRegisters DEF Address
<1>5. wc \in 1 .. xregs[A2] /\ wc < AddrMod
  <2>1. wc \in Int /\ wc > 0
    BY <1>3
  <2>2. wc \in WriteResults(xregs[A2])
    BY <1>2, <1>4
  <2> QED BY <1>4, <2>1, <2>2 DEF WriteResults
<1>6. output \in Seq(Byte) /\ Len(output) \in Nat /\ Len(output') - Len(output) = wc
  BY <1>3, <1>5 DEF IInv, TypeOK
<1>7. xregs' = [xregs EXCEPT ![A0] = wc]
  <2>1. Trunc(wc) = wc
    BY <1>5 DEF Trunc
  <2> QED BY <1>2, <2>1, CallRegisters
<1>8. SubSeq(output', 1, Len(output)) = output
  <2>1. Len(output) <= Len(output')
    BY <1>3, <1>5, <1>6
  <2>2. /\ SubSeq(output', 1, Len(output)) \in Seq(Byte)
        /\ Len(SubSeq(output', 1, Len(output))) = Len(output)
        /\ \A j \in 1 .. Len(output) : SubSeq(output', 1, Len(output))[j] = output'[j]
    BY <1>3, <1>6, <2>1
  <2> QED BY <1>3, <1>6, <2>2, SeqEqual
<1>9. ASSUME NEW j \in 0 .. wc - 1, Mapped(Wrap(xregs[A1] + j))
      PROVE  output'[Len(output) + j + 1] = ByteAt(memory, Wrap(xregs[A1] + j))
  <2>1. buf[j] = ByteAt(memory, Wrap(xregs[A1] + j))
    <3>1. j \in 0 .. GetXReg(A2) - 1 /\ GetXReg(A1) = xregs[A1]
      BY <1>4, <1>5, CallRegisters
    <3> QED BY <1>2, <1>9, <3>1 DEF CopyReplies, Mapped
  <2> DEFINE given == [l \in 1 .. wc |-> buf[l - 1]]
  <2>2. j + 1 \in 1 .. wc /\ (j + 1) - 1 = j
    BY <1>5
  <2>3. given[j + 1] = buf[j]
    BY <2>2
  <2>4. given \in Seq(Byte) /\ Len(given) = wc
    <3>1. buf \in Bytes(xregs[A2])
      BY <1>2, CallRegisters, CopyRepliesAreBytes DEF IInv, TypeOK
    <3>2. ASSUME NEW l \in 1 .. wc PROVE buf[l - 1] \in Byte
      <4>1. l - 1 \in 0 .. xregs[A2] - 1
        BY <1>4, <1>5
      <4> QED BY <3>1, <4>1 DEF Bytes
    <3>3. wc \in Nat /\ given \in [1 .. wc -> Byte]
      BY <1>5, <3>2
    <3> HIDE DEF given
    <3> QED BY <3>3
  <2>5. output' = output \o given
    BY <1>2
  <2> HIDE DEF given
  <2>6. output'[Len(output) + (j + 1)] = given[j + 1]
    BY <1>6, <2>2, <2>4, <2>5, ConcatProperties
  <2>7. Len(output) + (j + 1) = Len(output) + j + 1
    BY <1>6
  <2> QED BY <2>1, <2>3, <2>6, <2>7
<1> QED BY <1>2, <1>5, <1>6, <1>7, <1>8, <1>9
-----------------------------------------------------------------------------
(* A read that returns has put every byte it took from the host into the   *)
(* guest's buffer, in order, and has reported how many they were; no other *)
(* byte of the memory changes.  An assert leaves no byte without a place;  *)
(* without asserts those that have one arrive (SyscallHandler::Read).      *)
THEOREM ReadsArrive == Spec => ReadsDeliver
<1> DEFINE Delivered ==
      Len(input') < Len(input) /\ status' = "running" =>
        LET count == Len(input) - Len(input')
        IN  /\ xregs'[A0] = count
            /\ NDEBUG \/ \A x \in GuestBuffer(count) : Mapped(x)
            /\ \A j \in 0 .. count - 1 :
                 LET x == Wrap(xregs[A1] + j)
                 IN  Mapped(x) => ByteAt(memory', x) = input[j + 1]
            /\ \A x \in Address \ GuestBuffer(count) :
                 Mapped(x) => ByteAt(memory', x) = ByteAt(memory, x)
<1>1. IInv /\ [Next]_vars => [Delivered]_vars
  <2> SUFFICES ASSUME IInv, [Next]_vars, Len(input') < Len(input), status' = "running"
               PROVE  Delivered
    OBVIOUS
  <2>1. input' # input
    BY DEF IInv, TypeOK
  <2>2. PICK i \in Insn : EcallRead(i)
    BY <2>1, OnlyCallsMoveBytes, WriteTakesNothing
  <2> QED BY <2>2, ReadDelivers
<1>2. [][Delivered]_vars => ReadsDeliver
  BY PTL DEF ReadsDeliver
<1> HIDE DEF Delivered
<1> QED BY <1>1, <1>2, AlwaysIInv, PTL DEF Spec

(* What the host gets from a write is the beginning of the guest's buffer, *)
(* byte by byte, as long as the call reports, and nothing of the guest but *)
(* a0 and ip is changed by it (SyscallHandler::Write).                     *)
THEOREM WritesArePrefixes == Spec => WritesShowMemory
<1> DEFINE Shown ==
      output' # output =>
        LET count == Len(output') - Len(output)
        IN  /\ count \in 1 .. xregs[A2]
            /\ xregs' = [xregs EXCEPT ![A0] = count]
            /\ memory' = memory
            /\ SubSeq(output', 1, Len(output)) = output
            /\ \A j \in 0 .. count - 1 :
                 LET x == Wrap(xregs[A1] + j)
                 IN  Mapped(x) => output'[Len(output) + j + 1] = ByteAt(memory, x)
<1>1. IInv /\ [Next]_vars => [Shown]_vars
  <2> SUFFICES ASSUME IInv, [Next]_vars, output' # output
               PROVE  Shown
    OBVIOUS
  <2>1. PICK i \in Insn : EcallWrite(i)
    BY OnlyCallsMoveBytes, ReadGivesNothing
  <2> QED BY <2>1, WriteShows
<1>2. [][Shown]_vars => WritesShowMemory
  BY PTL DEF WritesShowMemory
<1> HIDE DEF Shown
<1> QED BY <1>1, <1>2, AlwaysIInv, PTL DEF Spec
-----------------------------------------------------------------------------
(* Words and their bytes.                                                  *)

LEMMA TruncOfAddress ==
  ASSUME NEW z \in Address
  PROVE  Trunc(z) = z
BY Sizes DEF Trunc, Address

(* A word written byte by byte reads back as itself.                       *)
LEMMA ValueOfLowBytes ==
  ASSUME NEW v \in Register, NEW b, \A j \in 0 .. 3 : b[j] = LowBytes(v, 4)[j]
  PROVE  Value(b, 4) = v
<1> DEFINE B == ByteMod
           v1 == v \div B
           v2 == v1 \div B
           v3 == v2 \div B
<1>1. B \in Nat \ {0} /\ v \in Nat /\ v < B * (B * (B * B))
  BY RVSimAssumption, FourByteAssumption DEF Register, Address
<1> HIDE DEF B
<1>2. b[0] = v % B /\ b[1] = v1 % B /\ b[2] = v2 % B /\ b[3] = v3 % B
  <2>1. /\ b[0] = (v \div 1) % B
        /\ b[1] = (v \div B) % B
        /\ b[2] = (v \div (B * B)) % B
        /\ b[3] = (v \div (B * (B * B))) % B
    BY DEF LowBytes, B
  <2>2. v \div (B * B) = v2
    BY <1>1, DivByProduct
  <2>3. v \div (B * (B * B)) = v3
    <3>1. B * B \in Nat \ {0}
      BY ONLY <1>1
    <3>2. v \div (B * (B * B)) = v1 \div (B * B)
      BY ONLY <1>1, <3>1, DivByProduct
    <3>3. v1 \div (B * B) = v3
      BY <1>1, DivByProduct
    <3> QED BY ONLY <3>2, <3>3
  <2>4. v \div 1 = v
    BY <1>1
  <2> QED BY ONLY <2>1, <2>2, <2>3, <2>4
<1>3. v1 \in Nat /\ v2 \in Nat /\ v3 \in Nat
  BY ONLY <1>1
<1>4. /\ v = (v % B) + B * v1
      /\ v1 = (v1 % B) + B * v2
      /\ v2 = (v2 % B) + B * v3
  BY ONLY <1>1, <1>3
<1>5. v3 % B = v3
  <2>1. v3 < B
    <3> SUFFICES ASSUME v3 >= B PROVE FALSE
      BY ONLY <1>1, <1>3
    <3> DEFINE D == B * (B * B)
    <3>1. D \in Nat \ {0}
      BY ONLY <1>1
    <3>2. v \div D = v3
      <4>1. B * B \in Nat \ {0}
        BY ONLY <1>1
      <4> QED BY ONLY <1>1, <4>1, DivByProduct
    <3>3. v < D * B
      BY ONLY <1>1
    <3> HIDE DEF D
    <3>4. v >= D * v3
      BY ONLY <1>1, <3>1, <3>2
    <3>5. D * v3 >= D * B
      BY ONLY <1>1, <1>3, <3>1, v3 >= B
    <3> QED BY ONLY <1>1, <1>3, <3>1, <3>3, <3>4, <3>5
  <2> QED BY ONLY <1>1, <1>3, <2>1
<1> HIDE DEF v1, v2, v3
<1>6. Value(b, 4) = b[0] + B * (b[1] + B * (b[2] + B * b[3]))
  BY DEF Value, B
<1> QED BY ONLY <1>2, <1>4, <1>5, <1>6
-----------------------------------------------------------------------------
(* No step moves a segment or changes the size of a vector.                *)

LEMMA SameLayoutIsUnbroken ==
  ASSUME NEW mem \in Seq(Segment), NEW new, SameLayout(mem, new), Unbroken(mem)
  PROVE  Unbroken(new)
<1>1. \A k \in DOMAIN mem : 1 .. k - 1 \subseteq DOMAIN mem
  BY ListOfSegments
<1> QED BY <1>1 DEF SameLayout, Unbroken, HasRange

LEMMA StoreKeepsLayout ==
  ASSUME IInv, NEW n \in Nat, NEW addr \in Address, NEW b \in Bytes(n),
         StoreBytes(n, addr, b)
  PROVE  SameLayout(memory, memory')
<1>1. memory \in Seq(Segment)
  BY DEF IInv, TypeOK
<1>2. CASE Unmatched(memory, addr)
  BY <1>1, <1>2, SameLayoutAsItself DEF StoreBytes
<1>3. CASE ~ Unmatched(memory, addr)
  BY <1>1, <1>3, WriteKeepsLayout DEF StoreBytes
<1> QED BY <1>2, <1>3

LEMMA ReadKeepsLayout ==
  ASSUME IInv, NEW i \in Insn, EcallRead(i)
  PROVE  SameLayout(memory, memory')
<1> DEFINE addr == GetXReg(A1)
           Buf(n) == [j \in 0 .. n - 1 |-> input[j + 1]]
<1>1. PICK rc \in ReadResults(GetXReg(A2)) :
        LET count == IF rc < 0 THEN 0 ELSE rc
        IN  \E m \in {count} \cup Missing(memory, addr, count) :
              memory' = CopyBytes(memory, addr, m, Buf(count))
  BY DEF EcallRead
<1> DEFINE count == IF rc < 0 THEN 0 ELSE rc
<1>2. count \in 0 .. Len(input) /\ count < AddrMod /\ Buf(count) \in Bytes(count)
  <2>1. GetXReg(A2) \in Register
    BY CallRegisters DEF Register
  <2> QED BY <2>1, ReadCounts
<1>3. /\ addr \in Address /\ memory \in Seq(Segment) /\ Len(input) \in Nat
      /\ \E m \in {count} \cup Missing(memory, addr, count) :
           memory' = CopyBytes(memory, addr, m, Buf(count))
  <2>1. addr \in Address
    BY CallRegisters
  <2>2. memory \in Seq(Segment) /\ Len(input) \in Nat
    BY DEF IInv, TypeOK
  <2> QED BY <1>1, <2>1, <2>2
<1> HIDE DEF count, addr, Buf
<1>4. count \in Nat
  BY <1>2, <1>3
<1>5. PICK m \in 0 .. count : memory' = CopyBytes(memory, addr, m, Buf(count))
  BY <1>3, <1>4 DEF Missing
<1> QED BY <1>2, <1>3, <1>4, <1>5, CopyKeepsLayout

(* Every callback but the two stores and the read leaves the memory alone. *)
LEMMA OthersKeepMemory ==
  ASSUME NEW i \in Insn, Callback(i), ~ Store(i), ~ FStore(i), ~ EcallRead(i)
  PROVE  memory' = memory
<1>1. CASE Compute(i) \/ LUI(i) \/ AUIPC(i) \/ JAL(i) \/ JALR(i)
  BY <1>1 DEF Compute, LUI, AUIPC, JAL, JALR, Retire
<1>2. CASE Load(i)
  BY <1>2 DEF Load, Retire, Abort
<1>3. CASE Branch(i) \/ NoOperation(i) \/ Terminate(i) \/ EcallExit(i) \/ EcallUnknown(i)
  BY <1>3 DEF Branch, NoOperation, Terminate, EcallExit, EcallUnknown, Abort
<1>4. CASE Csr(i) \/ FLoad(i)
  BY <1>4 DEF Csr, FLoad, FMove, Abort
<1>5. CASE FArith(i) \/ FCompare(i) \/ FMinMax(i) \/ FToInteger(i) \/ FToFloat(i)
  BY <1>5 DEF FArith, FCompare, FMinMax, FToInteger, FToFloat, Accrue, AbortRounding
<1>6. CASE FSignInject(i) \/ FMoveToX(i) \/ FMoveToF(i) \/ FClass(i)
  BY <1>6 DEF FSignInject, FMoveToX, FMoveToF, FClass, FMove, Retire
<1>7. CASE EcallWrite(i)
  <2>1. CASE Abort
    BY <2>1 DEF Abort
  <2>2. CASE ~ Abort
    BY <1>7, <2>2 DEF EcallWrite
  <2> QED BY <2>1, <2>2
<1> QED BY <1>1, <1>2, <1>3, <1>4, <1>5, <1>6, <1>7 DEF Callback

LEMMA CallbackKeepsLayout ==
  ASSUME IInv, NEW i \in Insn, Callback(i)
  PROVE  SameLayout(memory, memory')
<1>1. memory \in Seq(Segment)
  BY DEF IInv, TypeOK
<1>2. CASE memory' = memory
  BY <1>1, <1>2, SameLayoutAsItself
<1>3. CASE Abort
  BY <1>2, <1>3 DEF Abort
<1>4. CASE Store(i) /\ ~ Abort
  <2>1. StoreBytes(Width(i.op), EffectiveAddress(i), LowBytes(GetXReg(i.rs2), Width(i.op)))
    BY <1>4 DEF Store
  <2>2. /\ EffectiveAddress(i) \in Address /\ Width(i.op) \in {1, 2, 4}
        /\ GetXReg(i.rs2) \in Register
    BY WidthIsNat, EffectiveAddressIsAddress, InsnFields, RegisterAccess
  <2>3. LowBytes(GetXReg(i.rs2), Width(i.op)) \in Bytes(Width(i.op)) /\ Width(i.op) \in Nat
    BY <2>2, LowBytesAreBytes
  <2> QED BY <2>1, <2>2, <2>3, StoreKeepsLayout
<1>5. CASE FStore(i) /\ ~ Abort
  <2>1. StoreBytes(4, EffectiveAddress(i), LowBytes(fregs[i.rs2], 4))
    BY <1>5 DEF FStore
  <2>2. EffectiveAddress(i) \in Address /\ fregs[i.rs2] \in Register
    BY EffectiveAddressIsAddress, InsnFields DEF FReg, IInv, TypeOK
  <2>3. LowBytes(fregs[i.rs2], 4) \in Bytes(4)
    BY <2>2, LowBytesAreBytes
  <2> QED BY <2>1, <2>2, <2>3, StoreKeepsLayout
<1>6. CASE EcallRead(i)
  BY <1>6, ReadKeepsLayout
<1> QED BY <1>2, <1>3, <1>4, <1>5, <1>6, OthersKeepMemory

LEMMA NextKeepsLayout ==
  ASSUME IInv, [Next]_vars
  PROVE  SameLayout(memory, memory')
<1>1. CASE Iterate
  <2>1. CASE Abort
    BY <2>1, SameLayoutAsItself DEF Abort, IInv, TypeOK
  <2>2. CASE ~ Abort
    <3>1. PICK i \in Insn : Callback(i)
      BY <1>1, <2>2, FetchDecodes
    <3> QED BY <3>1, CallbackKeepsLayout
  <2> QED BY <2>1, <2>2
<1>2. CASE Return
  BY <1>2, SameLayoutAsItself DEF Return, IInv, TypeOK
<1>3. CASE UNCHANGED vars
  BY <1>3, SameLayoutAsItself DEF vars, IInv, TypeOK
<1> QED BY <1>1, <1>2, <1>3 DEF Next
-----------------------------------------------------------------------------
(* Accesses.  What the machine asks of every byte of one is what the code  *)
(* asks of the first: that its segment has room for all of them.           *)

LEMMA AddressIsItself == \A y \in Address : y % AddrMod = y
BY Sizes DEF Address

LEMMA UnbrokenHits ==
  ASSUME NEW mem \in Seq(Segment), Unbroken(mem), NEW k \in DOMAIN mem,
         NEW x \in Address, NEW y \in Int, Hits(mem, k, x), x <= y,
         y < mem[k].start + Size(mem[k])
  PROVE  y \in Address /\ Hits(mem, k, y)
<1>1. mem[k] \in Segment /\ 1 .. k - 1 \subseteq DOMAIN mem
  BY ListOfSegments
<1>2. /\ mem[k].start \in Nat /\ mem[k].end \in Nat /\ Size(mem[k]) \in Nat
      /\ mem[k].end < AddrMod /\ x \in Nat
      /\ mem[k].start <= x /\ Size(mem[k]) <= mem[k].end - mem[k].start
  <2>1. /\ mem[k].start \in Nat /\ mem[k].end \in Nat /\ Size(mem[k]) \in Nat
        /\ mem[k].end < AddrMod /\ x \in Nat
    BY <1>1, SegmentFields DEF Address
  <2>2. mem[k].start <= x /\ x < mem[k].end
    BY DEF Hits, IsAddrInSegment
  <2>3. HasRange(mem[k])
    BY <2>1, <2>2 DEF HasRange
  <2> QED BY <2>1, <2>2, <2>3 DEF Unbroken
<1>3. mem[k].start <= y /\ y < mem[k].end /\ y \in Address
  BY <1>2 DEF Address
<1>4. ASSUME NEW l \in 1 .. k - 1, IsAddrInSegment(y, mem[l]) PROVE FALSE
  <2>1. mem[l].start \in Int /\ mem[l].end \in Int
    <3>1. l \in DOMAIN mem
      BY <1>1
    <3>2. mem[l] \in Segment
      BY <3>1, ListOfSegments
    <3>3. mem[l].start \in Address /\ mem[l].end \in Address
      BY <3>2, SegmentFields, ZenonT(30)
    <3> QED BY ONLY <3>3, AddressAssumption DEF Address
  <2>2. x < mem[l].start \/ mem[l].end <= x
    <3>1. ~ IsAddrInSegment(x, mem[l])
      BY <1>4, ZenonT(30) DEF Hits
    <3> QED BY ONLY <1>2, <2>1, <3>1 DEF IsAddrInSegment
  <2>3. mem[l].start <= y /\ y < mem[l].end
    BY <1>4 DEF IsAddrInSegment
  <2>4. mem[l].start \in mem[k].start + 1 .. mem[k].start + Size(mem[k]) - 1
    <3> DEFINE begin == mem[l].start  finish == mem[l].end  base == mem[k].start
               size == Size(mem[k])
    <3>1. /\ begin \in Int /\ finish \in Int /\ base \in Nat /\ size \in Nat /\ x \in Nat
          /\ base <= x /\ x <= y /\ y < base + size
          /\ x < begin \/ finish <= x
          /\ begin <= y /\ y < finish
      BY <1>2, <2>1, <2>2, <2>3
    <3> HIDE DEF begin, finish, base, size
    <3>2. begin \in base + 1 .. base + size - 1
      BY <3>1
    <3> QED BY <3>2 DEF begin, base, size
  <2>5. HasRange(mem[l])
    BY ONLY <1>2, <1>3, <2>1, <2>3, y \in Int DEF HasRange
  <2>6. HasRange(mem[k])
    BY ONLY <1>2, <1>3, y \in Int DEF HasRange
  <2> QED BY <2>4, <2>5, <2>6 DEF Unbroken
<1> QED BY <1>3, <1>4 DEF Hits, IsAddrInSegment

(* Every byte is there and in the region of the first.                     *)
AllServed(mem, a, n) ==
  \A j \in 0 .. n - 1 :
    /\ Fits(mem, (a + j) % AddrMod, 1)
    /\ RegionOf(mem, (a + j) % AddrMod) = RegionOf(mem, a)

LEMMA FitsIsAllServed ==
  ASSUME NEW mem \in Seq(Segment), Unbroken(mem), NEW a \in Address, NEW n \in {1, 2, 4}
  PROVE  Fits(mem, a, n) <=> AllServed(mem, a, n)
<1>0. a \in Nat /\ a < AddrMod /\ AddrMod \in Nat /\ n \in Nat /\ n >= 1 /\ n <= AddrMod
  BY Sizes DEF Address
<1>1. ASSUME Fits(mem, a, n) PROVE AllServed(mem, a, n)
  <2>1. PICK k \in DOMAIN mem : Hits(mem, k, a) /\ a - mem[k].start + n <= Size(mem[k])
    BY <1>1 DEF Fits, FitsIn
  <2>2. mem[k].start \in Nat /\ Size(mem[k]) \in Nat
    BY ListOfSegments, SegmentFields DEF Address
  <2>3. ASSUME NEW j \in 0 .. n - 1
        PROVE  /\ Fits(mem, (a + j) % AddrMod, 1)
               /\ RegionOf(mem, (a + j) % AddrMod) = RegionOf(mem, a)
    <3>1. a + j \in Int /\ a <= a + j /\ a + j < mem[k].start + Size(mem[k])
      BY <1>0, <2>1, <2>2
    <3>2. a + j \in Address /\ Hits(mem, k, a + j)
      BY <2>1, <3>1, UnbrokenHits
    <3>3. (a + j) % AddrMod = a + j
      BY <3>2, AddressIsItself
    <3>4. (a + j) - mem[k].start + 1 <= Size(mem[k])
      BY <1>0, <2>2, <3>1
    <3> QED BY <2>1, <3>2, <3>3, <3>4, FitsWhereItHits, HitIsUnique
  <2> QED BY <2>3 DEF AllServed
<1>2. ASSUME AllServed(mem, a, n) PROVE Fits(mem, a, n)
  <2>1. ASSUME NEW j \in 0 .. n - 1
        PROVE  \E k \in DOMAIN mem :
                 /\ Hits(mem, k, (a + j) % AddrMod)
                 /\ k = RegionOf(mem, a)
                 /\ ((a + j) % AddrMod) - mem[k].start + 1 <= Size(mem[k])
    <3> DEFINE x == (a + j) % AddrMod
    <3>1. Fits(mem, x, 1) /\ RegionOf(mem, x) = RegionOf(mem, a)
      BY <1>2 DEF AllServed
    <3>2. PICK k \in DOMAIN mem : Hits(mem, k, x) /\ x - mem[k].start + 1 <= Size(mem[k])
      BY <3>1 DEF Fits, FitsIn
    <3> HIDE DEF x
    <3>3. k = RegionOf(mem, a)
      BY <3>1, <3>2, HitIsUnique
    <3> QED BY <3>2, <3>3 DEF x
  <2> DEFINE k == RegionOf(mem, a)
  <2>2. /\ k \in DOMAIN mem
        /\ \A j \in 0 .. n - 1 : /\ Hits(mem, k, (a + j) % AddrMod)
                                 /\ ((a + j) % AddrMod) - mem[k].start + 1 <= Size(mem[k])
    <3>1. 0 \in 0 .. n - 1
      BY <1>0
    <3> QED BY <2>1, <3>1
  <2> HIDE DEF k
  <2>3. /\ mem[k].start \in Nat /\ Size(mem[k]) \in Nat
        /\ mem[k].end \in Nat /\ mem[k].end < AddrMod
    <3>1. mem[k] \in Segment
      BY <2>2, ListOfSegments, ZenonT(30)
    <3>2. {mem[k].start, mem[k].end, Size(mem[k])} \subseteq Address
      BY <3>1, SegmentFields, ZenonT(30)
    <3> QED BY ONLY <3>2, AddressAssumption DEF Address
  <2>4. Hits(mem, k, a)
    <3>1. 0 \in 0 .. n - 1 /\ (a + 0) % AddrMod = a
      BY <1>0
    <3> QED BY <2>2, <3>1
  <2>5. a + (n - 1) < AddrMod
    <3> SUFFICES ASSUME a + (n - 1) >= AddrMod PROVE FALSE
      BY <1>0
    <3> DEFINE j == AddrMod - 1 - a
    <3>1. j \in 0 .. n - 1 /\ a + j = AddrMod - 1
      BY <1>0
    <3>2. (a + j) % AddrMod = AddrMod - 1
      BY <1>0, <3>1
    <3>3. Hits(mem, k, AddrMod - 1)
      BY <2>2, <3>1, <3>2
    <3> QED BY <1>0, <2>3, <3>3 DEF Hits, IsAddrInSegment
  <2>6. (a + (n - 1)) % AddrMod = a + (n - 1) /\ n - 1 \in 0 .. n - 1
    BY <1>0, <2>5
  <2>7. (a + (n - 1)) - mem[k].start + 1 <= Size(mem[k])
    BY <2>2, <2>6
  <2>8. a - mem[k].start + n <= Size(mem[k])
    BY <1>0, <2>3, <2>7
  <2> QED BY <2>2, <2>4, <2>8, FitsWhereItHits
<1> QED BY <1>1, <1>2

(* A load that fits returns the bytes that are there.                      *)
LEMMA LoadedBytes ==
  ASSUME NEW mem \in Seq(Segment), Unbroken(mem), NEW a \in Address, NEW n \in {1, 2, 4},
         Fits(mem, a, n), NEW b \in LoadReplies(mem, a, n), NEW j \in 0 .. n - 1
  PROVE  b[j] = ByteAt(mem, (a + j) % AddrMod)
<1>0. a \in Nat /\ a < AddrMod /\ AddrMod \in Nat /\ n \in Nat
  BY Sizes DEF Address
<1>1. PICK k \in DOMAIN mem : Hits(mem, k, a) /\ a - mem[k].start + n <= Size(mem[k])
  BY DEF Fits, FitsIn
<1>2. mem[k].start \in Nat /\ Size(mem[k]) \in Nat
  BY ListOfSegments, SegmentFields DEF Address
<1>3. SegmentOf(mem, a) = k /\ ~ Unmatched(mem, a)
  BY <1>1, HitIsUnique
<1>4. a + j \in Int /\ a <= a + j /\ a + j < mem[k].start + Size(mem[k])
  BY <1>0, <1>1, <1>2
<1>5. a + j \in Address /\ Hits(mem, k, a + j)
  BY <1>1, <1>4, UnbrokenHits
<1>6. (a + j) % AddrMod = a + j /\ SegmentOf(mem, a + j) = k
  BY <1>1, <1>5, AddressIsItself, HitIsUnique
<1>7. ByteAt(mem, a + j) = ByteOf(mem[k], (a + j) - mem[k].start)
  BY <1>6 DEF ByteAt
<1>8. b[j] = ByteOf(mem[k], (a - mem[k].start) + j)
  <2> DEFINE kk == SegmentOf(mem, a)
             offset == a - mem[kk].start
             inside == {i \in 0 .. n - 1 : offset + i < Size(mem[kk])}
  <2>1. PICK past \in [(0 .. n - 1) \ inside -> Byte] :
          b = [i \in 0 .. n - 1 |-> IF i \in inside THEN ByteOf(mem[kk], offset + i)
                                                    ELSE past[i]]
    BY <1>3 DEF LoadReplies
  <2>2. kk = k
    BY <1>3
  <2>3. (a - mem[k].start) + j < Size(mem[k])
    BY <1>0, <1>2, <1>4
  <2>4. j \in inside
    BY <2>2, <2>3
  <2> QED BY <2>1, <2>2, <2>4
<1>9. (a + j) - mem[k].start = (a - mem[k].start) + j
  BY <1>0, <1>2
<1> QED BY <1>6, <1>7, <1>8, <1>9
-----------------------------------------------------------------------------
(* What the machine sees of a state of Execute.                            *)

Mode == IF status \in {"abort", "terminate", "undefined"} THEN "trapped"
        ELSE IF should_stop THEN "exited" ELSE "user"
Frm == (fcsr \div 32) % 8
Flags == {k \in 0 .. 4 : (fcsr \div 2 ^ k) % 2 = 1}
Mem == [y \in Address |-> IF Fits(memory, y, 1) THEN ByteAt(memory, y) ELSE -1]
Region == [y \in Address |-> RegionOf(memory, y)]

LEMMA SameViews ==
  /\ UNCHANGED <<status, should_stop>> => Mode' = Mode
  /\ UNCHANGED fcsr => Frm' = Frm /\ Flags' = Flags
  /\ UNCHANGED memory => Mem' = Mem
BY DEF Mode, Frm, Flags, Mem

LEMMA MachineWords ==
  /\ \A r : Machine!X(r) = GetXReg(r)
  /\ \A r, v : Machine!Write(r, v) = SetXReg(r, v)
  /\ \A z : Machine!Mod(z) = Trunc(z)
  /\ \A i : Machine!EA(i) = EffectiveAddress(i)
  /\ Machine!Mod(ip + 4) = NextIp
BY DEF Machine!X, GetXReg, Machine!Write, SetXReg, Machine!Mod, Trunc,
       Machine!EA, EffectiveAddress, NextIp, StepSize

LEMMA MachineTrap ==
  Machine!Trap <=> Mode' = "trapped" /\ UNCHANGED <<ip, xregs, fregs, Frm, Flags>>
BY DEF Machine!Trap, Mode, Frm, Flags

LEMMA MachineInteger ==
  ASSUME NEW i
  PROVE  Machine!Integer(i) <=>
           /\ i.kind \in {"RRR", "RRI", "LUI", "AUIPC", "JAL", "JALR", "BRANCH", "LOAD",
                          "FENCE", "EBREAK", "FMV_X_W", "FCLASS"}
           /\ i.kind = "LOAD" => Machine!Reaches(Machine!EA(i), Machine!Bytes(i.op))
           /\ \E v \in Machine!Results(i) : xregs' = Machine!Write(i.rd, v)
           /\ ip' = Machine!Targets(i)
           /\ UNCHANGED <<Mode, fregs, Frm, Flags, Mem>>
BY DEF Machine!Integer, Mode, Frm, Flags, Mem

LEMMA MachineStore ==
  ASSUME NEW i
  PROVE  Machine!Store(i) <=>
           /\ i.kind \in {"STORE", "FSW"}
           /\ Machine!Reaches(Machine!EA(i), Machine!Bytes(i.op))
           /\ Mem' = Machine!Put(Machine!EA(i), Machine!Bytes(i.op),
                                 IF i.kind = "FSW" THEN fregs[i.rs2] ELSE Machine!X(i.rs2))
           /\ ip' = Machine!Mod(ip + 4)
           /\ UNCHANGED <<Mode, xregs, fregs, Frm, Flags>>
BY DEF Machine!Store, Mode, Frm, Flags, Mem

LEMMA MachineMove ==
  ASSUME NEW i
  PROVE  Machine!Move(i) <=>
           /\ i.kind \in {"FMV_W_X", "FLW", "FSGN", "FMINMAX"}
           /\ i.kind = "FLW" => Machine!Reaches(Machine!EA(i), 4)
           /\ \E v \in Machine!Moves(i) : fregs' = [fregs EXCEPT ![i.rd] = v]
           /\ ip' = Machine!Mod(ip + 4)
           /\ UNCHANGED <<Mode, xregs, Frm, Flags, Mem>>
BY DEF Machine!Move, Mode, Frm, Flags, Mem

LEMMA MachineMistake ==
  ASSUME NEW i
  PROVE  Machine!Mistake(i) <=>
           \/ i.kind = "INVALID"
           \/ i.kind = "CSR" /\ i.imm \notin {1, 2, 3}
           \/ i.kind \in {"FARITH", "FCVT_TO_X"} /\ i.rm = 7 /\ Frm = 7
           \/ i.kind \in {"LOAD", "STORE", "FLW", "FSW"}
              /\ ~ Machine!Reaches(Machine!EA(i), Machine!Bytes(i.op))
           \/ i.kind = "ECALL" /\ Machine!X(A7) \notin {kRead, kWrite, kExit}
           \/ i.kind = "ECALL" /\ Machine!X(A7) # kExit
              /\ \E k \in 0 .. Machine!X(A2) - 1 : Mem[Machine!At(Machine!X(A1), k)] = -1
BY DEF Machine!Mistake, Frm, Mem

LEMMA MachineCsr ==
  ASSUME NEW i
  PROVE  LET old == Machine!CsrRead(i.imm)
             source == IF i.op \in {"CSRRWI", "CSRRSI", "CSRRCI"} THEN i.rs1
                       ELSE Machine!X(i.rs1)
             new == CASE i.op \in {"CSRRW", "CSRRWI"} -> source
                      [] i.op \in {"CSRRS", "CSRRSI"} -> BitOr(old, source)
                      [] OTHER -> BitAndNot(old, source)
         IN  Machine!Csr(i) <=>
               /\ i.kind = "CSR" /\ i.imm \in {1, 2, 3}
               /\ xregs' = Machine!Write(i.rd, old)
               /\ Flags' = IF i.imm \in {1, 3} THEN Machine!FlagSet(new) ELSE Flags
               /\ Frm' = CASE i.imm = 2 -> new % 8 [] i.imm = 3 -> (new \div 32) % 8
                           [] OTHER -> Frm
               /\ ip' = Machine!Mod(ip + 4)
               /\ UNCHANGED <<Mode, fregs, Mem>>
BY DEF Machine!Csr, Mode, Frm, Flags, Mem

FloatResult(i, r) ==
  CASE i.kind = "FCMP" -> xregs' = Machine!Write(i.rd, Machine!Truth(r)) /\ UNCHANGED fregs
    [] i.kind = "FCVT_TO_X" -> xregs' = Machine!Write(i.rd, r.v) /\ UNCHANGED fregs
    [] i.op = "FNMADD" -> fregs' = [fregs EXCEPT ![i.rd] = Machine!Negated(r.v)] /\ UNCHANGED xregs
    [] OTHER -> fregs' = [fregs EXCEPT ![i.rd] = r.v] /\ UNCHANGED xregs

LEMMA MachineFloat ==
  ASSUME NEW i
  PROVE  Machine!Float(i) <=>
           /\ i.kind \in {"FARITH", "FCMP", "FCVT_TO_X", "FCVT_TO_F"}
           /\ \E rm \in Machine!Rounding(i) :
                \E r \in SoftFloat(Machine!Operation(i), Machine!Operands(i), rm) :
                  /\ FloatResult(i, r)
                  /\ Flags' = Flags \cup Machine!FlagSet(r.flags)
           /\ ip' = Machine!Mod(ip + 4)
           /\ UNCHANGED <<Mode, Frm, Mem>>
BY DEF Machine!Float, FloatResult, Mode, Frm, Flags, Mem

LEMMA MachineCall ==
  ASSUME NEW i
  PROVE  Machine!Call(i) <=>
           /\ i.kind = "ECALL"
           /\ ip' = Machine!Mod(ip + 4)
           /\ \/ Machine!X(A7) = kExit /\ Mode' = "exited" /\ UNCHANGED <<xregs, Mem>>
              \/ /\ Machine!X(A7) \in {kRead, kWrite}
                 /\ xregs' = [xregs EXCEPT ![A0] = xregs'[A0]]
                 /\ Machine!X(A7) = kWrite => UNCHANGED Mem
                 /\ \A y \in Address : Mem'[y] # Mem[y] =>
                      Machine!Mod(y - Machine!X(A1)) < Machine!X(A2) /\ Mem[y] # -1
                 /\ UNCHANGED Mode
           /\ UNCHANGED <<fregs, Frm, Flags>>
BY DEF Machine!Call, Mode, Frm, Flags, Mem, Machine!Address, Address

Instruction(i) ==
  \/ Machine!Integer(i) \/ Machine!Store(i) \/ Machine!Csr(i)
  \/ Machine!Float(i) \/ Machine!Move(i) \/ Machine!Call(i)
  \/ Machine!Mistake(i) /\ Machine!Trap

LEMMA MachineNext ==
  Machine!Next <=>
    /\ Mode = "user"
    /\ UNCHANGED Region
    /\ \/ ~ Machine!Reaches(ip, 4) /\ Machine!Trap
       \/ /\ Machine!Reaches(ip, 4)
          /\ \E i \in {Decode(Machine!MemValue(ip, 4))} : Instruction(i)
BY DEF Machine!Next, Mode, Region, Instruction
-----------------------------------------------------------------------------
(* Accesses of the machine, by those of the code.                          *)

LEMMA MachineReaches ==
  ASSUME IInv, Unbroken(memory), NEW a \in Address, NEW n \in {1, 2, 4}
  PROVE  Machine!Reaches(a, n) <=> Fits(memory, a, n)
<1>1. memory \in Seq(Segment)
  BY DEF IInv, TypeOK
<1>2. \A k \in 0 .. n - 1 :
        LET x == (a + k) % AddrMod
        IN  /\ x \in Address
            /\ Mem[x] # -1 <=> Fits(memory, x, 1)
            /\ Region[x] = RegionOf(memory, x) /\ Region[a] = RegionOf(memory, a)
  <2> SUFFICES ASSUME NEW k \in 0 .. n - 1
               PROVE  LET x == (a + k) % AddrMod
                      IN  /\ x \in Address
                          /\ Mem[x] # -1 <=> Fits(memory, x, 1)
                          /\ Region[x] = RegionOf(memory, x) /\ Region[a] = RegionOf(memory, a)
    OBVIOUS
  <2> DEFINE x == (a + k) % AddrMod
  <2>1. x \in Address
    <3>1. a + k \in Int
      BY DEF Address
    <3> QED BY <3>1, TruncIsRegister DEF Trunc, Register
  <2> HIDE DEF x
  <2>2. Fits(memory, x, 1) => ByteAt(memory, x) # -1
    <3>1. -1 \notin Byte
      BY Sizes
    <3> QED BY <1>1, <2>1, <3>1, ByteAtIsByte
  <2>3. Mem[x] # -1 <=> Fits(memory, x, 1)
    BY <2>1, <2>2 DEF Mem
  <2> QED BY <2>1, <2>3 DEF Region, x
<1>3. Machine!Reaches(a, n) <=>
        \A k \in 0 .. n - 1 : Mem[(a + k) % AddrMod] # -1 /\ Region[(a + k) % AddrMod] = Region[a]
  BY DEF Machine!Reaches, Machine!At, Machine!Mod, Mem, Region
<1>4. Machine!Reaches(a, n) <=> AllServed(memory, a, n)
  <2> DEFINE x(k) == (a + k) % AddrMod
  <2>1. \A k \in 0 .. n - 1 :
          /\ Mem[x(k)] # -1 <=> Fits(memory, x(k), 1)
          /\ Region[x(k)] = Region[a] <=> RegionOf(memory, x(k)) = RegionOf(memory, a)
    BY <1>2
  <2>2. Machine!Reaches(a, n) <=> \A k \in 0 .. n - 1 : Mem[x(k)] # -1 /\ Region[x(k)] = Region[a]
    BY <1>3
  <2>3. AllServed(memory, a, n) <=>
          \A k \in 0 .. n - 1 : /\ Fits(memory, x(k), 1)
                               /\ RegionOf(memory, x(k)) = RegionOf(memory, a)
    BY DEF AllServed
  <2> HIDE DEF x
  <2> QED BY <2>1, <2>2, <2>3
<1> QED BY <1>1, <1>4, FitsIsAllServed

(* A byte that is there, in an access that fits.                           *)
LEMMA ServedByte ==
  ASSUME IInv, Unbroken(memory), NEW a \in Address, NEW n \in {1, 2, 4},
         Fits(memory, a, n), NEW j \in 0 .. n - 1
  PROVE  /\ (a + j) % AddrMod \in Address
         /\ Fits(memory, (a + j) % AddrMod, 1)
         /\ Mem[(a + j) % AddrMod] = ByteAt(memory, (a + j) % AddrMod)
<1> DEFINE x == (a + j) % AddrMod
<1>1. x \in Address
  <2>1. a + j \in Int
    BY DEF Address
  <2> QED BY <2>1, TruncIsRegister DEF Trunc, Register
<1>2. Fits(memory, x, 1)
  BY FitsIsAllServed DEF AllServed, IInv, TypeOK
<1> HIDE DEF x
<1>3. Mem[x] = ByteAt(memory, x)
  BY <1>1, <1>2 DEF Mem
<1> QED BY <1>1, <1>2, <1>3 DEF x

LEMMA MachineMemValue ==
  ASSUME IInv, Unbroken(memory), NEW a \in Address, NEW n \in {1, 2, 4},
         Fits(memory, a, n), NEW b \in LoadReplies(memory, a, n)
  PROVE  Machine!MemValue(a, n) = Value(b, n)
<1> DEFINE c(k) == IF k < n THEN Mem[(a + k) % AddrMod] ELSE 0
<1>1. Machine!MemValue(a, n) = c(0) + ByteMod * (c(1) + ByteMod * (c(2) + ByteMod * c(3)))
  BY DEF Machine!MemValue, Machine!At, Machine!Mod, Mem
<1>2. ASSUME NEW k \in 0 .. n - 1 PROVE c(k) = b[k]
  <2>1. Mem[(a + k) % AddrMod] = ByteAt(memory, (a + k) % AddrMod)
    BY ServedByte
  <2>2. memory \in Seq(Segment)
    BY DEF IInv, TypeOK
  <2>3. b[k] = ByteAt(memory, (a + k) % AddrMod)
    BY <2>2, LoadedBytes
  <2>4. k < n
    OBVIOUS
  <2> QED BY <2>1, <2>3, <2>4
<1>3. b \in Bytes(n)
  BY LoadRepliesAreBytes DEF IInv, TypeOK
<1>4. \A k \in 0 .. n - 1 : b[k] \in Int
  BY <1>3 DEF Bytes
<1>5. \A k \in 0 .. 3 : k >= n => c(k) = 0
  OBVIOUS
<1> HIDE DEF c
<1>6. CASE n = 1
  <2>1. c(0) = b[0] /\ c(1) = 0 /\ c(2) = 0 /\ c(3) = 0 /\ b[0] \in Int
    BY <1>2, <1>4, <1>5, <1>6
  <2> QED BY <1>1, <1>6, <2>1, Sizes DEF Value
<1>7. CASE n = 2
  <2>1. c(0) = b[0] /\ c(1) = b[1] /\ c(2) = 0 /\ c(3) = 0 /\ b[0] \in Int /\ b[1] \in Int
    BY <1>2, <1>4, <1>5, <1>7
  <2> QED BY <1>1, <1>7, <2>1, Sizes DEF Value
<1>8. CASE n = 4
  <2>1. c(0) = b[0] /\ c(1) = b[1] /\ c(2) = b[2] /\ c(3) = b[3]
    BY <1>2, <1>8
  <2> QED BY <1>1, <1>8, <2>1 DEF Value
<1> QED BY <1>6, <1>7, <1>8

(* Below zero, by no more than the modulus.                                *)
LEMMA NegativeMod ==
  ASSUME NEW M \in Nat, M > 0, NEW z \in Int, z < 0, z + M >= 0
  PROVE  z % M = z + M
<1> DEFINE q == z \div M
           r == z % M
<1>1. q \in Int /\ r \in 0 .. M - 1 /\ z = (M * q) + r
  OBVIOUS
<1> HIDE DEF q, r
<1>2. CASE q >= 0
  <2>1. M * q >= 0
    BY <1>1, <1>2
  <2> QED BY <1>1, <2>1
<1>3. CASE q = -1
  BY <1>1, <1>3 DEF r
<1>4. CASE q < -1
  <2>1. M * ((-2) - q) >= 0
    BY <1>1, <1>4
  <2>2. M * ((-2) - q) = -(2 * M) - (M * q)
    BY <1>1
  <2>3. M * q \in Int /\ M * q <= -(2 * M)
    BY <1>1, <2>1, <2>2
  <2> QED BY <1>1, <2>3
<1> QED BY <1>1, <1>2, <1>3, <1>4

LEMMA MachineBytes == \A op : Machine!Bytes(op) = Width(op)
BY DEF Machine!Bytes, Width

LEMMA MachineExtended ==
  ASSUME NEW op \in LoadNames, NEW b \in Bytes(Width(op))
  PROVE  Machine!Extended(op, Value(b, Width(op))) = Loaded(op, b)
<1> DEFINE n == Width(op)
           v == Value(b, n)
           range == IF n = 1 THEN ByteMod ELSE ByteMod * ByteMod
<1>1. n \in {1, 2, 4} /\ (op = "LB" => n = 1) /\ (op = "LH" => n = 2)
  BY DEF Width
<1>2. Machine!Bytes(op) = n
  BY MachineBytes
<1>3. CASE op \notin {"LB", "LH"}
  BY <1>3 DEF Machine!Extended, Loaded
<1>4. CASE op \in {"LB", "LH"}
  <2>1. Machine!Place(n) = range
    BY <1>1, <1>4 DEF Machine!Place
  <2>2. Machine!Extended(op, v) =
          IF v >= range \div 2 THEN (v - range) % AddrMod ELSE v
    BY <1>2, <1>4, <2>1 DEF Machine!Extended, Machine!Mod
  <2>3. Loaded(op, b) = IF v < range \div 2 THEN v ELSE v + (AddrMod - range)
    BY <1>4 DEF Loaded, SignExtended
  <2>4. v \in 0 .. range - 1 /\ range \in Nat /\ range <= AddrMod /\ AddrMod \in Nat /\ AddrMod > 0
    BY <1>1, <1>4, ValueInRange, Sizes
  <2> HIDE DEF v, range, n
  <2>5. (v - range) % AddrMod = (v - range) + AddrMod
    BY <2>4, NegativeMod
  <2>6. range \div 2 \in Int
    BY <2>4
  <2> QED BY <2>2, <2>3, <2>4, <2>5, <2>6 DEF v, n
<1> QED BY <1>3, <1>4
-----------------------------------------------------------------------------
(* Stores of the machine, by those of the code.                            *)

LEMMA LargeMod ==
  ASSUME NEW M \in Nat, M > 0, NEW z \in Int, z >= M, z < 2 * M
  PROVE  z % M = z - M
<1> DEFINE q == z \div M
           r == z % M
<1>1. q \in Int /\ r \in 0 .. M - 1 /\ z = (M * q) + r
  OBVIOUS
<1> HIDE DEF q, r
<1>2. CASE q <= 0
  <2>1. M * (0 - q) >= 0
    BY <1>1, <1>2
  <2>2. M * (0 - q) = 0 - (M * q) /\ M * q \in Int
    BY <1>1
  <2> QED BY <1>1, <2>1, <2>2
<1>3. CASE q = 1
  BY <1>1, <1>3 DEF r
<1>4. CASE q > 1
  <2>1. M * (q - 2) >= 0
    BY <1>1, <1>4
  <2>2. M * (q - 2) = (M * q) - (2 * M) /\ M * q \in Int
    BY <1>1
  <2> QED BY <1>1, <2>1, <2>2
<1> QED BY <1>1, <1>2, <1>3, <1>4

LEMMA ModIsWrap ==
  ASSUME NEW x \in Address, NEW y \in Address
  PROVE  (x + y) % AddrMod = Wrap(x + y) /\ (x - y) % AddrMod = Wrap(x - y)
<1>1. /\ x \in Nat /\ y \in Nat /\ x < AddrMod /\ y < AddrMod
      /\ AddrMod \in Nat /\ AddrMod > 0
  BY Sizes DEF Address
<1>2. (x + y) % AddrMod = Wrap(x + y)
  <2>1. CASE x + y < AddrMod
    <3>1. x + y \in Address
      BY <1>1, <2>1 DEF Address
    <3> QED BY <1>1, <2>1, <3>1, AddressIsItself DEF Wrap
  <2>2. CASE x + y >= AddrMod
    <3>1. x + y \in Int /\ x + y < 2 * AddrMod
      BY <1>1
    <3> QED BY <1>1, <2>2, <3>1, LargeMod DEF Wrap
  <2> QED BY <1>1, <2>1, <2>2
<1>3. (x - y) % AddrMod = Wrap(x - y)
  <2>1. CASE x - y >= 0
    <3>1. x - y \in Address
      BY <1>1, <2>1 DEF Address
    <3> QED BY <1>1, <2>1, <3>1, AddressIsItself DEF Wrap
  <2>2. CASE x - y < 0
    <3>1. x - y \in Int /\ (x - y) + AddrMod >= 0
      BY <1>1
    <3> QED BY <1>1, <2>2, <3>1, NegativeMod DEF Wrap
  <2> QED BY <1>1, <2>1, <2>2
<1> QED BY <1>2, <1>3

LEMMA MachinePut ==
  ASSUME IInv, Unbroken(memory), NEW a \in Address, NEW n \in {1, 2, 4}, NEW v \in Register,
         Fits(memory, a, n), memory' = WriteBytes(memory, a, n, LowBytes(v, n))
  PROVE  Mem' = Machine!Put(a, n, v)
<1> DEFINE b == LowBytes(v, n)
           d(y) == (y - a) % AddrMod
<1>0. memory \in Seq(Segment) /\ b \in Bytes(n) /\ n \in Nat /\ a \in Nat /\ AddrMod \in Nat
  BY LowBytesAreBytes, Sizes DEF IInv, TypeOK, Address
<1>1. PICK k \in DOMAIN memory : Hits(memory, k, a) /\ a - memory[k].start + n <= Size(memory[k])
  BY DEF Fits, FitsIn
<1>2. SameLayout(memory, memory')
  BY <1>0, <1>1, HitIsUnique, WriteKeepsLayout
<1>3. Machine!Put(a, n, v) =
        [y \in Address |-> IF d(y) < n THEN (v \div Machine!Place(d(y))) % ByteMod ELSE Mem[y]]
  BY DEF Machine!Put, Machine!Mod, Machine!Address, Address, Mem
<1>4. ASSUME NEW y \in Address
      PROVE  /\ d(y) \in Nat /\ (a + d(y)) % AddrMod = y
             /\ \A j \in 0 .. n - 1 : y - a = j => d(y) = j
  <2>1. d(y) = Wrap(y - a) /\ d(y) \in Address
    BY ModIsWrap, WrapBack
  <2>2. (a + d(y)) % AddrMod = Wrap(a + d(y))
    BY <2>1, ModIsWrap
  <2>3. Wrap(a + Wrap(y - a)) = y
    BY WrapBack
  <2>4. ASSUME NEW j \in 0 .. n - 1, y - a = j PROVE d(y) = j
    <3>1. y - a \in Address
      BY <1>0, <2>4 DEF Address
    <3> QED BY <2>4, <3>1, AddressIsItself
  <2> HIDE DEF d
  <2>5. d(y) \in Nat
    BY <2>1 DEF Address
  <2> QED BY <2>1, <2>2, <2>3, <2>4, <2>5
<1> HIDE DEF d
<1>5. ASSUME NEW y \in Address, d(y) < n
      PROVE  /\ d(y) \in 0 .. n - 1
             /\ y = a + d(y) /\ Hits(memory, k, y) /\ Fits(memory, y, 1)
  <2>1. d(y) \in 0 .. n - 1
    BY <1>0, <1>4, <1>5
  <2>2. memory[k].start \in Nat /\ Size(memory[k]) \in Nat
    BY <1>0, ListOfSegments, SegmentFields DEF Address
  <2>3. a + d(y) \in Int /\ a <= a + d(y) /\ a + d(y) < memory[k].start + Size(memory[k])
    <3> DEFINE e == d(y)  base == memory[k].start  room == Size(memory[k])
    <3>1. /\ e \in 0 .. n - 1 /\ n \in Nat /\ a \in Nat
          /\ base \in Nat /\ room \in Nat /\ a - base + n <= room
      BY <1>0, <1>1, <2>1, <2>2
    <3> HIDE DEF e, base, room
    <3>2. a + e \in Int /\ a <= a + e /\ a + e < base + room
      BY ONLY <3>1
    <3> QED BY <3>2 DEF e, base, room
  <2>4. a + d(y) \in Address /\ Hits(memory, k, a + d(y))
    BY <1>0, <1>1, <2>3, UnbrokenHits
  <2>5. a + d(y) = y
    BY <1>4, <2>4, AddressIsItself
  <2>6. Fits(memory, (a + d(y)) % AddrMod, 1)
    BY <2>1, ServedByte
  <2> QED BY <1>4, <2>1, <2>4, <2>5, <2>6
<1>6. \A j \in 0 .. n - 1 : b[j] = (v \div Machine!Place(j)) % ByteMod
  BY DEF LowBytes, Machine!Place
<1> HIDE DEF b
<1>7. ASSUME NEW y \in Address, Fits(memory, y, 1)
      PROVE  ByteAt(memory', y) = IF d(y) < n THEN (v \div Machine!Place(d(y))) % ByteMod
                                  ELSE ByteAt(memory, y)
  <2>1. PICK l \in DOMAIN memory :
          /\ Hits(memory, l, y) /\ SegmentOf(memory, y) = l
          /\ y - memory[l].start \in 0 .. Size(memory[l]) - 1
          /\ ByteAt(memory, y) = ByteOf(memory[l], y - memory[l].start)
    BY <1>0, <1>7, MappedByte
  <2> DEFINE o == y - memory[l].start
             i == o - (a - memory[k].start)
  <2>2. ByteAt(memory', y) = ByteOf(memory'[l], o)
    <3>1. SegmentOf(memory', y) = l /\ memory'[l].start = memory[l].start
      BY <1>0, <1>2, <2>1, LayoutDecides DEF SameLayout
    <3> QED BY <3>1 DEF ByteAt
  <2>3. ByteOf(memory'[l], o) = IF l = k /\ i \in 0 .. n - 1 THEN b[i] ELSE ByteOf(memory[l], o)
    BY <1>0, <1>1, <2>1, WriteEffect DEF b
  <2>4. memory[k].start \in Nat /\ y \in Nat
    BY <1>0, ListOfSegments, SegmentFields DEF Address
  <2>5. l = k => i = y - a
    BY <1>0, <2>4
  <2>6. CASE d(y) < n
    <3>1. l = k /\ i = d(y) /\ d(y) \in 0 .. n - 1
      <4>1. y = a + d(y) /\ Hits(memory, k, y) /\ d(y) \in 0 .. n - 1
        BY <1>5, <2>6
      <4>2. l = k
        BY <1>0, <2>1, <4>1, HitIsUnique
      <4>3. y - a = d(y)
        BY <1>0, <1>4, <4>1
      <4> QED BY <2>5, <4>1, <4>2, <4>3
    <3> HIDE DEF i, o
    <3> QED BY <1>6, <2>2, <2>3, <2>6, <3>1
  <2>7. CASE ~ (d(y) < n)
    <3>1. ~ (l = k /\ i \in 0 .. n - 1)
      <4> SUFFICES ASSUME l = k, i \in 0 .. n - 1 PROVE FALSE
        OBVIOUS
      <4>1. d(y) = y - a /\ y - a \in 0 .. n - 1
        BY <1>4, <2>5
      <4> QED BY <1>0, <2>7, <4>1
    <3> HIDE DEF i
    <3> QED BY <2>1, <2>2, <2>3, <2>7, <3>1
  <2> QED BY <2>6, <2>7
<1>8. ASSUME NEW y \in Address
      PROVE  (IF Fits(memory', y, 1) THEN ByteAt(memory', y) ELSE -1) =
             IF d(y) < n THEN (v \div Machine!Place(d(y))) % ByteMod ELSE Mem[y]
  <2>1. Fits(memory', y, 1) <=> Fits(memory, y, 1)
    BY <1>0, <1>2, LayoutDecides
  <2>2. Mem[y] = IF Fits(memory, y, 1) THEN ByteAt(memory, y) ELSE -1
    BY DEF Mem
  <2>3. CASE Fits(memory, y, 1)
    BY <1>7, <2>1, <2>2, <2>3
  <2>4. CASE ~ Fits(memory, y, 1)
    BY <1>5, <2>1, <2>2, <2>4
  <2> QED BY <2>3, <2>4
<1>9. Mem' = [y \in Address |-> IF Fits(memory', y, 1) THEN ByteAt(memory', y) ELSE -1]
  BY DEF Mem
<1> QED BY <1>3, <1>8, <1>9
-----------------------------------------------------------------------------
(* Each callback is an instruction of the machine, or a trap after a       *)
(* mistake.                                                                *)

Ready == IInv /\ Unbroken(memory) /\ status = "running" /\ ~ should_stop

(* No assert is missed: the build has them, or i needs none.               *)
Allowed(i) == NDEBUG => ~ Machine!Mistake(i)

LEMMA FaultsAreMistakes ==
  ASSUME Ready, NEW a \in Address, NEW n \in {1, 2, 4}
  PROVE  /\ Fits(memory, a, n) <=> Machine!Reaches(a, n)
         /\ Faults(a, n) <=> ~ NDEBUG /\ ~ Machine!Reaches(a, n)
BY MachineReaches DEF Ready, Faults

LEMMA AllowedReaches ==
  ASSUME Ready, NEW i \in Insn, Allowed(i), i.kind \in {"LOAD", "STORE", "FLW", "FSW"},
         NEW a \in Address, NEW n \in {1, 2, 4},
         Machine!EA(i) = a, Machine!Bytes(i.op) = n, ~ Faults(a, n)
  PROVE  Machine!Reaches(a, n) /\ Fits(memory, a, n)
BY FaultsAreMistakes, MachineMistake DEF Allowed

LEMMA AbortIsTrap ==
  ASSUME Abort
  PROVE  Machine!Trap
BY SameViews, MachineTrap DEF Abort, Mode

LEMMA Retired ==
  ASSUME NEW r, NEW v, NEW next, Retire(r, v, next)
  PROVE  /\ xregs' = Machine!Write(r, v) /\ ip' = next
         /\ UNCHANGED <<Mode, fregs, Frm, Flags, Mem>>
BY SameViews, MachineWords DEF Retire

LEMMA RegisterMachine ==
  ASSUME Ready, NEW i \in Insn, Compute(i) \/ LUI(i) \/ AUIPC(i) \/ JAL(i) \/ FMoveToX(i) \/ FClass(i)
  PROVE  Machine!Integer(i)
<1>1. ASSUME i.kind \in {"RRR", "RRI", "LUI", "AUIPC", "JAL", "FMV_X_W", "FCLASS"},
             NEW v \in Machine!Results(i), Retire(i.rd, v, Machine!Targets(i))
      PROVE  Machine!Integer(i)
  BY <1>1, Retired, MachineInteger
<1>2. CASE Compute(i)
  <2>1. PICK v \in BinOpFunc(i.op, GetXReg(i.rs1), IF i.kind = "RRR" THEN GetXReg(i.rs2) ELSE i.imm) :
          Retire(i.rd, v, NextIp)
    BY <1>2 DEF Compute
  <2>2. i.kind \in {"RRR", "RRI"}
    BY <1>2 DEF Compute
  <2>3. v \in Machine!Results(i)
    BY <2>1, <2>2, MachineWords DEF Machine!Results
  <2>4. Machine!Targets(i) = NextIp
    BY <2>2, MachineWords DEF Machine!Targets
  <2> QED BY <1>1, <2>1, <2>2, <2>3, <2>4
<1>3. CASE LUI(i)
  <2>1. Machine!Targets(i) = NextIp /\ i.imm \in Machine!Results(i) /\ i.kind = "LUI"
    BY <1>3, MachineWords DEF LUI, Machine!Targets, Machine!Results
  <2> QED BY <1>1, <1>3, <2>1 DEF LUI
<1>4. CASE AUIPC(i)
  <2>1. /\ Machine!Targets(i) = NextIp /\ Trunc(ip + i.imm) \in Machine!Results(i)
        /\ i.kind = "AUIPC"
    BY <1>4, MachineWords DEF AUIPC, Machine!Targets, Machine!Results
  <2> QED BY <1>1, <1>4, <2>1 DEF AUIPC
<1>5. CASE JAL(i)
  <2>1. /\ Machine!Targets(i) = Trunc(ip + i.imm) /\ NextIp \in Machine!Results(i)
        /\ i.kind = "JAL"
    BY <1>5, MachineWords DEF JAL, Machine!Targets, Machine!Results
  <2> QED BY <1>1, <1>5, <2>1 DEF JAL
<1>6. CASE FMoveToX(i)
  <2>1. /\ Machine!Targets(i) = NextIp /\ fregs[i.rs1] \in Machine!Results(i)
        /\ i.kind = "FMV_X_W"
    BY <1>6, MachineWords DEF FMoveToX, Machine!Targets, Machine!Results
  <2> QED BY <1>1, <1>6, <2>1 DEF FMoveToX
<1>7. CASE FClass(i)
  <2>1. /\ Machine!Targets(i) = NextIp
        /\ Trunc(2 ^ ClassShift(fregs[i.rs1])) \in Machine!Results(i)
        /\ i.kind = "FCLASS"
    BY <1>7, MachineWords DEF FClass, Machine!Targets, Machine!Results
  <2> QED BY <1>1, <1>7, <2>1 DEF FClass
<1> QED BY <1>2, <1>3, <1>4, <1>5, <1>6, <1>7

LEMMA JumpMachine ==
  ASSUME Ready, NEW i \in Insn, JALR(i) \/ Branch(i) \/ NoOperation(i)
  PROVE  Machine!Integer(i)
<1>1. CASE JALR(i)
  <2> DEFINE target == EffectiveAddress(i)
  <2>1. target - (target % 2) = 2 * (target \div 2)
    <3>1. target \in Int
      BY EffectiveAddressIsAddress DEF Ready, Address
    <3> HIDE DEF target
    <3> QED BY <3>1
  <2>2. Retire(i.rd, NextIp, 2 * (target \div 2)) /\ i.kind = "JALR"
    BY <1>1, <2>1 DEF JALR
  <2>3. NextIp \in Machine!Results(i) /\ Machine!Targets(i) = 2 * (target \div 2)
    BY <2>2, MachineWords DEF Machine!Results, Machine!Targets
  <2> QED BY <2>2, <2>3, Retired, MachineInteger
<1>2. ASSUME i.kind \in {"BRANCH", "FENCE", "EBREAK"}, ip' = Machine!Targets(i),
             UNCHANGED <<memory, xregs, floats, should_stop, status, host>>
      PROVE  Machine!Integer(i)
  <2>1. Machine!X(i.rd) \in Machine!Results(i)
    BY <1>2 DEF Machine!Results
  <2>2. xregs = Machine!Write(i.rd, Machine!X(i.rd))
    BY InsnFields DEF Machine!Write, Machine!X, Ready, IInv, TypeOK
  <2>3. UNCHANGED <<Mode, fregs, Frm, Flags, Mem>> /\ xregs' = xregs
    BY <1>2, SameViews
  <2> QED BY <1>2, <2>1, <2>2, <2>3, MachineInteger
<1>3. CASE Branch(i)
  <2>1. ip' = Machine!Targets(i) /\ i.kind = "BRANCH"
    BY <1>3, MachineWords DEF Branch, Machine!Targets
  <2> QED BY <1>2, <1>3, <2>1 DEF Branch
<1>4. CASE NoOperation(i)
  <2>1. ip' = Machine!Targets(i) /\ i.kind \in {"FENCE", "EBREAK"}
    BY <1>4, MachineWords DEF NoOperation, Machine!Targets
  <2> QED BY <1>2, <1>4, <2>1 DEF NoOperation
<1> QED BY <1>1, <1>3, <1>4

LEMMA LoadMachine ==
  ASSUME Ready, NEW i \in Insn, Allowed(i), Load(i)
  PROVE  Instruction(i)
<1> DEFINE a == EffectiveAddress(i)
           n == Width(i.op)
<1>1. /\ a \in Address /\ n \in {1, 2, 4} /\ i.kind = "LOAD" /\ i.op \in LoadNames
      /\ Machine!EA(i) = a /\ Machine!Bytes(i.op) = n /\ IInv /\ Unbroken(memory)
  BY EffectiveAddressIsAddress, WidthIsNat, InsnFields, MachineWords, MachineBytes
     DEF Load, OpsOf, Ready
<1> HIDE DEF a
<1>2. CASE Faults(a, n) /\ Abort
  <2>1. Machine!Mistake(i)
    BY <1>1, <1>2, FaultsAreMistakes, MachineMistake
  <2> QED BY <1>2, <2>1, AbortIsTrap DEF Instruction
<1>3. CASE ~ Faults(a, n) /\ \E b \in LoadReplies(memory, a, n) : Retire(i.rd, Loaded(i.op, b), NextIp)
  <2>1. PICK b \in LoadReplies(memory, a, n) : Retire(i.rd, Loaded(i.op, b), NextIp)
    BY <1>3
  <2>2. Machine!Reaches(a, n) /\ Fits(memory, a, n)
    BY <1>1, <1>3, AllowedReaches
  <2>3. Machine!MemValue(a, n) = Value(b, n)
    BY <1>1, <2>2, MachineMemValue
  <2>4. b \in Bytes(n)
    BY <1>1, LoadRepliesAreBytes DEF IInv, TypeOK
  <2>5. Machine!Extended(i.op, Value(b, n)) = Loaded(i.op, b)
    BY <1>1, <2>4, MachineExtended
  <2>6. Loaded(i.op, b) \in Machine!Results(i)
    BY <1>1, <2>3, <2>5 DEF Machine!Results
  <2>7. Machine!Targets(i) = NextIp
    BY <1>1, MachineWords DEF Machine!Targets
  <2>8. Machine!Integer(i)
    BY <1>1, <2>1, <2>2, <2>6, <2>7, Retired, MachineInteger
  <2> QED BY <2>8 DEF Instruction
<1> QED BY <1>2, <1>3 DEF Load, a

LEMMA StoreMachine ==
  ASSUME Ready, NEW i \in Insn, Allowed(i), Store(i) \/ FStore(i)
  PROVE  Instruction(i)
<1> DEFINE a == EffectiveAddress(i)
           n == Width(i.op)
           v == IF i.kind = "FSW" THEN fregs[i.rs2] ELSE Machine!X(i.rs2)
<1>1. /\ a \in Address /\ n \in {1, 2, 4} /\ i.kind \in {"STORE", "FSW"}
      /\ i.kind = "FSW" => n = 4
      /\ Machine!EA(i) = a /\ Machine!Bytes(i.op) = n /\ IInv /\ Unbroken(memory)
  <2>1. a \in Address /\ n \in {1, 2, 4} /\ Machine!EA(i) = a /\ Machine!Bytes(i.op) = n
    BY EffectiveAddressIsAddress, WidthIsNat, MachineWords, MachineBytes DEF Ready
  <2>2. i.kind \in {"STORE", "FSW"}
    BY DEF Store, FStore
  <2>3. i.kind = "FSW" => i.op = "none"
    BY InsnFields DEF OpsOf
  <2> QED BY <2>1, <2>2, <2>3 DEF Ready, Width
<1>2. v \in Register
  BY InsnFields, RegisterAccess, MachineWords DEF Ready, IInv, TypeOK, FReg
<1>3. \/ Faults(a, n) /\ Abort
      \/ /\ ~ Faults(a, n)
         /\ StoreBytes(n, a, LowBytes(v, n))
         /\ ip' = NextIp
         /\ UNCHANGED <<xregs, floats, should_stop, host>>
  <2>1. CASE Store(i)
    BY <2>1, MachineWords DEF Store
  <2>2. CASE FStore(i)
    <3>1. i.kind = "FSW" /\ n = 4 /\ v = fregs[i.rs2]
      BY <1>1, <2>2 DEF FStore
    <3> HIDE DEF n, v
    <3> QED BY <2>2, <3>1 DEF FStore
  <2> QED BY <2>1, <2>2
<1> HIDE DEF a, n
<1>4. CASE Faults(a, n) /\ Abort
  <2>1. Machine!Mistake(i)
    BY <1>1, <1>4, FaultsAreMistakes, MachineMistake
  <2> QED BY <1>4, <2>1, AbortIsTrap DEF Instruction
<1>5. CASE ~ (Faults(a, n) /\ Abort)
  <2>1. Machine!Reaches(a, n) /\ Fits(memory, a, n)
    BY <1>1, <1>3, <1>5, AllowedReaches
  <2>2. ~ Unmatched(memory, a)
    BY <2>1 DEF Fits, FitsIn, Unmatched
  <2>3. memory' = WriteBytes(memory, a, n, LowBytes(v, n)) /\ UNCHANGED status
    BY <1>3, <1>5, <2>1, <2>2 DEF StoreBytes
  <2>4. Mem' = Machine!Put(a, n, v)
    BY <1>1, <1>2, <2>1, <2>3, MachinePut
  <2>5. /\ ip' = Machine!Mod(ip + 4) /\ xregs' = xregs /\ fregs' = fregs
        /\ Mode' = Mode /\ Frm' = Frm /\ Flags' = Flags
    BY <1>3, <1>5, <2>3, SameViews, MachineWords
  <2>6. Machine!Store(i)
    BY <1>1, <2>1, <2>4, <2>5, MachineStore
  <2> QED BY <2>6 DEF Instruction
<1> QED BY <1>4, <1>5

LEMMA TerminateMachine ==
  ASSUME Ready, NEW i \in Insn, Terminate(i)
  PROVE  Instruction(i)
<1>1. i.kind = "INVALID" /\ status' = "terminate" /\ UNCHANGED <<ip, xregs, floats>>
  BY DEF Terminate
<1>2. Machine!Trap
  BY <1>1, SameViews, MachineTrap DEF Mode
<1> QED BY <1>1, <1>2, MachineMistake DEF Instruction
-----------------------------------------------------------------------------
(* Floats: their signs, and the instructions that move them.               *)

LEMMA HalfIsHalf ==
  /\ Half \in Nat /\ Half > 0 /\ AddrMod = 2 * Half /\ Machine!Half = Half
<1>1. PICK m \in Nat : AddrMod = 2 * m
  BY AddrModIsEven
<1>2. Half = m /\ m > 0
  BY <1>1, Sizes DEF Half
<1> QED BY <1>1, <1>2 DEF Half, Machine!Half

LEMMA SignByOrder ==
  ASSUME NEW v \in Register
  PROVE  /\ Sign(v) = IF v >= Half THEN 1 ELSE 0
         /\ v % Half = IF v >= Half THEN v - Half ELSE v
         /\ WithSign(0, v) = v % Half
         /\ WithSign(1, v) = (v % Half) + Half
         /\ f32_neg(v) = Machine!Negated(v)
<1> DEFINE q == v \div Half
           r == v % Half
<1>0. /\ Half \in Nat /\ Half > 0 /\ v \in Nat /\ v < 2 * Half
  BY HalfIsHalf DEF Register, Address
<1>1. v = (Half * q) + r /\ r \in 0 .. Half - 1
  BY <1>0
<1>2. q \in {0, 1} /\ q = Sign(v)
  BY SignedWords DEF Sign
<1>3. WithSign(0, v) = r /\ WithSign(1, v) = r + Half
  BY <1>0, <1>1 DEF WithSign
<1>4. f32_neg(v) = WithSign(1 - q, v)
  BY <1>2 DEF f32_neg
<1>5. Machine!Negated(v) = (v + Half) % AddrMod
  BY HalfIsHalf DEF Machine!Negated, Machine!Mod
<1> HIDE DEF q, r
<1>6. CASE q = 0
  <2>1. v = r /\ v < Half
    BY <1>0, <1>1, <1>6
  <2>2. v + Half \in Address
    BY <1>0, <2>1, HalfIsHalf DEF Address
  <2>3. (v + Half) % AddrMod = v + Half
    BY <2>2, AddressIsItself
  <2> QED BY <1>0, <1>2, <1>3, <1>4, <1>5, <1>6, <2>1, <2>3 DEF r
<1>7. CASE q = 1
  <2>1. v = Half + r /\ v >= Half /\ r = v - Half
    BY <1>0, <1>1, <1>7
  <2>2. v + Half \in Int /\ v + Half >= AddrMod /\ v + Half < 2 * AddrMod /\ AddrMod \in Nat
        /\ AddrMod > 0
    BY <1>0, <2>1, HalfIsHalf
  <2>3. (v + Half) % AddrMod = (v + Half) - AddrMod
    BY <2>2, LargeMod
  <2>4. (v + Half) - AddrMod = r
    <3>1. v \in Int /\ Half \in Int /\ AddrMod \in Int /\ AddrMod = 2 * Half
      BY <1>0, HalfIsHalf
    <3> QED BY ONLY <2>1, <3>1
  <2> QED BY <1>0, <1>2, <1>3, <1>4, <1>5, <1>7, <2>1, <2>3, <2>4 DEF r
<1> QED BY <1>2, <1>6, <1>7

LEMMA FMoved ==
  ASSUME NEW r, NEW v, FMove(r, v)
  PROVE  /\ fregs' = [fregs EXCEPT ![r] = v] /\ ip' = Machine!Mod(ip + 4)
         /\ UNCHANGED <<Mode, xregs, Frm, Flags, Mem>>
BY SameViews, MachineWords DEF FMove, SetFReg

LEMMA MoveMachine ==
  ASSUME Ready, NEW i \in Insn, FSignInject(i) \/ FMoveToF(i)
  PROVE  Machine!Move(i)
<1>1. CASE FMoveToF(i)
  <2>1. i.kind = "FMV_W_X" /\ FMove(i.rd, Machine!X(i.rs1))
    BY <1>1, MachineWords DEF FMoveToF
  <2>2. Machine!Moves(i) = {Machine!X(i.rs1)}
    <3>1. i.kind = "FMV_W_X" /\ i.op = "none"
      BY <2>1, InsnFields DEF OpsOf
    <3> QED BY <3>1 DEF Machine!Moves
  <2> QED BY <2>1, <2>2, FMoved, MachineMove
<1>2. CASE FSignInject(i)
  <2> DEFINE a == fregs[i.rs1]
             b == fregs[i.rs2]
             s == CASE i.op = "FSGNJ" -> Sign(b)
                    [] i.op = "FSGNJN" -> 1 - Sign(b)
                    [] OTHER -> IF Sign(a) = Sign(b) THEN 0 ELSE 1
  <2>1. i.kind = "FSGN" /\ FMove(i.rd, WithSign(s, a)) /\ i.op \in FSignNames
    BY <1>2, InsnFields DEF FSignInject, OpsOf
  <2>2. a \in Register /\ b \in Register
    BY InsnFields DEF Ready, IInv, TypeOK, FReg
  <2>3. Machine!Half = Half
    BY HalfIsHalf
  <2>4. WithSign(s, a) \in Machine!Moves(i)
    <3>1. /\ Sign(a) = IF a >= Half THEN 1 ELSE 0
          /\ Sign(b) = IF b >= Half THEN 1 ELSE 0
          /\ WithSign(0, a) = a % Half /\ WithSign(1, a) = (a % Half) + Half
      BY <2>2, SignByOrder
    <3>2. CASE i.op = "FSGNJ"
      <4>1. Machine!Moves(i) = {IF b >= Half THEN (a % Half) + Half ELSE a % Half}
        BY <2>1, <2>3, <3>2 DEF Machine!Moves
      <4>2. s = IF b >= Half THEN 1 ELSE 0
        BY <3>1, <3>2
      <4> HIDE DEF s, a, b
      <4> QED BY <3>1, <4>1, <4>2
    <3>3. CASE i.op = "FSGNJN"
      <4>1. Machine!Moves(i) = {IF b >= Half THEN a % Half ELSE (a % Half) + Half}
        BY <2>1, <2>3, <3>3 DEF Machine!Moves
      <4>2. s = IF b >= Half THEN 0 ELSE 1
        BY <3>1, <3>3
      <4> HIDE DEF s, a, b
      <4> QED BY <3>1, <4>1, <4>2
    <3>4. CASE i.op = "FSGNJX"
      <4>1. Machine!Moves(i) =
              {IF (a >= Half) # (b >= Half) THEN (a % Half) + Half ELSE a % Half}
        BY <2>1, <2>3, <3>4 DEF Machine!Moves
      <4>2. s = IF (a >= Half) # (b >= Half) THEN 1 ELSE 0
        BY <3>1, <3>4
      <4> HIDE DEF s, a, b
      <4> QED BY <3>1, <4>1, <4>2
    <3> QED BY <2>1, <3>2, <3>3, <3>4 DEF FSignNames
  <2> QED BY <2>1, <2>4, FMoved, MachineMove
<1> QED BY <1>1, <1>2

LEMMA FLoadMachine ==
  ASSUME Ready, NEW i \in Insn, Allowed(i), FLoad(i)
  PROVE  Instruction(i)
<1> DEFINE a == EffectiveAddress(i)
<1>1. /\ a \in Address /\ i.kind = "FLW" /\ Machine!EA(i) = a /\ Machine!Bytes(i.op) = 4
      /\ IInv /\ Unbroken(memory)
  <2>1. i.kind = "FLW" /\ i.op = "none"
    BY InsnFields DEF FLoad, OpsOf
  <2> QED BY <2>1, EffectiveAddressIsAddress, MachineWords DEF Machine!Bytes, Ready
<1>2. \/ Faults(a, 4) /\ Abort
      \/ ~ Faults(a, 4) /\ \E b \in LoadReplies(memory, a, 4) : FMove(i.rd, Value(b, 4))
  BY DEF FLoad
<1> HIDE DEF a
<1>3. CASE Faults(a, 4) /\ Abort
  <2>1. Machine!Mistake(i)
    BY <1>1, <1>3, FaultsAreMistakes, MachineMistake
  <2> QED BY <1>3, <2>1, AbortIsTrap DEF Instruction
<1>4. CASE ~ Faults(a, 4) /\ \E b \in LoadReplies(memory, a, 4) : FMove(i.rd, Value(b, 4))
  <2>1. PICK b \in LoadReplies(memory, a, 4) : FMove(i.rd, Value(b, 4))
    BY <1>4
  <2>2. Machine!Reaches(a, 4) /\ Fits(memory, a, 4)
    BY <1>1, <1>4, AllowedReaches
  <2>3. Machine!MemValue(a, 4) = Value(b, 4)
    BY <1>1, <2>2, MachineMemValue
  <2>4. Machine!Moves(i) = {Machine!MemValue(Machine!EA(i), 4)}
    <3>1. i.kind = "FLW" /\ i.op = "none"
      BY <1>1, InsnFields DEF OpsOf
    <3> QED BY <3>1 DEF Machine!Moves
  <2>5. Machine!Move(i)
    BY <1>1, <2>1, <2>2, <2>3, <2>4, FMoved, MachineMove
  <2> QED BY <2>5 DEF Instruction
<1> QED BY <1>2, <1>3, <1>4
-----------------------------------------------------------------------------
(* The flags of fcsr, and the set of exceptions the machine keeps.         *)

IsFlag(x, k) == (x \div 2 ^ k) % 2 = 1

LEMMA FlagsByNumber ==
  ASSUME NEW x
  PROVE  /\ IsFlag(x, 0) <=> (x \div 1) % 2 = 1
         /\ IsFlag(x, 1) <=> (x \div 2) % 2 = 1
         /\ IsFlag(x, 2) <=> (x \div 4) % 2 = 1
         /\ IsFlag(x, 3) <=> (x \div 8) % 2 = 1
         /\ IsFlag(x, 4) <=> (x \div 16) % 2 = 1
<1>1. 2 ^ 0 = 1 /\ 2 ^ 1 = 2 /\ 2 ^ 2 = 4 /\ 2 ^ 3 = 8 /\ 2 ^ 4 = 16
  OBVIOUS
<1> QED BY <1>1, Zenon DEF IsFlag

LEMMA FlagsAreLow ==
  ASSUME NEW x \in Nat, NEW y \in Nat, x % 32 = y % 32, NEW k \in 0 .. 4
  PROVE  IsFlag(x, k) <=> IsFlag(y, k)
<1>1. \A z \in Nat : /\ (z \div 1) % 2 = ((z % 32) \div 1) % 2
                     /\ (z \div 2) % 2 = ((z % 32) \div 2) % 2
                     /\ (z \div 4) % 2 = ((z % 32) \div 4) % 2
                     /\ (z \div 8) % 2 = ((z % 32) \div 8) % 2
                     /\ (z \div 16) % 2 = ((z % 32) \div 16) % 2
  OBVIOUS
<1>2. k = 0 \/ k = 1 \/ k = 2 \/ k = 3 \/ k = 4
  OBVIOUS
<1>3. /\ (x \div 1) % 2 = (y \div 1) % 2 /\ (x \div 2) % 2 = (y \div 2) % 2
      /\ (x \div 4) % 2 = (y \div 4) % 2 /\ (x \div 8) % 2 = (y \div 8) % 2
      /\ (x \div 16) % 2 = (y \div 16) % 2
  <2> DEFINE m == x % 32
  <2>1. /\ (x \div 1) % 2 = (m \div 1) % 2 /\ (x \div 2) % 2 = (m \div 2) % 2
        /\ (x \div 4) % 2 = (m \div 4) % 2 /\ (x \div 8) % 2 = (m \div 8) % 2
        /\ (x \div 16) % 2 = (m \div 16) % 2
    BY <1>1
  <2>2. m = y % 32
    OBVIOUS
  <2>3. /\ (y \div 1) % 2 = (m \div 1) % 2 /\ (y \div 2) % 2 = (m \div 2) % 2
        /\ (y \div 4) % 2 = (m \div 4) % 2 /\ (y \div 8) % 2 = (m \div 8) % 2
        /\ (y \div 16) % 2 = (m \div 16) % 2
    BY <1>1, <2>2
  <2> HIDE DEF m
  <2> QED BY <2>1, <2>3, Zenon
<1>4. /\ IsFlag(x, 0) <=> IsFlag(y, 0)
      /\ IsFlag(x, 1) <=> IsFlag(y, 1)
      /\ IsFlag(x, 2) <=> IsFlag(y, 2)
      /\ IsFlag(x, 3) <=> IsFlag(y, 3)
      /\ IsFlag(x, 4) <=> IsFlag(y, 4)
  BY <1>3, FlagsByNumber, Zenon
<1> QED BY <1>2, <1>4, Zenon

LEMMA FlagSetIsFlags ==
  /\ \A x : Machine!FlagSet(x) = {k \in 0 .. 4 : IsFlag(x, k)}
  /\ Flags = Machine!FlagSet(fcsr)
  /\ Flags' = Machine!FlagSet(fcsr')
BY DEF Machine!FlagSet, IsFlag, Flags

LEMMA FlagSetIsLow ==
  ASSUME NEW x \in Nat, NEW y \in Nat, x % 32 = y % 32
  PROVE  Machine!FlagSet(x) = Machine!FlagSet(y)
BY FlagsAreLow, FlagSetIsFlags

LEMMA FlagBitsAreLow ==
  ASSUME NEW x \in Nat
  PROVE  Machine!FlagBits(Machine!FlagSet(x)) = x % 32
<1> DEFINE S == Machine!FlagSet(x)
           bit(k) == IF k \in S THEN 2 ^ k ELSE 0
<1>1. Machine!FlagBits(S) = bit(0) + bit(1) + bit(2) + bit(3) + bit(4)
  BY DEF Machine!FlagBits
<1>2. \A k \in 0 .. 4 : k \in S <=> IsFlag(x, k)
  BY FlagSetIsFlags
<1>3. 2 ^ 0 = 1 /\ 2 ^ 1 = 2 /\ 2 ^ 2 = 4 /\ 2 ^ 3 = 8 /\ 2 ^ 4 = 16
  OBVIOUS
<1> HIDE DEF S
<1>4. /\ 0 \in 0 .. 4 /\ 1 \in 0 .. 4 /\ 2 \in 0 .. 4 /\ 3 \in 0 .. 4 /\ 4 \in 0 .. 4
  OBVIOUS
<1>5. /\ bit(0) = IF (x \div 1) % 2 = 1 THEN 1 ELSE 0
      /\ bit(1) = IF (x \div 2) % 2 = 1 THEN 2 ELSE 0
      /\ bit(2) = IF (x \div 4) % 2 = 1 THEN 4 ELSE 0
      /\ bit(3) = IF (x \div 8) % 2 = 1 THEN 8 ELSE 0
      /\ bit(4) = IF (x \div 16) % 2 = 1 THEN 16 ELSE 0
  BY <1>2, <1>3, <1>4, FlagsByNumber, Zenon
<1> HIDE DEF bit
<1>6. bit(0) + bit(1) + bit(2) + bit(3) + bit(4) = x % 32
  BY ONLY <1>5, x \in Nat
<1> QED BY <1>1, <1>6 DEF S

LEMMA FlagSetOfOr ==
  ASSUME NEW a \in 0 .. 31, NEW b \in 0 .. 31
  PROVE  Machine!FlagSet(BitOr(a, b)) = Machine!FlagSet(a) \cup Machine!FlagSet(b)
<1>1. \A k \in 0 .. 4 : IsFlag(BitOr(a, b), k) <=> IsFlag(a, k) \/ IsFlag(b, k)
  BY FlagsAssumption DEF IsFlag
<1> QED BY <1>1, FlagSetIsFlags

(* What each write to fcsr leaves in its two fields.                       *)
LEMMA FieldsWritten ==
  ASSUME fcsr \in 0 .. 255, NEW v \in Nat
  PROVE  /\ SetCSR(1, v) % 32 = v % 32 /\ (SetCSR(1, v) \div 32) % 8 = Frm
         /\ SetCSR(2, v) % 32 = fcsr % 32 /\ (SetCSR(2, v) \div 32) % 8 = v % 8
         /\ SetCSR(3, v) % 32 = v % 32 /\ (SetCSR(3, v) \div 32) % 8 = (v \div 32) % 8
<1>1. /\ SetCSR(1, v) = (fcsr - (fcsr % 32)) + (v % 32)
      /\ SetCSR(2, v) = (fcsr - 32 * ((fcsr \div 32) % 8)) + 32 * (v % 8)
      /\ SetCSR(3, v) = v % 256
  BY DEF SetCSR, fflags, frm
<1> DEFINE lo == fcsr % 32
           hi == fcsr \div 32
<1>2. fcsr = (32 * hi) + lo /\ hi \in 0 .. 7 /\ lo \in 0 .. 31 /\ hi % 8 = hi
  OBVIOUS
<1> HIDE DEF lo, hi
<1>3. /\ SetCSR(1, v) = (32 * hi) + (v % 32)
      /\ SetCSR(2, v) = lo + 32 * (v % 8)
  BY <1>1, <1>2 DEF lo, hi
<1>4. v % 32 \in 0 .. 31 /\ v % 8 \in 0 .. 7
  OBVIOUS
<1>5. \A q \in 0 .. 7, r \in 0 .. 31 :
        ((32 * q) + r) % 32 = r /\ (((32 * q) + r) \div 32) % 8 = q
  OBVIOUS
<1>6. SetCSR(1, v) % 32 = v % 32 /\ (SetCSR(1, v) \div 32) % 8 = hi
  BY <1>2, <1>3, <1>4, <1>5
<1>7. SetCSR(2, v) % 32 = lo /\ (SetCSR(2, v) \div 32) % 8 = v % 8
  <2> DEFINE q == v % 8
  <2>1. SetCSR(2, v) = (32 * q) + lo /\ q \in 0 .. 7
    BY <1>2, <1>3, <1>4
  <2> HIDE DEF q
  <2>2. ((32 * q) + lo) % 32 = lo /\ (((32 * q) + lo) \div 32) % 8 = q
    BY <1>2, <1>5, <2>1
  <2>3. SetCSR(2, v) % 32 = lo /\ (SetCSR(2, v) \div 32) % 8 = q
    BY <2>1, <2>2, Zenon
  <2> QED BY <2>3 DEF q
<1>8. (v % 256) % 32 = v % 32 /\ ((v % 256) \div 32) % 8 = (v \div 32) % 8
  OBVIOUS
<1> QED BY <1>1, <1>2, <1>6, <1>7, <1>8 DEF Frm, lo, hi

LEMMA FcsrWord == IInv => fcsr \in 0 .. 255 /\ fcsr % 256 = fcsr
                          /\ fcsr = (fcsr % 32) + 32 * ((fcsr \div 32) % 8)
<1> SUFFICES ASSUME fcsr \in 0 .. 255
             PROVE  fcsr % 256 = fcsr /\ fcsr = (fcsr % 32) + 32 * ((fcsr \div 32) % 8)
  BY DEF IInv, TypeOK
<1> QED OBVIOUS

(* What the callbacks raise is added to what is accrued.                   *)
LEMMA Accrued ==
  ASSUME Ready, NEW flags \in 0 .. 31, Accrue(flags)
  PROVE  /\ Flags' = Flags \cup Machine!FlagSet(flags)
         /\ ip' = Machine!Mod(ip + 4)
         /\ UNCHANGED <<Mode, Frm, Mem>>
<1>0. fcsr \in 0 .. 255
  BY FcsrWord DEF Ready
<1>1. ip' = Machine!Mod(ip + 4) /\ Mode' = Mode /\ Mem' = Mem
  BY SameViews, MachineWords DEF Accrue
<1>2. CASE flags = 0
  <2>1. Frm' = Frm /\ Flags' = Flags
    BY <1>2, SameViews DEF Accrue, SetFExcp
  <2>2. Machine!FlagSet(0) = {}
    <3>1. \A k \in 0 .. 4 : k = 0 \/ k = 1 \/ k = 2 \/ k = 3 \/ k = 4
      OBVIOUS
    <3>2. (0 \div 1) % 2 = 0 /\ (0 \div 2) % 2 = 0 /\ (0 \div 4) % 2 = 0
          /\ (0 \div 8) % 2 = 0 /\ (0 \div 16) % 2 = 0 /\ 0 # 1
      OBVIOUS
    <3>3. ~ IsFlag(0, 0) /\ ~ IsFlag(0, 1) /\ ~ IsFlag(0, 2) /\ ~ IsFlag(0, 3) /\ ~ IsFlag(0, 4)
      BY <3>2, FlagsByNumber, Zenon
    <3>4. \A k \in 0 .. 4 : ~ IsFlag(0, k)
      BY <3>1, <3>3, Zenon
    <3> QED BY <3>4, FlagSetIsFlags
  <2> QED BY <1>1, <1>2, <2>1, <2>2
<1>3. CASE flags # 0
  <2> DEFINE low == fcsr % 32
             v == BitOr(low, flags)
  <2>1. low \in 0 .. 31 /\ GetCSR(fflags) = low
    <3>1. low \in 0 .. 31
      BY <1>0
    <3> QED BY <3>1 DEF GetCSR, fflags, frm
  <2>2. v \in 0 .. 31
    BY <2>1, BitAssumption
  <2>3. fcsr' = SetCSR(1, v)
    BY <1>3, <2>1 DEF Accrue, SetFExcp, fflags
  <2> HIDE DEF low, v
  <2>4. v \in Nat /\ v % 32 = v
    BY ONLY <2>2
  <2>5. fcsr' % 32 = v % 32 /\ (fcsr' \div 32) % 8 = Frm
    BY <1>0, <2>3, <2>4, FieldsWritten
  <2>6. Frm' = Frm
    BY <2>5 DEF Frm
  <2>7. fcsr' \in Nat
    <3>1. SetCSR(1, v) \in 0 .. 255
      <4>1. v \in Int
        BY ONLY <2>4
      <4> QED BY <1>0, <4>1, CsrRanges, Zenon
    <3> QED BY ONLY <2>3, <3>1
  <2>8. Flags' = Machine!FlagSet(v)
    BY <2>4, <2>5, <2>7, FlagSetIsLow, FlagSetIsFlags
  <2>9. Machine!FlagSet(v) = Machine!FlagSet(low) \cup Machine!FlagSet(flags)
    BY <2>1, FlagSetOfOr DEF v
  <2>10. Machine!FlagSet(low) = Flags
    <3>1. low % 32 = fcsr % 32 /\ low \in Nat /\ fcsr \in Nat
      BY <1>0 DEF low
    <3> QED BY <3>1, FlagSetIsLow, FlagSetIsFlags
  <2> QED BY <1>1, <2>6, <2>8, <2>9, <2>10
<1> QED BY <1>2, <1>3
-----------------------------------------------------------------------------
(* The CSR instructions.                                                   *)

LEMMA MachineCsrRead ==
  ASSUME IInv, NEW c \in {1, 2, 3}
  PROVE  Machine!CsrRead(c) = GetCSR(c)
<1>0. fcsr \in Nat /\ fcsr % 256 = fcsr /\ fcsr = (fcsr % 32) + 32 * ((fcsr \div 32) % 8)
  <2>1. fcsr \in 0 .. 255
    BY FcsrWord, Zenon
  <2>2. fcsr \in Nat
    BY ONLY <2>1
  <2> QED BY <2>2, FcsrWord, Zenon
<1>1. Machine!FlagBits(Flags) = fcsr % 32
  BY <1>0, FlagBitsAreLow, FlagSetIsFlags
<1>2. Machine!CsrRead(c) =
        CASE c = 1 -> Machine!FlagBits(Flags) [] c = 2 -> Frm
          [] OTHER -> Machine!FlagBits(Flags) + 32 * Frm
  BY DEF Machine!CsrRead, Flags, Frm
<1>3. CASE c = 1
  BY <1>1, <1>2, <1>3 DEF GetCSR, fflags, frm
<1>4. CASE c = 2
  BY <1>2, <1>4 DEF GetCSR, fflags, frm, Frm
<1>5. CASE c = 3
  <2>1. Machine!CsrRead(c) = (fcsr % 32) + 32 * ((fcsr \div 32) % 8)
    <3>1. Machine!CsrRead(c) = Machine!FlagBits(Flags) + 32 * Frm
      BY ONLY <1>2, <1>5
    <3> QED BY <1>1, <3>1, Zenon DEF Frm
  <2>2. GetCSR(c) = fcsr % 256
    BY <1>5 DEF GetCSR, fflags, frm
  <2> QED BY <1>0, <2>1, <2>2, Zenon
<1> QED BY <1>3, <1>4, <1>5

LEMMA CsrMachine ==
  ASSUME Ready, NEW i \in Insn, Allowed(i), Csr(i)
  PROVE  Instruction(i)
<1> DEFINE old == GetCSR(i.imm)
           new == CsrValue(i, old)
<1>0. IInv /\ i.kind = "CSR" /\ fcsr \in 0 .. 255
  BY FcsrWord DEF Csr, Ready
<1>1. CASE i.imm \notin {1, 2, 3} /\ Abort
  BY <1>0, <1>1, MachineMistake, AbortIsTrap DEF Instruction
<1>2. CASE ~ (i.imm \notin {1, 2, 3} /\ Abort)
  <2>1. /\ i.imm \in {1, 2, 3}
        /\ fcsr' = SetCSR(i.imm, new) /\ xregs' = SetXReg(i.rd, old) /\ ip' = NextIp
        /\ UNCHANGED <<memory, fregs, should_stop, status>>
    <3>1. NDEBUG => i.imm \in {1, 2, 3}
      BY <1>0, MachineMistake DEF Allowed
    <3> QED BY <1>2, <3>1 DEF Csr, KnownCSRs, fflags, frm
  <2>2. Machine!CsrRead(i.imm) = old
    BY <1>0, <2>1, MachineCsrRead
  <2>3. new \in Nat
    <3>1. old \in Register
      BY <1>0, CsrAccess
    <3>2. CsrOperand(i) \in Register
      <4>1. GetXReg(i.rs1) \in Register /\ i.rs1 \in XReg
        BY <1>0, InsnFields, RegisterAccess
      <4>2. XReg \subseteq Register
        BY Sizes DEF XReg, Register, Address
      <4> QED BY <4>1, <4>2 DEF CsrOperand
    <3>3. new \in Register
      BY <3>1, <3>2, BitAssumption DEF CsrValue
    <3> QED BY <3>3 DEF Register, Address
  <2>4. new = LET source == IF i.op \in {"CSRRWI", "CSRRSI", "CSRRCI"} THEN i.rs1
                            ELSE Machine!X(i.rs1)
              IN  CASE i.op \in {"CSRRW", "CSRRWI"} -> source
                    [] i.op \in {"CSRRS", "CSRRSI"} -> BitOr(old, source)
                    [] OTHER -> BitAndNot(old, source)
    BY MachineWords DEF CsrValue, CsrOperand
  <2> HIDE DEF old, new
  <2>5. /\ xregs' = Machine!Write(i.rd, old) /\ ip' = Machine!Mod(ip + 4)
        /\ UNCHANGED <<Mode, fregs, Mem>>
    BY <2>1, SameViews, MachineWords
  <2>6. fcsr' \in Nat
    <3>1. SetCSR(i.imm, new) \in 0 .. 255
      <4>1. new \in Int /\ fcsr \in 0 .. 255
        BY ONLY <1>0, <2>3 DEF IInv, TypeOK
      <4>2. \A v \in Int : SetCSR(i.imm, v) \in 0 .. 255
        BY ONLY <4>1, CsrRanges, ZenonT(30)
      <4> QED BY ONLY <4>1, <4>2
    <3>2. fcsr' \in 0 .. 255
      BY <2>1, <3>1, Zenon
    <3> QED BY ONLY <3>2
  <2>7. Flags' = IF i.imm \in {1, 3} THEN Machine!FlagSet(new) ELSE Flags
    <3>1. CASE i.imm \in {1, 3}
      <4>1. fcsr' % 32 = new % 32
        BY <1>0, <2>1, <2>3, <3>1, FieldsWritten
      <4> QED BY <2>3, <2>6, <3>1, <4>1, FlagSetIsLow, FlagSetIsFlags
    <3>2. CASE i.imm = 2
      <4>1. fcsr' % 32 = fcsr % 32 /\ fcsr \in Nat
        BY <1>0, <2>1, <2>3, <3>2, FieldsWritten
      <4> QED BY <2>6, <3>2, <4>1, FlagSetIsLow, FlagSetIsFlags
    <3> QED BY <2>1, <3>1, <3>2
  <2>8. Frm' = CASE i.imm = 2 -> new % 8 [] i.imm = 3 -> (new \div 32) % 8 [] OTHER -> Frm
    <3>1. Frm' = (fcsr' \div 32) % 8
      BY DEF Frm
    <3>2. CASE i.imm = 1
      BY <1>0, <2>1, <2>3, <3>1, <3>2, FieldsWritten
    <3>3. CASE i.imm = 2
      BY <1>0, <2>1, <2>3, <3>1, <3>3, FieldsWritten
    <3>4. CASE i.imm = 3
      BY <1>0, <2>1, <2>3, <3>1, <3>4, FieldsWritten
    <3> QED BY <2>1, <3>2, <3>3, <3>4
  <2>9. Machine!Csr(i)
    BY <1>0, <2>1, <2>2, <2>4, <2>5, <2>7, <2>8, MachineCsr, Zenon
  <2> QED BY <2>9 DEF Instruction
<1> QED BY <1>1, <1>2
-----------------------------------------------------------------------------
(* The float instructions that raise exceptions.                           *)

LEMMA MachineRounding ==
  ASSUME Ready, NEW i \in Insn
  PROVE  /\ GetRM(i.rm) = IF i.rm = 7 THEN Frm ELSE i.rm
         /\ i.kind \in {"FARITH", "FCVT_TO_X"} =>
              /\ ModeSet(GetRM(i.rm)) \in Machine!Rounding(i)
              /\ ModeReturned(GetRM(i.rm)) \in Machine!Rounding(i)
         /\ i.kind \notin {"FARITH", "FCVT_TO_X"} =>
              softfloat_roundingMode \in Machine!Rounding(i)
<1> DEFINE rm == IF i.rm = 7 THEN Frm ELSE i.rm
<1>1. GetRM(i.rm) = rm
  BY DEF GetRM, GetCSR, fflags, frm, DYN, Frm
<1>2. rm \in 0 .. 7 /\ softfloat_roundingMode \in 0 .. 4
  <2>1. i.rm \in 0 .. 7 /\ softfloat_roundingMode \in 0 .. 4 /\ fcsr \in 0 .. 255
    BY InsnFields DEF Ready, IInv, TypeOK
  <2>2. Frm \in 0 .. 7
    BY <2>1 DEF Frm
  <2> QED BY <2>1, <2>2
<1>3. Machine!Rounding(i) =
        IF i.kind \in {"FARITH", "FCVT_TO_X"} /\ rm <= 4 THEN {rm} ELSE 0 .. 4
  BY DEF Machine!Rounding, Frm
<1> HIDE DEF rm
<1>4. /\ ModeSet(rm) = IF rm \in 0 .. 4 THEN rm ELSE softfloat_roundingMode
      /\ ModeReturned(rm) = IF rm \in 0 .. 4 THEN rm ELSE 0
  BY DEF ModeSet, ModeReturned, RoundingModes
<1> QED BY <1>1, <1>2, <1>3, <1>4 DEF rm

LEMMA RoundingAborts ==
  ASSUME Ready, NEW i \in Insn, i.kind \in {"FARITH", "FCVT_TO_X"}, RoundingFails(i), AbortRounding
  PROVE  Instruction(i)
<1>1. i.rm = 7 /\ Frm = 7
  <2>1. GetRM(i.rm) = 7
    BY DEF RoundingFails, DYN
  <2>2. GetRM(i.rm) = IF i.rm = 7 THEN Frm ELSE i.rm
    BY MachineRounding
  <2> QED BY <2>1, <2>2
<1>2. Machine!Trap
  BY SameViews, MachineTrap DEF AbortRounding, Mode
<1> QED BY <1>1, <1>2, MachineMistake DEF Instruction

LEMMA RepliesOfLibrary ==
  ASSUME NEW fn, NEW args, NEW mode, NEW r \in Replies(fn, args, mode)
  PROVE  /\ r \in SoftFloat(fn, args, mode)
         /\ r.v \in Register /\ r.flags \in 0 .. 31
BY DEF Replies, FloatReply

LEMMA MachineOperation ==
  ASSUME Ready, NEW i \in Insn
  PROVE  /\ i.kind = "FARITH" => /\ ArithFunc(i.op) = Machine!Operation(i)
                                 /\ ArithArgs(i) = Machine!Operands(i)
         /\ i.kind = "FCMP" => /\ CmpFunc(i.op) = Machine!Operation(i)
                               /\ <<fregs[i.rs1], fregs[i.rs2]>> = Machine!Operands(i)
         /\ i.kind = "FCVT_TO_X" =>
              /\ (IF i.op = "FCVT_W_S" THEN "f32_to_i32" ELSE "f32_to_ui32") = Machine!Operation(i)
              /\ <<fregs[i.rs1]>> = Machine!Operands(i)
         /\ i.kind = "FCVT_TO_F" =>
              /\ (IF i.op = "FCVT_S_W" THEN "i32_to_f32" ELSE "ui32_to_f32") = Machine!Operation(i)
              /\ <<GetXReg(i.rs1)>> = Machine!Operands(i)
<1>1. i.op \in OpsOf(i.kind)
  BY InsnFields
<1>2. /\ fregs[i.rs1] \in Register /\ fregs[i.rs3] \in Register
      /\ f32_neg(fregs[i.rs1]) = Machine!Negated(fregs[i.rs1])
      /\ f32_neg(fregs[i.rs3]) = Machine!Negated(fregs[i.rs3])
  BY InsnFields, SignByOrder DEF Ready, IInv, TypeOK, FReg
<1>3. CASE i.kind = "FARITH"
  <2>1. i.op \in FArithNames
    BY <1>1, <1>3 DEF OpsOf
  <2>2. ArithFunc(i.op) = Machine!Operation(i)
    BY <2>1 DEF ArithFunc, Machine!Operation, FArithNames
  <2>3. ArithArgs(i) = Machine!Operands(i)
    BY <1>2, <1>3, <2>1 DEF ArithArgs, Machine!Operands, FArithNames
  <2> QED BY <1>3, <2>2, <2>3
<1>4. CASE i.kind = "FCMP"
  <2>1. i.op \in FCmpNames
    BY <1>1, <1>4 DEF OpsOf
  <2> QED BY <1>4, <2>1 DEF CmpFunc, Machine!Operation, Machine!Operands, FCmpNames
<1>5. CASE i.kind = "FCVT_TO_X"
  <2>1. i.op \in {"FCVT_W_S", "FCVT_WU_S"}
    BY <1>1, <1>5 DEF OpsOf
  <2> QED BY <1>5, <2>1 DEF Machine!Operation, Machine!Operands
<1>6. CASE i.kind = "FCVT_TO_F"
  <2>1. i.op \in {"FCVT_S_W", "FCVT_S_WU"}
    BY <1>1, <1>6 DEF OpsOf
  <2> QED BY <1>6, <2>1, MachineWords DEF Machine!Operation, Machine!Operands
<1> QED BY <1>3, <1>4, <1>5, <1>6

LEMMA FArithMachine ==
  ASSUME Ready, NEW i \in Insn, FArith(i)
  PROVE  Instruction(i)
<1>1. i.kind = "FARITH"
  BY DEF FArith
<1>2. CASE RoundingFails(i) /\ AbortRounding
  BY <1>1, <1>2, RoundingAborts
<1>3. CASE ~ (RoundingFails(i) /\ AbortRounding)
  <2>1. softfloat_roundingMode' = ModeSet(GetRM(i.rm)) /\ UNCHANGED xregs
    BY <1>3 DEF FArith
  <2>2. PICK r \in Replies(ArithFunc(i.op), ArithArgs(i), softfloat_roundingMode') :
          /\ fregs' = SetFReg(i.rd, ArithResult(i.op, r.v))
          /\ Accrue(r.flags)
    BY <1>3 DEF FArith
  <2> DEFINE mode == ModeSet(GetRM(i.rm))
  <2>3. mode \in Machine!Rounding(i)
    BY <1>1, MachineRounding
  <2>4. /\ r \in SoftFloat(Machine!Operation(i), Machine!Operands(i), mode)
        /\ r.v \in Register /\ r.flags \in 0 .. 31
    BY <1>1, <2>1, <2>2, RepliesOfLibrary, MachineOperation
  <2>5. /\ Flags' = Flags \cup Machine!FlagSet(r.flags) /\ ip' = Machine!Mod(ip + 4)
        /\ UNCHANGED <<Mode, Frm, Mem>>
    BY <2>2, <2>4, Accrued
  <2>6. fregs' = [fregs EXCEPT ![i.rd] = IF i.op = "FNMADD" THEN Machine!Negated(r.v) ELSE r.v]
    BY <2>2, <2>4, SignByOrder DEF SetFReg, ArithResult
  <2> HIDE DEF mode
  <2>7. FloatResult(i, r)
    BY <1>1, <2>1, <2>6 DEF FloatResult
  <2>8. Machine!Float(i)
    BY <1>1, <2>3, <2>4, <2>5, <2>7, MachineFloat
  <2> QED BY <2>8 DEF Instruction
<1> QED BY <1>2, <1>3

LEMMA FCompareMachine ==
  ASSUME Ready, NEW i \in Insn, FCompare(i)
  PROVE  Instruction(i)
<1>1. i.kind = "FCMP" /\ i.op \in FCmpNames /\ UNCHANGED fregs
  BY InsnFields DEF FCompare, OpsOf
<1>2. PICK r \in Replies(CmpFunc(i.op), <<fregs[i.rs1], fregs[i.rs2]>>, softfloat_roundingMode) :
        xregs' = SetXReg(i.rd, IF r.v # 0 THEN 1 ELSE 0) /\ Accrue(r.flags)
  BY DEF FCompare
<1>3. softfloat_roundingMode \in Machine!Rounding(i)
  BY <1>1, MachineRounding
<1>4. /\ r \in SoftFloat(Machine!Operation(i), Machine!Operands(i), softfloat_roundingMode)
      /\ r.flags \in 0 .. 31
  BY <1>1, <1>2, RepliesOfLibrary, MachineOperation
<1>5. /\ Flags' = Flags \cup Machine!FlagSet(r.flags) /\ ip' = Machine!Mod(ip + 4)
      /\ UNCHANGED <<Mode, Frm, Mem>>
  BY <1>2, <1>4, Accrued
<1>6. xregs' = Machine!Write(i.rd, Machine!Truth(r))
  BY <1>2, MachineWords DEF Machine!Truth
<1>7. FloatResult(i, r)
  BY <1>1, <1>6 DEF FCmpNames, FloatResult
<1>8. Machine!Float(i)
  BY <1>1, <1>3, <1>4, <1>5, <1>7, MachineFloat
<1> QED BY <1>8 DEF Instruction

LEMMA FToIntegerMachine ==
  ASSUME Ready, NEW i \in Insn, FToInteger(i)
  PROVE  Instruction(i)
<1>1. i.kind = "FCVT_TO_X" /\ i.op \in {"FCVT_W_S", "FCVT_WU_S"}
  BY InsnFields DEF FToInteger, OpsOf
<1>2. CASE RoundingFails(i) /\ AbortRounding
  BY <1>1, <1>2, RoundingAborts
<1>3. CASE ~ (RoundingFails(i) /\ AbortRounding)
  <2> DEFINE mode == ModeReturned(GetRM(i.rm))
  <2>1. UNCHANGED fregs
    BY <1>3 DEF FToInteger
  <2>2. PICK r \in Replies(IF i.op = "FCVT_W_S" THEN "f32_to_i32" ELSE "f32_to_ui32",
                           <<fregs[i.rs1]>>, mode) :
          xregs' = SetXReg(i.rd, r.v) /\ Accrue(r.flags)
    BY <1>3 DEF FToInteger
  <2>3. mode \in Machine!Rounding(i)
    BY <1>1, MachineRounding
  <2>4. /\ r \in SoftFloat(Machine!Operation(i), Machine!Operands(i), mode)
        /\ r.flags \in 0 .. 31
    BY <1>1, <2>2, RepliesOfLibrary, MachineOperation
  <2>5. /\ Flags' = Flags \cup Machine!FlagSet(r.flags) /\ ip' = Machine!Mod(ip + 4)
        /\ UNCHANGED <<Mode, Frm, Mem>>
    BY <2>2, <2>4, Accrued
  <2>6. xregs' = Machine!Write(i.rd, r.v)
    BY <2>2, MachineWords
  <2> HIDE DEF mode
  <2>7. FloatResult(i, r)
    BY <1>1, <2>1, <2>6 DEF FloatResult
  <2>8. Machine!Float(i)
    BY <1>1, <2>3, <2>4, <2>5, <2>7, MachineFloat
  <2> QED BY <2>8 DEF Instruction
<1> QED BY <1>2, <1>3

LEMMA FToFloatMachine ==
  ASSUME Ready, NEW i \in Insn, FToFloat(i)
  PROVE  Instruction(i)
<1>1. i.kind = "FCVT_TO_F" /\ i.op \in {"FCVT_S_W", "FCVT_S_WU"} /\ UNCHANGED xregs
  BY InsnFields DEF FToFloat, OpsOf
<1>2. PICK r \in Replies(IF i.op = "FCVT_S_W" THEN "i32_to_f32" ELSE "ui32_to_f32",
                         <<GetXReg(i.rs1)>>, softfloat_roundingMode) :
        fregs' = SetFReg(i.rd, r.v) /\ Accrue(r.flags)
  BY DEF FToFloat
<1>3. softfloat_roundingMode \in Machine!Rounding(i)
  BY <1>1, MachineRounding
<1>4. /\ r \in SoftFloat(Machine!Operation(i), Machine!Operands(i), softfloat_roundingMode)
      /\ r.flags \in 0 .. 31
  BY <1>1, <1>2, RepliesOfLibrary, MachineOperation
<1>5. /\ Flags' = Flags \cup Machine!FlagSet(r.flags) /\ ip' = Machine!Mod(ip + 4)
      /\ UNCHANGED <<Mode, Frm, Mem>>
  BY <1>2, <1>4, Accrued
<1>6. fregs' = [fregs EXCEPT ![i.rd] = r.v]
  BY <1>2 DEF SetFReg
<1>7. FloatResult(i, r)
  BY <1>1, <1>6 DEF FloatResult
<1>8. Machine!Float(i)
  BY <1>1, <1>3, <1>4, <1>5, <1>7, MachineFloat
<1> QED BY <1>8 DEF Instruction

LEMMA FMinMaxMachine ==
  ASSUME Ready, NEW i \in Insn, FMinMax(i)
  PROVE  Machine!Move(i)
<1> DEFINE a == fregs[i.rs1]
           b == fregs[i.rs2]
<1>1. i.kind = "FMINMAX" /\ i.op \in FMinMaxNames
  BY InsnFields DEF FMinMax, OpsOf
<1>2. PICK r \in Replies("f32_le", <<a, b>>, softfloat_roundingMode) :
        fregs' = SetFReg(i.rd, Chosen(i.op, r.v # 0, a, b))
  BY DEF FMinMax
<1>3. r \in SoftFloat("f32_le", <<a, b>>, softfloat_roundingMode)
  BY <1>2, RepliesOfLibrary
<1>4. softfloat_roundingMode \in 0 .. 4
  BY DEF Ready, IInv, TypeOK
<1>5. Machine!Truth(r) \in Machine!LessOrEqual(a, b)
  BY <1>3, <1>4 DEF Machine!LessOrEqual
<1>6. Machine!Truth(r) = IF r.v # 0 THEN 1 ELSE 0
  BY DEF Machine!Truth
<1>7. Chosen(i.op, r.v # 0, a, b) \in Machine!Moves(i)
  <2>1. CASE i.op = "FMIN"
    <3>1. Machine!Moves(i) = {IF t = 1 THEN a ELSE b : t \in Machine!LessOrEqual(a, b)}
      BY <1>1, <2>1 DEF Machine!Moves
    <3>2. Chosen(i.op, r.v # 0, a, b) = IF Machine!Truth(r) = 1 THEN a ELSE b
      BY <1>6, <2>1 DEF Chosen
    <3> QED BY <1>5, <3>1, <3>2
  <2>2. CASE i.op = "FMAX"
    <3>1. Machine!Moves(i) = {IF t = 1 THEN b ELSE a : t \in Machine!LessOrEqual(a, b)}
      BY <1>1, <2>2 DEF Machine!Moves
    <3>2. Chosen(i.op, r.v # 0, a, b) = IF Machine!Truth(r) = 1 THEN b ELSE a
      BY <1>6, <2>2 DEF Chosen
    <3> QED BY <1>5, <3>1, <3>2
  <2> QED BY <1>1, <2>1, <2>2 DEF FMinMaxNames
<1>8. /\ ip' = Machine!Mod(ip + 4) /\ UNCHANGED <<Mode, xregs, Frm, Flags, Mem>>
  BY SameViews, MachineWords DEF FMinMax
<1>9. fregs' = [fregs EXCEPT ![i.rd] = Chosen(i.op, r.v # 0, a, b)]
  BY <1>2 DEF SetFReg
<1> QED BY <1>1, <1>7, <1>8, <1>9, MachineMove
-----------------------------------------------------------------------------
(* The calls of the environment.                                           *)

LEMMA CallNumbers == kRead # kWrite /\ kRead # kExit /\ kWrite # kExit
BY DEF kRead, kWrite, kExit

(* A buffer with a byte that is not there is a mistake.                    *)
LEMMA MissingIsMistake ==
  ASSUME Ready, NEW i \in Insn, Ecall(i, kRead) \/ Ecall(i, kWrite),
         NEW n \in Nat, n <= GetXReg(A2), NEW j \in Missing(memory, GetXReg(A1), n)
  PROVE  Machine!Mistake(i)
<1>1. /\ GetXReg(A1) \in Address /\ GetXReg(A2) \in Address
      /\ Machine!X(A1) = GetXReg(A1) /\ Machine!X(A2) = GetXReg(A2)
      /\ Machine!X(A7) = GetXReg(A7)
  BY CallRegisters, MachineWords DEF Ready
<1>2. i.kind = "ECALL" /\ Machine!X(A7) # kExit
  BY <1>1, CallNumbers DEF Ecall
<1>3. j \in 0 .. n - 1 /\ ~ Fits(memory, Wrap(GetXReg(A1) + j), 1)
  BY DEF Missing
<1>4. j \in Address /\ j \in 0 .. GetXReg(A2) - 1
  BY <1>1, <1>3 DEF Address
<1>5. Machine!At(Machine!X(A1), j) = Wrap(GetXReg(A1) + j)
  BY <1>1, <1>4, ModIsWrap DEF Machine!At, Machine!Mod
<1>6. Wrap(GetXReg(A1) + j) \in Address
  BY <1>1, <1>4 DEF Wrap, Address
<1>7. Mem[Machine!At(Machine!X(A1), j)] = -1
  BY <1>3, <1>5, <1>6 DEF Mem
<1> QED BY <1>1, <1>2, <1>4, <1>7, MachineMistake

LEMMA ExitMachine ==
  ASSUME Ready, NEW i \in Insn, EcallExit(i)
  PROVE  Machine!Call(i)
<1>1. /\ i.kind = "ECALL" /\ Machine!X(A7) = kExit /\ ip' = Machine!Mod(ip + 4)
      /\ UNCHANGED <<memory, xregs, fregs, fcsr, status>> /\ should_stop'
  BY MachineWords DEF EcallExit, Ecall
<1>2. Mode' = "exited"
  BY <1>1 DEF Mode, Ready
<1> QED BY <1>1, <1>2, SameViews, MachineCall

LEMMA UnknownMachine ==
  ASSUME Ready, NEW i \in Insn, Allowed(i), EcallUnknown(i)
  PROVE  Instruction(i)
<1>1. i.kind = "ECALL" /\ Machine!X(A7) \notin {kRead, kWrite, kExit}
  BY MachineWords DEF EcallUnknown
<1>2. Machine!Mistake(i)
  BY <1>1, MachineMistake
<1>3. Abort
  BY <1>2 DEF EcallUnknown, Allowed
<1> QED BY <1>2, <1>3, AbortIsTrap DEF Instruction

LEMMA WriteMachine ==
  ASSUME Ready, NEW i \in Insn, EcallWrite(i)
  PROVE  Instruction(i)
<1>1. Ecall(i, kWrite)
  BY DEF EcallWrite
<1>2. CASE Missing(memory, GetXReg(A1), GetXReg(A2)) # {} /\ Abort
  <2>1. GetXReg(A2) \in Nat
    BY CallRegisters DEF Ready, Address
  <2>2. Machine!Mistake(i)
    BY <1>1, <1>2, <2>1, MissingIsMistake
  <2> QED BY <1>2, <2>2, AbortIsTrap DEF Instruction
<1>3. CASE ~ (Missing(memory, GetXReg(A1), GetXReg(A2)) # {} /\ Abort)
  <2>1. PICK wc : /\ xregs' = SetXReg(A0, Trunc(wc)) /\ ip' = NextIp
                  /\ UNCHANGED <<memory, floats, should_stop, status>>
    BY <1>3 DEF EcallWrite
  <2>2. xregs' = [xregs EXCEPT ![A0] = xregs'[A0]]
    BY <2>1, CallRegisters DEF Ready
  <2>3. UNCHANGED <<Mode, fregs, Frm, Flags, Mem>> /\ ip' = Machine!Mod(ip + 4)
    BY <2>1, SameViews, MachineWords
  <2>4. i.kind = "ECALL" /\ Machine!X(A7) = kWrite
    BY <1>1, MachineWords DEF Ecall
  <2>5. Machine!Call(i)
    BY <2>2, <2>3, <2>4, MachineCall
  <2> QED BY <2>5 DEF Instruction
<1> QED BY <1>2, <1>3

LEMMA ReadMachine ==
  ASSUME Ready, NEW i \in Insn, Allowed(i), EcallRead(i)
  PROVE  Instruction(i)
<1> DEFINE addr == GetXReg(A1)
           size == GetXReg(A2)
           Buf(n) == [j \in 0 .. n - 1 |-> input[j + 1]]
<1>1. PICK rc \in ReadResults(size) :
        LET count == IF rc < 0 THEN 0 ELSE rc
        IN  \/ /\ NDEBUG \/ Missing(memory, addr, count) = {}
               /\ memory' = CopyBytes(memory, addr, count, Buf(count))
               /\ IF Spilling(memory, addr, count) = {} THEN UNCHANGED status ELSE Spill
               /\ xregs' = SetXReg(A0, Trunc(rc))
               /\ ip' = NextIp
            \/ /\ \E m \in Missing(memory, addr, count) : TRUE
               /\ status' = "abort"
               /\ UNCHANGED <<xregs, ip>>
  BY DEF EcallRead
<1> DEFINE count == IF rc < 0 THEN 0 ELSE rc
<1>2. /\ i.kind = "ECALL" /\ Machine!X(A7) = kRead /\ Ecall(i, kRead)
      /\ UNCHANGED <<fregs, fcsr, should_stop>>
  BY MachineWords DEF EcallRead, Ecall
<1>3. /\ addr \in Address /\ size \in Address /\ memory \in Seq(Segment) /\ IInv
      /\ Machine!X(A1) = addr /\ Machine!X(A2) = size
  BY CallRegisters, MachineWords DEF Ready, IInv, TypeOK
<1>4. count \in Nat /\ count <= size /\ count < AddrMod /\ Buf(count) \in Bytes(count)
  <2>1. size \in Register
    BY <1>3 DEF Register
  <2>2. count \in 0 .. Len(input) /\ count < AddrMod /\ Buf(count) \in Bytes(count) /\ rc \in Int
    BY <1>3, <2>1, ReadCounts
  <2>3. count \in Nat
    BY <2>2
  <2>4. count <= size
    BY <1>3 DEF ReadResults, Address
  <2> QED BY <2>2, <2>3, <2>4
<1>5. \/ /\ Missing(memory, addr, count) = {}
         /\ memory' = CopyBytes(memory, addr, count, Buf(count))
         /\ IF Spilling(memory, addr, count) = {} THEN UNCHANGED status ELSE Spill
         /\ xregs' = SetXReg(A0, Trunc(rc))
         /\ ip' = NextIp
      \/ /\ \E m \in Missing(memory, addr, count) : TRUE
         /\ status' = "abort"
         /\ UNCHANGED <<xregs, ip>>
  <2>1. ASSUME NDEBUG, NEW m \in Missing(memory, addr, count)
        PROVE  FALSE
    BY <1>2, <1>4, <2>1, MissingIsMistake DEF Allowed
  <2> HIDE DEF addr, size, Buf, count
  <2> QED BY <1>1, <2>1 DEF count
<1> HIDE DEF addr, size, Buf, count
<1>6. CASE /\ \E m \in Missing(memory, addr, count) : TRUE
           /\ status' = "abort"
           /\ UNCHANGED <<xregs, ip>>
  <2>1. Machine!Mistake(i)
    BY <1>2, <1>4, <1>6, MissingIsMistake DEF addr, size
  <2>2. Machine!Trap
    BY <1>2, <1>6, SameViews, MachineTrap DEF Mode
  <2> QED BY <2>1, <2>2 DEF Instruction
<1>7. CASE /\ Missing(memory, addr, count) = {}
           /\ memory' = CopyBytes(memory, addr, count, Buf(count))
           /\ IF Spilling(memory, addr, count) = {} THEN UNCHANGED status ELSE Spill
           /\ xregs' = SetXReg(A0, Trunc(rc))
           /\ ip' = NextIp
  <2>1. Spilling(memory, addr, count) = {}
    BY <1>7 DEF Spilling, Missing, Overruns
  <2>2. UNCHANGED <<Mode, fregs, Frm, Flags>> /\ ip' = Machine!Mod(ip + 4)
    BY <1>2, <1>7, <2>1, SameViews, MachineWords
  <2>3. xregs' = [xregs EXCEPT ![A0] = xregs'[A0]]
    BY <1>3, <1>7, CallRegisters
  <2>4. SameLayout(memory, memory')
    BY <1>3, <1>4, <1>7, CopyKeepsLayout
  <2>5. ASSUME NEW y \in Address, Mem'[y] # Mem[y]
        PROVE  Machine!Mod(y - addr) < size /\ Mem[y] # -1
    <3>1. /\ Mem[y] = IF Fits(memory, y, 1) THEN ByteAt(memory, y) ELSE -1
          /\ Mem'[y] = IF Fits(memory', y, 1) THEN ByteAt(memory', y) ELSE -1
      BY DEF Mem
    <3>2. Fits(memory', y, 1) <=> Fits(memory, y, 1)
      BY <1>3, <2>4, LayoutDecides
    <3>3. Fits(memory, y, 1) /\ ByteAt(memory', y) # ByteAt(memory, y)
      BY <2>5, <3>1, <3>2
    <3>4. ByteAt(memory', y) = IF Wrap(y - addr) < count THEN Buf(count)[Wrap(y - addr)]
                               ELSE ByteAt(memory, y)
      BY <1>3, <1>4, <1>7, <3>3, CopiedByte
    <3>5. Wrap(y - addr) < count
      BY <3>3, <3>4
    <3>6. Machine!Mod(y - addr) = Wrap(y - addr)
      BY <1>3, ModIsWrap DEF Machine!Mod
    <3>7. Wrap(y - addr) \in Nat /\ size \in Nat
      <4>1. Wrap(y - addr) \in Address /\ size \in Address
        BY <1>3, WrapBack, Zenon
      <4> QED BY ONLY <4>1 DEF Address
    <3>8. Machine!Mod(y - addr) < size
      BY <1>4, <3>5, <3>6, <3>7
    <3>9. Mem[y] # -1
      <4>1. ByteAt(memory, y) \in Byte /\ -1 \notin Byte
        BY <1>3, <3>3, ByteAtIsByte, Sizes
      <4> QED BY <3>1, <3>3, <4>1
    <3> QED BY <3>8, <3>9
  <2>6. Machine!Call(i)
    BY <1>2, <1>3, <2>2, <2>3, <2>5, CallNumbers, MachineCall
  <2> QED BY <2>6 DEF Instruction
<1> QED BY <1>5, <1>6, <1>7
-----------------------------------------------------------------------------
(* The loop of Execute.                                                    *)

LEMMA CallbackMachine ==
  ASSUME Ready, NEW i \in Insn, Allowed(i), Callback(i)
  PROVE  Instruction(i)
<1>1. CASE Compute(i) \/ LUI(i) \/ AUIPC(i) \/ JAL(i) \/ FMoveToX(i) \/ FClass(i)
  BY <1>1, RegisterMachine DEF Instruction
<1>2. CASE JALR(i) \/ Branch(i) \/ NoOperation(i)
  BY <1>2, JumpMachine DEF Instruction
<1>3. CASE Load(i) \/ Store(i) \/ FStore(i) \/ Terminate(i)
  BY <1>3, LoadMachine, StoreMachine, TerminateMachine
<1>4. CASE Csr(i)
  BY <1>4, CsrMachine
<1>5. CASE FArith(i) \/ FCompare(i) \/ FToInteger(i) \/ FToFloat(i)
  BY <1>5, FArithMachine, FCompareMachine, FToIntegerMachine, FToFloatMachine
<1>6. CASE FSignInject(i) \/ FMoveToF(i) \/ FMinMax(i)
  BY <1>6, MoveMachine, FMinMaxMachine DEF Instruction
<1>7. CASE FLoad(i)
  BY <1>7, FLoadMachine
<1>8. CASE EcallExit(i) \/ EcallRead(i) \/ EcallWrite(i) \/ EcallUnknown(i)
  BY <1>8, ExitMachine, ReadMachine, WriteMachine, UnknownMachine DEF Instruction
<1> QED BY <1>1, <1>2, <1>3, <1>4, <1>5, <1>6, <1>7, <1>8 DEF Callback

LEMMA IterateMachine ==
  ASSUME Ready, Iterate, UNCHANGED Region, NDEBUG => ~ Mistaken
  PROVE  Machine!Next
<1>1. /\ ip \in Address /\ IInv /\ Unbroken(memory) /\ memory \in Seq(Segment)
      /\ Mode = "user"
  BY DEF Ready, IInv, TypeOK, Mode
<1>2. /\ Faults(ip, 4) <=> ~ Machine!Reaches(ip, 4)
      /\ Fits(memory, ip, 4) <=> Machine!Reaches(ip, 4)
  BY <1>1, FaultsAreMistakes DEF Mistaken, StepSize
<1>3. CASE Faults(ip, 4) /\ Abort
  BY <1>1, <1>2, <1>3, AbortIsTrap, MachineNext
<1>4. CASE ~ Faults(ip, 4) /\ \E b \in LoadReplies(memory, ip, 4) : Callback(Decode(Value(b, 4)))
  <2>1. PICK b \in LoadReplies(memory, ip, 4) : Callback(Decode(Value(b, 4)))
    BY <1>4
  <2>2. Machine!Reaches(ip, 4) /\ Fits(memory, ip, 4)
    BY <1>2, <1>4
  <2>3. Machine!MemValue(ip, 4) = Value(b, 4)
    BY <1>1, <2>2, MachineMemValue
  <2>4. Value(b, 4) \in Register
    <3>1. b \in Bytes(4)
      BY <1>1, LoadRepliesAreBytes
    <3> QED BY <3>1, ValueInRange
  <2>5. PICK i \in Insn : i = Decode(Machine!MemValue(ip, 4)) /\ Callback(i)
    BY <2>1, <2>3, <2>4, DecodeAssumption
  <2>6. Allowed(i)
    BY <2>5 DEF Allowed, Mistaken, StepSize
  <2>7. Instruction(i)
    BY <2>5, <2>6, CallbackMachine
  <2> QED BY <1>1, <2>2, <2>5, <2>7, MachineNext
<1> QED BY <1>3, <1>4 DEF Iterate, StepSize

LEMMA StepMachine ==
  ASSUME IInv, Unbroken(memory), [Next]_vars, NDEBUG => ~ Mistaken
  PROVE  [Machine!Next]_(Machine!vars)
<1>1. SameLayout(memory, memory') /\ memory \in Seq(Segment)
  BY NextKeepsLayout DEF IInv, TypeOK
<1>2. UNCHANGED Region
  BY <1>1, LayoutDecides DEF Region
<1>3. UNCHANGED <<Mode, ip, xregs, fregs, Frm, Flags, Mem, Region>> => UNCHANGED Machine!vars
  BY DEF Machine!vars, Mode, Frm, Flags, Mem, Region
<1>4. CASE Iterate
  BY <1>2, <1>4, IterateMachine DEF Ready, Iterate
<1>5. CASE Return
  <2>1. Mode' = Mode
    BY <1>5 DEF Return, Mode
  <2> QED BY <1>2, <1>3, <1>5, <2>1, SameViews DEF Return
<1>6. CASE UNCHANGED vars
  BY <1>2, <1>3, <1>6, SameViews DEF vars
<1> QED BY <1>4, <1>5, <1>6 DEF Next

FreshMachine == fcsr = 0 /\ status = "running" /\ should_stop = FALSE /\ xregs[0] = 0

LEMMA FreshMachineStarts == FreshMachine => Machine!Init
<1> SUFFICES ASSUME FreshMachine PROVE Machine!Init
  OBVIOUS
<1>1. fcsr = 0 /\ status = "running" /\ should_stop = FALSE /\ xregs[0] = 0
  BY DEF FreshMachine
<1>2. Mode = "user"
  BY <1>1 DEF Mode
<1>3. Frm = 0
  BY <1>1 DEF Frm
<1>4. Flags = {}
  <2>1. \A k \in 0 .. 4 : k = 0 \/ k = 1 \/ k = 2 \/ k = 3 \/ k = 4
    OBVIOUS
  <2>2. (0 \div 1) % 2 = 0 /\ (0 \div 2) % 2 = 0 /\ (0 \div 4) % 2 = 0
        /\ (0 \div 8) % 2 = 0 /\ (0 \div 16) % 2 = 0 /\ 0 # 1
    OBVIOUS
  <2>3. \A k \in 0 .. 4 : ~ IsFlag(0, k)
    BY <2>1, <2>2, FlagsByNumber, Zenon
  <2> QED BY <1>1, <2>3, FlagSetIsFlags
<1> QED BY <1>1, <1>2, <1>3, <1>4 DEF Machine!Init, Mode, Frm, Flags

LEMMA InitMachine == Init => Machine!Init
<1>1. Init => FreshMachine
  BY DEF Init, FreshMachine
<1> QED BY <1>1, FreshMachineStarts

LEMMA AlwaysUnbroken ==
  ASSUME \A image \in Images : Unbroken(image)
  PROVE  Spec => []Unbroken(memory)
<1>1. Init => Unbroken(memory)
  BY DEF Init
<1>2. IInv /\ Unbroken(memory) /\ [Next]_vars => Unbroken(memory)'
  <2> SUFFICES ASSUME IInv, Unbroken(memory), [Next]_vars PROVE Unbroken(memory')
    OBVIOUS
  <2>1. SameLayout(memory, memory') /\ memory \in Seq(Segment)
    BY NextKeepsLayout DEF IInv, TypeOK
  <2> QED BY <2>1, SameLayoutIsUnbroken
<1> QED BY <1>1, <1>2, AlwaysIInv, PTL DEF Spec

(* In any build, from images without broken segments, every step is an     *)
(* instruction of the architecture, unless an assert was left out that     *)
(* would have stopped it: asserts are all that the builds differ in.  This *)
(* holds of every step by itself, also of those after a mistake that went  *)
(* unnoticed, as no access moves a segment.                                *)
THEOREM BuildsAgreeOnCorrectGuests ==
  ASSUME \A image \in Images : Unbroken(image)
  PROVE  Spec => InstructionsAreIsa
<1>1. IInv /\ Unbroken(memory) /\ [Next]_vars =>
        [(NDEBUG /\ Mistaken) \/ [Machine!Next]_(Machine!vars)]_vars
  BY StepMachine
<1> QED BY <1>1, AlwaysIInv, AlwaysUnbroken, PTL DEF Spec, InstructionsAreIsa

(* A build with asserts, started from images without broken segments, does *)
(* what the flat machine of module Isa does: what a guest can read of the  *)
(* segment list, of the two globals of softfloat and of the order in which *)
(* a callback reads and writes registers and CSRs is exactly that machine  *)
(* (RVSim::Execute and every callback).                                    *)
THEOREM ExecuteImplementsIsa ==
  ASSUME ~ NDEBUG, \A image \in Images : Unbroken(image)
  PROVE  Spec => ImplementsIsa
<1>1. IInv /\ Unbroken(memory) /\ [Next]_vars => [Machine!Next]_(Machine!vars)
  BY StepMachine
<1> QED BY <1>1, InitMachine, AlwaysIInv, AlwaysUnbroken, PTL
        DEF Spec, ImplementsIsa, Machine!Spec
=============================================================================
