----------------------------- MODULE MainProofs -----------------------------
(***************************************************************************)
(* Proofs about Main, for every set of files and command lines and every   *)
(* place of the stack: the state stays typed from main to the guest's last *)
(* instruction, the guest starts with the file in memory                   *)
(* (FileIsInMemory), with its arguments on the stack and in the argv       *)
(* segment (ArgumentsAreThere), and on the machine it was compiled for     *)
(* (GuestRunsOnIsa).                                                       *)
(***************************************************************************)
EXTENDS Main, RVSimProofs

-----------------------------------------------------------------------------
(* CopyArgv.                                                               *)

(* The recursion of ArgvOffset has a solution, and so is one.              *)
LEMMA OffsetSteps ==
  ASSUME NEW S, NEW args \in Seq(Seq(S))
  PROVE  /\ Len(args) \in Nat /\ \A k \in 1 .. Len(args) : Len(args[k]) \in Nat
         /\ \A k \in 1 .. Len(args) + 1 : ArgvOffset(args)[k] \in Nat
         /\ ArgvOffset(args)[1] = 0
         /\ \A k \in 1 .. Len(args) :
              ArgvOffset(args)[k + 1] = ArgvOffset(args)[k] + Len(args[k]) + 1
<1> DEFINE After(f, k) == IF k = 1 THEN 0 ELSE f[k - 1] + Len(args[k - 1]) + 1
           IsOffset(f, n) == /\ f \in [1 .. n + 1 -> Nat]
                             /\ \A k \in 1 .. n + 1 : f[k] = After(f, k)
           N == {n \in Nat : n <= Len(args) => \E f : IsOffset(f, n)}
<1>0. Len(args) \in Nat /\ \A k \in 1 .. Len(args) : Len(args[k]) \in Nat
  OBVIOUS
<1>1. 0 \in N
  <2>1. IsOffset([k \in 1 .. 1 |-> 0], 0)
    OBVIOUS
  <2> QED BY <2>1
<1>2. ASSUME NEW n \in Nat, n \in N PROVE n + 1 \in N
  <2> HIDE DEF IsOffset
  <2> SUFFICES ASSUME n + 1 <= Len(args) PROVE \E f : IsOffset(f, n + 1)
    OBVIOUS
  <2>1. PICK f : IsOffset(f, n)
    BY <1>0, <1>2
  <2> DEFINE next == f[n + 1] + Len(args[n + 1]) + 1
             g == [k \in 1 .. n + 2 |-> IF k = n + 2 THEN next ELSE f[k]]
  <2>2. next \in Nat
    BY <1>0, <2>1 DEF IsOffset
  <2>3. g \in [1 .. n + 2 -> Nat]
    BY <2>1, <2>2 DEF IsOffset
  <2>4. ASSUME NEW k \in 1 .. n + 2 PROVE g[k] = After(g, k)
    <3>1. CASE k = n + 2
      BY <3>1
    <3>2. CASE k # n + 2
      BY <2>1, <3>2 DEF IsOffset
    <3> QED BY <3>1, <3>2
  <2>5. IsOffset(g, n + 1)
    <3> HIDE DEF g, After
    <3>1. (n + 1) + 1 = n + 2
      OBVIOUS
    <3> QED BY <2>3, <2>4, <3>1 DEF IsOffset
  <2> QED BY <2>5
<1>3. PICK f : IsOffset(f, Len(args))
  <2> HIDE DEF N
  <2>1. Len(args) \in N
    BY <1>0, <1>1, <1>2, SetInduction
  <2> QED BY <2>1, <1>0 DEF N
<1>4. ArgvOffset(args) = [k \in 1 .. Len(args) + 1 |-> After(ArgvOffset(args), k)]
  <2>1. f = [k \in 1 .. Len(args) + 1 |-> After(f, k)]
    BY <1>3
  <2> QED BY <2>1 DEF ArgvOffset
<1> DEFINE offset == ArgvOffset(args)
<1> HIDE DEF offset
<1>5. DOMAIN offset = 1 .. Len(args) + 1 /\ \A k \in 1 .. Len(args) + 1 : offset[k] = After(offset, k)
  BY <1>4 DEF offset
<1>6. \A k \in 1 .. Len(args) + 1 : offset[k] \in Nat
  <2> DEFINE T == {n \in Nat : n <= Len(args) => offset[n + 1] \in Nat}
  <2>1. 0 \in T
    BY <1>0, <1>5
  <2>2. ASSUME NEW n \in Nat, n \in T PROVE n + 1 \in T
    <3> SUFFICES ASSUME n + 1 <= Len(args) PROVE offset[(n + 1) + 1] \in Nat
      OBVIOUS
    <3>1. offset[n + 1] \in Nat /\ Len(args[n + 1]) \in Nat
      BY <1>0, <2>2
    <3>2. offset[n + 2] = offset[n + 1] + Len(args[n + 1]) + 1
      BY <1>0, <1>5
    <3> QED BY <3>1, <3>2
  <2> HIDE DEF T
  <2>3. Nat \subseteq T
    BY <2>1, <2>2, SetInduction
  <2>4. ASSUME NEW k \in 1 .. Len(args) + 1 PROVE offset[k] \in Nat
    <3>1. k - 1 \in T /\ k - 1 <= Len(args) /\ (k - 1) + 1 = k
      BY <1>0, <2>3
    <3> QED BY <3>1 DEF T
  <2> QED BY <2>4
<1>7. ASSUME NEW k \in 1 .. Len(args) PROVE offset[k + 1] = offset[k] + Len(args[k]) + 1
  BY <1>0, <1>5
<1>8. offset[1] = 0
  BY <1>0, <1>5
<1> QED BY <1>0, <1>6, <1>7, <1>8 DEF offset

(* The strings lie one after the other.                                    *)
LEMMA OffsetsGrow ==
  ASSUME NEW S, NEW args \in Seq(Seq(S)), NEW j \in 1 .. Len(args),
         NEW k \in j + 1 .. Len(args) + 1
  PROVE  ArgvOffset(args)[j + 1] <= ArgvOffset(args)[k]
<1> DEFINE offset == ArgvOffset(args)
           T == {n \in Nat : n <= Len(args) - j => offset[j + 1] <= offset[j + 1 + n]}
<1>1. /\ Len(args) \in Nat /\ \A l \in 1 .. Len(args) : Len(args[l]) \in Nat
      /\ \A l \in 1 .. Len(args) + 1 : offset[l] \in Nat
      /\ \A l \in 1 .. Len(args) : offset[l + 1] = offset[l] + Len(args[l]) + 1
  BY OffsetSteps
<1> HIDE DEF offset
<1>2. 0 \in T
  <2>1. j + 1 \in 1 .. Len(args) + 1 /\ j + 1 + 0 = j + 1
    BY ONLY <1>1, j \in 1 .. Len(args)
  <2>2. offset[j + 1] \in Nat
    BY ONLY <1>1, <2>1
  <2>3. offset[j + 1] <= offset[j + 1 + 0]
    BY ONLY <2>1, <2>2
  <2> QED BY ONLY <2>3
<1>3. ASSUME NEW n \in Nat, n \in T PROVE n + 1 \in T
  <2> SUFFICES ASSUME n + 1 <= Len(args) - j PROVE offset[j + 1] <= offset[j + 1 + (n + 1)]
    OBVIOUS
  <2> DEFINE l == j + 1 + n
  <2>1. l \in 1 .. Len(args) /\ l + 1 = j + 1 + (n + 1) /\ j + 1 \in 1 .. Len(args)
    BY ONLY <1>1, n \in Nat, n + 1 <= Len(args) - j, j \in 1 .. Len(args)
  <2>2. offset[j + 1] <= offset[l]
    <3>1. n <= Len(args) - j
      BY ONLY <1>1, n \in Nat, n + 1 <= Len(args) - j, j \in 1 .. Len(args)
    <3> QED BY ONLY <1>3, <3>1
  <2> HIDE DEF l
  <2>3. offset[l + 1] = offset[l] + Len(args[l]) + 1
    BY ONLY <1>1, <2>1
  <2>4. offset[j + 1] <= offset[l + 1]
    <3>1. l \in 1 .. Len(args) + 1 /\ j + 1 \in 1 .. Len(args) + 1
      BY ONLY <1>1, <2>1
    <3>2. offset[j + 1] \in Nat /\ offset[l] \in Nat /\ Len(args[l]) \in Nat
      BY ONLY <1>1, <2>1, <3>1
    <3> QED BY ONLY <2>2, <2>3, <3>2
  <2> QED BY ONLY <2>1, <2>4
<1> HIDE DEF T
<1>4. k - j - 1 \in Nat /\ k - j - 1 <= Len(args) - j /\ j + 1 + (k - j - 1) = k
  BY <1>1
<1>5. k - j - 1 \in T
  BY <1>2, <1>3, <1>4, SetInduction
<1> QED BY <1>4, <1>5 DEF T, offset

(* A place of the segment is in one string or its terminator.              *)
LEMMA PlaceOf ==
  ASSUME NEW S, NEW args \in Seq(Seq(S)), NEW p \in 1 .. SizeOfArgv(args)
  PROVE  \E k \in 1 .. Len(args) : ArgvOffset(args)[k] < p /\ p <= ArgvOffset(args)[k + 1]
<1> DEFINE offset == ArgvOffset(args)
           T == {n \in Nat : n <= Len(args) /\ p <= offset[n + 1]
                               => \E k \in 1 .. Len(args) : offset[k] < p /\ p <= offset[k + 1]}
<1>1. /\ Len(args) \in Nat /\ offset[1] = 0
      /\ \A l \in 1 .. Len(args) + 1 : offset[l] \in Nat
      /\ p \in Nat /\ p > 0 /\ p <= offset[Len(args) + 1]
  <2>1. SizeOfArgv(args) = offset[Len(args) + 1]
    BY DEF SizeOfArgv
  <2> QED BY <2>1, OffsetSteps
<1> HIDE DEF offset
<1>2. 0 \in T
  BY <1>1
<1>3. ASSUME NEW n \in Nat, n \in T PROVE n + 1 \in T
  <2> SUFFICES ASSUME n + 1 <= Len(args), p <= offset[(n + 1) + 1]
               PROVE  \E k \in 1 .. Len(args) : offset[k] < p /\ p <= offset[k + 1]
    OBVIOUS
  <2>1. n + 1 \in 1 .. Len(args) /\ offset[n + 1] \in Nat
    BY <1>1
  <2>2. CASE p <= offset[n + 1]
    BY <1>1, <1>3, <2>2
  <2>3. CASE ~ (p <= offset[n + 1])
    BY <1>1, <2>1, <2>3
  <2> QED BY <2>2, <2>3
<1> HIDE DEF T
<1>4. Len(args) \in T
  BY <1>1, <1>2, <1>3, SetInduction
<1> QED BY <1>1, <1>4 DEF T, offset

-----------------------------------------------------------------------------
(* The segments the guest starts with.                                     *)

USE AddressAssumption, RVSimAssumption DEF floats, softfloat, host

LEMMA Layout ==
  /\ kStackTop \in Nat /\ kStackSize \in Nat /\ kStackBase \in Nat
  /\ kStackTop = kStackBase + kStackSize
  /\ kArgvBase = kStackTop + 4
  /\ kArgvBase < AddrMod
BY BootAssumption DEF kStackBase, kArgvBase, Address

LEMMA Strings ==
  ASSUME NEW args \in CommandLines
  PROVE  args \in Seq(Seq(Byte))
BY BootAssumption

(* The argv segment holds each string and its terminator at its offset.    *)
LEMMA ArgvDataHolds ==
  ASSUME NEW args \in Seq(Seq(Byte)), NEW k \in 1 .. Len(args), NEW c \in 1 .. Len(args[k]) + 1
  PROVE  /\ ArgvOffset(args)[k] + c \in 1 .. SizeOfArgv(args)
         /\ ArgvData(args)[ArgvOffset(args)[k] + c] = IF c <= Len(args[k]) THEN args[k][c] ELSE ZeroByte
<1> DEFINE offset == ArgvOffset(args)
           p == offset[k] + c
           At(l) == offset[l] < p /\ p <= offset[l + 1]
<1>1. /\ Len(args) \in Nat /\ \A l \in 1 .. Len(args) : Len(args[l]) \in Nat
      /\ \A l \in 1 .. Len(args) + 1 : offset[l] \in Nat
      /\ \A l \in 1 .. Len(args) : offset[l + 1] = offset[l] + Len(args[l]) + 1
  BY OffsetSteps
<1>2. \A j \in 1 .. Len(args) : \A l \in j + 1 .. Len(args) + 1 : offset[j + 1] <= offset[l]
  BY OffsetsGrow
<1>3. SizeOfArgv(args) = offset[Len(args) + 1]
  BY DEF SizeOfArgv
<1> HIDE DEF offset
<1>4. /\ offset[k] \in Nat /\ Len(args[k]) \in Nat /\ c \in 1 .. Len(args[k]) + 1
      /\ offset[k + 1] = offset[k] + Len(args[k]) + 1
      /\ At(k) /\ p \in Nat
  <2>1. k \in 1 .. Len(args) + 1
    BY ONLY <1>1, k \in 1 .. Len(args)
  <2>2. offset[k] \in Nat /\ Len(args[k]) \in Nat
    BY <1>1, <2>1
  <2>3. offset[k + 1] = offset[k] + Len(args[k]) + 1
    BY <1>1
  <2> QED BY ONLY <2>2, <2>3, c \in 1 .. Len(args[k]) + 1
<1>5. p \in 1 .. SizeOfArgv(args)
  <2> DEFINE n == Len(args) + 1
  <2>1. n \in k + 1 .. n /\ n \in 1 .. n
    BY <1>1
  <2>2. offset[k + 1] <= offset[n] /\ offset[n] \in Nat
    BY <1>1, <1>2, <2>1
  <2> QED BY ONLY <1>3, <1>4, <2>2
<1>6. ASSUME NEW l \in 1 .. Len(args), At(l) PROVE l = k
  <2>0. {offset[l], offset[l + 1], offset[k], offset[k + 1]} \subseteq Nat
    <3>1. {l, l + 1, k, k + 1} \subseteq 1 .. Len(args) + 1
      BY ONLY <1>1, k \in 1 .. Len(args), l \in 1 .. Len(args)
    <3> QED BY ONLY <1>1, <3>1
  <2>4. p \in Nat /\ At(k) /\ At(l)
    BY <1>4, <1>6
  <2> HIDE DEF p
  <2>1. CASE l < k
    <3>1. k \in l + 1 .. Len(args) + 1
      BY ONLY <1>1, <2>1, k \in 1 .. Len(args), l \in 1 .. Len(args)
    <3>2. offset[l + 1] <= offset[k]
      BY ONLY <1>2, <3>1, l \in 1 .. Len(args)
    <3> QED BY ONLY <2>0, <2>4, <3>2
  <2>2. CASE k < l
    <3>1. l \in k + 1 .. Len(args) + 1
      BY ONLY <1>1, <2>2, k \in 1 .. Len(args), l \in 1 .. Len(args)
    <3>2. offset[k + 1] <= offset[l]
      BY ONLY <1>2, <3>1, k \in 1 .. Len(args)
    <3> QED BY ONLY <2>0, <2>4, <3>2
  <2> QED BY <2>1, <2>2
<1>7. (CHOOSE l \in DOMAIN args : At(l)) = k
  BY <1>1, <1>4, <1>6
<1>8. p - offset[k] = c
  BY ONLY <1>4
<1>9. ArgvData(args)[p] = IF c <= Len(args[k]) THEN args[k][c] ELSE ZeroByte
  <2>1. ArgvData(args)[p] =
          LET l == CHOOSE m \in DOMAIN args : At(m)
          IN  IF p - offset[l] <= Len(args[l]) THEN args[l][p - offset[l]] ELSE ZeroByte
    BY <1>5 DEF ArgvData, offset
  <2> HIDE DEF p
  <2> QED BY ONLY <1>7, <1>8, <2>1
<1> QED BY <1>5, <1>9 DEF offset

LEMMA ArgvDataIsTyped ==
  ASSUME NEW args \in Seq(Seq(Byte))
  PROVE  /\ SizeOfArgv(args) \in Nat
         /\ ArgvData(args) \in Seq(Byte)
         /\ Len(ArgvData(args)) = SizeOfArgv(args)
<1>1. SizeOfArgv(args) \in Nat
  BY OffsetSteps DEF SizeOfArgv
<1>2. ASSUME NEW p \in 1 .. SizeOfArgv(args) PROVE ArgvData(args)[p] \in Byte
  <2>1. PICK k \in 1 .. Len(args) : ArgvOffset(args)[k] < p /\ p <= ArgvOffset(args)[k + 1]
    BY PlaceOf
  <2> DEFINE c == p - ArgvOffset(args)[k]
  <2>2. c \in 1 .. Len(args[k]) + 1 /\ p = ArgvOffset(args)[k] + c
    <3>1. /\ ArgvOffset(args)[k] \in Nat /\ Len(args[k]) \in Nat /\ p \in Nat
          /\ ArgvOffset(args)[k + 1] = ArgvOffset(args)[k] + Len(args[k]) + 1
      <4>1. Len(args) \in Nat
        BY OffsetSteps
      <4>2. k \in 1 .. Len(args) + 1
        BY <4>1
      <4> QED BY <1>1, <4>2, OffsetSteps
    <3> QED BY ONLY <2>1, <3>1
  <2> HIDE DEF c
  <2>3. ArgvData(args)[p] = IF c <= Len(args[k]) THEN args[k][c] ELSE ZeroByte
    BY <2>2, ArgvDataHolds
  <2>4. c <= Len(args[k]) => args[k][c] \in Byte
    BY <2>2
  <2> QED BY <2>3, <2>4
<1>3. ArgvData(args) \in [1 .. SizeOfArgv(args) -> Byte]
  BY <1>2 DEF ArgvData
<1> QED BY <1>1, <1>3

LEMMA ZeroIsByte == ZeroByte \in Byte /\ ZeroByte = 0 /\ AddrMod \in Nat
OBVIOUS

LEMMA MadeOfRange ==
  ASSUME NEW lo \in Address, NEW hi \in Address, NEW d \in Seq(Byte), Len(d) < AddrMod
  PROVE  [start |-> lo, end |-> hi, data |-> d] \in Segment
BY ONLY Len(d) < AddrMod DEF Segment

LEMMA LoadedSegmIsSegment ==
  ASSUME NEW h \in Header
  PROVE  LoadedSegm(h) \in Segment
<1> DEFINE data == [p \in 1 .. h.mem_size |-> IF p <= Len(h.data) THEN h.data[p] ELSE ZeroByte]
<1>1. /\ h.start \in Address /\ h.mem_size \in Address /\ h.data \in Seq(Byte)
  BY DEF Header
<1>2. h.mem_size \in Nat /\ h.mem_size < AddrMod /\ h.start + h.mem_size \in Int
  BY ONLY <1>1, AddressAssumption DEF Address
<1>3. ASSUME NEW p \in 1 .. h.mem_size
      PROVE  (IF p <= Len(h.data) THEN h.data[p] ELSE ZeroByte) \in Byte
  BY ONLY <1>1, ZeroIsByte
<1>4. data \in [1 .. h.mem_size -> Byte]
  BY <1>3
<1> HIDE DEF data
<1>5. data \in Seq(Byte) /\ Len(data) = h.mem_size
  BY ONLY <1>2, <1>4
<1>6. LoadedSegm(h) = [start |-> h.start, end |-> Trunc(h.start + h.mem_size), data |-> data]
  BY DEF LoadedSegm, data
<1>7. Trunc(h.start + h.mem_size) \in Address
  BY <1>2, TruncIsRegister DEF Register
<1> QED BY <1>1, <1>2, <1>5, <1>6, <1>7, MadeOfRange

LEMMA ArgvSegmIsSegment ==
  ASSUME NEW args \in CommandLines
  PROVE  ArgvSegm(args) \in Segment
<1>1. args \in Seq(Seq(Byte)) /\ kArgvBase + SizeOfArgv(args) + 4 < AddrMod
  BY Strings, CommandLineAssumption
<1>2. /\ SizeOfArgv(args) \in Nat
      /\ ArgvData(args) \in Seq(Byte)
      /\ Len(ArgvData(args)) = SizeOfArgv(args)
  BY <1>1, ArgvDataIsTyped
<1>3. kArgvBase \in Nat /\ kArgvBase \in Address /\ AddrMod \in Nat
  BY BootAssumption, ZeroIsByte DEF Address
<1>4. kArgvBase + SizeOfArgv(args) + 4 \in Int /\ SizeOfArgv(args) < AddrMod
  BY ONLY <1>1, <1>2, <1>3
<1>5. Trunc(kArgvBase + SizeOfArgv(args) + 4) \in Address
  BY <1>4, TruncIsRegister DEF Register
<1> QED BY <1>2, <1>3, <1>4, <1>5 DEF ArgvSegm, Segment

(* A segment of the range lo .. hi - 1, not cut, with its vector.          *)
LEMMA ArgvRange ==
  ASSUME NEW args \in CommandLines
  PROVE  /\ SizeOfArgv(args) \in Nat
         /\ ArgvSegm(args).start = kArgvBase
         /\ ArgvSegm(args).end = kArgvBase + SizeOfArgv(args) + 4
         /\ ArgvSegm(args).data = ArgvData(args)
         /\ Size(ArgvSegm(args)) = SizeOfArgv(args)
<1>1. /\ args \in Seq(Seq(Byte)) /\ kArgvBase + SizeOfArgv(args) + 4 < AddrMod
      /\ kArgvBase \in Nat /\ AddrMod \in Nat \ {0}
  BY Strings, CommandLineAssumption, BootAssumption, AddressAssumption DEF Address
<1>2. SizeOfArgv(args) \in Nat /\ Len(ArgvData(args)) = SizeOfArgv(args)
  BY <1>1, ArgvDataIsTyped
<1>3. Trunc(kArgvBase + SizeOfArgv(args) + 4) = kArgvBase + SizeOfArgv(args) + 4
  <2>1. kArgvBase + SizeOfArgv(args) + 4 \in Address
    BY ONLY <1>1, <1>2 DEF Address
  <2> QED BY <2>1, TruncOfAddress
<1> QED BY <1>2, <1>3 DEF ArgvSegm, Size

-----------------------------------------------------------------------------
(* The table of the arguments, on the stack.                               *)

LEMMA TableFits ==
  ASSUME NEW args \in CommandLines, ~ TableUnderruns(args)
  PROVE  /\ Len(args) \in Nat /\ TableSize(args) \in Nat
         /\ TableSize(args) = 4 * (Len(args) + 2)
         /\ TableSize(args) <= kStackSize
<1>1. Len(args) \in Nat
  BY Strings
<1> QED BY ONLY <1>1, Layout, ~ TableUnderruns(args) DEF TableUnderruns, TableSize

LEMMA TableWords ==
  ASSUME NEW args \in CommandLines, ~ TableUnderruns(args), NEW j \in 1 .. Len(args) + 2
  PROVE  ArgvTable(args)[j] \in Register
<1>1. /\ Len(args) \in Nat /\ 4 * (Len(args) + 2) <= kStackSize
      /\ args \in Seq(Seq(Byte)) /\ kArgvBase + SizeOfArgv(args) + 4 < AddrMod
  BY TableFits, Strings, CommandLineAssumption
<1>2. ArgvTable(args)[j] = IF j = 1 THEN Len(args)
                           ELSE IF j = Len(args) + 2 THEN 0
                           ELSE kArgvBase + ArgvOffset(args)[j - 1]
  BY DEF ArgvTable
<1>3. CASE j = 1 \/ j = Len(args) + 2
  BY ONLY <1>1, <1>2, <1>3, Layout, ZeroIsByte DEF Register, Address
<1>4. CASE j # 1 /\ j # Len(args) + 2
  <2>1. j - 1 \in 1 .. Len(args)
    BY ONLY <1>1, <1>4, j \in 1 .. Len(args) + 2
  <2>2. ArgvOffset(args)[j - 1] + 1 \in 1 .. SizeOfArgv(args)
    <3>1. Len(args[j - 1]) \in Nat
      BY <1>1, <2>1
    <3>2. 1 \in 1 .. Len(args[j - 1]) + 1
      BY ONLY <3>1
    <3> QED BY <1>1, <2>1, <3>2, ArgvDataHolds
  <2>3. ArgvOffset(args)[j - 1] \in Nat /\ SizeOfArgv(args) \in Nat
    <3>1. j - 1 \in 1 .. Len(args) + 1
      BY ONLY <1>1, <2>1
    <3> QED BY <1>1, <3>1, OffsetSteps, ArgvRange
  <2> QED BY ONLY <1>1, <1>2, <1>4, <2>2, <2>3, Layout, ZeroIsByte DEF Register, Address
<1> QED BY <1>3, <1>4

(* The byte at place p of the stack: the table is at its end.              *)
LEMMA StackData ==
  ASSUME NEW args \in CommandLines, ~ TableUnderruns(args)
  PROVE  /\ StackSegm(args) \in Segment
         /\ StackSegm(args).start = kStackBase /\ StackSegm(args).end = kStackTop
         /\ Size(StackSegm(args)) = kStackSize
         /\ \A j \in 0 .. Len(args) + 1 : \A i \in 0 .. 3 :
              StackSegm(args).data[kStackSize - TableSize(args) + 4 * j + i + 1]
                = LowBytes(ArgvTable(args)[j + 1], 4)[i]
<1> DEFINE first == kStackSize - TableSize(args)
           word(p) == ((p - first - 1) \div 4) + 1
           byte(p) == IF p <= first THEN ZeroByte
                      ELSE LowBytes(ArgvTable(args)[word(p)], 4)[(p - first - 1) % 4]
           data == [p \in 1 .. kStackSize |-> byte(p)]
<1>1. /\ Len(args) \in Nat /\ TableSize(args) = 4 * (Len(args) + 2)
      /\ first \in Nat /\ kStackSize \in Nat /\ first = kStackSize - 4 * (Len(args) + 2)
  BY ONLY TableFits, Layout, args \in CommandLines, ~ TableUnderruns(args)
<1>2. StackSegm(args) = [start |-> kStackBase, end |-> kStackTop, data |-> data]
  BY DEF StackSegm
<1> HIDE DEF first
<1>3. ASSUME NEW p \in 1 .. kStackSize, ~ (p <= first)
      PROVE  word(p) \in 1 .. Len(args) + 2 /\ (p - first - 1) % 4 \in 0 .. 3
  BY ONLY <1>1, <1>3
<1>4. ASSUME NEW p \in 1 .. kStackSize PROVE byte(p) \in Byte
  <2>1. CASE p <= first
    BY <2>1, ZeroIsByte
  <2>2. CASE ~ (p <= first)
    <3>1. word(p) \in 1 .. Len(args) + 2 /\ (p - first - 1) % 4 \in 0 .. 3
      BY <1>3, <2>2
    <3>2. ArgvTable(args)[word(p)] \in Register
      BY <3>1, TableWords
    <3> HIDE DEF word
    <3>3. LowBytes(ArgvTable(args)[word(p)], 4) \in [0 .. 3 -> Byte]
      BY <3>2, LowBytesAreBytes DEF Bytes
    <3> QED BY <2>2, <3>1, <3>3
  <2> QED BY <2>1, <2>2
<1>5. ASSUME NEW j \in 0 .. Len(args) + 1, NEW i \in 0 .. 3
      PROVE  data[first + 4 * j + i + 1] = LowBytes(ArgvTable(args)[j + 1], 4)[i]
  <2> DEFINE p == first + 4 * j + i + 1
  <2>1. /\ p \in 1 .. kStackSize /\ ~ (p <= first)
        /\ p - first - 1 = 4 * j + i
    BY ONLY <1>1, j \in 0 .. Len(args) + 1, i \in 0 .. 3
  <2>2. (4 * j + i) \div 4 = j /\ (4 * j + i) % 4 = i
    BY ONLY <1>1, j \in 0 .. Len(args) + 1, i \in 0 .. 3
  <2> HIDE DEF p
  <2> QED BY <2>1, <2>2 DEF p
<1>6. data \in [1 .. kStackSize -> Byte]
  <2> HIDE DEF byte
  <2> QED BY <1>4
<1> HIDE DEF data
<1>7. data \in Seq(Byte) /\ Len(data) = kStackSize
  BY ONLY <1>1, <1>6
<1>8. kStackBase \in Address /\ kStackTop \in Address /\ kStackSize < AddrMod
  BY ONLY Layout, ZeroIsByte DEF Address
<1>9. StackSegm(args) \in Segment
  BY <1>2, <1>7, <1>8, MadeOfRange
<1> QED BY <1>2, <1>5, <1>7, <1>9 DEF Size, first

-----------------------------------------------------------------------------
(* The registers and the memory the guest starts with.                     *)

LEMMA LastOfSome ==
  ASSUME NEW n \in Nat, NEW found \in SUBSET (1 .. n), found # {}
  PROVE  \E k \in found : \A l \in found : l <= k
<1> DEFINE Upto(m) == (\E k \in found : k <= m) =>
                        \E k \in found : k <= m /\ \A l \in found : l <= m => l <= k
           T == {m \in Nat : Upto(m)}
<1>1. 0 \in T
  OBVIOUS
<1>2. ASSUME NEW m \in Nat, m \in T PROVE m + 1 \in T
  <2>1. CASE m + 1 \in found
    BY <2>1
  <2>2. CASE m + 1 \notin found
    <3>1. \A k \in found : k <= m + 1 <=> k <= m
      BY <2>2
    <3> QED BY <1>2, <3>1
  <2> QED BY <2>1, <2>2
<1> HIDE DEF T
<1>3. n \in T
  BY <1>1, <1>2, SetInduction
<1>4. (\E k \in found : k <= n) /\ \A l \in found : l <= n
  <2>1. PICK k \in found : TRUE
    BY ONLY found # {}
  <2>2. \A l \in found : l <= n
    BY ONLY found \in SUBSET (1 .. n), n \in Nat
  <2> QED BY ONLY <2>1, <2>2
<1>5. \E k \in found : k <= n /\ \A l \in found : l <= n => l <= k
  BY <1>3, <1>4 DEF T
<1> QED BY <1>4, <1>5

LEMMA GlobalPointerIsAddress ==
  ASSUME NEW file \in Elf
  PROVE  GlobalPointer(file) \in Register
<1> DEFINE found == {k \in DOMAIN file.symtabs : file.symtabs[k] # NoSymbol}
<1>1. file.symtabs \in Seq(Address \union {NoSymbol})
  BY DEF Elf
<1>2. 0 \in Register
  BY ONLY AddressAssumption DEF Register, Address
<1>3. CASE found = {}
  BY <1>2, <1>3 DEF GlobalPointer
<1>4. CASE found # {}
  <2> DEFINE k == CHOOSE m \in found : \A l \in found : l <= m
  <2>1. Len(file.symtabs) \in Nat /\ found \in SUBSET (1 .. Len(file.symtabs))
    BY ONLY <1>1
  <2>2. k \in found
    <3> HIDE DEF found
    <3> QED BY <1>4, <2>1, LastOfSome
  <2>3. file.symtabs[k] \in Address
    <3> HIDE DEF k
    <3> QED BY <1>1, <2>2
  <2>4. GlobalPointer(file) = file.symtabs[k]
    BY <1>4 DEF GlobalPointer
  <2> QED BY <2>3, <2>4 DEF Register
<1> QED BY <1>3, <1>4

LEMMA BootRegistersAreTyped ==
  ASSUME NEW args \in CommandLines, NEW global_ptr \in Register
  PROVE  /\ BootRegisters(args, global_ptr) \in [XReg -> Register]
         /\ BootRegisters(args, global_ptr)[0] = 0
<1>1. SP \in XReg \ {0} /\ GP \in XReg \ {0} /\ 0 \in Register
  BY BootAssumption, Sizes DEF Register, Address
<1>2. kStackTop - TableSize(args) \in Int
  <2>1. Len(args) \in Nat
    BY Strings
  <2> QED BY ONLY <2>1, Layout DEF TableSize
<1>3. Trunc(kStackTop - TableSize(args)) \in Register
  BY <1>2, TruncIsRegister
<1>4. 0 \in XReg
  BY ONLY <1>1, RVSimAssumption DEF XReg
<1> QED BY ONLY <1>1, <1>3, <1>4, global_ptr \in Register DEF BootRegisters

(* The segments of the file, then the stack, then the strings.             *)
LEMMA BootMemoryList ==
  ASSUME NEW file \in Seq(Segment), NEW args \in CommandLines, ~ TableUnderruns(args)
  PROVE  LET mem == BootMemory(file, args)
             n == Len(file)
         IN  /\ n \in Nat
             /\ mem \in Seq(Segment)
             /\ Len(mem) = n + 2
             /\ \A k \in 1 .. n : mem[k] = file[k]
             /\ mem[n + 1] = StackSegm(args)
             /\ mem[n + 2] = ArgvSegm(args)
<1>1. StackSegm(args) \in Segment /\ ArgvSegm(args) \in Segment
  BY StackData, ArgvSegmIsSegment
<1> QED BY <1>1 DEF BootMemory

-----------------------------------------------------------------------------
(* The state of main.                                                      *)

(* Which header each segment was made from: every loadable one among those *)
(* that the loop has passed, in the order of the file.                     *)
LoadedFrom(origin) ==
  /\ origin \in [DOMAIN segms -> 1 .. header - 1]
  /\ \A s, t \in DOMAIN segms : s < t => origin[s] < origin[t]
  /\ \A s \in DOMAIN segms : segms[s] = LoadedSegm(File.segments[origin[s]])
  /\ \A k \in 1 .. header - 1 :
       File.segments[k].type = "PT_LOAD" <=> \E s \in DOMAIN segms : origin[s] = k

(* The arguments name a file from the check on, and the list of segments   *)
(* is what LoadElf has made of it so far.                                  *)
LoadInv ==
  /\ argv # << >>
  /\ argv[1] \in DOMAIN Files
  /\ header \in 1 .. Len(File.segments) + 1
  /\ \E origin : LoadedFrom(origin)

MainInv ==
  /\ IInv
  /\ stage \in Stages
  /\ argv \in CommandLines
  /\ segms \in Seq(Segment)
  /\ header \in Nat
  /\ stage \in {"check", "open"} => segms = << >> /\ header = 1
  /\ stage = "open" => argv # << >>
  /\ stage \in {"segments", "construct", "execute"} => LoadInv
  /\ stage \in {"construct", "execute"} => header = Len(File.segments) + 1

LEMMA InitMainInv == MainInit => MainInv
<1> SUFFICES ASSUME MainInit PROVE MainInv
  OBVIOUS
<1>1. << >> \in Seq(Byte) /\ << >> \in Seq(Segment) /\ 0 \in Register
  BY Sizes DEF Register, Address
<1>2. IInv
  <2>1. fregs \in [FReg -> Register] /\ fcsr \in 0 .. 255
    BY <1>1 DEF MainInit
  <2>2. xregs \in [XReg -> Register] /\ xregs[0] = 0
    <3>1. 0 \in XReg
      BY DEF XReg
    <3> QED BY <1>1, <3>1 DEF MainInit
  <2>3. softfloat_roundingMode \in 0 .. 4 /\ softfloat_exceptionFlags \in 0 .. 31
    BY DEF MainInit
  <2>4. ip \in Address /\ ip % 2 = 0 /\ memory \in Seq(Segment)
    BY <1>1 DEF MainInit, Register
  <2>5. /\ should_stop \in BOOLEAN /\ status = "running"
        /\ input \in Seq(Byte) /\ output \in Seq(Byte)
    BY <1>1 DEF MainInit
  <2> QED BY <2>1, <2>2, <2>3, <2>4, <2>5 DEF IInv, TypeOK, ZeroRegister, IpIsEven
<1> QED BY <1>1, <1>2 DEF MainInit, MainInv, Stages

(* One more header is passed: its segment, if it is loadable, comes last.  *)
LEMMA LoadSegmentKeeps ==
  ASSUME MainInv, LoadSegment
  PROVE  MainInv'
<1> DEFINE h == File.segments[header]
<1>1. /\ stage = "segments" /\ header <= Len(File.segments)
      /\ \/ /\ h.type = "PT_LOAD" /\ FileOverruns(h)
            /\ status' = IF NDEBUG THEN "undefined" ELSE "abort"
            /\ UNCHANGED <<stage, loading, memory, ip, xregs, floats, should_stop, host>>
         \/ /\ h.type = "PT_LOAD" => ~ FileOverruns(h)
            /\ segms' = IF h.type = "PT_LOAD" THEN Append(segms, LoadedSegm(h)) ELSE segms
            /\ header' = header + 1
            /\ UNCHANGED <<stage, argv, machine>>
  BY DEF LoadSegment
<1>2. /\ IInv /\ LoadInv /\ argv \in CommandLines /\ segms \in Seq(Segment) /\ header \in Nat
      /\ File \in Elf
  <2>1. LoadInv
    BY <1>1 DEF MainInv
  <2> QED BY <2>1, BootAssumption DEF MainInv, LoadInv, File
<1>3. CASE UNCHANGED <<stage, loading, memory, ip, xregs, floats, should_stop, host>>
           /\ status' = IF NDEBUG THEN "undefined" ELSE "abort"
  <2>1. IInv'
    BY <1>2, <1>3 DEF IInv, TypeOK, ZeroRegister, IpIsEven
  <2>2. UNCHANGED <<stage, argv, segms, header>>
    BY <1>3 DEF loading
  <2>3. LoadInv'
    <3>1. File' = File
      BY <2>2 DEF File
    <3>2. PICK origin : LoadedFrom(origin)
      BY <1>2 DEF LoadInv
    <3>3. LoadedFrom(origin)'
      BY <2>2, <3>1, <3>2 DEF LoadedFrom
    <3> QED BY <1>2, <2>2, <3>1, <3>3 DEF LoadInv
  <2> QED BY <1>1, <1>2, <2>1, <2>2, <2>3 DEF MainInv
<1>4. CASE /\ h.type = "PT_LOAD" => ~ FileOverruns(h)
           /\ segms' = IF h.type = "PT_LOAD" THEN Append(segms, LoadedSegm(h)) ELSE segms
           /\ header' = header + 1
           /\ UNCHANGED <<stage, argv, machine>>
  <2>1. UNCHANGED <<memory, ip, xregs, fregs, fcsr, softfloat_roundingMode,
                    softfloat_exceptionFlags, should_stop, status, input, output>>
    BY <1>4 DEF machine, vars
  <2>2. IInv'
    BY <1>2, <2>1 DEF IInv, TypeOK, ZeroRegister, IpIsEven
  <2>3. File' = File /\ argv' = argv /\ stage' = stage
    BY <1>4 DEF File
  <2>4. header \in 1 .. Len(File.segments) /\ h \in Header /\ Len(File.segments) \in Nat
    <3>1. File.segments \in Seq(Header)
      BY <1>2 DEF Elf
    <3>2. header \in 1 .. Len(File.segments) /\ Len(File.segments) \in Nat
      BY <1>1, <1>2, <3>1 DEF LoadInv
    <3> QED BY <3>1, <3>2
  <2>5. header' \in 1 .. Len(File.segments) + 1 /\ header' \in Nat
    BY ONLY <1>4, <2>4
  <2>6. LoadedSegm(h) \in Segment
    BY <2>4, LoadedSegmIsSegment
  <2> DEFINE n == Len(segms)
  <2>7. n \in Nat /\ DOMAIN segms = 1 .. n
    BY <1>2
  <2>8. PICK origin : LoadedFrom(origin)
    BY <1>2 DEF LoadInv
  <2>9. CASE h.type # "PT_LOAD"
    <3>1. segms' = segms
      BY <1>4, <2>9
    <3>2. LoadedFrom(origin)'
      <4>1. origin \in [DOMAIN segms' -> 1 .. header' - 1]
        BY <1>4, <2>4, <2>8, <3>1 DEF LoadedFrom
      <4>2. ASSUME NEW k \in 1 .. header' - 1
            PROVE  File.segments[k].type = "PT_LOAD" <=> \E s \in DOMAIN segms : origin[s] = k
        <5>1. CASE k = header
          <6>1. \A s \in DOMAIN segms : origin[s] # k
            BY <2>4, <2>8, <5>1 DEF LoadedFrom
          <6> QED BY <2>9, <5>1, <6>1
        <5>2. CASE k # header
          <6>1. k \in 1 .. header - 1
            BY ONLY <1>4, <2>4, <5>2, k \in 1 .. header' - 1
          <6> QED BY <2>8, <6>1 DEF LoadedFrom
        <5> QED BY <5>1, <5>2
      <4> QED BY <2>3, <2>8, <3>1, <4>1, <4>2 DEF LoadedFrom
    <3> QED BY <1>1, <1>2, <2>2, <2>3, <2>5, <3>1, <3>2 DEF MainInv, LoadInv
  <2>10. CASE h.type = "PT_LOAD"
    <3>1. /\ segms' = Append(segms, LoadedSegm(h)) /\ segms' \in Seq(Segment)
          /\ DOMAIN segms' = 1 .. n + 1
          /\ \A s \in 1 .. n : segms'[s] = segms[s]
          /\ segms'[n + 1] = LoadedSegm(h)
      BY <1>2, <1>4, <2>6, <2>7, <2>10
    <3>2. \A s \in 1 .. n : origin[s] \in 1 .. header - 1
      BY <2>7, <2>8 DEF LoadedFrom
    <3>3. PICK new : /\ new = [s \in 1 .. n + 1 |-> IF s = n + 1 THEN header ELSE origin[s]]
                     /\ DOMAIN new = 1 .. n + 1 /\ new[n + 1] = header
                     /\ \A s \in 1 .. n : new[s] = origin[s]
      <4> DEFINE longer == [s \in 1 .. n + 1 |-> IF s = n + 1 THEN header ELSE origin[s]]
      <4>1. /\ DOMAIN longer = 1 .. n + 1 /\ longer[n + 1] = header
            /\ \A s \in 1 .. n : longer[s] = origin[s]
        BY <2>7
      <4> QED BY <4>1
    <3>4. new \in [1 .. n + 1 -> 1 .. header' - 1]
      BY <1>4, <2>4, <3>2, <3>3
    <3>5. ASSUME NEW s \in 1 .. n + 1, NEW t \in 1 .. n + 1, s < t
          PROVE  new[s] < new[t]
      <4>1. s \in 1 .. n
        BY ONLY <2>7, <3>5
      <4>2. CASE t = n + 1
        BY <2>4, <3>2, <3>3, <4>1, <4>2
      <4>3. CASE t # n + 1
        <5>1. t \in 1 .. n
          BY ONLY <2>7, <4>3, t \in 1 .. n + 1
        <5>2. origin[s] < origin[t]
          BY <2>7, <2>8, <3>5, <4>1, <5>1 DEF LoadedFrom
        <5> QED BY <3>3, <4>1, <5>1, <5>2
      <4> QED BY <4>2, <4>3
    <3>6. ASSUME NEW s \in 1 .. n + 1
          PROVE  segms'[s] = LoadedSegm(File.segments[new[s]])
      <4>1. CASE s = n + 1
        BY <3>1, <3>3, <4>1
      <4>2. CASE s # n + 1
        <5>1. s \in 1 .. n
          BY ONLY <2>7, <4>2, s \in 1 .. n + 1
        <5>2. segms[s] = LoadedSegm(File.segments[origin[s]])
          BY <2>7, <2>8, <5>1 DEF LoadedFrom
        <5> QED BY <3>1, <3>3, <5>1, <5>2
      <4> QED BY <4>1, <4>2
    <3>7. ASSUME NEW k \in 1 .. header' - 1
          PROVE  File.segments[k].type = "PT_LOAD" <=> \E s \in 1 .. n + 1 : new[s] = k
      <4>1. CASE k = header
        <5>1. n + 1 \in 1 .. n + 1
          BY ONLY <2>7
        <5> QED BY <2>10, <3>3, <4>1, <5>1
      <4>2. CASE k # header
        <5>1. k \in 1 .. header - 1
          BY ONLY <1>4, <2>4, <4>2, k \in 1 .. header' - 1
        <5>2. File.segments[k].type = "PT_LOAD" <=> \E s \in 1 .. n : origin[s] = k
          BY <2>7, <2>8, <5>1 DEF LoadedFrom
        <5>3. (\E s \in 1 .. n : origin[s] = k) <=> \E s \in 1 .. n + 1 : new[s] = k
          <6>1. \A s \in 1 .. n + 1 : s \in 1 .. n \/ s = n + 1
            BY ONLY <2>7
          <6>2. \A s \in 1 .. n : s \in 1 .. n + 1
            BY ONLY <2>7
          <6> QED BY <3>3, <4>2, <6>1, <6>2
        <5> QED BY <5>2, <5>3
      <4> QED BY <4>1, <4>2
    <3>8. LoadedFrom(new)'
      <4>1. new \in [DOMAIN segms' -> 1 .. header' - 1]
        BY <3>1, <3>4
      <4>2. \A s, t \in DOMAIN segms' : s < t => new[s] < new[t]
        BY <3>1, <3>5
      <4>3. \A s \in DOMAIN segms' : segms'[s] = LoadedSegm(File'.segments[new[s]])
        BY <2>3, <3>1, <3>6
      <4>4. \A k \in 1 .. header' - 1 :
              File'.segments[k].type = "PT_LOAD" <=> \E s \in DOMAIN segms' : new[s] = k
        BY <2>3, <3>1, <3>7
      <4> QED BY <4>1, <4>2, <4>3, <4>4 DEF LoadedFrom
    <3> QED BY <1>1, <1>2, <2>2, <2>3, <2>5, <3>1, <3>8 DEF MainInv, LoadInv
  <2> QED BY <2>9, <2>10
<1> QED BY <1>1, <1>3, <1>4

LEMMA LoadingKeeps ==
  ASSUME MainInv, CheckArguments \/ OpenFile \/ FinishLoading
  PROVE  MainInv'
<1>1. /\ UNCHANGED <<argv, segms, header>>
      /\ UNCHANGED <<memory, ip, xregs, fregs, fcsr, softfloat_roundingMode,
                     softfloat_exceptionFlags, should_stop, status, input, output>>
      /\ File' = File
  BY DEF CheckArguments, OpenFile, FinishLoading, loading, machine, vars, File
<1>2. IInv'
  BY <1>1 DEF MainInv, IInv, TypeOK, ZeroRegister, IpIsEven
<1>3. LoadInv => LoadInv'
  BY <1>1 DEF LoadInv, LoadedFrom
<1>4. CASE CheckArguments
  BY <1>1, <1>2, <1>3, <1>4 DEF CheckArguments, MainInv, Stages
<1>5. CASE OpenFile
  <2>1. CASE stage' = "failed"
    BY <1>1, <1>2, <1>5, <2>1 DEF OpenFile, MainInv, Stages
  <2>2. CASE stage' # "failed"
    <3>1. /\ stage = "open" /\ stage' = "segments" /\ argv # << >> /\ argv[1] \in DOMAIN Files
          /\ segms = << >> /\ header = 1
      BY <1>5, <2>2 DEF OpenFile, MainInv
    <3>2. Len(File.segments) \in Nat
      <4>1. File \in Elf
        BY <3>1, BootAssumption DEF File
      <4>2. File.segments \in Seq(Header)
        BY <4>1 DEF Elf
      <4> QED BY <4>2
    <3>3. LoadedFrom([s \in {} |-> 1])
      <4>1. DOMAIN segms = {} /\ 1 .. header - 1 = {}
        BY <3>1
      <4> QED BY <4>1 DEF LoadedFrom
    <3>4. LoadInv
      BY <3>1, <3>2, <3>3 DEF LoadInv
    <3> QED BY <1>1, <1>2, <1>3, <3>1, <3>4 DEF MainInv, Stages
  <2> QED BY <2>1, <2>2
<1>6. CASE FinishLoading
  <2>1. stage = "segments" /\ stage' = "construct" /\ LoadInv /\ header > Len(File.segments)
    BY <1>6 DEF FinishLoading, MainInv
  <2>2. Len(File.segments) \in Nat
    <3>1. File \in Elf
      BY <2>1, BootAssumption DEF File, LoadInv
    <3>2. File.segments \in Seq(Header)
      BY <3>1 DEF Elf
    <3> QED BY <3>2
  <2>3. header = Len(File.segments) + 1
    BY ONLY <2>1, <2>2 DEF LoadInv
  <2> QED BY <1>1, <1>2, <1>3, <2>1, <2>3 DEF MainInv, Stages
<1> QED BY <1>4, <1>5, <1>6

(* What the constructor makes is a state that Execute can start in.        *)
LEMMA ConstructKeeps ==
  ASSUME MainInv, Construct
  PROVE  MainInv'
<1>1. /\ stage = "construct" /\ LoadInv /\ IInv /\ argv \in CommandLines /\ segms \in Seq(Segment)
      /\ UNCHANGED <<argv, segms, header>> /\ File' = File
      /\ UNCHANGED <<fregs, fcsr, softfloat_roundingMode,
                     softfloat_exceptionFlags, should_stop, input, output>>
  BY DEF Construct, MainInv, loading, File
<1>2. LoadInv'
  BY <1>1 DEF LoadInv, LoadedFrom
<1>3. CASE TableUnderruns(argv)
  <2>1. /\ status' \in {"undefined", "abort"}
        /\ UNCHANGED <<stage, memory, ip, xregs>>
    BY <1>3 DEF Construct
  <2>2. IInv'
    BY <1>1, <2>1 DEF IInv, TypeOK, ZeroRegister, IpIsEven
  <2> QED BY <1>1, <1>2, <2>1, <2>2 DEF MainInv
<1>4. CASE ~ TableUnderruns(argv)
  <2>1. /\ stage' = "execute" /\ status' = status
        /\ memory' = BootMemory(segms, argv)
        /\ ip' = File.entry
        /\ xregs' = BootRegisters(argv, GlobalPointer(File))
    BY <1>4 DEF Construct
  <2>2. File \in Elf /\ File.entry % 2 = 0
    BY <1>1, BootAssumption DEF File, LoadInv
  <2>3. ip' \in Address /\ ip' % 2 = 0
    BY <2>1, <2>2 DEF Elf
  <2>4. xregs' \in [XReg -> Register] /\ xregs'[0] = 0
    BY <1>1, <2>1, <2>2, GlobalPointerIsAddress, BootRegistersAreTyped
  <2>5. memory' \in Seq(Segment)
    BY <1>1, <1>4, <2>1, BootMemoryList
  <2>6. IInv'
    BY <1>1, <2>1, <2>3, <2>4, <2>5 DEF IInv, TypeOK, ZeroRegister, IpIsEven
  <2> QED BY <1>1, <1>2, <2>1, <2>6 DEF MainInv, Stages
<1> QED BY <1>3, <1>4

LEMMA NextMainInv == MainInv /\ [MainNext]_mainVars => MainInv'
<1> SUFFICES ASSUME MainInv, [MainNext]_mainVars PROVE MainInv'
  OBVIOUS
<1>1. CASE Execute
  <2>1. IInv' /\ UNCHANGED <<stage, argv, segms, header>>
    BY <1>1, NextIInv DEF Execute, MainInv, loading
  <2>2. File' = File
    BY <2>1 DEF File
  <2>3. LoadInv => LoadInv'
    BY <2>1, <2>2 DEF LoadInv, LoadedFrom
  <2> QED BY <2>1, <2>2, <2>3 DEF MainInv
<1>2. CASE UNCHANGED mainVars
  <2>1. /\ UNCHANGED <<stage, argv, segms, header>>
        /\ UNCHANGED <<memory, ip, xregs, fregs, fcsr, softfloat_roundingMode,
                       softfloat_exceptionFlags, should_stop, status, input, output>>
    BY <1>2 DEF mainVars, loading, machine, vars
  <2>2. File' = File /\ IInv'
    BY <2>1 DEF File, MainInv, IInv, TypeOK, ZeroRegister, IpIsEven
  <2>3. LoadInv => LoadInv'
    BY <2>1, <2>2 DEF LoadInv, LoadedFrom
  <2> QED BY <2>1, <2>2, <2>3 DEF MainInv
<1> QED BY <1>1, <1>2, LoadingKeeps, LoadSegmentKeeps, ConstructKeeps DEF MainNext

LEMMA AlwaysMainInv == MainSpec => []MainInv
BY InitMainInv, NextMainInv, PTL DEF MainSpec

(* From the check of the arguments to the guest's last instruction, the    *)
(* list of segments, the registers and ip are what their types say: no     *)
(* header, name or number of arguments makes the loader or the constructor *)
(* leave a state that Execute does not expect (main.cpp, elf_loader.cpp,   *)
(* rv_sim.hpp:40-88).                                                      *)
THEOREM ProgramIsTyped == MainSpec => []MainTypeOK
<1>1. MainInv => MainTypeOK
  BY DEF MainInv, MainTypeOK, IInv
<1> QED BY <1>1, AlwaysMainInv, PTL

-----------------------------------------------------------------------------
(* The file is in memory.                                                  *)

(* A range that passes the end of the addresses wraps, and is empty.       *)
LEMMA LoadedRange ==
  ASSUME NEW h \in Header, NEW x \in Address
  PROVE  IsAddrInSegment(x, LoadedSegm(h)) <=>
           /\ h.start + h.mem_size < AddrMod
           /\ h.start <= x /\ x < h.start + h.mem_size
<1> DEFINE sum == h.start + h.mem_size
<1>1. h.start \in Nat /\ h.mem_size \in Nat /\ h.start < AddrMod /\ h.mem_size < AddrMod
  <2>1. h.start \in Address /\ h.mem_size \in Address
    BY DEF Header
  <2> QED BY ONLY <2>1, AddressAssumption DEF Address
<1>2. IsAddrInSegment(x, LoadedSegm(h)) <=> h.start <= x /\ x < Trunc(sum)
  BY DEF IsAddrInSegment, LoadedSegm
<1>3. AddrMod \in Nat \ {0} /\ x \in Nat
  BY ONLY AddressAssumption, x \in Address DEF Address
<1>4. CASE sum < AddrMod
  <2>1. sum \in Address
    BY ONLY <1>1, <1>3, <1>4 DEF Address
  <2>2. Trunc(sum) = sum
    BY <2>1, TruncOfAddress
  <2> QED BY <1>2, <1>4, <2>2
<1>5. CASE ~ (sum < AddrMod)
  <2> DEFINE rest == sum - AddrMod
  <2>1. rest \in 0 .. AddrMod - 1 /\ rest < h.start /\ sum = AddrMod * 1 + rest
    BY ONLY <1>1, <1>3, <1>5
  <2> HIDE DEF rest
  <2>2. (AddrMod * 1 + rest) % AddrMod = rest
    <3>1. \A q \in Int : (AddrMod * q + rest) % AddrMod = rest
      BY <1>3, <2>1, DivIsUnique
    <3> QED BY ONLY <3>1
  <2>3. Trunc(sum) = rest
    BY <2>1, <2>2 DEF Trunc
  <2>4. ~ (h.start <= x /\ x < rest)
    BY ONLY <1>1, <1>3, <2>1
  <2> QED BY <1>2, <1>5, <2>3, <2>4
<1> QED BY <1>4, <1>5

(* The bytes of a loaded segment.                                          *)
LEMMA LoadedData ==
  ASSUME NEW h \in Header
  PROVE  /\ h.start \in Nat /\ h.mem_size \in Nat /\ Len(h.data) \in Nat
         /\ LoadedSegm(h).start = h.start
         /\ Size(LoadedSegm(h)) = h.mem_size
         /\ \A o \in 0 .. h.mem_size - 1 :
              ByteOf(LoadedSegm(h), o) = IF o < Len(h.data) THEN h.data[o + 1] ELSE ZeroByte
<1>1. h.start \in Address /\ h.mem_size \in Address /\ h.data \in Seq(Byte)
  BY DEF Header
<1>2. h.start \in Nat /\ h.mem_size \in Nat /\ Len(h.data) \in Nat
  BY ONLY <1>1, AddressAssumption DEF Address
<1>3. Size(LoadedSegm(h)) = h.mem_size
  BY ONLY <1>2 DEF Size, LoadedSegm
<1>4. ASSUME NEW o \in 0 .. h.mem_size - 1
      PROVE  ByteOf(LoadedSegm(h), o) = IF o < Len(h.data) THEN h.data[o + 1] ELSE ZeroByte
  <2>1. o + 1 \in 1 .. h.mem_size /\ (o + 1 <= Len(h.data) <=> o < Len(h.data))
    BY ONLY <1>2, o \in 0 .. h.mem_size - 1
  <2> QED BY ONLY <2>1 DEF ByteOf, LoadedSegm
<1> QED BY <1>2, <1>3, <1>4 DEF LoadedSegm

(* What the constructor does when the guest starts.                        *)
LEMMA ConstructStep ==
  ASSUME MainInv, [MainNext]_mainVars, stage = "construct", stage' = "execute"
  PROVE  /\ ~ TableUnderruns(argv) /\ argv \in CommandLines /\ segms \in Seq(Segment)
         /\ LoadInv /\ header = Len(File.segments) + 1
         /\ Len(File.segments) \in Nat /\ \A k \in 1 .. Len(File.segments) : File.segments[k] \in Header
         /\ memory' = BootMemory(segms, argv) /\ memory' \in Seq(Segment)
         /\ xregs' = BootRegisters(argv, GlobalPointer(File))
<1>1. Construct
  BY DEF MainNext, CheckArguments, OpenFile, LoadSegment, FinishLoading, Execute, mainVars
<1>2. /\ argv \in CommandLines /\ segms \in Seq(Segment)
      /\ LoadInv /\ header = Len(File.segments) + 1
  BY DEF MainInv
<1>3. File.segments \in Seq(Header)
  <2>1. File \in Elf
    BY <1>2, BootAssumption DEF File, LoadInv
  <2> QED BY <2>1 DEF Elf
<1>4. /\ ~ TableUnderruns(argv)
      /\ memory' = BootMemory(segms, argv)
      /\ xregs' = BootRegisters(argv, GlobalPointer(File))
  BY <1>1 DEF Construct
<1>5. memory' \in Seq(Segment)
  BY <1>2, <1>4, BootMemoryList
<1> QED BY <1>2, <1>3, <1>4, <1>5

(* The segment of the first header that claims an address is the one that  *)
(* the loop over memory_ stops at.                                         *)
LEMMA ClaimedByte ==
  ASSUME MainInv, [MainNext]_mainVars, stage = "construct", stage' = "execute",
         NEW x \in Address, NEW k \in DOMAIN File.segments,
         Claims(k, x), \A l \in 1 .. k - 1 : ~ Claims(l, x)
  PROVE  LET h == File.segments[k]
             offset == x - h.start
         IN  /\ Fits(memory', x, 1)
             /\ ByteAt(memory', x) = IF offset < Len(h.data) THEN h.data[offset + 1] ELSE ZeroByte
<1> DEFINE h == File.segments[k]
           n == Len(segms)
           headers == Len(File.segments)
<1>1. /\ ~ TableUnderruns(argv) /\ argv \in CommandLines /\ segms \in Seq(Segment)
      /\ LoadInv /\ header = headers + 1
      /\ headers \in Nat /\ \A l \in 1 .. headers : File.segments[l] \in Header
      /\ memory' = BootMemory(segms, argv) /\ memory' \in Seq(Segment)
  BY ConstructStep
<1>2. DOMAIN File.segments = 1 .. headers
  <2>1. File \in Elf
    BY <1>1, BootAssumption DEF File, LoadInv
  <2>2. File.segments \in Seq(Header)
    BY <2>1 DEF Elf
  <2> QED BY <2>2
<1>3. k \in 1 .. headers /\ k \in 1 .. header - 1
  BY <1>1, <1>2
<1>4. PICK origin : LoadedFrom(origin)
  BY <1>1 DEF LoadInv
<1>5. PICK s \in DOMAIN segms : origin[s] = k
  BY <1>3, <1>4 DEF LoadedFrom, Claims
<1>6. n \in Nat /\ DOMAIN segms = 1 .. n /\ DOMAIN memory' = 1 .. n + 2
      /\ \A t \in 1 .. n : memory'[t] = segms[t]
  <2>1. /\ Len(segms) \in Nat /\ Len(BootMemory(segms, argv)) = Len(segms) + 2
        /\ \A t \in 1 .. Len(segms) : BootMemory(segms, argv)[t] = segms[t]
    BY ONLY <1>1, BootMemoryList
  <2>2. DOMAIN segms = 1 .. Len(segms) /\ DOMAIN memory' = 1 .. Len(memory')
    BY ONLY <1>1
  <2> QED BY ONLY <1>1, <2>1, <2>2
<1>7. ASSUME NEW t \in 1 .. n
      PROVE  /\ origin[t] \in 1 .. headers
             /\ memory'[t] = LoadedSegm(File.segments[origin[t]])
             /\ IsAddrInSegment(x, memory'[t]) <=> Claims(origin[t], x)
  <2>1. origin[t] \in 1 .. header - 1 /\ segms[t] = LoadedSegm(File.segments[origin[t]])
    BY <1>4, <1>6 DEF LoadedFrom
  <2>2. origin[t] \in 1 .. headers
    BY ONLY <1>1, <2>1
  <2>3. File.segments[origin[t]].type = "PT_LOAD"
    BY <1>4, <1>6, <2>1 DEF LoadedFrom
  <2>4. memory'[t] = LoadedSegm(File.segments[origin[t]])
    BY <1>6, <2>1
  <2>5. File.segments[origin[t]] \in Header
    BY <1>1, <2>2
  <2>6. IsAddrInSegment(x, memory'[t]) <=>
           LET g == File.segments[origin[t]]
           IN  g.start + g.mem_size < AddrMod /\ g.start <= x /\ x < g.start + g.mem_size
    BY <2>4, <2>5, LoadedRange
  <2>7. Claims(origin[t], x) <=>
           LET g == File.segments[origin[t]]
           IN  g.start + g.mem_size < AddrMod /\ g.start <= x /\ x < g.start + g.mem_size
    <3>1. \A a : (x >= a) <=> (a <= x)
      OBVIOUS
    <3> QED BY <2>3, <3>1 DEF Claims
  <2> QED BY <2>2, <2>4, <2>6, <2>7
<1>8. Hits(memory', s, x)
  <2>1. IsAddrInSegment(x, memory'[s])
    BY <1>5, <1>6, <1>7
  <2>2. ASSUME NEW t \in 1 .. s - 1 PROVE ~ IsAddrInSegment(x, memory'[t])
    <3>1. t \in 1 .. n /\ t < s
      BY ONLY <1>5, <1>6, t \in 1 .. s - 1
    <3>2. origin[t] < k
      BY <1>4, <1>5, <1>6, <3>1 DEF LoadedFrom
    <3>3. origin[t] \in 1 .. k - 1
      BY <1>3, <1>7, <3>1, <3>2
    <3> QED BY <1>7, <3>1, <3>3
  <2> QED BY <2>1, <2>2 DEF Hits
<1>9. memory'[s] = LoadedSegm(h) /\ h \in Header
  BY <1>1, <1>3, <1>5, <1>6, <1>7
<1> DEFINE o == x - h.start
<1>10. o \in 0 .. h.mem_size - 1 /\ o + 1 <= h.mem_size
  <2>1. h.start \in Nat /\ h.mem_size \in Nat
    BY <1>9, LoadedData
  <2>2. x >= h.start /\ x < h.start + h.mem_size /\ x \in Nat
    BY AddressAssumption DEF Claims, Address
  <2> QED BY ONLY <2>1, <2>2
<1>11. Fits(memory', x, 1)
  <2>1. s \in DOMAIN memory'
    BY <1>5, <1>6
  <2>2. memory'[s].start = h.start /\ Size(memory'[s]) = h.mem_size
    BY <1>9, LoadedData
  <2> QED BY <1>1, <1>8, <1>10, <2>1, <2>2, FitsWhereItHits
<1>12. ByteAt(memory', x) = ByteOf(LoadedSegm(h), o)
  <2>1. s \in DOMAIN memory'
    BY <1>5, <1>6
  <2>2. SegmentOf(memory', x) = s
    BY <1>1, <1>8, <2>1, HitIsUnique
  <2>3. LoadedSegm(h).start = h.start
    BY <1>9, LoadedData
  <2> QED BY <1>9, <2>2, <2>3 DEF ByteAt
<1>13. ByteOf(LoadedSegm(h), o) = IF o < Len(h.data) THEN h.data[o + 1] ELSE ZeroByte
  BY <1>9, <1>10, LoadedData
<1> QED BY <1>11, <1>12, <1>13

(* Execution starts with every loadable segment where the file wants it:   *)
(* its bytes, zeros after them, the first header winning where two meet,   *)
(* and neither the stack nor the strings, which come after, over any of it *)
(* (elf_loader.cpp:45-71, memory.cpp).                                     *)
THEOREM FileArrives == MainSpec => FileIsInMemory
<1>1. MainInv /\ [MainNext]_mainVars =>
        (stage = "construct" /\ stage' = "execute" =>
           \A x \in Address, k \in DOMAIN File.segments :
             Claims(k, x) /\ (\A l \in 1 .. k - 1 : ~ Claims(l, x)) =>
               LET h == File.segments[k]
                   offset == x - h.start
               IN  /\ Fits(memory', x, 1)
                   /\ ByteAt(memory', x) =
                        IF offset < Len(h.data) THEN h.data[offset + 1] ELSE ZeroByte)
  BY ClaimedByte
<1> QED BY <1>1, AlwaysMainInv, PTL DEF MainSpec, FileIsInMemory

-----------------------------------------------------------------------------
(* The arguments are there.                                                *)

(* A memory that ends in the stack and the strings, and in which nothing   *)
(* comes before them at their addresses.                                   *)
Booted(mem, args) ==
  /\ mem \in Seq(Segment) /\ args \in CommandLines /\ ~ TableUnderruns(args)
  /\ Len(mem) >= 2
  /\ mem[Len(mem) - 1] = StackSegm(args) /\ mem[Len(mem)] = ArgvSegm(args)
  /\ \A l \in 1 .. Len(mem) - 2 : \A x \in kStackBase .. kArgvBase + SizeOfArgv(args) + 3 :
       ~ IsAddrInSegment(x, mem[l])

LEMMA StackServes ==
  ASSUME NEW mem, NEW args, Booted(mem, args), NEW x \in kStackBase .. kStackTop - 1
  PROVE  /\ Fits(mem, x, 1)
         /\ ByteAt(mem, x) = StackSegm(args).data[x - kStackBase + 1]
<1> DEFINE n == Len(mem)
<1>1. /\ mem \in Seq(Segment) /\ n \in Nat /\ n >= 2 /\ n - 1 \in DOMAIN mem
      /\ args \in CommandLines /\ ~ TableUnderruns(args)
      /\ mem[n - 1] = StackSegm(args)
  BY DEF Booted
<1>2. /\ StackSegm(args).start = kStackBase /\ StackSegm(args).end = kStackTop
      /\ Size(StackSegm(args)) = kStackSize
  BY <1>1, StackData
<1>3. SizeOfArgv(args) \in Nat
  BY <1>1, ArgvRange
<1>4. x \in kStackBase .. kArgvBase + SizeOfArgv(args) + 3
  BY ONLY <1>3, Layout, x \in kStackBase .. kStackTop - 1
<1>5. Hits(mem, n - 1, x)
  <2>1. IsAddrInSegment(x, mem[n - 1])
    BY ONLY <1>1, <1>2, Layout, x \in kStackBase .. kStackTop - 1 DEF IsAddrInSegment
  <2>2. \A l \in 1 .. (n - 1) - 1 : l \in 1 .. n - 2
    BY ONLY <1>1
  <2> QED BY <1>4, <2>1, <2>2 DEF Booted, Hits
<1>6. x - kStackBase + 1 <= kStackSize
  BY ONLY Layout, x \in kStackBase .. kStackTop - 1
<1>7. Fits(mem, x, 1)
  BY <1>1, <1>2, <1>5, <1>6, FitsWhereItHits
<1>8. SegmentOf(mem, x) = n - 1
  BY <1>1, <1>5, HitIsUnique
<1> HIDE DEF n
<1> QED BY <1>1, <1>2, <1>7, <1>8 DEF ByteAt, ByteOf

LEMMA StringsServe ==
  ASSUME NEW mem, NEW args, Booted(mem, args), NEW o \in 1 .. SizeOfArgv(args)
  PROVE  /\ Fits(mem, kArgvBase + (o - 1), 1)
         /\ ByteAt(mem, kArgvBase + (o - 1)) = ArgvData(args)[o]
<1> DEFINE n == Len(mem)
           x == kArgvBase + (o - 1)
<1>1. /\ mem \in Seq(Segment) /\ n \in Nat /\ n >= 2 /\ n \in DOMAIN mem
      /\ args \in CommandLines /\ ~ TableUnderruns(args)
      /\ mem[n] = ArgvSegm(args) /\ mem[n - 1] = StackSegm(args)
  BY DEF Booted
<1>2. /\ SizeOfArgv(args) \in Nat
      /\ mem[n].start = kArgvBase /\ mem[n].end = kArgvBase + SizeOfArgv(args) + 4
      /\ mem[n].data = ArgvData(args) /\ Size(mem[n]) = SizeOfArgv(args)
  BY <1>1, ArgvRange
<1>3. StackSegm(args).start = kStackBase /\ StackSegm(args).end = kStackTop
  BY <1>1, StackData
<1>4. /\ x \in kStackBase .. kArgvBase + SizeOfArgv(args) + 3
      /\ x - kArgvBase = o - 1 /\ (o - 1) + 1 = o /\ o <= SizeOfArgv(args)
      /\ kArgvBase <= x /\ x < kArgvBase + SizeOfArgv(args) + 4 /\ ~ (x < kStackTop)
  <2>1. SizeOfArgv(args) \in Nat
    BY <1>2
  <2> QED BY ONLY <2>1, Layout, o \in 1 .. SizeOfArgv(args)
<1> HIDE DEF x
<1>5. Hits(mem, n, x)
  <2>1. IsAddrInSegment(x, mem[n])
    BY ONLY <1>2, <1>4 DEF IsAddrInSegment
  <2>2. ~ IsAddrInSegment(x, mem[n - 1])
    BY ONLY <1>1, <1>3, <1>4 DEF IsAddrInSegment
  <2>3. \A l \in 1 .. n - 1 : l \in 1 .. n - 2 \/ l = n - 1
    BY ONLY <1>1
  <2> QED BY <1>4, <2>1, <2>2, <2>3 DEF Booted, Hits
<1>6. Fits(mem, x, 1)
  BY <1>1, <1>2, <1>4, <1>5, FitsWhereItHits
<1>7. SegmentOf(mem, x) = n
  BY <1>1, <1>5, HitIsUnique
<1> HIDE DEF n
<1>8. ByteAt(mem, x) = ArgvData(args)[o]
  BY <1>2, <1>4, <1>7 DEF ByteAt, ByteOf
<1> QED BY <1>6, <1>8 DEF x

LEMMA WrapOfAddress ==
  ASSUME NEW z \in Address
  PROVE  Wrap(z) = z
BY ONLY AddressAssumption, z \in Address DEF Wrap, Address

(* The table as the guest reads it, word by word from sp.                  *)
LEMMA TableIsThere ==
  ASSUME NEW mem, NEW args, Booted(mem, args), NEW j \in 0 .. Len(args) + 1
  PROVE  LET base == kStackTop - TableSize(args)
         IN  /\ base \in Address /\ base + 4 * j \in Address
             /\ \A i \in 0 .. 3 : base + 4 * j + i \in Address /\ Fits(mem, base + 4 * j + i, 1)
             /\ Word(mem, base + 4 * j) = ArgvTable(args)[j + 1]
<1> DEFINE base == kStackTop - TableSize(args)
           x(i) == base + 4 * j + i
<1>1. args \in CommandLines /\ ~ TableUnderruns(args)
  BY DEF Booted
<1>2. /\ Len(args) \in Nat /\ TableSize(args) = 4 * (Len(args) + 2) /\ TableSize(args) <= kStackSize
  BY <1>1, TableFits
<1>3. /\ base \in Address /\ base + 4 * j \in Address
      /\ \A i \in 0 .. 3 : /\ x(i) \in Address /\ x(i) \in kStackBase .. kStackTop - 1
                           /\ x(i) - kStackBase + 1 = kStackSize - TableSize(args) + 4 * j + i + 1
  BY ONLY <1>2, Layout, AddressAssumption, j \in 0 .. Len(args) + 1 DEF Address
<1>4. ASSUME NEW i \in 0 .. 3
      PROVE  /\ Fits(mem, x(i), 1)
             /\ ByteAt(mem, Wrap(x(i))) = LowBytes(ArgvTable(args)[j + 1], 4)[i]
  <2>1. /\ Fits(mem, x(i), 1)
        /\ ByteAt(mem, x(i)) = StackSegm(args).data[x(i) - kStackBase + 1]
    BY <1>3, StackServes
  <2>2. StackSegm(args).data[kStackSize - TableSize(args) + 4 * j + i + 1]
          = LowBytes(ArgvTable(args)[j + 1], 4)[i]
    BY <1>1, StackData
  <2>3. Wrap(x(i)) = x(i)
    BY <1>3, WrapOfAddress
  <2>4. x(i) - kStackBase + 1 = kStackSize - TableSize(args) + 4 * j + i + 1
    BY <1>3
  <2> HIDE DEF x
  <2> QED BY <2>1, <2>2, <2>3, <2>4
<1>5. ArgvTable(args)[j + 1] \in Register
  <2>1. j + 1 \in 1 .. Len(args) + 2
    BY ONLY <1>2, j \in 0 .. Len(args) + 1
  <2> QED BY <1>1, <2>1, TableWords
<1>6. Word(mem, base + 4 * j) = ArgvTable(args)[j + 1]
  <2> DEFINE b == [i \in 0 .. 3 |-> ByteAt(mem, Wrap(x(i)))]
  <2>1. \A i \in 0 .. 3 : b[i] = LowBytes(ArgvTable(args)[j + 1], 4)[i]
    BY <1>4
  <2>2. Word(mem, base + 4 * j) = Value(b, 4)
    BY DEF Word
  <2> HIDE DEF b
  <2> QED BY <1>5, <2>1, <2>2, ValueOfLowBytes
<1> QED BY <1>3, <1>4, <1>6

LEMMA StringIsThere ==
  ASSUME NEW mem, NEW args, Booted(mem, args), NEW k \in DOMAIN args
  PROVE  /\ kArgvBase + ArgvOffset(args)[k] \in Register
         /\ StringIs(mem, kArgvBase + ArgvOffset(args)[k], args[k])
<1> DEFINE first == kArgvBase + ArgvOffset(args)[k]
           n == Len(args[k])
           size == SizeOfArgv(args)
           at == ArgvOffset(args)[k]
           data == ArgvData(args)
<1>1. args \in CommandLines /\ args \in Seq(Seq(Byte)) /\ k \in 1 .. Len(args)
  BY Strings DEF Booted
<1>2. n \in Nat /\ at \in Nat
  BY <1>1, OffsetSteps
<1>3. size \in Nat /\ kArgvBase + size + 4 < AddrMod
  BY <1>1, ArgvRange, CommandLineAssumption
<1>4. ASSUME NEW c \in 1 .. n + 1
      PROVE  at + c \in 1 .. size /\ data[at + c] = IF c <= n THEN args[k][c] ELSE ZeroByte
  BY <1>1, ArgvDataHolds
<1>5. ASSUME NEW o \in 1 .. size
      PROVE  Fits(mem, kArgvBase + (o - 1), 1) /\ ByteAt(mem, kArgvBase + (o - 1)) = data[o]
  BY StringsServe
<1> HIDE DEF n, size, at, data
<1>6. first = kArgvBase + at
  BY DEF at
<1> HIDE DEF first
<1>7. first \in Register
  <2>1. at + 1 \in 1 .. size
    <3>1. 1 \in 1 .. n + 1
      BY ONLY <1>2
    <3> QED BY <1>4, <3>1
  <2> QED BY ONLY <1>2, <1>3, <1>6, <2>1, Layout, AddressAssumption DEF Register, Address
<1>8. ASSUME NEW c \in 1 .. n + 1
      PROVE  /\ Fits(mem, Wrap(first + (c - 1)), 1)
             /\ ByteAt(mem, Wrap(first + (c - 1))) = IF c <= n THEN args[k][c] ELSE ZeroByte
  <2> DEFINE x == kArgvBase + ((at + c) - 1)
  <2>1. at + c \in 1 .. size
    BY <1>4
  <2>2. x = first + (c - 1) /\ x \in Address
    BY ONLY <1>2, <1>3, <1>6, <2>1, Layout, AddressAssumption, c \in 1 .. n + 1 DEF Address
  <2>3. Fits(mem, x, 1) /\ ByteAt(mem, x) = data[at + c]
    BY <1>5, <2>1
  <2>4. Wrap(x) = x
    BY <2>2, WrapOfAddress
  <2> HIDE DEF x
  <2> QED BY <1>4, <2>2, <2>3, <2>4
<1>9. \A j \in 0 .. (n + 1) - 1 : Fits(mem, Wrap(first + j), 1)
  <2> SUFFICES ASSUME NEW j \in 0 .. (n + 1) - 1 PROVE Fits(mem, Wrap(first + j), 1)
    OBVIOUS
  <2>1. j + 1 \in 1 .. n + 1 /\ (j + 1) - 1 = j
    BY ONLY <1>2, j \in 0 .. (n + 1) - 1
  <2> QED BY <1>8, <2>1
<1>10. \A j \in 1 .. n : ByteAt(mem, Wrap(first + (j - 1))) = args[k][j]
  <2> SUFFICES ASSUME NEW j \in 1 .. n PROVE ByteAt(mem, Wrap(first + (j - 1))) = args[k][j]
    OBVIOUS
  <2>1. j \in 1 .. n + 1 /\ j <= n
    BY ONLY <1>2, j \in 1 .. n
  <2> QED BY <1>8, <2>1
<1>11. ByteAt(mem, Wrap(first + n)) = ZeroByte
  <2>1. n + 1 \in 1 .. n + 1 /\ (n + 1) - 1 = n /\ ~ (n + 1 <= n)
    BY ONLY <1>2
  <2> QED BY <1>8, <2>1
<1> QED BY <1>7, <1>9, <1>10, <1>11 DEF StringIs, Holds, n, first

LEMMA ArgumentsFound ==
  ASSUME NEW mem, NEW args, Booted(mem, args)
  PROVE  LET base == kStackTop - TableSize(args)
         IN  /\ base \in Address
             /\ Holds(mem, base, TableSize(args))
             /\ Word(mem, base) = Len(args)
             /\ \A k \in DOMAIN args : StringIs(mem, Word(mem, Wrap(base + 4 * k)), args[k])
             /\ Word(mem, Wrap(base + 4 * (Len(args) + 1))) = 0
<1> DEFINE base == kStackTop - TableSize(args)
           table == ArgvTable(args)
           n == Len(args)
<1>1. args \in CommandLines /\ args \in Seq(Seq(Byte)) /\ ~ TableUnderruns(args)
  BY Strings DEF Booted
<1>2. n \in Nat /\ TableSize(args) = 4 * (n + 2) /\ DOMAIN args = 1 .. n
  BY <1>1, TableFits
<1>3. ASSUME NEW j \in 0 .. n + 1
      PROVE  /\ base \in Address /\ base + 4 * j \in Address
             /\ \A i \in 0 .. 3 : base + 4 * j + i \in Address /\ Fits(mem, base + 4 * j + i, 1)
             /\ Word(mem, base + 4 * j) = table[j + 1]
  BY TableIsThere
<1>4. /\ table[1] = n /\ table[(n + 1) + 1] = 0
      /\ \A k \in 1 .. n : table[k + 1] = kArgvBase + ArgvOffset(args)[k]
  <2>1. table = [j \in 1 .. n + 2 |-> IF j = 1 THEN n
                                      ELSE IF j = n + 2 THEN 0
                                      ELSE kArgvBase + ArgvOffset(args)[j - 1]]
    BY DEF ArgvTable
  <2> HIDE DEF table, n
  <2>2. table[1] = n
    BY ONLY <1>2, <2>1
  <2>3. table[(n + 1) + 1] = 0
    <3>1. (n + 1) + 1 \in 1 .. n + 2 /\ (n + 1) + 1 # 1 /\ (n + 1) + 1 = n + 2
      BY ONLY <1>2
    <3> QED BY ONLY <2>1, <3>1
  <2>4. ASSUME NEW k \in 1 .. n PROVE table[k + 1] = kArgvBase + ArgvOffset(args)[k]
    <3>1. k + 1 \in 1 .. n + 2 /\ k + 1 # 1 /\ k + 1 # n + 2 /\ (k + 1) - 1 = k
      BY ONLY <1>2, k \in 1 .. n
    <3> QED BY ONLY <2>1, <3>1
  <2> QED BY <2>2, <2>3, <2>4
<1>5. 0 \in 0 .. n + 1 /\ n + 1 \in 0 .. n + 1 /\ \A k \in 1 .. n : k \in 0 .. n + 1
  BY ONLY <1>2
<1>6. base \in Address /\ base \in Int
  BY <1>3, <1>5, AddressAssumption DEF Address
<1> HIDE DEF base, table, n
<1>7. Holds(mem, base, TableSize(args))
  <2> SUFFICES ASSUME NEW b \in 0 .. TableSize(args) - 1 PROVE Fits(mem, Wrap(base + b), 1)
    BY DEF Holds
  <2> DEFINE j == b \div 4
             i == b % 4
  <2>1. j \in 0 .. n + 1 /\ i \in 0 .. 3 /\ base + 4 * j + i = base + b
    BY ONLY <1>2, <1>6, b \in 0 .. TableSize(args) - 1
  <2> HIDE DEF j, i
  <2>2. base + 4 * j + i \in Address /\ Fits(mem, base + 4 * j + i, 1)
    BY <1>3, <2>1
  <2> QED BY <2>1, <2>2, WrapOfAddress
<1>8. Word(mem, base) = n
  <2>1. base + 4 * 0 = base /\ 0 + 1 = 1
    BY ONLY <1>6
  <2>2. Word(mem, base + 4 * 0) = table[0 + 1]
    BY <1>3, <1>5
  <2> QED BY <1>4, <2>1, <2>2
<1>9. ASSUME NEW k \in DOMAIN args
      PROVE  StringIs(mem, Word(mem, Wrap(base + 4 * k)), args[k])
  <2>1. k \in 1 .. n /\ k \in 0 .. n + 1
    BY <1>2, <1>5
  <2>2. base + 4 * k \in Address /\ Word(mem, base + 4 * k) = table[k + 1]
    BY <1>3, <2>1
  <2>3. Wrap(base + 4 * k) = base + 4 * k
    BY <2>2, WrapOfAddress
  <2>4. StringIs(mem, kArgvBase + ArgvOffset(args)[k], args[k])
    BY StringIsThere
  <2> QED BY <1>4, <2>1, <2>2, <2>3, <2>4
<1>10. Word(mem, Wrap(base + 4 * (n + 1))) = 0
  <2>1. base + 4 * (n + 1) \in Address /\ Word(mem, base + 4 * (n + 1)) = table[(n + 1) + 1]
    BY <1>3, <1>5
  <2>2. Wrap(base + 4 * (n + 1)) = base + 4 * (n + 1)
    BY <2>1, WrapOfAddress
  <2> QED BY <1>4, <2>1, <2>2
<1> QED BY <1>6, <1>7, <1>8, <1>9, <1>10 DEF base, n

(* What the constructor makes of a file that leaves room.                  *)
LEMMA ConstructBoots ==
  ASSUME MainInv, [MainNext]_mainVars, stage = "construct", stage' = "execute", LeavesRoom
  PROVE  /\ Booted(memory', argv)
         /\ xregs'[SP] = Trunc(kStackTop - TableSize(argv))
<1> DEFINE n == Len(segms)
           hi == kArgvBase + SizeOfArgv(argv) + 4
<1>1. /\ ~ TableUnderruns(argv) /\ argv \in CommandLines /\ segms \in Seq(Segment)
      /\ LoadInv /\ header = Len(File.segments) + 1
      /\ Len(File.segments) \in Nat /\ \A k \in 1 .. Len(File.segments) : File.segments[k] \in Header
      /\ memory' = BootMemory(segms, argv) /\ memory' \in Seq(Segment)
      /\ xregs' = BootRegisters(argv, GlobalPointer(File))
  BY ConstructStep
<1>0. File.segments \in Seq(Header)
  <2>1. File \in Elf
    BY <1>1, BootAssumption DEF File, LoadInv
  <2> QED BY ONLY <2>1 DEF Elf
<1>2. /\ n \in Nat /\ DOMAIN segms = 1 .. n /\ Len(memory') = n + 2
      /\ \A t \in 1 .. n : memory'[t] = segms[t]
      /\ memory'[n + 1] = StackSegm(argv) /\ memory'[n + 2] = ArgvSegm(argv)
  <2>1. LET mem == BootMemory(segms, argv)
        IN  /\ Len(segms) \in Nat /\ Len(mem) = Len(segms) + 2
            /\ \A t \in 1 .. Len(segms) : mem[t] = segms[t]
            /\ mem[Len(segms) + 1] = StackSegm(argv) /\ mem[Len(segms) + 2] = ArgvSegm(argv)
    BY ONLY <1>1, BootMemoryList
  <2>2. DOMAIN segms = 1 .. Len(segms)
    BY ONLY <1>1
  <2> QED BY ONLY <1>1, <2>1, <2>2
<1>3. PICK origin : LoadedFrom(origin)
  BY <1>1 DEF LoadInv
<1>4. SizeOfArgv(argv) \in Nat /\ hi < AddrMod
  BY <1>1, ArgvRange, CommandLineAssumption
<1>4a. hi \in Int /\ hi < AddrMod
  BY ONLY <1>4, Layout
<1> HIDE DEF hi
<1>5. ASSUME NEW t \in 1 .. n, NEW x \in kStackBase .. hi - 1
      PROVE  ~ IsAddrInSegment(x, memory'[t])
  <2> DEFINE g == File.segments[origin[t]]
  <2>1. origin[t] \in 1 .. header - 1 /\ segms[t] = LoadedSegm(g)
    BY <1>2, <1>3 DEF LoadedFrom
  <2>2. origin[t] \in 1 .. Len(File.segments)
    BY ONLY <1>1, <2>1
  <2>3. g \in Header
    BY <1>1, <2>2
  <2>4. g.type = "PT_LOAD"
    BY <1>2, <1>3, <2>1 DEF LoadedFrom
  <2>5. ~ (g.start < hi /\ kStackBase < g.start + g.mem_size)
    <3>1. origin[t] \in DOMAIN File.segments
      BY ONLY <1>0, <2>2
    <3>2. ~ Covers(g, kStackBase, hi)
      BY <3>1 DEF LeavesRoom, hi
    <3> QED BY <2>4, <3>2 DEF Covers
  <2>6. x \in Address
    BY ONLY <1>4a, Layout, AddressAssumption, x \in kStackBase .. hi - 1 DEF Address
  <2>7. IsAddrInSegment(x, LoadedSegm(g)) =>
          g.start + g.mem_size < AddrMod /\ g.start <= x /\ x < g.start + g.mem_size
    BY <2>3, <2>6, LoadedRange
  <2>8. g.start \in Nat /\ g.mem_size \in Nat
    BY <2>3, LoadedData
  <2>9. memory'[t] = LoadedSegm(g)
    BY <1>2, <2>1
  <2> HIDE DEF g
  <2>10. ~ IsAddrInSegment(x, LoadedSegm(g))
    <3> SUFFICES ASSUME IsAddrInSegment(x, LoadedSegm(g)) PROVE FALSE
      OBVIOUS
    <3>1. g.start <= x /\ x < g.start + g.mem_size
      BY <2>7
    <3> QED BY ONLY <1>4a, <2>5, <2>8, <3>1, Layout, x \in kStackBase .. hi - 1
  <2> QED BY <2>9, <2>10
<1>6. /\ (n + 2) - 1 = n + 1 /\ (n + 2) - 2 = n /\ n + 2 >= 2
      /\ kArgvBase + SizeOfArgv(argv) + 3 = hi - 1
  BY ONLY <1>2, <1>4, Layout DEF hi
<1>7. Booted(memory', argv)
  <2> HIDE DEF n
  <2> QED BY <1>1, <1>2, <1>5, <1>6 DEF Booted
<1>8. xregs'[SP] = Trunc(kStackTop - TableSize(argv))
  <2>1. SP \in XReg
    BY BootAssumption
  <2> QED BY ONLY <1>1, <2>1 DEF BootRegisters
<1> QED BY <1>7, <1>8

(* Whatever the command line, the guest starts with argc at sp, the        *)
(* addresses of its arguments and a null pointer after it, and each        *)
(* argument is at its address as a C string, if no loadable segment was    *)
(* laid over the stack or the strings (program_args.hpp:14-21,             *)
(* rv_sim.hpp:52-83).                                                      *)
THEOREM ArgumentsArrive == MainSpec => ArgumentsAreThere
<1>1. MainInv /\ [MainNext]_mainVars =>
        (stage = "construct" /\ stage' = "execute" /\ LeavesRoom =>
           LET base == xregs'[SP]
           IN  /\ Holds(memory', base, TableSize(argv))
               /\ Word(memory', base) = Len(argv)
               /\ \A k \in DOMAIN argv : StringIs(memory', Word(memory', Wrap(base + 4 * k)), argv[k])
               /\ Word(memory', Wrap(base + 4 * (Len(argv) + 1))) = 0)
  <2> SUFFICES ASSUME MainInv, [MainNext]_mainVars,
                      stage = "construct", stage' = "execute", LeavesRoom
               PROVE  LET base == xregs'[SP]
                      IN  /\ Holds(memory', base, TableSize(argv))
                          /\ Word(memory', base) = Len(argv)
                          /\ \A k \in DOMAIN argv :
                               StringIs(memory', Word(memory', Wrap(base + 4 * k)), argv[k])
                          /\ Word(memory', Wrap(base + 4 * (Len(argv) + 1))) = 0
    OBVIOUS
  <2>1. Booted(memory', argv) /\ xregs'[SP] = Trunc(kStackTop - TableSize(argv))
    BY ConstructBoots
  <2>2. PICK mem : mem = memory'
    OBVIOUS
  <2>3. PICK args : args = argv
    OBVIOUS
  <2>4. Booted(mem, args)
    BY <2>1, <2>2, <2>3
  <2>5. LET base == kStackTop - TableSize(args)
        IN  /\ base \in Address
            /\ Holds(mem, base, TableSize(args))
            /\ Word(mem, base) = Len(args)
            /\ \A k \in DOMAIN args : StringIs(mem, Word(mem, Wrap(base + 4 * k)), args[k])
            /\ Word(mem, Wrap(base + 4 * (Len(args) + 1))) = 0
    BY <2>4, ArgumentsFound
  <2>6. xregs'[SP] = kStackTop - TableSize(args)
    BY <2>1, <2>3, <2>5, TruncOfAddress
  <2> QED BY <2>2, <2>3, <2>5, <2>6
<1> QED BY <1>1, AlwaysMainInv, PTL DEF MainSpec, ArgumentsAreThere

-----------------------------------------------------------------------------
(* The guest runs on the flat machine.                                     *)

LEMMA PlacedRange ==
  ASSUME NEW h \in Header, h.type = "PT_LOAD", HasRange(LoadedSegm(h))
  PROVE  Placed(h) /\ LoadedSegm(h).end = h.start + h.mem_size
<1>1. h.start \in Address /\ h.start \in Nat /\ h.mem_size \in Nat /\ LoadedSegm(h).start = h.start
  BY LoadedData DEF Header
<1>2. IsAddrInSegment(h.start, LoadedSegm(h))
  <2>1. h.start <= h.start
    BY <1>1
  <2> QED BY <1>1, <2>1 DEF IsAddrInSegment, HasRange
<1>3. h.start + h.mem_size < AddrMod /\ h.start < h.start + h.mem_size
  BY <1>1, <1>2, LoadedRange
<1>4. h.mem_size > 0 /\ h.start + h.mem_size \in Address
  BY ONLY <1>1, <1>3, AddressAssumption DEF Address
<1>5. Trunc(h.start + h.mem_size) = h.start + h.mem_size
  BY <1>4, TruncOfAddress
<1> QED BY <1>3, <1>4, <1>5 DEF Placed, LoadedSegm

LEMMA HeadersOfElf ==
  ASSUME NEW file \in Elf
  PROVE  file.segments \in Seq(Header)
<1>1. file.segments \in Seq(Header)
  BY ZenonT(20) DEF Elf
<1> QED BY ONLY <1>1

(* The list of the constructor: the headers' segments in the order of the  *)
(* headers, then the stack and the strings.                                *)
MadeFrom(mem, n, origin) ==
  /\ DOMAIN mem = 1 .. n + 2
  /\ \A t \in 1 .. n :
       /\ origin[t] \in DOMAIN File.segments
       /\ File.segments[origin[t]] \in Header
       /\ File.segments[origin[t]].type = "PT_LOAD"
       /\ mem[t] = LoadedSegm(File.segments[origin[t]])
  /\ \A s, t \in 1 .. n : s < t => origin[s] < origin[t]
  /\ mem[n + 1] = StackSegm(argv) /\ mem[n + 2] = ArgvSegm(argv)

LEMMA BootSegments ==
  ASSUME MainInv, [MainNext]_mainVars, stage = "construct", stage' = "execute"
  PROVE  \E n \in Nat : \E origin : MadeFrom(memory', n, origin)
<1> DEFINE n == Len(segms)
           headers == Len(File.segments)
<1>1. /\ ~ TableUnderruns(argv) /\ argv \in CommandLines /\ segms \in Seq(Segment)
      /\ LoadInv /\ header = headers + 1
      /\ headers \in Nat /\ \A l \in 1 .. headers : File.segments[l] \in Header
      /\ memory' = BootMemory(segms, argv) /\ memory' \in Seq(Segment)
  BY ConstructStep
<1>2. DOMAIN File.segments = 1 .. headers
  <2>1. File \in Elf
    BY <1>1, BootAssumption DEF File, LoadInv
  <2>2. File.segments \in Seq(Header)
    BY <2>1, HeadersOfElf
  <2> QED BY ONLY <2>2
<1>3. PICK origin : LoadedFrom(origin)
  BY <1>1 DEF LoadInv
<1>4. /\ n \in Nat /\ DOMAIN segms = 1 .. n /\ DOMAIN memory' = 1 .. n + 2
      /\ \A t \in 1 .. n : memory'[t] = segms[t]
      /\ memory'[n + 1] = StackSegm(argv) /\ memory'[n + 2] = ArgvSegm(argv)
  <2>1. /\ Len(segms) \in Nat /\ Len(BootMemory(segms, argv)) = Len(segms) + 2
        /\ \A t \in 1 .. Len(segms) : BootMemory(segms, argv)[t] = segms[t]
        /\ BootMemory(segms, argv)[Len(segms) + 1] = StackSegm(argv)
        /\ BootMemory(segms, argv)[Len(segms) + 2] = ArgvSegm(argv)
    BY ONLY <1>1, BootMemoryList
  <2>2. DOMAIN segms = 1 .. Len(segms) /\ DOMAIN memory' = 1 .. Len(memory')
    BY ONLY <1>1
  <2> QED BY ONLY <1>1, <2>1, <2>2
<1>5. ASSUME NEW t \in 1 .. n
      PROVE  /\ origin[t] \in DOMAIN File.segments
             /\ File.segments[origin[t]] \in Header
             /\ File.segments[origin[t]].type = "PT_LOAD"
             /\ memory'[t] = LoadedSegm(File.segments[origin[t]])
  <2>1. origin[t] \in 1 .. header - 1 /\ segms[t] = LoadedSegm(File.segments[origin[t]])
    BY <1>3, <1>4 DEF LoadedFrom
  <2>2. origin[t] \in 1 .. headers
    BY ONLY <1>1, <2>1
  <2>3. File.segments[origin[t]].type = "PT_LOAD"
    BY <1>3, <1>4, <2>1 DEF LoadedFrom
  <2> QED BY <1>1, <1>2, <1>4, <2>1, <2>2, <2>3
<1>6. \A s, t \in 1 .. n : s < t => origin[s] < origin[t]
  BY <1>3, <1>4 DEF LoadedFrom
<1> HIDE DEF n
<1>7. MadeFrom(memory', n, origin)
  BY <1>4, <1>5, <1>6 DEF MadeFrom
<1> QED BY <1>4, <1>7

(* No segment of a file in order begins inside a vector after it: not in   *)
(* another segment of the file, the stack or the strings.                  *)
LEMMA BootIsUnbroken ==
  ASSUME MainInv, [MainNext]_mainVars, stage = "construct", stage' = "execute",
         InOrder, LeavesRoom
  PROVE  Unbroken(memory')
<1> DEFINE mem == memory'
           strings == SizeOfArgv(argv)
           From(k) == mem[k].start + 1 .. mem[k].start + Size(mem[k]) - 1
<1>1. argv \in CommandLines /\ ~ TableUnderruns(argv)
  BY ConstructStep
<1>2. PICK n \in Nat : \E origin : MadeFrom(mem, n, origin)
  BY BootSegments
<1>3. PICK origin : MadeFrom(mem, n, origin)
  BY <1>2
<1>4. /\ DOMAIN mem = 1 .. n + 2
      /\ \A t \in 1 .. n :
           /\ origin[t] \in DOMAIN File.segments
           /\ File.segments[origin[t]] \in Header
           /\ File.segments[origin[t]].type = "PT_LOAD"
           /\ mem[t] = LoadedSegm(File.segments[origin[t]])
      /\ \A s, t \in 1 .. n : s < t => origin[s] < origin[t]
      /\ mem[n + 1] = StackSegm(argv) /\ mem[n + 2] = ArgvSegm(argv)
  BY <1>3 DEF MadeFrom
<1> DEFINE h(t) == File.segments[origin[t]]
<1>5. ASSUME NEW t \in 1 .. n, HasRange(mem[t])
      PROVE  /\ Placed(h(t))
             /\ h(t).start \in Nat /\ h(t).mem_size \in Nat
             /\ mem[t].start = h(t).start /\ mem[t].end = h(t).start + h(t).mem_size
             /\ Size(mem[t]) = h(t).mem_size
  BY <1>4, <1>5, PlacedRange, LoadedData
<1>6. /\ mem[n + 1].start = kStackBase /\ mem[n + 1].end = kStackTop
      /\ Size(mem[n + 1]) = kStackSize
      /\ mem[n + 2].start = kArgvBase /\ mem[n + 2].end = kArgvBase + strings + 4
      /\ Size(mem[n + 2]) = strings /\ strings \in Nat
  BY <1>1, <1>4, StackData, ArgvRange
<1>7. /\ kStackTop \in Nat /\ kStackSize \in Nat /\ kStackBase \in Nat /\ kArgvBase \in Nat
      /\ kStackTop = kStackBase + kStackSize /\ kArgvBase = kStackTop + 4
  BY Layout
<1>8. ASSUME NEW t \in 1 .. n, HasRange(mem[t])
      PROVE  mem[t].start \in Nat
             /\ (mem[t].start < kStackBase \/ mem[t].start >= kArgvBase + strings + 4)
  <2>1. Placed(h(t)) /\ h(t).start \in Nat /\ h(t).mem_size \in Nat /\ mem[t].start = h(t).start
    BY <1>5, <1>8
  <2>2. h(t).type = "PT_LOAD" /\ h(t).mem_size > 0
    BY <2>1 DEF Placed
  <2>3. ~ Covers(h(t), kStackBase, kArgvBase + strings + 4)
    BY <1>4 DEF LeavesRoom
  <2> DEFINE first == h(t).start  size == h(t).mem_size
  <2>4. ~ (first < kArgvBase + strings + 4 /\ kStackBase < first + size)
    BY <2>2, <2>3 DEF Covers
  <2>5. first \in Nat /\ size \in Nat /\ size > 0 /\ mem[t].start = first
    BY <2>1, <2>2
  <2> HIDE DEF first, size, mem, strings
  <2> QED BY ONLY <1>6, <1>7, <2>4, <2>5
<1>9. ASSUME NEW k \in 1 .. n, HasRange(mem[k])
      PROVE  /\ Size(mem[k]) <= mem[k].end - mem[k].start
             /\ \A l \in {j \in 1 .. k - 1 : HasRange(mem[j])} : mem[l].start \notin From(k)
  <2>1. /\ Placed(h(k)) /\ h(k).start \in Nat /\ h(k).mem_size \in Nat
        /\ mem[k].start = h(k).start /\ mem[k].end = h(k).start + h(k).mem_size
        /\ Size(mem[k]) = h(k).mem_size
    BY <1>5, <1>9
  <2>2. ASSUME NEW l \in 1 .. k - 1, HasRange(mem[l]) PROVE mem[l].start \notin From(k)
    <3>1. l \in 1 .. n /\ l < k
      BY ONLY l \in 1 .. k - 1, k \in 1 .. n, n \in Nat
    <3>2. Placed(h(l)) /\ h(l).start \in Nat /\ mem[l].start = h(l).start
      BY <1>5, <2>2, <3>1
    <3>3. origin[l] < origin[k] /\ origin[l] \in DOMAIN File.segments
          /\ origin[k] \in DOMAIN File.segments
      BY <1>4, <3>1
    <3>4. h(l).start <= h(k).start \/ h(k).start + h(k).mem_size <= h(l).start
      BY <2>1, <3>2, <3>3 DEF InOrder
    <3> DEFINE a == h(l).start  b == h(k).start  c == h(k).mem_size
    <3>5. a \in Nat /\ b \in Nat /\ c \in Nat /\ (a <= b \/ b + c <= a)
          /\ mem[l].start = a /\ mem[k].start = b /\ Size(mem[k]) = c
      BY <2>1, <3>2, <3>4
    <3> HIDE DEF a, b, c, mem
    <3>6. a \notin b + 1 .. b + c - 1
      BY ONLY <3>5
    <3> QED BY ONLY <3>5, <3>6
  <2> DEFINE b == h(k).start  c == h(k).mem_size
  <2>3. b \in Nat /\ c \in Nat /\ mem[k].start = b /\ mem[k].end = b + c /\ Size(mem[k]) = c
    BY <2>1
  <2> HIDE DEF b, c, mem
  <2>4. Size(mem[k]) <= mem[k].end - mem[k].start
    BY ONLY <2>3
  <2> QED BY <2>2, <2>4
<1> HIDE DEF mem, h
<1>10. /\ Size(mem[n + 1]) <= mem[n + 1].end - mem[n + 1].start
      /\ \A l \in {j \in 1 .. n : HasRange(mem[j])} : mem[l].start \notin From(n + 1)
  <2>1. Size(mem[n + 1]) <= mem[n + 1].end - mem[n + 1].start
    BY ONLY <1>6, <1>7
  <2>2. ASSUME NEW l \in 1 .. n, HasRange(mem[l]) PROVE mem[l].start \notin From(n + 1)
    <3>1. mem[l].start \in Nat
          /\ (mem[l].start < kStackBase \/ mem[l].start >= kArgvBase + strings + 4)
      BY <1>8, <2>2
    <3> HIDE DEF strings
    <3>2. mem[l].start \notin kStackBase + 1 .. kStackBase + kStackSize - 1
      BY ONLY <1>6, <1>7, <3>1
    <3> QED BY ONLY <1>6, <3>2
  <2> QED BY <2>1, <2>2
<1>11. /\ Size(mem[n + 2]) <= mem[n + 2].end - mem[n + 2].start
      /\ \A l \in {j \in 1 .. n + 1 : HasRange(mem[j])} : mem[l].start \notin From(n + 2)
  <2>1. Size(mem[n + 2]) <= mem[n + 2].end - mem[n + 2].start
    <3> HIDE DEF strings
    <3> QED BY ONLY <1>6, <1>7
  <2>2. ASSUME NEW l \in 1 .. n + 1, HasRange(mem[l]) PROVE mem[l].start \notin From(n + 2)
    <3>1. mem[l].start \in Nat
          /\ (mem[l].start <= kStackBase \/ mem[l].start >= kArgvBase + strings + 4)
      <4>1. CASE l = n + 1
        BY <1>6, <1>7, <4>1
      <4>2. CASE l # n + 1
        <5>1. l \in 1 .. n
          BY ONLY <4>2, l \in 1 .. n + 1, n \in Nat
        <5>2. mem[l].start \in Nat
              /\ (mem[l].start < kStackBase \/ mem[l].start >= kArgvBase + strings + 4)
          BY <1>8, <2>2, <5>1
        <5> QED BY ONLY <1>7, <5>2
      <4> QED BY <4>1, <4>2
    <3> HIDE DEF strings
    <3>2. mem[l].start \notin kArgvBase + 1 .. kArgvBase + strings - 1
      BY ONLY <1>6, <1>7, <3>1
    <3> QED BY ONLY <1>6, <3>2
  <2> QED BY <2>1, <2>2
<1>12. ASSUME NEW k \in DOMAIN mem, HasRange(mem[k])
       PROVE  /\ Size(mem[k]) <= mem[k].end - mem[k].start
              /\ \A l \in {j \in 1 .. k - 1 : HasRange(mem[j])} : mem[l].start \notin From(k)
  <2>1. k \in 1 .. n \/ k = n + 1 \/ k = n + 2
    BY ONLY <1>4, k \in DOMAIN mem
  <2>2. (n + 1) - 1 = n /\ (n + 2) - 1 = n + 1
    BY ONLY n \in Nat
  <2> HIDE DEF From
  <2>3. CASE k \in 1 .. n
    BY <1>9, <1>12, <2>3
  <2>4. CASE k = n + 1
    BY <1>10, <2>2, <2>4
  <2>5. CASE k = n + 2
    BY <1>11, <2>2, <2>5
  <2> QED BY <2>1, <2>3, <2>4, <2>5
<1> QED BY <1>12 DEF Unbroken, mem

(* What Execute needs to find, and keeps.                                  *)
RunInv ==
  /\ stage # "execute" => fcsr = 0 /\ should_stop = FALSE
  /\ stage = "execute" /\ InOrder /\ LeavesRoom => Unbroken(memory)

LEMMA SameFile ==
  ASSUME UNCHANGED argv
  PROVE  InOrder' = InOrder /\ LeavesRoom' = LeavesRoom
BY DEF InOrder, LeavesRoom, File

LEMMA NextRunInv == MainInv /\ RunInv /\ [MainNext]_mainVars => RunInv'
<1> SUFFICES ASSUME MainInv, RunInv, [MainNext]_mainVars PROVE RunInv'
  OBVIOUS
<1>1. UNCHANGED argv /\ (stage # "execute" => UNCHANGED <<fcsr, should_stop>>)
  <2>1. CASE CheckArguments
    BY <2>1 DEF CheckArguments, loading, machine, vars
  <2>2. CASE OpenFile
    <3>1. UNCHANGED <<loading, machine>>
      BY <2>2, Zenon DEF OpenFile
    <3> QED BY ONLY <3>1 DEF loading, machine, vars
  <2>3. CASE LoadSegment
    BY <2>3 DEF LoadSegment, loading, machine, vars
  <2>4. CASE FinishLoading
    BY <2>4 DEF FinishLoading, loading, machine, vars
  <2>5. CASE Construct
    BY <2>5 DEF Construct, loading
  <2>6. CASE Execute
    BY <2>6 DEF Execute, loading
  <2>7. CASE UNCHANGED mainVars
    BY <2>7 DEF mainVars, loading, machine, vars
  <2> QED BY <2>1, <2>2, <2>3, <2>4, <2>5, <2>6, <2>7 DEF MainNext
<1>2. InOrder' = InOrder /\ LeavesRoom' = LeavesRoom
  BY <1>1, SameFile
<1>3. CASE stage = "execute"
  <2>1. stage' = "execute" /\ [Next]_vars
    BY <1>3 DEF MainNext, CheckArguments, OpenFile, LoadSegment, FinishLoading, Construct,
                Execute, mainVars, machine
  <2>2. SameLayout(memory, memory') /\ memory \in Seq(Segment)
    BY <2>1, NextKeepsLayout DEF MainInv, IInv, TypeOK
  <2>3. Unbroken(memory) => Unbroken(memory')
    BY <2>2, SameLayoutIsUnbroken
  <2> QED BY <1>2, <1>3, <2>1, <2>3 DEF RunInv
<1>4. CASE stage # "execute"
  <2>1. UNCHANGED <<fcsr, should_stop>>
    BY <1>1, <1>4
  <2>2. CASE stage' = "execute"
    <3>1. stage = "construct"
      BY <1>4, <2>2 DEF MainNext, CheckArguments, OpenFile, LoadSegment, FinishLoading,
                        Construct, Execute, mainVars
    <3>2. InOrder /\ LeavesRoom => Unbroken(memory')
      BY <2>2, <3>1, BootIsUnbroken
    <3> QED BY <1>2, <2>2, <3>2 DEF RunInv
  <2>3. CASE stage' # "execute"
    BY <1>4, <2>1, <2>3 DEF RunInv
  <2> QED BY <2>2, <2>3
<1> QED BY <1>3, <1>4

LEMMA AlwaysRunInv == MainSpec => []RunInv
<1>1. MainInit => RunInv
  BY DEF MainInit, RunInv
<1> QED BY <1>1, NextRunInv, AlwaysMainInv, PTL DEF MainSpec

LEMMA ConstructStartsMachine ==
  MainInv /\ RunInv /\ [MainNext]_mainVars /\ stage = "construct" /\ stage' = "execute"
    => Machine!Init'
<1> SUFFICES ASSUME MainInv, RunInv, [MainNext]_mainVars, stage = "construct", stage' = "execute"
             PROVE  Machine!Init'
  OBVIOUS
<1>1. MainInv'
  BY NextMainInv
<1>2. xregs'[0] = 0
  BY <1>1 DEF MainInv, IInv, ZeroRegister
<1>3. Construct
  BY DEF MainNext, CheckArguments, OpenFile, LoadSegment, FinishLoading, Execute, mainVars
<1>4. fcsr' = 0 /\ should_stop' = FALSE /\ status' = "running"
  BY <1>3 DEF Construct, RunInv
<1>5. FreshMachine'
  BY <1>2, <1>4 DEF FreshMachine
<1> QED BY <1>5, FreshMachineStarts, PTL

(* A file in order, which leaves the stack and the strings alone, is run   *)
(* by the machine that its guest was compiled for, whatever the layout of  *)
(* the file, the place of the stack and the arguments: the constructor     *)
(* leaves that machine's first state, and each step of Execute is one of   *)
(* its instructions, unless it is a mistake that no assert stops           *)
(* (elf_loader.cpp:45-71, rv_sim.hpp:34-84, rv_sim.cpp:17-36).             *)
THEOREM ProgramRunsOnIsa == MainSpec => GuestRunsOnIsa
<1>1. MainInv /\ RunInv /\ [MainNext]_mainVars =>
        /\ stage = "construct" /\ stage' = "execute" /\ InOrder /\ LeavesRoom => Machine!Init'
        /\ stage = "execute" /\ InOrder /\ LeavesRoom =>
             (NDEBUG /\ Mistaken) \/ [Machine!Next]_(Machine!vars)
  <2> SUFFICES ASSUME MainInv, RunInv, [MainNext]_mainVars, InOrder, LeavesRoom,
                      stage = "execute", ~ (NDEBUG /\ Mistaken)
               PROVE  [Machine!Next]_(Machine!vars)
    BY ConstructStartsMachine
  <2>1. IInv /\ Unbroken(memory)
    BY DEF MainInv, RunInv
  <2>2. [Next]_vars
    BY DEF MainNext, CheckArguments, OpenFile, LoadSegment, FinishLoading, Construct, Execute,
           mainVars, machine
  <2> QED BY <2>1, <2>2, StepMachine
<1> QED BY <1>1, AlwaysMainInv, AlwaysRunInv, PTL DEF MainSpec, GuestRunsOnIsa
=============================================================================
