---------------------------- MODULE MemoryProofs ----------------------------
(***************************************************************************)
(* Proofs about Memory, for every address width, list of segments and      *)
(* build: type correctness, RegionsNeverMove and the refinement of         *)
(* FlatMemory.                                                             *)
(***************************************************************************)
EXTENDS Memory, SegmentsProofs, TLAPS, SequenceTheorems

USE AddressAssumption, MemoryAssumption
-----------------------------------------------------------------------------
(* What each call does to the list, and type correctness.                  *)

LEMMA SizesAreAddresses ==
  /\ Widths \subseteq Address
  /\ 0 .. MaxCopy \subseteq Address
  /\ Address \subseteq Nat
BY DEF Address

LEMMA CallIsTyped ==
  ASSUME NEW op \in Ops, NEW addr \in Address, NEW n \in Address,
         NEW b \in Bytes(n), Calls(op, addr, n, b)
  PROVE  call' \in Call
BY DEF Calls, Call

LEMMA LoadStep ==
  ASSUME TypeOK, NEW n \in Widths, NEW addr \in Address, NEW b \in Bytes(n),
         Load(n, addr, b)
  PROVE  TypeOK' /\ memory' = memory
<1>1. call' \in Call
  BY SizesAreAddresses, CallIsTyped DEF Load, Ops
<1> QED BY <1>1 DEF Load, TypeOK, Abort

LEMMA StoreStep ==
  ASSUME TypeOK, NEW n \in Widths, NEW addr \in Address, NEW b \in Bytes(n),
         Store(n, addr, b)
  PROVE  TypeOK' /\ SameLayout(memory, memory')
<1>1. call' \in Call
  BY SizesAreAddresses, CallIsTyped DEF Store, Ops
<1>2. state' \in {"ok", "abort", "undefined"}
  BY DEF Store, TypeOK, Abort, Spill
<1>3. \/ memory' = memory
      \/ ~ Unmatched(memory, addr) /\ memory' = WriteBytes(memory, addr, n, b)
  BY NoHit DEF Store, Abort, Overruns, TypeOK
<1>4. SameLayout(memory, memory')
  BY <1>3, WriteKeepsLayout, SameLayoutAsItself, SizesAreAddresses DEF TypeOK
<1> QED BY <1>1, <1>2, <1>4 DEF TypeOK, SameLayout

LEMMA CopyGuestToHostStep ==
  ASSUME TypeOK, NEW n \in 0 .. MaxCopy, NEW addr \in Address, NEW b \in Bytes(n),
         CopyGuestToHost(addr, b, n)
  PROVE  TypeOK' /\ memory' = memory
<1>1. call' \in Call
  BY SizesAreAddresses, CallIsTyped DEF CopyGuestToHost, Ops
<1> QED BY <1>1 DEF CopyGuestToHost, TypeOK, Abort

LEMMA CopyHostToGuestStep ==
  ASSUME TypeOK, NEW n \in 0 .. MaxCopy, NEW addr \in Address, NEW b \in Bytes(n),
         CopyHostToGuest(addr, b, n)
  PROVE  TypeOK' /\ SameLayout(memory, memory')
<1>1. call' \in Call
  BY SizesAreAddresses, CallIsTyped DEF CopyHostToGuest, Ops
<1>2. state' \in {"ok", "abort", "undefined"}
  BY DEF CopyHostToGuest, TypeOK, Spill
<1>3. \E m \in 0 .. n : memory' = CopyBytes(memory, addr, m, b)
  BY DEF CopyHostToGuest, Missing
<1>4. SameLayout(memory, memory')
  <2>1. PICK m \in 0 .. n : memory' = CopyBytes(memory, addr, m, b)
    BY <1>3
  <2>2. m \in Nat /\ m <= n /\ n \in Nat /\ n < AddrMod
    BY DEF Address
  <2> QED BY <2>1, <2>2, CopyKeepsLayout DEF TypeOK
<1> QED BY <1>1, <1>2, <1>4 DEF TypeOK, SameLayout

LEMMA ContentsAreBytes ==
  ASSUME NEW segm \in Segment
  PROVE  Contents(segm) \in Bytes(Size(segm))
BY SegmentFields DEF Contents, Bytes

LEMMA AddSegmentStep ==
  ASSUME TypeOK, NEW segm \in Extras, AddSegment(segm)
  PROVE  TypeOK' /\ memory' = Append(memory, segm)
<1>1. segm \in Segment
  OBVIOUS
<1>2. call' \in Call
  BY <1>1, ContentsAreBytes, SegmentFields, CallIsTyped DEF AddSegment, Ops
<1> QED BY <1>1, <1>2 DEF AddSegment, TypeOK

(* The five calls.                                                         *)
LEMMA StepCases ==
  ASSUME TypeOK, Next
  PROVE  /\ TypeOK'
         /\ \/ SameLayout(memory, memory')
            \/ \E segm \in Segment : memory' = Append(memory, segm)
<1>1. CASE \E n \in Widths, addr \in Address : \E b \in Bytes(n) : Load(n, addr, b)
  BY <1>1, LoadStep, SameLayoutAsItself DEF TypeOK
<1>2. CASE \E n \in Widths, addr \in Address : \E b \in Bytes(n) : Store(n, addr, b)
  BY <1>2, StoreStep
<1>3. CASE \E n \in 0 .. MaxCopy, addr \in Address : \E b \in Bytes(n) :
             CopyGuestToHost(addr, b, n)
  BY <1>3, CopyGuestToHostStep, SameLayoutAsItself DEF TypeOK
<1>4. CASE \E n \in 0 .. MaxCopy, addr \in Address : \E b \in Bytes(n) :
             CopyHostToGuest(addr, b, n)
  BY <1>4, CopyHostToGuestStep
<1>5. CASE \E segm \in Extras : AddSegment(segm)
  BY <1>5, AddSegmentStep
<1> QED BY <1>1, <1>2, <1>3, <1>4, <1>5 DEF Next

(* Every segment keeps a vector of the size it was made with, whatever is  *)
(* stored, copied or added (memory.cpp:20-122).                            *)
THEOREM TypeCorrect == Spec => []TypeOK
<1>1. Init => TypeOK
  <2>1. [i \in 0 .. -1 |-> ZeroByte] \in Bytes(0) /\ 0 \in Address
    BY DEF Bytes, Address
  <2> QED BY <2>1 DEF Init, TypeOK, Call, Ops
<1>2. TypeOK /\ [Next]_vars => TypeOK'
  BY StepCases DEF vars, TypeOK
<1> QED BY <1>1, <1>2, PTL DEF Spec

(* The first segment that matches an address goes on serving it: what      *)
(* RVSim appends never hides what the ELF file placed (memory.hpp:38,      *)
(* memory.cpp:23).                                                         *)
THEOREM SegmentsStayVisible == Spec => RegionsNeverMove
<1>1. TypeOK /\ [Next]_vars =>
        [\A x \in Address : \A k \in DOMAIN memory :
           Hits(memory, k, x) => k \in DOMAIN memory' /\ Hits(memory', k, x)]_vars
  <2> SUFFICES ASSUME TypeOK, Next, NEW x \in Address, NEW k \in DOMAIN memory,
                      Hits(memory, k, x)
               PROVE  k \in DOMAIN memory' /\ Hits(memory', k, x)
    OBVIOUS
  <2>1. CASE SameLayout(memory, memory')
    BY <2>1, LayoutDecides DEF TypeOK, SameLayout
  <2>2. CASE \E segm \in Segment : memory' = Append(memory, segm)
    <3>1. PICK segm \in Segment : memory' = Append(memory, segm)
      BY <2>2
    <3>2. k \in DOMAIN memory' /\ \A l \in 1 .. k : memory'[l] = memory[l]
      BY <3>1, ListOfSegments DEF TypeOK
    <3> QED BY <3>2, ListOfSegments DEF Hits, TypeOK
  <2> QED BY <2>1, <2>2, StepCases
<1> QED BY <1>1, TypeCorrect, PTL DEF Spec, RegionsNeverMove

-----------------------------------------------------------------------------
(* The flat memory that a list of segments stands for.                     *)

LEMMA ViewWhereItHits ==
  ASSUME NEW mem \in Seq(Segment), NEW x \in Address,
         NEW k \in DOMAIN mem, Hits(mem, k, x)
  PROVE  LET offset == x - mem[k].start
         IN  /\ offset \in Nat
             /\ View(mem)[x] = IF offset < Size(mem[k]) THEN ByteOf(mem[k], offset)
                                                       ELSE NoByte
             /\ View(mem)[x] # NoByte <=> offset < Size(mem[k])
             /\ Regions(mem)[x] = k
<1> DEFINE offset == x - mem[k].start
<1>1. mem[k] \in Segment
  BY ListOfSegments
<1>2. offset \in Nat /\ Size(mem[k]) \in Nat
  BY <1>1, SegmentFields DEF Hits, IsAddrInSegment, Address
<1>3. Fits(mem, x, 1) <=> offset < Size(mem[k])
  <2>1. Fits(mem, x, 1) <=> offset + 1 <= Size(mem[k])
    BY FitsWhereItHits
  <2> HIDE DEF offset
  <2> QED BY <1>2, <2>1
<1>4. ByteAt(mem, x) = ByteOf(mem[k], offset)
  BY HitIsUnique DEF ByteAt
<1>5. offset < Size(mem[k]) => ByteOf(mem[k], offset) \in Byte
  BY <1>1, <1>2, SegmentFields DEF Bytes
<1>6. View(mem)[x] = IF Fits(mem, x, 1) THEN ByteAt(mem, x) ELSE NoByte
  BY DEF View
<1>7. Regions(mem)[x] = k
  BY HitIsUnique DEF Regions
<1> QED BY <1>2, <1>3, <1>4, <1>5, <1>6, <1>7

LEMMA ViewWhereNothingHits ==
  ASSUME NEW mem \in Seq(Segment), NEW x \in Address, Unmatched(mem, x)
  PROVE  View(mem)[x] = NoByte /\ Regions(mem)[x] = 0
BY NoHit DEF View, Regions

LEMMA ViewIsTyped ==
  ASSUME NEW mem \in Seq(Segment)
  PROVE  /\ View(mem) \in [Address -> Byte \cup {NoByte}]
         /\ \A x \in Address : View(mem)[x] # NoByte => Regions(mem)[x] # 0
         /\ \A x \in Address : View(mem)[x] # NoByte <=> Fits(mem, x, 1)
<1>1. ASSUME NEW x \in Address
      PROVE  /\ View(mem)[x] \in Byte \cup {NoByte}
             /\ View(mem)[x] # NoByte => Regions(mem)[x] # 0
             /\ View(mem)[x] # NoByte <=> Fits(mem, x, 1)
  <2>1. CASE Unmatched(mem, x)
    BY <2>1, ViewWhereNothingHits, NoHit
  <2>2. CASE ~ Unmatched(mem, x)
    <3>1. PICK k \in DOMAIN mem : Hits(mem, k, x)
      BY <2>2 DEF Unmatched
    <3> DEFINE offset == x - mem[k].start
    <3>2. /\ offset \in Nat
          /\ View(mem)[x] = IF offset < Size(mem[k]) THEN ByteOf(mem[k], offset) ELSE NoByte
          /\ View(mem)[x] # NoByte <=> offset < Size(mem[k])
          /\ Regions(mem)[x] = k
      BY <3>1, ViewWhereItHits
    <3>3. mem[k] \in Segment /\ Size(mem[k]) \in Nat
      BY ListOfSegments, SegmentFields DEF Address
    <3>4. Fits(mem, x, 1) <=> offset < Size(mem[k])
      <4>1. Fits(mem, x, 1) <=> offset + 1 <= Size(mem[k])
        BY <3>1, FitsWhereItHits
      <4> QED BY <3>2, <3>3, <4>1
    <3>5. k # 0
      BY ListOfSegments
    <3>6. offset < Size(mem[k]) => ByteOf(mem[k], offset) \in Byte
      <4> HIDE DEF offset
      <4> QED BY <3>2, <3>3, SegmentFields
    <3> QED BY <3>2, <3>4, <3>5, <3>6
  <2> QED BY <2>1, <2>2
<1> QED BY <1>1 DEF View

LEMMA SpanOfCopy ==
  ASSUME NEW addr \in Address, NEW i \in Address
  PROVE  Flat!At(addr, i) = Wrap(addr + i) /\ Flat!At(addr, i) \in Address
BY DEF Flat!At, Wrap, Address

(* An access that stays in one region fits the vector of one segment, and  *)
(* does not wrap around: the last address is in no segment.                *)
LEMMA OneRegionFits ==
  ASSUME NEW n \in Widths, NEW addr \in Address, TypeOK, Flat!InOneRegion(addr, n)
  PROVE  \E k \in DOMAIN memory :
           /\ FitsIn(memory, k, addr, n)
           /\ \A i \in 0 .. n - 1 :
                /\ Flat!At(addr, i) = addr + i
                /\ addr + i \in Address
                /\ Hits(memory, k, addr + i)
<1>1. n \in Nat /\ 1 <= n /\ n < AddrMod /\ addr \in Nat
  BY DEF Address
<1>2. ASSUME NEW i \in 0 .. n - 1
      PROVE  /\ Flat!At(addr, i) \in Address
             /\ View(memory)[Flat!At(addr, i)] # NoByte
             /\ Regions(memory)[Flat!At(addr, i)] = Regions(memory)[addr]
  <2>1. i \in Address
    BY <1>1 DEF Address
  <2>2. Flat!At(addr, i) \in Flat!Span(addr, n)
    BY DEF Flat!Span
  <2> QED BY <2>1, <2>2, SpanOfCopy DEF Flat!InOneRegion, Flat!Mapped
<1>3. PICK k \in DOMAIN memory : Hits(memory, k, addr)
  <2>1. Flat!At(addr, 0) = addr
    BY <1>1 DEF Flat!At, Address
  <2>2. View(memory)[addr] # NoByte
    BY <1>1, <1>2, <2>1
  <2> QED BY <2>2, ViewWhereNothingHits DEF Unmatched, TypeOK
<1>4. Regions(memory)[addr] = k
  BY <1>3, ViewWhereItHits DEF TypeOK
<1>5. memory[k] \in Segment
  BY ListOfSegments DEF TypeOK
<1>6. memory[k].start \in Address /\ memory[k].end \in Address /\ Size(memory[k]) \in Nat
  BY <1>5, SegmentFields DEF Address
<1>7. ASSUME NEW i \in 0 .. n - 1
      PROVE  /\ Hits(memory, k, Flat!At(addr, i))
             /\ Flat!At(addr, i) - memory[k].start < Size(memory[k])
             /\ Flat!At(addr, i) < memory[k].end
  <2> DEFINE x == Flat!At(addr, i)
  <2>1. x \in Address /\ View(memory)[x] # NoByte /\ Regions(memory)[x] = k
    BY <1>2, <1>4
  <2> HIDE DEF x
  <2>2. Hits(memory, k, x)
    <3>1. PICK l \in DOMAIN memory : Hits(memory, l, x)
      BY <2>1, ViewWhereNothingHits DEF Unmatched, TypeOK
    <3> QED BY <2>1, <3>1, ViewWhereItHits DEF TypeOK
  <2>3. x - memory[k].start < Size(memory[k]) /\ x < memory[k].end
    BY <2>1, <2>2, ViewWhereItHits DEF TypeOK, Hits, IsAddrInSegment
  <2> QED BY <2>2, <2>3 DEF x
<1>8. addr + n <= AddrMod
  <2> SUFFICES ASSUME addr + n > AddrMod PROVE FALSE
    BY <1>1 DEF Address
  <2> DEFINE i == AddrMod - 1 - addr
  <2>1. i \in 0 .. n - 1 /\ Flat!At(addr, i) = AddrMod - 1
    BY <1>1 DEF Flat!At, Address
  <2>2. AddrMod - 1 < memory[k].end
    BY <1>7, <2>1
  <2> QED BY <1>6, <2>2 DEF Address
<1>9. \A i \in 0 .. n - 1 : Flat!At(addr, i) = addr + i /\ addr + i \in Address
  BY <1>1, <1>8 DEF Flat!At, Address
<1>10. addr - memory[k].start + n <= Size(memory[k])
  <2>1. n - 1 \in 0 .. n - 1 /\ Flat!At(addr, n - 1) = addr + (n - 1)
    BY <1>1, <1>9
  <2>2. Flat!At(addr, n - 1) - memory[k].start < Size(memory[k])
    BY <1>7, <2>1
  <2> QED BY <1>1, <1>6, <2>1, <2>2 DEF Address
<1> QED BY <1>3, <1>7, <1>9, <1>10 DEF FitsIn

-----------------------------------------------------------------------------
(* Each call implements the abstract one.                                  *)

LEMMA SameLayoutKeepsView ==
  ASSUME NEW mem \in Seq(Segment), NEW new, SameLayout(mem, new)
  PROVE  /\ View(new) \in [Address -> Byte \cup {NoByte}]
         /\ \A x \in Address : View(mem)[x] = NoByte <=> View(new)[x] = NoByte
         /\ Regions(new) = Regions(mem)
<1>1. new \in Seq(Segment)
  BY DEF SameLayout
<1>2. \A x \in Address : Fits(new, x, 1) <=> Fits(mem, x, 1)
  BY LayoutDecides
<1>3. \A x \in Address : View(mem)[x] = NoByte <=> View(new)[x] = NoByte
  BY <1>1, <1>2, ViewIsTyped
<1>4. Regions(new) = Regions(mem)
  BY LayoutDecides DEF Regions
<1> QED BY <1>1, <1>3, <1>4, ViewIsTyped

LEMMA LoadImplements ==
  ASSUME TypeOK, NEW n \in Widths, NEW addr \in Address, NEW b \in Bytes(n),
         Load(n, addr, b)
  PROVE  Flat!Load(n, addr, b)
<1>1. Flat!Calls("load", addr, n, b)
  BY DEF Load, Calls, Flat!Calls
<1>2. CASE ~ Fits(memory, addr, n) /\ Abort
  <2>1. ~ Flat!InOneRegion(addr, n)
    BY <1>2, OneRegionFits DEF Fits
  <2> QED BY <1>1, <1>2, <2>1 DEF Flat!Load, Flat!Fault, Abort
<1>3. CASE b \in LoadReplies(memory, addr, n) /\ UNCHANGED <<memory, state>>
  <2>1. ASSUME Flat!InOneRegion(addr, n), NEW i \in 0 .. n - 1
        PROVE  b[i] = View(memory)[Flat!At(addr, i)]
    <3>1. PICK k \in DOMAIN memory :
            /\ FitsIn(memory, k, addr, n)
            /\ Flat!At(addr, i) = addr + i
            /\ addr + i \in Address
            /\ Hits(memory, k, addr + i)
      BY <2>1, OneRegionFits
    <3>2. ~ Unmatched(memory, addr) /\ SegmentOf(memory, addr) = k
      BY <3>1, HitIsUnique DEF FitsIn, TypeOK
    <3> DEFINE offset == addr - memory[k].start
    <3>3. offset + i < Size(memory[k]) => b[i] = ByteOf(memory[k], offset + i)
      BY <1>3, <3>2 DEF LoadReplies
    <3>4. memory[k].start \in Nat /\ Size(memory[k]) \in Nat /\ addr \in Nat /\ n \in Nat
      BY ListOfSegments, SegmentFields DEF Address, TypeOK
    <3>5. offset + i < Size(memory[k]) /\ offset + i = (addr + i) - memory[k].start
      BY <3>1, <3>4 DEF FitsIn
    <3>6. View(memory)[addr + i] = ByteOf(memory[k], (addr + i) - memory[k].start)
      BY <3>1, <3>5, ViewWhereItHits DEF TypeOK
    <3> QED BY <3>1, <3>3, <3>5, <3>6
  <2> QED BY <1>1, <1>3, <2>1 DEF Flat!Load
<1> QED BY <1>2, <1>3 DEF Load

(* A write into one vector shows at the addresses it names and nowhere     *)
(* else.                                                                   *)
LEMMA WriteShows ==
  ASSUME NEW mem \in Seq(Segment), NEW addr \in Address, NEW n \in Widths,
         NEW b \in Bytes(n), NEW k \in DOMAIN mem, Hits(mem, k, addr),
         NEW x \in Address
  PROVE  /\ x \notin addr .. addr + n - 1 =>
              View(WriteBytes(mem, addr, n, b))[x] = View(mem)[x]
         /\ x \in addr .. addr + n - 1 /\ Hits(mem, k, x) /\ View(mem)[x] # NoByte =>
              View(WriteBytes(mem, addr, n, b))[x] = b[x - addr]
<1> DEFINE new == WriteBytes(mem, addr, n, b)
<1>1. ~ Unmatched(mem, addr) /\ n \in Nat
  BY SizesAreAddresses DEF Unmatched
<1>2. SameLayout(mem, new) /\ new \in Seq(Segment)
  BY <1>1, WriteKeepsLayout DEF SameLayout
<1>3. CASE Unmatched(mem, x)
  <2>1. Unmatched(new, x)
    BY <1>2, <1>3, LayoutDecides
  <2> QED BY <1>2, <1>3, <2>1, ViewWhereNothingHits
<1>4. ASSUME NEW l \in DOMAIN mem, Hits(mem, l, x)
      PROVE  /\ x \notin addr .. addr + n - 1 => View(new)[x] = View(mem)[x]
             /\ x \in addr .. addr + n - 1 /\ l = k /\ View(mem)[x] # NoByte =>
                  View(new)[x] = b[x - addr]
  <2> DEFINE o == x - mem[l].start
  <2>1. l \in DOMAIN new /\ Hits(new, l, x) /\ new[l].start = mem[l].start
                        /\ Size(new[l]) = Size(mem[l])
    BY <1>2, <1>4, LayoutDecides DEF SameLayout
  <2>2. /\ o \in Nat
        /\ View(mem)[x] = IF o < Size(mem[l]) THEN ByteOf(mem[l], o) ELSE NoByte
        /\ View(mem)[x] # NoByte <=> o < Size(mem[l])
    BY <1>4, ViewWhereItHits
  <2>3. View(new)[x] = IF o < Size(mem[l]) THEN ByteOf(new[l], o) ELSE NoByte
    BY <1>2, <2>1, ViewWhereItHits
  <2>4. Size(mem[l]) \in Nat
    BY ListOfSegments, SegmentFields DEF Address
  <2>5. mem[l].start \in Nat /\ mem[k].start \in Nat /\ addr \in Nat /\ x \in Nat
    BY ListOfSegments, SegmentFields DEF Address
  <2> DEFINE offset == addr - mem[k].start
  <2>6. ASSUME o < Size(mem[l])
        PROVE  ByteOf(new[l], o) = IF l = k /\ o - offset \in 0 .. n - 1
                                   THEN b[o - offset] ELSE ByteOf(mem[l], o)
    <3>1. o \in 0 .. Size(mem[l]) - 1
      BY <2>2, <2>4, <2>6
    <3> HIDE DEF o
    <3> QED BY <1>1, <3>1, WriteEffect
  <2>7. l = k => /\ o - offset \in 0 .. n - 1 <=> x \in addr .. addr + n - 1
                 /\ o - offset = x - addr
    BY <1>1, <2>5
  <2> HIDE DEF new, o, offset
  <2> QED BY <2>2, <2>3, <2>6, <2>7
<1> QED BY <1>3, <1>4 DEF Unmatched

LEMMA SpanHolds ==
  ASSUME NEW n \in Widths, NEW addr \in Address, NEW x \in Address,
         x \in addr .. addr + n - 1
  PROVE  x \in Flat!Span(addr, n)
<1>1. n \in Nat /\ n < AddrMod /\ addr \in Nat /\ x \in Nat /\ x < AddrMod
  BY DEF Address
<1>2. x - addr \in 0 .. n - 1 /\ x = Flat!At(addr, x - addr)
  BY <1>1 DEF Flat!At
<1> QED BY <1>2 DEF Flat!Span

LEMMA WriteChangesOnly ==
  ASSUME TypeOK, NEW n \in Widths, NEW addr \in Address, NEW b \in Bytes(n),
         ~ Unmatched(memory, addr), memory' = WriteBytes(memory, addr, n, b)
  PROVE  Flat!ChangesOnly(addr, n)
<1>1. SameLayout(memory, memory')
  BY WriteKeepsLayout, SizesAreAddresses DEF TypeOK
<1>2. PICK k \in DOMAIN memory : Hits(memory, k, addr)
  BY DEF Unmatched
<1>3. \A x \in Address \ Flat!Span(addr, n) : View(memory')[x] = View(memory)[x]
  BY <1>2, SpanHolds, WriteShows DEF TypeOK
<1> QED BY <1>1, <1>3, SameLayoutKeepsView
        DEF TypeOK, Flat!ChangesOnly, Flat!Address, Address

LEMMA StoreImplements ==
  ASSUME TypeOK, state = "ok",
         NEW n \in Widths, NEW addr \in Address, NEW b \in Bytes(n), Store(n, addr, b)
  PROVE  Flat!Store(n, addr, b)
<1>1. Flat!Calls("store", addr, n, b)
  BY DEF Store, Calls, Flat!Calls
<1>2. CASE Flat!InOneRegion(addr, n)
  <2>1. PICK k \in DOMAIN memory :
          /\ FitsIn(memory, k, addr, n)
          /\ \A i \in 0 .. n - 1 :
               /\ Flat!At(addr, i) = addr + i
               /\ addr + i \in Address
               /\ Hits(memory, k, addr + i)
    BY <1>2, OneRegionFits
  <2>2. Fits(memory, addr, n) /\ ~ Unmatched(memory, addr)
    BY <2>1 DEF Fits, FitsIn, Unmatched
  <2>3. memory' = WriteBytes(memory, addr, n, b) /\ UNCHANGED state
    BY <2>2 DEF Store, Overruns
  <2>4. Flat!ChangesOnly(addr, n)
    BY <2>2, <2>3, WriteChangesOnly
  <2>5. ASSUME NEW i \in 0 .. n - 1, View(memory)[Flat!At(addr, i)] # NoByte
        PROVE  View(memory')[Flat!At(addr, i)] = b[i]
    <3>1. addr \in Nat /\ n \in Nat
      BY SizesAreAddresses
    <3>2. addr + i \in addr .. addr + n - 1 /\ (addr + i) - addr = i
      BY <3>1
    <3>3. Hits(memory, k, addr)
      BY <2>1 DEF FitsIn
    <3> QED BY <2>1, <2>3, <2>5, <3>2, <3>3, WriteShows DEF TypeOK
  <2> QED BY <1>1, <1>2, <2>3, <2>4, <2>5 DEF Flat!Store, Flat!Written
<1>3. CASE ~ Flat!InOneRegion(addr, n)
  <2>1. CASE ~ Fits(memory, addr, n) /\ Abort
    BY <1>1, <1>3, <2>1 DEF Flat!Store, Flat!Fault, Abort
  <2>2. CASE memory' = memory /\ UNCHANGED state
    <3>1. Flat!ChangesOnly(addr, n)
      BY <2>2, ViewIsTyped DEF TypeOK, Flat!ChangesOnly, Flat!Address, Address
    <3> QED BY <1>1, <1>3, <2>2, <3>1 DEF Flat!Store, Flat!MaySpill
  <2>3. CASE ~ Unmatched(memory, addr) /\ memory' = WriteBytes(memory, addr, n, b)
             /\ (UNCHANGED state \/ (NDEBUG /\ Spill))
    <3>1. Flat!ChangesOnly(addr, n)
      BY <2>3, WriteChangesOnly
    <3>2. Flat!MaySpill
      <4>1. CASE NDEBUG
        BY <2>3, <4>1 DEF Flat!MaySpill, Spill
      <4>2. CASE ~ NDEBUG
        BY <2>3, <4>2 DEF Flat!MaySpill
      <4> QED BY <4>1, <4>2
    <3> QED BY <1>1, <1>3, <3>1, <3>2 DEF Flat!Store
  <2>4. Fits(memory, addr, n) => ~ Unmatched(memory, addr)
    BY NoHit DEF TypeOK
  <2>5. \/ ~ Fits(memory, addr, n) /\ Abort
        \/ memory' = memory /\ UNCHANGED state
        \/ /\ ~ Unmatched(memory, addr)
           /\ memory' = WriteBytes(memory, addr, n, b)
           /\ UNCHANGED state \/ (NDEBUG /\ Spill)
    BY <2>4 DEF Store, Overruns
  <2> QED BY <2>1, <2>2, <2>3, <2>5
<1> QED BY <1>2, <1>3

LEMMA MissingIsUnmapped ==
  ASSUME TypeOK, NEW addr \in Address, NEW n \in 0 .. MaxCopy, NEW i \in 0 .. n - 1
  PROVE  /\ i \in Address
         /\ Flat!At(addr, i) = Wrap(addr + i)
         /\ Wrap(addr + i) \in Address
         /\ i \in Missing(memory, addr, n) <=> View(memory)[Wrap(addr + i)] = NoByte
<1>1. i \in Address
  BY DEF Address
<1>2. Flat!At(addr, i) = Wrap(addr + i) /\ Wrap(addr + i) \in Address
  BY <1>1, SpanOfCopy
<1> QED BY <1>1, <1>2, ViewIsTyped DEF Missing, TypeOK

LEMMA MappedIsNoneMissing ==
  ASSUME TypeOK, NEW addr \in Address, NEW n \in 0 .. MaxCopy
  PROVE  Flat!Mapped(addr, n) <=> Missing(memory, addr, n) = {}
<1>1. Missing(memory, addr, n) \subseteq 0 .. n - 1
  BY DEF Missing
<1> QED BY <1>1, MissingIsUnmapped DEF Flat!Mapped, Flat!Span

LEMMA CopyGuestToHostImplements ==
  ASSUME TypeOK, NEW n \in 0 .. MaxCopy, NEW addr \in Address, NEW b \in Bytes(n),
         CopyGuestToHost(addr, b, n)
  PROVE  Flat!CopyGuestToHost(addr, n, b)
<1>1. Flat!Calls("guest_to_host", addr, n, b)
  BY DEF CopyGuestToHost, Calls, Flat!Calls
<1>2. CASE Missing(memory, addr, n) # {} /\ Abort
  BY <1>1, <1>2, MappedIsNoneMissing DEF Flat!CopyGuestToHost, Flat!Fault, Abort
<1>3. CASE /\ NDEBUG \/ Missing(memory, addr, n) = {}
           /\ b \in CopyReplies(memory, addr, n)
           /\ UNCHANGED <<memory, state>>
  <2>1. ASSUME NEW i \in 0 .. n - 1, View(memory)[Flat!At(addr, i)] # NoByte
        PROVE  b[i] = View(memory)[Flat!At(addr, i)]
    <3> DEFINE x == Wrap(addr + i)
    <3>1. x \in Address /\ Flat!At(addr, i) = x /\ Fits(memory, x, 1)
      BY <2>1, MissingIsUnmapped, ViewIsTyped DEF TypeOK
    <3>2. View(memory)[x] = ByteAt(memory, x)
      BY <3>1 DEF View
    <3>3. b[i] = ByteAt(memory, x)
      BY <1>3, <3>1 DEF CopyReplies
    <3> QED BY <3>1, <3>2, <3>3
  <2> QED BY <1>1, <1>3, <2>1, MappedIsNoneMissing DEF Flat!CopyGuestToHost
<1> QED BY <1>2, <1>3 DEF CopyGuestToHost

(* What the first m bytes of a copy into the guest do to the flat memory.  *)
LEMMA CopyShows ==
  ASSUME NEW mem \in Seq(Segment), NEW addr \in Address, NEW n \in 0 .. MaxCopy,
         NEW m \in 0 .. n, NEW b \in Bytes(n), NEW x \in Address
  PROVE  View(CopyBytes(mem, addr, m, b))[x] =
           IF Wrap(x - addr) < m /\ View(mem)[x] # NoByte THEN b[Wrap(x - addr)]
                                                        ELSE View(mem)[x]
<1> DEFINE new == CopyBytes(mem, addr, m, b)
<1>1. SameLayout(mem, new) /\ new \in Seq(Segment)
  <2>1. m \in Nat /\ n \in Nat /\ m <= n /\ n < AddrMod
    BY DEF Address
  <2> QED BY <2>1, CopyKeepsLayout DEF SameLayout
<1>2. CASE Unmatched(mem, x)
  <2>1. Unmatched(new, x)
    BY <1>1, <1>2, LayoutDecides
  <2> QED BY <1>1, <1>2, <2>1, ViewWhereNothingHits
<1>3. ASSUME NEW k \in DOMAIN mem, Hits(mem, k, x)
      PROVE  View(new)[x] = IF Wrap(x - addr) < m /\ View(mem)[x] # NoByte
                            THEN b[Wrap(x - addr)] ELSE View(mem)[x]
  <2> DEFINE o == x - mem[k].start
  <2>1. k \in DOMAIN new /\ Hits(new, k, x) /\ new[k].start = mem[k].start
                        /\ Size(new[k]) = Size(mem[k])
    BY <1>1, <1>3, LayoutDecides DEF SameLayout
  <2>2. /\ o \in Nat
        /\ View(mem)[x] = IF o < Size(mem[k]) THEN ByteOf(mem[k], o) ELSE NoByte
        /\ View(mem)[x] # NoByte <=> o < Size(mem[k])
    BY <1>3, ViewWhereItHits
  <2>3. View(new)[x] = IF o < Size(mem[k]) THEN ByteOf(new[k], o) ELSE NoByte
    BY <1>1, <2>1, ViewWhereItHits
  <2>4. Size(mem[k]) \in Nat /\ mem[k].start \in Nat /\ x \in Nat
    BY ListOfSegments, SegmentFields DEF Address
  <2>5. mem[k].start + o = x
    BY <2>4
  <2>6. ASSUME o < Size(mem[k])
        PROVE  ByteOf(new[k], o) = IF Wrap(x - addr) < m THEN b[Wrap(x - addr)]
                                                     ELSE ByteOf(mem[k], o)
    <3>1. o \in 0 .. Size(mem[k]) - 1
      BY <2>2, <2>4, <2>6
    <3> HIDE DEF o
    <3>2. ByteOf(new[k], o) = IF Hits(mem, k, x) /\ Wrap(x - addr) < m
                           THEN b[Wrap(x - addr)] ELSE ByteOf(mem[k], o)
      BY <2>5, <3>1, CopyEffect
    <3> QED BY <1>3, <3>2
  <2> HIDE DEF new, o
  <2> QED BY <2>2, <2>3, <2>6
<1> QED BY <1>2, <1>3 DEF Unmatched

LEMMA CopyChangesOnly ==
  ASSUME TypeOK, NEW n \in 0 .. MaxCopy, NEW m \in 0 .. n, NEW addr \in Address,
         NEW b \in Bytes(n), memory' = CopyBytes(memory, addr, m, b)
  PROVE  Flat!ChangesOnly(addr, m) /\ Flat!Written(addr, m, b)
<1>1. SameLayout(memory, memory')
  <2>1. m \in Nat /\ n \in Nat /\ m <= n /\ n < AddrMod
    BY DEF Address
  <2> QED BY <2>1, CopyKeepsLayout DEF TypeOK
<1>2. ASSUME NEW x \in Address \ Flat!Span(addr, m)
      PROVE  View(memory')[x] = View(memory)[x]
  <2> DEFINE i == Wrap(x - addr)
  <2>1. i \in Address /\ Wrap(addr + i) = x
    BY WrapBack
  <2>2. Flat!At(addr, i) = x
    BY <2>1, SpanOfCopy
  <2>3. ~ (i < m)
    BY <2>1, <2>2 DEF Flat!Span, Address
  <2> QED BY <2>3, CopyShows DEF TypeOK
<1>3. ASSUME NEW i \in 0 .. m - 1, View(memory)[Flat!At(addr, i)] # NoByte
      PROVE  View(memory')[Flat!At(addr, i)] = b[i]
  <2> DEFINE x == Wrap(addr + i)
  <2>1. i \in Address /\ i < m
    BY DEF Address
  <2>2. x \in Address /\ Flat!At(addr, i) = x
    BY <2>1, SpanOfCopy
  <2>3. i = Wrap(x - addr)
    BY <2>1, <2>2, WrapBack
  <2> HIDE DEF x
  <2> QED BY <1>3, <2>1, <2>2, <2>3, CopyShows DEF TypeOK
<1>4. /\ View(memory') \in [Address -> Byte \cup {NoByte}]
      /\ \A x \in Address : View(memory)[x] = NoByte <=> View(memory')[x] = NoByte
      /\ Regions(memory') = Regions(memory)
  BY <1>1, SameLayoutKeepsView DEF TypeOK
<1>5. Flat!ChangesOnly(addr, m)
  BY <1>2, <1>4 DEF Flat!ChangesOnly, Flat!Address, Address
<1> QED BY <1>3, <1>5 DEF Flat!Written

LEMMA CopyHostToGuestImplements ==
  ASSUME TypeOK, state = "ok",
         NEW n \in 0 .. MaxCopy, NEW addr \in Address, NEW b \in Bytes(n),
         CopyHostToGuest(addr, b, n)
  PROVE  Flat!CopyHostToGuest(addr, n, b)
<1>1. Flat!Calls("host_to_guest", addr, n, b)
  BY DEF CopyHostToGuest, Calls, Flat!Calls
<1>2. CASE /\ NDEBUG \/ Missing(memory, addr, n) = {}
           /\ memory' = CopyBytes(memory, addr, n, b)
           /\ IF Spilling(memory, addr, n) = {} THEN UNCHANGED state ELSE Spill
  <2>1. Flat!ChangesOnly(addr, n) /\ Flat!Written(addr, n, b)
    BY <1>2, CopyChangesOnly
  <2>2. Missing(memory, addr, n) = {} => UNCHANGED state
    BY <1>2 DEF Missing, Spilling, Overruns
  <2>3. NDEBUG => Flat!MaySpill
    BY <1>2 DEF Spill, Flat!MaySpill
  <2> QED BY <1>1, <1>2, <2>1, <2>2, <2>3, MappedIsNoneMissing
          DEF Flat!CopyHostToGuest
<1>3. CASE /\ ~ NDEBUG
           /\ \E m \in Missing(memory, addr, n) :
                /\ \A i \in Missing(memory, addr, n) : m <= i
                /\ memory' = CopyBytes(memory, addr, m, b)
           /\ state' = "abort"
  <2>1. PICK m \in Missing(memory, addr, n) :
          /\ \A i \in Missing(memory, addr, n) : m <= i
          /\ memory' = CopyBytes(memory, addr, m, b)
    BY <1>3
  <2>2. m \in 0 .. n - 1 /\ m \in 0 .. n
    BY DEF Missing
  <2>3. Flat!ChangesOnly(addr, m) /\ Flat!Written(addr, m, b)
    BY <2>1, <2>2, CopyChangesOnly
  <2>4. View(memory)[Flat!At(addr, m)] = NoByte
    BY <2>2, MissingIsUnmapped
  <2>5. Flat!Mapped(addr, m)
    <3>1. ASSUME NEW i \in 0 .. m - 1 PROVE View(memory)[Flat!At(addr, i)] # NoByte
      <4>1. i \in 0 .. n - 1 /\ ~ (m <= i)
        BY <2>2
      <4> QED BY <2>1, <4>1, MissingIsUnmapped
    <3> QED BY <3>1 DEF Flat!Mapped, Flat!Span
  <2> QED BY <1>1, <1>3, <2>2, <2>3, <2>4, <2>5 DEF Flat!CopyHostToGuest
<1> QED BY <1>2, <1>3 DEF CopyHostToGuest

LEMMA AddSegmentImplements ==
  ASSUME TypeOK, NEW segm \in Extras, AddSegment(segm)
  PROVE  Flat!AddSegment(segm.start, Size(segm), Contents(segm))
<1>1. Flat!Calls("add_segment", segm.start, Size(segm), Contents(segm)) /\ UNCHANGED state
  BY DEF AddSegment, Calls, Flat!Calls
<1>2. memory' \in Seq(Segment) /\ memory' = Append(memory, segm)
  BY AddSegmentStep DEF TypeOK
<1>3. ASSUME NEW x \in Address, Regions(memory)[x] # 0
      PROVE  View(memory')[x] = View(memory)[x] /\ Regions(memory')[x] = Regions(memory)[x]
  <2>1. PICK k \in DOMAIN memory : Hits(memory, k, x)
    BY <1>3, ViewWhereNothingHits DEF TypeOK, Unmatched
  <2>2. k \in DOMAIN memory' /\ \A l \in 1 .. k : memory'[l] = memory[l]
    BY <1>2, ListOfSegments DEF TypeOK
  <2>3. Hits(memory', k, x) /\ memory'[k] = memory[k]
    BY <2>1, <2>2, ListOfSegments DEF Hits, TypeOK
  <2> DEFINE o == x - memory[k].start
  <2>4. /\ View(memory)[x] = IF o < Size(memory[k]) THEN ByteOf(memory[k], o) ELSE NoByte
        /\ Regions(memory)[x] = k
    BY <2>1, ViewWhereItHits DEF TypeOK
  <2>5. LET p == x - memory'[k].start
        IN  /\ View(memory')[x] = IF p < Size(memory'[k]) THEN ByteOf(memory'[k], p) ELSE NoByte
            /\ Regions(memory')[x] = k
    BY <1>2, <2>2, <2>3, ViewWhereItHits
  <2> QED BY <2>3, <2>4, <2>5
<1> QED BY <1>1, <1>2, <1>3, ViewIsTyped
        DEF Flat!AddSegment, Flat!Address, Address

(* The list of segments, with first match, memcpy and the byte-wise        *)
(* copies, implements the flat memory of FlatMemory in both builds         *)
(* (memory.cpp:20-122).                                                    *)
THEOREM MemoryImplementsFlatMemory == Spec => ImplementsFlatMemory
<1>1. TypeOK /\ Init => Flat!Init
  BY ViewIsTyped DEF Init, TypeOK, Flat!Init, Flat!Address, Address
<1>2. TypeOK /\ [Next]_vars => [Flat!Next]_(Flat!vars)
  <2>1. TypeOK /\ UNCHANGED vars => UNCHANGED Flat!vars
    BY DEF vars, Flat!vars
  <2>2. ASSUME TypeOK, Next PROVE Flat!Next
    <3>1. state = "ok"
      BY <2>2 DEF Next
    <3>2. CASE \E n \in Widths, addr \in Address : \E b \in Bytes(n) :
                 Load(n, addr, b) \/ Store(n, addr, b)
      BY <2>2, <3>1, <3>2, LoadImplements, StoreImplements
         DEF Flat!Next, Flat!Address, Address, Flat!Bytes, Bytes
    <3>3. CASE \E n \in 0 .. MaxCopy, addr \in Address : \E b \in Bytes(n) :
                 CopyGuestToHost(addr, b, n) \/ CopyHostToGuest(addr, b, n)
      BY <2>2, <3>1, <3>3, CopyGuestToHostImplements, CopyHostToGuestImplements
         DEF Flat!Next, Flat!Address, Address, Flat!Bytes, Bytes
    <3>4. CASE \E segm \in Extras : AddSegment(segm)
      <4>1. PICK segm \in Extras : AddSegment(segm)
        BY <3>4
      <4>2. segm.start \in Address /\ Size(segm) \in Address
            /\ Contents(segm) \in Bytes(Size(segm))
        BY SegmentFields, ContentsAreBytes
      <4>3. Flat!AddSegment(segm.start, Size(segm), Contents(segm))
        BY <2>2, <4>1, AddSegmentImplements
      <4> QED BY <3>1, <4>2, <4>3
              DEF Flat!Next, Flat!Address, Address, Flat!Bytes, Bytes
    <3> QED BY <2>2, <3>2, <3>3, <3>4 DEF Next
  <2> QED BY <2>1, <2>2
<1> QED BY <1>1, <1>2, TypeCorrect, PTL DEF Spec, ImplementsFlatMemory, Flat!Spec
=============================================================================
