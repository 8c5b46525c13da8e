--------------------------- MODULE SegmentsProofs ---------------------------
(***************************************************************************)
(* Lemmas about lists of segments, for every address width: which segment  *)
(* serves an address, and what a write or a copy changes.                  *)
(***************************************************************************)
EXTENDS Segments, TLAPS, SequenceTheorems

USE AddressAssumption
-----------------------------------------------------------------------------
(* Segments and lists of segments.                                         *)

LEMMA SegmentFields ==
  ASSUME NEW s \in Segment
  PROVE  /\ s.start \in Address
         /\ s.end \in Address
         /\ s.data \in Seq(Byte)
         /\ Size(s) \in Address
         /\ DOMAIN s.data = 1 .. Size(s)
         /\ \A p \in 1 .. Size(s) : s.data[p] \in Byte
         /\ \A o \in 0 .. Size(s) - 1 : ByteOf(s, o) \in Byte
BY DEF Segment, Size, ByteOf, Address

LEMMA SegmentWithData ==
  ASSUME NEW s \in Segment, NEW d \in [1 .. Size(s) -> Byte]
  PROVE  LET new == [s EXCEPT !.data = d]
         IN  /\ new \in Segment
             /\ new.start = s.start /\ new.end = s.end /\ Size(new) = Size(s)
             /\ new.data = d
<1>1. Size(s) \in Nat /\ Size(s) < AddrMod
  BY SegmentFields DEF Address
<1>2. d \in Seq(Byte) /\ Len(d) = Size(s)
  BY <1>1
<1> QED BY <1>1, <1>2 DEF Segment, Size

LEMMA ListOfSegments ==
  ASSUME NEW mem \in Seq(Segment)
  PROVE  /\ DOMAIN mem = 1 .. Len(mem)
         /\ Len(mem) \in Nat
         /\ \A k \in DOMAIN mem : mem[k] \in Segment
OBVIOUS

(* The loop over the segments stops at one place.                          *)
LEMMA HitIsUnique ==
  ASSUME NEW mem \in Seq(Segment), NEW x,
         NEW k \in DOMAIN mem, Hits(mem, k, x)
  PROVE  /\ \A l \in DOMAIN mem : Hits(mem, l, x) => l = k
         /\ SegmentOf(mem, x) = k
         /\ RegionOf(mem, x) = k
         /\ ~ Unmatched(mem, x)
<1>1. \A l \in DOMAIN mem : Hits(mem, l, x) => l = k
  BY ListOfSegments DEF Hits
<1>2. SegmentOf(mem, x) = k
  BY <1>1 DEF SegmentOf
<1> QED BY <1>1, <1>2 DEF RegionOf, Unmatched

(* An address outside every segment is no place of a list of segments.     *)
LEMMA NoHit ==
  ASSUME NEW mem \in Seq(Segment), NEW x, Unmatched(mem, x)
  PROVE  RegionOf(mem, x) = 0 /\ 0 \notin DOMAIN mem /\ \A n : ~ Fits(mem, x, n)
BY ListOfSegments DEF RegionOf, Unmatched, Fits, FitsIn

LEMMA FitsWhereItHits ==
  ASSUME NEW mem \in Seq(Segment), NEW x, NEW n,
         NEW k \in DOMAIN mem, Hits(mem, k, x)
  PROVE  Fits(mem, x, n) <=> x - mem[k].start + n <= Size(mem[k])
BY HitIsUnique DEF Fits, FitsIn

-----------------------------------------------------------------------------
(* What the stores and copies leave alone: the place, range and size of    *)
(* every segment.                                                          *)

SameLayout(mem, new) ==
  /\ new \in Seq(Segment)
  /\ DOMAIN new = DOMAIN mem
  /\ \A k \in DOMAIN mem : /\ new[k].start = mem[k].start
                           /\ new[k].end = mem[k].end
                           /\ Size(new[k]) = Size(mem[k])

LEMMA LayoutDecides ==
  ASSUME NEW mem \in Seq(Segment), NEW new, SameLayout(mem, new)
  PROVE  /\ \A k \in DOMAIN mem : \A x : Hits(new, k, x) <=> Hits(mem, k, x)
         /\ \A x : Unmatched(new, x) <=> Unmatched(mem, x)
         /\ \A x, n : Fits(new, x, n) <=> Fits(mem, x, n)
         /\ \A x : SegmentOf(new, x) = SegmentOf(mem, x)
         /\ \A x : RegionOf(new, x) = RegionOf(mem, x)
<1>1. ASSUME NEW k \in DOMAIN mem, NEW x PROVE Hits(new, k, x) <=> Hits(mem, k, x)
  <2>1. \A l \in DOMAIN mem : IsAddrInSegment(x, new[l]) <=> IsAddrInSegment(x, mem[l])
    BY DEF SameLayout, IsAddrInSegment
  <2>2. 1 .. k - 1 \subseteq DOMAIN mem
    BY ListOfSegments
  <2> QED BY <2>1, <2>2 DEF Hits
<1>2. \A x : Unmatched(new, x) <=> Unmatched(mem, x)
  BY <1>1 DEF Unmatched, SameLayout
<1>3. \A x, n : Fits(new, x, n) <=> Fits(mem, x, n)
  BY <1>1 DEF Fits, FitsIn, SameLayout
<1>4. \A x : SegmentOf(new, x) = SegmentOf(mem, x)
  BY <1>1 DEF SegmentOf, SameLayout
<1> QED BY <1>1, <1>2, <1>3, <1>4 DEF RegionOf

LEMMA WriteKeepsLayout ==
  ASSUME NEW mem \in Seq(Segment), NEW addr \in Address, NEW n \in Nat,
         NEW b \in Bytes(n), ~ Unmatched(mem, addr)
  PROVE  SameLayout(mem, WriteBytes(mem, addr, n, b))
<1> DEFINE new == WriteBytes(mem, addr, n, b)
<1>1. PICK k \in DOMAIN mem : Hits(mem, k, addr)
  BY DEF Unmatched
<1>2. SegmentOf(mem, addr) = k
  BY <1>1, HitIsUnique
<1> DEFINE offset == addr - mem[k].start
           data == [p \in DOMAIN mem[k].data |->
                      LET i == p - 1 - offset
                      IN  IF i \in 0 .. n - 1 THEN b[i] ELSE mem[k].data[p]]
<1>3. new = [mem EXCEPT ![k] = [mem[k] EXCEPT !.data = data]]
  BY <1>2 DEF WriteBytes
<1>4. mem[k] \in Segment
  BY ListOfSegments
<1>5. data \in [1 .. Size(mem[k]) -> Byte]
  <2>1. /\ DOMAIN mem[k].data = 1 .. Size(mem[k])
        /\ \A p \in 1 .. Size(mem[k]) : mem[k].data[p] \in Byte
    BY <1>4, SegmentFields
  <2>2. \A i \in 0 .. n - 1 : b[i] \in Byte
    BY DEF Bytes
  <2> QED BY <2>1, <2>2
<1> DEFINE written == [mem[k] EXCEPT !.data = data]
<1>6. /\ written \in Segment
      /\ written.start = mem[k].start
      /\ written.end = mem[k].end
      /\ Size(written) = Size(mem[k])
  BY <1>4, <1>5, SegmentWithData
<1> HIDE DEF written, data
<1>7. new \in Seq(Segment) /\ DOMAIN new = DOMAIN mem
  BY <1>3, <1>6 DEF written
<1>8. new[k] = written /\ \A l \in DOMAIN mem \ {k} : new[l] = mem[l]
  BY <1>3 DEF written
<1> QED BY <1>6, <1>7, <1>8 DEF SameLayout

LEMMA WriteEffect ==
  ASSUME NEW mem \in Seq(Segment), NEW addr \in Address, NEW n \in Nat,
         NEW b \in Bytes(n), NEW k \in DOMAIN mem, Hits(mem, k, addr),
         NEW l \in DOMAIN mem, NEW o \in 0 .. Size(mem[l]) - 1
  PROVE  ByteOf(WriteBytes(mem, addr, n, b)[l], o) =
           LET i == o - (addr - mem[k].start)
           IN  IF l = k /\ i \in 0 .. n - 1 THEN b[i] ELSE ByteOf(mem[l], o)
<1> DEFINE offset == addr - mem[k].start
           new == WriteBytes(mem, addr, n, b)
<1>1. SegmentOf(mem, addr) = k
  BY HitIsUnique
<1>2. mem[k] \in Segment /\ mem[l] \in Segment
  BY ListOfSegments
<1>3. o + 1 \in DOMAIN mem[l].data
  BY <1>2, SegmentFields DEF Address
<1>4. CASE l # k
  BY <1>1, <1>4 DEF WriteBytes, ByteOf
<1>5. CASE l = k
  <2>1. new[k].data[o + 1] = LET i == (o + 1) - 1 - offset
                             IN  IF i \in 0 .. n - 1 THEN b[i] ELSE mem[k].data[o + 1]
    BY <1>1, <1>2, <1>3, <1>5 DEF WriteBytes, Segment
  <2>2. mem[k].start \in Int /\ addr \in Int /\ o \in Int
    BY <1>2, SegmentFields DEF Address
  <2>3. (o + 1) - 1 - offset = o - offset
    BY <2>2
  <2> HIDE DEF new, offset
  <2>4. ByteOf(new[k], o) = IF o - offset \in 0 .. n - 1 THEN b[o - offset]
                                                      ELSE ByteOf(mem[k], o)
    BY <2>1, <2>3 DEF ByteOf
  <2> QED BY <1>5, <2>4 DEF new, offset
<1> QED BY <1>4, <1>5

LEMMA WrapBack ==
  ASSUME NEW x \in Address, NEW addr \in Address
  PROVE  /\ Wrap(x - addr) \in Address
         /\ Wrap(addr + Wrap(x - addr)) = x
         /\ \A i \in Address : Wrap(addr + i) = x => i = Wrap(x - addr)
BY DEF Wrap, Address

LEMMA CopyKeepsLayout ==
  ASSUME NEW mem \in Seq(Segment), NEW addr \in Address, NEW m \in Nat,
         NEW n \in Nat, m <= n, n < AddrMod, NEW b \in Bytes(n)
  PROVE  SameLayout(mem, CopyBytes(mem, addr, m, b))
<1> DEFINE new == CopyBytes(mem, addr, m, b)
           data(k) == [p \in DOMAIN mem[k].data |->
                         LET x == mem[k].start + (p - 1)
                             i == Wrap(x - addr)
                         IN  IF Hits(mem, k, x) /\ i < m THEN b[i] ELSE mem[k].data[p]]
<1>1. new = [k \in 1 .. Len(mem) |-> [mem[k] EXCEPT !.data = data(k)]]
  BY ListOfSegments DEF CopyBytes
<1>2. ASSUME NEW k \in DOMAIN mem PROVE data(k) \in [1 .. Size(mem[k]) -> Byte]
  <2>1. mem[k] \in Segment
    BY ListOfSegments
  <2>2. ASSUME NEW x \in Int, Hits(mem, k, x), Wrap(x - addr) < m
        PROVE  Wrap(x - addr) \in 0 .. n - 1
    <3>1. x \in Address
      <4>1. mem[k].start \in Address /\ mem[k].end \in Address
        BY <2>1, SegmentFields
      <4> QED BY <2>2, <4>1 DEF Address, Hits, IsAddrInSegment
    <3>2. Wrap(x - addr) \in Address
      BY <3>1, WrapBack
    <3> QED BY <2>2, <3>2 DEF Address
  <2>3. DOMAIN mem[k].data = 1 .. Size(mem[k]) /\ mem[k].start \in Int
    BY <2>1, SegmentFields DEF Address
  <2>4. ASSUME NEW p \in 1 .. Size(mem[k]) PROVE data(k)[p] \in Byte
    <3>1. mem[k].data[p] \in Byte
      BY <2>1, SegmentFields
    <3>2. ASSUME NEW i \in 0 .. n - 1 PROVE b[i] \in Byte
      BY DEF Bytes
    <3> DEFINE x == mem[k].start + (p - 1)
    <3>3. data(k)[p] = IF Hits(mem, k, x) /\ Wrap(x - addr) < m
                       THEN b[Wrap(x - addr)] ELSE mem[k].data[p]
      BY <2>3
    <3>4. x \in Int
      BY <2>3
    <3> HIDE DEF data, x
    <3>5. CASE Hits(mem, k, x) /\ Wrap(x - addr) < m
      <4>1. Wrap(x - addr) \in 0 .. n - 1
        BY <2>2, <3>4, <3>5
      <4> QED BY <4>1, <3>2, <3>3, <3>5
    <3>6. CASE ~ (Hits(mem, k, x) /\ Wrap(x - addr) < m)
      BY <3>1, <3>3, <3>6
    <3> QED BY <3>5, <3>6
  <2> QED BY <2>3, <2>4
<1>3. ASSUME NEW k \in DOMAIN mem
      PROVE  LET copied == [mem[k] EXCEPT !.data = data(k)]
             IN  /\ copied \in Segment
                 /\ copied.start = mem[k].start
                 /\ copied.end = mem[k].end
                 /\ Size(copied) = Size(mem[k])
  BY <1>2, SegmentWithData, ListOfSegments
<1> HIDE DEF data
<1>4. new \in Seq(Segment) /\ DOMAIN new = DOMAIN mem
  <2>1. new \in [1 .. Len(mem) -> Segment]
    <3>1. ASSUME NEW k \in 1 .. Len(mem) PROVE [mem[k] EXCEPT !.data = data(k)] \in Segment
      BY <1>3, ListOfSegments
    <3> HIDE DEF new
    <3> QED BY <1>1, <3>1
  <2> QED BY <2>1, ListOfSegments, SeqDef
<1>5. \A k \in DOMAIN mem : new[k] = [mem[k] EXCEPT !.data = data(k)]
  BY <1>1, ListOfSegments
<1> QED BY <1>3, <1>4, <1>5 DEF SameLayout

LEMMA CopyEffect ==
  ASSUME NEW mem \in Seq(Segment), NEW addr, NEW m, NEW b,
         NEW k \in DOMAIN mem, NEW o \in 0 .. Size(mem[k]) - 1
  PROVE  ByteOf(CopyBytes(mem, addr, m, b)[k], o) =
           LET x == mem[k].start + o
           IN  IF Hits(mem, k, x) /\ Wrap(x - addr) < m THEN b[Wrap(x - addr)]
                                                       ELSE ByteOf(mem[k], o)
<1>1. mem[k] \in Segment
  BY ListOfSegments
<1>2. o + 1 \in DOMAIN mem[k].data /\ (o + 1) - 1 = o
  BY <1>1, SegmentFields DEF Address
<1> QED BY <1>1, <1>2 DEF CopyBytes, Segment, ByteOf

LEMMA SameLayoutAsItself ==
  ASSUME NEW mem \in Seq(Segment)
  PROVE  SameLayout(mem, mem)
BY DEF SameLayout
=============================================================================
