------------------------------ MODULE Segments ------------------------------
(***************************************************************************)
(* Guest memory as sim/memory.cpp keeps it: a list of segments searched in *)
(* order, each an address range and the vector that holds its bytes.  The  *)
(* operators here are pure; Memory and RVSim build their actions from them.*)
(*                                                                         *)
(* The three permission flags of MemorySegm are left out: no function of   *)
(* the program reads them (memory.hpp: "FIXME check perms").               *)
(***************************************************************************)
EXTENDS Integers, Sequences

CONSTANTS
  AddrMod,    \* number of addresses; isa::Address is a uint32_t, so 2^32 in the code
  Byte,       \* the values of an isa::MemByte
  ZeroByte    \* the byte 0

ASSUME AddressAssumption ==
  /\ AddrMod \in Nat \ {0}
  /\ ZeroByte \in Byte

Address == 0 .. AddrMod - 1

(* uint32_t wrap-around of addr + i or addr - i, for i below AddrMod.      *)
Wrap(z) == IF z >= AddrMod THEN z - AddrMod
           ELSE IF z < 0 THEN z + AddrMod ELSE z

(* A buffer of n bytes, indexed from 0.                                    *)
Bytes(n) == [0 .. n - 1 -> Byte]

(* A MemorySegm.  Nothing ties the range to the vector: the loader makes   *)
(* the size of data end - start, the argv segment of RVSim is 4 bytes      *)
(* shorter.                                                                *)
Segment ==
  {segm \in [start : Address, end : Address, data : Seq(Byte)] : Len(segm.data) < AddrMod}

Size(segm) == Len(segm.data)
ByteOf(segm, offset) == segm.data[offset + 1]   \* segm.data.data()[offset]

IsAddrInSegment(addr, segm) == segm.start <= addr /\ addr < segm.end

(* The loop over memory_ stops at segment k for addr.                      *)
Hits(mem, k, addr) ==
  /\ IsAddrInSegment(addr, mem[k])
  /\ \A l \in 1 .. k - 1 : ~ IsAddrInSegment(addr, mem[l])

(* The loop stops nowhere and falls through to                             *)
(* assert(!"no segment matched address").                                  *)
Unmatched(mem, addr) == \A k \in DOMAIN mem : ~ Hits(mem, k, addr)

(* An access of n bytes whose memcpy stays inside the vector of segment k. *)
FitsIn(mem, k, addr, n) ==
  /\ Hits(mem, k, addr)
  /\ addr - mem[k].start + n <= Size(mem[k])

Fits(mem, addr, n) == \E k \in DOMAIN mem : FitsIn(mem, k, addr, n)

(* Only the first byte is tested against the segment: the memcpy may run   *)
(* past the end of the vector.                                             *)
Overruns(mem, addr, n) == ~ Unmatched(mem, addr) /\ ~ Fits(mem, addr, n)

(* There is an address in the range.                                       *)
HasRange(segm) == segm.start < segm.end

(* Of the segments that serve anything, no vector is longer than its       *)
(* range, and none begins inside the vector of one that is searched after  *)
(* it: the bytes of an access that stays in a vector are then those that   *)
(* the same segment serves one by one.                                     *)
Unbroken(mem) ==
  \A k \in {j \in DOMAIN mem : HasRange(mem[j])} :
    /\ Size(mem[k]) <= mem[k].end - mem[k].start
    /\ \A l \in {j \in 1 .. k - 1 : HasRange(mem[j])} :
         mem[l].start \notin mem[k].start + 1 .. mem[k].start + Size(mem[k]) - 1

SegmentOf(mem, addr) == CHOOSE k \in DOMAIN mem : Hits(mem, k, addr)

(* The segment that serves addr, or 0.                                     *)
RegionOf(mem, addr) == IF Unmatched(mem, addr) THEN 0 ELSE SegmentOf(mem, addr)

ByteAt(mem, addr) ==
  LET k == SegmentOf(mem, addr) IN ByteOf(mem[k], addr - mem[k].start)

(* What an access of n bytes may return when no assert stops it: 0 where   *)
(* no segment matches, and any values past the end of the vector.          *)
LoadReplies(mem, addr, n) ==
  IF Unmatched(mem, addr) THEN {[i \in 0 .. n - 1 |-> ZeroByte]}
  ELSE LET k == SegmentOf(mem, addr)
           offset == addr - mem[k].start
           inside == {i \in 0 .. n - 1 : offset + i < Size(mem[k])}
       IN  {[i \in 0 .. n - 1 |-> IF i \in inside THEN ByteOf(mem[k], offset + i) ELSE past[i]] :
              past \in [(0 .. n - 1) \ inside -> Byte]}

(* The calls of a byte-wise copy that find no byte to read or write, and   *)
(* those among them that run past the end of a vector.                     *)
Missing(mem, addr, n) == {i \in 0 .. n - 1 : ~ Fits(mem, Wrap(addr + i), 1)}
Spilling(mem, addr, n) == {i \in 0 .. n - 1 : Overruns(mem, Wrap(addr + i), 1)}

(* Mutant: the address is not advanced.                                    *)
CopyReplies_sameByte(mem, addr, n) ==
  {[i \in 0 .. n - 1 |->
      IF Fits(mem, addr, 1) THEN ByteAt(mem, addr)
      ELSE IF Unmatched(mem, addr) THEN ZeroByte ELSE past] : past \in Byte}

(* What n calls of LoadU8, on consecutive addresses, may return.           *)
CopyReplies(mem, addr, n) ==
  {[i \in 0 .. n - 1 |->
      LET x == Wrap(addr + i)
      IN  IF Fits(mem, x, 1) THEN ByteAt(mem, x)
          ELSE IF Unmatched(mem, x) THEN ZeroByte ELSE past[i]] :
   past \in [Spilling(mem, addr, n) -> Byte]}

(* Wrong variants, kept as mutants: a store that inserts into the vector,  *)
(* and one that lays its bytes in big-endian order.                        *)
WriteBytes_insert(mem, addr, n, b) ==
  LET k == SegmentOf(mem, addr)
      offset == addr - mem[k].start
  IN  [mem EXCEPT ![k].data =
         SubSeq(@, 1, offset) \o [p \in 1 .. n |-> b[p - 1]] \o SubSeq(@, offset + 1, Len(@))]
WriteBytes_bigEndian(mem, addr, n, b) ==
  LET k == SegmentOf(mem, addr)
      offset == addr - mem[k].start
  IN  [mem EXCEPT ![k].data =
         [p \in DOMAIN @ |-> LET i == p - 1 - offset
                             IN  IF i \in 0 .. n - 1 THEN b[n - 1 - i] ELSE @[p]]]

(* memcpy of the n bytes b into the vector that addr falls in.             *)
WriteBytes(mem, addr, n, b) ==
  LET k == SegmentOf(mem, addr)
      offset == addr - mem[k].start
  IN  [mem EXCEPT ![k].data =
         [p \in DOMAIN @ |-> LET i == p - 1 - offset
                             IN  IF i \in 0 .. n - 1 THEN b[i] ELSE @[p]]]

(* Mutants: a copy that leaves out its last byte, and one in the wrong     *)
(* order.                                                                  *)
CopyBytes_short(mem, addr, m, b) ==
  [k \in DOMAIN mem |-> [mem[k] EXCEPT !.data =
     [p \in DOMAIN @ |->
        LET x == mem[k].start + (p - 1)
            i == Wrap(x - addr)
        IN  IF Hits(mem, k, x) /\ i < m - 1 THEN b[i] ELSE @[p]]]]
CopyBytes_reversed(mem, addr, m, b) ==
  [k \in DOMAIN mem |-> [mem[k] EXCEPT !.data =
     [p \in DOMAIN @ |->
        LET x == mem[k].start + (p - 1)
            i == Wrap(x - addr)
        IN  IF Hits(mem, k, x) /\ i < m THEN b[m - 1 - i] ELSE @[p]]]]

(* The first m StoreU8 calls of CopyHostToGuest, those that match no       *)
(* segment storing nothing.                                                *)
CopyBytes(mem, addr, m, b) ==
  [k \in DOMAIN mem |-> [mem[k] EXCEPT !.data =
     [p \in DOMAIN @ |->
        LET x == mem[k].start + (p - 1)
            i == Wrap(x - addr)
        IN  IF Hits(mem, k, x) /\ i < m THEN b[i] ELSE @[p]]]]
=============================================================================
