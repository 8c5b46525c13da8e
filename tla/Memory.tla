------------------------------- MODULE Memory -------------------------------
(***************************************************************************)
(* class Memory (sim/memory.hpp, sim/memory.cpp): the loads, stores and    *)
(* byte-wise copies of the simulator, over the list of segments of module  *)
(* Segments.                                                               *)
(*                                                                         *)
(* Two builds are modelled.  With NDEBUG (Release, RelWithDebInfo) the     *)
(* asserts are gone: a load that matches no segment returns 0, a store is  *)
(* dropped, and a memcpy past the end of a vector is undefined behaviour.  *)
(* Without it (Debug: asserts, and -fsanitize=address,undefined from       *)
(* flags/CMakeLists.txt) each of these ends the process.                   *)
(***************************************************************************)
EXTENDS Segments

CONSTANTS
  Widths,       \* bytes of a load or store: {1, 2, 4} in the code
  NDEBUG,       \* TRUE in a build without asserts and sanitizers
  Images,       \* the segment lists the constructor may be given
  Extras,       \* the segments AddSegment may be given
  MaxSegments,  \* bound on the length of the list
  MaxCopy,      \* bound on the size of a byte-wise copy, a size_t made from
                \* a 32-bit register
  NoByte        \* not a byte

ASSUME MemoryAssumption ==
  /\ Widths \subseteq 1 .. AddrMod - 1
  /\ NDEBUG \in BOOLEAN
  /\ Images \subseteq Seq(Segment)
  /\ Extras \subseteq Segment
  /\ MaxSegments \in Nat
  /\ MaxCopy \in Nat /\ MaxCopy < AddrMod
  /\ NoByte \notin Byte

VARIABLES
  memory,   \* memory_, the list of segments
  call,     \* the last call: its name, address and size, and the bytes it
            \* was given or returned
  state     \* "ok"; "abort" after an assert or a sanitizer stopped the
            \* process; "undefined" after a store corrupted the host heap

vars == <<memory, call, state>>

Ops == {"none", "load", "store", "guest_to_host", "host_to_guest", "add_segment"}

Call == UNION {[op : Ops, addr : Address, size : {n}, bytes : Bytes(n)] : n \in Address}

TypeOK ==
  /\ memory \in Seq(Segment)
  /\ call \in Call
  /\ state \in {"ok", "abort", "undefined"}

Calls(op, addr, n, b) == call' = [op |-> op, addr |-> addr, size |-> n, bytes |-> b]

Init ==
  /\ memory \in Images
  /\ call = [op |-> "none", addr |-> 0, size |-> 0, bytes |-> [i \in 0 .. -1 |-> ZeroByte]]
  /\ state = "ok"

(* An assert failed, or a sanitizer found an access outside a vector.      *)
Abort == ~ NDEBUG /\ state' = "abort" /\ UNCHANGED memory

(* LoadU8, LoadU16, LoadU32 (Fetch is LoadU32), returning b.               *)
Load(n, addr, b) ==
  /\ Calls("load", addr, n, b)
  /\ \/ ~ Fits(memory, addr, n) /\ Abort
     \/ /\ NDEBUG \/ Fits(memory, addr, n)
        /\ b \in LoadReplies(memory, addr, n)
        /\ UNCHANGED <<memory, state>>

(* A memcpy past the end of a vector may hit slack of the allocator or     *)
(* something the process needs.                                            *)
Spill == state' \in {"ok", "undefined"}

(* StoreU8, StoreU16, StoreU32.                                            *)
Store(n, addr, b) ==
  /\ Calls("store", addr, n, b)
  /\ \/ /\ Fits(memory, addr, n)
        /\ memory' = WriteBytes(memory, addr, n, b)
        /\ UNCHANGED state
     \/ ~ Fits(memory, addr, n) /\ Abort
     \/ NDEBUG /\ Unmatched(memory, addr) /\ UNCHANGED <<memory, state>>
     \/ /\ NDEBUG /\ Overruns(memory, addr, n)
        /\ memory' = WriteBytes(memory, addr, n, b)
        /\ Spill

(* The LoadU8 calls of CopyGuestToHost, one per byte, filling b.           *)
CopyGuestToHost(from_addr, b, size) ==
  /\ Calls("guest_to_host", from_addr, size, b)
  /\ \/ Missing(memory, from_addr, size) # {} /\ Abort
     \/ /\ NDEBUG \/ Missing(memory, from_addr, size) = {}
        /\ b \in CopyReplies(memory, from_addr, size)
        /\ UNCHANGED <<memory, state>>

(* The StoreU8 calls of CopyHostToGuest: a build with asserts stops at the *)
(* first byte it cannot store, with the bytes before it stored.            *)
CopyHostToGuest(to_addr, from_buf, size) ==
  LET missing == Missing(memory, to_addr, size)
  IN  /\ Calls("host_to_guest", to_addr, size, from_buf)
      /\ \/ /\ NDEBUG \/ missing = {}
            /\ memory' = CopyBytes(memory, to_addr, size, from_buf)
            /\ IF Spilling(memory, to_addr, size) = {} THEN UNCHANGED state ELSE Spill
         \/ /\ ~ NDEBUG
            /\ \E m \in missing :
                 /\ \A i \in missing : m <= i
                 /\ memory' = CopyBytes(memory, to_addr, m, from_buf)
            /\ state' = "abort"

Contents(segm) == [o \in 0 .. Size(segm) - 1 |-> ByteOf(segm, o)]

(* Mutant: the list grows at its front.                                    *)
AddSegment_front(segm) ==
  /\ Len(memory) < MaxSegments
  /\ Calls("add_segment", segm.start, Size(segm), Contents(segm))
  /\ memory' = <<segm>> \o memory
  /\ UNCHANGED state

AddSegment(segm) ==
  /\ Len(memory) < MaxSegments
  /\ Calls("add_segment", segm.start, Size(segm), Contents(segm))
  /\ memory' = Append(memory, segm)
  /\ UNCHANGED state

Next ==
  /\ state = "ok"
  /\ \/ \E n \in Widths, addr \in Address : \E b \in Bytes(n) :
          Load(n, addr, b) \/ Store(n, addr, b)
     \/ \E n \in 0 .. MaxCopy, addr \in Address : \E b \in Bytes(n) :
          CopyGuestToHost(addr, b, n) \/ CopyHostToGuest(addr, b, n)
     \/ \E segm \in Extras : AddSegment(segm)

Spec == Init /\ [][Next]_vars
-----------------------------------------------------------------------------
(* What the segment list stands for: the byte, if any, that an address     *)
(* names, and the segment that serves it.                                  *)
View(mem) == [x \in Address |-> IF Fits(mem, x, 1) THEN ByteAt(mem, x) ELSE NoByte]
Regions(mem) == [x \in Address |-> RegionOf(mem, x)]

Flat == INSTANCE FlatMemory WITH
  flat <- View(memory), region <- Regions(memory), NoRegion <- 0

(* The segment list implements a flat byte array divided into regions: an  *)
(* access inside one region reads and writes exactly the bytes it names,   *)
(* whatever the overlaps, the adjacent segments, the slack at the end of a *)
(* segment and the wrap-around of addresses; the byte-wise copies of the   *)
(* system calls (memory.cpp:112-122) may even cross regions.               *)
ImplementsFlatMemory == Flat!Spec

(* A segment never moves, shrinks or disappears, and one pushed later      *)
(* never takes an address from an earlier one (memory.cpp:23, the first    *)
(* match wins): the segments RVSim adds after the ELF's cannot hide code.  *)
RegionsNeverMove ==
  [][\A x \in Address : \A k \in DOMAIN memory :
       Hits(memory, k, x) => k \in DOMAIN memory' /\ Hits(memory', k, x)]_vars
=============================================================================
