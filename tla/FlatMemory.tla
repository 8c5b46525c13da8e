----------------------------- MODULE FlatMemory -----------------------------
(***************************************************************************)
(* What class Memory promises its callers, free of segments and vectors:   *)
(* a byte, or nothing, at every address, and a division of the addresses   *)
(* into regions.  An access that stays inside one region and finds a byte  *)
(* at every address does what a load or store should; any other is the     *)
(* guest's mistake and only bounded damage is promised.                    *)
(***************************************************************************)
EXTENDS Integers

CONSTANTS AddrMod, Byte, Widths, NDEBUG, MaxCopy,
  NoByte,     \* not a byte: nothing at this address
  NoRegion    \* not a region

VARIABLES
  flat,     \* the byte at an address, or NoByte
  region,   \* the region of an address, or NoRegion
  call,     \* the last call: its name, address and size, and the bytes it
            \* was given or returned
  state     \* "ok"; "abort" or "undefined" when nothing more is promised

vars == <<flat, region, call, state>>

Address == 0 .. AddrMod - 1
Bytes(n) == [0 .. n - 1 -> Byte]

(* The address i bytes after addr, as 32-bit arithmetic has it.            *)
At(addr, i) == IF addr + i < AddrMod THEN addr + i ELSE addr + i - AddrMod

Span(addr, n) == {At(addr, i) : i \in 0 .. n - 1}

Mapped(addr, n) == \A x \in Span(addr, n) : flat[x] # NoByte

InOneRegion(addr, n) ==
  Mapped(addr, n) /\ \A x \in Span(addr, n) : region[x] = region[addr]

Calls(op, addr, n, b) == call' = [op |-> op, addr |-> addr, size |-> n, bytes |-> b]

Init ==
  /\ flat \in [Address -> Byte \cup {NoByte}]
  /\ \A x \in Address : flat[x] # NoByte => region[x] # NoRegion
  /\ call.op = "none"
  /\ state = "ok"

(* Only an ill-formed access ends the process, and only with asserts.      *)
Fault == ~ NDEBUG /\ state' = "abort" /\ UNCHANGED <<flat, region>>

Load(n, addr, b) ==
  /\ Calls("load", addr, n, b)
  /\ \/ ~ InOneRegion(addr, n) /\ Fault
     \/ /\ InOneRegion(addr, n) => \A i \in 0 .. n - 1 : b[i] = flat[At(addr, i)]
        /\ UNCHANGED <<state, flat, region>>

(* The bytes outside the span keep their values; no address gains or loses *)
(* its byte.                                                               *)
ChangesOnly(addr, n) ==
  /\ flat' \in [Address -> Byte \cup {NoByte}]
  /\ \A x \in Address : (flat[x] = NoByte) <=> (flat'[x] = NoByte)
  /\ \A x \in Address \ Span(addr, n) : flat'[x] = flat[x]
  /\ UNCHANGED region

Written(addr, n, b) ==
  \A i \in 0 .. n - 1 : flat[At(addr, i)] # NoByte => flat'[At(addr, i)] = b[i]

MaySpill == state' \in IF NDEBUG THEN {"ok", "undefined"} ELSE {"ok"}

Store(n, addr, b) ==
  /\ Calls("store", addr, n, b)
  /\ IF InOneRegion(addr, n)
     THEN ChangesOnly(addr, n) /\ Written(addr, n, b) /\ UNCHANGED state
     ELSE Fault \/ (ChangesOnly(addr, n) /\ MaySpill)

(* A byte-wise copy needs no region: every mapped byte is copied.          *)
CopyGuestToHost(addr, n, b) ==
  /\ Calls("guest_to_host", addr, n, b)
  /\ \/ ~ Mapped(addr, n) /\ Fault
     \/ /\ NDEBUG \/ Mapped(addr, n)
        /\ \A i \in 0 .. n - 1 : flat[At(addr, i)] # NoByte => b[i] = flat[At(addr, i)]
        /\ UNCHANGED <<state, flat, region>>

CopyHostToGuest(addr, n, b) ==
  /\ Calls("host_to_guest", addr, n, b)
  /\ \/ /\ NDEBUG \/ Mapped(addr, n)
        /\ ChangesOnly(addr, n)
        /\ Written(addr, n, b)
        /\ IF Mapped(addr, n) THEN UNCHANGED state ELSE MaySpill
     \/ /\ ~ NDEBUG /\ state' = "abort"   \* stops at the first missing byte
        /\ \E m \in 0 .. n - 1 :
             /\ Mapped(addr, m) /\ flat[At(addr, m)] = NoByte
             /\ ChangesOnly(addr, m)
             /\ Written(addr, m, b)

(* New memory appears only where no region was.                            *)
AddSegment(addr, n, b) ==
  /\ Calls("add_segment", addr, n, b)
  /\ flat' \in [Address -> Byte \cup {NoByte}]
  /\ \A x \in Address : region[x] # NoRegion =>
       flat'[x] = flat[x] /\ region'[x] = region[x]
  /\ UNCHANGED state

Next ==
  /\ state = "ok"
  /\ \/ \E n \in Widths, addr \in Address : \E b \in Bytes(n) :
          Load(n, addr, b) \/ Store(n, addr, b)
     \/ \E n \in 0 .. MaxCopy, addr \in Address : \E b \in Bytes(n) :
          CopyGuestToHost(addr, n, b) \/ CopyHostToGuest(addr, n, b)
     \/ \E n, addr \in Address : \E b \in Bytes(n) : AddSegment(addr, n, b)

Spec == Init /\ [][Next]_vars
=============================================================================
