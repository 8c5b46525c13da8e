------------------------------ MODULE MCMemory ------------------------------
(***************************************************************************)
(* Small memories for TLC: 8 addresses, 2 byte values and accesses of 1    *)
(* and 2 bytes.                                                            *)
(***************************************************************************)
EXTENDS Memory

Segm(start, end, size) ==
  [start |-> start, end |-> end, data |-> [p \in 1 .. size |-> ZeroByte]]

(* A text segment that ends at an odd address and, right after it, one     *)
(* whose range is longer than its vector, as the argv segment's is; and a  *)
(* segment that an earlier one hides in part.                              *)
MCImages == {<<Segm(0, 3, 3), Segm(3, 5, 1)>>, <<Segm(2, 4, 2), Segm(1, 6, 5)>>}

(* Later segments: behind the earlier ones, ending at the last address     *)
(* that can be in a segment, and one whose end has wrapped around.         *)
MCExtras == {Segm(4, 7, 3), Segm(6, 1, 1)}

(* The call record is output only: no action reads it.                     *)
WithoutCall == <<memory, state>>
=============================================================================
