------------------------------- MODULE MCAlu --------------------------------
(* Registers of 8 bits in 4 bytes of 2 bits, as many bytes as the code's.  *)
EXTENDS AluUnit

(* Every operand 1, and operand 2 around 0, XLen and the sign boundary.    *)
AllValues == Register
Boundary == {0, 1, 2, 3, 7, 8, 9, 15, 16, 27, 64, 85, 127, 128, 129, 170, 248, 254, 255}
Few == {0, 1, 7, 8, 27, 127, 128, 129, 255}
=============================================================================
