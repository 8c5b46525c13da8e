------------------------------ MODULE MCDecoder ------------------------------
(* The decoder with the table of the program.                              *)
EXTENDS Toolchain

T == INSTANCE InsnTable
MCTable == T!InsnDecodeTable
=============================================================================
