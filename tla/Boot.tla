-------------------------------- MODULE Boot ---------------------------------
(***************************************************************************)
(* What a guest starts from: the segments that LoadElf makes of the file   *)
(* (elf_loader.cpp), the arguments (program_args.hpp), and the stack, the  *)
(* argv segment and the registers that the constructor of RVSim adds       *)
(* (rv_sim.hpp).                                                           *)
(***************************************************************************)
EXTENDS RVSim

CONSTANTS
  SP, GP,        \* XRegAlias::sp and gp
  kStackTop, kStackSize,
  CommandLines,  \* the argv that main may be given, without the simulator's name
  Files          \* the files there are, by name; names are strings of bytes

kStackBase == kStackTop - kStackSize
kArgvBase == kStackTop + 4
NoSymbol == -1

(* A program header, and a file as elfio presents it.                      *)
Header == [type : {"PT_LOAD", "other"}, start : Address, mem_size : Address,
           data : Seq(Byte)]
Elf == [target : {"EM_RISCV 32", "other"}, segments : Seq(Header),
        symtabs : Seq(Address \union {NoSymbol}),   \* __global_pointer$ in each
        entry : Address]

(* A char of a string is not 0, and four 0 bytes make a null pointer.      *)
ASSUME BootAssumption ==
  /\ {SP, GP} \subseteq XReg \ {0} /\ SP # GP
  /\ kStackSize \in Nat \ {0} /\ kStackSize % 4 = 0
  /\ kStackTop \in Nat /\ kStackTop % 2 = 0
  /\ kStackBase \in Nat /\ kArgvBase \in Address
  /\ CommandLines \subseteq Seq(Seq(Byte \ {ZeroByte}))
  /\ \A name \in DOMAIN Files : Files[name] \in Elf
  /\ \A name \in DOMAIN Files : Files[name].entry % 2 = 0

-----------------------------------------------------------------------------
(* LoadElf.                                                                *)

(* Mutant: the end is not cut to a uint32_t.                               *)
LoadedSegm_wide(h) ==
  [start |-> h.start, end |-> h.start + h.mem_size,
   data |-> [p \in 1 .. h.mem_size |-> IF p <= Len(h.data) THEN h.data[p] ELSE ZeroByte]]

(* The bytes of the file, and zeros after them.                            *)
LoadedSegm(h) ==
  [start |-> h.start, end |-> Trunc(h.start + h.mem_size),
   data |-> [p \in 1 .. h.mem_size |-> IF p <= Len(h.data) THEN h.data[p] ELSE ZeroByte]]

(* std::copy writes past the end of the vector.                            *)
FileOverruns(h) == Len(h.data) > h.mem_size

(* The last symbol table that has the symbol wins; parsed_elf was zeroed.  *)
GlobalPointer(file) ==
  LET found == {k \in DOMAIN file.symtabs : file.symtabs[k] # NoSymbol}
  IN  IF found = {} THEN 0
      ELSE file.symtabs[CHOOSE k \in found : \A l \in found : l <= k]
-----------------------------------------------------------------------------
(* ProgramArgs.                                                            *)

(* CopyArgv: where each string begins in the argv segment.  Mutant: the    *)
(* terminator is not counted.                                              *)
ArgvOffset_noNul(argv) ==
  LET offset[k \in 1 .. Len(argv) + 1] == IF k = 1 THEN 0 ELSE offset[k - 1] + Len(argv[k - 1])
  IN  offset
ArgvOffset(argv) ==
  LET offset[k \in 1 .. Len(argv) + 1] ==
        IF k = 1 THEN 0 ELSE offset[k - 1] + Len(argv[k - 1]) + 1
  IN  offset

SizeOfArgv(argv) == ArgvOffset(argv)[Len(argv) + 1]

(* execve bounds the arguments (ARG_MAX) far below what is left above the  *)
(* stack, 3 GB in the code.                                                *)
ASSUME CommandLineAssumption ==
  \A argv \in CommandLines : kArgvBase + SizeOfArgv(argv) + 4 < AddrMod

(* CopyArgv: each string with its terminator.                              *)
ArgvData(argv) ==
  [p \in 1 .. SizeOfArgv(argv) |->
     LET k == CHOOSE l \in DOMAIN argv : ArgvOffset(argv)[l] < p /\ p <= ArgvOffset(argv)[l + 1]
         c == p - ArgvOffset(argv)[k]
     IN  IF c <= Len(argv[k]) THEN argv[k][c] ELSE ZeroByte]
-----------------------------------------------------------------------------
(* The constructor of RVSim.                                               *)

(* argc, the pointers and the null pointer, in words.                      *)
ArgvTable(argv) ==
  [j \in 1 .. Len(argv) + 2 |->
     IF j = 1 THEN Len(argv)
     ELSE IF j = Len(argv) + 2 THEN 0
     ELSE kArgvBase + ArgvOffset(argv)[j - 1]]

TableSize(argv) == 4 * (Len(argv) + 2)

(* memcpy begins below the vector of the stack.                            *)
TableUnderruns(argv) == TableSize(argv) > kStackSize

(* Mutant: the last address of the stack, not the one after it, ends it.   *)
StackSegm_lastAddress(argv) ==
  [start |-> kStackBase, end |-> kStackTop - 1,
   data |-> LET first == kStackSize - TableSize(argv)
            IN  [p \in 1 .. kStackSize |->
                   IF p <= first THEN ZeroByte
                   ELSE LowBytes(ArgvTable(argv)[((p - first - 1) \div 4) + 1], 4)
                          [(p - first - 1) % 4]]]

StackSegm(argv) ==
  LET first == kStackSize - TableSize(argv)
  IN  [start |-> kStackBase, end |-> kStackTop,
       data |-> [p \in 1 .. kStackSize |->
                   IF p <= first THEN ZeroByte
                   ELSE LowBytes(ArgvTable(argv)[((p - first - 1) \div 4) + 1], 4)
                          [(p - first - 1) % 4]]]

(* The range is a register longer than the vector.                         *)
ArgvSegm(argv) ==
  [start |-> kArgvBase, end |-> Trunc(kArgvBase + SizeOfArgv(argv) + 4),
   data |-> ArgvData(argv)]

(* Mutant: sp points past argc.                                            *)
BootRegisters_pastArgc(argv, global_ptr) ==
  [r \in XReg |-> IF r = SP THEN Trunc(kStackTop - TableSize(argv) + 4)
                  ELSE IF r = GP THEN global_ptr ELSE 0]

BootRegisters(argv, global_ptr) ==
  [r \in XReg |-> IF r = SP THEN Trunc(kStackTop - TableSize(argv))
                  ELSE IF r = GP THEN global_ptr ELSE 0]

(* Mutant: the stack comes first, before what was loaded.                  *)
BootMemory_stackFirst(segms, argv) == <<StackSegm(argv), ArgvSegm(argv)>> \o segms

BootMemory(segms, argv) == segms \o <<StackSegm(argv), ArgvSegm(argv)>>
=============================================================================
