-------------------------------- MODULE Main ---------------------------------
(***************************************************************************)
(* The whole program: main (main.cpp) checks the arguments, loads the      *)
(* file, constructs the simulator and lets it execute.                     *)
(***************************************************************************)
EXTENDS Boot

VARIABLES
  stage,     \* what main does next; "failed" when it has returned EXIT_FAILURE
  argv,      \* prog_args.argv_
  segms,     \* memory_segms of LoadElf
  header     \* i of its first loop

loading == <<argv, segms, header>>
machine == vars
mainVars == <<stage, loading, machine>>

Stages == {"check", "open", "segments", "construct", "execute", "failed"}

File == Files[argv[1]]

MainInit ==
  /\ stage = "check"
  /\ argv \in CommandLines
  /\ segms = << >> /\ header = 1
  /\ memory = << >> /\ ip = 0
  /\ xregs = [r \in XReg |-> 0] /\ fregs = [r \in FReg |-> 0] /\ fcsr = 0
  /\ softfloat_roundingMode = 0 /\ softfloat_exceptionFlags = 0
  /\ should_stop = FALSE /\ status = "running"
  /\ input \in Inputs /\ output = << >>

CheckArguments ==
  /\ stage = "check"
  /\ stage' = IF argv = << >> THEN "failed" ELSE "open"
  /\ UNCHANGED <<loading, machine>>

(* A file that elfio cannot load, or of another target, is an exception    *)
(* that main catches.                                                      *)
OpenFile ==
  /\ stage = "open"
  /\ stage' = IF argv[1] \in DOMAIN Files /\ File.target = "EM_RISCV 32"
              THEN "segments" ELSE "failed"
  /\ UNCHANGED <<loading, machine>>

(* Mutant: a header that is not loaded is not counted either.              *)
LoadSegment_stays ==
  /\ stage = "segments" /\ status = "running" /\ header <= Len(File.segments)
  /\ LET h == File.segments[header]
     IN  /\ h.type = "PT_LOAD" /\ ~ FileOverruns(h)
         /\ segms' = Append(segms, LoadedSegm(h))
         /\ header' = header + 1
  /\ UNCHANGED <<stage, argv, machine>>

(* One round of the loop over the program headers.  A file size above the  *)
(* memory size is stopped by the sanitizer or writes over the heap.        *)
LoadSegment ==
  /\ stage = "segments" /\ status = "running" /\ header <= Len(File.segments)
  /\ LET h == File.segments[header]
     IN  \/ /\ h.type = "PT_LOAD" /\ FileOverruns(h)
            /\ status' = IF NDEBUG THEN "undefined" ELSE "abort"
            /\ UNCHANGED <<stage, loading, memory, ip, xregs, floats, should_stop, host>>
         \/ /\ h.type = "PT_LOAD" => ~ FileOverruns(h)
            /\ segms' = IF h.type = "PT_LOAD" THEN Append(segms, LoadedSegm(h)) ELSE segms
            /\ header' = header + 1
            /\ UNCHANGED <<stage, argv, machine>>

FinishLoading ==
  /\ stage = "segments" /\ header > Len(File.segments)
  /\ stage' = "construct"
  /\ UNCHANGED <<loading, machine>>

(* The constructor of RVSim, with what LoadElf found in the symbol tables. *)
Construct ==
  /\ stage = "construct" /\ status = "running"
  /\ \/ /\ TableUnderruns(argv)
        /\ status' = IF NDEBUG THEN "undefined" ELSE "abort"
        /\ UNCHANGED <<stage, loading, memory, ip, xregs, floats, should_stop, host>>
     \/ /\ ~ TableUnderruns(argv)
        /\ stage' = "execute"
        /\ memory' = BootMemory(segms, argv)
        /\ ip' = File.entry
        /\ xregs' = BootRegisters(argv, GlobalPointer(File))
        /\ UNCHANGED <<loading, floats, should_stop, status, host>>

Execute == stage = "execute" /\ Next /\ UNCHANGED <<stage, loading>>

MainNext ==
  \/ CheckArguments \/ OpenFile \/ LoadSegment \/ FinishLoading \/ Construct \/ Execute

MainSpec == MainInit /\ [][MainNext]_mainVars

(* main is one thread: it goes on as long as there is something to do.     *)
MainFairSpec == MainSpec /\ WF_mainVars(MainNext)

MainTypeOK ==
  /\ TypeOK
  /\ stage \in Stages
  /\ argv \in CommandLines
  /\ segms \in Seq(Segment)
  /\ header \in Nat
-----------------------------------------------------------------------------
(* Whether the file leaves the stack and the strings alone.                *)
Covers(h, lo, hi) ==
  /\ h.type = "PT_LOAD"
  /\ h.start < hi /\ lo < h.start + h.mem_size
LeavesRoom ==
  \A k \in DOMAIN File.segments :
    ~ Covers(File.segments[k], kStackBase, kArgvBase + SizeOfArgv(argv) + 4)

(* Through the guest's eyes, in the memory mem: a word, and a C string.    *)
Word(mem, x) == Value([j \in 0 .. 3 |-> ByteAt(mem, Wrap(x + j))], 4)
Holds(mem, x, n) == \A j \in 0 .. n - 1 : Fits(mem, Wrap(x + j), 1)
StringIs(mem, x, s) ==
  /\ Holds(mem, x, Len(s) + 1)
  /\ \A j \in 1 .. Len(s) : ByteAt(mem, Wrap(x + (j - 1))) = s[j]
  /\ ByteAt(mem, Wrap(x + Len(s))) = ZeroByte

(* The guest starts with argc at sp, then the addresses of its arguments,  *)
(* the first of which is its own name, then a null pointer, and finds each *)
(* argument there as a C string, unless the file was laid over them        *)
(* (program_args.hpp:14-21, rv_sim.hpp:52-83).                             *)
ArgumentsAreThere ==
  [][stage = "construct" /\ stage' = "execute" /\ LeavesRoom =>
       LET sp == xregs'[SP]
       IN  /\ Holds(memory', sp, TableSize(argv))
           /\ Word(memory', sp) = Len(argv)
           /\ \A k \in DOMAIN argv : StringIs(memory', Word(memory', Wrap(sp + 4 * k)), argv[k])
           /\ Word(memory', Wrap(sp + 4 * (Len(argv) + 1))) = 0]_mainVars

(* Execution starts with the file in memory: of a loadable segment, the    *)
(* bytes that the file has, then zeros; where two segments meet, the one   *)
(* whose header is first; and a segment that ends at 2^32 nowhere          *)
(* (elf_loader.cpp:45-71, memory.cpp).                                     *)
Claims(k, x) ==
  LET h == File.segments[k]
  IN  /\ h.type = "PT_LOAD" /\ h.start + h.mem_size < AddrMod
      /\ x >= h.start /\ x < h.start + h.mem_size
FileIsInMemory ==
  [][stage = "construct" /\ stage' = "execute" =>
       \A x \in Address, k \in DOMAIN File.segments :
         Claims(k, x) /\ (\A l \in 1 .. k - 1 : ~ Claims(l, x)) =>
           LET h == File.segments[k]
               offset == x - h.start
           IN  /\ Fits(memory', x, 1)
               /\ ByteAt(memory', x) =
                    IF offset < Len(h.data) THEN h.data[offset + 1] ELSE ZeroByte]_mainVars

(* The file that linkers make: no loadable segment begins inside one whose *)
(* header comes later, as it cannot where headers are in the order of      *)
(* their addresses; nor is one laid over the stack or the strings.         *)
Placed(h) == h.type = "PT_LOAD" /\ h.mem_size > 0 /\ h.start + h.mem_size < AddrMod
InOrder ==
  \A k, l \in DOMAIN File.segments :
    LET first == File.segments[k]
        later == File.segments[l]
    IN  k < l /\ Placed(first) /\ Placed(later) =>
          first.start <= later.start \/ later.start + later.mem_size <= first.start

(* The guest of such a file runs on the machine it was compiled for, from  *)
(* the state in which that machine starts: the list of segments that       *)
(* LoadElf and the constructor put together, with an argv segment that     *)
(* ends past its vector, serves every access like flat memory              *)
(* (elf_loader.cpp:45-71, rv_sim.hpp:34-84, rv_sim.cpp:17-36).             *)
GuestRunsOnIsa ==
  [][/\ stage = "construct" /\ stage' = "execute" /\ InOrder /\ LeavesRoom => Machine!Init'
     /\ stage = "execute" /\ InOrder /\ LeavesRoom =>
          (NDEBUG /\ Mistaken) \/ [Machine!Next]_(Machine!vars)]_mainVars

(* Whatever it is started with, the program comes to an end, if the guest  *)
(* does: main returns EXIT_FAILURE, Execute returns, or it is killed.      *)
MainEnds == <>(stage = "failed" \/ status # "running")
=============================================================================
