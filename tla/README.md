# A TLA+ development of riscv-sim

riscv-sim loads a 32-bit RISC-V ELF file, lays a stack and the program's arguments
beside its segments, and interprets the program until it calls `exit`. This directory
holds TLA+ modules that model the simulator, TLC configurations that check them on
small instances, and proofs, checked by TLAPS, that hold for every instance. Paths
below are relative to the repository.

## The system

| Part | Source | State | Operations |
|---|---|---|---|
| Memory | `src/sim/{include/sim/memory*.hpp,source/memory.cpp}` | `memory_`, a list of segments: address range, vector of bytes, three flags nobody reads | `Fetch`, `Load/StoreU8/16/32`, `CopyGuestToHost`, `CopyHostToGuest`, `AddSegment` |
| Hart | `src/sim/.../rv_sim.{hpp,cpp}` | `ip_`, `should_stop_`, `xregs_`, `fregs_`, `fcsr_` | `Execute`, `SetXReg`, `GetXReg`, `Step`, CSR access, the constructor |
| Integer callbacks | `src/isa/source/ext_i_cb.cpp`, `ext_m_cb.cpp`, `ext_zbb_cb.cpp` | none: they change the hart and its memory | one function per mnemonic |
| Bit helpers | `src/isa/include/isa/isa_hlp.hpp` | none | truncation, sign extension, `GetByte`, `SetByte` |
| System calls | `src/isa/source/syscall_handler.cpp` | none; moves bytes between guest memory and the host | `read`, `write`, `exit` |
| Decoding, dispatch | `src/sim/source/decode.cpp`, `dispatch.cpp`, `rv_insn.hpp`, `*.inc` | constant tables | first entry whose mask and match agree; table of callbacks |
| F and Zicsr callbacks | `src/isa/source/ext_f_cb.cpp`, `ext_zicsr_cb.cpp` | none of their own: they change the hart's `fregs_` and `fcsr_`, and two globals of the softfloat library, a rounding mode and exception flags | one function per mnemonic |
| ELF loader, arguments, `main` | `elf_loader.cpp`, `program_args.hpp`, `main.cpp` | a `ParsedElf`, a `ProgramArgs` | `LoadElf`, `SizeOfArgv`, `CopyArgv`; they build the first memory image |

`main` builds a `ProgramArgs` and a `ParsedElf`, hands both to the constructor of
`RVSim`, which adds two segments, and calls `Execute`. Each turn of its loop fetches a
word at `ip_` (a `LoadU32`), decodes it, and calls one callback with the hart; the
callback reads registers, perhaps memory, writes one register, and moves `ip_`.
`CallbackECALL` calls `SyscallHandler`, which copies bytes one at a time between guest
memory and a host buffer and calls `read(2)` or `write(2)`, or sets `should_stop_`. The
result of `Execute` is the guest's `a0`, and `main` returns it, of which the host keeps
the low byte.

There is one thread and nothing is persisted. What is hard here is not interleaving:

- the guest is arbitrary, so every sequence of legal calls happens, with any addresses;
- two builds differ: with asserts and sanitizers (Debug) a wild access ends the process,
  without them (Release) it reads or writes whatever is there, or nothing;
- the host answers `read` and `write` with short counts, ends of file and errors;
- a `read` has two effects, on the host's stream and on guest memory, and the second may
  fail in the middle;
- the softfloat library keeps a rounding mode and flags in globals, which some callbacks
  set, some clear and some only use, so that one instruction can show in a later one;
- the first image is put together from a file nobody checked, a stack, the arguments and a
  table of pointers, and each of the pieces may lie over another;
- words wrap around, shift counts and divisors reach their limits, signed and unsigned
  values mix, in code made of casts, masks and loops.

What makes each part correct:

- **Memory** behaves as a flat array of bytes wherever an access stays inside a segment,
  whatever segments overlap or touch, and no operation moves a segment.
- **Hart**: `x0` is 0, `ip_` is even, the loop stops at `exit` and not before.
- **Callbacks**: each computes its value for every operand, boundaries included.
- **System calls**: bytes arrive in order, once, where the guest asked for them, and the
  count in `a0` is what was moved.
- **Decoding**: no word has two meanings, no entry hides another; the immediates are the
  signed values the formats name.
- **F, Zicsr**: the rounding mode and the flags of an instruction are its own.
- **Loader, constructor**: the image is the file's; stack and arguments are in it and
  overwrite nothing.

## The modules

Arrows go from a module to those that extend it.

    Segments --+-> Memory --> MCMemory              Memory implements FlatMemory
               |
               +-> Hart --+-> IntegerCallbacks --+
                          +-> Syscalls ----------+--> RVSim --> Boot --> Main
                          +-> CsrCallbacks ------+      |
                          +-> FloatCallbacks ----+      |       RVSim implements
                                                        |       GuestProcess and Isa
                                                        v
       MCGuest (takes Alu and MiniFloat) --> MCFib, MCEcho --> MCPrograms
                                         --> MCFloat --> MCAny --> MCRelease
                                         --> MCOrder, MCRounding --> MCRelease
                                         --> MCDeviations
                                         --> MCMain (with Main)

    Words --> Alu --> AluUnit --> MCAlu
    Decoder --> Toolchain --> MCDecoder (with the table of InsnTable)

    Proofs: SegmentsProofs --> MemoryProofs;   SegmentsProofs, Arithmetic --> RVSimProofs
            Main, RVSimProofs --> MainProofs
            MCEcho, MCOrder, MCRounding, RVSimProofs --> GuestProofs
            AluUnit, Arithmetic --> AluProofs;   Toolchain --> DecoderProofs

**Segments** has the list of segments as a value and the operators on it: which segment
serves an address (`Hits`, the first match), whether an access stays in its vector
(`Fits`), what a load or a copy may return and what a store or a copy leaves. A range
and its vector are independent, as in the code: the argv segment's range is 4 bytes
longer than its vector, and a wrapped end address makes a range empty.

**Memory** is the class, one action per function. `NDEBUG` chooses the build. A `memcpy`
past a vector returns any bytes or may corrupt the heap; a corrupted heap is the state
`"undefined"`, where the model stops, as nothing can be said of the program. **FlatMemory**
is what callers rely on: bytes at addresses, divided into regions. It says what happens
to an access inside one region, and of any other only that it harms nothing outside its
span, or ends the process in a Debug build.

**Words** is `isa_hlp.hpp` and the C++ operators on registers for any width that is a power
of two, as the masks of shift counts require, and bytes of any size that divides it; powers
of two, sums of bits and loops are recursive functions, which the proofs can unfold.
**Alu** has one operator for what each callback computes. Where C++ leaves a shift undefined it gives
the set of results that compilers produce. `~uint8_t{0}` is an `int`, as in the language, and
the mask of `SetByte` is what follows from that. **AluUnit** runs one operation and states
what its result must be, in arithmetic or bit by bit, never by the steps of the code.

**Hart** is the state of class `RVSim` and what it offers the callbacks: registers, CSRs,
`Step`, and the outcomes of a call on the memory. The callbacks are in a module per source
file. **IntegerCallbacks** has one action per callback, or per family of callbacks that
share a helper (`Compute` for `ExecuteRRRBinOp`, `ExecuteRRIBinOp`, `ExecuteRRIShift` and the
M and Zbb callbacks, which have the same shape; `Branch` for `ExecuteBranch`; `Load` and
`Store` with their widths). **Syscalls** has `CallbackECALL` and `SyscallHandler`, **CsrCallbacks**
the six CSR instructions, **FloatCallbacks** those of the F extension. **RVSim** puts them
together: a step is one turn of `Execute`'s loop, with the fetch, the decoding, the callback
and every call it makes on the memory. The state is

| variable | in the code |
|---|---|
| `memory`, `ip`, `xregs`, `fregs`, `fcsr`, `should_stop` | `memory_`, `ip_`, `xregs_`, `fregs_` as words, `fcsr_`, `should_stop_` |
| `softfloat_roundingMode`, `softfloat_exceptionFlags` | the globals of that name |
| `status` | whether `Execute` runs, has returned, or the process ended by an assert or a sanitizer (`abort`), by the uncaught exception (`terminate`), or in `undefined` |
| `input`, `output` | what the host can still give and has been given: external |

A float instruction keeps the order of the code: it clears the flags, sets the mode (or, for
a reserved one, leaves it), calls the library, writes the register, and adds the flags to
`fcsr`. FMIN and FMAX neither clear nor add, the conversions from integers set no mode, and
the assert on a dynamic mode that is dynamic itself stops with the flags cleared.

What a word decodes to, and what an operation of the ALU or of softfloat computes, are
constants, so that the theorems hold for any instruction set of this shape; the runs give
them a table, the operators of **Alu**, and **MiniFloat**: softfloat on a format of one sign
bit, three of exponent and four of significand, with all the rounding modes, exceptions and
special values. It is external, as the library is.

**GuestProcess** is what the host sees of all this. **Isa** is what the guest sees in a Debug
build: the machine a program is written for, with a flat memory in regions, a rounding mode
and a set of accrued exceptions, and a trap for what a program may not do. It knows no
segment list, no globals of a library and no order of reads and writes inside an
instruction; the refinement mapping in RVSim builds its memory from the segments and its
fields from `fcsr`. Where the code does something of its own (conversions from integers round
in some mode, FMIN of a NaN, FNMADD) it says what the code does, and the violations below
say what the architecture asks.

**InsnTable** is the decode table, **Decoder** the search, the fields and the immediates, on
words of 32 bits, each the set of its ones. **Toolchain** is the other side, written from the
formats and not from the code: an assembler that puts operand bits into an instruction.

**Boot** has what `LoadElf`, `ProgramArgs` and the constructor compute; **Main** is the program:
the argument check, opening the file, one step per program header, the constructor, and
then every step of RVSim. A file is what ELFIO presents: a target, headers, symbol tables.
A file size above the memory size, and a table of arguments that does not fit in the stack,
end the process as a sanitizer does, or in `"undefined"`.

Operators named `X_something` beside an operator `X` are wrong variants of it, kept to
show that a property notices.

## The runs

| Run | Question | Bounds |
|---|---|---|
| `memory_debug`, `memory_release` | Does the list of segments implement `FlatMemory`, and do segments stay? | 8 addresses, 2 byte values, accesses of 1 and 2 bytes, copies of up to 3, 3 segments |
| `alu_ops` | Is each operation right? | 8-bit registers in four 2-bit bytes: every first operand, 19 second ones at the boundaries |
| `decoder_words` | Does the assembler's word reach the callback as written, and has every word one meaning? | the table of 99 entries; up to 2 operand bits set at a time; unions of two entries |
| `main_debug` | Does the guest find its file, its stack and its arguments, does it run on the flat machine from there, and does `main` end? | 5 files, 11 command lines, 256 addresses, 20 bytes of stack |
| `rvsim_debug` | Do registers, `ip_`, system calls and the process behave, and does the simulator do what the machine does, for programs nobody wrote? | every program of two integer instructions out of a table of 31, then a system call, with 4 buffers and 3 bytes of input; every program of two F or Zicsr instructions out of a table of 35 after two loads, with 4 pairs of floats |
| `rvsim_release` | Do system calls and the process behave without asserts, and instructions as on the machine, but for mistakes? Do the instructions that look at floats agree on their order? Does the mode stored in `frm` decide, and are flags those of the instruction? | the integer programs; all 256 first floats with 12 second ones; `tests/dyn_rm.s` with 31 numerators, 4 denominators, 5 modes |
| `rvsim_programs` | Do nested calls return, can a guest rely on the counts of `read` and `write`, and does the loop end? | `tests/fib_rec.s`, arguments 2 to 6; a copying guest with inputs of 1, 4 and 7 bytes, a buffer of 3 across two segments, a host that takes 6 bytes |

The memory images have the cases that differ in the code: adjacent segments, the first
ending at an odd address, so that a word access straddles them; one whose range is longer
than its vector; one hidden in part by an earlier one; one that ends at the last address
a range can have; one whose end has wrapped. Two byte values are enough to see a byte in
the wrong place, three segments to add one behind two. The view of the memory runs leaves
out the record of the last call, which no action reads.

Registers of 8 bits keep four bytes to a register and a width that is a power of two, as
the masks of the shifts require, and make every first operand enumerable. The second
operands are those around 0, XLEN, the sign boundary and the ends.

A run with several guests has them side by side in one table of instructions, and starts
each with its own images, registers and inputs; a property of one guest asks first whether
it is the one that runs.

In `rvsim_debug` and `rvsim_release` the table of integer instructions has each kind of instruction, with `x0` as
source and destination, undefined shifts, jumps backwards and into the middle of a
word, accesses at, across and outside segments, and stores into the text. The release run
leaves out jumps backwards and to a register: from those a fetch outside the text may
return any word, and so any instruction, of which the others are a part. Both runs have an
unknown system call. `OutputRoom`
bounds what the host takes; a full host fails with -1, as a closed pipe does.

A decoder that is a matter of masks, shifts and one sign extension treats operand bits
one by one; two at a time show a bit that goes to the place of another, and a sign bit with
a bit below it. The words of `decoder_words` are all of 32 bits.

In `rvsim_debug` the pairs of floats hold normal numbers, the largest one, a subnormal, a negative zero,
an infinity and a signaling NaN; the instructions have static, dynamic and reserved modes,
and the first of the two changes the mode, the flags or the registers that the second
uses. Registers of 8 bits cut off the two highest bits that `FCLASS` sets, those of the NaNs.

In `main_debug` the files have a header that is not loaded, one shorter in the file than in
memory, one that ends at the last address, one laid over another and over the arguments,
and one longer in the file than in memory; one file is of another target and one missing.
The arguments are none to four, one of them empty; four do not fit in the stack. The guest
walks its table, writes each argument through `write` with its short counts, and exits with
`argc`, which it has kept in its data segment.

**Fairness.** `FairSpec` asks that a step which stays possible is taken. There is one
thread, nothing it waits for but the host's `read` and `write`, and those return in the
model; so `WF_vars(Next)` says no more than that the process is scheduled and the host
answers. `rvsim_programs`, whose guests must end, has the same condition. `MainFairSpec` is
the same for `main` as a whole, used in `main_debug`: loading must come to an end for every
file, and then this guest does.
The runs do not check for deadlock where an execution ends: the process stops.

Four runs end in a violation, each of something the repository says:

| Run | What it shows |
|---|---|
| `alu_high_halves` | `CallbackMULH` and `CallbackMULHSU` widen the wrong way; `tests/mul.s:50-67` expects other results |
| `alu_shift_count` | `SLL` and `SRL` do not mask their count, as `SRA` does |
| `rvsim_conversion` | `FCVT.S.W` never looks at its rounding mode: it rounds by that of an earlier instruction |
| `rvsim_negated` | `FNMADD` negates after rounding, so that rounding down gives the upper neighbour |

Three more deviations are in the model as they are in the code, without a run of their own:
the mask of `SetByte` is not the one its comment draws (`isa_hlp.hpp:115`), which its two
callers make up for by setting the bytes from the lowest up (`ByteLoopsKeepEveryByte`);
`FMIN` and `FMAX` of a number and a NaN give their second operand (`ext_f_cb.cpp:60` has a
FIXME on it); and a guest that crashes on purpose by a store at address 0
(`tests/compute_heavy_test/echo_test.c:40`) goes on in the Release build, which drops it.

## What is proved

For every number of addresses, bytes, access widths, segments and registers, every image,
file, command line, decoding and arithmetic that meet the assumptions, and both builds:

| Theorem | Statement |
|---|---|
| `MemoryProofs!TypeCorrect` | `Spec => []TypeOK` |
| `MemoryProofs!SegmentsStayVisible` | `Spec => RegionsNeverMove` |
| `MemoryProofs!MemoryImplementsFlatMemory` | `Spec => ImplementsFlatMemory` |
| `RVSimProofs!MachineIsTyped` | `Spec => []TypeOK` |
| `RVSimProofs!ZeroRegisterIsKept` | `Spec => []ZeroRegister` |
| `RVSimProofs!FetchesAreEven` | `Spec => []IpIsEven` |
| `RVSimProofs!ExecuteImplementsProcess` | `Spec => ImplementsProcess` |
| `RVSimProofs!ReadsArrive` | `Spec => ReadsDeliver` |
| `RVSimProofs!WritesArePrefixes` | `Spec => WritesShowMemory` |
| `RVSimProofs!ExecuteImplementsIsa` | `Spec => ImplementsIsa`, with asserts and from unbroken images |
| `RVSimProofs!BuildsAgreeOnCorrectGuests` | `Spec => InstructionsAreIsa`, in both builds, from unbroken images |
| `MainProofs!ProgramRunsOnIsa` | `MainSpec => GuestRunsOnIsa` |
| `MainProofs!ProgramIsTyped` | `MainSpec => []MainTypeOK` |
| `MainProofs!FileArrives` | `MainSpec => FileIsInMemory` |
| `MainProofs!ArgumentsArrive` | `MainSpec => ArgumentsAreThere` |
| `GuestProofs!EchoLosesNothing` | `EchoSpec => []NothingLost`, of one guest |
| `GuestProofs!FloatInstructionsAgree` | `OrderSpec => []FloatsAreOrdered`, of one guest and any two floats |
| `GuestProofs!StoredModeDecides` | `RoundingSpec => []DynamicModeRounds`, of one guest |
| `AluProofs!ResultsAreTyped` | `Spec => []TypeOK` |
| `AluProofs!ShiftsDivideAndMultiply` | `Spec => []ShiftsAreExact` |
| `AluProofs!RotationsMoveBits` | `Spec => []RotatesKeepEveryBit` |
| `AluProofs!DivisionsAgree` | `Spec => []QuotientAndRemainderAgree` |
| `AluProofs!HalvesMakeTheProduct` | `Spec => []HighAndLowMakeTheProduct` |
| `AluProofs!CountsAreOfTheValue` | `Spec => []CountsMeasureTheValue` |
| `AluProofs!BytesAreKept` | `Spec => []ByteLoopsKeepEveryByte` |
| `AluProofs!ExtensionsAreExact` | `Spec => []ExtensionsKeepTheValue` |
| `AluProofs!OrdersAreNamed` | `Spec => []OrdersAgree` |
| `AluProofs!InversionIsOfOneOperand` | `Spec => []InvertedLogic` |
| `AluProofs!ArithmeticIsAsAssumed` | the operators of `Alu` meet what `Hart` assumes of its arithmetic |
| `DecoderProofs!SearchOrderIsIrrelevant` | a word that matches an entry is decoded by it |
| `DecoderProofs!OperandsFit` | `Spec => []TypeOK` |
| `DecoderProofs!EntriesExclude` | `Spec => []OneEntry` |
| `DecoderProofs!JumpsReadTheirFormat` | `Spec => []TargetsAreGathered` |
| `DecoderProofs!OperandsReachCallbacks` | `Spec => []OperandsArrive` |

*Assumptions.* `AddressAssumption` (there are addresses and a zero byte), `MemoryAssumption`
(widths and copies shorter than the address space, images are lists of segments),
`RVSimAssumption` (bytes have an even number of values, `a0`, `a1`, `a2` and `a7` are not
`x0`, the first register file has 0 in `x0`), `FourByteAssumption` (a register is four
bytes), `EntryAssumption` (an even entry point), `DecodeAssumption` (a word has an
instruction, jump and branch immediates are even, as the lemma `JumpsKeepParity` of
`DecoderProofs` shows of `ImmB` and `ImmJ`), `AluAssumption`, `BitAssumption`, `FlagsAssumption` and `FloatAssumption`
(operations give registers, five-bit flags stay five-bit, `|` joins flags:
`ArithmeticIsAsAssumed` shows it of `Alu`), `TableAssumption` (any two entries differ in a
bit that both masks have), `FormatAssumption` (each operand bit of a row has a place of its
own, outside the row's mask; TLC evaluates both of these on the program's table), `BootAssumption`
(the stack's size is a multiple of a word, arguments contain no terminator, files are what
ELFIO presents), `CommandLineAssumption` (the strings end below the end of the address
space: the host's `ARG_MAX` keeps them far below the 3 GiB above `kArgvBase`),
`WidthAssumption` (the width of a register is a power of two and two bytes fit in it),
`OperandAssumption` (operands are registers). Nothing is assumed of softfloat in any of these: a
reply that is no word with five flags is no reply. TLC evaluates the assumptions in every run of
the module that states them, or of one that extends it.

The theorems about a guest assume that its words decode to it, that the registers which system
calls use are those it names, and that the integer operations in it compute what their names say
(`EchoAssumption`, `OrderAssumption`, `RoundingAssumption`). Two of them are about a guest that
computes with floats, and say what they need of the library: `OrderAssumption` that it
compares words as IEEE 754 does (negative numbers below the others, magnitudes in the order of the words,
zeros equal, NaNs unordered, no exception without a NaN) and that `FPClassify` puts the
classes in the order of the magnitudes; `RoundingAssumption` that it converts the quotients in
question to integers as the mode which it is called with says, and raises inexact and nothing else.
What is proved is then what the callbacks and the hart do with those answers.

Two theorems have hypotheses besides. `ExecuteImplementsIsa` is about a build with asserts,
as without them a wild access does what no machine does. `BuildsAgreeOnCorrectGuests` is
about both builds: a step is the machine's unless the build has no asserts and the
instruction is one that the machine would trap. And both start from images that are unbroken
(`Unbroken`): of the segments that serve anything, no vector is longer than its range, and
none starts in the middle of a later one, so that the bytes of an access which stays
in its vector belong to one segment. Where segments are laid over each other otherwise, a
word access may take from the vector of one segment bytes that byte accesses find in
another. TLC evaluates it on the images of the runs. For the program as a whole it is
no hypothesis: `ProgramRunsOnIsa` shows that the constructor makes such an image from any file whose
segments are in order (`InOrder`) and leave room for the stack and the strings, as those
of a linker do.

*Memory.* `SegmentsProofs` shows that a store and a copy keep the layout of the list (the
ranges and the sizes of the vectors), that the layout decides which segment serves an
address and whether an access fits, and what each byte is afterwards. `TypeOK` is
inductive. The refinement maps the list to the byte that each address names and the
segment that serves it; each action is mapped by the lemma on its operator. The cases that
need care are the bytes of a hidden or a slack part of a segment, which the mapping must
not see, and addresses that wrap in a copy.

*Hart.* None of `TypeOK`, `ZeroRegister` and `IpIsEven` is inductive by itself: a jump keeps `ip`
even only if registers and immediates are numbers, `JALR` only because it clears bit 0, the
types need the memory's layout to survive a store. Their conjunction `IInv` is. The proof has a
lemma for each callback, those of F and Zicsr included, whose rounding mode and fields of
`fcsr` must stay in range for it, over lemmas on the bytes of a word, on truncation (modulo an even
number keeps evenness), and on what memory returns, undefined bytes included. The
refinement of `GuestProcess` follows: while `status` is `"running"` and `should_stop` is
false every callback is a hidden step, a read, a write, an exit or a kill, and afterwards
`Return` is the only step and leaves `a0` alone.

*System calls.* Only `read` and `write` touch the streams, and every other callback leaves
the input and the output as they are. A read that returns `n` has taken the first `n` bytes
of the input, and each is in guest memory at its address, wrapped or in whichever segment
serves it; `CopiedByte` says so of a copy byte by byte. A write appends the bytes that memory
held when the call was made, wherever an address has a place; in a Release build the bytes of
the other addresses may be any.

*The architecture.* The refinement goes callback by callback, each to the
instruction of `Isa` it stands for or to a trap, which only a mistake allows without asserts (`Allowed`), under the refinement mapping that turns segments into
bytes and regions, and `fcsr` into a rounding mode and a set of flags. `Unbroken` is kept
with `IInv`, as no step moves a segment. The steps that need most are a load or a store of
several bytes (one region, the bytes of one vector), a `read` into a buffer of several
regions, and the flags, which the code adds with `|` and the machine with a union.

*Main.* `MainInv` joins `IInv` with what loading knows: from the first header on, the list of
segments is the one that the headers passed so far have made, in their order (`LoadedFrom`,
a strictly increasing map from segments to headers). That gives `FileIsInMemory`: the first
header that claims an address made the first segment that serves it. For
`ArgumentsAreThere` the offsets of `CopyArgv`, a recursion over the arguments, are shown to
exist, to grow and to leave each string its place; then the table of pointers is read
back word by word from the stack's vector, and each pointer leads to its string.

For `ProgramRunsOnIsa`, `BootIsUnbroken` compares each pair of segments of the first image:
two of the file by the order of their headers, the stack and the strings with those of the file
because the file leaves room and with each other because their ranges are fixed, the strings
last, as their vector ends before their range. `RunInv` keeps that while the guest runs, and each of its steps is
then one of the architecture, by the lemma on a turn of the loop in `RVSimProofs`.

*Alu.* The runs try 8-bit registers; the proofs hold for 32 bits and any other width. What
they rest on is in `Arithmetic`: division with remainder is unique, quotients and remainders
of sums and products, and induction. The library's induction theorems take a predicate,
which the provers cannot instantiate, so induction is stated over a set, from the least
element of its complement, and so is the existence of a function defined by recursion up
to a bound. `AluProofs` shows that a register is the sum of the powers of two at its bits
and that the bits of that sum are those (`SumOfBits`, `BitOfSum`); from there on two
registers are equal if their bits are (`SameBits`), a mask of ones is a remainder, an or
of disjoint bits a sum, a shift a product or a quotient, and the complement turns every
bit. The invariant `AluInv` says that the result is one of the operation's; each property
is then a fact of one operator: the fill mask of `ArithmRightShift` is what the quotient of
a negative number adds to the logical shift; a rotation by 0, whose other shift is by the
width, gives the operand under either outcome; each call of `SetByte` adds its byte above
the ones set before.

*Decoder.* The theorems hold for any table whose entries can be told apart, and for any
number of operand bits. The invariant `IInv` says that the word is a word and the row a row;
what most of the properties say then holds of all words. The immediates are unfolded to the bits
that each shift and mask keeps, and those compared with the places that the format gives.
`OperandsArrive` needs `AInv` as well: a word that has a row is the match of that row and the
places of the operand bits set so far. As each operand bit has a place of its own outside the
mask, the word still matches its row, and what a field reads there is what was written.

*Guests.* Three theorems are about the simulator with one guest in its memory; the host, the registers at
the start, the number of registers, the width of addresses and the build are any. Each has an invariant in
the manner of Floyd, an assertion for each instruction (`EchoAssertion`, `OrderAssertion`,
`RoundingAssertion`), beside the fact that text and data are in their place, so that each
fetch finds the guest's own instruction (`FetchFinds`). A lemma for each kind of instruction then
gives the step from one assertion to the next.

`EchoLosesNothing` is about the copying guest of `MCEcho`, with any inputs. `NothingLost` is far
from inductive: it says nothing of the bytes that the guest has read and not yet written.
`EchoInv` says where they are: the output, what is in the buffer from some address on
(`InFlight`), and the input that is left make one of the inputs. `EchoReads` and `EchoWrites` are
the two steps where bytes move, across the boundary of the buffer's two segments.

`FloatInstructionsAgree` is about that of `MCOrder`, with any two floats as its data: the
assertions say what each register holds in terms of the order on words (`Ordinal`), up to the
results of FMIN and FMAX as the operands that the code returns, and that `fcsr` is still 0
if neither is a NaN. What `FloatsAreOrdered` asks follows from there (`OrderResults`): that a
change of both signs reverses the order (`NegationReverses`), that a sign injection gives an
equal number only with the sign it had, but for zeros (`SignInjectionIsEqual`), and that
the bits of FCLASS go by the order too (`ClassesAreOrdered`).

`StoredModeDecides` is about that of `MCRounding`: the quotient that the guest converts is one of
`Quotients`, `fcsr` is the mode stored in `frm` and then, added to a cleared `fflags`, the flags of the
conversion and no other, though a division has raised flags and left its mode in the library
before.

Only model-checked: what two guests do. `FibIsComputed` would need an invariant with the frames of
every pending call, and `GuestSeesArguments` one over the loops of a guest that walks its table of
arguments. And the liveness properties (`GuestsReturn`, `MainEnds`), which are beyond the prover.

## Not modelled

- What is inside ELFIO and softfloat, both vendored: a file is what ELFIO presents, and the
  runs take the arithmetic of a small float format for softfloat's.
- The permission flags of a segment: no code reads them.
- File descriptors: one stream in and one out. A guest that reads a descriptor it cannot
  gets -1, which the model's host may always answer.
- `std::vector<MemByte> buf(size)` of a system call failing to allocate.
- The signed overflow in `CallbackMULH`, of which the model takes the wrapped result.
- A file that names an odd entry point: linkers make none, and the model's entries are even.
- Overflow of `argc` and of the size of the arguments in 32 bits, which no host's argument
  limit admits.
- Logging, `spdlog`, the exception classes, the names of mnemonics in the log: no state of
  the simulation.

## Plan

1. Done: memory, hart, integer, M and Zbb callbacks, system calls.
2. Done: the decoder with the program's table, F and Zicsr, the loader, the constructor and
   `main`, the abstract machine that RVSim implements.
3. Done: the system calls, the refinement of `Isa`, the loader, the constructor, and what
   `Alu` computes are proved.
4. Done: both builds agree on correct guests, the program as a whole runs on the machine, and
   the guests of `MCEcho`, `MCOrder` and `MCRounding` do what they are meant to.
5. Proofs left: the guests of `MCFib` and `MCMain`.
