# A verification of the Lost Core 24

This directory holds TLA+ models of the Lost Core 24 system (the LC24 emulator,
its devices, its compilers and its disk tools), the TLC configurations that
check them on small instances, and theorems about them that TLAPS checks for
every value of their constants. `PROJECT.json` lists the components, the runs,
the lines of code each definition stands for, the hazards and the findings.

## 1. The system

The repository is a hobby computer and everything around it. The emulator is
one C program (`src/utils/cpu.c`) that includes the processor and its devices as
headers. Compilers written in C, Perl and shell make programs for it, and a few
tools make its disks. The comments in the code are its documentation.

| component | state it keeps | operations | depends on |
|---|---|---|---|
| LC24 processor, `lib/cpu24/cpu24.h` | `reg` (16 registers of 24 bits), `PS`, `PC`, `mem`, `rom`, `lc_errno` | 256-entry table `INSTS`, one handler per opcode; `Exec` | every device, through `INT` |
| interrupt devices, `gpu.h`, `INT` | screen and palette bytes of `mem` | pages, sprites, flush, date, random, wait, beep | SDL |
| 3D pipeline, `gpu3d.h` | matrix stacks, lists, vertex buffer, sticky error | about thirty commands of interrupt 0x45 | `gpu.h` |
| sound unit, `spu.h` | registers of four channels | `GAsnd` on the processor's thread, `GAgen`/`GAchangen` on the audio thread | `INT_BEEP`, the audio device |
| keyboard and mouse, `hid.h` | 18 bytes of `mem` at 0x480000 | `hid_events` | `INT_WAIT`, the SDL queue |
| floating-point unit, `bpf.h` | none of its own | arithmetic on 24-bit floats | processor |
| debugger, `cli.h` | its own copy of nothing: pokes the machine | `ExecD` | processor (`HLT1`) |
| machine life cycle, `utils/cpu.c` | files, terminal mode, `pin` | load, run, debug, save the disk | all of the above |
| compilers: `las`, `lusl`, `rcc2ge`, `rcc2`, `lcc`, `lrs` | symbol tables, registers in use | source to assembly to bytes | the processor's encodings |
| disk tools: `ugovnfs3`, `ugovnfs2`, `ugovnfs1.3` | an image: clusters, inodes, directories | format, write, read | files |
| Lost86 | a FAT image, a sector buffer | open and read | BIOS disk |
| LostEFI, LostDOS | terminal state; assembly programs | `termputchar`; a boot menu | firmware |

How they interact. The processor calls the devices synchronously inside `INT`;
graphics and input are bytes of `mem` that the handlers rewrite. Sound is the
one device with a thread of its own: SDL calls `GAgen` from the audio thread
while `GAsnd` writes the same registers from the processor's, with no lock.
Input arrives in SDL's queue at any time and reaches the program only inside
`INT_WAIT`. Compiled programs meet the processor through encodings and
through a calling convention that the compilers' library fixes.

What is hard here, by component:

* **Processor.** A program is any sequence of instructions; SP, flags and memory
  are shared by calls, interrupts and plain pushes. Properties: nothing exceeds
  its width; the stack is a stack; a return and an interrupt return resume what
  was interrupted with what it had; flags last from a comparison to its jump.
* **Sound.** Two threads, unsynchronised, with a read-modify-write of `pos`.
  Properties: no overflow, a note ends at its own end, silence is reached.
* **Input.** Asynchronous events against a table of six slots. Properties: the
  slots and the flag byte follow what is held, releases are never lost.
* **Compiled code.** The code generator writes assembly while it parses, the
  assembler keeps its tables by hand, the library relies on the processor's
  exact behaviour. Properties: a line is executed as it was written; a program
  ends and does what its source means.
* **3D.** Limits of stacks and lists; compiling a list goes through the very
  pipeline a program may have vertices in. Properties: an open primitive
  survives it, a compiled list is the figure its commands draw.
* **Disk tools.** Chains and directories that must stay disjoint, partial
  failures and crashes in the middle of a write, a full disk. Properties: no
  sharing, no file is ever replaced or lost, what was written is read back.
* **Boot loader.** One sector buffer per handle, the root handle shared by every
  search, reads that fail. Properties: handles are not leaked, texts come in
  order, a path opens its file.
* **Life cycle.** What survives which way of leaving the emulator: the terminal
  modes and the file of the disk.

## 2. The modules

| module | extends | stands for | theorems |
|---|---|---|---|
| `Lc24Cpu` | | the processor and the devices seen from `INT` | `Lc24CpuProofs` |
| `Lc24Stack` | `Lc24Cpu` | programs that keep the stack discipline; INSTANCE of `CallStack` | `Lc24StackProofs` |
| `Lc24Branch` | `Lc24Stack` | comparisons and their jumps, as history | `Lc24StackProofs` |
| `Lc24Machine` | `Lc24Cpu` | `main` around the processor | `Lc24ProgramProofs` |
| `Lc24Program` | `Lc24Cpu` | the processor on fixed programs, its input and output | `Lc24ProgramProofs` |
| `Las` | `Lc24Cpu` | the assembler and the table of the processor | `Lc24ProgramProofs` |
| `Rcc2Lib` | `Las` | the library routines | `Lc24ProgramProofs` |
| `Rcc2Gen` | `Rcc2Lib`, `Lc24Program` | the code generator and the meaning of its sources | |
| `Spu`, `Hid`, `Gpu3d` | | sound, input, 3D pipeline | `Spu` itself, `HidProofs`, `Gpu3dProofs` |
| `GovnFs3` | | the disk tool; INSTANCE of `FileStore` | `GovnFs3Proofs` |
| `Lost86Fat` | | the FAT driver of the boot loader | `Lost86FatProofs` |

`Lc24StackProofs` and `Lc24ProgramProofs` use the theorems of `Lc24CpuProofs`. `Lc24ProgramProofs`
extends both `Lc24Machine` and `Lc24Program`, whose variables are apart; no theorem about texts and routines uses
an assumption of `Lc24Machine`, nor one about runs of the emulator one of `Lc24Program`.
The MC... modules give the instances for TLC.
```

**Lc24Cpu** is the processor. A behaviour is a run of `Exec` over an arbitrary
program: each step executes *any* instruction of the constant `ISA`, so all
programs over these instructions are behaviours, self-modifying ones included. An
instruction is a record of the C handler that runs (`op`) and its decoded
operands. Families of handlers that are copies of one another (`ADDA0`,
`ADDB0`, ...) are one action with the register as a parameter; everything
that differs between the copies (lengths, the order of an increment and a
store, which register a form adds) is kept. The variables are the
fields of `struct LC24` with their names. `mem` is modelled on a window `Cells`
of addresses that is a constant: an access outside the window is not a
behaviour. `run` tells how `Exec` stands: running, stopped by its program, left
by the debugger's `exit(0)`, hung in `HLT`, or faulted on the host.

* Stack: `StackPush` writes the three bytes that end at SP and then moves SP by
  3 modulo 2^24. With SP below 2 the index is negative, becomes a huge unsigned
  number and faults; that is the action `StackFault`.
* Interrupts: `INT0` and `INT1` are skipped entirely while the flag I is clear.
  Numbers of 0x80 and above call a vector, for `INT0` only. Drawing calls and
  `INT_WAIT` may leave any bytes (of `Outside`) in the surface they address.
* Abstractions: the bit operations and the power choose any word of `RegVals` as
  their result; the signed overflow of the C product is taken to wrap, as
  the compilers in use make it; floating-point instructions are not in the
  table; a register operand is a register number (the assembler emits no
  other).

**CallStack** is the abstract stack: a sequence of words, a register file, the
flags and the program counter, without memory or a stack pointer. **Lc24Stack**
maps the processor onto it (`Words` reads the live words from memory, `File` is
the registers without SP) for programs that keep a *discipline*, stated as
`Disciplined`: a program pops what it pushed, moves SP with stack
instructions only, and its other stores stay out of the live stack. `COP1` is
outside every discipline, since it moves SP by one byte.

**Lc24Branch** adds two history variables: `rel`, how the operands of the last
comparison of the running code compared, and `tags`, the `rel` of each
interrupted program beside its flags on the stack.

**Lc24Program** fixes the instruction at every address and records the characters
read and written. **Las** is the assembler and the decoding of its bytes: for each
line, the length the parser counts (`Bytes`), the bytes emitted (`Emitted`), the
row of `INSTS` they fall into, the bytes that row's handler takes (`Taken`) and the
operands it finds (`Executed`). `Address` is the parser's program counter line by
line, `Resolved` a line with its label replaced, `Placed` the listing by address.
`CompileLC24` is the image, byte behind byte, and `Assembled` decodes it: it gives for every address
of the listing the instruction *the processor* finds there (`Fetched`).
**Rcc2Lib** holds the start-up code and the library routines as `rcc2ge` prints
them, and what they are to write (`Text`, `Decimal`).
**Rcc2Gen** is the code generator: `parse_a` and `parse_block` compile a
syntax tree with the register and label counters of the C code, and `Value`,
`Meaning` and `Final` say what the same tree means. `Careful` names the sources that stay
within what the generator can do (section 3). It is the one module with
RECURSIVE operators.

**Gpu3d** is `lc3D_HandleInterrupt`: one action per group of commands, each with its
errors in the order the code tests them. A matrix is the sequence of the
transformations multiplied into it, a figure is what is handed to the rasteriser.
The loops of `EndList` and `CallList` over a list run one command to a step, through
the same `Primitive` a program's commands go through, as in the code. `count` has
`CountBits` bits and wraps.

**GovnFs3** is `ugovnfs3`. Each command reads the whole image, changes it in memory
and writes it back; `Save` is the whole write or any prefix of it, which is what
a crash leaves: some of the new table, or the table, the directory and some of the
data. `Kept` and `Sought` are the two ways the code cuts a name; they differ for
nine or more letters and for extensions of one. `owner` is history: for which entry a
cluster was taken. **FileStore** is the promise to the one who reads by path: a
place is filled once and never changes, short of a format and of the one word that an
empty file overwrites.

**Lost86Fat** is the FAT driver of the second stage, with one turn of the loop of
`FAT_Read` to a step. Sizes and positions count units of 32 bytes, one directory
entry, and a unit of text can be taken for an entry. `DISK_ReadSectors` may fail
up to `MaxFailures` times on sectors that exist, and always on others. The
program around it opens, reads and closes what it likes. `Behind` is what
may be found past the end of the table; `Garbled` is a name that was not terminated.
`got`, `spoilt`, `asked` and `answer` are history.

**Lc24Machine** is `main`: it extends Lc24Cpu and runs its `Step` between loading
and saving; its own specification is `MachineSpec`, over the variables `mvars`. `at` is where `main` stands, `tty` the mode
of the terminal, `files` what is on the host. `Interrupt` is control-C, which
reaches the process only where the terminal makes a signal of it.

**Spu** is both threads of the sound unit, one action per store of `GAsnd` and
per step of `GAchangen`. The load and the store of `pos += len` are two steps; so
are the last comparison of a note and the `freq = 0` it leads to. A sample's four
comparisons are one step; the module's header says why that loses nothing.
Samples and the phase `period` are left out.

**Hid** is `hid_events` event by event, the SDL queue, and a person who presses,
releases, repeats, clicks, moves, scrolls and closes the window at any time.
`full` and `turned` are history variables: whether a press found no free slot
and the last turn of the wheel in this call.

## 3. The runs

| run | specification | checks | bound |
|---|---|---|---|
| `MCLc24Cpu` | `Spec` | `TypeOK` | nearly the whole table; SP set to both ends of memory; 12 cells, 2 disk bytes, 4 code addresses (up to four instructions and their jumps) |
| `MCLc24Branch` | `BranchSpec` | `Aligned`, `ImplementsCallStack`, `FlagsShowRelation`, `JumpsDecide` | 17 instructions in any order, 3 words of stack, a vector, 4 code addresses |
| `MCRcc2` | `ProgramSpec` | `CompiledMeansSource`, `ExecutedAsWritten`, `Terminates` | nine sources, of which las takes seven, each on the values 0 to 3 of its data and nine strings; for the tables all registers, an immediate of three different bytes and the largest, two bytes |
| `MCSpu` | `Spec` | `TypeOK`, `PosFits`, `FallsSilent` | one channel, envelopes of up to 3 samples, chunks of 1 and 2 |
| `MCHid` | `Spec` | `TypeOK`, `SlotsShowKeys`, `FlagsShowMouse`, `ReleasedKeyLeaves` | two slots, three keys, two buttons, two waiting events |
| `MCGpu3d` | `McSpec` | `TypeOK`, `InactiveIsEmpty`, `OpenPrimitiveKept`, `ListsReplay` | seven menus of commands; lists of up to 9 commands, stacks of 2, a count of 2 bits, two lists |
| `MCGovnFs3` | `Spec` | `TypeOK`, `NoSharing`, `ImplementsStore`, `WrittenIsRead` | four clusters, one of them outside the image, three entries beside the root, a crash in any command |
| `MCLost86Fat` | `Spec` | `TypeOK`, `HandlesHeld`, `ReadsInOrder`, `OpensNamed`, `OpenReturns` | a root of two sectors, clusters of two, a text of two clusters, a directory; two handles, one failing read |
| `MCLc24Machine` | `MachineSpec` | `MachineTypeOK`, `TerminalRestored`, `DiskAllOrNothing`, `DiskSaved` | 28 command lines over three files; programs of 10 instructions that write the disk, trap, fault, hang and end |
| `NoteEndsAtRelease` | `Spec` of Spu | `NoteEndsAtRelease` (violated) | as `MCSpu` |
| `SavesTheDisk` | `MachineSpec` | `SavesTheDisk` (violated) | as `MCLc24Machine` |
| `MissingIsNotFound` | `Spec` of Lost86Fat | `MissingIsNotFound` (violated) | as `MCLost86Fat`, with a name that is not there |

Why these bounds are enough to be interesting. In `MCLc24Cpu` the immediate loads
put SP at 0, 1, 2, 2^24-6, 2^24-3 and one below its reset value, so pushes and pops
wrap in both directions and fault at the bottom. In `MCLc24Branch` three words hold a
call below an interrupt frame, and an interrupt below a push; the pushed word
70000 has all three bytes in use, so a word read askew is another word, and the handler
of the interrupt compares, jumps and loads the flags itself. In `MCRcc2` two
sources read and write through the library, one nests two loops and an `if`, one puts
four operands and a division into registers, two call a function in the middle of
an expression, one of them with two live registers. In `MCSpu` a note ends inside
a chunk, at its edge, and after several, and three units are the three phases.
`MCHid` has one key more than slots, so a press can be dropped, holes appear and
are filled; button 6 has no bit, and two waiting events are enough for a press
to be queued behind its own release. Its code is symmetric in
keys, slots above the first free one and buttons below six. In `MCGpu3d` four
vertices wrap the count, the menu `cube` records the lists of the debugger's cube
test, and `full` fills a list to its last command and one beyond. A program of
`MCGpu3d` draws from one menu only: the parts of the state that do not meet are not
multiplied. In `MCGovnFs3` the table and the directory both fill up, two files of two
blocks do not both fit, one name is a short extension, and crashes cut every write at
every cluster. In `MCLost86Fat` a text spans a sector and a cluster, a directory has a
file of the same name as the root, the last sector of a chain is followed by the end
mark, and two handles are fewer than a path and its directory need beside an open
file. In `MCLc24Machine` every option comes before and after every other that matters.

`RegVals`, `Code` and `Cells` cut behaviours off: a step that would leave them is
not taken. `InBounds` never cuts off a value that is not a word, so `TypeOK` is
not made true by the bound. `MaxProduct` bounds the transformations in a
matrix, which nothing reads. Deadlock is not checked where a program stops or
the window of memory ends; `MCSpu` and `MCGpu3d` do check it.

### What they show

*Processor.* `ImplementsCallStack` is a refinement: every step of the processor, read
through `Words` and `File`, is a step of the abstract stack. So `RET` resumes after its own
`CALL`, `IRET` restores the flags of the program it interrupted, `POP` delivers
the word last pushed, and no instruction touches a live word unasked, whatever
runs in between. `FlagsShowRelation` and `JumpsDecide` say that a comparison is still
in force when its jump comes, through whole interrupt handlers with comparisons of
their own, until the jump that is taken spends the flag; JG is the complement
of JL and is taken on equality.

*Compilers.* `TablesAgree`, the first part of `ExecutedAsWritten`, compares the three tables of the assembler and the
processor line by line: they agree on opcode, operands and length except
for the lines `Misassembled` names, and disagree on each of those. The rest of `ExecutedAsWritten` has a running
program step from line to line of its listing and find in the bytes what was written there. `CompiledMeansSource` and
`Terminates` then run compiled programs through exactly these bytes: every
program ends with its stack as it was, and if its source is careful with what its source
means in its output, its input and its data.

*3D.* `OpenPrimitiveKept` and `InactiveIsEmpty` hold although `EndList` replays the list
over the live pipeline and skips every `End`; `ListsReplay` says that what is left in the
pipeline is the figure. It holds for lists of one mode that set their colour,
and says so: since the `End`s are skipped, a list of blocks of two modes is drawn in the
first mode, and a colour runs on into the next block.

*Disk.* `ImplementsStore` is a refinement: no command, at any point of a crash, changes
what reading a path gives, except by filling a place that was empty, and the one word.
`WrittenIsRead` is the other half, for a write that was not cut off.

*Boot loader.* `OpensNamed` needs the root as `FAT_Initialize` left it (`fresh`): after
the root was searched past its first sector, closing it rewinds the position and
not the buffer, and the next search begins with entries of another sector. `OpenReturns`
needs the same; `MissingIsNotFound` shows what happens to a name that is not there.

*Life cycle.* The terminal is restored on every way out but a fault of the
host; with the one option `disk` the file of the disk is the old one, the new one, or
short when the write was interrupted.

### Disagreements the runs exhibit

Three runs expect a violation; each quotes the line that the code contradicts
(`findings` in `PROJECT.json`).

* `NoteEndsAtRelease`: `GAsnd` stores `freq` first, so the audio thread can find
  the new note over by the old envelope and silence it before its registers are
  written.
* `SavesTheDisk`: the disk is written to `argv[2]`, which with `cli disk os` is a
  file called `disk`, and with `bios rom disk os` is the file `rom`.
* `MissingIsNotFound`: a read of a directory always gives 32 bytes, so the loop of
  `FAT_FindFile` has no end and "not found" is never printed.

Others were read in the code and are part of the model, or of what it leaves out:

* Processor: `XCHG4` carries a register through a `U16` (`cpu24.h:1026`);
  `INT_BEEP` never advances `PC` (313); `COP1`, called a copy (1101), moves SP;
  `LDAAG` (921) adds DT where the zero-page form (813) adds DI; the comment of `JG0`
  (151) says "if negative flag set" and the code tests for clear; `INT1` (331) can
  never reach a vector.
* Assembler against processor (`Misassembled`): `nop` is 0xCC, an illegal opcode of
  the table although `cpu24.h:1108` calls it "Do nothing"; `not` is emitted as 0xF3,
  a walking load, because `las:493` stands before the right row at 547; `stosb`, `stogb`
  and `stosw` are emitted as 5F, 5E and 6E, the numbers of the comments, and have moved
  to 7F, 7E and 8E in the table; `pow` of two registers is three bytes and the handler
  takes two; `mov` of a register to an address is four bytes and takes three, and the loads
  `ledtb` and `ledib` are two bytes and take four; immediate arithmetic on registers
  past `%bp`, and from `mul` on past `%di`, falls into the next row of the table.
* rcc2ge: registers saved around a call come back in the order they were pushed, so
  two live ones are exchanged; `div` leaves its remainder in `%dc`, which may hold an
  operand; the value of an assignment is the address after it; `if` before
  `while` makes labels that las refuses, since a loop is numbered by one counter and
  its jumps by another; the line break missing at `codegen.h:224` makes las refuse every
  `else`; `puti` writes eight digits and is documented with `%07d` (`main.c:75`).
* Input: a scancode above 255 is stored cut to a byte and never found again; a key
  pressed while the slots are full is not listed later.
* 3D: the 257th vertex wraps the count; compiling the list of the debugger's cube
  test raises an error, since its second `Begin` is replayed without the `End` before it; `COMPILE_AND_EXECUTE` never executes;
  a compiled list of points draws nothing; recorded `Enable` and `Disable` are never
  replayed.
* Life cycle and disk: leaving the debugger of a trap does not save the disk;
  `ugovnfs3` prints "success" whatever happened.
* Boot loader: `fat.c:327` compares the mask before it is applied, so a file in the middle of
  a path is searched like a directory; a NULL handle in the middle of a path is
  dereferenced (status `wild`); `DISK_Initialize` asks for the
  parameters of the drive `disk->id` before it sets it (`disk.c:10`).

## 4. Fairness

* `ProgramSpec` has weak fairness of `Turn`: `execloop` is a closed loop of the
  host, nothing else can keep it from its next instruction.
* `Spu!Spec` has weak fairness of `GAgen` (the audio device asks for samples for
  ever) and of a `GAsnd` that has begun (straight-line code). Notes need not be
  started.
* `Hid!Spec` has weak fairness of `hid_events`: the program comes back to
  `INT_WAIT`. That is an assumption on programs; the ones in the repository do it
  once per frame. The person is under no fairness.
* `Lost86Fat!Spec` has weak fairness of `Library`: the loader is the only program on
  the machine and its loops go on turning. The program that calls it is under none.

Nothing else is fair, and the safety runs use none.

## 5. What is proved

`Lc24CpuProofs` proves **CpuTypes**: `Spec => []TypeOK`, for every instruction set,
memory window, image and bound. `TypeOK` is inductive as it stands. The work is
in the arithmetic: `% 2^24` and `% 256` at every place where a value could grow (`Wraps`),
each byte of a word (`WriteType`), the words read back from bytes (`ReadTypes`), the
subtraction of `PushSP` at 0 (`StackTypes`), flags set and cleared as bits of a
number (`FlagTypes`), and the halves of the product (`ResultTypes`). There is one lemma per
group of handlers, with a case per handler.

`Lc24StackProofs` proves **StackAligned**: `StackSpec => []Aligned`. The invariant
is `TypeOK` and `Holds(SP, Depth)`: SP is `3 * Depth` below its reset value and
every live word lies in the window. `Aligned` alone would not do, because a pop
must know that the word it takes is there. `Moved` says how far an instruction
may move SP, and each handler is shown to stay within the words that the
discipline counts for it; `Pushing` uses the room the discipline leaves, `Popping` the
words it requires.

The same module proves **StackRefines**: `StackSpec => ImplementsCallStack`.
`Live(m, n)` is the sequence of the first n words of a memory. A push
appends to it (`LivePush`, by way of `Bytes`: three bytes written and read back are the
word modulo 2^24), a pop drops the last (`LivePop`), and memory that agrees
on the live cells has the same words (`LiveSame`). Then there is one lemma per action of the
abstract stack, and every instruction that is not a stack operation is a `Local`
step, since the discipline keeps its stores out of the live cells.

From the refinement follow **FlagsShow** (`BranchSpec => []FlagsShowRelation`) and
**BranchesDecide** (`JumpsDecide`). `FlagsShowRelation` is inductive together with `IInv`:
of the running program because `Compared` sets and clears both flags whatever they were
(`ComparedShows`) and no instruction but comparisons, taken jumps and the returns of
interrupts touches them (`OthersKeep`); of the interrupted programs because a word that
stays on the stack keeps its value (`PrefixKept`, which is where the refinement is used),
an interrupt puts the flags on top (`FlagsOnTop`) and IRET takes them from there
(`FlagsTaken`). The flags travel through the stack as a number; `ByteDigits` and
`LowFlags` say that its bits arrive.

`Spu` itself ends with the theorems **SpuTypes** (`TypeOK`) and **EnvelopeFits** (`PosFits`) for
any number of channels, chunk length, number of samples per unit and maximal unit
whose three phases fit 16 bits (`LengthAssumption`: 48960 <= 65535 in the code).
`PosFits` is not inductive: that `tmp + len` is small enough when `pos += len` is
stored depends on what the samples before it found. `IInv` adds `Envelopes`
(each register is at most so many whole phases, even half-way through a `GAsnd`)
and `Mixing`: while samples are mixed, `pos` plus the samples done is at most `p`,
and `p` has not passed the longest envelope, since the sample before it was within
some phase. A reset of `pos` by the other thread only lowers it.

`Gpu3dProofs` proves **GpuTypes** (`TypeOK`), **GpuInactive** (`InactiveIsEmpty`) and
**GpuOpenPrimitiveKept** (`OpenPrimitiveKept`) for every set of commands, depth of the
stacks, length of the lists, buffer and width of the count. `InactiveIsEmpty` says nothing
while a list is compiled, which is when it is in danger; the invariant adds what is true
in the middle: the vertices held at `EndList` are still the first ones of the buffer
while the commands replayed so far are fewer than would wrap the count, and an inactive
pipeline held none. `Closing` is the lemma that the end of a loop establishes it again.

It also proves **GpuListsReplay** (`ListsReplay`) for lists of any length. The
invariant `Replaying` states the property for the commands done so far: the vertices
in the pipeline are those of the `Vertex` commands before `next`, each with the
colour in force at its place. The lemmas `PlacesGrow`, `PlacesRank` and
`ColourNext` say how the places and the colour in force change with one more command;
`ReplayFirst` is the step that opens the list and `ReplayLater` every other.

`GovnFs3Proofs` proves **DiskTypes** (`TypeOK`) and **DiskNoSharing** (`NoSharing`)
for images of any size. `NoSharing` rests on one more fact: a cluster marked free has no
owner (it follows from the second part of `NoSharing`), and so the clusters `freclust`
answers, which rise (`TakenRise`), belong to no file. `Linking` shows what the new
table says of old and new clusters, `Separation` that the whole command keeps files
apart, and `Saving` that every prefix of the write does: links reach the disk before the
entries that lead to them.

It also proves **DiskImplementsStore** (`ImplementsStore`) and **DiskWrittenIsRead**
(`WrittenIsRead`). The paths of directories and the chains of clusters are recursive functions
of the model. That they exist and what their values are is shown by induction over sets of
numbers (`Counting`, from the well-founded order of Nat: `AtExists` along a path, `ChainExists`
and `Downward` along a chain, whose links lead upwards). What reading a path gives is
written as a function of the image (`ReadAt`; `SearchIs`, `ReadIs` and `StoreIs` say it is
the model's), so that one can follow it from the image before a command to the one after it.
The invariant gains `Grown`: the entries in use are the first ones, the root at their
head, and the parent of each is in use. So a directory has one path and a file one
place (`OnePath`, `OnePlace`), an entry added finds nothing below it, and what was found before
is found still (`FoundGrows`). `ChainKept` and `GivenKept` say that files read the same when
new clusters are linked, `OneFilled` that a command fills one place at most, `StepKinds` what
kinds of step there are. For reading back, `NewChain` says that the chain of the new file is
the clusters taken, and `TakenInside` that these lie in the image while as many are free there.
`GeometryAssumption` says for this that the image is a prefix of the clusters and
that `/`, the name of the root, names no directory of a path, which is split at it.

`HidProofs` proves **TypeCorrect** (`TypeOK`), **FlagsShow** (`FlagsShowMouse`) and
**SlotsShow** (`SlotsShowKeys`) for any number of slots, keys, buttons and waiting events.
The ports lag behind the person by the whole queue, so neither property is inductive.
The invariant reads the queue as history: `Was(q, now, x, n)` is whether the key or
button x was down after the first n events, which the next event that concerns it tells
(the opposite of what it brings), or, if there is none, its state now. `QueueTells` says
that each event that waits brought what was so after it;
`FlagsTell` and `SlotsTell` that the ports show what was before the first event. What the
person does is appended and changes no earlier past; what `hid_events` takes is the front.
`SlotsShow` has one hypothesis, `Scancodes \subseteq Byte`: `hid.h:34` cuts a scancode to a
byte, and the property is false of keys above 255 (a hazard of the list, outside the runs).

`Lc24ProgramProofs` proves **EveryLineAgrees**, **AssembledAsWritten**, **GetcharContract**,
**PutiContract** and **PutsContract**. They carry the promise of the library from the text las is
given to what the processor does.

* `EveryLineAgrees` is `TablesAgree` for every immediate, byte and register instead of two
  immediates: `Faithful(i) <=> ~Misassembled(i)` for each `i \in Lines(a, n)`, `a` any word and `n`
  any byte. It has a case per family of lines (`InRow`, `Rows`: which rows of
  the table a family can reach), and for the lines that disagree, the field that comes back wrong.
* `AssembledAsWritten`: in a text of any length in which every label has a definition
  and no line is `Misassembled`, each line
  is decoded at its address as it was written, and its length leads to the next line. The addresses are a
  recursive function; their order and the place of each line's bytes in the image go by induction over the
  lines (`AddressSteps`, `AddressGrows`), so no two instructions share an address.
* The contracts follow a routine on the processor, instruction by instruction. `Called` is a state just after a
  `call`: the return address is on top of the stack, everything else is arbitrary. `Frame`
  says what is kept: all memory outside two words (for `getchar` three bytes below the
  stack and its top word), all registers but those the routine uses, interrupts on. A lemma for each
  kind of instruction (`TurnPush`, `TurnPop`, `TurnReturn`, `TurnWrite`, ...) says what one
  `Turn` does to the frame; `HandlerOf` and `InterruptIs` that no other handler of the
  table applies. `PutiPlaced`, `PutsPlaced` and `GetcharPlaced` find the routine's instructions at the addresses after
  `b`, with its own labels resolved, from `AssembledAsWritten`. The invariant of each proof is one
  predicate per place of the program counter; for the loops it has the index of the digit
  (`PutiContract`: at digit `h`, `AC = v % (10 * Ten[h])`, `BS = Ten[h]`, the digits before it written; `DigitIs` and `DivisorNext` carry it on) or of the
  character (`PutsContract`: `DT = a + h`, `h` characters written).

  Their hypotheses: the program is the text as assembled, a label is defined once, no line is
  `Misassembled` (`Loaded`); the routine stands somewhere in the text (`Contains`); the return
  address lies outside the routine; the stack words it uses lie in the modelled
  memory and do not wrap; for `puts`, the text ends in a zero byte before the end of memory and is not on those
  stack words. All compiled programs of `MCRcc2` satisfy the first two. What is proved is
  partial: *while* control has not come back (`[][PC # ret /\ Turn]_pvars`), control
  stays in the routine and the frame holds, and *when* it is back, the promise is kept. That it comes back
  is `Terminates`, which is only checked.

`Lc24ProgramProofs` also proves **MachineTypes**, **TerminalGivenBack** (`TerminalRestored`),
**DiskIsWhole** (`DiskAllOrNothing`) and **DiskIsKept** (`DiskSaved`) for every command line,
set of files and program; what a step of the program does to the types is `CpuTypes`. The
invariant adds three facts. `TerminalKnown`: main saves only after it has given the terminal
back, and a program that trapped found it tame. `FileChosen`: an option `disk` came before the file
that was chosen, which is the argument `argp`. `FilesKept`: no file changes before `saving`,
and then only the one named by the second argument.

`Lost86FatProofs` proves **FatTypes** (`TypeOK`), **HandlesAreHeld** (`HandlesHeld`),
**ReadsFollowTheChain** (`ReadsInOrder`) and **OpensWhatIsNamed** (`OpensNamed`) for disks,
tables, sectors, clusters, paths and reads of any size. The first two need `Walking`: a search goes through a handle that the program does not
hold, unless it is the root, and `FAT_Read` is never asked for more than is left of a file.
`ReadsInOrder` speaks of files between reads; the invariant `InPlace` follows each turn of the loop. `Given(h)` is what
was read of a file with what the running read has gathered. `Placed` says that it is the
start of the text, as long as the position, and that `current`, `sector` and the buffer
are the place of that position: the `i`-th cluster of the chain, where
`pos = ((i - 1) * SectorsPerCluster + sector) * SECTOR_SIZE + rest` (`IndexMoves` and
`NextIndex` carry the count over a sector and over a cluster). `Named` is a side
condition: only names of a path, or one left unterminated, are searched, so that a unit found is
one of the disk. The theorem has one hypothesis, `Chained`: the chain of every file a path may
find runs through clusters of the disk to an end mark. Where it does not, the volume does not say what the text is.
TLC evaluates it for the volume of the run (`ASSUME WellFormed` of `MCLost86Fat`).

`OpensNamed` speaks of the end of a search; its invariant `Led` says where a search is. `OnPath(n)`: what is
left of the path is the path asked for from its `n`-th component on, and the name sought is that
component, or garbled if a name was not terminated. `OnTheWay(n)`: the handle searched is
the directory the components before lead to (`Beneath`), and what was read
of it lies before the first unit of the name, or is that unit (`Seeking`). `Spot(h, fd, k)` is
the place of a directory after `k` units; unlike a file, it keeps its position modulo a sector
only, and the root counts sectors instead of clusters. `OnTheWay` is claimed while
the answer is still owed (`Sure`): the root was fresh, no read has failed, no name was garbled.
`ReadingSpot` carries the place over a turn of `FAT_Read`; `EntryMeans`, `MissingMeans` and
`MissingStays` say what the recursion of `Entries` along the path gives.
The hypothesis is `Findable`: the sectors of the root are on the disk, a directory that a path goes through
has a chain, what the path leads to starts on the disk, and a name missing
where it is sought is the name of no unit. The last is needed because the code
does not stop at the end of a directory (`MissingIsNotFound`): it takes what lies behind for
entries, and could open one of that name. TLC evaluates `Findable` in the same place.

Assumptions used: the constants' assumptions in the modules (`IsaAssumption`,
`SizeAssumption`, `GeometryAssumption`, ...), which TLC evaluates in every run of the
module, and the hypotheses named above of `SlotsShow` (`Scancodes \subseteq Byte`),
`ReadsFollowTheChain` (`Chained`), `OpensWhatIsNamed` (`Findable`), `AssembledAsWritten` and the contracts
(`Loaded`, `Contains` and those about the stack).

Only model-checked:

* Liveness (`Terminates`, `FallsSilent`, `ReleasedKeyLeaves`, `OpenReturns`), which is out of
  the prover's reach.
* `CompiledMeansSource` and `ExecutedAsWritten`: `Rcc2Gen` recurses over syntax trees with
  RECURSIVE operators, and a theorem cannot be stated in a module that reaches one. The
  parts that do not depend on the generator are proved: `EveryLineAgrees` states `TablesAgree`, the first part of
  `ExecutedAsWritten`; `AssembledAsWritten` says where every line is
  found, so that only control staying in the listing is left of the second; the contracts say
  what `Value` assumes of a library call.

## 6. What is not modelled

Within the modelled parts:

* Processor: memory outside the window `Cells`, so neither `INT_VIDEO_WRITE` into the
  disk nor code that runs off memory; what is drawn; the results of bit operations
  and `pow`; floating point. Samples of the sound unit; the SDL queue's own limit of
  65535 events; scancodes above 255.
* Compilers: the lexer and the data directives of las, its floating-point lines, the
  tokenizer of rcc2ge, an expression that needs more than six registers
  (`codegen.h:45`), library routines that are one interrupt.
* 3D: arithmetic of matrices, clipping, depth and pixels.
* ugovnfs3: an image that is no GovnFS image, the buffer of fifty clusters that reading a
  larger file overruns, names of path components longer than eleven bytes, a
  search that leaves the table.
* Lost86: the 32-bit position of the root after very long searches, the copy of
  the driver under `tools/`.
* Life cycle: the debugger's commands that print or step, its behaviour at the end of
  input, the window.

Whole components that are not modelled are listed in `PROJECT.json` with the reason.
`ugovnfs2` and the escape parser of the terminal are within reach and came after the ones here;
`lusl` and `rcc2` are larger compilers whose reference semantics would be as long as
they are; floating point is real numbers; `ugovnfs1.3`, `lcc` and `lrs` have no state to
speak of. Most of the lines of the repository are vendored or generated
(`posix-uefi`, `lib/lusl.h` with 35,892 lines, `compiled/`) and hold no logic of this
program, which is why the map covers a small share of all lines.

## 7. What is left

1. **GovnFs2** on the plan of GovnFs3; **Terminal**, the escape parser.
2. **Lusl**: expressions compiled and run on Lc24Program (`<=` through `jg`).
