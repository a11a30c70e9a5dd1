------------------------------- MODULE Lc24Cpu -------------------------------
(***************************************************************************)
(* The LC24 processor: lib/cpu24/cpu24.h.                                  *)
(*                                                                         *)
(* A behaviour is a run of Exec() over an arbitrary program: at each step  *)
(* the opcode found at PC is any instruction of ISA, so every program made *)
(* of ISA, self-modifying ones included, is a behaviour.  An instruction   *)
(* is already decoded: op is the C function of the table INSTS, r and s    *)
(* its registers, a its 24-bit immediate and n its 8-bit one.  Register    *)
(* operands are register numbers (0..15), as the assembler emits them.     *)
(***************************************************************************)
EXTENDS Integers

CONSTANTS
  ISA,       \* the instructions of the programs considered
  Code,      \* bound: the addresses PC may have when an opcode is fetched
  Cells,     \* bound: the bytes of lc->mem that are modelled
  Disk,      \* bound: the bytes of lc->rom that are modelled
  Images,    \* the memory images main() may load before Exec
  Roms,      \* the disk images it may load
  Drive,     \* bit 7 of lc->pin: 1 when a disk is connected
  RegVals,   \* bound: the values a register may take
  Outside    \* bound: bytes that come from outside (keys, random, pixels)

VARIABLES
  reg,       \* lc->reg: the sixteen 24-bit registers
  PS,        \* lc->PS: the flags byte, -I---ZNC
  PC,        \* lc->PC: 32 bits wide, never wrapped to 24
  mem,       \* lc->mem
  rom,       \* lc->rom: the disk
  run,       \* how Exec stands
  lc_errno   \* the exit status, a byte

vars == <<reg, PS, PC, mem, rom, run, lc_errno>>

W    == 2^24
Word == 0 .. W - 1
Byte == 0 .. 2^8 - 1

Reg == {"AC", "BS", "CN", "DC", "DT", "DI", "SP", "BP",
        "EX", "FX", "HX", "LX", "X", "Y", "IX", "IY"}

Branches == {"JME0", "JMNE0", "JL0", "JG0", "JMP0", "JMP1", "JMP2", "LOOP"}
Pushes   == {"PUSH0", "PUSH1", "PUSHp"}
Returns  == {"RET", "RC", "RE", "RNE"}
AluOps   == {"MOV", "ADD", "SUB", "MUL", "AND", "OR", "XOR", "POW11",
             "POW10"}
Loads    == {"LDRp", "LDZS", "LDZG", "LDA", "LDAS", "LDAG", "LODSB",
             "LODGB", "LODSW", "LOBBg", "LOBHg"}
Stores   == {"STORB", "STORW", "STGRB", "STOSB", "STOGB", "STOSW", "STr0",
             "STRb", "MV26"}
Walks    == {"SBc", "SWc", "SHc", "LBc", "LWc", "LHc"}
FlagOps  == {"STI", "CLI", "CLC", "LFA", "LAF"}
Opcode   == Branches \cup Pushes \cup Returns \cup AluOps \cup Loads
            \cup Stores \cup Walks \cup FlagOps
            \cup {"POP1", "COP1", "CALL", "IRET", "INT0", "INT1", "CMP11",
                  "CMP10", "CMPpi", "ALUI", "DIV11", "DIVI", "INXr", "DEXr",
                  "INXM", "DEXM", "XCHG4", "NOT", "LDD", "STD", "CPUID",
                  "HLT", "HLT1", "UNK"}

Instruction == [op : Opcode, r : Reg, s : Reg, a : Word, n : Byte]

ASSUME IsaAssumption     == ISA \subseteq Instruction
ASSUME CodeAssumption    == Code \subseteq Word
ASSUME CellsAssumption   == Cells \subseteq Word /\ Disk \subseteq Word
ASSUME ImagesAssumption  == Images \subseteq [Cells -> Byte]
ASSUME RomsAssumption    == Roms \subseteq [Disk -> Byte] /\ Drive \in {0, 1}
ASSUME RegValsAssumption == RegVals \subseteq Word
ASSUME OutsideAssumption == Outside \subseteq Byte

-----------------------------------------------------------------------------
(* Flags: one bit each of the byte PS. *)

FlagI == 64
FlagZ == 4
FlagN == 2
FlagC == 1

Bit(ps, f)   == (ps \div f) % 2 = 1
Raise(ps, f) == IF Bit(ps, f) THEN ps ELSE ps + f
Lower(ps, f) == IF Bit(ps, f) THEN ps - f ELSE ps
Put(ps, f, on) == IF on THEN Raise(ps, f) ELSE Lower(ps, f)

(* Memory: little-endian words.  lc->mem is followed by lc->rom, and what  *)
(* an access outside mem reads is not modelled: Cells bounds every access. *)

Digit(v, j) == IF j = 0 THEN v % 256
               ELSE IF j = 1 THEN (v \div 256) % 256
               ELSE (v \div 65536) % 256

Read16(m, a) == m[a] + 256 * m[a + 1]
Read24(m, a) == m[a] + 256 * m[a + 1] + 65536 * m[a + 2]
Write(m, a, k, v) ==
  [c \in Cells |-> IF c \in a .. a + k - 1 THEN Digit(v, c - a) ELSE m[c]]
Has(a, k) == a .. a + k - 1 \subseteq Cells

(* The stack grows down: a push writes the three bytes that end at SP and  *)
(* then moves SP, a pop moves SP and then reads them.  The index SP - 2 is *)
(* computed before the store, so with SP < 2 it is negative, is converted  *)
(* to a U32 near 2^32 and lands four gigabytes past mem: the host faults.  *)

\* Wrong on purpose: the stack pointer does not wrap.
PushSP_unwrapped(s) == s - 3
PushSP(s)        == (s - 3) % W
\* Wrong on purpose: a pop moves SP by two.
PopSP_short(s)   == (s + 2) % W
PopSP(s)         == (s + 3) % W
StackPush(m, s, v) == Write(m, s - 2, 3, v)
StackPop(m, s)   == Read24(m, PopSP(s) - 2)
CanPush(s)       == s >= 2 /\ Has(s - 2, 3)
CanPop(s)        == PopSP(s) >= 2 /\ Has(PopSP(s) - 2, 3)

-----------------------------------------------------------------------------
(* Control transfer. *)

rest == <<mem, rom, run, lc_errno>>      \* what a register operation leaves

JME0(i) ==
  /\ i.op = "JME0"
  /\ \/ Bit(PS, FlagZ) /\ PC' = i.a /\ PS' = Lower(PS, FlagZ)
     \/ ~Bit(PS, FlagZ) /\ PC' = PC + 4 /\ PS' = PS
  /\ UNCHANGED <<reg, rest>>

JMNE0(i) ==
  /\ i.op = "JMNE0"
  /\ PC' = IF Bit(PS, FlagZ) THEN PC + 4 ELSE i.a
  /\ UNCHANGED <<reg, PS, rest>>

JL0(i) ==
  /\ i.op = "JL0"
  /\ \/ Bit(PS, FlagN) /\ PC' = i.a /\ PS' = Lower(PS, FlagN)
     \/ ~Bit(PS, FlagN) /\ PC' = PC + 4 /\ PS' = PS
  /\ UNCHANGED <<reg, rest>>

\* Wrong on purpose: JG is not taken on equality.
JG0_strict(i) ==
  /\ i.op = "JG0"
  /\ PC' = IF Bit(PS, FlagN) \/ Bit(PS, FlagZ) THEN PC + 4 ELSE i.a
  /\ UNCHANGED <<reg, PS, rest>>

\* The jump is taken when the flag is clear, so lowering it changes nothing.
JG0(i) ==
  /\ i.op = "JG0"
  /\ PC' = IF Bit(PS, FlagN) THEN PC + 4 ELSE i.a
  /\ UNCHANGED <<reg, PS, rest>>

\* JMP2 takes its target from one byte of memory, not from three.
Jump(i) ==
  /\ \/ i.op = "JMP0" /\ PC' = i.a
     \/ i.op = "JMP1" /\ PC' = reg[i.r]
     \/ i.op = "JMP2" /\ i.a \in Cells /\ PC' = mem[i.a]
  /\ UNCHANGED <<reg, PS, rest>>

LOOP(i) ==
  /\ i.op = "LOOP"
  /\ \/ /\ reg["CN"] # 0
        /\ reg' = [reg EXCEPT !["CN"] = @ - 1]
        /\ PC' = i.a
     \/ /\ reg["CN"] = 0
        /\ PC' = PC + 4
        /\ reg' = reg
  /\ UNCHANGED <<PS, rest>>

-----------------------------------------------------------------------------
(* The stack. *)

\* The value a push instruction pushes, and its length.
Pushed(i) == IF i.op = "PUSH0" THEN i.a
             ELSE IF i.op = "PUSH1" THEN reg[i.r] ELSE mem[reg[i.r]]
PushLen(i) == IF i.op = "PUSH0" THEN 4 ELSE 2

PUSH(i) ==
  /\ i.op \in Pushes
  /\ i.op = "PUSHp" => reg[i.r] \in Cells
  /\ CanPush(reg["SP"])
  /\ mem' = StackPush(mem, reg["SP"], Pushed(i))
  /\ reg' = [reg EXCEPT !["SP"] = PushSP(@)]
  /\ PC' = PC + PushLen(i)
  /\ UNCHANGED <<PS, rom, run, lc_errno>>

\* With r = SP the popped word replaces the stack pointer.
POP1(i) ==
  /\ i.op = "POP1"
  /\ CanPop(reg["SP"])
  /\ reg' = [reg EXCEPT !["SP"] = PopSP(@),
                        ![i.r] = StackPop(mem, reg["SP"])]
  /\ PC' = PC + 2
  /\ UNCHANGED <<PS, rest>>

\* A pop followed by a move of SP back by two bytes, where a word has three.
\* With r = SP it is the popped word that is moved.
COP1(i) ==
  /\ i.op = "COP1"
  /\ CanPop(reg["SP"])
  /\ LET popped == [reg EXCEPT !["SP"] = PopSP(@),
                               ![i.r] = StackPop(mem, reg["SP"])]
     IN  reg' = [popped EXCEPT !["SP"] = (@ - 2) % W]
  /\ PC' = PC + 2
  /\ UNCHANGED <<PS, rest>>

CALL(i) ==
  /\ i.op = "CALL"
  /\ CanPush(reg["SP"])
  /\ mem' = StackPush(mem, reg["SP"], PC + 4)
  /\ reg' = [reg EXCEPT !["SP"] = PushSP(@)]
  /\ PC' = i.a
  /\ UNCHANGED <<PS, rom, run, lc_errno>>

\* Wrong on purpose: RE and RNE are exchanged.
Returning_swapped(i) ==
  i.op = "RET" \/ (i.op = "RE" /\ ~Bit(PS, FlagZ)) \/ (i.op = "RNE" /\ Bit(PS, FlagZ))

\* RET always returns, RC on carry, RE on zero, RNE on not zero.
Returning(i) ==
  \/ i.op = "RET"
  \/ i.op = "RC"  /\ Bit(PS, FlagC)
  \/ i.op = "RE"  /\ Bit(PS, FlagZ)
  \/ i.op = "RNE" /\ ~Bit(PS, FlagZ)

Return(i) ==
  /\ i.op \in Returns
  /\ \/ /\ Returning(i)
        /\ CanPop(reg["SP"])
        /\ PC' = StackPop(mem, reg["SP"])
        /\ reg' = [reg EXCEPT !["SP"] = PopSP(@)]
     \/ /\ ~Returning(i)
        /\ PC' = PC + 1
        /\ reg' = reg
  /\ UNCHANGED <<PS, rest>>

\* Wrong on purpose: the two words are popped in the wrong order.
IRET_swapped(i) ==
  /\ i.op = "IRET"
  /\ CanPop(reg["SP"])
  /\ CanPop(PopSP(reg["SP"]))
  /\ PC' = StackPop(mem, reg["SP"])
  /\ PS' = StackPop(mem, PopSP(reg["SP"])) % 256
  /\ reg' = [reg EXCEPT !["SP"] = PopSP(PopSP(@))]
  /\ UNCHANGED rest

\* The flags are on top of the return address; only their low byte is kept.
IRET(i) ==
  /\ i.op = "IRET"
  /\ CanPop(reg["SP"])
  /\ CanPop(PopSP(reg["SP"]))
  /\ PS' = StackPop(mem, reg["SP"]) % 256
  /\ PC' = StackPop(mem, PopSP(reg["SP"]))
  /\ reg' = [reg EXCEPT !["SP"] = PopSP(PopSP(@))]
  /\ UNCHANGED rest

-----------------------------------------------------------------------------
(* Interrupts: INT0 takes its number from the byte after the opcode, INT1   *)
(* from the low byte of a register.  All are skipped while I is clear.     *)

INT_EXIT        == 0
INT_READ        == 1
INT_WRITE       == 2
INT_DATE        == 3
INT_RESET       == 4
INT_VIDEO_WRITE == 12
INT_RAND        == 33
INT_WAIT        == 34
INT_BEEP        == 35
INT_3D          == 69
Draws           == {17, 18, 19, 20, 21, 22, 23, INT_3D}
Handled         == Draws \cup {INT_EXIT, INT_READ, INT_WRITE, INT_DATE, INT_RESET,
                    INT_VIDEO_WRITE, INT_RAND, INT_WAIT, INT_BEEP}

Screen  == 4194304 .. 4501503        \* 0x400000, 640 * 480 bytes
Palette == 4849664 .. 4850175        \* 0x4A0000, 256 entries of two bytes
HidPort == 4718592 .. 4718609        \* 0x480000: mouse, buttons and key slots
Vector(n) == 16711680 + 3 * (n - 128)
ResetSP == 16711679                  \* 0xFEFFFF

IsInt(i)    == i.op \in {"INT0", "INT1"}
Number(i)   == IF i.op = "INT0" THEN i.n ELSE reg[i.r] % 256
\* The test for a vector reads the byte after the opcode in both forms, and
\* for INT1 that byte is a register number.
Vectored(i) == i.op = "INT0" /\ i.n >= 128 /\ Bit(PS, FlagI)
Calls(i, S) == IsInt(i) /\ Bit(PS, FlagI) /\ ~Vectored(i) /\ Number(i) \in S

IntMasked(i) ==
  /\ IsInt(i)
  /\ ~Bit(PS, FlagI)
  /\ PC' = PC + 2
  /\ UNCHANGED <<reg, PS, rest>>

\* The return address and then the flags; I stays as it is.
IntVector(i) ==
  LET s == reg["SP"] IN
  /\ Vectored(i)
  /\ CanPush(s) /\ CanPush(PushSP(s))
  /\ Has(Vector(i.n), 3)
  /\ mem' = StackPush(StackPush(mem, s, PC + 2), PushSP(s), PS)
  /\ reg' = [reg EXCEPT !["SP"] = PushSP(PushSP(s))]
  /\ PC' = Read24(mem', Vector(i.n))
  /\ UNCHANGED <<PS, rom, run, lc_errno>>

IntExit(i) ==
  /\ Calls(i, {INT_EXIT})
  /\ CanPop(reg["SP"])
  /\ lc_errno' = StackPop(mem, reg["SP"]) % 256
  /\ reg' = [reg EXCEPT !["SP"] = PopSP(@)]
  /\ run' = "stopped"
  /\ UNCHANGED <<PS, PC, mem, rom>>

\* getchar: a carriage return becomes a line feed, end of file is 255.
IntRead(i) ==
  /\ Calls(i, {INT_READ})
  /\ CanPush(reg["SP"])
  /\ \E z \in Outside \cup {255} :
       mem' = StackPush(mem, reg["SP"], IF z = 13 THEN 10 ELSE z)
  /\ reg' = [reg EXCEPT !["SP"] = PushSP(@)]
  /\ PC' = PC + 2
  /\ UNCHANGED <<PS, rom, run, lc_errno>>

\* Wrong on purpose: PC stays.
IntWrite_stuck(i) ==
  /\ Calls(i, {INT_WRITE})
  /\ CanPop(reg["SP"])
  /\ reg' = [reg EXCEPT !["SP"] = PopSP(@)]
  /\ UNCHANGED <<PS, PC, rest>>

IntWrite(i) ==
  /\ Calls(i, {INT_WRITE})
  /\ CanPop(reg["SP"])
  /\ reg' = [reg EXCEPT !["SP"] = PopSP(@)]
  /\ PC' = PC + 2
  /\ UNCHANGED <<PS, rest>>

\* Reset(): the general registers, memory and the disk keep their contents.
IntReset(i) ==
  /\ Calls(i, {INT_RESET})
  /\ reg' = [reg EXCEPT !["SP"] = ResetSP, !["BP"] = ResetSP]
  /\ PC' = 0
  /\ PS' = FlagI
  /\ UNCHANGED rest

IntVideoWrite(i) ==
  /\ Calls(i, {INT_VIDEO_WRITE})
  /\ LET at == 4194304 + reg["DT"]
     IN  Has(at, 1) /\ mem' = Write(mem, at, 1, reg["AC"])
  /\ PC' = PC + 2
  /\ UNCHANGED <<reg, PS, rom, run, lc_errno>>

Block(at, rows, cols, pitch) ==
  {at + y * pitch + x : y \in 0 .. rows - 1, x \in 0 .. cols - 1}

\* The bytes each drawing call may write: a page, a sprite put at DT or the
\* 64 bytes a sprite is read into at DI, the screen and palette for the 3D.
Surface(n) ==
  IF n = 21 THEN Block(reg["DI"], 8, 8, 8)
  ELSE IF n \in {19, 20} THEN Block(reg["DT"], 8, 8, 640)
  ELSE IF n = 22 THEN Block(reg["DT"], 24, 16, 640)
  ELSE IF n = 23 THEN Block(reg["DT"], 10, 8, 640)
  ELSE Screen \cup Palette

\* What is drawn is not modelled: any bytes may end up in the surface.
Scribble(S) ==
  \E px \in [{c \in Cells : c \in S} -> Outside] :
    mem' = [c \in Cells |-> IF c \in S THEN px[c] ELSE mem[c]]

\* Some 3D commands answer in AC: an error, a list number, a flag.
IntDraw(i) ==
  /\ Calls(i, Draws)
  /\ Scribble(Surface(Number(i)))
  /\ \/ reg' = reg
     \/ Number(i) = INT_3D /\ \E v \in Outside : reg' = [reg EXCEPT !["AC"] = v]
  /\ PC' = PC + 2
  /\ UNCHANGED <<PS, rom, run, lc_errno>>

\* INT_RAND and INT_DATE: a number below 65536, in DC.
IntAsk(i) ==
  /\ Calls(i, {INT_RAND, INT_DATE})
  /\ \E lo, hi \in Outside : reg' = [reg EXCEPT !["DC"] = lo + 256 * hi]
  /\ PC' = PC + 2
  /\ UNCHANGED <<PS, rest>>

\* hid_events() updates the ports; closing the window stops the machine.
IntWait(i) ==
  /\ Calls(i, {INT_WAIT})
  /\ Scribble(HidPort)
  /\ PC' = PC + 2
  /\ \/ run' = "stopped" /\ lc_errno' = 0
     \/ UNCHANGED <<run, lc_errno>>
  /\ UNCHANGED <<reg, PS, rom>>

\* The note is started and the handler returns before PC is advanced.
IntBeep(i) ==
  /\ Calls(i, {INT_BEEP})
  /\ UNCHANGED vars

\* The exit status is whatever lc_errno was.
IntIllegal(i) ==
  /\ IsInt(i) /\ Bit(PS, FlagI) /\ ~Vectored(i)
  /\ Number(i) \notin Handled
  /\ run' = "stopped"
  /\ UNCHANGED <<reg, PS, PC, mem, rom, lc_errno>>

INT(i) == \/ IntMasked(i) \/ IntVector(i) \/ IntExit(i) \/ IntRead(i)
          \/ IntWrite(i) \/ IntReset(i) \/ IntVideoWrite(i) \/ IntDraw(i)
          \/ IntAsk(i) \/ IntWait(i) \/ IntBeep(i) \/ IntIllegal(i)

\* A push with SP below 2, or a pop that wraps SP below 2.  IRET is here
\* for its first pop and for its second.
HitsHost(i) ==
  LET s == reg["SP"] IN
  \/ (i.op \in Pushes \/ i.op = "CALL") /\ s < 2
  \/ i.op \in {"POP1", "COP1"} /\ PopSP(s) < 2
  \/ i.op \in Returns /\ Returning(i) /\ PopSP(s) < 2
  \/ i.op = "IRET" /\ (PopSP(s) < 2 \/ PopSP(PopSP(s)) < 2)
  \/ Vectored(i) /\ (s < 2 \/ PushSP(s) < 2)
  \/ Calls(i, {INT_READ}) /\ s < 2
  \/ Calls(i, {INT_EXIT, INT_WRITE}) /\ PopSP(s) < 2

StackFault(i) ==
  /\ HitsHost(i)
  /\ run' = "fault"
  /\ UNCHANGED <<reg, PS, PC, mem, rom, lc_errno>>
-----------------------------------------------------------------------------
(* Arithmetic.  No instruction but the comparisons touches Z and N, and    *)
(* none sets C.                                                            *)

\* x * y in 24 bits, from their 12-bit halves.
Times(x, y) ==
  LET high == (x \div 4096) * (y % 4096) + (x % 4096) * (y \div 4096)
  IN  ((high % 4096) * 4096 + (x % 4096) * (y % 4096)) % W

\* The results op may have on x and y.  What the bit operations and pow
\* compute is not modelled: any word a register may hold.
Results(op, x, y) ==
  CASE op = "MOV" -> {y}
    [] op = "ADD" -> {(x + y) % W}
    [] op = "SUB" -> {(x - y) % W}
    [] op = "MUL" -> {Times(x, y)}
    [] OTHER      -> RegVals

AluRR(i) ==
  /\ i.op \in AluOps
  /\ \E v \in Results(i.op, reg[i.r], reg[i.s]) : reg' = [reg EXCEPT ![i.r] = v]
  /\ PC' = PC + IF i.op = "POW10" THEN 3 ELSE 2
  /\ UNCHANGED <<PS, rest>>

\* ADDx0, SUBx0, MULx0 and LDr0: a 24-bit immediate; s names no register
\* here, n selects the operation.
ImmOp(n) == IF n = 0 THEN "MOV" ELSE IF n = 1 THEN "ADD"
            ELSE IF n = 2 THEN "SUB" ELSE "MUL"
AluRI(i) ==
  /\ i.op = "ALUI"
  /\ \E v \in Results(ImmOp(i.n), reg[i.r], i.a) : reg' = [reg EXCEPT ![i.r] = v]
  /\ PC' = PC + 4
  /\ UNCHANGED <<PS, rest>>

\* The quotient replaces the dividend and the remainder goes to DC, unless
\* the dividend is DC itself.  A zero divisor is a fault of the host.
DivideBy(i, y) ==
  /\ y # 0
  /\ reg' = [reg EXCEPT !["DC"] = reg[i.r] % y, ![i.r] = reg[i.r] \div y]
DIV(i) ==
  /\ \/ i.op = "DIV11" /\ DivideBy(i, reg[i.s]) /\ PC' = PC + 2
     \/ i.op = "DIVI" /\ DivideBy(i, i.a) /\ PC' = PC + 4
  /\ UNCHANGED <<PS, rest>>
DivideByZero(i) ==
  /\ \/ i.op = "DIV11" /\ reg[i.s] = 0
     \/ i.op = "DIVI" /\ i.a = 0
  /\ run' = "fault"
  /\ UNCHANGED <<reg, PS, PC, mem, rom, lc_errno>>

Step1(i) ==
  /\ \/ i.op = "INXr" /\ reg' = [reg EXCEPT ![i.r] = (@ + 1) % W] /\ PC' = PC + 1
     \/ i.op = "DEXr" /\ reg' = [reg EXCEPT ![i.r] = (@ - 1) % W] /\ PC' = PC + 1
     \/ i.op = "NOT" /\ reg' = [reg EXCEPT ![i.r] = W - 1 - @] /\ PC' = PC + 2
  /\ UNCHANGED <<PS, rest>>

\* The old value of r travels through a 16-bit temporary.
XCHG4(i) ==
  /\ i.op = "XCHG4"
  /\ reg' = [reg EXCEPT ![i.r] = reg[i.s], ![i.s] = reg[i.r] % 65536]
  /\ PC' = PC + 2
  /\ UNCHANGED <<PS, rest>>

\* Wrong on purpose: N is never cleared.
Compared_sticky(x, y) ==
  PS' = Put(IF x < y THEN Raise(PS, FlagN) ELSE PS, FlagZ, x = y)

\* Z is equality and N is unsigned less-than: the operands have 24 bits and
\* their difference is taken in 32.
Compared(x, y) == PS' = Put(Put(PS, FlagZ, x = y), FlagN, x < y)
CMP(i) ==
  /\ \/ i.op = "CMP11" /\ Compared(reg[i.r], reg[i.s]) /\ PC' = PC + 2
     \/ i.op = "CMP10" /\ Compared(reg[i.r], i.a) /\ PC' = PC + 5
     \/ /\ i.op = "CMPpi"
        /\ reg[i.r] \in Cells
        /\ Compared(mem[reg[i.r]], i.a)
        /\ PC' = PC + 5
  /\ UNCHANGED <<reg, rest>>

FLAGS(i) ==
  /\ \/ i.op = "STI" /\ PS' = Raise(PS, FlagI) /\ reg' = reg
     \/ i.op = "CLI" /\ PS' = Lower(PS, FlagI) /\ reg' = reg
     \/ i.op = "CLC" /\ PS' = Lower(PS, FlagC) /\ reg' = reg
     \/ i.op = "LAF" /\ PS' = reg["AC"] % 256 /\ reg' = reg
     \/ i.op = "LFA" /\ PS' = PS
        /\ reg' = [reg EXCEPT !["AC"] = 256 * Digit(@, 1) + PS]
  /\ PC' = PC + 1
  /\ UNCHANGED rest

-----------------------------------------------------------------------------
(* Memory.  A load reads k bytes at an address made of the operands; AS    *)
(* and AG both add DT to the absolute address.                             *)

LoadAddr(i) ==
  CASE i.op = "LDRp" -> reg[i.s]
    [] i.op = "LDZS" -> i.n + reg["DT"]
    [] i.op = "LDZG" -> i.n + reg["DI"]
    [] i.op = "LDA"  -> i.a
    [] i.op \in {"LDAS", "LDAG"} -> i.a + reg["DT"]
    [] i.op \in {"LODSB", "LODSW"} -> reg["DT"]
    [] i.op = "LODGB" -> reg["DI"]
    [] i.op \in {"LOBBg", "LOBHg"} -> reg["BP"] + (i.n % 32)
LoadDest(i) == IF i.op = "LODSB" THEN "DT" ELSE IF i.op = "LODGB" THEN "DI"
               ELSE IF i.op = "LODSW" THEN "AC" ELSE i.r
LoadLen(i)  == IF i.op \in {"LDA", "LDAS", "LDAG"} THEN 4
               ELSE IF i.op \in {"LODSB", "LODGB", "LODSW"} THEN 1 ELSE 2
Size(i) == IF i.op \in {"LODSW", "STORW", "STOSW", "SWc", "LWc"} THEN 2
           ELSE IF i.op \in {"LOBHg", "SHc", "LHc"} THEN 3 ELSE 1
Fetch(m, a, k) == IF k = 1 THEN m[a] ELSE IF k = 2 THEN Read16(m, a)
                  ELSE Read24(m, a)

LOAD(i) ==
  /\ i.op \in Loads
  /\ Has(LoadAddr(i), Size(i))
  /\ reg' = [reg EXCEPT ![LoadDest(i)] = Fetch(mem, LoadAddr(i), Size(i))]
  /\ PC' = PC + LoadLen(i)
  /\ UNCHANGED <<PS, rest>>

\* STr0 has a three-byte address and yet advances PC by three in all.
StoreAddr(i) == IF i.op \in {"STr0", "MV26"} THEN i.a
                ELSE IF i.op \in {"STGRB", "STOGB"} THEN reg["DI"] ELSE reg["DT"]
StoreVal(i)  == IF i.op \in {"STOSB", "STOGB", "STRb", "MV26"} THEN i.n
                ELSE IF i.op = "STOSW" THEN reg["AC"] ELSE reg[i.r]
StoreLen(i)  == IF i.op = "MV26" THEN 5 ELSE IF i.op = "STr0" THEN 3
                ELSE IF i.op = "STOSW" THEN 1 ELSE 2
STORE(i) ==
  /\ i.op \in Stores
  /\ Has(StoreAddr(i), Size(i))
  /\ mem' = Write(mem, StoreAddr(i), Size(i), StoreVal(i))
  /\ reg' = IF i.op = "STRb" THEN [reg EXCEPT !["DT"] = (@ + 1) % W] ELSE reg
  /\ PC' = PC + StoreLen(i)
  /\ UNCHANGED <<PS, rom, run, lc_errno>>

\* SBc, SWc, SHc: store s at [r] and advance r.
WalkStore(i) ==
  /\ i.op \in {"SBc", "SWc", "SHc"}
  /\ Has(reg[i.r], Size(i))
  /\ mem' = Write(mem, reg[i.r], Size(i), reg[i.s])
  /\ reg' = [reg EXCEPT ![i.r] = (@ + Size(i)) % W]
  /\ PC' = PC + 2
  /\ UNCHANGED <<PS, rom, run, lc_errno>>

\* LBc, LHc load s from [r] and then advance r; LWc advances r first, so for
\* r = s the loaded word stays.
WalkLoad(i) ==
  /\ i.op \in {"LBc", "LWc", "LHc"}
  /\ Has(reg[i.r], Size(i))
  /\ LET v      == Fetch(mem, reg[i.r], Size(i))
         loaded == [reg EXCEPT ![i.s] = v]
     IN  reg' = IF i.op = "LWc"
                THEN [reg EXCEPT ![i.r] = (@ + 2) % W, ![i.s] = v]
                ELSE [loaded EXCEPT ![i.r] = (@ + Size(i)) % W]
  /\ PC' = PC + 2
  /\ UNCHANGED <<PS, rest>>

Step1M(i) ==
  /\ i.a \in Cells
  /\ \/ i.op = "INXM" /\ mem' = Write(mem, i.a, 1, (mem[i.a] + 1) % 256)
     \/ i.op = "DEXM" /\ mem' = Write(mem, i.a, 1, (mem[i.a] - 1) % 256)
  /\ PC' = PC + 4
  /\ UNCHANGED <<reg, PS, rom, run, lc_errno>>

\* LDDS, LDDG, STDS, STDG: one byte of the disk at DT or at DI.  s says which.
DISK(i) ==
  /\ i.s \in {"DT", "DI"}
  /\ reg[i.s] \in Disk
  /\ \/ /\ i.op = "LDD"
        /\ reg' = [reg EXCEPT ![IF i.s = "DT" THEN "AC" ELSE "DI"] = rom[reg[i.s]]]
        /\ rom' = rom
        /\ PC' = PC + 1
     \/ /\ i.op = "STD"
        /\ rom' = [rom EXCEPT ![reg[i.s]] = reg[i.r] % 256]
        /\ reg' = reg
        /\ PC' = PC + 2
  /\ UNCHANGED <<PS, mem, run, lc_errno>>

-----------------------------------------------------------------------------
(* The processor itself. *)

\* The processor type, the drive bit of the pin, or one of the two sizes,
\* which are 2^24 and come out as 0 in sixteen bits.  Any other question
\* stops the machine with the exit status it has.
CPUID(i) ==
  /\ i.op = "CPUID"
  /\ \/ /\ reg["DC"] \in 0 .. 3
        /\ reg' = [reg EXCEPT !["DC"] = IF @ = 0 THEN 28
                                        ELSE IF @ = 1 THEN Drive ELSE 0]
        /\ PC' = PC + 1
        /\ run' = run
     \/ /\ reg["DC"] \notin 0 .. 3
        /\ run' = "stopped"
        /\ UNCHANGED <<reg, PC>>
  /\ UNCHANGED <<PS, mem, rom, lc_errno>>

\* An endless loop of the host: no further instruction is executed.
HLT(i) ==
  /\ i.op = "HLT"
  /\ run' = "hung"
  /\ UNCHANGED <<reg, PS, PC, mem, rom, lc_errno>>

\* The debugger may quit the whole emulator, or poke bytes below 65536 and
\* let the program go on.
Poked == 0 .. 2^16 - 1
HLT1(i) ==
  /\ i.op = "HLT1"
  /\ \/ run' = "exited" /\ UNCHANGED <<PC, mem>>
     \/ run' = run /\ PC' = PC + 1 /\ Scribble(Poked)
  /\ UNCHANGED <<reg, PS, rom, lc_errno>>

UNK(i) ==
  /\ i.op = "UNK"
  /\ run' = "stopped"
  /\ lc_errno' = 1
  /\ UNCHANGED <<reg, PS, PC, mem, rom>>

-----------------------------------------------------------------------------
\* One turn of execloop: the handler the table gives for the opcode.
Control(i) == \/ JME0(i) \/ JMNE0(i) \/ JL0(i) \/ JG0(i) \/ Jump(i) \/ LOOP(i)
Stack(i)   == \/ PUSH(i) \/ POP1(i) \/ COP1(i) \/ CALL(i) \/ Return(i) \/ IRET(i)
              \/ StackFault(i)
Compute(i) == \/ AluRR(i) \/ AluRI(i) \/ DIV(i) \/ DivideByZero(i) \/ Step1(i)
              \/ XCHG4(i) \/ CMP(i) \/ FLAGS(i)
Memory(i)  == \/ LOAD(i) \/ STORE(i) \/ WalkStore(i) \/ WalkLoad(i) \/ Step1M(i)
              \/ DISK(i)
System(i)  == \/ INT(i) \/ CPUID(i) \/ HLT(i) \/ HLT1(i) \/ UNK(i)

Exec(i) == \/ Control(i) \/ Stack(i) \/ Compute(i) \/ Memory(i) \/ System(i)

\* The bound cuts behaviours off at words outside RegVals; what is no word
\* at all is never cut off, so that TypeOK can tell.
InBounds == \A r \in Reg : reg[r] \in Word => reg[r] \in RegVals

Step(i) ==
  /\ run = "running"
  /\ PC \in Code
  /\ Exec(i)
  /\ InBounds'

\* main() resets the processor and loads the image before Exec; the block
\* that holds the general registers is fresh from the system, so zero.
Init ==
  /\ reg = [r \in Reg |-> IF r \in {"SP", "BP"} THEN ResetSP ELSE 0]
  /\ PS = FlagI
  /\ PC = 0
  /\ mem \in Images
  /\ rom \in Roms
  /\ run = "running"
  /\ lc_errno = 0

Next == \E i \in ISA : Step(i)

Spec == Init /\ [][Next]_vars

-----------------------------------------------------------------------------
(* The registers keep 24 bits, the flags and every cell a byte, whatever   *)
(* wraps.  PC alone is wider than its registers and may run past memory.   *)
TypeOK ==
  /\ reg \in [Reg -> Word]
  /\ PS \in Byte
  /\ PC \in Nat
  /\ mem \in [Cells -> Byte]
  /\ rom \in [Disk -> Byte]
  /\ run \in {"running", "stopped", "exited", "hung", "fault"}
  /\ lc_errno \in Byte
=============================================================================
