-------------------------- MODULE Lc24ProgramProofs ---------------------------
(***************************************************************************)
(* Theorems of programs and of their runs: of the assembler, for every     *)
(* text; of the routines that rcc2ge puts in front of its programs, for    *)
(* every argument and wherever they are placed; and of the emulator, for   *)
(* every command line, every set of files and every program: the types of  *)
(* its state, the modes of the terminal, and the file of the disk.         *)
(***************************************************************************)
EXTENDS Rcc2Lib, Lc24Program, Lc24Machine, Lc24CpuProofs, SequenceTheorems,
        WellFoundedInduction, TLAPS

(***************************************************************************)
(* The tables.  A line is followed from its opcode and its operands to the *)
(* bytes las emits, and from these through the rows of INSTS and the       *)
(* operands the handler reads back to an instruction.                      *)
(***************************************************************************)
\* The number of a register finds it in the table of names.
LEMMA KeyOfId == \A r \in Reg : Id[r] \in 0 .. 15 /\ KEYR[Id[r] + 1] = r
<1> SUFFICES ASSUME NEW r \in Reg
             PROVE  Id[r] \in 0 .. 15 /\ KEYR[Id[r] + 1] = r
  OBVIOUS
<1>1. \E k \in 0 .. 15 : KEYR[k + 1] = r
  BY DEF Reg, KEYR
<1> QED  BY <1>1 DEF Id

\* An opcode by its digits.
LEMMA Rows ==
  \A h \in 0 .. 15, j \in 0 .. 15 : 16 * h + j \in Byte /\ INSTS[16 * h + j] = Row(h)[j + 1]
<1> SUFFICES ASSUME NEW h \in 0 .. 15, NEW j \in 0 .. 15
             PROVE  16 * h + j \in Byte /\ INSTS[16 * h + j] = Row(h)[j + 1]
  OBVIOUS
<1>1. 16 * h + j \in Byte
  BY DEF Byte
<1>2. (16 * h + j) \div 16 = h /\ (16 * h + j) % 16 = j
  BY SMTT(30)
<1> QED  BY <1>1, <1>2 DEF INSTS

InRow(h) ==
  CASE h = 0  -> {"HLT1", "IRET", "ADD", "SUB", "MUL", "DIV11", "LFA", "LAF", "OR", "AND",
                  "CMP11", "CMP10"}
    [] h = 2  -> {"CMPpi", "LOOP", "RE", "RNE",  "HLT", "CLI"}
    [] h = 3  -> {"POW11", "POW10", "RC", "RET", "STI", "XCHG4", "LODSB", "STORB",
                  "LODGB", "STGRB", "LODSW", "STORW"}
    [] h = 9  -> {"MOV", "CLC"}
    [] h = 12 -> {"MV26", "INT0", "JME0", "JMNE0", "JL0", "JG0", "PUSH0", "PUSH1", "PUSHp",
                  "POP1", "CPUID"}
    [] h = 13 -> {"INXM", "DEXM", "STRb", "JMP0", "JMP1", "JMP2", "CALL", "COP1", "LOBHg"}
    [] h = 15 -> {"SBc", "LBc", "SWc", "LWc", "SHc", "LHc"}
Fixed == UNION {InRow(h) : h \in {0, 2, 3, 9, 12, 13, 15}}

\* The handler of each of these has the opcode las knows.
LEMMA FixedOpcodes == \A op \in Fixed : Opcodes[op] \in Byte /\ INSTS[Opcodes[op]] = op
<1> DEFINE Named(h) == \A op \in InRow(h) :
                         \E j \in 0 .. 15 : Opcodes[op] = 16 * h + j /\ Row(h)[j + 1] = op
<1>1. Named(0) /\ Named(2)
  BY DEF InRow, Row, Opcodes
<1>2. Named(3)
  BY DEF InRow, Row, Opcodes
<1>3. Named(9)
  BY DEF InRow, Row, Opcodes, All
<1>4. Named(12)
  BY SMTT(30) DEF InRow, Row, Opcodes
<1>5. Named(13) /\ Named(15)
  BY DEF InRow, Row, Opcodes
<1> HIDE DEF Named
<1>6. \A h \in {0, 2, 3, 9, 12, 13, 15} : Named(h)
  BY <1>1, <1>2, <1>3, <1>4, <1>5
<1> QED  BY <1>6, Rows, SMTT(30) DEF Fixed, Named

\* The handler of each of these has another opcode by now.
LEMMA MovedOpcodes ==
  \A op \in {"NOP", "STOSW", "STOSB", "STOGB", "NOT"} :
    Opcodes[op] \in Byte /\ INSTS[Opcodes[op]] # op
<1>1. /\ INSTS[204] = "UNK" /\ INSTS[110] = "ALUI" /\ INSTS[94] = "ALUI"
      /\ INSTS[95] = "ALUI" /\ INSTS[243] = "LWc"
  BY DEF INSTS, Byte, Row, Six
<1>2. /\ Opcodes["NOP"] = 204 /\ Opcodes["STOSW"] = 110 /\ Opcodes["STOGB"] = 94
      /\ Opcodes["STOSB"] = 95 /\ Opcodes["NOT"] = 243
  BY DEF Opcodes
<1> QED  BY <1>1, <1>2 DEF Byte

\* What starts another handler is not what was written.
LEMMA OtherHandler ==
  ASSUME NEW i, INSTS[Emitted(i)[1]] # i.op
  PROVE  ~Faithful(i)
BY DEF Faithful, Executed, Ins

\* What is left to show of a line whose bytes are known, by their number.
LEMMA Spelled1 ==
  ASSUME NEW i, NEW c \in Byte,
         Emitted(i) = << c >>, INSTS[c] = i.op,
         Bytes(i.op) = 1, Taken(i.op) = 1, Executed(<< c >>) = i
  PROVE  Faithful(i)
<1>1. << c >> \in Seq(Byte) /\ Len(<< c >>) = 1 /\ << c >>[1] = c
  OBVIOUS
<1> QED  BY <1>1 DEF Faithful

LEMMA Spelled2 ==
  ASSUME NEW i, NEW c \in Byte, NEW x \in Byte,
         Emitted(i) = << c, x >>, INSTS[c] = i.op,
         Bytes(i.op) = 2, Taken(i.op) = 2, Executed(<< c, x >>) = i
  PROVE  Faithful(i)
<1>1. << c, x >> \in Seq(Byte) /\ Len(<< c, x >>) = 2 /\ << c, x >>[1] = c
  OBVIOUS
<1> QED  BY <1>1 DEF Faithful

LEMMA Spelled3 ==
  ASSUME NEW i, NEW c \in Byte, NEW x \in Byte, NEW y \in Byte,
         Emitted(i) = << c, x, y >>, INSTS[c] = i.op,
         Bytes(i.op) = 3, Taken(i.op) = 3, Executed(<< c, x, y >>) = i
  PROVE  Faithful(i)
<1>1. << c, x, y >> \in Seq(Byte) /\ Len(<< c, x, y >>) = 3 /\ << c, x, y >>[1] = c
  OBVIOUS
<1> QED  BY <1>1 DEF Faithful

LEMMA Spelled4 ==
  ASSUME NEW i, NEW c \in Byte, NEW x \in Byte, NEW y \in Byte, NEW z \in Byte,
         Emitted(i) = << c, x, y, z >>, INSTS[c] = i.op,
         Bytes(i.op) = 4, Taken(i.op) = 4, Executed(<< c, x, y, z >>) = i
  PROVE  Faithful(i)
<1>1. << c, x, y, z >> \in Seq(Byte) /\ Len(<< c, x, y, z >>) = 4 /\ << c, x, y, z >>[1] = c
  OBVIOUS
<1> QED  BY <1>1 DEF Faithful

LEMMA Spelled5 ==
  ASSUME NEW i, NEW c \in Byte, NEW x \in Byte, NEW y \in Byte, NEW z \in Byte, NEW w \in Byte,
         Emitted(i) = << c, x, y, z, w >>, INSTS[c] = i.op,
         Bytes(i.op) = 5, Taken(i.op) = 5, Executed(<< c, x, y, z, w >>) = i
  PROVE  Faithful(i)
<1>1. << c, x, y, z, w >> \in Seq(Byte) /\ Len(<< c, x, y, z, w >>) = 5 /\ << c, x, y, z, w >>[1] = c
  OBVIOUS
<1> QED  BY <1>1 DEF Faithful

\* What is as it was written is as long.
LEMMA SameLength ==
  ASSUME NEW i, Faithful(i)
  PROVE  Taken(i.op) = Bytes(i.op)
<1>1. INSTS[Emitted(i)[1]] = i.op
  BY OtherHandler
<1> QED  BY <1>1 DEF Faithful

\* The same of a line.
LEMMA FixedOpcode ==
  ASSUME NEW i, i.op \in Fixed
  PROVE  CodeOf(i) \in Byte /\ INSTS[CodeOf(i)] = i.op
<1>1. i.op \notin {"LDD", "STD", "ALUI"}
  BY DEF Fixed, InRow
<1> QED  BY <1>1, FixedOpcodes DEF CodeOf

LEMMA MovedOpcode ==
  ASSUME NEW i, i.op \in {"NOP", "STOSW", "STOSB", "STOGB", "NOT"},
         NEW b, Emitted(i) = b, b[1] = CodeOf(i)
  PROVE  ~Faithful(i)
<1>1. CodeOf(i) = Opcodes[i.op]
  BY DEF CodeOf
<1> QED  BY <1>1, MovedOpcodes, OtherHandler

-----------------------------------------------------------------------------
(* One lemma per kind of line. *)

LEMMA AloneLines ==
  ASSUME NEW op \in Alone \ {"LDD"}, NEW i, i = Ins(op, "AC", "AC", 0, 0)
  PROVE  Faithful(i) <=> ~Misassembled(i)
<1> DEFINE c == CodeOf(i)
<1> USE DEF Alone, OneReg, TwoRegs, Walks, OneImm, OneByte, RegByte, RegImm, Branches
<1>1. i.op = op
  BY SMTT(30) DEF Ins
<1>2. Emitted(i) = << c >>
  BY <1>1, SMTT(30) DEF Emitted
<1> HIDE DEF c
<1>3. CASE op \in {"NOP", "STOSW"}
  BY <1>1, <1>2, <1>3, MovedOpcode DEF Misassembled, c
<1>4. CASE op \notin {"NOP", "STOSW"}
  <2>1. c \in Byte /\ INSTS[c] = op
    BY <1>1, <1>4, FixedOpcode DEF Fixed, InRow, c
  <2>2. Bytes(op) = 1 /\ Taken(op) = 1
    BY <1>4 DEF Bytes, Taken
  <2>3. Executed(<< c >>) = i
    BY <2>1, SMTT(30) DEF Executed, Ins
  <2>4. ~Misassembled(i)
    BY <1>1, <1>4 DEF Misassembled
  <2> QED  BY <2>1, <2>2, <2>3, <2>4, <1>1, <1>2, Spelled1
<1> QED  BY <1>3, <1>4

\* Loads and stores of the disk name their address register by the opcode.
LEMMA DiskOpcodes ==
  INSTS[56] = "LDD" /\ INSTS[60] = "LDD" /\ INSTS[57] = "STD" /\ INSTS[61] = "STD"
BY DEF INSTS, Row, Byte

LEMMA DiskLoads ==
  ASSUME NEW d \in {"DT", "DI"}, NEW i, i = Ins("LDD", "AC", d, 0, 0)
  PROVE  Faithful(i) <=> ~Misassembled(i)
<1> USE DEF Alone, OneReg, TwoRegs, Walks, OneImm, OneByte, RegByte, RegImm, Branches
<1> DEFINE c == IF d = "DT" THEN 56 ELSE 60
<1>1. d = IF c < 60 THEN "DT" ELSE "DI"
  OBVIOUS
<1>2. c \in Byte /\ INSTS[c] = "LDD"
  BY DiskOpcodes DEF Byte
<1>3. i.op = "LDD" /\ ~Misassembled(i) /\ CodeOf(i) = c
  BY SMTT(30) DEF Ins, Misassembled, CodeOf
<1> HIDE DEF c
<1>4. Emitted(i) = << c >>
  BY <1>3, SMTT(30) DEF Emitted
<1>5. Bytes("LDD") = 1 /\ Taken("LDD") = 1
  BY DEF Bytes, Taken
<1>6. Executed(<< c >>) = i
  BY <1>1, <1>2, SMTT(30) DEF Executed, Ins
<1> QED  BY <1>2, <1>3, <1>4, <1>5, <1>6, Spelled1

LEMMA DiskStores ==
  ASSUME NEW d \in {"DT", "DI"}, NEW r \in Reg, NEW i, i = Ins("STD", r, d, 0, 0)
  PROVE  Faithful(i) <=> ~Misassembled(i)
<1> USE DEF Alone, OneReg, TwoRegs, Walks, OneImm, OneByte, RegByte, RegImm, Branches
<1> DEFINE c == IF d = "DT" THEN 57 ELSE 61
<1>1. d = IF c < 60 THEN "DT" ELSE "DI"
  OBVIOUS
<1>2. c \in Byte /\ INSTS[c] = "STD"
  BY DiskOpcodes DEF Byte
<1>3. PICK x \in Byte : x = Id[r] /\ KEYR[x + 1] = r
  BY KeyOfId DEF Byte
<1>4. i.op = "STD" /\ i.r = r /\ ~Misassembled(i) /\ CodeOf(i) = c
  BY SMTT(30) DEF Ins, Misassembled, CodeOf
<1> HIDE DEF c
<1>5. Emitted(i) = << c, x >>
  BY <1>3, <1>4, SMTT(30) DEF Emitted
<1>6. Bytes("STD") = 2 /\ Taken("STD") = 2
  BY DEF Bytes, Taken
<1>7. Executed(<< c, x >>) = i
  BY <1>1, <1>2, <1>3, SMTT(30) DEF Executed, Ins
<1> QED  BY <1>2, <1>3, <1>4, <1>5, <1>6, <1>7, Spelled2

LEMMA OneRegLines ==
  ASSUME NEW op \in OneReg \ {"STD"}, NEW r \in Reg, NEW i, i = Ins(op, r, "AC", 0, 0)
  PROVE  Faithful(i) <=> ~Misassembled(i)
<1> DEFINE c == CodeOf(i)
<1> USE DEF Alone, OneReg, TwoRegs, Walks, OneImm, OneByte, RegByte, RegImm, Branches
<1>1. i.op = op /\ i.r = r
  BY DEF Ins
<1>2. PICK x \in Byte : x = Id[r] /\ KEYR[x + 1] = r
  BY KeyOfId, SMTT(30) DEF Byte
<1>3. Emitted(i) = << c, x >>
  BY <1>1, <1>2, SMTT(30) DEF Emitted
<1> HIDE DEF c
<1>4. CASE op = "NOT"
  BY <1>1, <1>3, <1>4, MovedOpcode DEF Misassembled, c
<1>5. CASE op # "NOT"
  <2>1. c \in Byte /\ INSTS[c] = op
    BY <1>1, <1>5, FixedOpcode DEF Fixed, InRow, c
  <2>2. Bytes(op) = 2 /\ Taken(op) = 2
    BY DEF Bytes, Taken
  <2>3. Executed(<< c, x >>) = i
    BY <2>1, <1>2, SMTT(30) DEF Executed, Ins
  <2>4. ~Misassembled(i)
    BY <1>1, <1>5 DEF Misassembled
  <2> QED  BY <2>1, <2>2, <2>3, <2>4, <1>1, <1>2, <1>3, Spelled2
<1> QED  BY <1>4, <1>5

\* A step has its register in the opcode.
LEMMA StepLines ==
  ASSUME NEW op \in {"INXr", "DEXr"}, NEW r \in Reg, NEW i, i = Ins(op, r, "AC", 0, 0)
  PROVE  Faithful(i) <=> ~Misassembled(i)
<1> USE DEF Alone, OneReg, TwoRegs, Walks, OneImm, OneByte, RegByte, RegImm, Branches
<1>1. i.op = op /\ i.r = r /\ ~Misassembled(i)
  BY DEF Ins, Misassembled
<1>2. PICK x \in 0 .. 15 : x = Id[r] /\ KEYR[x + 1] = r
  BY KeyOfId
<1>3. PICK h \in {10, 11} : CodeOf(i) = 16 * h /\ Row(h)[x + 1] = op
  BY <1>1 DEF CodeOf, Opcodes, Row, All
<1>4. PICK c \in Byte : c = CodeOf(i) + x /\ INSTS[c] = op /\ c % 16 = x /\ c > 143
  BY <1>3, Rows, SMTT(30)
<1>5. Emitted(i) = << c >>
  BY <1>1, <1>2, <1>4, SMTT(30) DEF Emitted
<1>6. Bytes(op) = 1 /\ Taken(op) = 1
  BY DEF Bytes, Taken
<1>7. Executed(<< c >>) = i
  BY <1>2, <1>4, SMTT(30) DEF Executed, Own, Ins
<1> QED  BY <1>1, <1>4, <1>5, <1>6, <1>7, Spelled1

LEMMA TwoRegsLines ==
  ASSUME NEW op \in TwoRegs, NEW r \in Reg, NEW s \in Reg, NEW i, i = Ins(op, r, s, 0, 0)
  PROVE  Faithful(i) <=> ~Misassembled(i)
<1> DEFINE c == CodeOf(i)
<1> USE DEF Alone, OneReg, TwoRegs, Walks, OneImm, OneByte, RegByte, RegImm, Branches
<1>1. i.op = op /\ i.r = r /\ i.s = s /\ ~Misassembled(i)
  BY DEF Ins, Misassembled
<1>2. PICK x \in 0 .. 15 : x = Id[r] /\ KEYR[x + 1] = r
  BY KeyOfId
<1>3. PICK y \in 0 .. 15 : y = Id[s] /\ KEYR[y + 1] = s
  BY KeyOfId
<1>4. PICK z \in Byte : z = Cluster(x, y) /\ z \div 16 = x /\ z % 16 = y
  BY SMTT(30) DEF Byte, Cluster
<1>5. Emitted(i) = << c, z >>
  BY <1>1, <1>2, <1>3, <1>4, SMTT(30) DEF Emitted
<1> HIDE DEF c
<1>6. c \in Byte /\ INSTS[c] = op
  BY <1>1, FixedOpcode DEF Fixed, InRow, c
<1>7. Bytes(op) = 2 /\ Taken(op) = 2
  BY DEF Bytes, Taken
<1>8. Executed(<< c, z >>) = i
  BY <1>2, <1>3, <1>4, <1>6, SMTT(30) DEF Executed, Ins
<1> QED  BY <1>1, <1>4, <1>5, <1>6, <1>7, <1>8, Spelled2

\* So has a load through a register.
LEMMA WalkLoads ==
  ASSUME NEW r \in Reg, NEW s \in Reg, NEW i, i = Ins("LDRp", r, s, 0, 0)
  PROVE  Faithful(i) <=> ~Misassembled(i)
<1> USE DEF Alone, OneReg, TwoRegs, Walks, OneImm, OneByte, RegByte, RegImm, Branches
<1>1. i.op = "LDRp" /\ i.r = r /\ i.s = s /\ ~Misassembled(i)
  BY DEF Ins, Misassembled
<1>2. PICK x \in 0 .. 15 : x = Id[r] /\ KEYR[x + 1] = r
  BY KeyOfId
<1>3. PICK y \in Byte : y = Id[s] /\ KEYR[y + 1] = s
  BY KeyOfId DEF Byte
<1>4. CodeOf(i) = 16 * 1 /\ Row(1)[x + 1] = "LDRp"
  BY <1>1 DEF CodeOf, Opcodes, Row, All
<1>5. PICK c \in Byte : c = CodeOf(i) + x /\ INSTS[c] = "LDRp" /\ c % 16 = x /\ c < 80
  BY <1>4, Rows, SMTT(30)
<1>6. Emitted(i) = << c, y >>
  BY <1>1, <1>2, <1>3, <1>5, SMTT(30) DEF Emitted
<1>7. Bytes("LDRp") = 2 /\ Taken("LDRp") = 2
  BY SMTT(30) DEF Bytes, Taken
<1>8. Executed(<< c, y >>) = i
  BY <1>2, <1>3, <1>5, SMTT(30) DEF Executed, Own, Ins
<1> QED  BY <1>1, <1>3, <1>5, <1>6, <1>7, <1>8, Spelled2

\* A power of registers is one byte too long.
LEMMA PowerLines ==
  ASSUME NEW r \in Reg, NEW s \in Reg, NEW i, i = Ins("POW11", r, s, 0, 0)
  PROVE  Faithful(i) <=> ~Misassembled(i)
<1> USE DEF Alone, OneReg, TwoRegs, Walks, OneImm, OneByte, RegByte, RegImm, Branches
<1>1. i.op = "POW11" /\ i.r = r /\ i.s = s /\ Misassembled(i)
  BY DEF Ins, Misassembled
<1>2. PICK c \in Byte, x \in Byte, y \in Byte : c = CodeOf(i) /\ x = Id[r] /\ y = Id[s]
  BY <1>1, KeyOfId, FixedOpcode DEF Byte, Fixed, InRow
<1>3. Emitted(i) = << c, x, y >>
  BY <1>1, <1>2, SMTT(30) DEF Emitted
<1>4. Taken(i.op) = 2
  BY <1>1 DEF Taken
<1>5. Bytes(i.op) = 3
  BY <1>1 DEF Bytes
<1>6. ~Faithful(i)
  BY <1>4, <1>5, SameLength
<1> QED  BY <1>1, <1>6

LEMMA PowerImmediates ==
  ASSUME NEW r \in Reg, NEW n \in Byte, NEW i, i = Ins("POW10", r, "AC", 0, n)
  PROVE  Faithful(i) <=> ~Misassembled(i)
<1> USE DEF Alone, OneReg, TwoRegs, Walks, OneImm, OneByte, RegByte, RegImm, Branches
<1>1. i.op = "POW10" /\ i.r = r /\ i.n = n /\ ~Misassembled(i)
  BY DEF Ins, Misassembled
<1>2. PICK c \in Byte : c = CodeOf(i) /\ INSTS[c] = "POW10"
  BY <1>1, FixedOpcode DEF Fixed, InRow
<1>3. PICK x \in Byte : x = Id[r] /\ KEYR[x + 1] = r
  BY KeyOfId DEF Byte
<1>4. Emitted(i) = << c, x, n >>
  BY <1>1, <1>2, <1>3, SMTT(30) DEF Emitted
<1>5. Bytes("POW10") = 3 /\ Taken("POW10") = 3
  BY DEF Bytes, Taken
<1>6. Executed(<< c, x, n >>) = i
  BY <1>2, <1>3, SMTT(30) DEF Executed, Ins
<1> QED  BY <1>1, <1>2, <1>3, <1>4, <1>5, <1>6, Spelled3

LEMMA OneByteLines ==
  ASSUME NEW op \in OneByte, NEW n \in Byte, NEW i, i = Ins(op, "AC", "AC", 0, n)
  PROVE  Faithful(i) <=> ~Misassembled(i)
<1> DEFINE c == CodeOf(i)
<1> USE DEF Alone, OneReg, TwoRegs, Walks, OneImm, OneByte, RegByte, RegImm, Branches
<1>1. i.op = op /\ i.n = n
  BY SMTT(30) DEF Ins
<1>2. Emitted(i) = << c, n >>
  BY <1>1, SMTT(30) DEF Emitted
<1> HIDE DEF c
<1>3. CASE op \in {"STOSB", "STOGB"}
  BY <1>1, <1>2, <1>3, MovedOpcode DEF Misassembled, c
<1>4. CASE op \notin {"STOSB", "STOGB"}
  <2>1. c \in Byte /\ INSTS[c] = op
    BY <1>1, <1>4, FixedOpcode DEF Fixed, InRow, c
  <2>2. Bytes(op) = 2 /\ Taken(op) = 2
    BY DEF Bytes, Taken
  <2>3. Executed(<< c, n >>) = i
    BY <2>1, <1>4, SMTT(30) DEF Executed, Ins
  <2>4. ~Misassembled(i)
    BY <1>1, <1>4 DEF Misassembled
  <2> QED  BY <2>1, <2>2, <2>3, <2>4, <1>1, <1>2, Spelled2
<1> QED  BY <1>3, <1>4

\* A load from the frame has five bits of offset beside its register.
LEMMA FrameLoads ==
  ASSUME NEW r \in Reg, NEW n \in Byte, NEW i, i = Ins("LOBHg", r, "AC", 0, n)
  PROVE  Faithful(i) <=> ~Misassembled(i)
<1> USE DEF Alone, OneReg, TwoRegs, Walks, OneImm, OneByte, RegByte, RegImm, Branches
<1>1. i.op = "LOBHg" /\ i.r = r /\ i.n = n
  BY DEF Ins
<1>2. PICK c \in Byte : c = CodeOf(i) /\ INSTS[c] = "LOBHg"
  BY <1>1, FixedOpcode DEF Fixed, InRow
<1>3. PICK x \in 0 .. 15 : x = Id[r] /\ KEYR[x + 1] = r
  BY KeyOfId
<1>4. Emitted(i) = << c, 32 * x + n >>
  BY <1>1, <1>2, <1>3, SMTT(30) DEF Emitted
<1>5. Bytes("LOBHg") = 2 /\ Taken("LOBHg") = 2
  BY DEF Bytes, Taken
<1>6. Misassembled(i) <=> x > 7 \/ n > 31
  BY <1>1, <1>3 DEF Misassembled
<1>7. CASE x > 7
  <2>1. 32 * x + n \notin Byte
    BY <1>7 DEF Byte
  <2>2. Emitted(i)[2] = 32 * x + n /\ 2 \in 1 .. Len(Emitted(i))
    BY <1>4
  <2> QED  BY <2>1, <2>2, <1>6, <1>7 DEF Faithful
<1>8. CASE n > 31
  <2>1. Executed(<< c, 32 * x + n >>).n = (32 * x + n) % 32
    BY <1>2, SMTT(30) DEF Executed, Ins
  <2>2. (32 * x + n) % 32 < 32
    BY DEF Byte
  <2>3. Executed(Emitted(i)) # i
    BY <2>1, <2>2, <1>1, <1>4, <1>8 DEF Byte
  <2> QED  BY <2>3, <1>6, <1>8 DEF Faithful
<1>9. CASE x <= 7 /\ n <= 31
  <2>1. PICK z \in Byte : z = 32 * x + n /\ z \div 32 = x /\ z % 32 = n
    BY <1>9 DEF Byte
  <2>2. Executed(<< c, z >>) = i
    BY <2>1, <1>2, <1>3, SMTT(30) DEF Executed, Ins
  <2>3. ~Misassembled(i)
    BY <1>6, <1>9 DEF Byte
  <2> QED  BY <2>1, <2>2, <2>3, <1>1, <1>2, <1>4, <1>5, Spelled2
<1> QED  BY <1>7, <1>8, <1>9 DEF Byte

\* Loads from the segments: six registers have a row, and two of the loads are too short.
LEMMA SegmentLoads ==
  ASSUME NEW op \in RegByte, NEW r \in Reg, NEW n \in Byte, NEW i, i = Ins(op, r, "AC", 0, n)
  PROVE  Faithful(i) <=> ~Misassembled(i)
<1> USE DEF Alone, OneReg, TwoRegs, Walks, OneImm, OneByte, RegByte, RegImm, Branches
<1>1. i.op = op /\ i.r = r /\ i.n = n
  BY DEF Ins
<1>2. PICK x \in 0 .. 15 : x = Id[r] /\ KEYR[x + 1] = r
  BY KeyOfId
<1>3. PICK h \in {5, 6, 7, 8} : /\ CodeOf(i) = 16 * h
                                /\ Row(h)[x + 1] = op <=> x <= 5
  BY <1>1 DEF CodeOf, Opcodes, Row, Six
<1>4. PICK c \in Byte : /\ c = CodeOf(i) + x /\ (INSTS[c] = op <=> x <= 5)
                        /\ c \in 80 .. 143 /\ c % 8 = x % 8
  BY <1>3, Rows, SMTT(30)
<1>5. Emitted(i) = << c, n >>
  BY <1>1, <1>2, <1>4, SMTT(30) DEF Emitted
<1>6. Misassembled(i) <=> op \in {"LDAS", "LDAG"} \/ x > 5
  BY <1>1, <1>2 DEF Misassembled
<1>7. CASE x > 5
  BY <1>1, <1>4, <1>5, <1>6, <1>7, OtherHandler
<1>8. CASE x <= 5 /\ op \in {"LDAS", "LDAG"}
  <2>1. Taken(i.op) = 4
    BY <1>1, <1>8 DEF Taken
  <2>2. Bytes(i.op) = 2
    BY <1>1, <1>8 DEF Bytes
  <2>3. ~Faithful(i)
    BY <2>1, <2>2, SameLength
  <2> QED  BY <2>3, <1>6, <1>8
<1>9. CASE x <= 5 /\ op \notin {"LDAS", "LDAG"}
  <2>1. INSTS[c] = op /\ c % 8 = x
    BY <1>4, <1>9
  <2>2. Bytes(op) = 2 /\ Taken(op) = 2
    BY <1>9, SMTT(30) DEF Bytes, Taken
  <2>3. Executed(<< c, n >>) = i
    BY <2>1, <1>2, <1>4, <1>9, SMTT(30) DEF Executed, Own, Ins
  <2>4. ~Misassembled(i)
    BY <1>6, <1>9
  <2> QED  BY <2>1, <2>2, <2>3, <2>4, <1>1, <1>5, Spelled2
<1> QED  BY <1>7, <1>8, <1>9

\* The loads of the row 0x20, and a family of sixteen that begins in the middle
\* of a row and runs on into the next.
LEMMA LoadRow == \A k \in 0 .. 15 : INSTS[32 + k] = "LDA" <=> k <= 5
<1>1. \A k \in 0 .. 15 : INSTS[16 * 2 + k] = Row(2)[k + 1]
  BY Rows
<1>2. \A k \in 0 .. 15 : Row(2)[k + 1] = "LDA" <=> k <= 5
  BY DEF Row
<1> QED  BY <1>1, <1>2

LEMMA HalfRows ==
  ASSUME NEW h \in 5 .. 8, NEW k \in 0 .. 15
  PROVE  INSTS[16 * h + 8 + k] = IF k <= 7 THEN Row(h)[k + 9] ELSE Row(h + 1)[k - 7]
<1>1. CASE k <= 7
  <2>1. PICK j \in 0 .. 15 : j = k + 8
    BY <1>1
  <2>2. INSTS[16 * h + j] = Row(h)[j + 1]
    BY <2>1, Rows
  <2> QED  BY <2>1, <2>2, <1>1
<1>2. CASE k > 7
  <2>1. PICK j \in 0 .. 15, g \in 0 .. 15 : j = k - 8 /\ g = h + 1
    BY <1>2
  <2>2. INSTS[16 * g + j] = Row(g)[j + 1]
    BY <2>1, Rows
  <2> QED  BY <2>1, <2>2, <1>2
<1> QED  BY <1>1, <1>2

\* The bytes of an immediate, and the immediate again.
LEMMA Digits ==
  ASSUME NEW a \in Word
  PROVE  \E x, y, z \in Byte : /\ Digit(a, 0) = x /\ Digit(a, 1) = y /\ Digit(a, 2) = z
                               /\ x + 256 * y + 65536 * z = a
<1>1. a \in Nat /\ a % W = a
  BY Widths
<1>2. Digit(a, 0) \in Byte /\ Digit(a, 1) \in Byte /\ Digit(a, 2) \in Byte
  BY <1>1, Wraps DEF Digit
<1> QED
  BY <1>1, <1>2, WordBytes

LEMMA OneImmLines ==
  ASSUME NEW op \in OneImm, NEW a \in Word, NEW i, i = Ins(op, "AC", "AC", a, 0)
  PROVE  Faithful(i) <=> ~Misassembled(i)
<1> DEFINE c == CodeOf(i)
<1> USE DEF Alone, OneReg, TwoRegs, Walks, OneImm, OneByte, RegByte, RegImm, Branches
<1>1. i.op = op /\ i.a = a /\ ~Misassembled(i)
  BY DEF Ins, Misassembled
<1>2. PICK x \in Byte, y \in Byte, z \in Byte :
        /\ Digit(a, 0) = x /\ Digit(a, 1) = y /\ Digit(a, 2) = z
        /\ x + 256 * y + 65536 * z = a
  BY Digits, SMTT(30)
<1>3. Emitted(i) = << c, x, y, z >>
  <2>1. /\ i.op \notin Alone \cup {"INXr", "DEXr"} \cup OneReg \cup TwoRegs \cup OneByte
        /\ i.op \notin RegByte \cup {"LDRp", "LOBHg", "POW11", "POW10"}
        /\ i.op \notin RegImm \cup {"CMP10", "CMPpi", "MV26"}
    BY <1>1
  <2>2. i.op \in OneImm
    BY <1>1
  <2> HIDE DEF Alone, OneReg, TwoRegs, Walks, OneImm, OneByte, RegByte, RegImm, Branches
  <2>3. Digit(i.a, 0) = x /\ Digit(i.a, 1) = y /\ Digit(i.a, 2) = z
    BY <1>1, <1>2
  <2> QED  BY <2>1, <2>2, <2>3, SMTT(30) DEF Emitted
<1> HIDE DEF c
<1>4. c \in Byte /\ INSTS[c] = op
  BY <1>1, FixedOpcode DEF Fixed, InRow, c
<1>5. Bytes(op) = 4 /\ Taken(op) = 4
  BY DEF Bytes, Taken
<1>6. Executed(<< c, x, y, z >>) = i
  BY <1>2, <1>4, SMTT(30) DEF Executed, Ins
<1> QED  BY <1>1, <1>3, <1>4, <1>5, <1>6, Spelled4

LEMMA RegImmLines ==
  ASSUME NEW op \in RegImm \ {"ALUI"}, NEW r \in Reg, NEW a \in Word,
         NEW i, i = Ins(op, r, "AC", a, 0)
  PROVE  Faithful(i) <=> ~Misassembled(i)
<1> USE DEF Alone, OneReg, TwoRegs, Walks, OneImm, OneByte, RegByte, RegImm, Branches
<1>1. i.op = op /\ i.r = r /\ i.a = a
  BY DEF Ins
<1>2. PICK k \in 0 .. 15 : k = Id[r] /\ KEYR[k + 1] = r
  BY KeyOfId
<1>3. PICK x \in Byte, y \in Byte, z \in Byte :
        /\ Digit(a, 0) = x /\ Digit(a, 1) = y /\ Digit(a, 2) = z
        /\ x + 256 * y + 65536 * z = a
  BY Digits, SMTT(30)
<1>4. Emitted(i) = << CodeOf(i) + k, x, y, z >>
  <2>1. /\ i.op \notin Alone \cup {"INXr", "DEXr"} \cup OneReg \cup TwoRegs \cup OneByte
        /\ i.op \notin RegByte \cup {"LDRp", "LOBHg", "POW11", "POW10"} \cup OneImm
        /\ i.op \notin {"CMP10", "CMPpi", "MV26"}
    BY <1>1
  <2>2. i.op \in RegImm
    BY <1>1
  <2> HIDE DEF Alone, OneReg, TwoRegs, Walks, OneImm, OneByte, RegByte, RegImm, Branches
  <2>3. Digit(i.a, 0) = x /\ Digit(i.a, 1) = y /\ Digit(i.a, 2) = z
    BY <1>1, <1>3
  <2> QED  BY <1>1, <1>2, <2>1, <2>2, <2>3, SMTT(30) DEF Emitted
<1>5. Bytes(op) = 4
  BY DEF Bytes
<1>6. CASE op = "STr0"
  <2>1. Taken(i.op) = 3
    BY <1>1, <1>6 DEF Taken
  <2>2. Bytes(i.op) = 4
    BY <1>1, <1>6 DEF Bytes
  <2>3. Misassembled(i)
    BY <1>1, <1>6 DEF Misassembled
  <2>4. ~Faithful(i)
    BY <2>1, <2>2, SameLength
  <2> QED  BY <2>3, <2>4
<1>7. CASE op \in {"LDA", "DIVI"}
  <2>1. CodeOf(i) = IF op = "LDA" THEN 32 ELSE 136
    BY <1>1, <1>7 DEF CodeOf, Opcodes
  <2>2. PICK c \in Byte : c = CodeOf(i) + k
    BY <2>1, <1>7 DEF Byte
  <2>3. INSTS[c] = op <=> k <= 5
    <3>1. CASE op = "LDA"
      BY <2>1, <2>2, <3>1, LoadRow
    <3>2. CASE op = "DIVI"
      <4>1. c = 16 * 8 + 8 + k
        BY <2>1, <2>2, <3>2
      <4> QED  BY <4>1, <3>2, HalfRows DEF Row, Six, All
    <3> QED  BY <3>1, <3>2, <1>7
  <2>4. Misassembled(i) <=> k > 5
    BY <1>1, <1>2, <1>7 DEF Misassembled
  <2>5. CASE k > 5
    BY <2>2, <2>3, <2>4, <2>5, <1>1, <1>4, OtherHandler
  <2>6. CASE k <= 5
    <3>1. k = IF c \in 80 .. 143 THEN c % 8 ELSE c % 16
      BY <2>1, <2>2, <2>6, <1>7
    <3>2. Taken(op) = 4
      BY <1>7 DEF Taken
    <3>3. INSTS[c] = op
      BY <2>3, <2>6
    <3>4. Executed(<< c, x, y, z >>) = i
      BY <3>1, <3>3, <1>2, <1>3, SMTT(30) DEF Executed, Own, Ins
    <3>5. ~Misassembled(i)
      BY <2>4, <2>6
    <3> QED  BY <3>2, <3>3, <3>4, <3>5, <2>2, <1>1, <1>4, <1>5, Spelled4
  <2> QED  BY <2>5, <2>6
<1> QED  BY <1>6, <1>7

LEMMA Comparisons ==
  ASSUME NEW op \in {"CMP10", "CMPpi"}, NEW r \in Reg, NEW a \in Word,
         NEW i, i = Ins(op, r, "AC", a, 0)
  PROVE  Faithful(i) <=> ~Misassembled(i)
<1> DEFINE c == CodeOf(i)
<1> USE DEF Alone, OneReg, TwoRegs, Walks, OneImm, OneByte, RegByte, RegImm, Branches
<1>1. i.op = op /\ i.r = r /\ i.a = a /\ ~Misassembled(i)
  BY DEF Ins, Misassembled
<1>2. PICK k \in Byte : k = Id[r] /\ KEYR[k + 1] = r
  BY KeyOfId DEF Byte
<1>3. PICK x \in Byte, y \in Byte, z \in Byte :
        /\ Digit(a, 0) = x /\ Digit(a, 1) = y /\ Digit(a, 2) = z
        /\ x + 256 * y + 65536 * z = a
  BY Digits, SMTT(30)
<1>4. Emitted(i) = << c, k, x, y, z >>
  <2>1. /\ i.op \notin Alone \cup {"INXr", "DEXr"} \cup OneReg \cup TwoRegs \cup OneByte
        /\ i.op \notin RegByte \cup {"LDRp", "LOBHg", "POW11", "POW10"} \cup OneImm \cup RegImm
    BY <1>1
  <2>2. i.op \in {"CMP10", "CMPpi"}
    BY <1>1
  <2> HIDE DEF Alone, OneReg, TwoRegs, Walks, OneImm, OneByte, RegByte, RegImm, Branches
  <2> QED  BY <1>1, <1>2, <1>3, <2>1, <2>2, SMTT(30) DEF Emitted
<1> HIDE DEF c
<1>5. c \in Byte /\ INSTS[c] = op
  BY <1>1, FixedOpcode DEF Fixed, InRow, c
<1>6. Bytes(op) = 5 /\ Taken(op) = 5
  BY DEF Bytes, Taken
<1>7. Executed(<< c, k, x, y, z >>) = i
  BY <1>2, <1>3, <1>5, SMTT(30) DEF Executed, Ins
<1> QED  BY <1>1, <1>4, <1>5, <1>6, <1>7, Spelled5

\* Operations on an immediate: three rows of them are not complete.
LEMMA AluImmediates ==
  ASSUME NEW n \in 0 .. 3, NEW r \in Reg, NEW a \in Word,
         NEW i, i = Ins("ALUI", r, "AC", a, n)
  PROVE  Faithful(i) <=> ~Misassembled(i)
<1> USE DEF Alone, OneReg, TwoRegs, Walks, OneImm, OneByte, RegByte, RegImm, Branches
<1>1. i.op = "ALUI" /\ i.r = r /\ i.a = a /\ i.n = n
  BY DEF Ins
<1>2. PICK k \in 0 .. 15 : k = Id[r] /\ KEYR[k + 1] = r
  BY KeyOfId
<1>3. PICK x \in Byte, y \in Byte, z \in Byte :
        /\ Digit(a, 0) = x /\ Digit(a, 1) = y /\ Digit(a, 2) = z
        /\ x + 256 * y + 65536 * z = a
  BY Digits, SMTT(30)
<1>4. CodeOf(i) = IF n = 0 THEN 64 ELSE 72 + 16 * n
  BY <1>1 DEF CodeOf
<1>5. PICK c \in Byte : c = CodeOf(i) + k
  BY <1>4, SMTT(30) DEF Byte
<1>6. Emitted(i) = << c, x, y, z >>
  <2>1. /\ i.op \notin Alone \cup {"INXr", "DEXr"} \cup OneReg \cup TwoRegs \cup OneByte
        /\ i.op \notin RegByte \cup {"LDRp", "LOBHg", "POW11", "POW10"} \cup OneImm
    BY <1>1
  <2>2. i.op \in RegImm
    BY <1>1
  <2> HIDE DEF Alone, OneReg, TwoRegs, Walks, OneImm, OneByte, RegByte, RegImm, Branches
  <2> QED  BY <1>1, <1>2, <1>3, <1>5, <2>1, <2>2, SMTT(30) DEF Emitted
<1>7. Bytes("ALUI") = 4 /\ Taken("ALUI") = 4
  BY DEF Bytes, Taken
<1> DEFINE fits == n = 0 \/ (n \in {1, 2} /\ k <= 7) \/ k <= 5
<1>8. Misassembled(i) <=> ~fits
  BY <1>1, <1>2 DEF Misassembled
<1>9. CASE fits
  <2>1. INSTS[c] = "ALUI"
    <3>1. CASE n = 0
      <4>1. INSTS[16 * 4 + k] = Row(4)[k + 1]
        BY Rows
      <4> QED  BY <4>1, <3>1, <1>4, <1>5 DEF Row, All
    <3>2. CASE n # 0
      <4>1. PICK h \in 5 .. 7 : h = 4 + n
        BY <3>2
      <4>2. k <= 7 /\ (h = 7 => k <= 5)
        BY <4>1, <3>2, <1>9
      <4>3. INSTS[16 * h + 8 + k] = Row(h)[k + 9]
        BY <4>2, HalfRows
      <4>4. Row(h)[k + 9] = "ALUI"
        BY <4>2 DEF Row, Six
      <4> QED  BY <4>1, <4>3, <4>4, <3>2, <1>4, <1>5
    <3> QED  BY <3>1, <3>2
  <2>2. k = IF c \in 80 .. 143 THEN c % 8 ELSE c % 16
    BY <1>4, <1>5, <1>9
  <2>3. (c \div 16) - 4 = n
    BY <1>4, <1>5, <1>9
  <2>4. Executed(<< c, x, y, z >>) = i
    BY <2>1, <2>2, <2>3, <1>2, <1>3, SMTT(30) DEF Executed, Own, Ins
  <2> HIDE DEF fits
  <2> QED  BY <2>1, <2>4, <1>1, <1>6, <1>7, <1>8, <1>9, Spelled4
<1>10. CASE ~fits
  <2>1. INSTS[c] # "ALUI" \/ (c \div 16) - 4 # n
    <3>1. n # 0 /\ (n = 3 \/ k > 7) /\ k > 5
      BY <1>10
    <3>2. CASE k > 7
      BY <3>1, <3>2, <1>4, <1>5
    <3>3. CASE k <= 7
      <4>1. INSTS[16 * 7 + 8 + k] = Row(7)[k + 9]
        BY <3>3, HalfRows
      <4>2. Row(7)[k + 9] # "ALUI"
        BY <3>1, <3>3 DEF Row, Six
      <4> QED  BY <4>1, <4>2, <3>1, <3>3, <1>4, <1>5
    <3> QED  BY <3>2, <3>3
  <2>2. INSTS[c] = "ALUI" => Executed(<< c, x, y, z >>).n = (c \div 16) - 4
    BY SMTT(30) DEF Executed, Own, Ins
  <2>3. INSTS[Emitted(i)[1]] # i.op \/ Executed(Emitted(i)) # i
    BY <2>1, <2>2, <1>1, <1>6
  <2> QED  BY <2>3, <1>8, <1>10, OtherHandler DEF Faithful
<1> QED  BY <1>9, <1>10

LEMMA ByteMoves ==
  ASSUME NEW n \in Byte, NEW a \in Word, NEW i, i = Ins("MV26", "AC", "AC", a, n)
  PROVE  Faithful(i) <=> ~Misassembled(i)
<1> DEFINE c == CodeOf(i)
<1> USE DEF Alone, OneReg, TwoRegs, Walks, OneImm, OneByte, RegByte, RegImm, Branches
<1>1. i.op = "MV26" /\ i.a = a /\ i.n = n /\ ~Misassembled(i)
  BY DEF Ins, Misassembled
<1>2. PICK x \in Byte, y \in Byte, z \in Byte :
        /\ Digit(a, 0) = x /\ Digit(a, 1) = y /\ Digit(a, 2) = z
        /\ x + 256 * y + 65536 * z = a
  BY Digits, SMTT(30)
<1>3. Emitted(i) = << c, x, y, z, n >>
  BY <1>1, <1>2, SMTT(30) DEF Emitted
<1> HIDE DEF c
<1>4. c \in Byte /\ INSTS[c] = "MV26"
  BY <1>1, FixedOpcode DEF Fixed, InRow, c
<1>5. Bytes("MV26") = 5 /\ Taken("MV26") = 5
  BY DEF Bytes, Taken
<1>6. Executed(<< c, x, y, z, n >>) = i
  BY <1>2, <1>4, SMTT(30) DEF Executed, Ins
<1> QED  BY <1>1, <1>3, <1>4, <1>5, <1>6, Spelled5

(* The tables of the assembler and of the processor agree on every line but*)
(* the misassembled ones, and on none of these, whatever the registers, the*)
(* immediate and the byte: TablesAgree holds, and not only of the operands *)
(* it names.                                                               *)
THEOREM EveryLineAgrees ==
  /\ \A a \in Word, n \in Byte : \A i \in Lines(a, n) : Faithful(i) <=> ~Misassembled(i)
  /\ TablesAgree
<1>1. ASSUME NEW a \in Word, NEW n \in Byte, NEW i \in Lines(a, n)
      PROVE  Faithful(i) <=> ~Misassembled(i)
  <2>1. CASE \E op \in Alone \ {"LDD"} : i = Ins(op, "AC", "AC", 0, 0)
    BY <2>1, AloneLines
  <2>2. CASE \E d \in {"DT", "DI"} : i = Ins("LDD", "AC", d, 0, 0)
    BY <2>2, DiskLoads
  <2>3. CASE \E r \in Reg, d \in {"DT", "DI"} : i = Ins("STD", r, d, 0, 0)
    BY <2>3, DiskStores
  <2>4. CASE \E op \in (OneReg \ {"STD"}) \cup {"INXr", "DEXr"}, r \in Reg :
               i = Ins(op, r, "AC", 0, 0)
    BY <2>4, OneRegLines, StepLines
  <2>5. CASE \E op \in TwoRegs \cup {"LDRp", "POW11"}, r \in Reg, s \in Reg :
               i = Ins(op, r, s, 0, 0)
    BY <2>5, TwoRegsLines, WalkLoads, PowerLines
  <2>6. CASE \E op \in OneByte : i = Ins(op, "AC", "AC", 0, n)
    BY <2>6, OneByteLines
  <2>7. CASE \E op \in RegByte \cup {"LOBHg", "POW10"}, r \in Reg :
               i = Ins(op, r, "AC", 0, n)
    BY <2>7, SegmentLoads, FrameLoads, PowerImmediates
  <2>8. CASE \E op \in OneImm : i = Ins(op, "AC", "AC", a, 0)
    BY <2>8, OneImmLines
  <2>9. CASE \E op \in (RegImm \ {"ALUI"}) \cup {"CMP10", "CMPpi"}, r \in Reg :
               i = Ins(op, r, "AC", a, 0)
    BY <2>9, RegImmLines, Comparisons
  <2>10. CASE \E r \in Reg, k \in 0 .. 3 : i = Ins("ALUI", r, "AC", a, k)
    BY <2>10, AluImmediates
  <2>11. CASE i = Ins("MV26", "AC", "AC", a, n)
    BY <2>11, ByteMoves
  <2> QED  BY <2>1, <2>2, <2>3, <2>4, <2>5, <2>6, <2>7, <2>8, <2>9, <2>10, <2>11 DEF Lines
<1>2. 66051 \in Word /\ W - 1 \in Word /\ 7 \in Byte /\ 255 \in Byte
  BY DEF Word, W, Byte
<1>3. TablesAgree
  BY <1>1, <1>2 DEF TablesAgree
<1> QED  BY <1>1, <1>3

-----------------------------------------------------------------------------
(* A whole text. *)

Ops      == Alone \cup OneReg \cup TwoRegs \cup OneByte \cup RegByte \cup OneImm \cup RegImm
            \cup {"INXr", "DEXr", "LDRp", "LOBHg", "POW11", "POW10", "CMP10", "CMPpi", "MV26"}
Labelled == OneImm \cup RegImm \cup {"CMP10", "CMPpi", "MV26"}

Statements(Labels) ==
  LET Is == UNION {Lines(a, n) : a \in Word, n \in Byte} IN
  {[ins |-> i, to |-> << >>] : i \in Is}
  \cup {[ins |-> i, to |-> l] : i \in {j \in Is : j.op \in Labelled}, l \in Labels}
  \cup {Label(l) : l \in Labels}

\* The parts of an instruction.
LEMMA Fields ==
  \A op, r, s, a, n : /\ Ins(op, r, s, a, n).op = op /\ Ins(op, r, s, a, n).r = r
                      /\ Ins(op, r, s, a, n).n = n
BY DEF Ins

\* Every line is one of these instructions.
LEMMA OpsOfLines ==
  ASSUME NEW a \in Word, NEW n \in Byte, NEW i \in Lines(a, n)
  PROVE  i.op \in Ops
<1>1. CASE \E op \in Alone \ {"LDD"} : i = Ins(op, "AC", "AC", 0, 0)
  BY <1>1, Fields DEF Ops
<1>2. CASE \E d \in {"DT", "DI"} : i = Ins("LDD", "AC", d, 0, 0)
  BY <1>2, Fields DEF Ops, Alone
<1>3. CASE \E r \in Reg, d \in {"DT", "DI"} : i = Ins("STD", r, d, 0, 0)
  BY <1>3, Fields DEF Ops, OneReg
<1>4. CASE \E op \in (OneReg \ {"STD"}) \cup {"INXr", "DEXr"}, r \in Reg :
             i = Ins(op, r, "AC", 0, 0)
  BY <1>4, Fields DEF Ops, OneReg
<1>5. CASE \E op \in TwoRegs \cup {"LDRp", "POW11"}, r \in Reg, s \in Reg :
             i = Ins(op, r, s, 0, 0)
  BY <1>5, Fields DEF Ops
<1>6. CASE \E op \in OneByte : i = Ins(op, "AC", "AC", 0, n)
  BY <1>6, Fields DEF Ops
<1>7. CASE \E op \in RegByte \cup {"LOBHg", "POW10"}, r \in Reg :
             i = Ins(op, r, "AC", 0, n)
  BY <1>7, Fields DEF Ops
<1>8. CASE \E op \in OneImm : i = Ins(op, "AC", "AC", a, 0)
  BY <1>8, Fields DEF Ops
<1>9. CASE \E op \in (RegImm \ {"ALUI"}) \cup {"CMP10", "CMPpi"}, r \in Reg :
             i = Ins(op, r, "AC", a, 0)
  BY <1>9, Fields DEF Ops
<1>10. CASE \E r \in Reg, k \in 0 .. 3 : i = Ins("ALUI", r, "AC", a, k)
  BY <1>10, Fields DEF Ops, RegImm
<1>11. CASE i = Ins("MV26", "AC", "AC", a, n)
  BY <1>11, Fields DEF Ops
<1> QED  BY <1>1, <1>2, <1>3, <1>4, <1>5, <1>6, <1>7, <1>8, <1>9, <1>10, <1>11 DEF Lines

\* Every instruction has a length, and a label has none.
LEMMA OpLengths ==
  /\ \A op \in Ops : Bytes(op) \in 1 .. 5 /\ op # "LABEL"
  /\ Bytes("LABEL") = 0
BY DEF Ops, Bytes, Alone, OneReg, TwoRegs, Walks, OneImm, OneByte, RegByte, RegImm, Branches

\* An address in the place of a label makes a line of the same fate.
LEMMA Relabelled ==
  ASSUME NEW a \in Word, NEW n \in Byte, NEW i \in Lines(a, n), i.op \in Labelled,
         NEW w \in Word
  PROVE  /\ [i EXCEPT !.a = w] \in Lines(w, n) /\ [i EXCEPT !.a = w].op = i.op
         /\ Misassembled([i EXCEPT !.a = w]) <=> Misassembled(i)
<1> DEFINE j == [i EXCEPT !.a = w]
<1>1. CASE \E op \in OneImm : i = Ins(op, "AC", "AC", a, 0)
  <2>1. PICK op \in OneImm : i = Ins(op, "AC", "AC", a, 0)
    BY <1>1
  <2>2. j = Ins(op, "AC", "AC", w, 0)
    BY <2>1 DEF Ins
  <2>3. j \in Lines(w, n)
    BY <2>1, <2>2 DEF Lines
  <2> QED  BY <2>1, <2>2, <2>3, Fields DEF Misassembled
<1>2. CASE \E op \in (RegImm \ {"ALUI"}) \cup {"CMP10", "CMPpi"}, r \in Reg :
             i = Ins(op, r, "AC", a, 0)
  <2>1. PICK op \in (RegImm \ {"ALUI"}) \cup {"CMP10", "CMPpi"}, r \in Reg :
               i = Ins(op, r, "AC", a, 0)
    BY <1>2
  <2>2. j = Ins(op, r, "AC", w, 0)
    BY <2>1 DEF Ins
  <2>3. j \in Lines(w, n)
    BY <2>1, <2>2 DEF Lines
  <2> QED  BY <2>1, <2>2, <2>3, Fields DEF Misassembled
<1>3. CASE \E r \in Reg, k \in 0 .. 3 : i = Ins("ALUI", r, "AC", a, k)
  <2>1. PICK r \in Reg, k \in 0 .. 3 : i = Ins("ALUI", r, "AC", a, k)
    BY <1>3
  <2>2. j = Ins("ALUI", r, "AC", w, k)
    BY <2>1 DEF Ins
  <2>3. j \in Lines(w, n)
    BY <2>1, <2>2 DEF Lines
  <2> QED  BY <2>1, <2>2, <2>3, Fields DEF Misassembled
<1>4. CASE i = Ins("MV26", "AC", "AC", a, n)
  <2>1. j = Ins("MV26", "AC", "AC", w, n)
    BY <1>4 DEF Ins
  <2>2. j \in Lines(w, n)
    BY <2>1 DEF Lines
  <2> QED  BY <2>1, <2>2, <1>4, Fields DEF Misassembled
<1>5. i.op \in OneImm \/ i.op \in RegImm \/ i.op \in {"CMP10", "CMPpi"} \/ i.op = "MV26"
  BY DEF Labelled
<1>6. (\E op \in OneImm : i = Ins(op, "AC", "AC", a, 0))
      \/ (\E op \in (RegImm \ {"ALUI"}) \cup {"CMP10", "CMPpi"}, r \in Reg :
             i = Ins(op, r, "AC", a, 0))
      \/ (\E r \in Reg, k \in 0 .. 3 : i = Ins("ALUI", r, "AC", a, k))
      \/ i = Ins("MV26", "AC", "AC", a, n)
  BY <1>5 DEF Lines, Ins, Alone, OneReg, TwoRegs, Walks, OneImm, OneByte, RegByte, RegImm, Branches
<1> QED  BY <1>1, <1>2, <1>3, <1>4, <1>6

\* No handler looks beyond the bytes it takes, STr0 excepted.
LEMMA ReadsWhatItTakes ==
  ASSUME NEW b, NEW m, INSTS[b[1]] \in Ops \ {"STr0"},
         \A p \in 1 .. Taken(INSTS[b[1]]) : m[p] = b[p]
  PROVE  Executed(m) = Executed(b)
<1> DEFINE op == INSTS[b[1]]
<1> USE DEF Alone, OneReg, TwoRegs, Walks, OneImm, OneByte, RegByte, RegImm, Branches
<1>1. Taken(op) \in 1 .. 5
  BY DEF Taken, Ops
<1>2. m[1] = b[1]
  BY <1>1
<1> HIDE DEF op
<1>3. CASE op \in OneReg \cup TwoRegs \cup OneByte \cup {"LDZS", "LDZG", "LDRp", "POW11", "LOBHg"}
  <2>1. Taken(op) = 2
    BY <1>3 DEF Taken
  <2>2. m[2] = b[2]
    BY <2>1 DEF op
  <2> QED  BY <2>2, <1>2, <1>3 DEF Executed, op
<1>4. CASE op = "POW10"
  <2>1. Taken(op) = 3
    BY <1>4 DEF Taken
  <2>2. m[2] = b[2] /\ m[3] = b[3]
    BY <2>1 DEF op
  <2> QED  BY <2>2, <1>2, <1>4 DEF Executed, op
<1>5. CASE op \in OneImm \cup {"ALUI", "DIVI", "LDA", "LDAS", "LDAG"}
  <2>1. Taken(op) = 4
    BY <1>5 DEF Taken
  <2>2. m[2] = b[2] /\ m[3] = b[3] /\ m[4] = b[4]
    BY <2>1 DEF op
  <2> QED  BY <2>2, <1>2, <1>5 DEF Executed, op
<1>6. CASE op \in {"CMP10", "CMPpi", "MV26"}
  <2>1. Taken(op) = 5
    BY <1>6 DEF Taken
  <2>2. m[2] = b[2] /\ m[3] = b[3] /\ m[4] = b[4] /\ m[5] = b[5]
    BY <2>1 DEF op
  <2> QED  BY <2>2, <1>2, <1>6 DEF Executed, op
<1>7. CASE op \in Alone \cup {"INXr", "DEXr"}
  BY <1>2, <1>7 DEF Executed, op
<1>8. op \in Ops \ {"STr0"}
  BY DEF op
<1> QED  BY <1>3, <1>4, <1>5, <1>6, <1>7, <1>8 DEF Ops

-----------------------------------------------------------------------------
\* Every set of numbers has a least one.
LEMMA Least ==
  \A S \in SUBSET Nat : S # {} => \E x \in S : \A y \in S : x <= y
<1> SUFFICES ASSUME NEW S \in SUBSET Nat, S # {} PROVE \E x \in S : \A y \in S : x <= y
  OBVIOUS
<1>1. \E x \in S : \A y \in S : ~(<<y, x>> \in OpToRel(<, Nat))
  BY NatLessThanWellFounded, WFMin
<1>2. PICK x \in S : \A y \in S : ~(<<y, x>> \in OpToRel(<, Nat))
  BY <1>1
<1>3. ASSUME NEW y \in S PROVE x <= y
  <2> SUFFICES ASSUME ~(x <= y) PROVE FALSE
    OBVIOUS
  <2>1. y \in Nat /\ x \in Nat /\ y < x
    OBVIOUS
  <2>2. <<y, x>> \in OpToRel(<, Nat)
    BY <2>1 DEF OpToRel
  <2> QED
    BY <1>2, <2>2
<1> QED
  BY <1>3

\* Counting reaches every number.
LEMMA Counting ==
  \A S : 0 \in S /\ (\A n \in Nat : n \in S => n + 1 \in S) => Nat \subseteq S
<1> SUFFICES ASSUME NEW S, 0 \in S, \A n \in Nat : n \in S => n + 1 \in S,
                    NEW m \in Nat, m \notin S
             PROVE  FALSE
  OBVIOUS
<1> DEFINE T == {n \in Nat : n \notin S}
<1>1. T \in SUBSET Nat /\ T # {}
  OBVIOUS
<1> HIDE DEF T
<1>2. PICK x \in T : \A y \in T : x <= y
  BY <1>1, Least
<1>3. x \in Nat /\ x \notin S
  BY <1>2 DEF T
<1>4. x # 0 /\ x - 1 \in Nat /\ x - 1 + 1 = x
  BY <1>3
<1>5. x - 1 \notin S
  BY <1>3, <1>4
<1>6. x - 1 \in T
  BY <1>4, <1>5 DEF T
<1> QED
  BY <1>2, <1>3, <1>6

\* What there is to know of a statement.
LEMMA StatementKinds ==
  ASSUME NEW Labels, NEW x \in Statements(Labels)
  PROVE  /\ x.ins.op # "LABEL" =>
              /\ x.ins.op \in Ops
              /\ \E a \in Word, n \in Byte : x.ins \in Lines(a, n)
              /\ x.to # << >> => x.ins.op \in Labelled
         /\ x.ins.op = "LABEL" => x = Label(x.to)
         /\ Bytes(x.ins.op) \in Nat
<1>1. CASE \E l \in Labels : x = Label(l)
  <2>1. PICK l \in Labels : x = Label(l)
    BY <1>1
  <2>2. x.ins.op = "LABEL" /\ x.to = l
    BY <2>1 DEF Label, To, Line, Ins
  <2> QED  BY <2>1, <2>2, OpLengths
<1>2. CASE \E i, l : x = [ins |-> i, to |-> l]
                     /\ (\E a \in Word, n \in Byte : i \in Lines(a, n))
                     /\ (l # << >> => i.op \in Labelled)
  <2>1. PICK i, l : x = [ins |-> i, to |-> l]
                     /\ (\E a \in Word, n \in Byte : i \in Lines(a, n))
                     /\ (l # << >> => i.op \in Labelled)
    BY <1>2
  <2>2. i.op \in Ops
    BY <2>1, OpsOfLines
  <2>3. x.ins = i /\ x.to = l
    BY <2>1
  <2>4. Bytes(i.op) \in 1 .. 5 /\ i.op # "LABEL"
    BY <2>2, OpLengths
  <2> QED  BY <2>1, <2>2, <2>3, <2>4
<1> QED
  BY <1>1, <1>2 DEF Statements

-----------------------------------------------------------------------------
Next_pc(text, pc, k) == IF k = 1 THEN 0 ELSE pc[k - 1] + Bytes(text[k - 1].ins.op)

\* The recursion of the parser, by its first m lines.
LEMMA AddressExists ==
  ASSUME NEW text, NEW m \in Nat
  PROVE  \E pc : pc = [k \in 1 .. m |-> Next_pc(text, pc, k)]
<1> DEFINE S == {n \in Nat : \E pc : pc = [k \in 1 .. n |-> Next_pc(text, pc, k)]}
<1>1. 0 \in S
  <2>1. 1 .. 0 = {}
    OBVIOUS
  <2>2. [k \in 1 .. 0 |-> 0] = [k \in 1 .. 0 |-> Next_pc(text, [j \in 1 .. 0 |-> 0], k)]
    BY <2>1
  <2> QED
    BY <2>2
<1>2. ASSUME NEW n \in Nat, n \in S
      PROVE  n + 1 \in S
  <2>1. PICK pc : pc = [k \in 1 .. n |-> Next_pc(text, pc, k)]
    BY <1>2
  <2> DEFINE last == Next_pc(text, pc, n + 1)
             more == [k \in 1 .. n + 1 |-> IF k \in 1 .. n THEN pc[k] ELSE last]
  <2>2. ASSUME NEW k \in 1 .. n + 1
        PROVE  more[k] = Next_pc(text, more, k)
    <3>1. k # 1 => k - 1 \in 1 .. n /\ k - 1 \in 1 .. n + 1
      OBVIOUS
    <3>2. k # 1 => more[k - 1] = pc[k - 1]
      BY <3>1
    <3>3. Next_pc(text, more, k) = Next_pc(text, pc, k)
      <4> HIDE DEF more
      <4> QED
        BY <3>2 DEF Next_pc
    <3>4. CASE k \in 1 .. n
      BY <2>1, <3>3, <3>4
    <3>5. CASE k \notin 1 .. n
      <4>1. k = n + 1
        BY <3>5
      <4> QED
        BY <3>3, <3>5, <4>1
    <3> QED
      BY <3>4, <3>5
  <2>3. more = [k \in 1 .. n + 1 |-> Next_pc(text, more, k)]
    <3>1. more = [k \in 1 .. n + 1 |-> more[k]]
      OBVIOUS
    <3> HIDE DEF more
    <3> QED
      BY <2>2, <3>1
  <2> HIDE DEF more
  <2> QED
    BY <2>3
<1>3. Nat \subseteq S
  <2> HIDE DEF S
  <2> QED
    BY <1>1, <1>2, Counting
<1> QED
  BY <1>3

\* Addresses begin at zero and move by the length of a line.
LEMMA AddressSteps ==
  ASSUME NEW Labels, NEW text \in Seq(Statements(Labels))
  PROVE  /\ Address(text)[1] = 0
         /\ \A k \in 1 .. Len(text) :
              Address(text)[k + 1] = Address(text)[k] + Bytes(text[k].ins.op)
         /\ \A k \in 1 .. Len(text) + 1 : Address(text)[k] \in Nat
<1> DEFINE e == CHOOSE pc : pc = [k \in 1 .. Len(text) + 1 |-> Next_pc(text, pc, k)]
<1>1. Address(text) = e
  BY DEF Address, Next_pc
<1>2. Len(text) + 1 \in Nat
  OBVIOUS
<1>3. \E pc : pc = [k \in 1 .. Len(text) + 1 |-> Next_pc(text, pc, k)]
  BY <1>2, AddressExists
<1>4. e = [k \in 1 .. Len(text) + 1 |-> Next_pc(text, e, k)]
  BY <1>3
<1> HIDE DEF e
<1>5. \A k \in 1 .. Len(text) + 1 : e[k] = Next_pc(text, e, k)
  BY <1>4
<1>6. e[1] = 0
  <2>1. 1 \in 1 .. Len(text) + 1
    OBVIOUS
  <2> QED  BY <1>5, <2>1 DEF Next_pc
<1>7. ASSUME NEW k \in 1 .. Len(text)
      PROVE  e[k + 1] = e[k] + Bytes(text[k].ins.op)
  <2>1. PICK h \in 1 .. Len(text) + 1 : h = k + 1 /\ h # 1 /\ h - 1 = k
    OBVIOUS
  <2>2. e[h] = e[h - 1] + Bytes(text[h - 1].ins.op)
    BY <1>5, <2>1 DEF Next_pc
  <2> QED  BY <2>1, <2>2
<1>8. \A k \in 1 .. Len(text) + 1 : e[k] \in Nat
  <2> DEFINE S == {n \in Nat : n + 1 \in 1 .. Len(text) + 1 => e[n + 1] \in Nat}
  <2>1. 0 \in S
    BY <1>6
  <2>2. ASSUME NEW n \in Nat, n \in S
        PROVE  n + 1 \in S
    <3> SUFFICES ASSUME n + 1 + 1 \in 1 .. Len(text) + 1 PROVE e[n + 1 + 1] \in Nat
      OBVIOUS
    <3>1. PICK k \in 1 .. Len(text) : k = n + 1 /\ k \in 1 .. Len(text) + 1
      OBVIOUS
    <3>2. e[k] \in Nat
      BY <2>2, <3>1
    <3>3. Bytes(text[k].ins.op) \in Nat
      <4>1. text[k] \in Statements(Labels)
        BY <3>1
      <4> QED  BY <4>1, StatementKinds
    <3>4. e[k + 1] = e[k] + Bytes(text[k].ins.op)
      BY <1>7, <3>1
    <3> QED  BY <3>1, <3>2, <3>3, <3>4
  <2>3. Nat \subseteq S
    <3> HIDE DEF S
    <3> QED  BY <2>1, <2>2, Counting
  <2>4. ASSUME NEW k \in 1 .. Len(text) + 1
        PROVE  e[k] \in Nat
    <3>1. k - 1 \in Nat /\ k - 1 + 1 = k
      OBVIOUS
    <3>2. k - 1 \in S
      BY <2>3, <3>1
    <3> QED  BY <3>1, <3>2
  <2> QED  BY <2>4
<1> QED
  BY <1>1, <1>6, <1>7, <1>8

\* They never decrease.
LEMMA AddressGrows ==
  ASSUME NEW Labels, NEW text \in Seq(Statements(Labels)),
         NEW j \in 1 .. Len(text) + 1, NEW k \in 1 .. Len(text) + 1, j <= k
  PROVE  Address(text)[j] <= Address(text)[k]
<1> DEFINE adr == Address(text)
           S == {n \in Nat : j + n \in 1 .. Len(text) + 1 => adr[j] <= adr[j + n]}
<1>1. \A h \in 1 .. Len(text) + 1 : adr[h] \in Nat
  BY AddressSteps
<1>2. \A h \in 1 .. Len(text) : adr[h + 1] = adr[h] + Bytes(text[h].ins.op)
  BY AddressSteps
<1> HIDE DEF adr
<1>3. 0 \in S
  <2>1. j + 0 = j /\ adr[j] \in Nat
    BY <1>1
  <2> QED  BY <2>1
<1>4. ASSUME NEW n \in Nat, n \in S
      PROVE  n + 1 \in S
  <2> SUFFICES ASSUME j + (n + 1) \in 1 .. Len(text) + 1
               PROVE  adr[j] <= adr[j + (n + 1)]
    OBVIOUS
  <2>1. PICK h \in 1 .. Len(text) : h = j + n /\ h \in 1 .. Len(text) + 1 /\ h + 1 = j + (n + 1)
    OBVIOUS
  <2>2. adr[j] <= adr[h]
    BY <1>4, <2>1
  <2>3. Bytes(text[h].ins.op) \in Nat
    <3>1. text[h] \in Statements(Labels)
      BY <2>1
    <3> QED  BY <3>1, StatementKinds
  <2>4. adr[h + 1] = adr[h] + Bytes(text[h].ins.op)
    BY <1>2, <2>1
  <2>5. adr[h] \in Nat /\ adr[j] \in Nat
    BY <1>1, <2>1
  <2>6. adr[j] <= adr[h + 1]
    BY <2>2, <2>3, <2>4, <2>5
  <2> QED  BY <2>1, <2>6
<1>5. Nat \subseteq S
  <2> HIDE DEF S
  <2> QED  BY <1>3, <1>4, Counting
<1>6. k - j \in Nat /\ j + (k - j) = k
  OBVIOUS
<1>7. k - j \in S
  BY <1>5, <1>6
<1> QED  BY <1>6, <1>7 DEF adr

-----------------------------------------------------------------------------
Places(text) == {k \in DOMAIN text : text[k].ins.op # "LABEL"}

\* Two instructions never have one address.
LEMMA ApartFrom ==
  ASSUME NEW Labels, NEW text \in Seq(Statements(Labels)),
         NEW j \in Places(text), NEW k \in Places(text), j < k
  PROVE  Address(text)[j] < Address(text)[k]
<1>1. j \in 1 .. Len(text) /\ k \in 1 .. Len(text)
  BY DEF Places
<1>2. text[j] \in Statements(Labels)
  BY <1>1
<1>3. Bytes(text[j].ins.op) \in 1 .. 5
  BY <1>2, StatementKinds, OpLengths DEF Places
<1>4. Address(text)[j + 1] = Address(text)[j] + Bytes(text[j].ins.op)
  BY <1>1, AddressSteps
<1>5. j + 1 \in 1 .. Len(text) + 1 /\ k \in 1 .. Len(text) + 1 /\ j \in 1 .. Len(text) + 1
      /\ j + 1 <= k
  BY <1>1
<1>6. Address(text)[j + 1] <= Address(text)[k]
  BY <1>5, AddressGrows
<1>7. Address(text)[j] \in Nat /\ Address(text)[j + 1] \in Nat /\ Address(text)[k] \in Nat
  BY <1>5, AddressSteps
<1> QED  BY <1>3, <1>4, <1>6, <1>7

\* Every instruction is listed at its address.
LEMMA PlacedIs ==
  ASSUME NEW Labels, NEW text \in Seq(Statements(Labels))
  PROVE  /\ DOMAIN Placed(text) = {Address(text)[k] : k \in Places(text)}
         /\ \A k \in Places(text) : Placed(text)[Address(text)[k]] = Resolved(text, k)
<1>1. Placed(text) = [a \in {Address(text)[k] : k \in Places(text)} |->
                        Resolved(text, CHOOSE k \in Places(text) : Address(text)[k] = a)]
  BY DEF Placed, Places
<1>2. ASSUME NEW k \in Places(text)
      PROVE  (CHOOSE j \in Places(text) : Address(text)[j] = Address(text)[k]) = k
  <2>1. ASSUME NEW j \in Places(text), Address(text)[j] = Address(text)[k]
        PROVE  j = k
    <3>1. j \in 1 .. Len(text) /\ k \in 1 .. Len(text)
      BY DEF Places
    <3>2. Address(text)[j] \in Nat /\ Address(text)[k] \in Nat
      BY <3>1, AddressSteps
    <3>3. ~(j < k) /\ ~(k < j)
      BY <2>1, <3>2, ApartFrom
    <3> QED  BY <3>1, <3>3
  <2> QED  BY <2>1
<1> QED  BY <1>1, <1>2

\* What is written at every place is a line las and the processor agree on.
LEMMA ResolvedIs ==
  ASSUME NEW Labels, NEW text \in Seq(Statements(Labels)), Assembles(text),
         Address(text)[Len(text) + 1] \in Word,
         NEW k \in Places(text), ~Misassembled(text[k].ins)
  PROVE  /\ Resolved(text, k).op = text[k].ins.op
         /\ text[k].ins.op \in Ops \ {"STr0"}
         /\ Faithful(Resolved(text, k))
<1> DEFINE i == text[k].ins
<1>1. k \in 1 .. Len(text) /\ text[k] \in Statements(Labels) /\ i.op # "LABEL"
  BY DEF Places
<1>2. i.op \in Ops /\ (text[k].to # << >> => i.op \in Labelled)
  BY <1>1, StatementKinds
<1>3. PICK a \in Word, n \in Byte : i \in Lines(a, n)
  BY <1>1, StatementKinds
<1>4. i.op # "STr0"
  BY DEF Misassembled
<1>5. CASE text[k].to = << >>
  <2>1. Resolved(text, k) = i
    BY <1>5 DEF Resolved
  <2> QED  BY <1>2, <1>3, <1>4, <2>1, EveryLineAgrees
<1>6. CASE text[k].to # << >>
  <2>1. PICK d \in DOMAIN text : text[d].ins.op = "LABEL" /\ text[d].to = text[k].to
    BY <1>1, <1>6 DEF Assembles, Defined
  <2>2. text[d] = Label(text[k].to)
    BY <2>1, StatementKinds
  <2> DEFINE j == CHOOSE j \in DOMAIN text : text[j] = Label(text[k].to)
  <2>3. j \in DOMAIN text
    BY <2>2
  <2>4. Resolved(text, k) = [i EXCEPT !.a = Address(text)[j]]
    BY <1>6 DEF Resolved
  <2> HIDE DEF j
  <2>5. j \in 1 .. Len(text) + 1 /\ Len(text) + 1 \in 1 .. Len(text) + 1 /\ j <= Len(text) + 1
    BY <2>3
  <2>6. Address(text)[j] \in Nat /\ Address(text)[j] <= Address(text)[Len(text) + 1]
    BY <2>5, AddressSteps, AddressGrows
  <2>7. Address(text)[j] \in Word
    BY <2>6 DEF Word, W
  <2>8. i.op \in Labelled
    BY <1>2, <1>6
  <2> HIDE DEF i
  <2>9. /\ [i EXCEPT !.a = Address(text)[j]] \in Lines(Address(text)[j], n)
        /\ [i EXCEPT !.a = Address(text)[j]].op = i.op
        /\ Misassembled([i EXCEPT !.a = Address(text)[j]]) <=> Misassembled(i)
    BY <1>3, <2>7, <2>8, Relabelled, ZenonT(60)
  <2>10. Faithful([i EXCEPT !.a = Address(text)[j]])
    BY <1>3, <2>7, <2>9, EveryLineAgrees DEF i
  <2> QED  BY <1>2, <1>4, <2>4, <2>9, <2>10 DEF i
<1> QED  BY <1>5, <1>6

-----------------------------------------------------------------------------
Next_code(text, code, k) ==
  IF k = 0 THEN << >>
  ELSE IF text[k].ins.op = "LABEL" THEN code[k - 1]
  ELSE code[k - 1] \o Emitted(Resolved(text, k))

\* The recursion of the code, by its first m lines.
LEMMA CodeExists ==
  ASSUME NEW text, NEW m \in Nat
  PROVE  \E code : code = [k \in 0 .. m |-> Next_code(text, code, k)]
<1> DEFINE S == {n \in Nat : \E code : code = [k \in 0 .. n |-> Next_code(text, code, k)]}
<1>1. 0 \in S
  <2> DEFINE code == [k \in 0 .. 0 |-> << >>]
  <2>1. \A k \in 0 .. 0 : k = 0
    OBVIOUS
  <2>2. \A k \in 0 .. 0 : Next_code(text, code, k) = << >>
    BY <2>1 DEF Next_code
  <2>3. code = [k \in 0 .. 0 |-> Next_code(text, code, k)]
    <3> HIDE DEF Next_code
    <3> QED  BY <2>2
  <2> QED
    BY <2>3
<1>2. ASSUME NEW n \in Nat, n \in S
      PROVE  n + 1 \in S
  <2>1. PICK code : code = [k \in 0 .. n |-> Next_code(text, code, k)]
    BY <1>2
  <2> DEFINE last == Next_code(text, code, n + 1)
             more == [k \in 0 .. n + 1 |-> IF k \in 0 .. n THEN code[k] ELSE last]
  <2>2. ASSUME NEW k \in 0 .. n + 1
        PROVE  more[k] = Next_code(text, more, k)
    <3>1. k # 0 => k - 1 \in 0 .. n /\ k - 1 \in 0 .. n + 1
      OBVIOUS
    <3>2. k # 0 => more[k - 1] = code[k - 1]
      BY <3>1
    <3>3. Next_code(text, more, k) = Next_code(text, code, k)
      <4> HIDE DEF more
      <4> QED
        BY <3>2 DEF Next_code
    <3>4. CASE k \in 0 .. n
      BY <2>1, <3>3, <3>4
    <3>5. CASE k \notin 0 .. n
      <4>1. k = n + 1
        BY <3>5
      <4> QED
        BY <3>3, <3>5, <4>1
    <3> QED
      BY <3>4, <3>5
  <2>3. more = [k \in 0 .. n + 1 |-> Next_code(text, more, k)]
    <3>1. more = [k \in 0 .. n + 1 |-> more[k]]
      OBVIOUS
    <3> HIDE DEF more
    <3> QED
      BY <2>2, <3>1
  <2> HIDE DEF more
  <2> QED
    BY <2>3
<1>3. Nat \subseteq S
  <2> HIDE DEF S
  <2> QED
    BY <1>1, <1>2, Counting
<1> QED
  BY <1>3

\* One piece behind another.
LEMMA Behind ==
  ASSUME NEW s \in Seq(Byte), NEW b \in Seq(Byte)
  PROVE  /\ s \o b \in Seq(Byte) /\ Len(s \o b) = Len(s) + Len(b)
         /\ \A p \in 1 .. Len(s) : (s \o b)[p] = s[p]
         /\ \A p \in 1 .. Len(b) : (s \o b)[Len(s) + p] = b[p]
OBVIOUS

\* Line by line the code is as long as the parser counted, and the bytes of
\* every line are at its address.
LEMMA CodeInPlace ==
  ASSUME NEW Labels, NEW text \in Seq(Statements(Labels)), Assembles(text),
         Address(text)[Len(text) + 1] \in Word,
         \A k \in Places(text) : ~Misassembled(text[k].ins)
  PROVE  /\ CompileLC24(text) \in Seq(Byte)
         /\ Len(CompileLC24(text)) = Address(text)[Len(text) + 1]
         /\ \A j \in Places(text) : \A p \in 1 .. Bytes(text[j].ins.op) :
              CompileLC24(text)[Address(text)[j] + p] = Emitted(Resolved(text, j))[p]
<1> DEFINE e == CHOOSE code : code = [k \in 0 .. Len(text) |-> Next_code(text, code, k)]
           adr == Address(text)
           B(k) == Bytes(text[k].ins.op)
           E(k) == Emitted(Resolved(text, k))
           S == {n \in Nat : n \in 0 .. Len(text) =>
                   /\ e[n] \in Seq(Byte)
                   /\ Len(e[n]) = adr[n + 1]
                   /\ \A j \in Places(text) : j <= n =>
                        \A p \in 1 .. B(j) : e[n][adr[j] + p] = E(j)[p]}
<1>1. CompileLC24(text) = e[Len(text)]
  BY DEF CompileLC24, Next_code
<1>2. Len(text) \in Nat
  OBVIOUS
<1>3. \E code : code = [k \in 0 .. Len(text) |-> Next_code(text, code, k)]
  BY <1>2, CodeExists
<1>4. e = [k \in 0 .. Len(text) |-> Next_code(text, e, k)]
  BY <1>3
<1> HIDE DEF e
<1>5. \A k \in 0 .. Len(text) : e[k] = Next_code(text, e, k)
  BY <1>4
<1>6. adr[1] = 0 /\ \A k \in 1 .. Len(text) : adr[k + 1] = adr[k] + B(k)
  BY AddressSteps
<1>7. \A k \in 1 .. Len(text) + 1 : adr[k] \in Nat
  BY AddressSteps
<1>8. \A k \in Places(text) : k \in 1 .. Len(text)
  BY DEF Places
<1>9. ASSUME NEW k \in Places(text)
      PROVE  E(k) \in Seq(Byte) /\ Len(E(k)) = B(k) /\ B(k) \in Nat
  <2>1. Faithful(Resolved(text, k)) /\ Resolved(text, k).op = text[k].ins.op
    BY ResolvedIs
  <2>2. E(k) \in Seq(Byte) /\ Len(E(k)) = B(k)
    BY <2>1 DEF Faithful
  <2> HIDE DEF E, B
  <2> QED  BY <2>2
<1>10. ASSUME NEW j \in Places(text), NEW n \in 1 .. Len(text), j < n
       PROVE  adr[j] + B(j) <= adr[n]
  <2>1. j \in 1 .. Len(text) /\ j + 1 \in 1 .. Len(text) + 1 /\ n \in 1 .. Len(text) + 1
        /\ j + 1 <= n
    BY <1>8, <1>10
  <2>2. adr[j + 1] <= adr[n]
    BY <2>1, AddressGrows
  <2>3. adr[j + 1] = adr[j] + B(j)
    BY <1>6, <2>1
  <2> QED  BY <2>2, <2>3
<1> HIDE DEF adr, B, E
<1>11. 0 \in S
  <2>1. e[0] = << >>
    <3>1. 0 \in 0 .. Len(text)
      OBVIOUS
    <3> QED  BY <1>5, <3>1 DEF Next_code
  <2>2. e[0] \in Seq(Byte) /\ Len(e[0]) = 0
    BY <2>1
  <2>3. \A j \in Places(text) : ~(j <= 0)
    BY <1>8
  <2> QED  BY <1>6, <2>2, <2>3
<1>12. ASSUME NEW n \in Nat, n \in S
       PROVE  n + 1 \in S
  <2> SUFFICES ASSUME n + 1 \in 0 .. Len(text)
               PROVE  /\ e[n + 1] \in Seq(Byte)
                      /\ Len(e[n + 1]) = adr[n + 1 + 1]
                      /\ \A j \in Places(text) : j <= n + 1 =>
                           \A p \in 1 .. B(j) : e[n + 1][adr[j] + p] = E(j)[p]
    OBVIOUS
  <2>1. PICK k \in 1 .. Len(text) :
          k = n + 1 /\ k \in 0 .. Len(text) /\ k # 0 /\ k - 1 = n /\ n \in 0 .. Len(text)
          /\ k \in 1 .. Len(text) + 1
    OBVIOUS
  <2>2. /\ e[n] \in Seq(Byte)
        /\ Len(e[n]) = adr[k]
        /\ \A j \in Places(text) : j <= n => \A p \in 1 .. B(j) : e[n][adr[j] + p] = E(j)[p]
    BY <1>12, <2>1
  <2>3. adr[k + 1] = adr[k] + B(k) /\ adr[k] \in Nat
    BY <1>6, <1>7, <2>1
  <2>4. e[k] = IF text[k].ins.op = "LABEL" THEN e[n] ELSE e[n] \o E(k)
    BY <1>5, <2>1 DEF Next_code, E
  <2>5. CASE text[k].ins.op = "LABEL"
    <3>1. e[k] = e[n] /\ B(k) = 0
      BY <2>4, <2>5, OpLengths DEF B
    <3>2. \A j \in Places(text) : j <= k => j <= n
      <4>1. k \notin Places(text)
        BY <2>5 DEF Places
      <4> QED  BY <1>8, <2>1, <4>1
    <3>3. adr[k + 1] = adr[k]
      BY <2>3, <3>1
    <3> QED  BY <2>1, <2>2, <3>1, <3>2, <3>3
  <2>6. CASE text[k].ins.op # "LABEL"
    <3>1. k \in Places(text)
      BY <2>1, <2>6 DEF Places
    <3>2. E(k) \in Seq(Byte) /\ Len(E(k)) = B(k) /\ B(k) \in Nat
      BY <1>9, <3>1
    <3>3. e[k] = e[n] \o E(k)
      BY <2>4, <2>6
    <3>4. /\ e[k] \in Seq(Byte) /\ Len(e[k]) = adr[k] + B(k)
          /\ \A p \in 1 .. adr[k] : e[k][p] = e[n][p]
          /\ \A p \in 1 .. B(k) : e[k][adr[k] + p] = E(k)[p]
      <4>1. /\ e[n] \o E(k) \in Seq(Byte) /\ Len(e[n] \o E(k)) = Len(e[n]) + Len(E(k))
            /\ \A p \in 1 .. Len(e[n]) : (e[n] \o E(k))[p] = e[n][p]
            /\ \A p \in 1 .. Len(E(k)) : (e[n] \o E(k))[Len(e[n]) + p] = E(k)[p]
        BY <2>2, <3>2, Behind
      <4> QED  BY <2>2, <3>2, <3>3, <4>1
    <3>5. ASSUME NEW j \in Places(text), j <= k, NEW p \in 1 .. B(j)
          PROVE  e[k][adr[j] + p] = E(j)[p]
      <4>1. CASE j = k
        BY <3>4, <4>1
      <4>2. CASE j # k
        <5>1. j < k /\ j <= n /\ j \in 1 .. Len(text) + 1
          BY <1>8, <2>1, <3>5, <4>2
        <5>2. adr[j] + B(j) <= adr[k] /\ adr[j] \in Nat /\ B(j) \in Nat
          BY <1>7, <1>9, <1>10, <2>1, <5>1
        <5>3. adr[j] + p \in 1 .. adr[k]
          BY <2>3, <5>2, SMTT(30)
        <5>4. e[n][adr[j] + p] = E(j)[p]
          BY <2>2, <5>1
        <5> QED  BY <3>4, <5>3, <5>4
      <4> QED  BY <4>1, <4>2
    <3> QED  BY <2>1, <2>3, <3>4, <3>5
  <2> QED  BY <2>5, <2>6
<1>13. Nat \subseteq S
  <2> HIDE DEF S
  <2> QED  BY <1>11, <1>12, Counting
<1>14. /\ e[Len(text)] \in Seq(Byte)
       /\ Len(e[Len(text)]) = adr[Len(text) + 1]
       /\ \A j \in Places(text) : j <= Len(text) =>
            \A p \in 1 .. B(j) : e[Len(text)][adr[j] + p] = E(j)[p]
  <2>1. Len(text) \in S /\ Len(text) \in 0 .. Len(text)
    BY <1>2, <1>13
  <2> QED  BY <2>1
<1>15. \A j \in Places(text) : j <= Len(text)
  BY <1>8
<1> QED
  BY <1>1, <1>14, <1>15 DEF adr, B, E

-----------------------------------------------------------------------------
(* Every text that assembles into memory without a misassembled line, with *)
(* its labels where they may be, is executed as it was written: the two    *)
(* passes count the same addresses, no instruction is laid over another,   *)
(* the processor finds at each address the instruction that was written    *)
(* there, and its length leads to the next line.                           *)
THEOREM AssembledAsWritten ==
  ASSUME NEW Labels, NEW text \in Seq(Statements(Labels)), Assembles(text),
         Address(text)[Len(text) + 1] \in Word,
         \A k \in Places(text) : ~Misassembled(text[k].ins)
  PROVE  /\ Assembled(text) = Placed(text)
         /\ \A k \in Places(text) :
              /\ Placed(text)[Address(text)[k]] = Resolved(text, k)
              /\ Address(text)[k + 1] = Address(text)[k] + Taken(text[k].ins.op)
<1> DEFINE adr == Address(text)
           code == CompileLC24(text)
<1>1. ASSUME NEW k \in Places(text)
      PROVE  /\ Executed(Fetched(code, adr[k])) = Resolved(text, k)
             /\ adr[k + 1] = adr[k] + Taken(text[k].ins.op)
  <2> DEFINE i == Resolved(text, k)
             op == text[k].ins.op
             b == Emitted(i)
             m == Fetched(code, adr[k])
  <2>1. k \in 1 .. Len(text) /\ k + 1 \in 1 .. Len(text) + 1 /\ k \in 1 .. Len(text) + 1
        /\ Len(text) + 1 \in 1 .. Len(text) + 1 /\ k + 1 <= Len(text) + 1
    BY DEF Places
  <2>2. Faithful(i) /\ i.op = op /\ op \in Ops \ {"STr0"}
    BY ResolvedIs
  <2>3. Bytes(op) \in 1 .. 5
    BY <2>2, OpLengths
  <2>4. /\ adr[k + 1] = adr[k] + Bytes(op) /\ adr[k] \in Nat
        /\ adr[k + 1] <= adr[Len(text) + 1]
    BY <2>1, AddressSteps, AddressGrows
  <2>5. /\ Len(code) = adr[Len(text) + 1]
        /\ \A p \in 1 .. Bytes(op) : code[adr[k] + p] = b[p]
    BY CodeInPlace
  <2>6. Executed(b) = i /\ Bytes(op) = Len(b) /\ Taken(INSTS[b[1]]) = Len(b)
    BY <2>2 DEF Faithful
  <2>7. INSTS[b[1]] = op
    <3>1. Executed(b).op = INSTS[b[1]]
      BY DEF Executed, Ins
    <3> QED  BY <2>2, <2>6, <3>1
  <2>8. adr[Len(text) + 1] \in Nat
    BY <2>1, AddressSteps
  <2> HIDE DEF adr, code, op, b, i
  <2>9. ASSUME NEW p \in 1 .. Taken(INSTS[b[1]])
        PROVE  m[p] = b[p]
    <3>1. p \in 1 .. Bytes(op) /\ p \in 1 .. 5
      BY <2>3, <2>6
    <3>2. adr[k] + p <= Len(code)
      BY <2>3, <2>4, <2>5, <2>8, <3>1, SMTT(30)
    <3>3. m[p] = code[adr[k] + p]
      BY <3>1, <3>2 DEF Fetched
    <3> QED  BY <2>5, <3>1, <3>3
  <2> HIDE DEF m
  <2>10. Executed(m) = Executed(b)
    BY <2>2, <2>7, <2>9, ReadsWhatItTakes
  <2>11. adr[k + 1] = adr[k] + Taken(op)
    BY <2>4, <2>6, <2>7
  <2> QED  BY <2>6, <2>10, <2>11 DEF adr, code, op, b, i, m
<1>2. /\ DOMAIN Placed(text) = {adr[k] : k \in Places(text)}
      /\ \A k \in Places(text) : Placed(text)[adr[k]] = Resolved(text, k)
  BY PlacedIs
<1>3. Assembled(text) = [a \in DOMAIN Placed(text) |-> Executed(Fetched(code, a))]
  BY DEF Assembled
<1>4. Placed(text) = [a \in DOMAIN Placed(text) |-> Placed(text)[a]]
  BY DEF Placed
<1> HIDE DEF adr, code
<1>5. \A a \in DOMAIN Placed(text) : Executed(Fetched(code, a)) = Placed(text)[a]
  BY <1>1, <1>2
<1> QED
  BY <1>1, <1>2, <1>3, <1>4, <1>5 DEF adr, code
-----------------------------------------------------------------------------
(***************************************************************************)
(* The routines.  They are followed on the processor, line by line, from   *)
(* the call to the return.                                                 *)
(***************************************************************************)

\* An interrupt that is not masked and has no vector is handled by its number.
LEMMA InterruptIs ==
  ASSUME NEW i, Exec(i), IsInt(i), Bit(PS, FlagI), ~Vectored(i)
  PROVE  /\ Number(i) = INT_WRITE => IntWrite(i) \/ StackFault(i)
         /\ Number(i) = INT_READ => IntRead(i) \/ StackFault(i)
<1>1. i.op \in {"INT0", "INT1"}
  BY DEF IsInt
<1>2. ~Control(i) /\ ~Compute(i) /\ ~Memory(i)
  <2>1. ~Control(i)
    BY <1>1 DEF Control, JME0, JMNE0, JL0, JG0, Jump, LOOP
  <2>2. ~Compute(i)
    BY <1>1 DEF Compute, AluRR, AluOps, AluRI, DIV, DivideByZero, Step1, XCHG4, CMP, FLAGS
  <2>3. ~Memory(i)
    BY <1>1 DEF Memory, LOAD, Loads, STORE, Stores, WalkStore, WalkLoad, Step1M, DISK
  <2> QED  BY <2>1, <2>2, <2>3
<1>3. Stack(i) \/ System(i)
  BY <1>2 DEF Exec
<1>4. Stack(i) => StackFault(i)
  BY <1>1 DEF Stack, PUSH, POP1, COP1, CALL, Return, IRET, Pushes, Returns
<1>5. System(i) => INT(i)
  BY <1>1 DEF System, CPUID, HLT, HLT1, UNK
<1>6. INT(i) => \/ /\ Number(i) \in {INT_EXIT, INT_RESET, INT_VIDEO_WRITE, INT_RAND, INT_DATE,
                                     INT_WAIT, INT_BEEP} \cup Draws
                \/ Number(i) = INT_READ /\ IntRead(i)
                \/ Number(i) = INT_WRITE /\ IntWrite(i)
                \/ Number(i) \notin Handled
  BY DEF INT, IntMasked, IntVector, IntExit, IntRead, IntWrite, IntReset, IntVideoWrite,
         IntDraw, IntAsk, IntWait, IntBeep, IntIllegal, Calls
<1>7. /\ INT_WRITE = 2 /\ INT_READ = 1 /\ {1, 2} \subseteq Handled
      /\ \A n \in {1, 2} : n \notin {INT_EXIT, INT_RESET, INT_VIDEO_WRITE, INT_RAND, INT_DATE,
                                  INT_WAIT, INT_BEEP} \cup Draws
  BY DEF INT_WRITE, INT_READ, Handled, INT_EXIT, INT_RESET, INT_VIDEO_WRITE, INT_RAND, INT_DATE,
         INT_WAIT, INT_BEEP, Draws, INT_3D
<1> QED
  BY <1>3, <1>4, <1>5, <1>6, <1>7

\* Every instruction the routines are made of has one handler.
LEMMA HandlerOf ==
  ASSUME NEW i, Exec(i)
  PROVE  /\ i.op = "POP1" => POP1(i) \/ StackFault(i)
         /\ i.op \in Pushes => PUSH(i) \/ StackFault(i)
         /\ i.op = "CALL" => CALL(i) \/ StackFault(i)
         /\ i.op \in Returns => Return(i) \/ StackFault(i)
         /\ i.op = "MOV" => AluRR(i)
         /\ i.op = "ALUI" => AluRI(i)
         /\ i.op \in {"DIV11", "DIVI"} => DIV(i) \/ DivideByZero(i)
         /\ i.op = "CMP10" => CMP(i)
         /\ i.op = "LBc" => WalkLoad(i)
         /\ i.op = "JMNE0" => JMNE0(i)
         /\ i.op = "JMP0" => Jump(i)
         /\ Calls(i, {INT_WRITE}) => IntWrite(i) \/ StackFault(i)
         /\ Calls(i, {INT_READ}) => IntRead(i) \/ StackFault(i)
<1> DEFINE OfStack == {"POP1", "CALL"} \cup Pushes \cup Returns
           OfCompute == {"MOV", "ALUI", "DIV11", "DIVI", "CMP10"}
           OfControl == {"JMNE0", "JMP0"}
<1> USE DEF Pushes, Returns
<1>1. i.op \in OfStack \cup {"INT0"} => ~Control(i) /\ ~Compute(i) /\ ~Memory(i)
  <2> SUFFICES ASSUME i.op \in OfStack \cup {"INT0"}
               PROVE  ~Control(i) /\ ~Compute(i) /\ ~Memory(i)
    OBVIOUS
  <2>1. ~Control(i)
    BY DEF Control, JME0, JMNE0, JL0, JG0, Jump, LOOP
  <2>2. ~Compute(i)
    BY DEF Compute, AluRR, AluOps, AluRI, DIV, DivideByZero, Step1, XCHG4, CMP, FLAGS
  <2>3. ~Memory(i)
    BY DEF Memory, LOAD, Loads, STORE, Stores, WalkStore, WalkLoad, Step1M, DISK
  <2> QED  BY <2>1, <2>2, <2>3
<1>2. i.op # "INT0" /\ i.op \in OfStack \cup OfCompute \cup OfControl \cup {"LBc"} => ~System(i)
  BY DEF System, INT, IntMasked, IntVector, IntExit, IntRead, IntWrite, IntReset,
         IntVideoWrite, IntDraw, IntAsk, IntWait, IntBeep, IntIllegal, Vectored,
         Calls, IsInt, CPUID, HLT, HLT1, UNK
<1>3. i.op \in OfCompute \cup OfControl \cup {"LBc"} => ~Stack(i)
  <2> SUFFICES ASSUME i.op \in OfCompute \cup OfControl \cup {"LBc"} PROVE ~Stack(i)
    OBVIOUS
  <2>1. ~HitsHost(i)
    BY DEF HitsHost, Calls, IsInt, Vectored
  <2> QED
    BY <2>1 DEF Stack, StackFault, PUSH, POP1, COP1, CALL, Return, IRET
<1>4. i.op \in OfStack => Stack(i)
  BY <1>1, <1>2 DEF Exec
<1>5. /\ i.op = "POP1" => POP1(i) \/ StackFault(i)
      /\ i.op \in Pushes => PUSH(i) \/ StackFault(i)
      /\ i.op = "CALL" => CALL(i) \/ StackFault(i)
      /\ i.op \in Returns => Return(i) \/ StackFault(i)
  BY <1>4 DEF Stack, PUSH, POP1, COP1, CALL, Return, IRET
<1>6. i.op \in OfCompute => Compute(i)
  <2> SUFFICES ASSUME i.op \in OfCompute PROVE ~Control(i) /\ ~Memory(i)
    BY <1>2, <1>3 DEF Exec
  <2>1. ~Control(i)
    BY DEF Control, JME0, JMNE0, JL0, JG0, Jump, LOOP
  <2>2. ~Memory(i)
    BY DEF Memory, LOAD, Loads, STORE, Stores, WalkStore, WalkLoad, Step1M, DISK
  <2> QED  BY <2>1, <2>2
<1>7. /\ i.op = "MOV" => AluRR(i)
      /\ i.op = "ALUI" => AluRI(i)
      /\ i.op \in {"DIV11", "DIVI"} => DIV(i) \/ DivideByZero(i)
      /\ i.op = "CMP10" => CMP(i)
  BY <1>6 DEF Compute, AluRR, AluOps, AluRI, DIV, DivideByZero, Step1, XCHG4, CMP, FLAGS
<1>8. i.op = "LBc" => WalkLoad(i)
  <2> SUFFICES ASSUME i.op = "LBc" PROVE WalkLoad(i)
    OBVIOUS
  <2>1. ~Control(i)
    BY DEF Control, JME0, JMNE0, JL0, JG0, Jump, LOOP
  <2>2. ~Compute(i)
    BY DEF Compute, AluRR, AluOps, AluRI, DIV, DivideByZero, Step1, XCHG4, CMP, FLAGS
  <2>3. Memory(i)
    BY <1>2, <1>3, <2>1, <2>2 DEF Exec
  <2> QED
    BY <2>3 DEF Memory, LOAD, Loads, STORE, Stores, WalkStore, Step1M, DISK
<1>9. i.op \in OfControl => Control(i)
  <2> SUFFICES ASSUME i.op \in OfControl PROVE ~Compute(i) /\ ~Memory(i)
    BY <1>2, <1>3 DEF Exec
  <2>1. ~Compute(i)
    BY DEF Compute, AluRR, AluOps, AluRI, DIV, DivideByZero, Step1, XCHG4, CMP, FLAGS
  <2>2. ~Memory(i)
    BY DEF Memory, LOAD, Loads, STORE, Stores, WalkStore, WalkLoad, Step1M, DISK
  <2> QED  BY <2>1, <2>2
<1>10. (i.op = "JMNE0" => JMNE0(i)) /\ (i.op = "JMP0" => Jump(i))
  BY <1>9 DEF Control, JME0, JMNE0, JL0, JG0, Jump, LOOP
<1>11. Calls(i, {INT_WRITE}) => IntWrite(i) \/ StackFault(i)
  <2> SUFFICES ASSUME Calls(i, {INT_WRITE}) PROVE IntWrite(i) \/ StackFault(i)
    OBVIOUS
  <2>1. IsInt(i) /\ Bit(PS, FlagI) /\ ~Vectored(i) /\ Number(i) = 2
    BY DEF Calls, INT_WRITE
  <2> QED
    BY <2>1, InterruptIs DEF INT_WRITE
<1>12. Calls(i, {INT_READ}) => IntRead(i) \/ StackFault(i)
  <2> SUFFICES ASSUME Calls(i, {INT_READ}) PROVE IntRead(i) \/ StackFault(i)
    OBVIOUS
  <2>1. IsInt(i) /\ Bit(PS, FlagI) /\ ~Vectored(i) /\ Number(i) = 1
    BY DEF Calls, INT_READ
  <2> QED
    BY <2>1, InterruptIs DEF INT_READ
<1> QED
  BY <1>5, <1>7, <1>8, <1>10, <1>11, <1>12

\* What holds while a routine runs on the program p: area is the part of
\* memory it may write, Rs the registers it may change.
Frame(p, area, r0, m0, Rs) ==
  /\ TypeOK /\ name = p /\ run = "running" /\ Bit(PS, FlagI)
  /\ \A x \in Reg \ Rs : reg[x] = r0[x]
  /\ \A c \in Cells : c \notin area => mem[c] = m0[c]
  /\ out \in Seq(Byte) /\ inp \in Seq(Word)

\* A turn executes the instruction at PC; only an interrupt writes or reads.
LEMMA TurnIs ==
  ASSUME NEW p \in DOMAIN Programs, NEW i, i = Programs[p][PC], Turn, TypeOK, name = p,
         out \in Seq(Byte), inp \in Seq(Word)
  PROVE  /\ i \in ISA /\ Exec(i) /\ TypeOK' /\ name' = p
         /\ out' = out \o Written(i) /\ inp' = inp \o Asked(i)
         /\ ~IsInt(i) => out' = out /\ inp' = inp
<1>1. PC \in DOMAIN Programs[p] /\ Step(i) /\ name' = p
      /\ out' = out \o Written(i) /\ inp' = inp \o Asked(i)
  BY DEF Turn
<1>2. i \in ISA
  BY <1>1, ProgramsAssumption
<1>3. Exec(i) /\ TypeOK'
  BY <1>1, <1>2, StepTypes DEF Step
<1>4. ASSUME ~IsInt(i)
      PROVE  out' = out /\ inp' = inp
  <2>1. Written(i) = << >> /\ Asked(i) = << >>
    BY <1>4 DEF Written, Asked, Calls
  <2>2. out \o << >> = out /\ inp \o << >> = inp
    OBVIOUS
  <2> QED  BY <1>1, <2>1, <2>2
<1> QED  BY <1>1, <1>2, <1>3, <1>4

\* It keeps the frame when it changes what it may.
LEMMA FrameKept ==
  ASSUME NEW p, NEW area, NEW r0, NEW m0, NEW Rs, Frame(p, area, r0, m0, Rs),
         TypeOK', name' = p, run' = run, Bit(PS', FlagI),
         \A x \in Reg \ Rs : reg'[x] = reg[x],
         \A c \in Cells : c \notin area => mem'[c] = mem[c],
         out' \in Seq(Byte), inp' \in Seq(Word)
  PROVE  Frame(p, area, r0, m0, Rs)'
BY DEF Frame

\* Where the stack is not at an end of memory SP moves by three.
LEMMA StackAt ==
  ASSUME NEW t \in Nat
  PROVE  /\ t + 3 < W => PopSP(t) = t + 3 /\ \A m : StackPop(m, t) = Read24(m, t + 1)
         /\ t >= 3 /\ t < W => PushSP(t) = t - 3
<1>1. t + 3 < W => (t + 3) % W = t + 3
  BY Widths
<1>2. t >= 3 /\ t < W => (t - 3) % W = t - 3
  BY Widths
<1>3. (t + 3) - 2 = t + 1
  OBVIOUS
<1> QED  BY <1>1, <1>2, <1>3 DEF PopSP, PushSP, StackPop

LEMMA TurnPop ==
  ASSUME NEW p \in DOMAIN Programs, NEW area, NEW r0, NEW m0, NEW Rs,
         Frame(p, area, r0, m0, Rs), Turn,
         NEW r \in Reg \cap Rs, r # "SP", "SP" \in Rs,
         Programs[p][PC] = Ins("POP1", r, "AC", 0, 0),
         NEW t \in Nat, reg["SP"] = t, t + 3 < W
  PROVE  /\ Frame(p, area, r0, m0, Rs)'
         /\ PC' = PC + 2 /\ mem' = mem /\ out' = out /\ inp' = inp
         /\ reg'["SP"] = t + 3 /\ reg'[r] = Read24(mem, t + 1)
         /\ \A x \in Reg \ {r, "SP"} : reg'[x] = reg[x]
<1> DEFINE i == Ins("POP1", r, "AC", 0, 0)
<1>1. i.op = "POP1" /\ i.r = r /\ ~IsInt(i)
  BY DEF Ins, IsInt
<1>2. TypeOK /\ name = p /\ out \in Seq(Byte) /\ inp \in Seq(Word) /\ Bit(PS, FlagI)
  BY DEF Frame
<1> HIDE DEF i
<1>3. Exec(i) /\ TypeOK' /\ name' = p /\ out' = out /\ inp' = inp
  BY <1>1, <1>2, TurnIs DEF i
<1>4. PopSP(t) = t + 3 /\ StackPop(mem, t) = Read24(mem, t + 1)
  BY StackAt
<1>5. ~StackFault(i)
  BY <1>1, <1>4 DEF StackFault, HitsHost, Pushes, Returns, Vectored, Calls
<1>6. POP1(i)
  BY <1>1, <1>3, <1>5, HandlerOf
<1>7. reg' = [reg EXCEPT !["SP"] = t + 3, ![r] = Read24(mem, t + 1)]
      /\ PC' = PC + 2 /\ PS' = PS /\ mem' = mem /\ run' = run
  BY <1>1, <1>4, <1>6 DEF POP1, rest
<1>8. reg \in [Reg -> Word] /\ "SP" \in Reg
  BY <1>2 DEF TypeOK, Reg
<1>9. reg'["SP"] = t + 3 /\ reg'[r] = Read24(mem, t + 1)
      /\ \A x \in Reg \ {r, "SP"} : reg'[x] = reg[x]
  BY <1>7, <1>8
<1>10. Frame(p, area, r0, m0, Rs)'
  BY <1>2, <1>3, <1>7, <1>9, FrameKept
<1> QED  BY <1>3, <1>7, <1>9, <1>10

\* What a push changes in memory: only its word.
LEMMA Pushed24 ==
  ASSUME NEW m, NEW t \in Nat, t >= 3, CanPush(t), NEW v \in Word
  PROVE  /\ Read24(StackPush(m, t, v), t - 2) = v
         /\ \A c \in Cells : c \notin t - 2 .. t => StackPush(m, t, v)[c] = m[c]
<1>1. t - 2 \in Cells /\ t - 2 + 1 \in Cells /\ t - 2 + 2 \in Cells
  BY DEF CanPush, Has
<1>2. (t - 2) + 3 - 1 = t
  OBVIOUS
<1>3. StackPush(m, t, v) = [c \in Cells |-> IF c \in t - 2 .. t THEN Digit(v, c - (t - 2)) ELSE m[c]]
  BY <1>2 DEF StackPush, Write
<1>4. /\ StackPush(m, t, v)[t - 2] = Digit(v, 0)
      /\ StackPush(m, t, v)[t - 2 + 1] = Digit(v, 1)
      /\ StackPush(m, t, v)[t - 2 + 2] = Digit(v, 2)
  BY <1>1, <1>3
<1>5. Digit(v, 0) + 256 * Digit(v, 1) + 65536 * Digit(v, 2) = v
  BY WordBytes, Widths
<1> QED  BY <1>3, <1>4, <1>5 DEF Read24

LEMMA TurnPush ==
  ASSUME NEW p \in DOMAIN Programs, NEW area, NEW r0, NEW m0, NEW Rs,
         Frame(p, area, r0, m0, Rs), Turn, "SP" \in Rs,
         NEW i, Programs[p][PC] = i, i.op \in {"PUSH0", "PUSH1"},
         NEW t \in Nat, reg["SP"] = t, t >= 3, t - 2 .. t \subseteq area
  PROVE  /\ Frame(p, area, r0, m0, Rs)'
         /\ PC' = PC + PushLen(i) /\ out' = out /\ inp' = inp
         /\ reg'["SP"] = t - 3 /\ \A x \in Reg \ {"SP"} : reg'[x] = reg[x]
         /\ Read24(mem', t - 2) = IF i.op = "PUSH0" THEN i.a ELSE reg[i.r]
         /\ \A c \in Cells : c \notin t - 2 .. t => mem'[c] = mem[c]
<1> DEFINE v == IF i.op = "PUSH0" THEN i.a ELSE reg[i.r]
<1>1. i.op \in Pushes /\ ~IsInt(i) /\ i.op # "PUSHp"
  BY DEF IsInt, Pushes
<1>2. TypeOK /\ name = p /\ out \in Seq(Byte) /\ inp \in Seq(Word) /\ Bit(PS, FlagI)
  BY DEF Frame
<1>3. i \in ISA /\ Exec(i) /\ TypeOK' /\ name' = p /\ out' = out /\ inp' = inp
  BY <1>1, <1>2, TurnIs
<1>4. v \in Word
  BY <1>2, <1>3, Operands, Numbers
<1>5. ~StackFault(i)
  BY <1>1 DEF StackFault, HitsHost, Pushes, Returns, Vectored, Calls
<1>6. PUSH(i)
  BY <1>1, <1>3, <1>5, HandlerOf
<1>7. Pushed(i) = v
  BY DEF Pushed
<1>8. t < W
  BY <1>2, Numbers, Widths
<1>9. PushSP(t) = t - 3
  BY <1>8, StackAt
<1> HIDE DEF v
<1>10. /\ CanPush(t) /\ mem' = StackPush(mem, t, v)
       /\ reg' = [reg EXCEPT !["SP"] = t - 3]
       /\ PC' = PC + PushLen(i) /\ PS' = PS /\ run' = run
  BY <1>6, <1>7, <1>9 DEF PUSH
<1>11. /\ Read24(mem', t - 2) = v
       /\ \A c \in Cells : c \notin t - 2 .. t => mem'[c] = mem[c]
  BY <1>4, <1>10, Pushed24
<1>12. reg \in [Reg -> Word] /\ "SP" \in Reg
  BY <1>2 DEF TypeOK, Reg
<1>13. reg'["SP"] = t - 3 /\ \A x \in Reg \ {"SP"} : reg'[x] = reg[x]
  BY <1>10, <1>12
<1>14. Frame(p, area, r0, m0, Rs)'
  BY <1>2, <1>3, <1>10, <1>11, <1>13, FrameKept
<1> QED  BY <1>3, <1>10, <1>11, <1>13, <1>14 DEF v

LEMMA TurnCall ==
  ASSUME NEW p \in DOMAIN Programs, NEW area, NEW r0, NEW m0, NEW Rs,
         Frame(p, area, r0, m0, Rs), Turn, "SP" \in Rs,
         NEW a, Programs[p][PC] = Ins("CALL", "AC", "AC", a, 0), PC + 4 \in Word,
         NEW t \in Nat, reg["SP"] = t, t >= 3, t - 2 .. t \subseteq area
  PROVE  /\ Frame(p, area, r0, m0, Rs)'
         /\ PC' = a /\ out' = out /\ inp' = inp
         /\ reg'["SP"] = t - 3 /\ \A x \in Reg \ {"SP"} : reg'[x] = reg[x]
         /\ Read24(mem', t - 2) = PC + 4
         /\ \A c \in Cells : c \notin t - 2 .. t => mem'[c] = mem[c]
<1> DEFINE i == Ins("CALL", "AC", "AC", a, 0)
<1>1. i.op = "CALL" /\ i.a = a /\ ~IsInt(i)
  BY DEF Ins, IsInt
<1>2. TypeOK /\ name = p /\ out \in Seq(Byte) /\ inp \in Seq(Word) /\ Bit(PS, FlagI)
  BY DEF Frame
<1> HIDE DEF i
<1>3. Exec(i) /\ TypeOK' /\ name' = p /\ out' = out /\ inp' = inp
  BY <1>1, <1>2, TurnIs DEF i
<1>4. ~StackFault(i)
  BY <1>1 DEF StackFault, HitsHost, Pushes, Returns, Vectored, Calls
<1>5. CALL(i)
  BY <1>1, <1>3, <1>4, HandlerOf
<1>6. t < W
  BY <1>2, Numbers, Widths
<1>7. PushSP(t) = t - 3
  BY <1>6, StackAt
<1>8. /\ CanPush(t) /\ mem' = StackPush(mem, t, PC + 4)
      /\ reg' = [reg EXCEPT !["SP"] = t - 3]
      /\ PC' = a /\ PS' = PS /\ run' = run
  BY <1>1, <1>5, <1>7 DEF CALL
<1>9. /\ Read24(mem', t - 2) = PC + 4
      /\ \A c \in Cells : c \notin t - 2 .. t => mem'[c] = mem[c]
  BY <1>8, Pushed24
<1>10. reg \in [Reg -> Word] /\ "SP" \in Reg
  BY <1>2 DEF TypeOK, Reg
<1>11. reg'["SP"] = t - 3 /\ \A x \in Reg \ {"SP"} : reg'[x] = reg[x]
  BY <1>8, <1>10
<1>12. Frame(p, area, r0, m0, Rs)'
  BY <1>2, <1>3, <1>8, <1>9, <1>11, FrameKept
<1> QED  BY <1>3, <1>8, <1>9, <1>11, <1>12

\* A return, or a step past it.
LEMMA TurnReturn ==
  ASSUME NEW p \in DOMAIN Programs, NEW area, NEW r0, NEW m0, NEW Rs,
         Frame(p, area, r0, m0, Rs), Turn, "SP" \in Rs,
         NEW op \in {"RET", "RE"}, Programs[p][PC] = Ins(op, "AC", "AC", 0, 0),
         NEW t \in Nat, reg["SP"] = t, t + 3 < W
  PROVE  /\ Frame(p, area, r0, m0, Rs)'
         /\ mem' = mem /\ out' = out /\ inp' = inp
         /\ \A x \in Reg \ {"SP"} : reg'[x] = reg[x]
         /\ IF op = "RET" \/ Bit(PS, FlagZ)
            THEN PC' = Read24(mem, t + 1) /\ reg'["SP"] = t + 3
            ELSE PC' = PC + 1 /\ reg'["SP"] = t
<1> DEFINE i == Ins(op, "AC", "AC", 0, 0)
<1>1. i.op = op /\ op \in Returns /\ ~IsInt(i)
  BY DEF Ins, IsInt, Returns
<1>2. TypeOK /\ name = p /\ out \in Seq(Byte) /\ inp \in Seq(Word) /\ Bit(PS, FlagI)
  BY DEF Frame
<1> HIDE DEF i
<1>3. Exec(i) /\ TypeOK' /\ name' = p /\ out' = out /\ inp' = inp
  BY <1>1, <1>2, TurnIs DEF i
<1>4. PopSP(t) = t + 3 /\ StackPop(mem, t) = Read24(mem, t + 1)
  BY StackAt
<1>5. ~StackFault(i)
  BY <1>1, <1>4 DEF StackFault, HitsHost, Pushes, Vectored, Calls
<1>6. Return(i)
  BY <1>1, <1>3, <1>5, HandlerOf
<1>7. Returning(i) <=> op = "RET" \/ Bit(PS, FlagZ)
  BY <1>1 DEF Returning
<1>8. /\ mem' = mem /\ PS' = PS /\ run' = run
      /\ IF op = "RET" \/ Bit(PS, FlagZ)
         THEN PC' = Read24(mem, t + 1) /\ reg' = [reg EXCEPT !["SP"] = t + 3]
         ELSE PC' = PC + 1 /\ reg' = reg
  BY <1>4, <1>6, <1>7 DEF Return, rest
<1>9. reg \in [Reg -> Word] /\ "SP" \in Reg
  BY <1>2 DEF TypeOK, Reg
<1>10. /\ \A x \in Reg \ {"SP"} : reg'[x] = reg[x]
       /\ reg'["SP"] = IF op = "RET" \/ Bit(PS, FlagZ) THEN t + 3 ELSE t
  BY <1>8, <1>9
<1>11. Frame(p, area, r0, m0, Rs)'
  BY <1>2, <1>3, <1>8, <1>10, FrameKept
<1> QED  BY <1>3, <1>8, <1>10, <1>11

\* An operation that leaves memory, the flags and the stack alone.
LEMMA TurnCompute ==
  ASSUME NEW p \in DOMAIN Programs, NEW area, NEW r0, NEW m0, NEW Rs,
         Frame(p, area, r0, m0, Rs), Turn,
         NEW i, Programs[p][PC] = i, i.r \in Rs,
         i.op \in {"MOV", "ALUI", "DIV11", "DIVI"},
         i.op = "ALUI" => i.n \in {0, 1},
         i.op = "DIV11" => reg[i.s] # 0, i.op = "DIVI" => i.a # 0,
         i.op \in {"DIV11", "DIVI"} => "DC" \in Rs
  PROVE  /\ Frame(p, area, r0, m0, Rs)'
         /\ mem' = mem /\ out' = out /\ inp' = inp
         /\ PC' = PC + IF i.op \in {"MOV", "DIV11"} THEN 2 ELSE 4
         /\ \A x \in Reg \ {i.r, "DC"} : reg'[x] = reg[x]
         /\ i.op = "MOV" => /\ reg'[i.r] = reg[i.s]
                            /\ i.r # "DC" => reg'["DC"] = reg["DC"]
         /\ i.op = "ALUI" => /\ reg'[i.r] = (IF i.n = 0 THEN i.a ELSE (reg[i.r] + i.a) % W)
                             /\ i.r # "DC" => reg'["DC"] = reg["DC"]
         /\ i.op = "DIV11" /\ i.r # "DC" => /\ reg'[i.r] = reg[i.r] \div reg[i.s]
                                            /\ reg'["DC"] = reg[i.r] % reg[i.s]
         /\ i.op = "DIVI" /\ i.r # "DC" => /\ reg'[i.r] = reg[i.r] \div i.a
                                           /\ reg'["DC"] = reg[i.r] % i.a
<1>1. ~IsInt(i)
  BY DEF IsInt
<1>2. TypeOK /\ name = p /\ out \in Seq(Byte) /\ inp \in Seq(Word) /\ Bit(PS, FlagI)
  BY DEF Frame
<1>3. i \in ISA /\ Exec(i) /\ TypeOK' /\ name' = p /\ out' = out /\ inp' = inp
  BY <1>1, <1>2, TurnIs
<1>4. i.r \in Reg /\ "DC" \in Reg /\ reg \in [Reg -> Word]
  BY <1>2, <1>3, Operands DEF TypeOK, Reg
<1>5. ~DivideByZero(i)
  BY DEF DivideByZero
<1>6. \/ AluRR(i) /\ i.op = "MOV"
      \/ AluRI(i) /\ i.op = "ALUI"
      \/ DIV(i)
  BY <1>3, <1>5, HandlerOf
<1>7. /\ mem' = mem /\ PS' = PS /\ run' = run
      /\ PC' = PC + IF i.op \in {"MOV", "DIV11"} THEN 2 ELSE 4
  <2>1. CASE AluRR(i) /\ i.op = "MOV"
    BY <2>1 DEF AluRR, rest
  <2>2. CASE AluRI(i) /\ i.op = "ALUI"
    BY <2>2 DEF AluRI, rest
  <2>3. CASE DIV(i)
    BY <2>3 DEF DIV, rest
  <2> QED  BY <1>6, <2>1, <2>2, <2>3
<1>8. CASE i.op = "MOV"
  <2>1. reg' = [reg EXCEPT ![i.r] = reg[i.s]]
    BY <1>6, <1>8 DEF AluRR, AluRI, DIV, Results
  <2>2. \A x \in Reg \ Rs : reg'[x] = reg[x]
    BY <1>4, <2>1
  <2>3. Frame(p, area, r0, m0, Rs)'
    BY <1>2, <1>3, <1>7, <2>2, FrameKept
  <2> QED  BY <1>3, <1>4, <1>7, <1>8, <2>1, <2>3
<1>9. CASE i.op = "ALUI"
  <2>1. reg' = [reg EXCEPT ![i.r] = IF i.n = 0 THEN i.a ELSE (reg[i.r] + i.a) % W]
    BY <1>6, <1>9 DEF AluRR, AluRI, DIV, Results, ImmOp
  <2>2. \A x \in Reg \ Rs : reg'[x] = reg[x]
    BY <1>4, <2>1
  <2>3. Frame(p, area, r0, m0, Rs)'
    BY <1>2, <1>3, <1>7, <2>2, FrameKept
  <2> QED  BY <1>3, <1>4, <1>7, <1>9, <2>1, <2>3
<1>10. CASE i.op \in {"DIV11", "DIVI"}
  <2> DEFINE y == IF i.op = "DIV11" THEN reg[i.s] ELSE i.a
  <2>1. reg' = [reg EXCEPT !["DC"] = reg[i.r] % y, ![i.r] = reg[i.r] \div y]
    BY <1>6, <1>10 DEF AluRR, AluRI, DIV, DivideBy
  <2> HIDE DEF y
  <2>2. \A x \in Reg \ Rs : reg'[x] = reg[x]
    BY <1>4, <1>10, <2>1
  <2>3. Frame(p, area, r0, m0, Rs)'
    BY <1>2, <1>3, <1>7, <2>2, FrameKept
  <2>4. /\ \A x \in Reg \ {i.r, "DC"} : reg'[x] = reg[x]
        /\ i.r # "DC" => reg'[i.r] = reg[i.r] \div y /\ reg'["DC"] = reg[i.r] % y
    BY <1>4, <2>1
  <2> QED  BY <1>3, <1>7, <1>10, <2>3, <2>4 DEF y
<1> QED  BY <1>8, <1>9, <1>10

LEMMA TurnCompare ==
  ASSUME NEW p \in DOMAIN Programs, NEW area, NEW r0, NEW m0, NEW Rs,
         Frame(p, area, r0, m0, Rs), Turn,
         NEW r, NEW a, Programs[p][PC] = Ins("CMP10", r, "AC", a, 0)
  PROVE  /\ Frame(p, area, r0, m0, Rs)'
         /\ PC' = PC + 5 /\ reg' = reg /\ mem' = mem /\ out' = out /\ inp' = inp
         /\ Bit(PS', FlagZ) <=> reg[r] = a
<1> DEFINE i == Ins("CMP10", r, "AC", a, 0)
<1>1. i.op = "CMP10" /\ i.r = r /\ i.a = a /\ ~IsInt(i)
  BY DEF Ins, IsInt
<1>2. TypeOK /\ name = p /\ out \in Seq(Byte) /\ inp \in Seq(Word) /\ Bit(PS, FlagI)
  BY DEF Frame
<1> HIDE DEF i
<1>3. i \in ISA /\ Exec(i) /\ TypeOK' /\ name' = p /\ out' = out /\ inp' = inp
  BY <1>1, <1>2, TurnIs DEF i
<1>4. CMP(i)
  BY <1>1, <1>3, HandlerOf
<1>5. Compared(reg[r], a) /\ PC' = PC + 5 /\ reg' = reg /\ mem' = mem /\ run' = run
  BY <1>1, <1>4 DEF CMP, rest
<1>6. reg[r] \in Nat /\ a \in Nat /\ PS \in Nat
  BY <1>1, <1>2, <1>3, Operands, Numbers, Widths
<1>7. (Bit(PS', FlagZ) <=> reg[r] = a) /\ Bit(PS', FlagI)
  BY <1>2, <1>5, <1>6, ComparedFlags
<1>8. Frame(p, area, r0, m0, Rs)'
  BY <1>2, <1>3, <1>5, <1>7, FrameKept
<1> QED  BY <1>3, <1>5, <1>7, <1>8

LEMMA TurnJump ==
  ASSUME NEW p \in DOMAIN Programs, NEW area, NEW r0, NEW m0, NEW Rs,
         Frame(p, area, r0, m0, Rs), Turn,
         NEW op \in {"JMP0", "JMNE0"}, NEW a, Programs[p][PC] = Ins(op, "AC", "AC", a, 0)
  PROVE  /\ Frame(p, area, r0, m0, Rs)'
         /\ reg' = reg /\ mem' = mem /\ out' = out /\ inp' = inp
         /\ PC' = IF op = "JMNE0" /\ Bit(PS, FlagZ) THEN PC + 4 ELSE a
<1> DEFINE i == Ins(op, "AC", "AC", a, 0)
<1>1. i.op = op /\ i.a = a /\ ~IsInt(i)
  BY DEF Ins, IsInt
<1>2. TypeOK /\ name = p /\ out \in Seq(Byte) /\ inp \in Seq(Word) /\ Bit(PS, FlagI)
  BY DEF Frame
<1> HIDE DEF i
<1>3. Exec(i) /\ TypeOK' /\ name' = p /\ out' = out /\ inp' = inp
  BY <1>1, <1>2, TurnIs DEF i
<1>4. (op = "JMP0" => Jump(i)) /\ (op = "JMNE0" => JMNE0(i))
  BY <1>1, <1>3, HandlerOf
<1>5. /\ reg' = reg /\ mem' = mem /\ PS' = PS /\ run' = run
      /\ PC' = IF op = "JMNE0" /\ Bit(PS, FlagZ) THEN PC + 4 ELSE a
  BY <1>1, <1>4 DEF Jump, JMNE0, rest
<1>6. Frame(p, area, r0, m0, Rs)'
  BY <1>2, <1>3, <1>5, FrameKept
<1> QED  BY <1>3, <1>5, <1>6

\* A byte is loaded from where r points, and r moves on.
LEMMA TurnLoad ==
  ASSUME NEW p \in DOMAIN Programs, NEW area, NEW r0, NEW m0, NEW Rs,
         Frame(p, area, r0, m0, Rs), Turn,
         NEW r \in Reg \cap Rs, NEW s \in Reg \cap Rs, r # s,
         Programs[p][PC] = Ins("LBc", r, s, 0, 0)
  PROVE  /\ Frame(p, area, r0, m0, Rs)'
         /\ PC' = PC + 2 /\ mem' = mem /\ out' = out /\ inp' = inp
         /\ reg[r] \in Cells /\ reg'[s] = mem[reg[r]] /\ reg'[r] = (reg[r] + 1) % W
         /\ \A x \in Reg \ {r, s} : reg'[x] = reg[x]
<1> DEFINE i == Ins("LBc", r, s, 0, 0)
<1>1. i.op = "LBc" /\ i.r = r /\ i.s = s /\ ~IsInt(i) /\ Size(i) = 1
  BY DEF Ins, IsInt, Size
<1>2. TypeOK /\ name = p /\ out \in Seq(Byte) /\ inp \in Seq(Word) /\ Bit(PS, FlagI)
  BY DEF Frame
<1> HIDE DEF i
<1>3. Exec(i) /\ TypeOK' /\ name' = p /\ out' = out /\ inp' = inp
  BY <1>1, <1>2, TurnIs DEF i
<1>4. WalkLoad(i)
  BY <1>1, <1>3, HandlerOf
<1>5. /\ Has(reg[r], 1) /\ PC' = PC + 2 /\ PS' = PS /\ mem' = mem /\ run' = run
      /\ reg' = [[reg EXCEPT ![s] = mem[reg[r]]] EXCEPT ![r] = (@ + 1) % W]
  BY <1>1, <1>4 DEF WalkLoad, Fetch, rest
<1>6. reg \in [Reg -> Word] /\ reg[r] \in Nat
  BY <1>2, Widths DEF TypeOK
<1>7. reg'[s] = mem[reg[r]] /\ reg'[r] = (reg[r] + 1) % W
      /\ \A x \in Reg \ {r, s} : reg'[x] = reg[x]
  BY <1>5, <1>6
<1>8. reg[r] \in Cells
  BY <1>5, <1>6 DEF Has
<1>9. Frame(p, area, r0, m0, Rs)'
  BY <1>2, <1>3, <1>5, <1>7, FrameKept
<1> QED  BY <1>3, <1>5, <1>7, <1>8, <1>9

\* putchar() of the word on the stack.
LEMMA TurnWrite ==
  ASSUME NEW p \in DOMAIN Programs, NEW area, NEW r0, NEW m0, NEW Rs,
         Frame(p, area, r0, m0, Rs), Turn, "SP" \in Rs,
         Programs[p][PC] = Ins("INT0", "AC", "AC", 0, INT_WRITE),
         NEW t \in Nat, reg["SP"] = t, t + 3 < W
  PROVE  /\ Frame(p, area, r0, m0, Rs)'
         /\ PC' = PC + 2 /\ mem' = mem /\ inp' = inp
         /\ out' = Append(out, Read24(mem, t + 1) % 256)
         /\ reg'["SP"] = t + 3 /\ \A x \in Reg \ {"SP"} : reg'[x] = reg[x]
<1> DEFINE i == Ins("INT0", "AC", "AC", 0, INT_WRITE)
<1>1. i.op = "INT0" /\ i.n = 2 /\ IsInt(i)
  BY DEF Ins, IsInt, INT_WRITE
<1>2. TypeOK /\ name = p /\ out \in Seq(Byte) /\ inp \in Seq(Word) /\ Bit(PS, FlagI)
  BY DEF Frame
<1> HIDE DEF i
<1>3. Exec(i) /\ TypeOK' /\ name' = p /\ out' = out \o Written(i) /\ inp' = inp \o Asked(i)
  BY <1>1, <1>2, TurnIs DEF i
<1>4. ~Vectored(i) /\ Number(i) = 2 /\ ~Calls(i, {INT_READ}) /\ Calls(i, {INT_WRITE})
      /\ ~Calls(i, {INT_EXIT})
  BY <1>1, <1>2 DEF Vectored, Number, Calls, INT_READ, INT_WRITE, INT_EXIT
<1>5. PopSP(t) = t + 3 /\ StackPop(mem, t) = Read24(mem, t + 1)
  BY StackAt
<1>6. ~StackFault(i)
  <2>1. ~HitsHost(i)
    BY <1>1, <1>4, <1>5 DEF HitsHost, Pushes, Returns
  <2> QED  BY <2>1 DEF StackFault
<1>7. IntWrite(i)
  BY <1>3, <1>4, <1>6, HandlerOf
<1>8. /\ CanPop(t) /\ PC' = PC + 2 /\ PS' = PS /\ mem' = mem /\ run' = run
      /\ reg' = [reg EXCEPT !["SP"] = t + 3]
  BY <1>5, <1>7 DEF IntWrite, rest
<1>9. StackPop(mem, t) \in Word
  <2>1. mem \in [Cells -> Byte] /\ t \in Word
    BY <1>2, Widths DEF TypeOK
  <2> QED  BY <1>8, <2>1, StackTypes
<1>10. Written(i) = << Read24(mem, t + 1) % 256 >> /\ Asked(i) = << >>
  BY <1>4, <1>5 DEF Written, Asked
<1>11. Read24(mem, t + 1) % 256 \in Byte
  BY <1>5, <1>9, Widths
<1>12. out' = Append(out, Read24(mem, t + 1) % 256) /\ inp' = inp /\ out' \in Seq(Byte)
  <2> DEFINE z == Read24(mem, t + 1) % 256
  <2>1. out' = out \o << z >> /\ inp' = inp \o << >> /\ z \in Byte
    BY <1>3, <1>10, <1>11
  <2> HIDE DEF z
  <2>2. out' = Append(out, z) /\ inp' = inp /\ out' \in Seq(Byte)
    BY <1>2, <2>1
  <2> QED  BY <2>2 DEF z
<1>13. reg \in [Reg -> Word] /\ "SP" \in Reg
  BY <1>2 DEF TypeOK, Reg
<1>14. reg'["SP"] = t + 3 /\ \A x \in Reg \ {"SP"} : reg'[x] = reg[x]
  BY <1>8, <1>13
<1>15. Frame(p, area, r0, m0, Rs)'
  BY <1>2, <1>3, <1>8, <1>12, <1>14, FrameKept
<1> QED  BY <1>8, <1>12, <1>14, <1>15

\* getchar() is left on the stack.
LEMMA TurnRead ==
  ASSUME NEW p \in DOMAIN Programs, NEW area, NEW r0, NEW m0, NEW Rs,
         Frame(p, area, r0, m0, Rs), Turn, "SP" \in Rs,
         Programs[p][PC] = Ins("INT0", "AC", "AC", 0, INT_READ),
         NEW t \in Nat, reg["SP"] = t, t >= 3, t - 2 .. t \subseteq area
  PROVE  /\ Frame(p, area, r0, m0, Rs)'
         /\ PC' = PC + 2 /\ out' = out
         /\ Read24(mem', t - 2) \in Byte \ {13} /\ inp' = Append(inp, Read24(mem', t - 2))
         /\ reg'["SP"] = t - 3 /\ \A x \in Reg \ {"SP"} : reg'[x] = reg[x]
         /\ \A c \in Cells : c \notin t - 2 .. t => mem'[c] = mem[c]
<1> DEFINE i == Ins("INT0", "AC", "AC", 0, INT_READ)
<1>1. i.op = "INT0" /\ i.n = 1 /\ IsInt(i)
  BY DEF Ins, IsInt, INT_READ
<1>2. TypeOK /\ name = p /\ out \in Seq(Byte) /\ inp \in Seq(Word) /\ Bit(PS, FlagI)
  BY DEF Frame
<1> HIDE DEF i
<1>3. Exec(i) /\ TypeOK' /\ name' = p /\ out' = out \o Written(i) /\ inp' = inp \o Asked(i)
  BY <1>1, <1>2, TurnIs DEF i
<1>4. ~Vectored(i) /\ Number(i) = 1 /\ Calls(i, {INT_READ}) /\ ~Calls(i, {INT_WRITE})
      /\ ~Calls(i, {INT_EXIT, INT_WRITE})
  BY <1>1, <1>2 DEF Vectored, Number, Calls, INT_READ, INT_WRITE, INT_EXIT
<1>5. t < W
  BY <1>2, Numbers, Widths
<1>6. PushSP(t) = t - 3
  BY <1>5, StackAt
<1>7. ~StackFault(i)
  <2>1. ~HitsHost(i)
    BY <1>1, <1>4, <1>6 DEF HitsHost, Pushes, Returns
  <2> QED  BY <2>1 DEF StackFault
<1>8. IntRead(i)
  BY <1>3, <1>4, <1>7, HandlerOf
<1>9. PICK z \in Byte \ {13} :
        /\ CanPush(t) /\ mem' = StackPush(mem, t, z)
        /\ PC' = PC + 2 /\ PS' = PS /\ run' = run
        /\ reg' = [reg EXCEPT !["SP"] = t - 3]
  <2>1. PICK y \in Outside \cup {255} : mem' = StackPush(mem, t, IF y = 13 THEN 10 ELSE y)
    BY <1>8 DEF IntRead
  <2>2. (IF y = 13 THEN 10 ELSE y) \in Byte \ {13}
    BY OutsideAssumption DEF Byte
  <2> QED  BY <1>6, <1>8, <2>1, <2>2 DEF IntRead
<1>10. z \in Word
  BY Wraps
<1>11. /\ Read24(mem', t - 2) = z
       /\ \A c \in Cells : c \notin t - 2 .. t => mem'[c] = mem[c]
  BY <1>9, <1>10, Pushed24
<1>12. reg \in [Reg -> Word] /\ "SP" \in Reg
  BY <1>2 DEF TypeOK, Reg
<1>13. reg'["SP"] = t - 3 /\ \A x \in Reg \ {"SP"} : reg'[x] = reg[x]
  BY <1>9, <1>12
<1>14. StackPop(mem', reg'["SP"]) = z
  <2>1. t - 3 \in Nat /\ (t - 3) + 3 < W /\ (t - 3) + 1 = t - 2
    BY <1>5
  <2>2. StackPop(mem', t - 3) = Read24(mem', (t - 3) + 1)
    BY <2>1, StackAt
  <2> QED  BY <1>11, <1>13, <2>1, <2>2
<1>15. Written(i) = << >> /\ Asked(i) = << z >>
  BY <1>4, <1>14 DEF Written, Asked
<1>16. out' = out /\ inp' = Append(inp, z) /\ inp' \in Seq(Word)
  <2>1. out' = out \o << >> /\ inp' = inp \o << z >>
    BY <1>3, <1>15
  <2> QED  BY <1>2, <1>10, <2>1
<1>17. Frame(p, area, r0, m0, Rs)'
  BY <1>2, <1>3, <1>9, <1>11, <1>13, <1>16, FrameKept
<1> QED  BY <1>9, <1>11, <1>13, <1>16, <1>17
-----------------------------------------------------------------------------
\* The program p is the text, as las has assembled it; a label is defined once.
Loaded(p, text, Labels) ==
  /\ p \in DOMAIN Programs /\ Programs[p] = Assembled(text)
  /\ text \in Seq(Statements(Labels)) /\ Assembles(text)
  /\ Address(text)[Len(text) + 1] \in Word
  /\ \A k \in Places(text) : ~Misassembled(text[k].ins)
  /\ \A j, k \in DOMAIN text : text[j].ins.op = "LABEL" /\ text[j] = text[k] => j = k

\* The lines of a routine follow line q of the text.
Contains(text, q, routine) ==
  q \in Nat /\ \A k \in DOMAIN routine : q + k \in DOMAIN text /\ text[q + k] = routine[k]

\* The processor finds every line of it where the lines before it end, and a
\* label of its own at the address of its definition.
LEMMA InPlace ==
  ASSUME NEW p, NEW text, NEW Labels, Loaded(p, text, Labels),
         NEW q, NEW routine, Contains(text, q, routine), NEW k \in DOMAIN routine, k \in Nat
  PROVE  /\ Address(text)[q + k] \in Nat /\ Address(text)[q + k] \in Word
         /\ Address(text)[(q + k) + 1] = Address(text)[q + k] + Bytes(routine[k].ins.op)
         /\ routine[k].ins.op # "LABEL" /\ routine[k].to = << >> =>
              Programs[p][Address(text)[q + k]] = routine[k].ins
<1>1. /\ Programs[p] = Assembled(text) /\ text \in Seq(Statements(Labels)) /\ Assembles(text)
      /\ Address(text)[Len(text) + 1] \in Word
      /\ \A n \in Places(text) : ~Misassembled(text[n].ins)
      /\ \A m, n \in DOMAIN text : text[m].ins.op = "LABEL" /\ text[m] = text[n] => m = n
  BY DEF Loaded
<1>2. q \in Nat /\ q + k \in DOMAIN text /\ text[q + k] = routine[k]
      /\ \A j \in DOMAIN routine : q + j \in DOMAIN text /\ text[q + j] = routine[j]
  BY DEF Contains
<1>3. PICK h : h = q + k
  OBVIOUS
<1>4. h \in 1 .. Len(text) /\ h \in 1 .. Len(text) + 1
  BY <1>1, <1>2, <1>3
<1>5. Address(text)[h] \in Nat /\ Address(text)[h + 1] = Address(text)[h] + Bytes(text[h].ins.op)
  BY <1>1, <1>4, AddressSteps
<1>6. Address(text)[h] \in Word
  <2>1. Len(text) + 1 \in 1 .. Len(text) + 1 /\ h <= Len(text) + 1
    BY <1>1, <1>4
  <2>2. Address(text)[h] <= Address(text)[Len(text) + 1]
    BY <1>1, <1>4, <2>1, AddressGrows
  <2> QED  BY <1>1, <1>5, <2>2, Widths
<1>7. ASSUME routine[k].ins.op # "LABEL"
      PROVE  Programs[p][Address(text)[h]] = Resolved(text, h)
  <2>1. h \in Places(text)
    BY <1>1, <1>2, <1>3, <1>4, <1>7 DEF Places
  <2>2. Assembled(text) = Placed(text) /\ Placed(text)[Address(text)[h]] = Resolved(text, h)
    BY <1>1, <2>1, AssembledAsWritten
  <2> QED  BY <1>1, <2>2
<1>8. routine[k].to = << >> => Resolved(text, h) = routine[k].ins
  BY <1>2, <1>3 DEF Resolved
<1> QED
  BY <1>2, <1>3, <1>5, <1>6, <1>7, <1>8

LEMMA LabelInPlace ==
  ASSUME NEW p, NEW text, NEW Labels, Loaded(p, text, Labels),
         NEW q, NEW routine, Contains(text, q, routine),
         NEW k \in DOMAIN routine, NEW j \in DOMAIN routine, k \in Nat,
         NEW op, NEW l, routine[k] = To(op, l), op # "LABEL", l # << >>, routine[j] = Label(l)
  PROVE  Programs[p][Address(text)[q + k]] = Ins(op, "AC", "AC", Address(text)[q + j], 0)
<1>1. /\ Programs[p] = Assembled(text) /\ text \in Seq(Statements(Labels)) /\ Assembles(text)
      /\ Address(text)[Len(text) + 1] \in Word
      /\ \A n \in Places(text) : ~Misassembled(text[n].ins)
      /\ \A m, n \in DOMAIN text : text[m].ins.op = "LABEL" /\ text[m] = text[n] => m = n
  BY DEF Loaded
<1>2. /\ q + k \in DOMAIN text /\ text[q + k] = routine[k]
      /\ q + j \in DOMAIN text /\ text[q + j] = routine[j]
  BY DEF Contains
<1>3. PICK h : h = q + k
  OBVIOUS
<1>4. routine[k].to = l /\ routine[k].ins = Ins(op, "AC", "AC", 0, 0)
      /\ routine[k].ins.op = op /\ Label(l).ins.op = "LABEL"
  BY DEF Label, To, Line, Ins
<1>5. (CHOOSE g \in DOMAIN text : text[g] = Label(l)) = q + j
  BY <1>1, <1>2, <1>4
<1>6. Resolved(text, h) = [Ins(op, "AC", "AC", 0, 0) EXCEPT !.a = Address(text)[q + j]]
  BY <1>2, <1>3, <1>4, <1>5, ZenonT(60) DEF Resolved
<1>7. Resolved(text, h) = Ins(op, "AC", "AC", Address(text)[q + j], 0)
  BY <1>6 DEF Ins
<1>8. h \in Places(text)
  BY <1>1, <1>2, <1>3, <1>4 DEF Places
<1>9. Assembled(text) = Placed(text) /\ Placed(text)[Address(text)[h]] = Resolved(text, h)
  BY <1>1, <1>8, AssembledAsWritten
<1> QED  BY <1>1, <1>3, <1>7, <1>9

\* The length of the instructions they are made of.
LEMMA Lengths ==
  /\ Bytes("LABEL") = 0 /\ Bytes("RET") = 1 /\ Bytes("RE") = 1
  /\ \A op \in {"POP1", "PUSH1", "INT0", "MOV", "DIV11", "LBc"} : Bytes(op) = 2
  /\ \A op \in {"ALUI", "DIVI", "PUSH0", "CALL", "JMP0", "JMNE0"} : Bytes(op) = 4
  /\ Bytes("CMP10") = 5
BY DEF Bytes, Alone, OneReg, TwoRegs, Walks, OneImm, OneByte, RegByte, RegImm, Branches

\* getchar() and puti() and puts() at the address b.
GetcharAt(P, b) ==
  /\ P[b] = Ins("POP1", "AC", "AC", 0, 0)
  /\ P[b + 2] = Ins("INT0", "AC", "AC", 0, INT_READ)
  /\ P[b + 4] = Ins("PUSH1", "AC", "AC", 0, 0)
  /\ P[b + 6] = Ins("RET", "AC", "AC", 0, 0)

PutiAt(P, b) ==
  /\ P[b] = Ins("POP1", "DI", "AC", 0, 0)
  /\ P[b + 2] = Ins("POP1", "AC", "AC", 0, 0)
  /\ P[b + 4] = Ins("ALUI", "BS", "AC", 10000000, 0)
  /\ P[b + 8] = Ins("DIV11", "AC", "BS", 0, 0)
  /\ P[b + 10] = Ins("ALUI", "AC", "AC", 48, 1)
  /\ P[b + 14] = Ins("PUSH1", "AC", "AC", 0, 0)
  /\ P[b + 16] = Ins("INT0", "AC", "AC", 0, INT_WRITE)
  /\ P[b + 18] = Ins("MOV", "AC", "DC", 0, 0)
  /\ P[b + 20] = Ins("DIVI", "BS", "AC", 10, 0)
  /\ P[b + 24] = Ins("CMP10", "DC", "AC", 1, 0)
  /\ P[b + 29] = Ins("JMNE0", "AC", "AC", b + 8, 0)
  /\ P[b + 33] = Ins("PUSH0", "AC", "AC", 0, 0)
  /\ P[b + 37] = Ins("PUSH1", "DI", "AC", 0, 0)
  /\ P[b + 39] = Ins("RET", "AC", "AC", 0, 0)

PutsAt(P, b) ==
  /\ P[b] = Ins("POP1", "DI", "AC", 0, 0)
  /\ P[b + 2] = Ins("POP1", "DT", "AC", 0, 0)
  /\ P[b + 4] = Ins("CALL", "AC", "AC", b + 15, 0)
  /\ P[b + 8] = Ins("PUSH0", "AC", "AC", 0, 0)
  /\ P[b + 12] = Ins("PUSH1", "DI", "AC", 0, 0)
  /\ P[b + 14] = Ins("RET", "AC", "AC", 0, 0)
  /\ P[b + 15] = Ins("LBc", "DT", "AC", 0, 0)
  /\ P[b + 17] = Ins("CMP10", "AC", "AC", 0, 0)
  /\ P[b + 22] = Ins("RE", "AC", "AC", 0, 0)
  /\ P[b + 23] = Ins("PUSH1", "AC", "AC", 0, 0)
  /\ P[b + 25] = Ins("INT0", "AC", "AC", 0, INT_WRITE)
  /\ P[b + 27] = Ins("JMP0", "AC", "AC", b + 15, 0)

LEMMA GetcharPlaced ==
  ASSUME NEW p, NEW text, NEW Labels, Loaded(p, text, Labels),
         NEW q, Contains(text, q, Getchar)
  PROVE  GetcharAt(Programs[p], Address(text)[q + 1])
<1> DEFINE adr(k) == Address(text)[q + k]
           b == Address(text)[q + 1]
<1>1. DOMAIN Getchar = 1 .. 5 /\ q \in Nat
      /\ Getchar[1] = Label(<<"getchar">>) /\ Getchar[2] = Pop("AC")
      /\ Getchar[3] = Trap(INT_READ) /\ Getchar[4] = PushReg("AC") /\ Getchar[5] = Plain("RET")
  BY DEF Getchar, Contains
<1>2. ASSUME NEW k \in 1 .. 5, Getchar[k].ins.op # "LABEL" => Getchar[k].to = << >>
      PROVE  /\ adr(k) \in Nat /\ adr(k + 1) = adr(k) + Bytes(Getchar[k].ins.op)
             /\ Getchar[k].ins.op # "LABEL" => Programs[p][adr(k)] = Getchar[k].ins
  <2>1. k \in Nat /\ k \in DOMAIN Getchar /\ (q + k) + 1 = q + (k + 1)
    BY <1>1
  <2> QED
    BY <1>2, <2>1, InPlace
<1>3. Getchar[1].ins.op = "LABEL" /\ \A k \in 2 .. 5 : Getchar[k].to = << >>
  BY <1>1 DEF Label, To, Pop, Trap, PushReg, Plain, Line, Ins
<1>4. /\ Getchar[2].ins = Ins("POP1", "AC", "AC", 0, 0)
      /\ Getchar[3].ins = Ins("INT0", "AC", "AC", 0, INT_READ)
      /\ Getchar[4].ins = Ins("PUSH1", "AC", "AC", 0, 0)
      /\ Getchar[5].ins = Ins("RET", "AC", "AC", 0, 0)
  BY <1>1 DEF Pop, Trap, PushReg, Plain, Line
<1>5. /\ Getchar[2].ins.op = "POP1" /\ Getchar[3].ins.op = "INT0"
      /\ Getchar[4].ins.op = "PUSH1" /\ Getchar[5].ins.op = "RET"
  BY <1>4 DEF Ins
<1> HIDE DEF adr
<1>6. adr(1) = b
  BY DEF adr
<1> HIDE DEF b
<1>7. \A k \in 1 .. 5 : adr(k) \in Nat /\ adr(k + 1) = adr(k) + Bytes(Getchar[k].ins.op)
  BY <1>2, <1>3, SMTT(30)
<1>8. adr(2) = b /\ adr(3) = b + 2 /\ adr(4) = b + 4 /\ adr(5) = b + 6
  <2>1. b \in Nat
    BY <1>6, <1>7
  <2>2. adr(2) = b + 0
    BY <1>3, <1>6, <1>7, Lengths
  <2>3. adr(3) = adr(2) + 2
    BY <1>5, <1>7, Lengths
  <2>4. adr(4) = adr(3) + 2
    BY <1>5, <1>7, Lengths
  <2>5. adr(5) = adr(4) + 2
    BY <1>5, <1>7, Lengths
  <2> QED  BY <2>1, <2>2, <2>3, <2>4, <2>5
<1>9. /\ Programs[p][adr(2)] = Getchar[2].ins /\ Programs[p][adr(3)] = Getchar[3].ins
      /\ Programs[p][adr(4)] = Getchar[4].ins /\ Programs[p][adr(5)] = Getchar[5].ins
  BY <1>2, <1>3, <1>5, SMTT(30)
<1>10. GetcharAt(Programs[p], b)
  BY <1>4, <1>8, <1>9 DEF GetcharAt
<1> QED  BY <1>10 DEF b

LEMMA PutiPlaced ==
  ASSUME NEW p, NEW text, NEW Labels, Loaded(p, text, Labels),
         NEW q, Contains(text, q, Puti)
  PROVE  PutiAt(Programs[p], Address(text)[q + 1])
<1> DEFINE adr(k) == Address(text)[q + k]
           b == Address(text)[q + 1]
           L(k) == Puti[k]
<1>1. /\ DOMAIN Puti = 1 .. 16 /\ q \in Nat
      /\ L(1) = Label(<<"puti">>) /\ L(2) = Pop("DI")
      /\ L(3) = Pop("AC") /\ L(4) = MovImm("BS", 10000000)
      /\ L(5) = Label(<<"puti", "loop">>) /\ L(6) = RR("DIV11", "AC", "BS")
      /\ L(7) = AddImm("AC", 48) /\ L(8) = PushReg("AC")
      /\ L(9) = Trap(INT_WRITE) /\ L(10) = RR("MOV", "AC", "DC")
      /\ L(11) = DivImm("BS", 10) /\ L(12) = CmpImm("DC", 1)
      /\ L(13) = To("JMNE0", <<"puti", "loop">>) /\ L(14) = PushImm(0)
      /\ L(15) = PushReg("DI") /\ L(16) = Plain("RET")
  BY DEF Puti, Contains
<1>2. /\ \A k \in {1, 5} : L(k).ins.op = "LABEL"
      /\ \A k \in (1 .. 16) \ {1, 5, 13} : L(k).to = << >>
  BY <1>1, SMTT(30)
  DEF Label, Pop, MovImm, RR, AddImm, PushReg, Trap, DivImm, CmpImm, To, PushImm, Plain,
      Line, Ins
<1>3. /\ L(2).ins = Ins("POP1", "DI", "AC", 0, 0)
      /\ L(3).ins = Ins("POP1", "AC", "AC", 0, 0)
      /\ L(4).ins = Ins("ALUI", "BS", "AC", 10000000, 0)
      /\ L(6).ins = Ins("DIV11", "AC", "BS", 0, 0)
      /\ L(7).ins = Ins("ALUI", "AC", "AC", 48, 1)
      /\ L(8).ins = Ins("PUSH1", "AC", "AC", 0, 0)
      /\ L(9).ins = Ins("INT0", "AC", "AC", 0, INT_WRITE)
      /\ L(10).ins = Ins("MOV", "AC", "DC", 0, 0)
      /\ L(11).ins = Ins("DIVI", "BS", "AC", 10, 0)
      /\ L(12).ins = Ins("CMP10", "DC", "AC", 1, 0)
      /\ L(13).ins = Ins("JMNE0", "AC", "AC", 0, 0)
      /\ L(14).ins = Ins("PUSH0", "AC", "AC", 0, 0)
      /\ L(15).ins = Ins("PUSH1", "DI", "AC", 0, 0)
      /\ L(16).ins = Ins("RET", "AC", "AC", 0, 0)
  BY <1>1 DEF Label, Pop, MovImm, RR, AddImm, PushReg, Trap, DivImm, CmpImm, To, PushImm, Plain, Line, Ins
<1>4. /\ L(2).ins.op = "POP1" /\ L(3).ins.op = "POP1" /\ L(4).ins.op = "ALUI"
      /\ L(6).ins.op = "DIV11" /\ L(7).ins.op = "ALUI" /\ L(8).ins.op = "PUSH1"
      /\ L(9).ins.op = "INT0" /\ L(10).ins.op = "MOV" /\ L(11).ins.op = "DIVI"
      /\ L(12).ins.op = "CMP10" /\ L(13).ins.op = "JMNE0" /\ L(14).ins.op = "PUSH0"
      /\ L(15).ins.op = "PUSH1" /\ L(16).ins.op = "RET"
  BY <1>3 DEF Ins
<1> HIDE DEF L
<1>5. \A k \in 1 .. 16, h \in 1 .. 17 :
        adr(k) \in Nat /\ (h = k + 1 => adr(h) = adr(k) + Bytes(L(k).ins.op))
  <2> SUFFICES ASSUME NEW k \in 1 .. 16, NEW h \in 1 .. 17
               PROVE  adr(k) \in Nat /\ (h = k + 1 => adr(h) = adr(k) + Bytes(L(k).ins.op))
    OBVIOUS
  <2>1. k \in Nat /\ k \in DOMAIN Puti /\ (q + k) + 1 = q + (k + 1)
    BY <1>1
  <2> QED  BY <2>1, InPlace DEF L
<1>6. \A k \in (1 .. 16) \ {1, 5, 13} : Programs[p][adr(k)] = L(k).ins
  <2> SUFFICES ASSUME NEW k \in (1 .. 16) \ {1, 5, 13}
               PROVE  Programs[p][adr(k)] = L(k).ins
    OBVIOUS
  <2>1. k \in Nat /\ k \in DOMAIN Puti /\ L(k).to = << >>
    BY <1>1, <1>2, SMTT(30)
  <2>2. L(k).ins.op # "LABEL"
    BY <1>4
  <2> QED  BY <2>1, <2>2, InPlace DEF L
<1>7. Programs[p][adr(13)] = Ins("JMNE0", "AC", "AC", adr(5), 0)
  <2> DEFINE l == <<"puti", "loop">>
  <2>1. L(13) = To("JMNE0", l) /\ L(5) = Label(l) /\ l # << >>
    BY <1>1
  <2>2. 13 \in DOMAIN Puti /\ 5 \in DOMAIN Puti /\ 13 \in Nat
    BY <1>1
  <2> HIDE DEF l
  <2> QED  BY <2>1, <2>2, LabelInPlace DEF L
<1> HIDE DEF adr
<1>8. adr(1) = b
  BY DEF adr
<1> HIDE DEF b
<1>9. /\ b \in Nat /\ adr(2) = b /\ adr(3) = b + 2 /\ adr(4) = b + 4
      /\ adr(5) = b + 8 /\ adr(6) = b + 8 /\ adr(7) = b + 10 /\ adr(8) = b + 14
      /\ adr(9) = b + 16 /\ adr(10) = b + 18 /\ adr(11) = b + 20 /\ adr(12) = b + 24
      /\ adr(13) = b + 29 /\ adr(14) = b + 33 /\ adr(15) = b + 37 /\ adr(16) = b + 39
  <2>1. b \in Nat
    BY <1>5, <1>8
  <2>2. /\ Bytes(L(1).ins.op) = 0 /\ Bytes(L(2).ins.op) = 2 /\ Bytes(L(3).ins.op) = 2
        /\ Bytes(L(4).ins.op) = 4 /\ Bytes(L(5).ins.op) = 0 /\ Bytes(L(6).ins.op) = 2
        /\ Bytes(L(7).ins.op) = 4 /\ Bytes(L(8).ins.op) = 2 /\ Bytes(L(9).ins.op) = 2
        /\ Bytes(L(10).ins.op) = 2 /\ Bytes(L(11).ins.op) = 4 /\ Bytes(L(12).ins.op) = 5
        /\ Bytes(L(13).ins.op) = 4 /\ Bytes(L(14).ins.op) = 4 /\ Bytes(L(15).ins.op) = 2
    BY <1>2, <1>4, Lengths, SMTT(30)
  <2>3. adr(2) = adr(1) + 0 /\ adr(3) = adr(2) + 2 /\ adr(4) = adr(3) + 2
    BY <1>5, <2>2
  <2>4. adr(5) = adr(4) + 4 /\ adr(6) = adr(5) + 0 /\ adr(7) = adr(6) + 2
    BY <1>5, <2>2
  <2>5. adr(8) = adr(7) + 4 /\ adr(9) = adr(8) + 2 /\ adr(10) = adr(9) + 2
    BY <1>5, <2>2
  <2>6. adr(11) = adr(10) + 2 /\ adr(12) = adr(11) + 4 /\ adr(13) = adr(12) + 5
    BY <1>5, <2>2
  <2>7. adr(14) = adr(13) + 4 /\ adr(15) = adr(14) + 4 /\ adr(16) = adr(15) + 2
    BY <1>5, <2>2
  <2> QED  BY <1>8, <2>1, <2>3, <2>4, <2>5, <2>6, <2>7
<1>10. PutiAt(Programs[p], b)
  <2>1. /\ Programs[p][b] = L(2).ins /\ Programs[p][b + 2] = L(3).ins
        /\ Programs[p][b + 4] = L(4).ins /\ Programs[p][b + 8] = L(6).ins
        /\ Programs[p][b + 10] = L(7).ins /\ Programs[p][b + 14] = L(8).ins
        /\ Programs[p][b + 16] = L(9).ins /\ Programs[p][b + 18] = L(10).ins
        /\ Programs[p][b + 20] = L(11).ins /\ Programs[p][b + 24] = L(12).ins
        /\ Programs[p][b + 33] = L(14).ins /\ Programs[p][b + 37] = L(15).ins
        /\ Programs[p][b + 39] = L(16).ins
    BY <1>6, <1>8, <1>9
  <2>2. /\ Programs[p][b + 29] = Ins("JMNE0", "AC", "AC", b + 8, 0)
    BY <1>7, <1>9
  <2> QED  BY <1>3, <2>1, <2>2 DEF PutiAt
<1> QED  BY <1>10 DEF b

LEMMA PutsPlaced ==
  ASSUME NEW p, NEW text, NEW Labels, Loaded(p, text, Labels),
         NEW q, Contains(text, q, Puts)
  PROVE  PutsAt(Programs[p], Address(text)[q + 1]) /\ Address(text)[q + 1] + 8 \in Word
<1> DEFINE adr(k) == Address(text)[q + k]
           b == Address(text)[q + 1]
           L(k) == Puts[k]
<1>1. /\ DOMAIN Puts = 1 .. 14 /\ q \in Nat
      /\ L(1) = Label(<<"puts">>) /\ L(2) = Pop("DI")
      /\ L(3) = Pop("DT") /\ L(4) = To("CALL", <<"puts", "native">>)
      /\ L(5) = PushImm(0) /\ L(6) = PushReg("DI")
      /\ L(7) = Plain("RET") /\ L(8) = Label(<<"puts", "native">>)
      /\ L(9) = RR("LBc", "DT", "AC") /\ L(10) = CmpImm("AC", 0)
      /\ L(11) = Plain("RE") /\ L(12) = PushReg("AC")
      /\ L(13) = Trap(INT_WRITE) /\ L(14) = To("JMP0", <<"puts", "native">>)
  BY DEF Puts, Contains
<1>2. /\ \A k \in {1, 8} : L(k).ins.op = "LABEL"
      /\ \A k \in (1 .. 14) \ {1, 8, 4, 14} : L(k).to = << >>
  BY <1>1 DEF Label, Pop, To, PushImm, PushReg, Plain, RR, CmpImm, Trap, Line, Ins
<1>3. /\ L(2).ins = Ins("POP1", "DI", "AC", 0, 0)
      /\ L(3).ins = Ins("POP1", "DT", "AC", 0, 0)
      /\ L(4).ins = Ins("CALL", "AC", "AC", 0, 0)
      /\ L(5).ins = Ins("PUSH0", "AC", "AC", 0, 0)
      /\ L(6).ins = Ins("PUSH1", "DI", "AC", 0, 0)
      /\ L(7).ins = Ins("RET", "AC", "AC", 0, 0)
      /\ L(9).ins = Ins("LBc", "DT", "AC", 0, 0)
      /\ L(10).ins = Ins("CMP10", "AC", "AC", 0, 0)
      /\ L(11).ins = Ins("RE", "AC", "AC", 0, 0)
      /\ L(12).ins = Ins("PUSH1", "AC", "AC", 0, 0)
      /\ L(13).ins = Ins("INT0", "AC", "AC", 0, INT_WRITE)
      /\ L(14).ins = Ins("JMP0", "AC", "AC", 0, 0)
  BY <1>1 DEF Label, Pop, To, PushImm, PushReg, Plain, RR, CmpImm, Trap, Line, Ins
<1>4. /\ L(2).ins.op = "POP1" /\ L(3).ins.op = "POP1" /\ L(4).ins.op = "CALL"
      /\ L(5).ins.op = "PUSH0" /\ L(6).ins.op = "PUSH1" /\ L(7).ins.op = "RET"
      /\ L(9).ins.op = "LBc" /\ L(10).ins.op = "CMP10" /\ L(11).ins.op = "RE"
      /\ L(12).ins.op = "PUSH1" /\ L(13).ins.op = "INT0" /\ L(14).ins.op = "JMP0"
  BY <1>3 DEF Ins
<1> HIDE DEF L
<1>5. \A k \in 1 .. 14, h \in 1 .. 15 :
        adr(k) \in Nat /\ (h = k + 1 => adr(h) = adr(k) + Bytes(L(k).ins.op))
  <2> SUFFICES ASSUME NEW k \in 1 .. 14, NEW h \in 1 .. 15
               PROVE  adr(k) \in Nat /\ (h = k + 1 => adr(h) = adr(k) + Bytes(L(k).ins.op))
    OBVIOUS
  <2>1. k \in Nat /\ k \in DOMAIN Puts /\ (q + k) + 1 = q + (k + 1)
    BY <1>1
  <2> QED  BY <2>1, InPlace DEF L
<1>6. \A k \in (1 .. 14) \ {1, 8, 4, 14} : Programs[p][adr(k)] = L(k).ins
  <2> SUFFICES ASSUME NEW k \in (1 .. 14) \ {1, 8, 4, 14}
               PROVE  Programs[p][adr(k)] = L(k).ins
    OBVIOUS
  <2>1. k \in Nat /\ k \in DOMAIN Puts /\ L(k).to = << >>
    BY <1>1, <1>2
  <2>2. L(k).ins.op # "LABEL"
    BY <1>4
  <2> QED  BY <2>1, <2>2, InPlace DEF L
<1>7. Programs[p][adr(4)] = Ins("CALL", "AC", "AC", adr(8), 0)
  <2> DEFINE l == <<"puts", "native">>
  <2>1. L(4) = To("CALL", l) /\ L(8) = Label(l) /\ l # << >>
    BY <1>1
  <2>2. 4 \in DOMAIN Puts /\ 8 \in DOMAIN Puts /\ 4 \in Nat
    BY <1>1
  <2> HIDE DEF l
  <2> QED  BY <2>1, <2>2, LabelInPlace DEF L
<1>8. Programs[p][adr(14)] = Ins("JMP0", "AC", "AC", adr(8), 0)
  <2> DEFINE l == <<"puts", "native">>
  <2>1. L(14) = To("JMP0", l) /\ L(8) = Label(l) /\ l # << >>
    BY <1>1
  <2>2. 14 \in DOMAIN Puts /\ 8 \in DOMAIN Puts /\ 14 \in Nat
    BY <1>1
  <2> HIDE DEF l
  <2> QED  BY <2>1, <2>2, LabelInPlace DEF L
<1>9. adr(5) \in Word
  <2>1. 5 \in DOMAIN Puts /\ 5 \in Nat
    BY <1>1
  <2> QED  BY <2>1, InPlace
<1> HIDE DEF adr
<1>10. adr(1) = b
  BY DEF adr
<1> HIDE DEF b
<1>11. /\ b \in Nat /\ adr(2) = b /\ adr(3) = b + 2 /\ adr(4) = b + 4
      /\ adr(5) = b + 8 /\ adr(6) = b + 12 /\ adr(7) = b + 14 /\ adr(8) = b + 15
      /\ adr(9) = b + 15 /\ adr(10) = b + 17 /\ adr(11) = b + 22 /\ adr(12) = b + 23
      /\ adr(13) = b + 25 /\ adr(14) = b + 27
  <2>1. b \in Nat
    BY <1>5, <1>10
  <2>2. /\ Bytes(L(1).ins.op) = 0 /\ Bytes(L(2).ins.op) = 2 /\ Bytes(L(3).ins.op) = 2
        /\ Bytes(L(4).ins.op) = 4 /\ Bytes(L(5).ins.op) = 4 /\ Bytes(L(6).ins.op) = 2
        /\ Bytes(L(7).ins.op) = 1 /\ Bytes(L(8).ins.op) = 0 /\ Bytes(L(9).ins.op) = 2
        /\ Bytes(L(10).ins.op) = 5 /\ Bytes(L(11).ins.op) = 1 /\ Bytes(L(12).ins.op) = 2
        /\ Bytes(L(13).ins.op) = 2
    BY <1>2, <1>4, Lengths, SMTT(30)
  <2>3. adr(2) = adr(1) + 0 /\ adr(3) = adr(2) + 2 /\ adr(4) = adr(3) + 2
    BY <1>5, <2>2
  <2>4. adr(5) = adr(4) + 4 /\ adr(6) = adr(5) + 4 /\ adr(7) = adr(6) + 2
    BY <1>5, <2>2
  <2>5. adr(8) = adr(7) + 1 /\ adr(9) = adr(8) + 0 /\ adr(10) = adr(9) + 2
    BY <1>5, <2>2
  <2>6. adr(11) = adr(10) + 5 /\ adr(12) = adr(11) + 1 /\ adr(13) = adr(12) + 2
    BY <1>5, <2>2
  <2>7. adr(14) = adr(13) + 2
    BY <1>5, <2>2
  <2> QED  BY <1>10, <2>1, <2>3, <2>4, <2>5, <2>6, <2>7
<1>12. PutsAt(Programs[p], b)
  <2>1. /\ Programs[p][b] = L(2).ins /\ Programs[p][b + 2] = L(3).ins
        /\ Programs[p][b + 8] = L(5).ins /\ Programs[p][b + 12] = L(6).ins
        /\ Programs[p][b + 14] = L(7).ins /\ Programs[p][b + 15] = L(9).ins
        /\ Programs[p][b + 17] = L(10).ins /\ Programs[p][b + 22] = L(11).ins
        /\ Programs[p][b + 23] = L(12).ins /\ Programs[p][b + 25] = L(13).ins
    BY <1>6, <1>10, <1>11
  <2>2. /\ Programs[p][b + 4] = Ins("CALL", "AC", "AC", b + 15, 0)
        /\ Programs[p][b + 27] = Ins("JMP0", "AC", "AC", b + 15, 0)
    BY <1>7, <1>8, <1>11
  <2> QED  BY <1>3, <2>1, <2>2 DEF PutsAt
<1>13. b + 8 \in Word
  BY <1>9, <1>11
<1> QED  BY <1>12, <1>13 DEF b
-----------------------------------------------------------------------------
\* Control has come to the address b by a call: the stack holds the return
\* address.  r0, m0, o and i are the state it came with.
Called(p, b, ret, r0, m0, o, i) ==
  /\ TypeOK /\ name = p /\ run = "running" /\ Bit(PS, FlagI)
  /\ PC = b /\ reg = r0 /\ mem = m0 /\ Read24(m0, r0["SP"] + 1) = ret
  /\ out = o /\ inp = i /\ o \in Seq(Byte) /\ i \in Seq(Word)

LEMMA FrameOfCall ==
  ASSUME NEW p, NEW b, NEW ret, NEW r0, NEW m0, NEW o, NEW i,
         Called(p, b, ret, r0, m0, o, i), NEW area, NEW Rs
  PROVE  Frame(p, area, r0, m0, Rs)
BY DEF Called, Frame

LEMMA FrameStays ==
  ASSUME NEW p, NEW area, NEW r0, NEW m0, NEW Rs, Frame(p, area, r0, m0, Rs), UNCHANGED pvars
  PROVE  Frame(p, area, r0, m0, Rs)'
<1>1. /\ reg' = reg /\ PS' = PS /\ PC' = PC /\ mem' = mem /\ rom' = rom /\ run' = run
      /\ lc_errno' = lc_errno /\ name' = name /\ out' = out /\ inp' = inp
  BY DEF pvars, vars
<1>2. TypeOK /\ TypeOK'
  BY <1>1 DEF Frame, TypeOK
<1> QED  BY <1>1, <1>2 DEF Frame

\* A word that a push does not touch.
LEMMA WordStays ==
  ASSUME NEW m, NEW n, NEW a \in Nat, Has(a, 3), NEW t \in Nat, a > t \/ a + 3 <= t - 2,
         \A c \in Cells : c \notin t - 2 .. t => n[c] = m[c]
  PROVE  Read24(n, a) = Read24(m, a)
<1>1. a \in Cells /\ a + 1 \in Cells /\ a + 2 \in Cells
  BY DEF Has
<1>2. a \notin t - 2 .. t /\ a + 1 \notin t - 2 .. t /\ a + 2 \notin t - 2 .. t
  OBVIOUS
<1> QED  BY <1>1, <1>2 DEF Read24

(* getchar() takes one character from the terminal and leaves it on the    *)
(* stack in the place of the return address, to which it goes; of the      *)
(* registers it changes AC, and of memory the word below the stack.        *)
THEOREM GetcharContract ==
  ASSUME NEW p, NEW text, NEW Labels, Loaded(p, text, Labels),
         NEW q, Contains(text, q, Getchar), NEW b, b = Address(text)[q + 1],
         NEW ret, ret \notin b .. b + 6,
         NEW s \in Nat, s >= 3, s + 3 < W, Has(s - 2, 6),
         NEW r0, r0["SP"] = s, NEW m0, NEW o, NEW i
  PROVE  Called(p, b, ret, r0, m0, o, i) /\ [][PC # ret /\ Turn]_pvars =>
           [](/\ Frame(p, s - 2 .. s + 3, r0, m0, {"AC", "SP"})
              /\ PC \in (b .. b + 6) \cup {ret}
              /\ PC = ret => /\ reg["SP"] = s /\ out = o
                             /\ \E z \in Byte \ {13} : inp = Append(i, z) /\ Read24(mem, s + 1) = z)
<1> DEFINE F  == Frame(p, s - 2 .. s + 3, r0, m0, {"AC", "SP"})
           P  == Programs[p]
           Got == \E z \in Byte \ {13} : inp = Append(i, z) /\ Read24(mem, s + 1) = z
           S0 == PC = b /\ reg["SP"] = s /\ Read24(mem, s + 1) = ret /\ out = o /\ inp = i
           S2 == PC = b + 2 /\ reg["SP"] = s + 3 /\ reg["AC"] = ret /\ out = o /\ inp = i
           S4 == PC = b + 4 /\ reg["SP"] = s /\ reg["AC"] = ret /\ out = o /\ Got
           S6 == PC = b + 6 /\ reg["SP"] = s - 3 /\ Read24(mem, s - 2) = ret /\ out = o /\ Got
           Done == PC = ret /\ reg["SP"] = s /\ out = o /\ Got
           Inv == F /\ (S0 \/ S2 \/ S4 \/ S6 \/ Done)
<1>1. p \in DOMAIN Programs /\ b \in Nat /\ GetcharAt(P, b)
  <2>1. 1 \in DOMAIN Getchar
    BY DEF Getchar
  <2>2. p \in DOMAIN Programs
    BY DEF Loaded
  <2>3. Address(text)[q + 1] \in Nat
    BY <2>1, InPlace
  <2> QED  BY <2>2, <2>3, GetcharPlaced
<1>2. /\ P[b] = Ins("POP1", "AC", "AC", 0, 0)
      /\ P[b + 2] = Ins("INT0", "AC", "AC", 0, INT_READ)
      /\ P[b + 4] = Ins("PUSH1", "AC", "AC", 0, 0)
      /\ P[b + 6] = Ins("RET", "AC", "AC", 0, 0)
  BY <1>1 DEF GetcharAt
<1> HIDE DEF P, F, S0, S2, S4, S6, Done, Got
<1>3. "AC" \in Reg \cap {"AC", "SP"} /\ "AC" # "SP"
  BY DEF Reg
<1>4. ASSUME F, S0, Turn PROVE F' /\ S2'
  <2>1. P[PC] = Ins("POP1", "AC", "AC", 0, 0)
    BY <1>2, <1>4 DEF S0
  <2>2. /\ F' /\ PC' = PC + 2 /\ mem' = mem /\ out' = out /\ inp' = inp
        /\ reg'["SP"] = s + 3 /\ reg'["AC"] = Read24(mem, s + 1)
    BY <1>1, <1>3, <1>4, <2>1, TurnPop, SMTT(30) DEF F, P, S0
  <2> QED  BY <1>1, <1>4, <2>2 DEF S0, S2
<1>5. ASSUME F, S2, Turn PROVE F' /\ S4'
  <2>1. P[PC] = Ins("INT0", "AC", "AC", 0, INT_READ)
    BY <1>2, <1>5 DEF S2
  <2>2. PICK t \in Nat : t = s + 3
    OBVIOUS
  <2>3. t >= 3 /\ t - 2 = s + 1 /\ t - 3 = s /\ t - 2 .. t \subseteq s - 2 .. s + 3
    BY <2>2
  <2>4. /\ F' /\ PC' = PC + 2 /\ out' = out
        /\ Read24(mem', t - 2) \in Byte \ {13} /\ inp' = Append(inp, Read24(mem', t - 2))
        /\ reg'["SP"] = t - 3 /\ \A x \in Reg \ {"SP"} : reg'[x] = reg[x]
    BY <1>1, <1>5, <2>1, <2>2, <2>3, TurnRead, SMTT(30) DEF F, P, S2
  <2>5. reg'["AC"] = reg["AC"]
    BY <1>3, <2>4
  <2>6. Got'
    BY <1>5, <2>3, <2>4 DEF Got, S2
  <2> QED  BY <1>1, <1>5, <2>3, <2>4, <2>5, <2>6, SMTT(30) DEF S2, S4
<1>6. ASSUME F, S4, Turn PROVE F' /\ S6'
  <2>1. P[PC] = Ins("PUSH1", "AC", "AC", 0, 0)
    BY <1>2, <1>6 DEF S4
  <2>2. PICK j : j = Ins("PUSH1", "AC", "AC", 0, 0)
    OBVIOUS
  <2>3. j.op = "PUSH1" /\ j.r = "AC" /\ PushLen(j) = 2
    BY <2>2 DEF Ins, PushLen
  <2>4. s - 2 .. s \subseteq s - 2 .. s + 3
    OBVIOUS
  <2>5. /\ F' /\ PC' = PC + PushLen(j) /\ out' = out /\ inp' = inp
        /\ reg'["SP"] = s - 3 /\ Read24(mem', s - 2) = reg["AC"]
        /\ \A c \in Cells : c \notin s - 2 .. s => mem'[c] = mem[c]
    BY <1>1, <1>6, <2>1, <2>2, <2>3, <2>4, TurnPush, SMTT(30) DEF F, P, S4
  <2>6. Read24(mem', s + 1) = Read24(mem, s + 1)
    <3>1. s + 1 \in Nat /\ Has(s + 1, 3) /\ s + 1 > s
      BY DEF Has
    <3> QED  BY <2>5, <3>1, WordStays
  <2>7. Got'
    BY <1>6, <2>5, <2>6 DEF Got, S4
  <2> QED  BY <1>1, <1>6, <2>3, <2>5, <2>7 DEF S4, S6
<1>7. ASSUME F, S6, Turn PROVE F' /\ Done'
  <2>1. P[PC] = Ins("RET", "AC", "AC", 0, 0)
    BY <1>2, <1>7 DEF S6
  <2>2. PICK t : t = s - 3
    OBVIOUS
  <2>3. t \in Nat /\ t + 3 = s /\ t + 1 = s - 2 /\ t + 3 < W
    BY <2>2, Widths
  <2>4. /\ F' /\ mem' = mem /\ out' = out /\ inp' = inp
        /\ PC' = Read24(mem, t + 1) /\ reg'["SP"] = t + 3
    BY <1>1, <1>7, <2>1, <2>2, <2>3, TurnReturn, SMTT(30) DEF F, P, S6
  <2> QED  BY <1>7, <2>3, <2>4 DEF S6, Done, Got
<1>8. Inv /\ PC # ret /\ Turn => Inv'
  BY <1>4, <1>5, <1>6, <1>7 DEF Done
<1>9. Inv /\ UNCHANGED pvars => Inv'
  <2> SUFFICES ASSUME Inv, UNCHANGED pvars PROVE Inv'
    OBVIOUS
  <2>1. PC' = PC /\ reg' = reg /\ mem' = mem /\ out' = out /\ inp' = inp
    BY DEF pvars, vars
  <2>2. F'
    BY FrameStays DEF F
  <2> QED  BY <2>1, <2>2 DEF S0, S2, S4, S6, Done, Got
<1>10. Called(p, b, ret, r0, m0, o, i) => Inv
  BY FrameOfCall DEF Called, F, S0
<1>11. Inv => /\ Frame(p, s - 2 .. s + 3, r0, m0, {"AC", "SP"})
              /\ PC \in (b .. b + 6) \cup {ret}
              /\ PC = ret => /\ reg["SP"] = s /\ out = o
                             /\ \E z \in Byte \ {13} : inp = Append(i, z) /\ Read24(mem, s + 1) = z
  <2> SUFFICES ASSUME Inv
               PROVE  F /\ PC \in (b .. b + 6) \cup {ret} /\ (PC = ret => Done)
    BY DEF F, Done, Got
  <2>1. S0 \/ S2 \/ S4 \/ S6 => PC \in b .. b + 6
    BY <1>1 DEF S0, S2, S4, S6
  <2>2. Done => PC = ret
    BY DEF Done
  <2> QED  BY <2>1, <2>2
<1> HIDE DEF Inv
<1> QED  BY <1>8, <1>9, <1>10, <1>11, PTL
-----------------------------------------------------------------------------
\* x is the output o with the first n members of d behind it.
Adds(x, o, n, d) ==
  /\ x \in Seq(Byte) /\ o \in Seq(Byte) /\ Len(x) = Len(o) + n
  /\ \A k \in 1 .. Len(o) : x[k] = o[k]
  /\ \A k \in 1 .. n : x[Len(o) + k] = d[k]

LEMMA AfterNone == ASSUME NEW o \in Seq(Byte), NEW d PROVE Adds(o, o, 0, d)
BY DEF Adds

LEMMA AfterOne ==
  ASSUME NEW x, NEW o, NEW n \in Nat, NEW d, Adds(x, o, n, d), NEW h, h = n + 1, d[h] \in Byte
  PROVE  Adds(Append(x, d[h]), o, h, d)
<1> DEFINE c == d[h]
           y == Append(x, c)
<1>1. c \in Byte /\ x \in Seq(Byte) /\ o \in Seq(Byte) /\ Len(x) = Len(o) + n
      /\ (\A k \in 1 .. Len(o) : x[k] = o[k]) /\ (\A k \in 1 .. n : x[Len(o) + k] = d[k])
  BY DEF Adds
<1> HIDE DEF c
<1>2. /\ y \in Seq(Byte) /\ Len(y) = Len(x) + 1 /\ y[Len(x) + 1] = c
      /\ \A k \in 1 .. Len(x) : y[k] = x[k]
  BY <1>1
<1> HIDE DEF y
<1>3. Len(o) \in Nat
  BY <1>1
<1>4. \A k \in 1 .. Len(o) : y[k] = o[k]
  BY <1>1, <1>2, <1>3
<1>5. ASSUME NEW k \in 1 .. h PROVE y[Len(o) + k] = d[k]
  <2>1. CASE k = h
    <3>1. Len(o) + k = Len(x) + 1
      BY <1>1, <1>3, <2>1
    <3> QED  BY <1>2, <2>1, <3>1 DEF c
  <2>2. CASE k # h
    <3>1. PICK j : j = Len(o) + k
      OBVIOUS
    <3>2. k \in 1 .. n /\ j \in 1 .. Len(x)
      BY <1>1, <1>3, <2>2, <3>1
    <3>3. x[j] = d[k] /\ y[j] = x[j]
      BY <1>1, <1>2, <3>1, <3>2
    <3> QED  BY <3>1, <3>3
  <2> QED  BY <2>1, <2>2
<1>6. Len(y) = Len(o) + h
  BY <1>1, <1>2, <1>3
<1> QED  BY <1>1, <1>2, <1>4, <1>5, <1>6 DEF Adds, y, c

LEMMA AfterAll ==
  ASSUME NEW x, NEW o, NEW n \in Nat, NEW d \in Seq(Byte), Len(d) = n, Adds(x, o, n, d)
  PROVE  x = o \o d
<1>1. x \in Seq(Byte) /\ o \in Seq(Byte) /\ Len(x) = Len(o) + n /\ Len(o) \in Nat
      /\ (\A k \in 1 .. Len(o) : x[k] = o[k]) /\ (\A k \in 1 .. n : x[Len(o) + k] = d[k])
  BY DEF Adds
<1>2. o \o d \in Seq(Byte) /\ Len(o \o d) = Len(o) + n
      /\ (\A k \in 1 .. Len(o) : (o \o d)[k] = o[k]) /\ (\A k \in 1 .. n : (o \o d)[Len(o) + k] = d[k])
  BY <1>1, Behind
<1> HIDE DEF Adds
<1>3. ASSUME NEW j \in 1 .. Len(x) PROVE x[j] = (o \o d)[j]
  <2>1. CASE j <= Len(o)
    BY <1>1, <1>2, <2>1
  <2>2. CASE j > Len(o)
    <3>1. PICK k : k = j - Len(o)
      OBVIOUS
    <3>2. k \in 1 .. n /\ j = Len(o) + k
      BY <1>1, <2>2, <3>1
    <3> QED  BY <1>1, <1>2, <3>2
  <2> QED  BY <1>1, <2>1, <2>2
<1>4. PICK y : y = o \o d
  OBVIOUS
<1> QED  BY <1>1, <1>2, <1>3, <1>4, SMTT(30)

\* The divisors of puti().
Ten == << 10000000, 1000000, 100000, 10000, 1000, 100, 10, 1 >>

LEMMA Divisors ==
  /\ Ten[1] = 10000000 /\ Ten[2] = 1000000 /\ Ten[3] = 100000 /\ Ten[4] = 10000
  /\ Ten[5] = 1000 /\ Ten[6] = 100 /\ Ten[7] = 10 /\ Ten[8] = 1
BY DEF Ten

LEMMA DivisorIs ==
  ASSUME NEW h \in 1 .. 8
  PROVE  Ten[h] \in Nat /\ Ten[h] # 0 /\ Ten[h] < W /\ (Ten[h] % 10 = 1 <=> h = 8)
<1>1. h \in {1, 2, 3, 4, 5, 6, 7, 8}
  OBVIOUS
<1> QED  BY <1>1, Divisors, Widths

LEMMA DivisorNext ==
  ASSUME NEW h \in 1 .. 8, NEW j \in 1 .. 8, j = h + 1
  PROVE  Ten[h] \div 10 = Ten[j] /\ Ten[h] = 10 * Ten[j]
<1>1. \/ h = 1 /\ j = 2
      \/ h = 2 /\ j = 3
      \/ h = 3 /\ j = 4
      \/ h = 4 /\ j = 5
      \/ h = 5 /\ j = 6
      \/ h = 6 /\ j = 7
      \/ h = 7 /\ j = 8
  OBVIOUS
<1> QED  BY <1>1, Divisors

\* The digit that a division takes from the front of a number.
LEMMA DigitIs ==
  ASSUME NEW v \in Word, NEW h \in 1 .. 8, NEW x, x = v % (10 * Ten[h])
  PROVE  /\ x \div Ten[h] \in 0 .. 9 /\ x % Ten[h] = v % Ten[h]
         /\ Decimal(v)[h] = 48 + (x \div Ten[h])
<1> DEFINE G(T) == /\ (v % (10 * T)) \div T \in 0 .. 9 /\ (v % (10 * T)) % T = v % T
                   /\ (v % (10 * T)) \div T = (v \div T) % 10
           P(e) == 10 ^ e
<1>1. v \in Nat /\ v < 16777216
  BY Widths
<1>2. G(10000000) /\ G(1000000)
  BY <1>1
<1>3. G(100000) /\ G(10000)
  BY <1>1
<1>4. G(1000) /\ G(100)
  BY <1>1
<1>5. G(10) /\ G(1)
  BY <1>1
<1>6. /\ P(7) = 10000000 /\ P(6) = 1000000 /\ P(5) = 100000 /\ P(4) = 10000
      /\ P(3) = 1000 /\ P(2) = 100 /\ P(1) = 10 /\ P(0) = 1
  OBVIOUS
<1> HIDE DEF G, P
<1>7. G(Ten[h]) /\ Ten[h] = P(8 - h)
  <2>1. PICK e \in 0 .. 7 : e = 8 - h
    OBVIOUS
  <2>2. \/ h = 1 /\ e = 7 /\ Ten[h] = 10000000
        \/ h = 2 /\ e = 6 /\ Ten[h] = 1000000
        \/ h = 3 /\ e = 5 /\ Ten[h] = 100000
        \/ h = 4 /\ e = 4 /\ Ten[h] = 10000
        \/ h = 5 /\ e = 3 /\ Ten[h] = 1000
        \/ h = 6 /\ e = 2 /\ Ten[h] = 100
        \/ h = 7 /\ e = 1 /\ Ten[h] = 10
        \/ h = 8 /\ e = 0 /\ Ten[h] = 1
    BY <2>1, Divisors
  <2>3. Ten[h] = P(e)
    BY <1>6, <2>2
  <2>4. G(Ten[h])
    BY <1>2, <1>3, <1>4, <1>5, <2>2
  <2> QED  BY <2>1, <2>3, <2>4
<1>8. Decimal(v)[h] = 48 + ((v \div Ten[h]) % 10)
  BY <1>7 DEF Decimal, P
<1> QED  BY <1>7, <1>8 DEF G
-----------------------------------------------------------------------------
LEMMA DecimalIs ==
  ASSUME NEW v \in Word
  PROVE  /\ Decimal(v) \in Seq(Byte) /\ Len(Decimal(v)) = 8
         /\ \A h \in 1 .. 8 : Decimal(v)[h] \in 48 .. 57
<1>1. ASSUME NEW h \in 1 .. 8 PROVE Decimal(v)[h] \in 48 .. 57 /\ Decimal(v)[h] \in Byte
  <2>1. PICK x : x = v % (10 * Ten[h])
    OBVIOUS
  <2>2. x \div Ten[h] \in 0 .. 9 /\ Decimal(v)[h] = 48 + (x \div Ten[h])
    BY <2>1, DigitIs
  <2> QED  BY <2>2, Widths
<1>2. Decimal(v) = [k \in 1 .. 8 |-> Decimal(v)[k]]
  BY DEF Decimal
<1>3. Decimal(v) \in [1 .. 8 -> Byte]
  BY <1>1, <1>2
<1>4. Decimal(v) \in Seq(Byte)
  BY <1>3, SeqDef
<1>5. Len(Decimal(v)) = 8
  <2>1. PICK n \in Nat : n = Len(Decimal(v)) /\ 1 .. n = 1 .. 8
    BY <1>3, <1>4, LenProperties
  <2>2. 8 \in 1 .. n /\ n \in 1 .. n
    <3>1. 8 \in 1 .. n
      BY <2>1
    <3> QED  BY <3>1
  <2>3. n \in 1 .. 8
    BY <2>1, <2>2
  <2> QED  BY <2>1, <2>2, <2>3
<1> QED  BY <1>1, <1>4, <1>5

(* puti() writes the eight decimal digits of the word it was given, takes  *)
(* the word off the stack, and leaves 0 there.                             *)
THEOREM PutiContract ==
  ASSUME NEW p, NEW text, NEW Labels, Loaded(p, text, Labels),
         NEW q, Contains(text, q, Puti), NEW b, b = Address(text)[q + 1],
         NEW ret, ret \notin b .. b + 39,
         NEW s \in Nat, s + 6 < W, Has(s + 1, 6),
         NEW r0, r0["SP"] = s, NEW m0, NEW v \in Word, Read24(m0, s + 4) = v,
         NEW o, NEW i
  PROVE  Called(p, b, ret, r0, m0, o, i) /\ [][PC # ret /\ Turn]_pvars =>
           [](/\ Frame(p, s + 1 .. s + 6, r0, m0, {"AC", "BS", "DC", "DI", "SP"})
              /\ PC \in (b .. b + 39) \cup {ret}
              /\ PC = ret => /\ out = o \o Decimal(v) /\ inp = i
                             /\ reg["SP"] = s + 3 /\ Read24(mem, s + 4) = 0)
<1> DEFINE Rs == {"AC", "BS", "DC", "DI", "SP"}
           A  == s + 1 .. s + 6
           F  == Frame(p, A, r0, m0, Rs)
           P  == Programs[p]
           D  == Decimal(v)
           On(n, sp) == PC = b + n /\ reg["SP"] = sp /\ inp = i
           Told(n) == Adds(out, o, n, D)
           S0  == PC = b /\ reg["SP"] = s /\ inp = i /\ Read24(mem, s + 1) = ret /\ Read24(mem, s + 4) = v /\ Told(0)
           S2  == On(2, s + 3) /\ reg["DI"] = ret /\ Read24(mem, s + 4) = v /\ Told(0)
           S4  == On(4, s + 6) /\ reg["DI"] = ret /\ reg["AC"] = v /\ Told(0)
           Loop(n, h, sp) == On(n, sp) /\ reg["DI"] = ret /\ reg["BS"] = Ten[h]
           S8(h)  == Loop(8, h, s + 6) /\ reg["AC"] = v % (10 * Ten[h]) /\ Told(h - 1)
           S10(h) == Loop(10, h, s + 6) /\ reg["DC"] = v % Ten[h] /\ Told(h - 1)
                     /\ reg["AC"] + 48 = D[h]
           S14(h) == Loop(14, h, s + 6) /\ reg["DC"] = v % Ten[h] /\ Told(h - 1) /\ reg["AC"] = D[h]
           S16(h) == Loop(16, h, s + 3) /\ reg["DC"] = v % Ten[h] /\ Told(h - 1)
                     /\ Read24(mem, s + 4) = D[h]
           S18(h) == Loop(18, h, s + 6) /\ reg["DC"] = v % Ten[h] /\ Told(h)
           S20(h) == Loop(20, h, s + 6) /\ reg["AC"] = v % Ten[h] /\ Told(h)
           Turned(n, h) == On(n, s + 6) /\ reg["DI"] = ret /\ reg["BS"] = Ten[h] \div 10
                           /\ reg["AC"] = v % Ten[h] /\ Told(h)
           S24(h) == Turned(24, h) /\ reg["DC"] = Ten[h] % 10
           S29(h) == Turned(29, h) /\ (Bit(PS, FlagZ) <=> h = 8)
           S33 == On(33, s + 6) /\ reg["DI"] = ret /\ Told(8)
           S37 == On(37, s + 3) /\ reg["DI"] = ret /\ Told(8) /\ Read24(mem, s + 4) = 0
           S39 == On(39, s) /\ Read24(mem, s + 1) = ret /\ Told(8) /\ Read24(mem, s + 4) = 0
           Done == PC = ret /\ reg["SP"] = s + 3 /\ inp = i /\ Told(8) /\ Read24(mem, s + 4) = 0
           Digit8(h) == S8(h) \/ S10(h) \/ S14(h) \/ S16(h) \/ S18(h) \/ S20(h) \/ S24(h) \/ S29(h)
           Inv == F /\ (S0 \/ S2 \/ S4 \/ (\E h \in 1 .. 8 : Digit8(h)) \/ S33 \/ S37 \/ S39 \/ Done)
<1>1. p \in DOMAIN Programs /\ b \in Nat /\ PutiAt(P, b)
  <2>1. 1 \in DOMAIN Puti
    BY DEF Puti
  <2>2. p \in DOMAIN Programs
    BY DEF Loaded
  <2>3. Address(text)[q + 1] \in Nat
    BY <2>1, InPlace
  <2> QED  BY <2>2, <2>3, PutiPlaced
<1>2. D \in Seq(Byte) /\ Len(D) = 8 /\ \A h \in 1 .. 8 : D[h] \in 48 .. 57 /\ D[h] \in Byte
  BY DecimalIs, Widths, SMTT(30)
<1> HIDE DEF A, P, F, D, S0, S2, S4, S8, S10, S14, S16, S18, S20, S24, S29, S33, S37, S39, Done, Rs
<1>3. /\ {"AC", "BS", "DC", "DI", "SP"} \subseteq Reg /\ Rs = {"AC", "BS", "DC", "DI", "SP"}
      /\ Rs \subseteq Reg /\ "SP" \in Rs /\ "DC" \in Rs
  BY DEF Reg, Rs
<1>4. PICK s3 \in Nat : s3 = s + 3
  OBVIOUS
<1>5. PICK s6 \in Nat : s6 = s + 6
  OBVIOUS
<1>6. /\ s + 3 < W /\ s3 + 3 < W /\ s3 + 3 = s6 /\ s3 + 1 = s + 4
      /\ s6 >= 3 /\ s6 - 2 = s + 4 /\ s6 - 3 = s3 /\ s3 >= 3 /\ s3 - 2 = s + 1 /\ s3 - 3 = s
      /\ s6 - 2 .. s6 \subseteq s + 1 .. s + 6 /\ s3 - 2 .. s3 \subseteq s + 1 .. s + 6
  BY <1>4, <1>5, Widths
<1>7. s6 \in Nat /\ s6 >= 3 /\ s6 - 2 .. s6 \subseteq A
  BY <1>6 DEF A
<1>8. s3 \in Nat /\ s3 >= 3 /\ s3 - 2 .. s3 \subseteq A
  BY <1>6 DEF A
<1>10. ASSUME F, S0, Turn PROVE F' /\ S2'
  <2>1. P[PC] = Ins("POP1", "DI", "AC", 0, 0) /\ PC = b /\ reg["SP"] = s
    <3>1. PC = b /\ reg["SP"] = s
      BY <1>10 DEF S0
    <3>2. P[b] = Ins("POP1", "DI", "AC", 0, 0)
      BY <1>1 DEF PutiAt
    <3> QED  BY <3>1, <3>2
  <2>2. /\ F' /\ PC' = PC + 2 /\ mem' = mem /\ out' = out /\ inp' = inp
        /\ reg'["SP"] = s + 3 /\ reg'["DI"] = Read24(mem, s + 1)
    BY <1>1, <1>3, <1>6, <1>10, <2>1, TurnPop DEF F, P
  <2> QED  BY <1>10, <2>1, <2>2 DEF S0, S2
<1>11. ASSUME F, S2, Turn PROVE F' /\ S4'
  <2>1. P[PC] = Ins("POP1", "AC", "AC", 0, 0) /\ PC = b + 2 /\ reg["SP"] = s3
    <3>1. PC = b + 2 /\ reg["SP"] = s3
      BY <1>4, <1>11 DEF S2
    <3>2. P[b + 2] = Ins("POP1", "AC", "AC", 0, 0)
      BY <1>1 DEF PutiAt
    <3> QED  BY <3>1, <3>2
  <2>2. /\ F' /\ PC' = PC + 2 /\ mem' = mem /\ out' = out /\ inp' = inp
        /\ reg'["SP"] = s3 + 3 /\ reg'["AC"] = Read24(mem, s3 + 1)
        /\ \A x \in Reg \ {"AC", "SP"} : reg'[x] = reg[x]
    BY <1>1, <1>3, <1>6, <1>11, <2>1, TurnPop DEF F, P
  <2>3. reg'["DI"] = reg["DI"]
    BY <1>3, <2>2
  <2> QED  BY <1>1, <1>5, <1>6, <1>11, <2>1, <2>2, <2>3 DEF S2, S4
<1>12. ASSUME F, S4, Turn PROVE F' /\ S8(1)'
  <2>1. P[PC] = Ins("ALUI", "BS", "AC", 10000000, 0) /\ PC = b + 4
    <3>1. PC = b + 4
      BY <1>12 DEF S4
    <3>2. P[b + 4] = Ins("ALUI", "BS", "AC", 10000000, 0)
      BY <1>1 DEF PutiAt
    <3> QED  BY <3>1, <3>2
  <2>2. PICK j : j = Ins("ALUI", "BS", "AC", 10000000, 0)
    OBVIOUS
  <2>3. P[PC] = j /\ j.op = "ALUI" /\ j.r = "BS" /\ j.n = 0 /\ j.a = Ten[1]
    BY <2>1, <2>2, Divisors DEF Ins
  <2>4. /\ F' /\ PC' = PC + 4 /\ mem' = mem /\ out' = out /\ inp' = inp
        /\ reg'["BS"] = Ten[1] /\ \A x \in Reg \ {"BS", "DC"} : reg'[x] = reg[x]
    BY <1>1, <1>3, <1>12, <2>3, TurnCompute DEF F, P
  <2>5. reg'["DI"] = reg["DI"] /\ reg'["AC"] = reg["AC"] /\ reg'["SP"] = reg["SP"]
    BY <1>3, <2>4
  <2>6. v = v % (10 * Ten[1])
    <3>1. 10 * Ten[1] = 100000000
      BY Divisors
    <3>2. v \in Nat /\ v < 100000000
      BY Widths
    <3>3. v % 100000000 = v
      BY <3>2
    <3> QED  BY <3>1, <3>3
  <2> QED  BY <1>1, <1>12, <2>1, <2>4, <2>5, <2>6 DEF S4, S8
<1>13. ASSUME F, NEW h \in 1 .. 8, S8(h), Turn PROVE F' /\ S10(h)'
  <2>1. P[PC] = Ins("DIV11", "AC", "BS", 0, 0) /\ PC = b + 8 /\ reg["BS"] = Ten[h]
    <3>1. PC = b + 8 /\ reg["BS"] = Ten[h]
      BY <1>13 DEF S8
    <3>2. P[b + 8] = Ins("DIV11", "AC", "BS", 0, 0)
      BY <1>1 DEF PutiAt
    <3> QED  BY <3>1, <3>2
  <2>2. PICK j : j = Ins("DIV11", "AC", "BS", 0, 0)
    OBVIOUS
  <2>3. P[PC] = j /\ j.op = "DIV11" /\ j.r = "AC" /\ j.s = "BS" /\ reg[j.s] = Ten[h]
    BY <2>1, <2>2 DEF Ins
  <2>4. /\ F' /\ PC' = PC + 2 /\ mem' = mem /\ out' = out /\ inp' = inp
        /\ reg'["AC"] = reg["AC"] \div Ten[h] /\ reg'["DC"] = reg["AC"] % Ten[h]
        /\ \A x \in Reg \ {"AC", "DC"} : reg'[x] = reg[x]
    <3>1. reg[j.s] # 0 /\ j.r \in Rs /\ j.op = "DIV11" /\ j.r # "DC"
      BY <1>3, <2>3, DivisorIs
    <3>2. /\ F' /\ mem' = mem /\ out' = out /\ inp' = inp
          /\ PC' = PC + IF j.op \in {"MOV", "DIV11"} THEN 2 ELSE 4
          /\ \A x \in Reg \ {j.r, "DC"} : reg'[x] = reg[x]
          /\ reg'[j.r] = reg[j.r] \div reg[j.s] /\ reg'["DC"] = reg[j.r] % reg[j.s]
      BY <1>1, <1>3, <1>13, <2>3, <3>1, TurnCompute DEF F, P
    <3> QED  BY <2>3, <3>2
  <2>5. reg'["DI"] = reg["DI"] /\ reg'["BS"] = reg["BS"] /\ reg'["SP"] = reg["SP"]
    BY <1>3, <2>4
  <2>6. PICK x : x = v % (10 * Ten[h])
    OBVIOUS
  <2>7. x \div Ten[h] \in 0 .. 9 /\ x % Ten[h] = v % Ten[h] /\ D[h] = 48 + (x \div Ten[h])
    BY <2>6, DigitIs DEF D
  <2>8. reg["AC"] = x
    BY <1>13, <2>6 DEF S8
  <2>9. reg'["AC"] + 48 = D[h] /\ reg'["DC"] = v % Ten[h]
    BY <2>4, <2>7, <2>8
  <2> QED  BY <1>1, <1>13, <2>1, <2>4, <2>5, <2>9 DEF S8, S10
<1>14. ASSUME F, NEW h \in 1 .. 8, S10(h), Turn PROVE F' /\ S14(h)'
  <2>1. P[PC] = Ins("ALUI", "AC", "AC", 48, 1) /\ PC = b + 10
    <3>1. PC = b + 10
      BY <1>14 DEF S10
    <3>2. P[b + 10] = Ins("ALUI", "AC", "AC", 48, 1)
      BY <1>1 DEF PutiAt
    <3> QED  BY <3>1, <3>2
  <2>2. PICK j : j = Ins("ALUI", "AC", "AC", 48, 1)
    OBVIOUS
  <2>3. P[PC] = j /\ j.op = "ALUI" /\ j.r = "AC" /\ j.n = 1 /\ j.a = 48
    BY <2>1, <2>2 DEF Ins
  <2>4. /\ F' /\ PC' = PC + 4 /\ mem' = mem /\ out' = out /\ inp' = inp
        /\ reg'["AC"] = (reg["AC"] + 48) % W /\ reg'["DC"] = reg["DC"]
        /\ \A x \in Reg \ {"AC", "DC"} : reg'[x] = reg[x]
    BY <1>1, <1>3, <1>14, <2>3, TurnCompute DEF F, P
  <2>5. reg'["DI"] = reg["DI"] /\ reg'["BS"] = reg["BS"] /\ reg'["SP"] = reg["SP"]
    BY <1>3, <2>4
  <2>6. reg["AC"] + 48 = D[h] /\ D[h] \in 48 .. 57
    <3>1. D[h] \in 48 .. 57
      BY <1>2
    <3> QED  BY <1>14, <3>1 DEF S10
  <2>7. D[h] % W = D[h]
    BY <2>6, Widths
  <2> QED  BY <1>1, <1>14, <2>1, <2>4, <2>5, <2>6, <2>7 DEF S10, S14
<1>15. ASSUME F, NEW h \in 1 .. 8, S14(h), Turn PROVE F' /\ S16(h)'
  <2>1. P[PC] = Ins("PUSH1", "AC", "AC", 0, 0) /\ PC = b + 14 /\ reg["SP"] = s6
    <3>1. PC = b + 14 /\ reg["SP"] = s6
      BY <1>5, <1>15 DEF S14
    <3>2. P[b + 14] = Ins("PUSH1", "AC", "AC", 0, 0)
      BY <1>1 DEF PutiAt
    <3> QED  BY <3>1, <3>2
  <2>2. PICK j : j = Ins("PUSH1", "AC", "AC", 0, 0)
    OBVIOUS
  <2>3. P[PC] = j /\ j.op = "PUSH1" /\ j.r = "AC" /\ PushLen(j) = 2
    BY <2>1, <2>2 DEF Ins, PushLen
  <2>4. /\ F' /\ PC' = PC + 2 /\ out' = out /\ inp' = inp
        /\ reg'["SP"] = s6 - 3 /\ \A x \in Reg \ {"SP"} : reg'[x] = reg[x]
        /\ Read24(mem', s6 - 2) = reg["AC"]
    <3>1. /\ F' /\ PC' = PC + PushLen(j) /\ out' = out /\ inp' = inp
          /\ reg'["SP"] = s6 - 3 /\ \A x \in Reg \ {"SP"} : reg'[x] = reg[x]
          /\ Read24(mem', s6 - 2) = IF j.op = "PUSH0" THEN j.a ELSE reg[j.r]
          /\ \A c \in Cells : c \notin s6 - 2 .. s6 => mem'[c] = mem[c]
      <4>1. Frame(p, A, r0, m0, Rs) /\ Programs[p][PC] = j /\ j.op \in {"PUSH0", "PUSH1"}
        BY <1>15, <2>3 DEF F, P
      <4> QED  BY <1>1, <1>3, <1>7, <1>15, <2>1, <4>1, TurnPush DEF F
    <3> QED  BY <2>3, <3>1
  <2>5. reg'["DI"] = reg["DI"] /\ reg'["BS"] = reg["BS"] /\ reg'["DC"] = reg["DC"]
    BY <1>3, <2>4
  <2>6. Read24(mem', s + 4) = reg["AC"] /\ reg'["SP"] = s + 3
    BY <1>4, <1>6, <2>4
  <2> QED  BY <1>1, <1>15, <2>1, <2>4, <2>5, <2>6 DEF S14, S16
<1>16. ASSUME F, NEW h \in 1 .. 8, S16(h), Turn PROVE F' /\ S18(h)'
  <2>1. P[PC] = Ins("INT0", "AC", "AC", 0, INT_WRITE) /\ PC = b + 16 /\ reg["SP"] = s3
    <3>1. PC = b + 16 /\ reg["SP"] = s3
      BY <1>4, <1>16 DEF S16
    <3>2. P[b + 16] = Ins("INT0", "AC", "AC", 0, INT_WRITE)
      BY <1>1 DEF PutiAt
    <3> QED  BY <3>1, <3>2
  <2>2. /\ F' /\ PC' = PC + 2 /\ mem' = mem /\ inp' = inp
        /\ out' = Append(out, Read24(mem, s3 + 1) % 256)
        /\ reg'["SP"] = s3 + 3 /\ \A x \in Reg \ {"SP"} : reg'[x] = reg[x]
    <3>1. Frame(p, A, r0, m0, Rs) /\ s3 \in Nat /\ s3 + 3 < W /\ "SP" \in Rs
          /\ Programs[p][PC] = Ins("INT0", "AC", "AC", 0, INT_WRITE) /\ p \in DOMAIN Programs
      BY <1>1, <1>3, <1>6, <1>8, <1>16, <2>1 DEF F, P
    <3>2. reg["SP"] = s3
      BY <2>1
    <3> QED  BY <1>16, <3>1, <3>2, TurnWrite DEF F
  <2>3. reg'["DI"] = reg["DI"] /\ reg'["BS"] = reg["BS"] /\ reg'["DC"] = reg["DC"]
        /\ reg'["SP"] = s + 6
    BY <1>3, <1>5, <1>6, <2>2
  <2>4. Read24(mem, s3 + 1) = D[h] /\ D[h] % 256 = D[h] /\ D[h] \in Byte
    <3>1. D[h] \in 48 .. 57 /\ D[h] \in Byte
      BY <1>2
    <3>2. D[h] % 256 = D[h]
      BY <3>1
    <3> QED  BY <1>6, <1>16, <3>1, <3>2 DEF S16
  <2>5. out' = Append(out, D[h])
    BY <2>2, <2>4
  <2>6. PICK n \in Nat : n = h - 1 /\ h = n + 1
    OBVIOUS
  <2>7. Adds(out, o, n, D)
    BY <1>16, <2>6 DEF S16
  <2>8. Adds(out', o, h, D)
    BY <2>4, <2>5, <2>6, <2>7, AfterOne
  <2>9. F' /\ PC' = b + 18 /\ inp' = i /\ reg["DC"] = v % Ten[h]
        /\ reg["DI"] = ret /\ reg["BS"] = Ten[h]
    <3>1. inp = i /\ reg["DC"] = v % Ten[h] /\ reg["DI"] = ret /\ reg["BS"] = Ten[h]
      BY <1>16 DEF S16
    <3> QED  BY <1>1, <2>1, <2>2, <3>1, SMTT(30)
  <2>10. PC' = b + 18 /\ reg'["SP"] = s + 6 /\ reg'["DC"] = v % Ten[h]
         /\ reg'["DI"] = ret /\ reg'["BS"] = Ten[h]
    BY <2>3, <2>9
  <2> QED  BY <2>8, <2>9, <2>10 DEF S18
<1>17. ASSUME F, NEW h \in 1 .. 8, S18(h), Turn PROVE F' /\ S20(h)'
  <2>1. P[PC] = Ins("MOV", "AC", "DC", 0, 0) /\ PC = b + 18
    <3>1. PC = b + 18
      BY <1>17 DEF S18
    <3>2. P[b + 18] = Ins("MOV", "AC", "DC", 0, 0)
      BY <1>1 DEF PutiAt
    <3> QED  BY <3>1, <3>2
  <2>2. PICK j : j = Ins("MOV", "AC", "DC", 0, 0)
    OBVIOUS
  <2>3. P[PC] = j /\ j.op = "MOV" /\ j.r = "AC" /\ j.s = "DC"
    BY <2>1, <2>2 DEF Ins
  <2>4. /\ F' /\ PC' = PC + 2 /\ mem' = mem /\ out' = out /\ inp' = inp
        /\ reg'["AC"] = reg["DC"] /\ \A x \in Reg \ {"AC", "DC"} : reg'[x] = reg[x]
    <3>1. j.op = "MOV" /\ j.r \in Rs
      BY <1>3, <2>3
    <3>2. /\ F' /\ mem' = mem /\ out' = out /\ inp' = inp
          /\ PC' = PC + IF j.op \in {"MOV", "DIV11"} THEN 2 ELSE 4
          /\ \A x \in Reg \ {j.r, "DC"} : reg'[x] = reg[x]
          /\ reg'[j.r] = reg[j.s]
      BY <1>1, <1>17, <2>3, <3>1, TurnCompute DEF F, P
    <3> QED  BY <2>3, <3>2
  <2>5. reg'["DI"] = reg["DI"] /\ reg'["BS"] = reg["BS"] /\ reg'["SP"] = reg["SP"]
    BY <1>3, <2>4
  <2> QED  BY <1>1, <1>17, <2>1, <2>4, <2>5 DEF S18, S20
<1>18. ASSUME F, NEW h \in 1 .. 8, S20(h), Turn PROVE F' /\ S24(h)'
  <2>1. P[PC] = Ins("DIVI", "BS", "AC", 10, 0) /\ PC = b + 20
    <3>1. PC = b + 20
      BY <1>18 DEF S20
    <3>2. P[b + 20] = Ins("DIVI", "BS", "AC", 10, 0)
      BY <1>1 DEF PutiAt
    <3> QED  BY <3>1, <3>2
  <2>2. PICK j : j = Ins("DIVI", "BS", "AC", 10, 0)
    OBVIOUS
  <2>3. P[PC] = j /\ j.op = "DIVI" /\ j.r = "BS" /\ j.a = 10
    BY <2>1, <2>2 DEF Ins
  <2>4. /\ F' /\ PC' = PC + 4 /\ mem' = mem /\ out' = out /\ inp' = inp
        /\ reg'["BS"] = reg["BS"] \div 10 /\ reg'["DC"] = reg["BS"] % 10
        /\ \A x \in Reg \ {"BS", "DC"} : reg'[x] = reg[x]
    BY <1>1, <1>3, <1>18, <2>3, TurnCompute DEF F, P
  <2>5. reg'["DI"] = reg["DI"] /\ reg'["AC"] = reg["AC"] /\ reg'["SP"] = reg["SP"]
    BY <1>3, <2>4
  <2> QED  BY <1>1, <1>18, <2>1, <2>4, <2>5 DEF S20, S24
<1>19. ASSUME F, NEW h \in 1 .. 8, S24(h), Turn PROVE F' /\ S29(h)'
  <2>1. P[PC] = Ins("CMP10", "DC", "AC", 1, 0) /\ PC = b + 24
    <3>1. PC = b + 24
      BY <1>19 DEF S24
    <3>2. P[b + 24] = Ins("CMP10", "DC", "AC", 1, 0)
      BY <1>1 DEF PutiAt
    <3> QED  BY <3>1, <3>2
  <2>2. /\ F' /\ PC' = PC + 5 /\ reg' = reg /\ mem' = mem /\ out' = out /\ inp' = inp
        /\ Bit(PS', FlagZ) <=> reg["DC"] = 1
    BY <1>1, <1>19, <2>1, TurnCompare DEF F, P
  <2>3. Bit(PS', FlagZ) <=> h = 8
    BY <1>19, <2>2, DivisorIs DEF S24
  <2> QED  BY <1>1, <1>19, <2>1, <2>2, <2>3 DEF S24, S29
<1>20. ASSUME F, NEW h \in 1 .. 8, S29(h), Turn
       PROVE  F' /\ (S33' \/ \E g \in 1 .. 8 : S8(g)')
  <2>1. P[PC] = Ins("JMNE0", "AC", "AC", b + 8, 0) /\ PC = b + 29
    <3>1. PC = b + 29
      BY <1>20 DEF S29
    <3>2. P[b + 29] = Ins("JMNE0", "AC", "AC", b + 8, 0)
      BY <1>1 DEF PutiAt
    <3> QED  BY <3>1, <3>2
  <2>2. /\ F' /\ reg' = reg /\ mem' = mem /\ out' = out /\ inp' = inp
        /\ PC' = IF Bit(PS, FlagZ) THEN PC + 4 ELSE b + 8
    BY <1>1, <1>20, <2>1, TurnJump DEF F, P
  <2>3. CASE h = 8
    BY <1>1, <1>20, <2>1, <2>2, <2>3 DEF S29, S33
  <2>4. CASE h # 8
    <3>1. PICK g \in 1 .. 8 : g = h + 1 /\ h = g - 1
      BY <2>4
    <3>2. Ten[h] \div 10 = Ten[g] /\ Ten[h] = 10 * Ten[g]
      BY <3>1, DivisorNext
    <3>3. S8(g)'
      BY <1>1, <1>20, <2>1, <2>2, <2>4, <3>1, <3>2 DEF S29, S8
    <3> QED  BY <2>2, <3>3
  <2> QED  BY <2>3, <2>4
<1>21. ASSUME F, S33, Turn PROVE F' /\ S37'
  <2>1. P[PC] = Ins("PUSH0", "AC", "AC", 0, 0) /\ PC = b + 33 /\ reg["SP"] = s6
    <3>1. PC = b + 33 /\ reg["SP"] = s6
      BY <1>5, <1>21 DEF S33
    <3>2. P[b + 33] = Ins("PUSH0", "AC", "AC", 0, 0)
      BY <1>1 DEF PutiAt
    <3> QED  BY <3>1, <3>2
  <2>2. PICK j : j = Ins("PUSH0", "AC", "AC", 0, 0)
    OBVIOUS
  <2>3. P[PC] = j /\ j.op = "PUSH0" /\ j.a = 0 /\ PushLen(j) = 4
    BY <2>1, <2>2 DEF Ins, PushLen
  <2>4. /\ F' /\ PC' = PC + 4 /\ out' = out /\ inp' = inp
        /\ reg'["SP"] = s6 - 3 /\ \A x \in Reg \ {"SP"} : reg'[x] = reg[x]
        /\ Read24(mem', s6 - 2) = 0
    <3>1. /\ F' /\ PC' = PC + PushLen(j) /\ out' = out /\ inp' = inp
          /\ reg'["SP"] = s6 - 3 /\ \A x \in Reg \ {"SP"} : reg'[x] = reg[x]
          /\ Read24(mem', s6 - 2) = IF j.op = "PUSH0" THEN j.a ELSE reg[j.r]
          /\ \A c \in Cells : c \notin s6 - 2 .. s6 => mem'[c] = mem[c]
      <4>1. Frame(p, A, r0, m0, Rs) /\ Programs[p][PC] = j /\ j.op \in {"PUSH0", "PUSH1"}
        BY <1>21, <2>3 DEF F, P
      <4> QED  BY <1>1, <1>3, <1>7, <1>21, <2>1, <4>1, TurnPush DEF F
    <3> QED  BY <2>3, <3>1
  <2>5. reg'["DI"] = reg["DI"] /\ Read24(mem', s + 4) = 0 /\ reg'["SP"] = s + 3
    BY <1>3, <1>4, <1>6, <2>4
  <2> QED  BY <1>1, <1>21, <2>1, <2>4, <2>5 DEF S33, S37
<1>22. ASSUME F, S37, Turn PROVE F' /\ S39'
  <2>1. P[PC] = Ins("PUSH1", "DI", "AC", 0, 0) /\ PC = b + 37 /\ reg["SP"] = s3
    <3>1. PC = b + 37 /\ reg["SP"] = s3
      BY <1>4, <1>22 DEF S37
    <3>2. P[b + 37] = Ins("PUSH1", "DI", "AC", 0, 0)
      BY <1>1 DEF PutiAt
    <3> QED  BY <3>1, <3>2
  <2>2. PICK j : j = Ins("PUSH1", "DI", "AC", 0, 0)
    OBVIOUS
  <2>3. P[PC] = j /\ j.op = "PUSH1" /\ j.r = "DI" /\ PushLen(j) = 2
    BY <2>1, <2>2 DEF Ins, PushLen
  <2>4. /\ F' /\ PC' = PC + 2 /\ out' = out /\ inp' = inp
        /\ reg'["SP"] = s3 - 3 /\ Read24(mem', s3 - 2) = reg["DI"]
        /\ \A c \in Cells : c \notin s3 - 2 .. s3 => mem'[c] = mem[c]
    <3>1. /\ F' /\ PC' = PC + PushLen(j) /\ out' = out /\ inp' = inp
          /\ reg'["SP"] = s3 - 3 /\ \A x \in Reg \ {"SP"} : reg'[x] = reg[x]
          /\ Read24(mem', s3 - 2) = IF j.op = "PUSH0" THEN j.a ELSE reg[j.r]
          /\ \A c \in Cells : c \notin s3 - 2 .. s3 => mem'[c] = mem[c]
      <4>1. Frame(p, A, r0, m0, Rs) /\ Programs[p][PC] = j /\ j.op \in {"PUSH0", "PUSH1"}
        BY <1>22, <2>3 DEF F, P
      <4> QED  BY <1>1, <1>3, <1>8, <1>22, <2>1, <4>1, TurnPush DEF F
    <3> QED  BY <2>3, <3>1
  <2>5. s + 4 \in Nat /\ Has(s + 4, 3) /\ s + 4 > s3
    BY <1>4 DEF Has
  <2>6. Read24(mem', s + 4) = Read24(mem, s + 4)
    BY <2>4, <2>5, WordStays
  <2>7. Read24(mem', s + 1) = reg["DI"] /\ reg'["SP"] = s
    BY <1>6, <2>4
  <2> QED  BY <1>1, <1>22, <2>1, <2>4, <2>6, <2>7 DEF S37, S39
<1>23. ASSUME F, S39, Turn PROVE F' /\ Done'
  <2>1. P[PC] = Ins("RET", "AC", "AC", 0, 0) /\ reg["SP"] = s
    <3>1. PC = b + 39 /\ reg["SP"] = s
      BY <1>23 DEF S39
    <3>2. P[b + 39] = Ins("RET", "AC", "AC", 0, 0)
      BY <1>1 DEF PutiAt
    <3> QED  BY <3>1, <3>2
  <2>2. /\ F' /\ mem' = mem /\ out' = out /\ inp' = inp
        /\ PC' = Read24(mem, s + 1) /\ reg'["SP"] = s + 3
    BY <1>1, <1>3, <1>6, <1>23, <2>1, TurnReturn DEF F, P
  <2> QED  BY <1>23, <2>2 DEF S39, Done
<1>24. Inv /\ PC # ret /\ Turn => Inv'
  <2> SUFFICES ASSUME Inv, PC # ret, Turn PROVE Inv'
    OBVIOUS
  <2>1. F' /\ (S0 \/ S2 \/ S4 \/ S33 \/ S37 \/ S39 => Inv')
    BY <1>10, <1>11, <1>12, <1>21, <1>22, <1>23, <1>13, <1>14, <1>15, <1>16, <1>17, <1>18, <1>19, <1>20 DEF Done
  <2>2. ASSUME NEW h \in 1 .. 8, Digit8(h) PROVE Inv'
    BY <2>2, <1>13, <1>14, <1>15, <1>16, <1>17, <1>18, <1>19, <1>20
  <2> QED  BY <2>1, <2>2 DEF Done
<1>25. Inv /\ UNCHANGED pvars => Inv'
  <2> SUFFICES ASSUME Inv, UNCHANGED pvars PROVE Inv'
    OBVIOUS
  <2>1. PC' = PC /\ PS' = PS /\ reg' = reg /\ mem' = mem /\ out' = out /\ inp' = inp
    BY DEF pvars, vars
  <2>2. F'
    BY FrameStays DEF F
  <2>3. \A h \in 1 .. 8 : Digit8(h) => Digit8(h)'
    BY <2>1 DEF S8, S10, S14, S16, S18, S20, S24, S29
  <2>4. S0 \/ S2 \/ S4 \/ S33 \/ S37 \/ S39 \/ Done =>
          (S0 \/ S2 \/ S4 \/ S33 \/ S37 \/ S39 \/ Done)'
    BY <2>1 DEF S0, S2, S4, S33, S37, S39, Done
  <2> QED  BY <2>2, <2>3, <2>4
<1>26. Called(p, b, ret, r0, m0, o, i) => Inv
  <2> SUFFICES ASSUME Called(p, b, ret, r0, m0, o, i) PROVE Inv
    OBVIOUS
  <2>1. F
    BY FrameOfCall DEF F
  <2>2. S0
    BY <1>1, AfterNone DEF Called, S0
  <2> QED  BY <2>1, <2>2
<1>27. Inv => /\ Frame(p, s + 1 .. s + 6, r0, m0, {"AC", "BS", "DC", "DI", "SP"})
              /\ PC \in (b .. b + 39) \cup {ret}
              /\ PC = ret => /\ out = o \o Decimal(v) /\ inp = i
                             /\ reg["SP"] = s + 3 /\ Read24(mem, s + 4) = 0
  <2> SUFFICES ASSUME Inv
               PROVE  /\ F /\ PC \in (b .. b + 39) \cup {ret}
                      /\ PC = ret => /\ out = o \o D /\ inp = i
                                     /\ reg["SP"] = s + 3 /\ Read24(mem, s + 4) = 0
    BY DEF A, F, D, Rs
  <2>1. (\E h \in 1 .. 8 : Digit8(h)) => PC \in b .. b + 39
    BY <1>1 DEF S8, S10, S14, S16, S18, S20, S24, S29
  <2>2. S0 \/ S2 \/ S4 \/ S33 \/ S37 \/ S39 => PC \in b .. b + 39
    BY <1>1 DEF S0, S2, S4, S33, S37, S39
  <2>3. ASSUME Done PROVE out = o \o D
    <3>1. Adds(out, o, 8, D)
      BY <2>3 DEF Done
    <3> QED  BY <1>2, <3>1, AfterAll
  <2> QED  BY <2>1, <2>2, <2>3 DEF Done
<1> HIDE DEF Inv
<1> QED  BY <1>24, <1>25, <1>26, <1>27, PTL

\* A function on 1 .. n is a sequence of length n.
LEMMA ListIs ==
  ASSUME NEW n \in Nat, NEW S, NEW d \in [1 .. n -> S]
  PROVE  d \in Seq(S) /\ Len(d) = n
<1>1. d \in Seq(S)
  BY SeqDef
<1>2. Len(d) \in Nat /\ DOMAIN d = 1 .. Len(d)
  BY <1>1, LenProperties
<1>3. 1 .. n = 1 .. Len(d)
  BY <1>2
<1>4. ~(n < Len(d))
  <2>1. n < Len(d) => Len(d) \in 1 .. Len(d) /\ Len(d) \notin 1 .. n
    BY <1>2
  <2> QED  BY <1>3, <2>1
<1>5. ~(Len(d) < n)
  <2>1. Len(d) < n => n \in 1 .. n /\ n \notin 1 .. Len(d)
    BY <1>2
  <2> QED  BY <1>3, <2>1
<1> QED  BY <1>1, <1>2, <1>4, <1>5

\* The e bytes of memory from a on.
Chars(m, a, e) == [k \in 1 .. e |-> m[a + k - 1]]

\* The bytes that puts() writes are the ones Text() finds.
LEMMA TextIs ==
  ASSUME NEW m, NEW a, NEW e \in 0 .. 255,
         m[a + e] = 0 /\ \A k \in 0 .. e - 1 : m[a + k] # 0
  PROVE  Text(m, a) = Chars(m, a, e)
<1> DEFINE Finishes(n) == m[a + n] = 0 /\ \A k \in 0 .. n - 1 : m[a + k] # 0
<1>1. Finishes(e)
  OBVIOUS
<1>2. ASSUME NEW n \in 0 .. 255, Finishes(n) PROVE n = e
  <2>1. ~(n < e)
    <3>1. n < e => n \in 0 .. e - 1
      OBVIOUS
    <3> QED  BY <1>2, <3>1
  <2>2. ~(e < n)
    <3>1. e < n => e \in 0 .. n - 1
      OBVIOUS
    <3> QED  BY <1>2, <3>1
  <2> QED  BY <2>1, <2>2
<1> HIDE DEF Finishes
<1>3. (CHOOSE n \in 0 .. 255 : Finishes(n)) = e
  BY <1>1, <1>2
<1> QED  BY <1>3 DEF Text, Finishes, Chars

(* puts() writes the characters from a up to the byte that ends them,      *)
(* takes a off the stack, and leaves 0 there.                              *)
THEOREM PutsContract ==
  ASSUME NEW p, NEW text, NEW Labels, Loaded(p, text, Labels),
         NEW q, Contains(text, q, Puts), NEW b, b = Address(text)[q + 1],
         NEW ret, ret \notin b .. b + 30,
         NEW s \in Nat, s + 6 < W, Has(s + 1, 6),
         NEW r0, r0["SP"] = s, NEW m0, NEW a \in Nat, Read24(m0, s + 4) = a,
         NEW e \in Nat, a + e < W, s + 6 < a \/ a + e < s + 1,
         m0[a + e] = 0, \A k \in 0 .. e - 1 : m0[a + k] # 0,
         NEW o, NEW i
  PROVE  Called(p, b, ret, r0, m0, o, i) /\ [][PC # ret /\ Turn]_pvars =>
           [](/\ Frame(p, s + 1 .. s + 6, r0, m0, {"AC", "DI", "DT", "SP"})
              /\ PC \in (b .. b + 30) \cup {ret}
              /\ PC = ret => /\ out = o \o Chars(m0, a, e) /\ inp = i
                             /\ e < 256 => out = o \o Text(m0, a)
                             /\ reg["SP"] = s + 3 /\ Read24(mem, s + 4) = 0)
<1> DEFINE Rs == {"AC", "DI", "DT", "SP"}
           A  == s + 1 .. s + 6
           F  == Frame(p, A, r0, m0, Rs)
           P  == Programs[p]
           D  == Chars(m0, a, e)
           On(n, sp) == PC = b + n /\ reg["SP"] = sp /\ inp = i /\ reg["DI"] = ret
           Told(n) == Adds(out, o, n, D)
           Top(x) == Read24(mem, s + 4) = x
           S0  == PC = b /\ reg["SP"] = s /\ inp = i /\ Read24(mem, s + 1) = ret /\ Top(a) /\ Told(0)
           S2  == On(2, s + 3) /\ Top(a) /\ Told(0)
           S4  == On(4, s + 6) /\ reg["DT"] = a /\ Told(0)
           S15(h) == On(15, s + 3) /\ Top(b + 8) /\ Told(h) /\ reg["DT"] = a + h
           S17(h) == On(17, s + 3) /\ Top(b + 8) /\ Told(h) /\ reg["AC"] = m0[a + h] /\ m0[a + h] \in Byte
                     /\ (h < e => reg["DT"] = a + h + 1)
           S22(h) == On(22, s + 3) /\ Top(b + 8) /\ Told(h) /\ reg["AC"] = m0[a + h] /\ m0[a + h] \in Byte
                     /\ (h < e => reg["DT"] = a + h + 1) /\ (Bit(PS, FlagZ) <=> h = e)
           S23(h) == On(23, s + 3) /\ Top(b + 8) /\ Told(h) /\ reg["AC"] = m0[a + h] /\ m0[a + h] \in Byte
                     /\ h < e /\ reg["DT"] = a + h + 1
           S25(h) == On(25, s) /\ Top(b + 8) /\ Told(h) /\ Read24(mem, s + 1) = m0[a + h] /\ m0[a + h] \in Byte
                     /\ h < e /\ reg["DT"] = a + h + 1
           S27(h) == On(27, s + 3) /\ Top(b + 8) /\ h < e /\ Told(h + 1) /\ reg["DT"] = a + h + 1
           S8  == On(8, s + 6) /\ Told(e)
           S12 == On(12, s + 3) /\ Told(e) /\ Top(0)
           S14 == PC = b + 14 /\ reg["SP"] = s /\ inp = i /\ Read24(mem, s + 1) = ret
                  /\ Told(e) /\ Top(0)
           Done == PC = ret /\ reg["SP"] = s + 3 /\ inp = i /\ Told(e) /\ Top(0)
           Char(h) == S15(h) \/ S17(h) \/ S22(h) \/ S23(h) \/ S25(h) \/ S27(h)
           Inv == F /\ (S0 \/ S2 \/ S4 \/ (\E h \in 0 .. e : Char(h)) \/ S8 \/ S12 \/ S14 \/ Done)
<1>1. p \in DOMAIN Programs /\ b \in Nat /\ PutsAt(P, b) /\ b + 8 \in Word
  <2>1. 1 \in DOMAIN Puts
    BY DEF Puts
  <2>2. p \in DOMAIN Programs
    BY DEF Loaded
  <2>3. Address(text)[q + 1] \in Nat
    BY <2>1, InPlace
  <2> QED  BY <2>2, <2>3, PutsPlaced
<1> HIDE DEF A, P, F, D, Told, Top, S0, S2, S4, S15, S17, S22, S23, S25, S27, S8, S12, S14, Done, Rs
<1>2. /\ {"AC", "DI", "DT", "SP"} \subseteq Reg /\ Rs = {"AC", "DI", "DT", "SP"}
      /\ Rs \subseteq Reg /\ "SP" \in Rs
  BY DEF Reg, Rs
<1>3. PICK s3 \in Nat : s3 = s + 3
  OBVIOUS
<1>4. PICK s6 \in Nat : s6 = s + 6
  OBVIOUS
<1>5. /\ s + 3 < W /\ s3 + 3 < W /\ s3 + 3 = s6 /\ s3 + 1 = s + 4 /\ s6 - 2 = s + 4
      /\ s6 - 3 = s3 /\ s3 - 2 = s + 1 /\ s3 - 3 = s
  BY <1>3, <1>4, Widths
<1>6. s6 \in Nat /\ s6 >= 3 /\ s6 - 2 .. s6 \subseteq A
  BY <1>4 DEF A
<1>7. s3 \in Nat /\ s3 >= 3 /\ s3 - 2 .. s3 \subseteq A
  BY <1>3 DEF A
<1>8. ASSUME F, NEW h \in 0 .. e, a + h \in Cells
      PROVE  mem[a + h] = m0[a + h] /\ m0[a + h] \in Byte
  <2>1. a + h \notin A
    BY DEF A
  <2>2. mem[a + h] = m0[a + h]
    BY <1>8, <2>1 DEF F, Frame
  <2>3. mem \in [Cells -> Byte]
    BY <1>8 DEF F, Frame, TypeOK
  <2> QED  BY <1>8, <2>2, <2>3
<1>9. \A h \in 0 .. e : m0[a + h] = 0 <=> h = e
  OBVIOUS
<1>10. ASSUME F, S0, Turn PROVE F' /\ S2'
  <2>1. P[PC] = Ins("POP1", "DI", "AC", 0, 0) /\ PC = b /\ reg["SP"] = s
    <3>1. PC = b /\ reg["SP"] = s
      BY <1>10 DEF S0
    <3>2. P[b] = Ins("POP1", "DI", "AC", 0, 0)
      BY <1>1 DEF PutsAt
    <3> QED  BY <3>1, <3>2
  <2>2. /\ F' /\ PC' = PC + 2 /\ mem' = mem /\ out' = out /\ inp' = inp
        /\ reg'["SP"] = s + 3 /\ reg'["DI"] = Read24(mem, s + 1)
    BY <1>1, <1>2, <1>5, <1>10, <2>1, TurnPop DEF F, P
  <2> QED  BY <1>10, <2>1, <2>2 DEF S0, S2, Told, Top
<1>11. ASSUME F, S2, Turn PROVE F' /\ S4'
  <2>1. P[PC] = Ins("POP1", "DT", "AC", 0, 0) /\ PC = b + 2 /\ reg["SP"] = s3
    <3>1. PC = b + 2 /\ reg["SP"] = s3
      BY <1>3, <1>11 DEF S2
    <3>2. P[b + 2] = Ins("POP1", "DT", "AC", 0, 0)
      BY <1>1 DEF PutsAt
    <3> QED  BY <3>1, <3>2
  <2>2. /\ F' /\ PC' = PC + 2 /\ mem' = mem /\ out' = out /\ inp' = inp
        /\ reg'["SP"] = s3 + 3 /\ reg'["DT"] = Read24(mem, s3 + 1)
        /\ \A x \in Reg \ {"DT", "SP"} : reg'[x] = reg[x]
    BY <1>1, <1>2, <1>5, <1>11, <2>1, TurnPop DEF F, P
  <2>3. reg'["DI"] = reg["DI"]
    BY <1>2, <2>2
  <2> QED  BY <1>1, <1>4, <1>5, <1>11, <2>1, <2>2, <2>3 DEF S2, S4, Told, Top
<1>12. ASSUME F, S4, Turn PROVE F' /\ S15(0)'
  <2>1. P[PC] = Ins("CALL", "AC", "AC", b + 15, 0) /\ PC = b + 4 /\ reg["SP"] = s6
    <3>1. PC = b + 4 /\ reg["SP"] = s6
      BY <1>4, <1>12 DEF S4
    <3>2. P[b + 4] = Ins("CALL", "AC", "AC", b + 15, 0)
      BY <1>1 DEF PutsAt
    <3> QED  BY <3>1, <3>2
  <2>2. PC + 4 = b + 8 /\ PC + 4 \in Word
    BY <1>1, <2>1
  <2>3. /\ F' /\ PC' = b + 15 /\ out' = out /\ inp' = inp
        /\ reg'["SP"] = s6 - 3 /\ \A x \in Reg \ {"SP"} : reg'[x] = reg[x]
        /\ Read24(mem', s6 - 2) = PC + 4
    <3>1. Frame(p, A, r0, m0, Rs) /\ Programs[p][PC] = Ins("CALL", "AC", "AC", b + 15, 0)
      BY <1>12, <2>1 DEF F, P
    <3> QED  BY <1>1, <1>2, <1>6, <1>12, <2>1, <2>2, <3>1, TurnCall DEF F
  <2>4. reg'["DI"] = reg["DI"] /\ reg'["DT"] = reg["DT"]
    BY <1>2, <2>3
  <2>5. Read24(mem', s + 4) = b + 8 /\ reg'["SP"] = s + 3
    BY <1>3, <1>5, <2>2, <2>3
  <2>6. a = a + 0
    OBVIOUS
  <2> QED  BY <1>12, <2>3, <2>4, <2>5, <2>6 DEF S4, S15, Told, Top
<1>13. ASSUME F, NEW h \in 0 .. e, S15(h), Turn PROVE F' /\ S17(h)'
  <2>1. P[PC] = Ins("LBc", "DT", "AC", 0, 0) /\ PC = b + 15 /\ reg["DT"] = a + h
    <3>1. PC = b + 15 /\ reg["DT"] = a + h
      BY <1>13 DEF S15
    <3>2. P[b + 15] = Ins("LBc", "DT", "AC", 0, 0)
      BY <1>1 DEF PutsAt
    <3> QED  BY <3>1, <3>2
  <2>2. "DT" \in Reg \cap Rs /\ "AC" \in Reg \cap Rs /\ "DT" # "AC"
    BY <1>2
  <2>3. /\ F' /\ PC' = PC + 2 /\ mem' = mem /\ out' = out /\ inp' = inp
        /\ reg["DT"] \in Cells /\ reg'["AC"] = mem[reg["DT"]] /\ reg'["DT"] = (reg["DT"] + 1) % W
        /\ \A x \in Reg \ {"DT", "AC"} : reg'[x] = reg[x]
    <3>1. Frame(p, A, r0, m0, Rs) /\ Programs[p][PC] = Ins("LBc", "DT", "AC", 0, 0)
      BY <1>13, <2>1 DEF F, P
    <3> QED  BY <1>1, <1>13, <2>2, <3>1, TurnLoad DEF F
  <2>4. reg'["DI"] = reg["DI"] /\ reg'["SP"] = reg["SP"]
    BY <1>2, <2>3
  <2>5. reg'["AC"] = m0[a + h] /\ m0[a + h] \in Byte
    BY <1>8, <1>13, <2>1, <2>3
  <2>6. h < e => reg'["DT"] = a + h + 1
    <3>1. h < e => (a + h + 1) % W = a + h + 1
      BY Widths
    <3> QED  BY <2>1, <2>3, <3>1
  <2> QED  BY <1>1, <1>13, <2>1, <2>3, <2>4, <2>5, <2>6 DEF S15, S17, Told, Top
<1>14. ASSUME F, NEW h \in 0 .. e, S17(h), Turn PROVE F' /\ S22(h)'
  <2>1. P[PC] = Ins("CMP10", "AC", "AC", 0, 0) /\ PC = b + 17
    <3>1. PC = b + 17
      BY <1>14 DEF S17
    <3>2. P[b + 17] = Ins("CMP10", "AC", "AC", 0, 0)
      BY <1>1 DEF PutsAt
    <3> QED  BY <3>1, <3>2
  <2>2. /\ F' /\ PC' = PC + 5 /\ reg' = reg /\ mem' = mem /\ out' = out /\ inp' = inp
        /\ Bit(PS', FlagZ) <=> reg["AC"] = 0
    BY <1>1, <1>14, <2>1, TurnCompare DEF F, P
  <2>3. reg["AC"] = m0[a + h]
    BY <1>14 DEF S17
  <2>4. Bit(PS', FlagZ) <=> h = e
    BY <1>9, <2>2, <2>3
  <2> QED  BY <1>1, <1>14, <2>1, <2>2, <2>4 DEF S17, S22, Told, Top
<1>15. ASSUME F, NEW h \in 0 .. e, S22(h), Turn PROVE F' /\ (S8' \/ S23(h)')
  <2>1. P[PC] = Ins("RE", "AC", "AC", 0, 0) /\ PC = b + 22 /\ reg["SP"] = s3
    <3>1. PC = b + 22 /\ reg["SP"] = s3
      BY <1>3, <1>15 DEF S22
    <3>2. P[b + 22] = Ins("RE", "AC", "AC", 0, 0)
      BY <1>1 DEF PutsAt
    <3> QED  BY <3>1, <3>2
  <2>2. /\ F' /\ mem' = mem /\ out' = out /\ inp' = inp
        /\ \A x \in Reg \ {"SP"} : reg'[x] = reg[x]
        /\ IF Bit(PS, FlagZ) THEN PC' = Read24(mem, s3 + 1) /\ reg'["SP"] = s3 + 3
                             ELSE PC' = PC + 1 /\ reg'["SP"] = s3
    <3>1. Frame(p, A, r0, m0, Rs) /\ Programs[p][PC] = Ins("RE", "AC", "AC", 0, 0)
          /\ "RE" \in {"RET", "RE"} /\ "RE" # "RET" /\ s3 + 3 < W
      BY <1>5, <1>15, <2>1 DEF F, P
    <3> QED  BY <1>1, <1>2, <1>15, <2>1, <3>1, TurnReturn DEF F
  <2>3. reg'["DI"] = reg["DI"] /\ reg'["DT"] = reg["DT"] /\ reg'["AC"] = reg["AC"]
    BY <1>2, <2>2
  <2>4. CASE h = e
    <3>1. PC' = b + 8 /\ reg'["SP"] = s + 6
      BY <1>4, <1>5, <1>15, <2>2, <2>4 DEF S22, Top
    <3> QED  BY <1>15, <2>2, <2>3, <2>4, <3>1 DEF S22, S8, Told
  <2>5. CASE h # e
    <3>1. PC' = b + 23 /\ reg'["SP"] = s + 3
      BY <1>1, <1>3, <1>15, <2>1, <2>2, <2>5 DEF S22
    <3>2. h < e
      BY <2>5
    <3> QED  BY <1>15, <2>2, <2>3, <3>1, <3>2 DEF S22, S23, Told, Top
  <2> QED  BY <2>4, <2>5
<1>16. ASSUME F, NEW h \in 0 .. e, S23(h), Turn PROVE F' /\ S25(h)'
  <2>1. P[PC] = Ins("PUSH1", "AC", "AC", 0, 0) /\ PC = b + 23 /\ reg["SP"] = s3
    <3>1. PC = b + 23 /\ reg["SP"] = s3
      BY <1>3, <1>16 DEF S23
    <3>2. P[b + 23] = Ins("PUSH1", "AC", "AC", 0, 0)
      BY <1>1 DEF PutsAt
    <3> QED  BY <3>1, <3>2
  <2>2. PICK j : j = Ins("PUSH1", "AC", "AC", 0, 0)
    OBVIOUS
  <2>3. P[PC] = j /\ j.op = "PUSH1" /\ j.r = "AC" /\ PushLen(j) = 2
    BY <2>1, <2>2 DEF Ins, PushLen
  <2>4. /\ F' /\ PC' = PC + PushLen(j) /\ out' = out /\ inp' = inp
        /\ reg'["SP"] = s3 - 3 /\ \A x \in Reg \ {"SP"} : reg'[x] = reg[x]
        /\ Read24(mem', s3 - 2) = IF j.op = "PUSH0" THEN j.a ELSE reg[j.r]
        /\ \A c \in Cells : c \notin s3 - 2 .. s3 => mem'[c] = mem[c]
    <3>1. Frame(p, A, r0, m0, Rs) /\ Programs[p][PC] = j /\ j.op \in {"PUSH0", "PUSH1"}
      BY <1>16, <2>3 DEF F, P
    <3> QED  BY <1>1, <1>2, <1>7, <1>16, <2>1, <3>1, TurnPush DEF F
  <2>5. reg'["DI"] = reg["DI"] /\ reg'["DT"] = reg["DT"]
    BY <1>2, <2>4
  <2>6. s + 4 \in Nat /\ Has(s + 4, 3) /\ s + 4 > s3
    BY <1>3 DEF Has
  <2>7. Read24(mem', s + 4) = Read24(mem, s + 4)
    BY <2>4, <2>6, WordStays
  <2>8. Read24(mem', s + 1) = reg["AC"] /\ reg'["SP"] = s
    BY <1>5, <2>3, <2>4
  <2>9. PC' = b + 25
    BY <1>1, <2>1, <2>3, <2>4
  <2> QED  BY <1>16, <2>4, <2>5, <2>7, <2>8, <2>9 DEF S23, S25, Told, Top
<1>17. ASSUME F, NEW h \in 0 .. e, S25(h), Turn PROVE F' /\ S27(h)'
  <2>1. P[PC] = Ins("INT0", "AC", "AC", 0, INT_WRITE) /\ PC = b + 25 /\ reg["SP"] = s
    <3>1. PC = b + 25 /\ reg["SP"] = s
      BY <1>17 DEF S25
    <3>2. P[b + 25] = Ins("INT0", "AC", "AC", 0, INT_WRITE)
      BY <1>1 DEF PutsAt
    <3> QED  BY <3>1, <3>2
  <2>2. /\ F' /\ PC' = PC + 2 /\ mem' = mem /\ inp' = inp
        /\ out' = Append(out, Read24(mem, s + 1) % 256)
        /\ reg'["SP"] = s + 3 /\ \A x \in Reg \ {"SP"} : reg'[x] = reg[x]
    <3>1. Frame(p, A, r0, m0, Rs) /\ s + 3 < W /\ "SP" \in Rs
          /\ Programs[p][PC] = Ins("INT0", "AC", "AC", 0, INT_WRITE) /\ p \in DOMAIN Programs
      BY <1>1, <1>2, <1>5, <1>17, <2>1 DEF F, P
    <3>2. reg["SP"] = s
      BY <2>1
    <3> QED  BY <1>17, <3>1, <3>2, TurnWrite, SMTT(30) DEF F
  <2>3. reg'["DI"] = reg["DI"] /\ reg'["DT"] = reg["DT"]
    BY <1>2, <2>2
  <2>4. h < e /\ Read24(mem, s + 1) = m0[a + h] /\ inp = i /\ reg["DI"] = ret
        /\ reg["DT"] = a + h + 1 /\ Top(b + 8) /\ Told(h) /\ m0[a + h] \in Byte
    BY <1>17 DEF S25
  <2>5. PICK g \in 1 .. e : g = h + 1
    BY <2>4
  <2>6. D[g] = m0[a + h] /\ D[g] \in Byte
    <3>1. (a + g) - 1 = a + h
      BY <2>5
    <3>2. D[g] = m0[a + h]
      BY <2>5, <3>1 DEF D, Chars
    <3> QED  BY <2>4, <3>2
  <2>7. D[g] % 256 = D[g]
    BY <2>6, Widths
  <2>8. out' = Append(out, D[g])
    BY <2>2, <2>4, <2>6, <2>7, SMTT(30)
  <2>9. Adds(out', o, g, D)
    BY <2>4, <2>5, <2>6, <2>8, AfterOne DEF Told
  <2>10. PC' = b + 27
    <3>1. PC' = PC + 2 /\ PC = b + 25 /\ b \in Nat
      BY <1>1, <2>1, <2>2
    <3> QED  BY <3>1
  <2> QED  BY <2>2, <2>3, <2>4, <2>5, <2>9, <2>10, SMTT(30) DEF S27, Told, Top
<1>18. ASSUME F, NEW h \in 0 .. e, S27(h), Turn
       PROVE  F' /\ \E g \in 0 .. e : S15(g)'
  <2>1. P[PC] = Ins("JMP0", "AC", "AC", b + 15, 0) /\ PC = b + 27
    <3>1. PC = b + 27
      BY <1>18 DEF S27
    <3>2. P[b + 27] = Ins("JMP0", "AC", "AC", b + 15, 0)
      BY <1>1 DEF PutsAt
    <3> QED  BY <3>1, <3>2
  <2>2. /\ F' /\ reg' = reg /\ mem' = mem /\ out' = out /\ inp' = inp /\ PC' = b + 15
    <3>1. Frame(p, A, r0, m0, Rs) /\ Programs[p][PC] = Ins("JMP0", "AC", "AC", b + 15, 0)
          /\ "JMP0" \in {"JMP0", "JMNE0"} /\ "JMP0" # "JMNE0"
      BY <1>18, <2>1 DEF F, P
    <3> QED  BY <1>1, <1>18, <3>1, TurnJump DEF F
  <2>3. h < e
    BY <1>18 DEF S27
  <2>4. PICK g \in 0 .. e : g = h + 1 /\ a + g = a + h + 1
    BY <2>3
  <2>5. S15(g)'
    BY <1>18, <2>2, <2>4 DEF S27, S15, Told, Top
  <2> QED  BY <2>2, <2>5
<1>19. ASSUME F, S8, Turn PROVE F' /\ S12'
  <2>1. P[PC] = Ins("PUSH0", "AC", "AC", 0, 0) /\ PC = b + 8 /\ reg["SP"] = s6
    <3>1. PC = b + 8 /\ reg["SP"] = s6
      BY <1>4, <1>19 DEF S8
    <3>2. P[b + 8] = Ins("PUSH0", "AC", "AC", 0, 0)
      BY <1>1 DEF PutsAt
    <3> QED  BY <3>1, <3>2
  <2>2. PICK j : j = Ins("PUSH0", "AC", "AC", 0, 0)
    OBVIOUS
  <2>3. P[PC] = j /\ j.op = "PUSH0" /\ j.a = 0 /\ PushLen(j) = 4
    BY <2>1, <2>2 DEF Ins, PushLen
  <2>4. /\ F' /\ PC' = PC + PushLen(j) /\ out' = out /\ inp' = inp
        /\ reg'["SP"] = s6 - 3 /\ \A x \in Reg \ {"SP"} : reg'[x] = reg[x]
        /\ Read24(mem', s6 - 2) = IF j.op = "PUSH0" THEN j.a ELSE reg[j.r]
        /\ \A c \in Cells : c \notin s6 - 2 .. s6 => mem'[c] = mem[c]
    <3>1. Frame(p, A, r0, m0, Rs) /\ Programs[p][PC] = j /\ j.op \in {"PUSH0", "PUSH1"}
      BY <1>19, <2>3 DEF F, P
    <3> QED  BY <1>1, <1>2, <1>6, <1>19, <2>1, <3>1, TurnPush DEF F
  <2>5. reg'["DI"] = reg["DI"]
    BY <1>2, <2>4
  <2>6. Read24(mem', s + 4) = 0 /\ reg'["SP"] = s + 3
    BY <1>3, <1>5, <2>3, <2>4
  <2>7. PC' = b + 12
    BY <1>1, <2>1, <2>3, <2>4
  <2> QED  BY <1>19, <2>4, <2>5, <2>6, <2>7 DEF S8, S12, Told, Top
<1>20. ASSUME F, S12, Turn PROVE F' /\ S14'
  <2>1. P[PC] = Ins("PUSH1", "DI", "AC", 0, 0) /\ PC = b + 12 /\ reg["SP"] = s3
    <3>1. PC = b + 12 /\ reg["SP"] = s3
      BY <1>3, <1>20 DEF S12
    <3>2. P[b + 12] = Ins("PUSH1", "DI", "AC", 0, 0)
      BY <1>1 DEF PutsAt
    <3> QED  BY <3>1, <3>2
  <2>2. PICK j : j = Ins("PUSH1", "DI", "AC", 0, 0)
    OBVIOUS
  <2>3. P[PC] = j /\ j.op = "PUSH1" /\ j.r = "DI" /\ PushLen(j) = 2
    BY <2>1, <2>2 DEF Ins, PushLen
  <2>4. /\ F' /\ PC' = PC + PushLen(j) /\ out' = out /\ inp' = inp
        /\ reg'["SP"] = s3 - 3 /\ \A x \in Reg \ {"SP"} : reg'[x] = reg[x]
        /\ Read24(mem', s3 - 2) = IF j.op = "PUSH0" THEN j.a ELSE reg[j.r]
        /\ \A c \in Cells : c \notin s3 - 2 .. s3 => mem'[c] = mem[c]
    <3>1. Frame(p, A, r0, m0, Rs) /\ Programs[p][PC] = j /\ j.op \in {"PUSH0", "PUSH1"}
      BY <1>20, <2>3 DEF F, P
    <3> QED  BY <1>1, <1>2, <1>7, <1>20, <2>1, <3>1, TurnPush DEF F
  <2>5. s + 4 \in Nat /\ Has(s + 4, 3) /\ s + 4 > s3
    BY <1>3 DEF Has
  <2>6. Read24(mem', s + 4) = Read24(mem, s + 4)
    BY <2>4, <2>5, WordStays
  <2>7. Read24(mem', s + 1) = reg["DI"] /\ reg'["SP"] = s
    BY <1>5, <2>3, <2>4
  <2>8. PC' = b + 14
    BY <1>1, <2>1, <2>3, <2>4
  <2> QED  BY <1>20, <2>4, <2>6, <2>7, <2>8 DEF S12, S14, Told, Top
<1>21. ASSUME F, S14, Turn PROVE F' /\ Done'
  <2>1. P[PC] = Ins("RET", "AC", "AC", 0, 0) /\ reg["SP"] = s
    <3>1. PC = b + 14 /\ reg["SP"] = s
      BY <1>21 DEF S14
    <3>2. P[b + 14] = Ins("RET", "AC", "AC", 0, 0)
      BY <1>1 DEF PutsAt
    <3> QED  BY <3>1, <3>2
  <2>2. /\ F' /\ mem' = mem /\ out' = out /\ inp' = inp
        /\ PC' = Read24(mem, s + 1) /\ reg'["SP"] = s + 3
    BY <1>1, <1>2, <1>5, <1>21, <2>1, TurnReturn DEF F, P
  <2> QED  BY <1>21, <2>2 DEF S14, Done, Told, Top
<1>22. Inv /\ PC # ret /\ Turn => Inv'
  <2> SUFFICES ASSUME Inv, PC # ret, Turn PROVE Inv'
    OBVIOUS
  <2>1. S0 \/ S2 \/ S8 \/ S12 \/ S14 => Inv'
    BY <1>10, <1>11, <1>19, <1>20, <1>21
  <2>2. ASSUME S4 PROVE Inv'
    <3>1. F' /\ S15(0)'
      BY <2>2, <1>12
    <3>2. 0 \in 0 .. e
      OBVIOUS
    <3> QED  BY <3>1, <3>2
  <2>3. ASSUME NEW h \in 0 .. e, Char(h) PROVE Inv'
    <3>1. S15(h) \/ S17(h) \/ S22(h) \/ S23(h) \/ S25(h) => Inv'
      BY <1>13, <1>14, <1>15, <1>16, <1>17
    <3>2. S27(h) => Inv'
      BY <1>18
    <3> QED  BY <2>3, <3>1, <3>2
  <2>4. ~Done
    BY DEF Done
  <2> QED  BY <2>1, <2>2, <2>3, <2>4
<1>23. Inv /\ UNCHANGED pvars => Inv'
  <2> SUFFICES ASSUME Inv, UNCHANGED pvars PROVE Inv'
    OBVIOUS
  <2>1. PC' = PC /\ PS' = PS /\ reg' = reg /\ mem' = mem /\ out' = out /\ inp' = inp
    BY DEF pvars, vars
  <2>2. F'
    BY FrameStays DEF F
  <2>3. \A h \in 0 .. e : Char(h) => Char(h)'
    BY <2>1 DEF S15, S17, S22, S23, S25, S27, Told, Top
  <2>4. S0 \/ S2 \/ S4 \/ S8 \/ S12 \/ S14 \/ Done =>
          (S0 \/ S2 \/ S4 \/ S8 \/ S12 \/ S14 \/ Done)'
    BY <2>1 DEF S0, S2, S4, S8, S12, S14, Done, Told, Top
  <2> QED  BY <2>2, <2>3, <2>4
<1>24. Called(p, b, ret, r0, m0, o, i) => Inv
  <2> SUFFICES ASSUME Called(p, b, ret, r0, m0, o, i) PROVE Inv
    OBVIOUS
  <2>1. F
    BY FrameOfCall DEF F
  <2>2. S0
    BY <1>1, AfterNone DEF Called, S0, Told, Top
  <2> QED  BY <2>1, <2>2
<1>25. ASSUME Told(e)
       PROVE  out = o \o D /\ (e < 256 => out = o \o Text(m0, a))
  <2>1. Adds(out, o, e, D) /\ e \in 0 .. e
    BY <1>25 DEF Told
  <2>2. out \in Seq(Byte) /\ o \in Seq(Byte) /\ Len(out) = Len(o) + e
        /\ \A k \in 1 .. e : out[Len(o) + k] = D[k]
    BY <2>1 DEF Adds
  <2>3. ASSUME NEW k \in 1 .. e PROVE D[k] \in Byte
    <3>1. PICK x : x = Len(o) + k
      OBVIOUS
    <3>2. x \in 1 .. Len(out)
      BY <2>2, <3>1, SMTT(30)
    <3>3. out[x] \in Byte
      BY <2>2, <3>2
    <3> QED  BY <2>2, <3>1, <3>3
  <2>4. D = [k \in 1 .. e |-> D[k]]
    BY DEF D, Chars
  <2>5. D \in [1 .. e -> Byte]
    BY <2>3, <2>4
  <2>6. D \in Seq(Byte) /\ Len(D) = e
    BY <2>5, ListIs
  <2>7. out = o \o D
    BY <2>1, <2>6, AfterAll
  <2>8. ASSUME e < 256 PROVE Text(m0, a) = D
    <3>1. e \in 0 .. 255
      BY <2>8
    <3>2. m0[a + e] = 0 /\ \A k \in 0 .. e - 1 : m0[a + k] # 0
      BY SMTT(30)
    <3>3. Text(m0, a) = Chars(m0, a, e)
      BY <3>1, <3>2, TextIs, ZenonT(60)
    <3> QED  BY <3>3 DEF D
  <2> QED  BY <2>7, <2>8
<1>26. Inv => /\ Frame(p, s + 1 .. s + 6, r0, m0, {"AC", "DI", "DT", "SP"})
              /\ PC \in (b .. b + 30) \cup {ret}
              /\ PC = ret => /\ out = o \o Chars(m0, a, e) /\ inp = i
                             /\ e < 256 => out = o \o Text(m0, a)
                             /\ reg["SP"] = s + 3 /\ Read24(mem, s + 4) = 0
  <2> SUFFICES ASSUME Inv
               PROVE  /\ F /\ PC \in (b .. b + 30) \cup {ret}
                      /\ PC = ret => /\ out = o \o D /\ inp = i
                                     /\ e < 256 => out = o \o Text(m0, a)
                                     /\ reg["SP"] = s + 3 /\ Read24(mem, s + 4) = 0
    BY DEF A, F, D, Rs
  <2>1. (\E h \in 0 .. e : Char(h)) => PC \in b .. b + 30
    BY <1>1 DEF S15, S17, S22, S23, S25, S27
  <2>2. S0 \/ S2 \/ S4 \/ S8 \/ S12 \/ S14 => PC \in b .. b + 30
    BY <1>1 DEF S0, S2, S4, S8, S12, S14
  <2>3. Done => /\ PC = ret /\ inp = i /\ reg["SP"] = s + 3 /\ Read24(mem, s + 4) = 0
                /\ out = o \o D /\ (e < 256 => out = o \o Text(m0, a))
    BY <1>25 DEF Done, Top
  <2> QED  BY <2>1, <2>2, <2>3
<1> HIDE DEF Inv
<1> QED  BY <1>22, <1>23, <1>24, <1>26, PTL

-----------------------------------------------------------------------------
(* The inductive invariants.                                               *)
Loading == {"args", "load", "bios", "cli"}

\* The processor starts where it was reset, main() saves only after it has
\* given the terminal back, and a program that trapped was shown the
\* debugger on a tame terminal.
TerminalKnown ==
  /\ at \in Loading => run = "running"
  /\ at \in {"save", "saving"} => tty = "own"
  /\ at = "exec" /\ run = "exited" => tty # "raw"
  /\ TerminalRestored

\* The option "disk" was one of the arguments before the file, and no file
\* is touched before main() saves.
FileChosen ==
  /\ driveboot => argp >= 2
  /\ at = "args" => filename = NoName
  /\ filename # NoName => argp <= Len(argv) /\ filename = argv[argp]
  /\ at \notin {"args", "load", "done"} => filename # NoName

FilesKept ==
  /\ at \notin {"saving", "done"} => files = Given
  /\ at \in {"save", "saving"} => driveboot
  /\ at = "saving" => files = [Given EXCEPT ![Arg(2)] = File("short", Blank)]
  /\ DiskAllOrNothing
  /\ DiskSaved

IInv == MachineTypeOK /\ TerminalKnown /\ FileChosen /\ FilesKept

-----------------------------------------------------------------------------
(* The arguments are names of files and options.                           *)
LEMMA ArgTypes ==
  ASSUME MachineTypeOK, NEW k \in Nat, k >= 1
  PROVE  /\ Arg(k) \in Names \union Options \union {NoName}
         /\ Arg(k) # NoName => k <= Len(argv) /\ Arg(k) = argv[k]
<1>1. argv \in Seq(Names \union Options)
  BY FilesAssumption DEF MachineTypeOK
<1>2. CASE k <= Len(argv)
  <2>1. argv[k] \in Names \union Options
    BY <1>1, <1>2
  <2> QED
    BY <1>2, <2>1 DEF Arg
<1>3. CASE ~(k <= Len(argv))
  BY <1>3 DEF Arg
<1> QED
  BY <1>2, <1>3

(* Ending leaves the processor, the files and the options.                 *)
LEMMA EndTypes ==
  ASSUME MachineTypeOK, NEW s \in {"failed", "quit", "returned", "fault", "killed"},
         NEW mode \in {"own", "raw", "tame"}, Ends(s, mode),
         UNCHANGED <<cpu, files, began, argv, argp, opts>>
  PROVE  MachineTypeOK'
BY DEF Ends, MachineTypeOK, TypeOK, cpu, vars, opts

LEMMA GotoTypes ==
  ASSUME MachineTypeOK, NEW place \in {"bios", "cli", "exec"}, Goto(place),
         TypeOK', UNCHANGED <<argv, argp, opts, files>>, began' \in [Disk -> Byte]
  PROVE  MachineTypeOK'
BY DEF Goto, Mode, MachineTypeOK, opts

LEMMA TypesNext == MachineTypeOK /\ [MachineNext]_mvars => MachineTypeOK'
<1> SUFFICES ASSUME MachineTypeOK, [MachineNext]_mvars
             PROVE  MachineTypeOK'
  OBVIOUS
<1>1. TypeOK /\ argp \in Nat /\ argp >= 1 /\ tty \in {"own", "raw", "tame"}
  BY DEF MachineTypeOK
<1>2. CASE NoArguments \/ Help
  BY <1>2, EndTypes DEF NoArguments, Help, Fails
<1>3. CASE ParseOption
  <2>1. argp <= Len(argv)
    BY <1>1, <1>3, ArgTypes DEF ParseOption, NoName
  <2>2. argp' \in 1 .. Len(argv) + 2
    BY <1>1, <1>3, <2>1 DEF ParseOption, MachineTypeOK
  <2>3. biosfile' \in Names \union Options \union {NoName}
    <3>1. Arg(argp + 1) \in Names \union Options \union {NoName}
      BY <1>1, ArgTypes
    <3> QED
      BY <1>3, <3>1 DEF ParseOption, MachineTypeOK
  <2> QED
    BY <1>3, <2>2, <2>3, ZenonT(60) DEF ParseOption, MachineTypeOK, TypeOK, cpu, vars
<1>4. CASE ParseFile
  <2>1. filename' \in Names \union {NoName}
    BY <1>1, <1>4, ArgTypes DEF ParseFile
  <2> QED
    BY <1>4, <2>1 DEF ParseFile, MachineTypeOK, TypeOK, cpu, vars
<1>5. CASE Load
  <2>1. CASE ~Readable(filename) /\ Fails
    BY <1>5, <2>1, EndTypes DEF Load, Fails
  <2>2. CASE Faults
    BY <1>1, <1>5, <2>2, EndTypes DEF Load, Faults
  <2>3. CASE /\ Readable(filename)
             /\ mem' \in Images
             /\ rom' = IF driveboot THEN files[filename].rom ELSE Marked(Blank)
             /\ began' = rom'
             /\ Goto(After("load"))
             /\ UNCHANGED <<reg, PS, PC, run, lc_errno, files>>
    <3>1. 0 \in Byte /\ 99 \in Byte /\ 35 \in Byte /\ 247 \in Byte
      BY Widths
    <3>2. Marked(Blank) \in [Disk -> Byte]
      BY <3>1 DEF Marked, Blank
    <3>3. driveboot => files[filename].rom \in [Disk -> Byte]
      BY <2>3 DEF MachineTypeOK, Readable
    <3>4. TypeOK' /\ began' \in [Disk -> Byte]
      BY <2>3, <3>2, <3>3, ImagesAssumption DEF MachineTypeOK, TypeOK
    <3> QED
      BY <1>5, <2>3, <3>4, GotoTypes DEF Load, After
  <2> QED
    BY <1>5, <2>1, <2>2, <2>3 DEF Load
<1>6. CASE LoadBios
  <2>1. CASE Fails
    BY <1>6, <2>1, EndTypes DEF LoadBios, Fails
  <2>2. CASE Faults
    BY <1>1, <1>6, <2>2, EndTypes DEF LoadBios, Faults
  <2>3. CASE /\ mem' \in Images
             /\ Goto(After("bios"))
             /\ UNCHANGED <<reg, PS, PC, rom, run, lc_errno, files, began>>
    <3>1. TypeOK' /\ began' \in [Disk -> Byte]
      BY <2>3, ImagesAssumption DEF MachineTypeOK, TypeOK
    <3> QED
      BY <1>6, <2>3, <3>1, GotoTypes DEF LoadBios, After
  <2> QED
    BY <1>6, <2>1, <2>2, <2>3 DEF LoadBios
<1>7. CASE Debug
  <2>1. CASE Ends("quit", "own") /\ UNCHANGED <<cpu, files, began>>
    BY <1>7, <2>1, EndTypes DEF Debug
  <2>2. CASE Goto("exec") /\ UNCHANGED <<cpu, files, began>>
    <3>1. TypeOK' /\ began' \in [Disk -> Byte]
      BY <2>2 DEF MachineTypeOK, TypeOK, cpu, vars
    <3> QED
      BY <1>7, <2>2, <3>1, GotoTypes DEF Debug
  <2>3. CASE /\ Scribble(Poked)
             /\ UNCHANGED <<reg, PS, PC, rom, run, lc_errno, at, tty, status, files, began>>
    <3>1. mem' \in [Cells -> Byte]
      BY <1>1, <2>3, ScribbleType DEF TypeOK
    <3> QED
      BY <1>7, <2>3, <3>1 DEF Debug, MachineTypeOK, TypeOK, opts
  <2> QED
    BY <1>7, <2>1, <2>2, <2>3 DEF Debug
<1>8. CASE Execute
  <2>1. PICK i \in ISA : /\ Step(i)
                         /\ tty' = IF Tamed(i) THEN "tame" ELSE tty
                         /\ UNCHANGED <<argv, argp, opts, at, files, status, began>>
    BY <1>8 DEF Execute
  <2>2. TypeOK'
    BY <1>1, <2>1, StepTypes
  <2> QED
    BY <2>1, <2>2 DEF MachineTypeOK, opts
<1>9. CASE Quit \/ Crash \/ Interrupt
  BY <1>1, <1>9, EndTypes DEF Quit, Crash, Interrupt
<1>10. CASE Stop
  BY <1>10 DEF Stop, MachineTypeOK, TypeOK, cpu, vars, opts
<1>11. CASE Save
  <2>1. Blank \in [Disk -> Byte]
    BY Widths DEF Blank
  <2>2. files' \in [Names \union Options -> [is : {"absent", "short", "whole"},
                                            rom : [Disk -> Byte]]]
    BY <1>11, <2>1 DEF Save, MachineTypeOK, File
  <2> QED
    BY <1>11, <2>2 DEF Save, Ends, MachineTypeOK, TypeOK, cpu, vars, opts
<1>12. CASE WriteDisk
  <2>1. files' \in [Names \union Options -> [is : {"absent", "short", "whole"},
                                            rom : [Disk -> Byte]]]
    BY <1>1, <1>12 DEF WriteDisk, MachineTypeOK, TypeOK, File
  <2> QED
    BY <1>12, <2>1 DEF WriteDisk, Ends, MachineTypeOK, TypeOK, cpu, vars, opts
<1>13. CASE UNCHANGED mvars
  BY <1>13 DEF mvars, MachineTypeOK, TypeOK, cpu, vars, opts
<1> QED
  BY <1>2, <1>3, <1>4, <1>5, <1>6, <1>7, <1>8, <1>9, <1>10, <1>11, <1>12, <1>13
     DEF MachineNext

LEMMA TypesInit == MachineInit => MachineTypeOK
<1> SUFFICES ASSUME MachineInit PROVE MachineTypeOK
  OBVIOUS
<1>1. TypeOK
  BY InitTypes DEF MachineInit
<1>2. argv \in Args /\ argp \in 1 .. Len(argv) + 2
  <2>1. argv \in Seq(Names \union Options) /\ argp = 1
    BY FilesAssumption DEF MachineInit
  <2>2. Len(argv) \in Nat
    BY <2>1
  <2> QED
    BY <2>1, <2>2 DEF MachineInit
<1>3. Blank \in [Disk -> Byte]
  BY Widths DEF Blank
<1>4. files \in [Names \union Options -> [is : {"absent", "short", "whole"},
                                         rom : [Disk -> Byte]]]
  BY FilesAssumption DEF MachineInit
<1> QED
  BY <1>1, <1>2, <1>3, <1>4 DEF MachineInit, MachineTypeOK

-----------------------------------------------------------------------------
(* The terminal.  Only the trap instruction lets the debugger end a        *)
(* program, and the trap has tamed the terminal first.                     *)
LEMMA ExitIsTrap ==
  ASSUME NEW i, Step(i), run' = "exited"
  PROVE  Tamed(i)
<1>1. run = "running" /\ Exec(i)
  BY DEF Step
<1>2. ~Control(i)
  BY <1>1 DEF Control, JME0, JMNE0, JL0, JG0, Jump, LOOP, rest
<1>3. ~Stack(i)
  BY <1>1 DEF Stack, PUSH, POP1, COP1, CALL, Return, IRET, StackFault, rest
<1>4. ~Compute(i)
  BY <1>1 DEF Compute, AluRR, AluRI, DIV, DivideByZero, Step1, XCHG4, CMP, FLAGS, rest
<1>5. ~Memory(i)
  BY <1>1 DEF Memory, LOAD, STORE, WalkStore, WalkLoad, Step1M, DISK, rest
<1>6. ~INT(i)
  BY <1>1 DEF INT, IntMasked, IntVector, IntExit, IntRead, IntWrite, IntReset,
              IntVideoWrite, IntDraw, IntAsk, IntWait, IntBeep, IntIllegal, rest, vars
<1>7. HLT1(i)
  BY <1>1, <1>2, <1>3, <1>4, <1>5, <1>6 DEF Exec, System, CPUID, HLT, UNK
<1> QED
  BY <1>7 DEF HLT1, Tamed

LEMMA TerminalNext ==
  TerminalKnown /\ [MachineNext]_mvars => TerminalKnown'
<1> SUFFICES ASSUME TerminalKnown, [MachineNext]_mvars
             PROVE  TerminalKnown'
  OBVIOUS
<1> USE DEF TerminalKnown, TerminalRestored, Loading
<1>1. CASE NoArguments \/ Help
  BY <1>1 DEF NoArguments, Help, Fails, Ends
<1>2. CASE ParseOption \/ ParseFile
  BY <1>2 DEF ParseOption, ParseFile, cpu, vars
<1>3. CASE Load \/ LoadBios
  BY <1>3 DEF Load, LoadBios, Fails, Faults, Ends, Goto, After
<1>4. CASE Debug
  BY <1>4 DEF Debug, Ends, Goto, cpu, vars
<1>5. CASE Execute
  <2>1. PICK i \in ISA : /\ at = "exec" /\ Step(i)
                         /\ tty' = IF Tamed(i) THEN "tame" ELSE tty
                         /\ UNCHANGED <<at, status>>
    BY <1>5 DEF Execute
  <2> QED
    BY <2>1, ExitIsTrap
<1>6. CASE Quit \/ Crash
  BY <1>6 DEF Quit, Crash, Ends
<1>7. CASE Stop
  BY <1>7 DEF Stop
<1>8. CASE Save \/ WriteDisk
  BY <1>8 DEF Save, WriteDisk, Ends
<1>9. CASE Interrupt
  BY <1>9 DEF Interrupt, Ends
<1>10. CASE UNCHANGED mvars
  BY <1>10 DEF mvars, cpu, vars
<1> QED
  BY <1>1, <1>2, <1>3, <1>4, <1>5, <1>6, <1>7, <1>8, <1>9, <1>10 DEF MachineNext

-----------------------------------------------------------------------------
(* The file of the disk.                                                   *)
LEMMA ChosenNext ==
  MachineTypeOK /\ FileChosen /\ [MachineNext]_mvars => FileChosen'
<1> SUFFICES ASSUME MachineTypeOK, FileChosen, [MachineNext]_mvars
             PROVE  FileChosen'
  OBVIOUS
<1>1. argp \in Nat /\ argp >= 1 /\ Len(argv) \in Nat
  BY FilesAssumption DEF MachineTypeOK
<1> USE DEF FileChosen
<1>2. CASE NoArguments \/ Help
  BY <1>2 DEF NoArguments, Help, Fails, Ends, opts
<1>3. CASE ParseOption
  BY <1>1, <1>3 DEF ParseOption
<1>4. CASE ParseFile
  <2>1. filename' # NoName => argp <= Len(argv) /\ filename' = argv[argp]
    BY <1>1, <1>4, ArgTypes DEF ParseFile
  <2> QED
    BY <1>4, <2>1 DEF ParseFile
<1>5. CASE Load
  BY <1>5 DEF Load, Readable, Fails, Faults, Ends, Goto, After, opts
<1>6. CASE LoadBios
  BY <1>6 DEF LoadBios, Fails, Faults, Ends, Goto, After, opts
<1>7. CASE Debug
  BY <1>7 DEF Debug, Ends, Goto, opts
<1>8. CASE Execute
  BY <1>8 DEF Execute, opts
<1>9. CASE Quit \/ Crash \/ Stop \/ Save \/ WriteDisk \/ Interrupt
  BY <1>9 DEF Quit, Crash, Stop, Save, WriteDisk, Interrupt, Ends, opts
<1>10. CASE UNCHANGED mvars
  BY <1>10 DEF mvars, opts
<1> QED
  BY <1>2, <1>3, <1>4, <1>5, <1>6, <1>7, <1>8, <1>9, <1>10 DEF MachineNext

\* With the one option "disk" it is the second argument.
LEMMA SecondArgument ==
  ASSUME MachineTypeOK, FileChosen, driveboot, Len(argv) = 2, filename # NoName
  PROVE  Arg(2) = filename /\ filename \in Names
<1>1. argp \in Nat
  BY DEF MachineTypeOK
<1>2. argp = 2
  BY <1>1 DEF FileChosen
<1> QED
  BY <1>2 DEF FileChosen, Arg, MachineTypeOK

LEMMA FilesNext ==
  IInv /\ [MachineNext]_mvars => FilesKept'
<1> SUFFICES ASSUME IInv, [MachineNext]_mvars
             PROVE  FilesKept'
  OBVIOUS
<1> USE DEF IInv
<1>1. Given \in [Names \union Options -> [is : {"absent", "short", "whole"},
                                          rom : [Disk -> Byte]]]
  BY FilesAssumption
<1>2. ASSUME files' = Given, at \notin {"saving", "done"}, at' # "saving",
             at' = "save" => driveboot', at' = "done" => status' # "returned" \/ ~driveboot'
      PROVE  FilesKept'
  BY <1>2 DEF FilesKept, DiskAllOrNothing, DiskSaved
<1>3. CASE NoArguments \/ Help \/ ParseOption \/ ParseFile
  BY <1>2, <1>3 DEF NoArguments, Help, ParseOption, ParseFile, Fails, Ends, FilesKept
<1>4. CASE Load \/ LoadBios
  BY <1>2, <1>4 DEF Load, LoadBios, Fails, Faults, Ends, Goto, After, FilesKept
<1>5. CASE Debug \/ Execute \/ Quit \/ Crash \/ Stop
  BY <1>2, <1>5 DEF Debug, Execute, Quit, Crash, Stop, Ends, Goto, FilesKept, opts
<1>6. CASE Save
  <2>1. CASE Ends("failed", tty) /\ UNCHANGED files
    BY <1>2, <1>6, <2>1 DEF Save, Ends, FilesKept
  <2>2. CASE /\ files' = [files EXCEPT ![Arg(2)] = File("short", Blank)]
             /\ at' = "saving"
    BY <1>6, <2>2 DEF Save, FilesKept, DiskAllOrNothing, DiskSaved, opts, Arg
  <2> QED
    BY <1>6, <2>1, <2>2 DEF Save
<1>7. ASSUME at = "saving", at' = "done", driveboot, Len(argv) = 2,
             UNCHANGED <<rom, argv, filename>>,
             \/ files' = files /\ status' \in {"killed", "returned"}
             \/ files' = [files EXCEPT ![Arg(2)] = File("whole", rom)]
      PROVE  /\ \A n \in (DOMAIN files') \ {filename} : files'[n] = Given[n]
             /\ \/ files'[filename] = File("short", Blank) /\ status' \in {"killed", "returned"}
                \/ files'[filename] = File("whole", rom)
  <2>1. filename # NoName /\ files = [Given EXCEPT ![Arg(2)] = File("short", Blank)]
    BY <1>7 DEF FileChosen, FilesKept
  <2>2. Arg(2) = filename /\ filename \in Names \union Options
    BY <1>7, <2>1, SecondArgument
  <2> QED
    BY <1>1, <1>7, <2>1, <2>2
<1>8. CASE WriteDisk
  <2>1. /\ at = "saving" /\ at' = "done" /\ status' = "returned"
        /\ UNCHANGED <<rom, argv, driveboot, filename>>
        /\ \/ files' = files
           \/ files' = [files EXCEPT ![Arg(2)] = File("whole", rom)]
    BY <1>8 DEF WriteDisk, Ends, opts, cpu, vars
  <2> QED
    BY <1>7, <2>1 DEF FilesKept, DiskAllOrNothing, DiskSaved, File
<1>9. CASE Interrupt
  <2>1. /\ at' = "done" /\ status' = "killed"
        /\ UNCHANGED <<rom, argv, driveboot, filename, files>>
    BY <1>9 DEF Interrupt, Ends, opts, cpu, vars
  <2>2. CASE at = "saving"
    BY <1>7, <2>1, <2>2 DEF FilesKept, DiskAllOrNothing, DiskSaved, File
  <2>3. CASE at # "saving"
    BY <1>2, <1>9, <2>1, <2>3 DEF Interrupt, FilesKept
  <2> QED
    BY <2>2, <2>3
<1>10. CASE UNCHANGED mvars
  BY <1>10 DEF mvars, opts, cpu, vars, FilesKept, DiskAllOrNothing, DiskSaved, Arg
<1> QED
  BY <1>3, <1>4, <1>5, <1>6, <1>8, <1>9, <1>10 DEF MachineNext

LEMMA Inductive == MachineSpec => []IInv
<1>1. MachineInit => IInv
  BY TypesInit
     DEF IInv, MachineInit, Init, TerminalKnown, TerminalRestored, FileChosen, FilesKept,
         DiskAllOrNothing, DiskSaved
<1>2. IInv /\ [MachineNext]_mvars => IInv'
  BY TypesNext, TerminalNext, ChosenNext, FilesNext DEF IInv
<1> QED
  BY <1>1, <1>2, PTL DEF MachineSpec

-----------------------------------------------------------------------------
(* The command line, the files, the terminal and the processor of a run    *)
(* keep their types: parsing never looks past the argument after the last, *)
(* and the file it takes is no option.                                     *)
THEOREM MachineTypes == MachineSpec => []MachineTypeOK
  BY Inductive, PTL DEF IInv

(* Whatever the arguments, the files and the program, the emulator gives   *)
(* back a terminal that echoes, unless the host faults.                    *)
THEOREM TerminalGivenBack == MachineSpec => []TerminalRestored
  BY Inductive, PTL DEF IInv, TerminalKnown

(* The file of the disk holds what it held, or all of the disk the program *)
(* left, and half of one only when the emulator was stopped in between.    *)
THEOREM DiskIsWhole == MachineSpec => []DiskAllOrNothing
  BY Inductive, PTL DEF IInv, FilesKept

(* A run that returns has written the disk, whatever the exit status.      *)
THEOREM DiskIsKept == MachineSpec => []DiskSaved
  BY Inductive, PTL DEF IInv, FilesKept
=============================================================================
