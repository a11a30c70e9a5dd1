--------------------------------- MODULE Las ----------------------------------
(***************************************************************************)
(* The assembler las (compilers/las) and the decoding of its bytes by the  *)
(* table INSTS of lib/cpu24/cpu24.h.                                       *)
(*                                                                         *)
(* A line of assembly is an instruction and the label its operand names,   *)
(* or the definition of a label.  A mnemonic and the kinds of its operands *)
(* go by the name of the C function they are meant for.  The floating-     *)
(* point lines are left out, as they are in Lc24Cpu.                       *)
(***************************************************************************)
EXTENDS Lc24Cpu, Sequences

Ins(op, r, s, a, n) == [op |-> op, r |-> r, s |-> s, a |-> a, n |-> n]
Line(op, r, s, a, n) == [ins |-> Ins(op, r, s, a, n), to |-> << >>]
To(op, label) == [Line(op, "AC", "AC", 0, 0) EXCEPT !.to = label]
Label(label)  == To("LABEL", label)

Pop(r)       == Line("POP1", r, "AC", 0, 0)
PushReg(r)   == Line("PUSH1", r, "AC", 0, 0)
PushImm(v)   == Line("PUSH0", "AC", "AC", v, 0)
MovImm(r, v) == Line("ALUI", r, "AC", v, 0)
AddImm(r, v) == Line("ALUI", r, "AC", v, 1)
DivImm(r, v) == Line("DIVI", r, "AC", v, 0)
CmpImm(r, v) == Line("CMP10", r, "AC", v, 0)
DexReg(r)    == Line("DEXr", r, "AC", 0, 0)
Plain(op)    == Line(op, "AC", "AC", 0, 0)
RR(op, r, s) == Line(op, r, s, 0, 0)
Trap(n)      == Line("INT0", "AC", "AC", 0, n)

KEYR == <<"AC", "BS", "CN", "DC", "DT", "DI", "SP", "BP",
          "EX", "FX", "HX", "LX", "X", "Y", "IX", "IY">>
Id == [r \in Reg |-> CHOOSE k \in 0 .. 15 : KEYR[k + 1] = r]

-----------------------------------------------------------------------------
(* What las emits, and how long its parser takes each line to be. *)

Alone    == {"HLT1", "IRET", "LFA", "LAF", "RE", "RNE", "HLT", "CLI", "RC", "RET",
             "STI", "LODSB", "LODGB", "LODSW", "STOSW", "CLC", "CPUID", "NOP", "LDD"}
OneReg   == {"STORB", "STORW", "STGRB", "STD", "PUSH1", "PUSHp", "POP1", "COP1",
             "JMP1", "NOT"}
TwoRegs  == {"ADD", "SUB", "MUL", "DIV11", "OR", "AND", "CMP11", "MOV", "XCHG4"}
            \cup Walks
OneImm   == (Branches \ {"JMP1"}) \cup {"PUSH0", "CALL", "INXM", "DEXM"}
OneByte  == {"INT0", "STRb", "STOSB", "STOGB"}
RegImm   == {"ALUI", "DIVI", "LDA", "STr0"}
RegByte  == {"LDZS", "LDZG", "LDAS", "LDAG"}

\* Opcodes of las, and their row when the low digit is a register.
Opcodes ==
  [HLT1 |-> 0, IRET |-> 4, ADD |-> 5, SUB |-> 6, MUL |-> 7, DIV11 |-> 8, LFA |-> 9,
   LAF |-> 10, OR |-> 11, AND |-> 12, CMP11 |-> 13, CMP10 |-> 14, LDRp |-> 16,
   LDA |-> 32, CMPpi |-> 41, LOOP |-> 42, RE |-> 43, RNE |-> 44, HLT |-> 46,
   CLI |-> 47, POW11 |-> 48, POW10 |-> 49, RC |-> 50, RET |-> 51, STI |-> 52,
   XCHG4 |-> 53, LODSB |-> 54, STORB |-> 55, LODGB |-> 58, STGRB |-> 59,
   LODSW |-> 62, STORW |-> 63, LDZS |-> 80, STOGB |-> 94, STOSB |-> 95,
   LDZG |-> 96, STOSW |-> 110, LDAS |-> 112, LDAG |-> 128, DIVI |-> 136,
   MOV |-> 144, CLC |-> 159, INXr |-> 160, DEXr |-> 176, MV26 |-> 192,
   INT0 |-> 193, JME0 |-> 195, JMNE0 |-> 196, JL0 |-> 197, JG0 |-> 198,
   PUSH0 |-> 199, PUSH1 |-> 200, PUSHp |-> 201, POP1 |-> 202, CPUID |-> 203,
   NOP |-> 204, INXM |-> 208, DEXM |-> 209, STRb |-> 210, JMP0 |-> 211,
   JMP1 |-> 212, JMP2 |-> 213, CALL |-> 214, COP1 |-> 215, LOBHg |-> 216,
   STr0 |-> 224, SBc |-> 240, LBc |-> 241, SWc |-> 242, LWc |-> 243, NOT |-> 243,
   SHc |-> 244, LHc |-> 245]
CodeOf(i) ==
  CASE i.op = "LDD"  -> IF i.s = "DT" THEN 56 ELSE 60
    [] i.op = "STD"  -> IF i.s = "DT" THEN 57 ELSE 61
    [] i.op = "ALUI" -> IF i.n = 0 THEN 64 ELSE 72 + 16 * i.n
    [] OTHER -> Opcodes[i.op]

\* Wrong on purpose: the two registers of a cluster change places.
Cluster_swapped(r, s) == 16 * s + r
Cluster(r, s) == 16 * r + s

Emitted(i) ==
  LET c == CodeOf(i)  r == Id[i.r]  s == Id[i.s]
      lo == Digit(i.a, 0)  mid == Digit(i.a, 1)  hi == Digit(i.a, 2)
  IN CASE i.op \in Alone              -> << c >>
       [] i.op \in {"INXr", "DEXr"}   -> << c + r >>
       [] i.op \in OneReg             -> << c, r >>
       [] i.op \in TwoRegs            -> << c, Cluster(r, s) >>
       [] i.op \in OneByte            -> << c, i.n >>
       [] i.op \in RegByte            -> << c + r, i.n >>
       [] i.op = "LDRp"               -> << c + r, s >>
       [] i.op = "LOBHg"              -> << c, 32 * r + i.n >>
       [] i.op = "POW11"              -> << c, r, s >>
       [] i.op = "POW10"              -> << c, r, i.n >>
       [] i.op \in OneImm             -> << c, lo, mid, hi >>
       [] i.op \in RegImm             -> << c + r, lo, mid, hi >>
       [] i.op \in {"CMP10", "CMPpi"} -> << c, r, lo, mid, hi >>
       [] i.op = "MV26"               -> << c, lo, mid, hi, i.n >>

Bytes(op) ==
  CASE op = "LABEL"                                 -> 0
    [] op \in Alone \cup {"INXr", "DEXr"}           -> 1
    [] op \in {"POW11", "POW10"}                    -> 3
    [] op \in OneImm \cup RegImm                    -> 4
    [] op \in {"CMP10", "CMPpi", "MV26"}            -> 5
    [] OTHER                                        -> 2

-----------------------------------------------------------------------------
(* What the processor makes of bytes. *)

\* A row of the table that one handler fills, and a row with the six
\* registers of a load, two holes, and an operation on an immediate.
All(op) == [j \in 1 .. 16 |-> op]
Six(load, op, x, y) == [j \in 1 .. 16 |-> IF j <= 6 THEN load ELSE IF j <= 8 THEN "UNK"
                                          ELSE IF j <= 14 THEN op ELSE IF j = 15 THEN x ELSE y]

\* The table by the high digit of the opcode, and within a row by the low one.
Row(h) ==
  CASE h = 0  -> << "HLT1", "UNK", "UNK", "UNK", "IRET", "ADD", "SUB", "MUL", "DIV11",
                    "LFA", "LAF", "OR", "AND", "CMP11", "CMP10", "UNK" >>
    [] h = 1  -> All("LDRp")
    [] h = 2  -> << "LDA", "LDA", "LDA", "LDA", "LDA", "LDA", "UNK", "UNK", "UNK",
                    "CMPpi", "LOOP", "RE", "RNE", "UNK", "HLT", "CLI" >>
    [] h = 3  -> << "POW11", "POW10", "RC", "RET", "STI", "XCHG4", "LODSB", "STORB",
                    "LDD", "STD", "LODGB", "STGRB", "LDD", "STD", "LODSW", "STORW" >>
    [] h = 4  -> All("ALUI")
    [] h = 5  -> Six("LDZS", "ALUI", "ALUI", "ALUI")
    [] h = 6  -> Six("LDZG", "ALUI", "ALUI", "ALUI")
    [] h = 7  -> Six("LDAS", "ALUI", "STOGB", "STOSB")
    [] h = 8  -> Six("LDAG", "DIVI", "STOSW", "UNK")
    [] h = 9  -> [All("UNK") EXCEPT ![1] = "MOV", ![16] = "CLC"]
    [] h = 10 -> All("INXr")
    [] h = 11 -> All("DEXr")
    [] h = 12 -> << "MV26", "INT0", "INT1", "JME0", "JMNE0", "JL0", "JG0", "PUSH0",
                    "PUSH1", "PUSHp", "POP1", "CPUID", "UNK", "UNK", "UNK", "UNK" >>
    [] h = 13 -> << "INXM", "DEXM", "STRb", "JMP0", "JMP1", "JMP2", "CALL", "COP1",
                    "LOBHg", "UNK", "UNK", "UNK", "UNK", "UNK", "UNK", "NOT" >>
    [] h = 14 -> All("STr0")
    [] h = 15 -> << "SBc", "LBc", "SWc", "LWc", "SHc", "LHc", "XOR", "LOBBg", "UNK",
                    "UNK", "UNK", "UNK", "UNK", "UNK", "UNK", "UNK" >>
INSTS == [c \in Byte |-> Row(c \div 16)[(c % 16) + 1]]

\* How many bytes a handler reads, its opcode included.
Taken(op) ==
  CASE op \in (Alone \ {"NOP"}) \cup {"INXr", "DEXr", "UNK"}            -> 1
    [] op \in {"POW10", "STr0"}                                         -> 3
    [] op \in OneImm \cup {"ALUI", "DIVI", "LDA", "LDAS", "LDAG"}       -> 4
    [] op \in {"CMP10", "CMPpi", "MV26"}                                -> 5
    [] OTHER                                                            -> 2

\* The register in an opcode: INXr, LDr0 and their like have it in the low
\* digit, ADDA0 and its like in the last octal one.
Own(c) == KEYR[1 + IF c \in 80 .. 143 THEN c % 8 ELSE c % 16]

\* The operands handlers find in the bytes b.
Executed(b) ==
  LET c  == b[1]
      op == INSTS[c]
      imm(k) == b[k] + 256 * b[k + 1] + 65536 * b[k + 2]
  IN Ins(op,
       CASE op \in RegImm \cup RegByte \cup {"INXr", "DEXr", "LDRp"} -> Own(c)
         [] op \in (OneReg \cup {"CMP10", "CMPpi", "POW10", "INT1"}) -> KEYR[b[2] + 1]
         [] op \in TwoRegs \cup {"POW11", "XOR"} -> KEYR[(b[2] \div 16) + 1]
         [] op \in {"LOBHg", "LOBBg"} -> KEYR[(b[2] \div 32) + 1]
         [] OTHER -> "AC",
       CASE op \in TwoRegs \cup {"POW11", "XOR"} -> KEYR[(b[2] % 16) + 1]
         [] op = "LDRp" -> KEYR[b[2] + 1]
         [] op \in {"LDD", "STD"} -> IF c < 60 THEN "DT" ELSE "DI"
         [] OTHER -> "AC",
       CASE op \in OneImm \cup RegImm \cup {"LDAS", "LDAG", "MV26"} -> imm(2)
         [] op \in {"CMP10", "CMPpi"} -> imm(3)
         [] OTHER -> 0,
       CASE op = "ALUI" -> (c \div 16) - 4
         [] op \in OneByte \cup {"LDZS", "LDZG"} -> b[2]
         [] op \in {"LOBHg", "LOBBg"} -> b[2] % 32
         [] op = "POW10" -> b[3]
         [] op = "MV26" -> b[5]
         [] OTHER -> 0)

-----------------------------------------------------------------------------
(* Programs. *)

\* The text is refused when a line is no instruction or a label has no
\* definition.
Defined(text) == {text[k].to : k \in {j \in DOMAIN text : text[j].ins.op = "LABEL"}}
Assembles(text) ==
  \A k \in DOMAIN text : /\ text[k].ins.op # "unknown"
                         /\ text[k].to \in Defined(text) \cup {<< >>}

\* The program counter of the parser: the address of every line, and at last
\* of the end.
Address(text) ==
  LET pc[k \in 1 .. Len(text) + 1] ==
        IF k = 1 THEN 0 ELSE pc[k - 1] + Bytes(text[k - 1].ins.op)
  IN  pc

\* Line k, its label replaced by an address.
Resolved(text, k) ==
  IF text[k].to = << >> THEN text[k].ins
  ELSE LET j == CHOOSE j \in DOMAIN text : text[j] = Label(text[k].to)
       IN  [text[k].ins EXCEPT !.a = Address(text)[j]]

\* The instruction written for every address.
Placed(text) ==
  LET at == Address(text)
      lines == {k \in DOMAIN text : text[k].ins.op # "LABEL"}
  IN  [a \in {at[k] : k \in lines} |->
         Resolved(text, CHOOSE k \in lines : at[k] = a)]

\* The bytes, one line behind the other.
CompileLC24(text) ==
  LET code[k \in 0 .. Len(text)] ==
        IF k = 0 THEN << >>
        ELSE IF text[k].ins.op = "LABEL" THEN code[k - 1]
        ELSE code[k - 1] \o Emitted(Resolved(text, k))
  IN  code[Len(text)]

\* The bytes an instruction at a may read; behind the program memory is clear.
Fetched(code, a) == [k \in 1 .. 5 |-> IF a + k <= Len(code) THEN code[a + k] ELSE 0]

\* The instruction the processor finds at every address of a line.
Assembled(text) ==
  LET code == CompileLC24(text)
  IN  [a \in DOMAIN Placed(text) |-> Executed(Fetched(code, a))]

-----------------------------------------------------------------------------
(* Every line las takes, with every register in every place, a for an      *)
(* immediate and n for a byte.                                             *)
Lines(a, n) ==
  {Ins(op, "AC", "AC", 0, 0) : op \in Alone \ {"LDD"}}
  \cup {Ins("LDD", "AC", d, 0, 0) : d \in {"DT", "DI"}}
  \cup {Ins("STD", r, d, 0, 0) : r \in Reg, d \in {"DT", "DI"}}
  \cup {Ins(op, r, "AC", 0, 0) : op \in (OneReg \ {"STD"}) \cup {"INXr", "DEXr"}, r \in Reg}
  \cup {Ins(op, r, s, 0, 0) : op \in TwoRegs \cup {"LDRp", "POW11"}, r \in Reg, s \in Reg}
  \cup {Ins(op, "AC", "AC", 0, n) : op \in OneByte}
  \cup {Ins(op, r, "AC", 0, n) : op \in RegByte \cup {"LOBHg", "POW10"}, r \in Reg}
  \cup {Ins(op, "AC", "AC", a, 0) : op \in OneImm}
  \cup {Ins(op, r, "AC", a, 0) : op \in (RegImm \ {"ALUI"}) \cup {"CMP10", "CMPpi"},
                                 r \in Reg}
  \cup {Ins("ALUI", r, "AC", a, k) : r \in Reg, k \in 0 .. 3}
  \cup {Ins("MV26", "AC", "AC", a, n)}

\* The lines that las and the processor understand differently: opcodes that
\* have moved, operands of other lengths, registers numbered past the row of
\* their family, and an offset that runs into the register beside it.
Misassembled(i) ==
  \/ i.op \in {"NOP", "NOT", "STOSB", "STOGB", "STOSW", "POW11", "STr0", "LDAS", "LDAG"}
  \/ i.op \in {"LDA", "LDZS", "LDZG", "DIVI"} /\ Id[i.r] > 5
  \/ i.op = "ALUI" /\ i.n \in {1, 2} /\ Id[i.r] > 7
  \/ i.op = "ALUI" /\ i.n = 3 /\ Id[i.r] > 5
  \/ i.op = "LOBHg" /\ (Id[i.r] > 7 \/ i.n > 31)

Faithful(i) ==
  LET b == Emitted(i) IN
  /\ b \in Seq(Byte)
  /\ Bytes(i.op) = Len(b)
  /\ Taken(INSTS[b[1]]) = Len(b)
  /\ Executed(b) = i

(* The tables of the assembler and of the processor, in two languages and  *)
(* kept by hand, agree on opcode, operands and length for every line but   *)
(* those named above, and disagree on each of these.  An immediate of three*)
(* bytes that differ and the largest stand for all of them.                *)
TablesAgree ==
  \A i \in Lines(66051, 7) \cup Lines(W - 1, 255) : Faithful(i) <=> ~Misassembled(i)
=============================================================================
