------------------------------ MODULE MCLc24Cpu ------------------------------
(* Short programs of the whole instruction table, free of any discipline:  *)
(* SP is set by hand to both ends of memory, memory is a few bytes at its  *)
(* ends, one of the screen and one of the input ports.                     *)
EXTENDS Lc24Cpu

Ins(op, r, s, a, n) == [op |-> op, r |-> r, s |-> s, a |-> a, n |-> n]
Plain(ops)  == {Ins(op, "AC", "DT", 1, 1) : op \in ops}
Interrupts(ns) == {Ins("INT0", "AC", "AC", 0, n) : n \in ns}

McIsa ==
  Plain(Opcode \ {"JMP1", "JMP2", "PUSH1", "INXM", "DEXM", "AND", "OR", "POW11"})
  \cup Interrupts({0, 1, 2, 3, 12, 17, 19, 21, 22, 23, 34, 35, 69, 99, 128})
  \cup {Ins("JMP1", "SP", "SP", 0, 0), Ins("JMP2", "AC", "AC", 4, 0),
        Ins("PUSH1", "BP", "BP", 0, 0),
        Ins("INXM", "AC", "AC", 0, 0), Ins("DEXM", "AC", "AC", 0, 0),
        Ins("INT1", "SP", "SP", 0, 0)}
  \cup {Ins("ALUI", "SP", "SP", v, 0) : v \in {1, 2, W - 3, W - 6}}
  \cup {Ins("ALUI", "DC", "AC", 9, 0), Ins("ALUI", "DT", "AC", 1, 0),
        Ins("ALUI", "CN", "AC", 2, 1), Ins("DIVI", "AC", "AC", 0, 0)}

McCode  == {0, 4, 5, 6}
McCells == 0 .. 4 \cup W - 5 .. W - 1 \cup {4194304, 4718592}
McDisk  == {0, 1}
McImages == {[c \in McCells |-> 1]}
McRoms  == {[c \in McDisk |-> c]}
McRegVals == 0 .. 3 \cup {9, 13, 28, 64, 257, 3341, 65793} \cup
             {W - 7, W - 6, W - 4, W - 3, W - 2, W - 1, ResetSP}
=============================================================================
