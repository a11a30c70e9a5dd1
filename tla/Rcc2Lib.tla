------------------------------- MODULE Rcc2Lib --------------------------------
(***************************************************************************)
(* The text rcc2ge puts in front of every program: the start and the       *)
(* routines of the table nfs in compilers/rcc2ge/main.c.                   *)
(***************************************************************************)
EXTENDS Las

Start == << To("CALL", <<"main">>), Trap(INT_EXIT), Plain("HLT") >>

\* The arguments were pushed before the call: a routine lifts the return
\* address, takes its argument, and pushes its result below the address.
Puts ==
  << Label(<<"puts">>), Pop("DI"), Pop("DT"), To("CALL", <<"puts", "native">>),
     PushImm(0), PushReg("DI"), Plain("RET"),
     Label(<<"puts", "native">>), RR("LBc", "DT", "AC"), CmpImm("AC", 0),
     Plain("RE"), PushReg("AC"), Trap(INT_WRITE), To("JMP0", <<"puts", "native">>) >>
Getchar ==
  << Label(<<"getchar">>), Pop("AC"), Trap(INT_READ), PushReg("AC"), Plain("RET") >>
Puti ==
  << Label(<<"puti">>), Pop("DI"), Pop("AC"), MovImm("BS", 10000000),
     Label(<<"puti", "loop">>), RR("DIV11", "AC", "BS"), AddImm("AC", 48),
     PushReg("AC"), Trap(INT_WRITE), RR("MOV", "AC", "DC"), DivImm("BS", 10),
     CmpImm("DC", 1), To("JMNE0", <<"puti", "loop">>),
     PushImm(0), PushReg("DI"), Plain("RET") >>

-----------------------------------------------------------------------------
(* What they write: puts the characters from a up to the byte that ends    *)
(* them, puti all eight digits that a register can need.                   *)
Text(m, a) ==
  LET end == CHOOSE n \in 0 .. 255 : m[a + n] = 0 /\ \A k \in 0 .. n - 1 : m[a + k] # 0
  IN  [k \in 1 .. end |-> m[a + k - 1]]

Decimal(v) == [k \in 1 .. 8 |-> 48 + ((v \div 10 ^ (8 - k)) % 10)]
=============================================================================
