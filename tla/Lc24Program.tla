----------------------------- MODULE Lc24Program -----------------------------
(***************************************************************************)
(* The LC24 processor with a program in place: the instruction at each     *)
(* address is given, and what the program reads and writes is recorded.    *)
(* Exec() is a closed loop of the host, so a turn that can be taken is.    *)
(***************************************************************************)
EXTENDS Lc24Cpu, Sequences

CONSTANT Programs   \* of each program, by name, the instruction at each address

ASSUME ProgramsAssumption ==
  \A p \in DOMAIN Programs :
    /\ DOMAIN Programs[p] \subseteq Code
    /\ Programs[p] \in [DOMAIN Programs[p] -> ISA]

VARIABLES name,     \* the program that runs
          first,    \* memory as it was loaded
          out,      \* the characters INT_WRITE has put out
          inp       \* the characters INT_READ has taken

pvars == <<vars, name, first, out, inp>>

\* putchar() writes the low byte of the word it pops.
Written(i) == IF Calls(i, {INT_WRITE})
              THEN <<StackPop(mem, reg["SP"]) % 256>> ELSE << >>

\* getchar() is pushed: the word on the stack after the interrupt.
Asked(i) == IF Calls(i, {INT_READ}) THEN <<StackPop(mem', reg'["SP"])>> ELSE << >>

Turn ==
  /\ PC \in DOMAIN Programs[name]
  /\ LET i == Programs[name][PC]
     IN  Step(i) /\ out' = out \o Written(i) /\ inp' = inp \o Asked(i)
  /\ UNCHANGED <<name, first>>

ProgramInit == /\ Init
               /\ name \in DOMAIN Programs
               /\ first = mem
               /\ out = << >> /\ inp = << >>
ProgramSpec == ProgramInit /\ [][Turn]_pvars /\ WF_pvars(Turn)
=============================================================================
