------------------------------ MODULE Lc24Stack ------------------------------
(***************************************************************************)
(* Programs that keep to the stack discipline, on the LC24 processor, and  *)
(* the stack of words they see.                                            *)
(***************************************************************************)
EXTENDS Lc24Cpu, Sequences

Depth == (ResetSP - reg["SP"]) \div 3

\* The k-th word pushed since the reset ends at ResetSP - 3 * (k - 1).
Slot(k) == ResetSP - 3 * k + 1
Words   == [k \in 1 .. Depth |-> Read24(mem, Slot(k))]
File    == [r \in Reg \ {"SP"} |-> reg[r]]

PushCount(i) ==
  IF i.op \in Pushes \/ i.op = "CALL" \/ Calls(i, {INT_READ}) THEN 1
  ELSE IF Vectored(i) THEN 2 ELSE 0
PopCount(i) ==
  IF i.op = "POP1" \/ (i.op \in Returns /\ Returning(i))
     \/ Calls(i, {INT_EXIT, INT_WRITE}) THEN 1
  ELSE IF i.op = "IRET" THEN 2 ELSE 0

(***************************************************************************)
(* The discipline: a program pops what it pushed, leaves SP to the stack   *)
(* instructions, and no other instruction writes the live words.           *)
(***************************************************************************)
StackOp(i) == PushCount(i) + PopCount(i) > 0 \/ Calls(i, {INT_RESET})
Disciplined(i) ==
  /\ i.op # "COP1"
  /\ i.op = "POP1" => i.r # "SP"
  /\ PopCount(i) <= Depth
  /\ 3 * (Depth + PushCount(i)) <= ResetSP
  /\ ~StackOp(i) => /\ reg'["SP"] = reg["SP"]
                    /\ \A c \in Cells : c \in reg["SP"] + 1 .. ResetSP =>
                                          mem'[c] = mem[c]

StackStep(i) == Step(i) /\ Disciplined(i)
StackNext == \E i \in ISA : StackStep(i)
StackSpec == Init /\ [][StackNext]_vars

-----------------------------------------------------------------------------
(* The stack pointer is always a whole number of words below its reset     *)
(* value, and every live word lies in modelled memory: pushes, pops, calls,*)
(* interrupts and their returns move SP by amounts that agree.             *)
Aligned ==
  /\ reg["SP"] = ResetSP - 3 * Depth
  /\ Depth >= 0
  /\ \A k \in 1 .. Depth : Has(Slot(k), 3)

Abstract == INSTANCE CallStack
              WITH Reg <- Reg \ {"SP"},
                   stack <- Words, file <- File, flags <- PS, at <- PC

(* StackPush, StackPop, CALL, RET, INT and IRET implement the stack of     *)
(* CallStack.  In particular RET resumes after the matching CALL, and IRET *)
(* after the interrupt with the flags it found, whatever ran in between.   *)
ImplementsCallStack == Abstract!Lifo
=============================================================================
