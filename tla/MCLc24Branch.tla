---------------------------- MODULE MCLc24Branch -----------------------------
(* Pushes, pops, calls and interrupts over a small window of memory, with  *)
(* comparisons, conditional jumps and loads of the flags among them: a     *)
(* stack of a few words, the vector of interrupt 0x80 and a byte of data.  *)
EXTENDS Lc24Branch

CONSTANT MaxDepth    \* bound: words on the stack

Ins(op, r, s, a, n) == [op |-> op, r |-> r, s |-> s, a |-> a, n |-> n]
AC(op) == Ins(op, "AC", "BS", 4, 0)

McIsa ==
  { Ins("PUSH0", "AC", "AC", 70000, 0), AC("POP1"), AC("CALL"), AC("RET"), AC("RE"),
    Ins("INT0", "AC", "AC", 0, 128), AC("IRET"), AC("LAF"),
    Ins("INT0", "AC", "AC", 0, 0), Ins("INT0", "AC", "AC", 0, 4),
    AC("JME0"), AC("JMNE0"), AC("JL0"), AC("JG0"), AC("CMP11"),
    Ins("CMP10", "AC", "AC", 1, 0), Ins("CMPpi", "BS", "BS", 1, 0) }

McCode  == {0, 2, 4, 5}
McStack == (ResetSP - 3 * MaxDepth + 1) .. ResetSP
McCells == McStack \cup {0} \cup Vector(128) .. Vector(128) + 2
McImages == {[c \in McCells |-> IF c = Vector(128) THEN 2 ELSE 0]}
McRoms  == {[c \in {} |-> 0]}
McRegVals == 0 .. 255 \cup {70000} \cup ResetSP - 3 * MaxDepth .. ResetSP
=============================================================================
