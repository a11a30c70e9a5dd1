---------------------------- MODULE MCLc24Machine ----------------------------
(* Every order of the options before a program, a disk that boots and one  *)
(* that does not, and programs that write the disk, trap and end in each   *)
(* of the ways a program can.                                              *)
EXTENDS Lc24Machine

Ins(op, r, s, a, n) == [op |-> op, r |-> r, s |-> s, a |-> a, n |-> n]
McIsa == {Ins("ALUI", "AC", "AC", 7, 0), Ins("STD", "AC", "DT", 0, 0),
          Ins("PUSH1", "AC", "AC", 0, 0),
          Ins("HLT1", "AC", "AC", 0, 0), Ins("HLT", "AC", "AC", 0, 0),
          Ins("UNK", "AC", "AC", 0, 0), Ins("DIVI", "AC", "AC", 0, 0)}
         \union {Ins("INT0", "AC", "AC", 0, n) : n \in {0, 34, 99}}
McCode == {0, 1, 2, 3, 4, 5, 6}
SP0 == 16711679             \* 0xFEFFFF
McCells == {0} \union (SP0 - 2 .. SP0 + 3)
McDisk == {0, 1}
McRoms == {Blank}
McImages == {[c \in McCells |-> 0]}
McRegVals == {0, 7, SP0, SP0 - 3}
McNames == {"os", "rom", "data"}
McGiven == [n \in McNames \union Options |->
  [is |-> IF n \in McNames THEN "short" ELSE "absent", rom |-> [d \in McDisk |-> 1]]]
Orders == {<<"disk">>, <<"cli">>, <<"disk", "cli">>, <<"cli", "disk">>,
           <<"bios", "rom", "disk">>, <<"disk", "bios", "data">>, <<"bios", "disk">>, << >>}
McArgs == {<< >>, <<"help">>, <<"cli">>, <<"disk">>}
          \union {o \o <<n>> : o \in Orders, n \in McNames}
=============================================================================
