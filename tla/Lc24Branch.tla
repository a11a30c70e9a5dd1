------------------------------ MODULE Lc24Branch -----------------------------
(***************************************************************************)
(* What a conditional jump decides.  CMP leaves the relation of its        *)
(* operands in Z and N, and a later JL, JME, JMNE or JG acts on it; between *)
(* the two, other instructions, calls and whole interrupt handlers with    *)
(* comparisons of their own may run.                                       *)
(*                                                                         *)
(* Two history variables record what the flags stand for.  rel is the      *)
(* relation found by the last comparison of the code that is running, or   *)
(* "none" once a taken jump or a load of the flags has changed them.  tags *)
(* runs beside the words on the stack: the word that holds the flags of an *)
(* interrupted program carries that program's rel.                         *)
(***************************************************************************)
EXTENDS Lc24Stack

VARIABLES rel, tags

hvars == <<vars, rel, tags>>

Relation(x, y) == IF x = y THEN "eq" ELSE IF x < y THEN "lt" ELSE "gt"

\* The jump that is taken lowers the flag it found.
Spends(i) == \/ i.op = "JME0" /\ Bit(PS, FlagZ)
             \/ i.op = "JL0" /\ Bit(PS, FlagN)

Recall(i) ==
  rel' = IF i.op = "CMP11" THEN Relation(reg[i.r], reg[i.s])
         ELSE IF i.op = "CMP10" THEN Relation(reg[i.r], i.a)
         ELSE IF i.op = "CMPpi" THEN Relation(mem[reg[i.r]], i.a)
         ELSE IF Spends(i) \/ i.op = "LAF" \/ Calls(i, {INT_RESET}) THEN "none"
         ELSE IF i.op = "IRET" THEN tags[Depth]
         ELSE rel

Mark(i) ==
  tags' = [k \in 1 .. Depth' |->
             IF k <= Depth THEN tags[k]
             ELSE IF Vectored(i) /\ k = Depth' THEN rel
             ELSE "none"]

BranchInit == Init /\ rel = "none" /\ tags = << >>
BranchStep(i) == StackStep(i) /\ Recall(i) /\ Mark(i)
BranchNext == \E i \in ISA : BranchStep(i)
BranchSpec == BranchInit /\ [][BranchNext]_hvars

-----------------------------------------------------------------------------
Shows(ps, k) == k # "none" => /\ Bit(ps, FlagZ) <=> k = "eq"
                              /\ Bit(ps, FlagN) <=> k = "lt"

(* Between a comparison and the jump that spends it the flags show the     *)
(* relation that was found, and so does every set of flags an interrupt    *)
(* has put on the stack: no other instruction of the table disturbs them.  *)
FlagsShowRelation ==
  /\ Shows(PS, rel)
  /\ \A k \in 1 .. Depth : Shows(Words[k], tags[k])

(* A jump after a comparison goes where the comparison says, even when     *)
(* handlers that compare other values ran in between.  JG is the complement*)
(* of JL: it is taken on equality as well.                                 *)
JumpsDecide ==
  [][\A i \in ISA : BranchStep(i) /\ rel # "none" =>
       /\ i.op = "JL0"   => PC' = IF rel = "lt" THEN i.a ELSE PC + 4
       /\ i.op = "JG0"   => PC' = IF rel = "lt" THEN PC + 4 ELSE i.a
       /\ i.op = "JME0"  => PC' = IF rel = "eq" THEN i.a ELSE PC + 4
       /\ i.op = "JMNE0" => PC' = IF rel = "eq" THEN PC + 4 ELSE i.a]_hvars
=============================================================================
