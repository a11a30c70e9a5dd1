--------------------------- MODULE Lc24StackProofs ----------------------------
(***************************************************************************)
(* Theorems of the stack discipline, for any instruction set, memory and   *)
(* depth: programs that keep to it find SP a whole number of words below   *)
(* its reset value, with every live word in memory; what they do there     *)
(* implements the abstract stack; and so a comparison lasts to its jump.   *)
(***************************************************************************)
EXTENDS Lc24Branch, Lc24CpuProofs, SequenceTheorems

\* A stack pointer below which n whole words are live.
Holds(s, n) == /\ n \in Nat /\ s \in Nat /\ s = ResetSP - 3 * n
               /\ \A k \in 1 .. n : Has(Slot(k), 3)

IInv == TypeOK /\ Holds(reg["SP"], Depth)

-----------------------------------------------------------------------------
(* The number of live words is read off the stack pointer.                 *)
LEMMA DepthOf ==
  \A s, n : Holds(s, n) => (ResetSP - s) \div 3 = n /\ s \in Int
BY DEF Holds, ResetSP

(* A push adds a word, as long as the discipline leaves room for it.       *)
LEMMA Pushing ==
  \A s, n : Holds(s, n) /\ 3 * (n + 1) <= ResetSP /\ CanPush(s)
              => Holds(PushSP(s), n + 1)
<1> SUFFICES ASSUME NEW s, NEW n, Holds(s, n), 3 * (n + 1) <= ResetSP, CanPush(s)
             PROVE  Holds(PushSP(s), n + 1)
  OBVIOUS
<1>1. /\ n \in Nat /\ s \in Nat /\ s = ResetSP - 3 * n
      /\ ResetSP \in Nat /\ W \in Nat /\ ResetSP < W
  BY Widths DEF Holds, ResetSP
<1>2. s - 3 = ResetSP - 3 * (n + 1) /\ s - 3 \in Nat /\ s - 3 < W
  BY <1>1
<1>3. PushSP(s) = s - 3
  BY <1>2, Widths DEF PushSP
<1>4. Slot(n + 1) = s - 2
  BY <1>1 DEF Slot
<1>5. \A k \in 1 .. n + 1 : k \in 1 .. n \/ k = n + 1
  BY <1>1
<1> QED
  BY <1>1, <1>2, <1>3, <1>4, <1>5 DEF Holds, CanPush

(* A pop takes a word off.                                                 *)
LEMMA Popping == \A s, n : Holds(s, n) /\ n >= 1 => Holds(PopSP(s), n - 1)
<1> SUFFICES ASSUME NEW s, NEW n, Holds(s, n), n >= 1
             PROVE  Holds(PopSP(s), n - 1)
  OBVIOUS
<1>1. /\ n \in Nat /\ s \in Nat /\ s = ResetSP - 3 * n
      /\ ResetSP \in Nat /\ W \in Nat /\ ResetSP < W
  BY Widths DEF Holds, ResetSP
<1>2. s + 3 = ResetSP - 3 * (n - 1) /\ s + 3 < W
  BY <1>1
<1>3. PopSP(s) = s + 3
  BY <1>1, <1>2, Widths DEF PopSP
<1> QED
  BY <1>1, <1>2, <1>3 DEF Holds

-----------------------------------------------------------------------------
(* How far a stack instruction may move SP.                                *)
Moved(i) ==
  LET sp == reg["SP"] IN
  \/ reg'["SP"] = sp
  \/ reg'["SP"] = ResetSP
  \/ PushCount(i) = 1 /\ CanPush(sp) /\ reg'["SP"] = PushSP(sp)
  \/ /\ PushCount(i) = 2 /\ CanPush(sp) /\ CanPush(PushSP(sp))
     /\ reg'["SP"] = PushSP(PushSP(sp))
  \/ PopCount(i) = 1 /\ reg'["SP"] = PopSP(sp)
  \/ PopCount(i) = 2 /\ reg'["SP"] = PopSP(PopSP(sp))

StackOps == Pushes \cup Returns \cup {"CALL", "POP1", "IRET", "INT0", "INT1"}

(* Only these instructions push or pop; the rest of the table does not.    *)
LEMMA StackOpcodes == \A i : StackOp(i) => i.op \in StackOps
BY DEF StackOp, StackOps, PushCount, PopCount, Vectored, Calls, IsInt

LEMMA OtherOpcodes ==
  \A i : Control(i) \/ Compute(i) \/ Memory(i) => i.op \notin StackOps
<1> SUFFICES ASSUME NEW i, Control(i) \/ Compute(i) \/ Memory(i)
             PROVE  i.op \notin StackOps
  OBVIOUS
<1> USE DEF StackOps, Pushes, Returns
<1>1. CASE Control(i)
  BY <1>1 DEF Control, JME0, JMNE0, JL0, JG0, Jump, LOOP
<1>2. CASE Compute(i)
  BY <1>2 DEF Compute, AluRR, AluOps, AluRI, DIV, DivideByZero, Step1, XCHG4,
              CMP, FLAGS
<1>3. CASE Memory(i)
  BY <1>3 DEF Memory, LOAD, Loads, STORE, Stores, WalkStore, WalkLoad, Step1M,
              DISK
<1> QED
  BY <1>1, <1>2, <1>3

(* Pushes, pops, calls and returns move SP by the words they count.        *)
LEMMA StackMoves ==
  ASSUME NEW i \in ISA, TypeOK, Stack(i), i.op # "COP1",
         i.op = "POP1" => i.r # "SP"
  PROVE  Moved(i)
<1> USE DEF Moved
<1>1. "SP" \in Reg /\ DOMAIN reg = Reg /\ i.r \in Reg
  BY Numbers, Operands DEF TypeOK
<1>2. CASE PUSH(i)
  BY <1>1, <1>2 DEF PUSH, PushCount
<1>3. CASE POP1(i)
  BY <1>1, <1>3 DEF POP1, PopCount
<1>4. CASE COP1(i)
  BY <1>4 DEF COP1
<1>5. CASE CALL(i)
  BY <1>1, <1>5 DEF CALL, PushCount
<1>6. CASE Return(i)
  BY <1>1, <1>6 DEF Return, PopCount
<1>7. CASE IRET(i)
  BY <1>1, <1>7 DEF IRET, PopCount, Returns, Calls, IsInt
<1>8. CASE StackFault(i)
  BY <1>8 DEF StackFault
<1> QED
  BY <1>2, <1>3, <1>4, <1>5, <1>6, <1>7, <1>8 DEF Stack

(* So do the interrupts.                                                   *)
LEMMA InterruptMoves == \A i \in ISA : TypeOK /\ INT(i) => Moved(i)
<1> SUFFICES ASSUME NEW i \in ISA, TypeOK, INT(i) PROVE Moved(i)
  OBVIOUS
<1> USE DEF Moved
<1>1. "SP" \in Reg /\ "AC" \in Reg /\ "DC" \in Reg /\ DOMAIN reg = Reg
  BY Numbers DEF TypeOK
<1>2. CASE IntMasked(i)
  BY <1>2 DEF IntMasked
<1>3. CASE IntVector(i)
  BY <1>1, <1>3 DEF IntVector, PushCount, Vectored, Calls, Pushes
<1>4. CASE IntExit(i)
  BY <1>1, <1>4
     DEF IntExit, PopCount, Calls, INT_EXIT, INT_WRITE
<1>5. CASE IntRead(i)
  BY <1>1, <1>5 DEF IntRead, PushCount
<1>6. CASE IntWrite(i)
  BY <1>1, <1>6 DEF IntWrite, PopCount, Calls, INT_EXIT, INT_WRITE
<1>7. CASE IntReset(i)
  BY <1>1, <1>7 DEF IntReset
<1>8. CASE IntVideoWrite(i)
  BY <1>8 DEF IntVideoWrite
<1>9. CASE IntDraw(i)
  BY <1>1, <1>9 DEF IntDraw
<1>10. CASE IntAsk(i)
  BY <1>1, <1>10 DEF IntAsk
<1>11. CASE IntWait(i)
  BY <1>11 DEF IntWait
<1>12. CASE IntBeep(i)
  BY <1>12 DEF IntBeep, vars
<1>13. CASE IntIllegal(i)
  BY <1>13 DEF IntIllegal
<1> QED
  BY <1>2, <1>3, <1>4, <1>5, <1>6, <1>7, <1>8, <1>9, <1>10, <1>11, <1>12,
     <1>13 DEF INT

(* A processor that is asked, halted or debugged leaves SP alone.          *)
LEMMA SystemMoves == \A i \in ISA : TypeOK /\ System(i) => Moved(i)
<1> SUFFICES ASSUME NEW i \in ISA, TypeOK, System(i) PROVE Moved(i)
  OBVIOUS
<1>1. CASE INT(i)
  BY <1>1, InterruptMoves
<1>2. CASE CPUID(i)
  BY <1>2, Numbers DEF CPUID, Moved, TypeOK
<1>3. CASE HLT(i) \/ HLT1(i) \/ UNK(i)
  BY <1>3 DEF HLT, HLT1, UNK, Moved
<1> QED
  BY <1>1, <1>2, <1>3 DEF System

-----------------------------------------------------------------------------
(* A move the discipline allows keeps the words whole.                     *)
LEMMA MovedHolds ==
  ASSUME NEW i \in ISA, Holds(reg["SP"], Depth), Moved(i),
         PopCount(i) <= Depth, 3 * (Depth + PushCount(i)) <= ResetSP
  PROVE  Holds(reg'["SP"], Depth')
<1> DEFINE sp == reg["SP"]
<1>1. Depth \in Nat /\ ResetSP \in Nat
  BY DEF Holds, ResetSP
<1>2. SUFFICES \E n : Holds(reg'["SP"], n)
  BY DepthOf DEF Depth
<1>3. CASE reg'["SP"] = sp
  BY <1>3
<1>4. CASE reg'["SP"] = ResetSP
  <2>1. Holds(ResetSP, 0)
    BY <1>1 DEF Holds
  <2> QED
    BY <1>4, <2>1
<1>5. CASE PushCount(i) = 1 /\ CanPush(sp) /\ reg'["SP"] = PushSP(sp)
  BY <1>5, Pushing
<1>6. CASE /\ PushCount(i) = 2 /\ CanPush(sp) /\ CanPush(PushSP(sp))
           /\ reg'["SP"] = PushSP(PushSP(sp))
  <2>1. 3 * (Depth + 1) <= ResetSP /\ 3 * ((Depth + 1) + 1) <= ResetSP
    BY <1>1, <1>6
  <2>2. Holds(PushSP(sp), Depth + 1)
    BY <1>6, <2>1, Pushing
  <2> QED
    BY <1>6, <2>1, <2>2, Pushing
<1>7. CASE PopCount(i) = 1 /\ reg'["SP"] = PopSP(sp)
  BY <1>1, <1>7, Popping
<1>8. CASE PopCount(i) = 2 /\ reg'["SP"] = PopSP(PopSP(sp))
  <2>1. Depth >= 1 /\ Depth - 1 >= 1
    BY <1>1, <1>8
  <2>2. Holds(PopSP(sp), Depth - 1)
    BY <2>1, Popping
  <2> QED
    BY <1>8, <2>1, <2>2, Popping
<1> QED
  BY <1>3, <1>4, <1>5, <1>6, <1>7, <1>8 DEF Moved

(* Every step of a disciplined program keeps the invariant: either SP does *)
(* not move, or a stack instruction moves it by the words it counts.       *)
LEMMA StackStepIInv == \A i \in ISA : IInv /\ StackStep(i) => IInv'
<1> SUFFICES ASSUME NEW i \in ISA, IInv, StackStep(i) PROVE IInv'
  OBVIOUS
<1>1. TypeOK /\ Holds(reg["SP"], Depth) /\ Step(i) /\ Disciplined(i)
  BY DEF IInv, StackStep
<1>2. TypeOK'
  BY <1>1, StepTypes
<1>3. Moved(i)
  <2>1. CASE ~StackOp(i)
    BY <1>1, <2>1 DEF Disciplined, Moved
  <2>2. CASE StackOp(i)
    <3>1. i.op \in StackOps
      BY <2>2, StackOpcodes
    <3>2. Stack(i) \/ System(i)
      BY <1>1, <3>1, OtherOpcodes DEF Step, Exec
    <3> QED
      BY <1>1, <3>2, StackMoves, SystemMoves DEF Disciplined
  <2> QED
    BY <2>1, <2>2
<1>4. Holds(reg'["SP"], Depth')
  BY <1>1, <1>3, MovedHolds DEF Disciplined
<1> QED
  BY <1>2, <1>4 DEF IInv

(* So it holds throughout.                                                 *)
LEMMA StackIInv == StackSpec => []IInv
<1>1. Init => IInv
  <2>1. Holds(ResetSP, 0)
    BY DEF Holds, ResetSP
  <2>2. Init => reg["SP"] = ResetSP
    BY DEF Init, Reg
  <2> QED
    BY <2>1, <2>2, InitTypes, DepthOf DEF IInv, Depth
<1>2. IInv /\ UNCHANGED vars => IInv'
  BY DEF IInv, TypeOK, Holds, Depth, vars
<1>3. IInv /\ [StackNext]_vars => IInv'
  BY <1>2, StackStepIInv DEF StackNext
<1> QED
  BY <1>1, <1>3, PTL DEF StackSpec

(* The stack pointer of a disciplined program is always a whole number of  *)
(* words below its reset value, and every live word lies in memory: the    *)
(* pushes of calls and interrupts and the pops of their returns agree.     *)
THEOREM StackAligned == StackSpec => []Aligned
<1>1. IInv => Aligned
  BY DEF IInv, Holds, Aligned
<1> QED
  BY <1>1, StackIInv, PTL

-----------------------------------------------------------------------------
(***************************************************************************)
(* Disciplined programs on the processor implement the abstract stack:     *)
(* what StackSpec does to SP and to the bytes of memory is, read through   *)
(* Words and File, what CallStack does to a sequence of words.             *)
(***************************************************************************)

\* The live words of a memory m, when there are n of them.
Live(m, n) == [k \in 1 .. n |-> Read24(m, Slot(k))]

-----------------------------------------------------------------------------
(* The live words form a sequence of words.                                *)
LEMMA LiveSeq ==
  ASSUME NEW m \in [Cells -> Byte], NEW s, NEW n, Holds(s, n)
  PROVE  /\ Live(m, n) \in Seq(Word) /\ Len(Live(m, n)) = n
         /\ \A k \in 1 .. n : /\ Live(m, n)[k] = Read24(m, Slot(k))
                              /\ Live(m, n)[k] \in Word
<1>1. n \in Nat
  BY DEF Holds
<1>2. ASSUME NEW k \in 1 .. n PROVE Read24(m, Slot(k)) \in Word
  <2>1. Slot(k) \in Int /\ Has(Slot(k), 3)
    BY <1>1 DEF Holds, Slot, ResetSP
  <2> QED
    BY <2>1, ReadTypes
<1>3. Live(m, n) \in [1 .. n -> Word]
  BY <1>2 DEF Live
<1>4. Live(m, n) \in Seq(Word)
  BY <1>1, <1>3, SeqDef
<1>5. Len(Live(m, n)) = n
  BY <1>1, <1>3, <1>4, LenProperties
<1>6. \A k \in 1 .. n : Live(m, n)[k] = Read24(m, Slot(k))
  BY DEF Live
<1> QED
  BY <1>2, <1>4, <1>5, <1>6

(* A push adds its word behind the live ones and disturbs none of them.    *)
LEMMA LivePush ==
  ASSUME NEW m \in [Cells -> Byte], NEW s, NEW n, Holds(s, n), CanPush(s),
         3 * (n + 1) <= ResetSP, NEW v \in Nat
  PROVE  Live(StackPush(m, s, v), n + 1) = Append(Live(m, n), v % W)
<1> DEFINE new == StackPush(m, s, v)
<1>1. n \in Nat /\ s = ResetSP - 3 * n /\ ResetSP \in Nat /\ s \in Nat
  BY DEF Holds, ResetSP
<1>2. Holds(PushSP(s), n + 1)
  BY Pushing
<1>3. new \in [Cells -> Byte]
  BY <1>1, WriteType DEF StackPush
<1>4. v % W \in Word
  BY Wraps
<1>5. Slot(n + 1) = s - 2 /\ Has(s - 2, 3)
  BY <1>1 DEF Slot, CanPush
<1>6. new[s - 2] = Digit(v, 0) /\ new[s - 1] = Digit(v, 1) /\ new[s] = Digit(v, 2)
  <2>1. s - 2 \in Cells /\ s - 1 \in Cells /\ s \in Cells
    BY <1>1, <1>5 DEF Has
  <2> QED
    BY <1>1, <2>1 DEF StackPush, Write
<1>7. Read24(new, Slot(n + 1)) = v % W
  BY <1>1, <1>5, <1>6, WordBytes DEF Read24
<1>8. ASSUME NEW k \in 1 .. n PROVE Read24(new, Slot(k)) = Read24(m, Slot(k))
  <2>1. Slot(k) \in Int /\ Slot(k) > s /\ Has(Slot(k), 3)
    BY <1>1 DEF Slot, Holds
  <2>2. \A c \in Cells : c > s /\ c \in Int => new[c] = m[c]
    BY <1>1 DEF StackPush, Write
  <2>3. /\ Slot(k) \in Cells /\ Slot(k) + 1 \in Cells /\ Slot(k) + 2 \in Cells
        /\ Slot(k) + 1 \in Int /\ Slot(k) + 2 \in Int
        /\ Slot(k) + 1 > s /\ Slot(k) + 2 > s
    BY <1>1, <2>1 DEF Has
  <2> HIDE DEF new
  <2>4. /\ new[Slot(k)] = m[Slot(k)] /\ new[Slot(k) + 1] = m[Slot(k) + 1]
        /\ new[Slot(k) + 2] = m[Slot(k) + 2]
    BY <2>1, <2>2, <2>3
  <2> QED
    BY <2>4 DEF Read24
<1> HIDE DEF new
<1>9. /\ Live(new, n + 1) \in Seq(Word) /\ Len(Live(new, n + 1)) = n + 1
      /\ \A k \in 1 .. n + 1 : Live(new, n + 1)[k] = Read24(new, Slot(k))
  BY <1>2, <1>3, LiveSeq
<1>10. /\ Live(m, n) \in Seq(Word) /\ Len(Live(m, n)) = n
       /\ \A k \in 1 .. n : Live(m, n)[k] = Read24(m, Slot(k))
  BY LiveSeq
<1> DEFINE app == Append(Live(m, n), v % W)
<1>11. /\ app \in Seq(Word) /\ Len(app) = n + 1
       /\ \A k \in 1 .. n : app[k] = Live(m, n)[k]
       /\ app[n + 1] = v % W
  BY <1>4, <1>10, AppendProperties
<1> HIDE DEF app
<1>12. \A k \in 1 .. n + 1 : Live(new, n + 1)[k] = app[k]
  <2>1. \A k \in 1 .. n + 1 : k \in 1 .. n \/ k = n + 1
    BY <1>1
  <2>2. n + 1 \in 1 .. n + 1 /\ \A k \in 1 .. n : k \in 1 .. n + 1
    BY <1>1
  <2> QED
    BY <1>7, <1>8, <1>9, <1>10, <1>11, <2>1, <2>2
<1>13. Live(new, n + 1) = app
  BY <1>9, <1>11, <1>12, SeqEqual
<1> QED
  BY <1>13 DEF new, app

(* The older words are a beginning of the sequence.                        *)
LEMMA LiveTake ==
  ASSUME NEW m \in [Cells -> Byte], NEW s, NEW n, Holds(s, n), NEW j \in 0 .. n
  PROVE  Live(m, j) = SubSeq(Live(m, n), 1, j)
<1>1. n \in Nat /\ j \in Nat /\ ResetSP \in Nat /\ ResetSP - 3 * j \in Nat
  BY DEF Holds, ResetSP
<1>2. \A k \in 1 .. j : k \in 1 .. n
  BY <1>1
<1>3. Holds(ResetSP - 3 * j, j)
  BY <1>1, <1>2 DEF Holds
<1>4. /\ Live(m, n) \in Seq(Word)
      /\ \A k \in 1 .. n : /\ Live(m, n)[k] = Read24(m, Slot(k))
                           /\ Live(m, n)[k] \in Word
  BY LiveSeq
<1>5. /\ Live(m, j) \in Seq(Word) /\ Len(Live(m, j)) = j
      /\ \A k \in 1 .. j : Live(m, j)[k] = Read24(m, Slot(k))
  BY <1>3, LiveSeq
<1> DEFINE sub == SubSeq(Live(m, n), 1, j)
<1>6. /\ sub \in Seq(Word) /\ Len(sub) = j
      /\ \A k \in 1 .. j : sub[k] = Live(m, n)[k]
  <2>1. /\ sub \in Seq(Word)
        /\ Len(sub) = IF 1 <= j THEN j - 1 + 1 ELSE 0
        /\ \A k \in 1 .. j - 1 + 1 : sub[k] = Live(m, n)[1 + k - 1]
    BY <1>1, <1>2, <1>4, SubSeqProperties
  <2> HIDE DEF sub
  <2> QED
    BY <1>1, <2>1
<1> HIDE DEF sub
<1>7. Live(m, j) = sub
  BY <1>2, <1>4, <1>5, <1>6, SeqEqual
<1> QED
  BY <1>7 DEF sub

(* A pop reads the last live word and leaves the others.                   *)
LEMMA LivePop ==
  ASSUME NEW m \in [Cells -> Byte], NEW s, NEW n, Holds(s, n), n >= 1
  PROVE  /\ StackPop(m, s) = Live(m, n)[n]
         /\ Live(m, n)[n] \in Word
         /\ Live(m, n - 1) = SubSeq(Live(m, n), 1, n - 1)
<1>1. n \in Nat /\ s = ResetSP - 3 * n /\ ResetSP \in Nat
  BY DEF Holds, ResetSP
<1>2. PopSP(s) = ResetSP - 3 * (n - 1)
  <2>1. Holds(PopSP(s), n - 1)
    BY Popping
  <2> QED
    BY <2>1 DEF Holds
<1>3. PopSP(s) - 2 = Slot(n)
  BY <1>1, <1>2 DEF Slot
<1>4. n \in 1 .. n /\ n - 1 \in 0 .. n
  BY <1>1
<1> QED
  BY <1>3, <1>4, LiveSeq, LiveTake DEF StackPop

(* A memory that agrees with m above the stack pointer has the same words. *)
LEMMA LiveSame ==
  ASSUME NEW m, NEW m2, NEW s, NEW n, Holds(s, n),
         \A c \in Cells : c \in s + 1 .. ResetSP => m2[c] = m[c]
  PROVE  Live(m2, n) = Live(m, n)
<1>1. n \in Nat /\ s = ResetSP - 3 * n /\ ResetSP \in Nat /\ s \in Nat
  BY DEF Holds, ResetSP
<1>2. ASSUME NEW k \in 1 .. n PROVE Read24(m2, Slot(k)) = Read24(m, Slot(k))
  <2>1. /\ Slot(k) \in s + 1 .. ResetSP /\ Slot(k) + 1 \in s + 1 .. ResetSP
        /\ Slot(k) + 2 \in s + 1 .. ResetSP
    BY <1>1 DEF Slot
  <2>2. Slot(k) \in Cells /\ Slot(k) + 1 \in Cells /\ Slot(k) + 2 \in Cells
    BY <1>1, <2>1 DEF Holds, Has
  <2> QED
    BY <2>1, <2>2 DEF Read24
<1> QED
  BY <1>2 DEF Live

-----------------------------------------------------------------------------
(* The same for the state: what a step that pushes, pops or does neither   *)
(* does to Words and to File.                                              *)
LEMMA WordsAre ==
  IInv => /\ Words = Live(mem, Depth) /\ Words \in Seq(Word)
          /\ Depth \in Nat /\ Len(Words) = Depth
          /\ \A k \in 1 .. Depth : Words[k] \in Word
<1> SUFFICES ASSUME IInv
             PROVE  /\ Words = Live(mem, Depth) /\ Words \in Seq(Word)
                    /\ Depth \in Nat /\ Len(Words) = Depth
                    /\ \A k \in 1 .. Depth : Words[k] \in Word
  OBVIOUS
<1>1. mem \in [Cells -> Byte] /\ Holds(reg["SP"], Depth)
  BY DEF IInv, TypeOK
<1>2. Words = Live(mem, Depth)
  BY DEF Words, Live
<1>3. Depth \in Nat
  BY <1>1 DEF Holds
<1> QED
  BY <1>1, <1>2, <1>3, LiveSeq

LEMMA WordsPush ==
  ASSUME IInv, CanPush(reg["SP"]), 3 * (Depth + 1) <= ResetSP,
         reg'["SP"] = PushSP(reg["SP"]),
         NEW v \in Nat, mem' = StackPush(mem, reg["SP"], v)
  PROVE  Words' = Append(Words, v % W)
<1>1. mem \in [Cells -> Byte] /\ Holds(reg["SP"], Depth)
  BY DEF IInv, TypeOK
<1>2. Depth' = Depth + 1
  BY <1>1, Pushing, DepthOf DEF Depth
<1>3. Words' = Live(mem', Depth + 1)
  BY <1>2 DEF Words, Live
<1> QED
  BY <1>1, <1>3, LivePush, WordsAre

LEMMA WordsPop ==
  ASSUME IInv, Depth >= 1, reg'["SP"] = PopSP(reg["SP"]), mem' = mem
  PROVE  /\ StackPop(mem, reg["SP"]) = Words[Len(Words)]
         /\ StackPop(mem, reg["SP"]) \in Word
         /\ Words' = SubSeq(Words, 1, Len(Words) - 1)
         /\ Words # << >>
<1>1. mem \in [Cells -> Byte] /\ Holds(reg["SP"], Depth)
  BY DEF IInv, TypeOK
<1>2. Depth' = Depth - 1
  BY <1>1, Popping, DepthOf DEF Depth
<1>3. Words' = Live(mem, Depth - 1)
  BY <1>2 DEF Words, Live
<1>4. /\ Words = Live(mem, Depth) /\ Len(Words) = Depth /\ Depth \in Nat
      /\ Words # << >>
  <2>1. Len(<< >>) = 0
    OBVIOUS
  <2> QED
    BY <2>1, WordsAre
<1>5. /\ StackPop(mem, reg["SP"]) = Live(mem, Depth)[Depth]
      /\ Live(mem, Depth)[Depth] \in Word
      /\ Live(mem, Depth - 1) = SubSeq(Live(mem, Depth), 1, Depth - 1)
  BY <1>1, LivePop
<1> HIDE DEF Words
<1> QED
  BY <1>3, <1>4, <1>5

LEMMA WordsSame ==
  ASSUME IInv, reg'["SP"] = reg["SP"],
         \A c \in Cells : c \in reg["SP"] + 1 .. ResetSP => mem'[c] = mem[c]
  PROVE  Words' = Words
<1>1. Holds(reg["SP"], Depth) /\ Depth' = Depth
  BY DEF IInv, Depth
<1>2. Words' = Live(mem', Depth)
  BY <1>1 DEF Words, Live
<1>3. Live(mem', Depth) = Live(mem, Depth)
  BY <1>1, LiveSame
<1> QED
  BY <1>2, <1>3, WordsAre

\* What is outside the stack keeps its type.
Typed == /\ File' \in [Reg \ {"SP"} -> Word]
         /\ PS' \in 0 .. 255 /\ PC' \in Nat

LEMMA FileTypes == TypeOK' => Typed
BY Widths DEF TypeOK, File, Typed

\* A step that sets the stack pointer and no other register.
SetsSP(v) == reg' = [reg EXCEPT !["SP"] = v]

LEMMA OnlySP ==
  \A v : TypeOK /\ SetsSP(v) => File' = File /\ reg'["SP"] = v
BY Numbers DEF TypeOK, File, SetsSP

-----------------------------------------------------------------------------
(* Each pushing instruction pushes, a call and an interrupt the addresses  *)
(* to come back to.                                                        *)
LEMMA PushImplements ==
  ASSUME NEW i \in ISA, IInv, Typed, 3 * (Depth + 1) <= ResetSP,
         PUSH(i) \/ IntRead(i)
  PROVE  Abstract!Push
<1>1. TypeOK
  BY DEF IInv
<1>2. PICK v \in Nat : mem' = StackPush(mem, reg["SP"], v)
  <2>1. CASE PUSH(i)
    <3>1. Pushed(i) \in Nat
      BY <1>1, <2>1, Numbers, Operands, Widths
         DEF PUSH, Pushed, Pushes, TypeOK
    <3> QED
      BY <2>1, <3>1 DEF PUSH
  <2>2. CASE IntRead(i)
    <3>1. \A z \in Outside \cup {255} : (IF z = 13 THEN 10 ELSE z) \in Nat
      BY OutsideAssumption, Widths
    <3> QED
      BY <2>2, <3>1 DEF IntRead
  <2> QED
    BY <2>1, <2>2
<1>3. /\ CanPush(reg["SP"]) /\ PS' = PS
      /\ SetsSP(PushSP(reg["SP"]))
  BY DEF PUSH, IntRead, SetsSP
<1>4. File' = File /\ reg'["SP"] = PushSP(reg["SP"])
  BY <1>1, <1>3, OnlySP
<1>5. Words' = Append(Words, v % W)
  BY <1>2, <1>3, <1>4, WordsPush
<1>6. v % W \in Word
  BY Wraps
<1>7. Words \in Seq(Word)
  BY WordsAre
<1> HIDE DEF Words, File
<1>8. Len(Words') = Len(Words) + 1 /\ Words'[Len(Words) + 1] = v % W
  BY <1>5, <1>6, <1>7, AppendProperties
<1> QED
  BY <1>3, <1>4, <1>5, <1>6, <1>8 DEF Abstract!Push, Typed

LEMMA CallImplements ==
  ASSUME NEW i \in ISA, IInv, 3 * (Depth + 1) <= ResetSP, CALL(i)
  PROVE  Abstract!Call
<1>1. TypeOK /\ PC + 4 \in Nat
  BY Numbers DEF IInv
<1>2. File' = File /\ reg'["SP"] = PushSP(reg["SP"])
  <2>1. SetsSP(PushSP(reg["SP"]))
    BY DEF CALL, SetsSP
  <2> QED
    BY <1>1, <2>1, OnlySP
<1>3. Words' = Append(Words, (PC + 4) % W)
  BY <1>1, <1>2, WordsPush DEF CALL
<1>4. PC' \in Word /\ PS' = PS
  BY Operands DEF CALL
<1> QED
  BY <1>2, <1>3, <1>4, Widths DEF Abstract!Call

(* Each popping instruction delivers the word on top.                      *)
LEMMA PopImplements ==
  ASSUME NEW i \in ISA, IInv, Typed, Depth >= 1, POP1(i), i.r # "SP"
  PROVE  Abstract!Pop(i.r)
<1>1. TypeOK /\ i.r \in Reg
  BY Operands DEF IInv
<1>2. /\ reg'["SP"] = PopSP(reg["SP"]) /\ mem' = mem /\ PS' = PS
      /\ reg' = [reg EXCEPT !["SP"] = PopSP(reg["SP"]),
                            ![i.r] = StackPop(mem, reg["SP"])]
  BY <1>1, Numbers DEF POP1, TypeOK, rest
<1>3. File' = [File EXCEPT ![i.r] = StackPop(mem, reg["SP"])]
  <2>1. \A r \in Reg \ {"SP"} :
          reg'[r] = IF r = i.r THEN StackPop(mem, reg["SP"]) ELSE reg[r]
    BY <1>1, <1>2 DEF TypeOK
  <2>2. DOMAIN File = Reg \ {"SP"} /\ \A r \in DOMAIN File : File[r] = reg[r]
    BY DEF File
  <2>3. File' = [r \in Reg \ {"SP"} |-> reg'[r]]
    BY DEF File
  <2> HIDE DEF File
  <2>4. File' = [r \in DOMAIN File |->
                   IF r = i.r THEN StackPop(mem, reg["SP"]) ELSE File[r]]
    BY <2>1, <2>2, <2>3
  <2> QED
    BY <2>4
<1>4. /\ StackPop(mem, reg["SP"]) = Words[Len(Words)]
      /\ Words' = SubSeq(Words, 1, Len(Words) - 1)
      /\ Words # << >>
  BY <1>2, WordsPop
<1> QED
  BY <1>2, <1>3, <1>4 DEF Abstract!Pop, Abstract!Top, Abstract!Drop, Typed

LEMMA EmitImplements ==
  ASSUME NEW i \in ISA, IInv, Typed, Depth >= 1, IntExit(i) \/ IntWrite(i)
  PROVE  Abstract!Emit
<1>1. TypeOK
  BY DEF IInv
<1>2. /\ SetsSP(PopSP(reg["SP"])) /\ mem' = mem /\ PS' = PS
  BY DEF IntExit, IntWrite, rest, SetsSP
<1>3. File' = File /\ reg'["SP"] = PopSP(reg["SP"])
  BY <1>1, <1>2, OnlySP
<1>4. Words' = SubSeq(Words, 1, Len(Words) - 1) /\ Words # << >>
  BY <1>2, <1>3, WordsPop
<1> QED
  BY <1>2, <1>3, <1>4 DEF Abstract!Emit, Abstract!Drop, Typed

LEMMA ReturnImplements ==
  ASSUME NEW i \in ISA, IInv, Depth >= 1, Return(i), Returning(i)
  PROVE  Abstract!Return
<1>1. TypeOK
  BY DEF IInv
<1>2. /\ SetsSP(PopSP(reg["SP"])) /\ PC' = StackPop(mem, reg["SP"])
      /\ mem' = mem /\ PS' = PS
  BY DEF Return, rest, SetsSP
<1>3. File' = File /\ reg'["SP"] = PopSP(reg["SP"])
  BY <1>1, <1>2, OnlySP
<1>4. /\ StackPop(mem, reg["SP"]) = Words[Len(Words)]
      /\ Words' = SubSeq(Words, 1, Len(Words) - 1)
      /\ Words # << >>
  BY <1>2, <1>3, WordsPop
<1> QED
  BY <1>2, <1>3, <1>4 DEF Abstract!Return, Abstract!Top, Abstract!Drop

(* A step that moves neither SP nor a live word.                           *)
LEMMA LocalImplements ==
  ASSUME IInv, Typed, reg'["SP"] = reg["SP"],
         \A c \in Cells : c \in reg["SP"] + 1 .. ResetSP => mem'[c] = mem[c]
  PROVE  Abstract!Local
BY WordsSame DEF Abstract!Local, Typed

(* An interrupt pushes the address to come back to and then the flags.     *)
LEMMA TrapImplements ==
  ASSUME NEW i \in ISA, IInv, TypeOK', 3 * (Depth + 2) <= ResetSP, IntVector(i)
  PROVE  Abstract!Trap
<1> DEFINE sp == reg["SP"]
           m == StackPush(mem, sp, PC + 2)
<1>1. /\ TypeOK /\ Holds(sp, Depth) /\ mem \in [Cells -> Byte]
      /\ Depth \in Nat /\ ResetSP \in Nat
  BY DEF IInv, TypeOK, Holds, ResetSP
<1>2. PC + 2 \in Nat /\ PS \in Nat /\ PS % W = PS
  BY <1>1, Numbers, Widths DEF TypeOK
<1>3. /\ CanPush(sp) /\ CanPush(PushSP(sp)) /\ PS' = PS
      /\ mem' = StackPush(m, PushSP(sp), PS)
      /\ SetsSP(PushSP(PushSP(sp)))
      /\ Has(Vector(i.n), 3) /\ PC' = Read24(mem', Vector(i.n))
  BY DEF IntVector, SetsSP
<1>4. File' = File /\ reg'["SP"] = PushSP(PushSP(sp))
  BY <1>1, <1>3, OnlySP
<1>5. 3 * (Depth + 1) <= ResetSP /\ 3 * (Depth + 1 + 1) <= ResetSP
  BY <1>1
<1>6. Holds(PushSP(sp), Depth + 1)
  BY <1>1, <1>3, <1>5, Pushing
<1>7. Holds(PushSP(PushSP(sp)), Depth + 1 + 1)
  BY <1>3, <1>5, <1>6, Pushing
<1>8. m \in [Cells -> Byte]
  <2>1. PC + 2 \in Int
    BY <1>2
  <2>2. Write(mem, sp - 2, 3, PC + 2) \in [Cells -> Byte]
    BY <1>1, <2>1, WriteType
  <2> QED
    BY <2>2 DEF StackPush
<1>9. Live(m, Depth + 1) = Append(Live(mem, Depth), (PC + 2) % W)
  BY <1>1, <1>2, <1>3, <1>5, LivePush
<1> HIDE DEF m
<1>10. Live(mem', Depth + 1 + 1) = Append(Live(m, Depth + 1), PS)
  BY <1>2, <1>3, <1>5, <1>6, <1>8, LivePush
<1>11. Depth' = Depth + 1 + 1
  BY <1>4, <1>7, DepthOf DEF Depth
<1>12. Words' = Live(mem', Depth + 1 + 1)
  BY <1>11 DEF Words, Live
<1>13. Words' = Append(Append(Words, (PC + 2) % W), PS)
  BY <1>9, <1>10, <1>12, WordsAre
<1>14. Words \in Seq(Word) /\ (PC + 2) % W \in Word /\ PS \in Word
  BY <1>1, <1>2, WordsAre, Wraps DEF TypeOK
<1> HIDE DEF Words
<1>15. Append(Append(Words, (PC + 2) % W), PS) = Words \o <<(PC + 2) % W, PS>>
  BY <1>14
<1>16. PC' \in Word
  <2>1. Vector(i.n) \in Int /\ mem' \in [Cells -> Byte]
    BY Operands, Widths DEF Vector, TypeOK
  <2> QED
    BY <1>3, <2>1, ReadTypes
<1> QED
  BY <1>3, <1>4, <1>13, <1>15, <1>16, Widths DEF Abstract!Trap

(* IRET takes both back.                                                   *)
LEMMA TrapReturnImplements ==
  ASSUME NEW i \in ISA, IInv, Depth >= 2, IRET(i)
  PROVE  Abstract!TrapReturn
<1> DEFINE sp == reg["SP"]
<1>1. /\ TypeOK /\ Holds(sp, Depth) /\ mem \in [Cells -> Byte]
      /\ Depth \in Nat /\ Depth - 1 >= 1
  BY DEF IInv, TypeOK, Holds
<1>2. /\ PS' = StackPop(mem, sp) % 256 /\ PC' = StackPop(mem, PopSP(sp))
      /\ SetsSP(PopSP(PopSP(sp))) /\ mem' = mem
  BY DEF IRET, rest, SetsSP
<1>3. File' = File /\ reg'["SP"] = PopSP(PopSP(sp))
  BY <1>1, <1>2, OnlySP
<1>4. Holds(PopSP(sp), Depth - 1)
  BY <1>1, Popping
<1>5. Holds(PopSP(PopSP(sp)), Depth - 1 - 1)
  BY <1>1, <1>4, Popping
<1>6. Depth' = Depth - 2
  <2>1. Depth' = Depth - 1 - 1
    BY <1>3, <1>5, DepthOf DEF Depth
  <2> QED
    BY <1>1, <2>1
<1>7. Words' = Live(mem, Depth - 2)
  BY <1>2, <1>6 DEF Words, Live
<1>8. Words = Live(mem, Depth) /\ Len(Words) = Depth
  BY WordsAre
<1>9. StackPop(mem, sp) = Live(mem, Depth)[Depth]
  BY <1>1, LivePop
<1>10. StackPop(mem, PopSP(sp)) = Live(mem, Depth)[Depth - 1]
  <2>1. StackPop(mem, PopSP(sp)) = Live(mem, Depth - 1)[Depth - 1]
    BY <1>1, <1>4, LivePop
  <2>2. Depth - 1 \in 1 .. Depth - 1 /\ Depth - 1 \in 1 .. Depth
    BY <1>1
  <2> QED
    BY <2>1, <2>2 DEF Live
<1>11. Live(mem, Depth - 2) = SubSeq(Live(mem, Depth), 1, Depth - 2)
  <2>1. Depth - 2 \in 0 .. Depth
    BY <1>1
  <2> QED
    BY <1>1, <2>1, LiveTake
<1> HIDE DEF Words, File
<1> QED
  BY <1>1, <1>2, <1>3, <1>7, <1>8, <1>9, <1>10, <1>11
  DEF Abstract!TrapReturn, Abstract!Top, Abstract!Drop

(* A reset leaves no word.                                                 *)
LEMMA NoWords == reg["SP"] = ResetSP => Words = << >>
<1> SUFFICES ASSUME reg["SP"] = ResetSP PROVE Words = << >>
  OBVIOUS
<1>1. Depth = 0
  BY DEF Depth, ResetSP
<1>2. Words \in [1 .. 0 -> {}]
  BY <1>1 DEF Words
<1>3. Words \in Seq({})
  BY <1>2, SeqDef
<1> QED
  BY <1>2, <1>3, EmptySeq, LenProperties

LEMMA ClearImplements ==
  ASSUME NEW i \in ISA, TypeOK, Typed, IntReset(i)
  PROVE  Abstract!Clear
<1>1. reg'["SP"] = ResetSP
  BY Numbers DEF IntReset, TypeOK
<1>2. Words' = << >>
  <2>1. (reg["SP"] = ResetSP => Words = << >>)'
    BY NoWords, PTL
  <2> QED
    BY <1>1, <2>1
<1> QED
  BY <1>2 DEF Abstract!Clear, Typed

-----------------------------------------------------------------------------
(* Every step of a disciplined program is a step of the abstract stack.    *)
LEMMA InterruptImplements ==
  ASSUME NEW i \in ISA, IInv, TypeOK', Typed, INT(i), StackOp(i), Disciplined(i)
  PROVE  Abstract!Next
<1> USE DEF Abstract!Next
<1>1. TypeOK /\ Depth \in Nat
  BY WordsAre DEF IInv
<1>2. /\ Calls(i, {INT_READ}) => PushCount(i) = 1
      /\ Vectored(i) => PushCount(i) = 2
      /\ Calls(i, {INT_EXIT, INT_WRITE}) => PopCount(i) = 1
  BY DEF PushCount, PopCount, Calls, IsInt, Vectored, Pushes
<1>3. PopCount(i) <= Depth /\ 3 * (Depth + PushCount(i)) <= ResetSP
  BY DEF Disciplined
<1>4. ASSUME reg'["SP"] = reg["SP"], mem' = mem PROVE Abstract!Next
  BY <1>4, LocalImplements
<1>5. ~Calls(i, Draws \cup {INT_VIDEO_WRITE, INT_WAIT})
  BY DEF StackOp, PushCount, PopCount, Calls, IsInt, Vectored, Pushes, Returns,
         Draws, INT_VIDEO_WRITE, INT_WAIT, INT_READ, INT_EXIT, INT_WRITE,
         INT_RESET, INT_3D
<1>6. CASE IntMasked(i)
  BY <1>4, <1>6 DEF IntMasked, rest
<1>7. CASE IntVector(i)
  BY <1>2, <1>3, <1>7, TrapImplements DEF IntVector
<1>8. CASE IntExit(i) \/ IntWrite(i)
  <2>1. Calls(i, {INT_EXIT, INT_WRITE})
    BY <1>8 DEF IntExit, IntWrite, Calls
  <2> QED
    BY <1>2, <1>3, <1>8, <2>1, EmitImplements
<1>9. CASE IntRead(i)
  BY <1>2, <1>3, <1>9, PushImplements DEF IntRead
<1>10. CASE IntReset(i)
  BY <1>1, <1>10, ClearImplements
<1>11. CASE IntVideoWrite(i) \/ IntDraw(i) \/ IntWait(i)
  BY <1>5, <1>11 DEF IntVideoWrite, IntDraw, IntWait, Calls
<1>12. CASE IntAsk(i)
  BY <1>1, <1>4, <1>12, Numbers DEF IntAsk, rest, TypeOK
<1>13. CASE IntBeep(i) \/ IntIllegal(i)
  BY <1>4, <1>13 DEF IntBeep, IntIllegal, vars
<1> QED
  BY <1>6, <1>7, <1>8, <1>9, <1>10, <1>11, <1>12, <1>13 DEF INT

LEMMA StackImplements ==
  ASSUME NEW i \in ISA, IInv, TypeOK', Typed, Stack(i), Disciplined(i)
  PROVE  Abstract!Next
<1> USE DEF Abstract!Next
<1>1. Depth \in Nat
  BY WordsAre
<1>2. /\ i.op \in Pushes \cup {"CALL"} => PushCount(i) = 1
      /\ i.op = "POP1" \/ (i.op \in Returns /\ Returning(i)) => PopCount(i) = 1
      /\ i.op = "IRET" => PopCount(i) = 2
  BY DEF PushCount, PopCount, Calls, IsInt, Returns
<1>3. /\ PopCount(i) <= Depth /\ 3 * (Depth + PushCount(i)) <= ResetSP
      /\ i.op # "COP1" /\ (i.op = "POP1" => i.r # "SP")
  BY DEF Disciplined
<1>4. ASSUME reg'["SP"] = reg["SP"], mem' = mem PROVE Abstract!Next
  BY <1>4, LocalImplements
<1>5. CASE PUSH(i)
  BY <1>2, <1>3, <1>5, PushImplements DEF PUSH
<1>6. CASE POP1(i)
  <2>1. i.op = "POP1" /\ i.r \in Reg \ {"SP"}
    BY <1>3, <1>6, Operands DEF POP1
  <2> QED
    BY <1>2, <1>3, <1>6, <2>1, PopImplements
<1>7. CASE COP1(i)
  BY <1>3, <1>7 DEF COP1
<1>8. CASE CALL(i)
  BY <1>2, <1>3, <1>8, CallImplements DEF CALL
<1>9. CASE Return(i) /\ Returning(i)
  BY <1>2, <1>3, <1>9, ReturnImplements DEF Return
<1>10. CASE Return(i) /\ ~Returning(i)
  BY <1>4, <1>10 DEF Return, rest
<1>11. CASE IRET(i)
  BY <1>2, <1>3, <1>11, TrapReturnImplements DEF IRET
<1>12. CASE StackFault(i)
  BY <1>4, <1>12 DEF StackFault
<1> QED
  BY <1>5, <1>6, <1>7, <1>8, <1>9, <1>10, <1>11, <1>12 DEF Stack

LEMMA StepImplements ==
  ASSUME NEW i \in ISA, IInv, StackStep(i)
  PROVE  Abstract!Next
<1>1. TypeOK /\ Step(i) /\ Disciplined(i)
  BY DEF IInv, StackStep
<1>2. TypeOK' /\ Typed
  BY <1>1, StepTypes, FileTypes
<1>3. CASE ~StackOp(i)
  BY <1>1, <1>2, <1>3, LocalImplements DEF Disciplined, Abstract!Next
<1>4. CASE StackOp(i)
  <2>1. i.op \in StackOps
    BY <1>4, StackOpcodes
  <2>2. Stack(i) \/ System(i)
    BY <1>1, <2>1, OtherOpcodes DEF Step, Exec
  <2>3. CASE Stack(i)
    BY <1>1, <1>2, <2>3, StackImplements
  <2>4. CASE System(i)
    <3>1. INT(i)
      BY <2>1, <2>4 DEF System, CPUID, HLT, HLT1, UNK, StackOps, Pushes, Returns
    <3> QED
      BY <1>1, <1>2, <1>4, <3>1, InterruptImplements
  <2> QED
    BY <2>2, <2>3, <2>4
<1> QED
  BY <1>3, <1>4

(* StackPush, StackPop, CALL, RET, INT and IRET implement the abstract     *)
(* stack for every disciplined program, any memory and any depth: RET      *)
(* resumes after the matching CALL, IRET after the interrupt with the      *)
(* flags it found, and POP delivers the word that was pushed last.         *)
THEOREM StackRefines == StackSpec => ImplementsCallStack
<1>1. Init => Abstract!Start
  <2> SUFFICES ASSUME Init PROVE Abstract!Start
    OBVIOUS
  <2>1. TypeOK /\ reg["SP"] = ResetSP
    BY InitTypes DEF Init, Reg
  <2>2. File \in [Reg \ {"SP"} -> Word] /\ PS \in 0 .. 255 /\ PC \in Nat
    BY <2>1, Widths DEF TypeOK, File
  <2> QED
    BY <2>1, <2>2, NoWords DEF Abstract!Start
<1>2. ASSUME IInv, [StackNext]_vars PROVE [Abstract!Next]_(Abstract!abs)
  <2>1. CASE StackNext
    BY <1>2, <2>1, StepImplements DEF StackNext
  <2>2. CASE UNCHANGED vars
    BY <2>2 DEF vars, Abstract!abs, Words, File, Depth
  <2> QED
    BY <1>2, <2>1, <2>2
<1>3. StackSpec => []IInv
  BY StackIInv
<1> QED
  BY <1>1, <1>2, <1>3, PTL DEF StackSpec, ImplementsCallStack, Abstract!Lifo
-----------------------------------------------------------------------------
(***************************************************************************)
(* What a jump decides.  The flags that the code sets for the program and  *)
(* the flags on the stack are those of the comparisons rel and tags hold.  *)
(***************************************************************************)

\* Z and N stay what they were.
SameFlags(ps, qs) == /\ Bit(ps, FlagZ) <=> Bit(qs, FlagZ)
                     /\ Bit(ps, FlagN) <=> Bit(qs, FlagN)

LEMMA SameShows ==
  \A ps, qs, k : SameFlags(ps, qs) => (Shows(ps, k) <=> Shows(qs, k))
BY DEF SameFlags, Shows

\* Z and N of a word are those of its low byte.
LEMMA LowFlags == \A v \in Nat : SameFlags(v % 256, v)
<1> SUFFICES ASSUME NEW v \in Nat PROVE SameFlags(v % 256, v)
  OBVIOUS
<1>1. PICK a, b, c, d, e, f : ByteOf(v, a, b, c, d, e, f)
  BY ByteDigits
<1>2. ByteOf(v % 256, a, b, c, d, e, f % 2)
  BY <1>1 DEF ByteOf
<1> QED
  BY <1>1, <1>2, DigitFlags DEF SameFlags

\* STI, CLI and CLC leave them alone.
LEMMA OtherFlags ==
  \A ps \in Nat : /\ SameFlags(Raise(ps, FlagI), ps)
                  /\ SameFlags(Lower(ps, FlagI), ps)
                  /\ SameFlags(Lower(ps, FlagC), ps)
<1> SUFFICES ASSUME NEW ps \in Nat
             PROVE  /\ SameFlags(Raise(ps, FlagI), ps)
                    /\ SameFlags(Lower(ps, FlagI), ps)
                    /\ SameFlags(Lower(ps, FlagC), ps)
  OBVIOUS
<1>1. PICK a, b, c, d, e, f : ByteOf(ps, a, b, c, d, e, f)
  BY ByteDigits
<1>2. /\ Bit(ps, FlagC) <=> a = 1
      /\ Bit(ps, FlagI) <=> e = 1
  BY <1>1, DigitFlags
<1>3. /\ ByteOf(Raise(ps, FlagI), a, b, c, d, 1, f)
      /\ ByteOf(Lower(ps, FlagI), a, b, c, d, 0, f)
      /\ ByteOf(Lower(ps, FlagC), 0, b, c, d, e, f)
  BY <1>1, <1>2 DEF Raise, Lower, FlagI, FlagC, ByteOf
<1> QED
  BY <1>1, <1>3, DigitFlags DEF SameFlags

\* A comparison sets them.
LEMMA ComparedShows ==
  ASSUME NEW x \in Nat, NEW y \in Nat, PS \in Nat, Compared(x, y)
  PROVE  Shows(PS', Relation(x, y))
BY ComparedFlags DEF Shows, Relation

-----------------------------------------------------------------------------
(* Which instructions change Z and N.                                      *)
Comparisons == {"CMP11", "CMP10", "CMPpi"}
Conditional == {"JME0", "JMNE0", "JL0", "JG0"}

\* Each of these opcodes has the one handler the table gives it.
LEMMA OneHandler ==
  ASSUME NEW i, Exec(i)
  PROVE  /\ i.op \in Comparisons => CMP(i)
         /\ i.op = "JME0" => JME0(i)
         /\ i.op = "JMNE0" => JMNE0(i)
         /\ i.op = "JL0" => JL0(i)
         /\ i.op = "JG0" => JG0(i)
         /\ i.op = "IRET" => IRET(i) \/ StackFault(i)
         /\ Vectored(i) => IntVector(i) \/ StackFault(i)
<1> DEFINE Ops == Comparisons \cup Conditional
<1>1. i.op \in Ops => ~Stack(i) /\ ~System(i) /\ ~Memory(i)
  <2> SUFFICES ASSUME i.op \in Ops
               PROVE  ~Stack(i) /\ ~System(i) /\ ~Memory(i)
    OBVIOUS
  <2>1. ~Stack(i)
    <3>1. ~HitsHost(i)
      BY DEF HitsHost, Comparisons, Conditional, Pushes, Returns, Calls, IsInt, Vectored
    <3> QED
      BY <3>1 DEF Stack, StackFault, PUSH, POP1, COP1, CALL, Return, IRET, Pushes, Returns,
                  Comparisons, Conditional
  <2>2. ~System(i)
    BY DEF System, INT, IntMasked, IntVector, IntExit, IntRead, IntWrite, IntReset,
           IntVideoWrite, IntDraw, IntAsk, IntWait, IntBeep, IntIllegal, Vectored,
           Calls, IsInt, CPUID, HLT, HLT1, UNK, Comparisons, Conditional
  <2>3. ~Memory(i)
    BY DEF Memory, LOAD, Loads, STORE, Stores, WalkStore, WalkLoad, Step1M, DISK,
           Comparisons, Conditional
  <2> QED
    BY <2>1, <2>2, <2>3
<1>2. i.op \in Comparisons => CMP(i)
  <2> SUFFICES ASSUME i.op \in Comparisons PROVE CMP(i)
    OBVIOUS
  <2>1. ~Control(i)
    BY DEF Comparisons, Control, JME0, JMNE0, JL0, JG0, Jump, LOOP
  <2>2. Compute(i)
    BY <1>1, <2>1 DEF Exec
  <2> QED
    BY <2>2 DEF Comparisons, Compute, AluRR, AluOps, AluRI, DIV, DivideByZero, Step1,
                XCHG4, FLAGS
<1>3. i.op \in Conditional => Control(i)
  <2> SUFFICES ASSUME i.op \in Conditional PROVE ~Compute(i)
    BY <1>1 DEF Exec
  <2> QED
    BY DEF Conditional, Compute, AluRR, AluOps, AluRI, DIV, DivideByZero, Step1,
           XCHG4, CMP, FLAGS
<1>4. /\ i.op = "JME0" => JME0(i)
      /\ i.op = "JMNE0" => JMNE0(i)
      /\ i.op = "JL0" => JL0(i)
      /\ i.op = "JG0" => JG0(i)
  BY <1>3 DEF Conditional, Control, JME0, JMNE0, JL0, JG0, Jump, LOOP
<1>5. i.op = "IRET" => IRET(i) \/ StackFault(i)
  <2> SUFFICES ASSUME i.op = "IRET" PROVE IRET(i) \/ StackFault(i)
    OBVIOUS
  <2>1. Stack(i) \/ System(i)
    BY OtherOpcodes DEF Exec, StackOps
  <2>2. ~System(i)
    BY DEF System, INT, IntMasked, IntVector, IntExit, IntRead, IntWrite, IntReset,
           IntVideoWrite, IntDraw, IntAsk, IntWait, IntBeep, IntIllegal, Vectored,
           Calls, IsInt, CPUID, HLT, HLT1, UNK
  <2> QED
    BY <2>1, <2>2 DEF Stack, PUSH, POP1, COP1, CALL, Return, Pushes, Returns
<1>6. Vectored(i) => IntVector(i) \/ StackFault(i)
  <2> SUFFICES ASSUME Vectored(i) PROVE IntVector(i) \/ StackFault(i)
    OBVIOUS
  <2>1. i.op = "INT0" /\ Bit(PS, FlagI) /\ \A S : ~Calls(i, S)
    BY DEF Vectored, Calls
  <2>2. Stack(i) \/ System(i)
    BY <2>1, OtherOpcodes DEF Exec, StackOps
  <2>3. CASE Stack(i)
    BY <2>1, <2>3 DEF Stack, PUSH, POP1, COP1, CALL, Return, IRET, Pushes, Returns
  <2>4. CASE System(i)
    BY <2>1, <2>4
       DEF System, INT, IntMasked, IntExit, IntRead, IntWrite, IntReset, IntVideoWrite,
           IntDraw, IntAsk, IntWait, IntBeep, IntIllegal, CPUID, HLT, HLT1, UNK
  <2> QED
    BY <2>2, <2>3, <2>4
<1> QED
  BY <1>2, <1>4, <1>5, <1>6

\* No instruction but these changes a flag.
LEMMA OthersKeep ==
  ASSUME NEW i, Exec(i), PS' # PS
  PROVE  CMP(i) \/ FLAGS(i) \/ Spends(i) \/ IntReset(i) \/ IRET(i)
<1>1. CASE Control(i)
  BY <1>1 DEF Control, JME0, JMNE0, JL0, JG0, Jump, LOOP, Spends
<1>2. CASE Stack(i)
  BY <1>2 DEF Stack, PUSH, POP1, COP1, CALL, Return, StackFault
<1>3. CASE Compute(i)
  BY <1>3 DEF Compute, AluRR, AluRI, DIV, DivideByZero, Step1, XCHG4
<1>4. CASE Memory(i)
  BY <1>4 DEF Memory, LOAD, STORE, WalkStore, WalkLoad, Step1M, DISK
<1>5. CASE System(i)
  <2>1. CASE INT(i)
    BY <1>5, <2>1
       DEF INT, IntMasked, IntVector, IntExit, IntRead, IntWrite,
           IntVideoWrite, IntDraw, IntAsk, IntWait, IntBeep, IntIllegal, vars
  <2> QED
    BY <1>5, <2>1 DEF System, CPUID, HLT, HLT1, UNK
<1> QED
  BY <1>1, <1>2, <1>3, <1>4, <1>5 DEF Exec

-----------------------------------------------------------------------------
(* A step of a disciplined program leaves the words that stay on the stack,*)
(* and an interrupt puts the flags on top.                                 *)
LEMMA WordsOf == IInv => Depth \in Nat /\ Words \in Seq(Word) /\ Len(Words) = Depth
  BY WordsAre

LEMMA NextWords ==
  ASSUME NEW i \in ISA, IInv, StackStep(i)
  PROVE  /\ IInv' /\ Depth \in Nat /\ Depth' \in Nat
         /\ Words \in Seq(Word) /\ Len(Words) = Depth
         /\ Words' \in Seq(Word) /\ Len(Words') = Depth'
<1>1. IInv'
  BY StackStepIInv
<1>2. (IInv => Depth \in Nat /\ Words \in Seq(Word) /\ Len(Words) = Depth)'
  BY WordsOf, PTL
<1> QED
  BY <1>1, <1>2, WordsOf

LEMMA PrefixKept ==
  ASSUME NEW i \in ISA, IInv, StackStep(i), NEW k \in 1 .. Depth', k <= Depth
  PROVE  Words'[k] = Words[k]
<1>1. /\ IInv' /\ Depth \in Nat /\ Depth' \in Nat
      /\ Words \in Seq(Word) /\ Len(Words) = Depth
      /\ Words' \in Seq(Word) /\ Len(Words') = Depth'
  BY NextWords
<1>2. Abstract!Next
  BY StepImplements
<1> HIDE DEF Words
<1>3. k \in 1 .. Len(Words) /\ k \in 1 .. Len(Words')
  BY <1>1
<1>4. CASE Abstract!Push
  <2>1. PICK v : Words' = Append(Words, v)
    BY <1>4 DEF Abstract!Push
  <2> QED
    BY <1>1, <1>3, <2>1
<1>5. CASE (\E r \in Reg \ {"SP"} : Abstract!Pop(r)) \/ Abstract!Emit \/ Abstract!Return
           \/ Abstract!TrapReturn
  <2>1. PICK n \in {1, 2} : Words' = SubSeq(Words, 1, Len(Words) - n)
    BY <1>5
    DEF Abstract!Pop, Abstract!Emit, Abstract!Return, Abstract!TrapReturn, Abstract!Drop
  <2>2. k \in 1 .. Len(Words) - n
    <3>1. CASE Len(Words) - n >= 0
      BY <1>1, <1>3, <2>1, <3>1
    <3>2. CASE Len(Words) - n < 0
      BY <1>1, <1>3, <2>1, <3>2
    <3> QED
      BY <1>1, <3>1, <3>2
  <2> QED
    BY <1>1, <2>1, <2>2
<1>6. CASE Abstract!Call
  BY <1>1, <1>3, <1>6 DEF Abstract!Call
<1>7. CASE Abstract!Trap
  <2> DEFINE v == (PC + 2) % 16777216
  <2>1. Words' = Words \o <<v, PS>>
    BY <1>7 DEF Abstract!Trap
  <2> HIDE DEF v
  <2> QED
    BY <1>1, <1>3, <2>1
<1>8. CASE Abstract!Clear
  BY <1>1, <1>3, <1>8 DEF Abstract!Clear
<1>9. CASE Abstract!Local
  BY <1>9 DEF Abstract!Local
<1> QED
  BY <1>2, <1>4, <1>5, <1>6, <1>7, <1>8, <1>9 DEF Abstract!Next

LEMMA FlagsOnTop ==
  ASSUME NEW i \in ISA, IInv, StackStep(i), Vectored(i), Depth' > Depth
  PROVE  Words'[Depth'] = PS
<1>1. /\ IInv' /\ Depth \in Nat /\ Depth' \in Nat
      /\ Words \in Seq(Word) /\ Len(Words) = Depth
      /\ Words' \in Seq(Word) /\ Len(Words') = Depth'
  BY NextWords
<1>2. IntVector(i)
  <2>1. StackFault(i) => reg' = reg
    BY DEF StackFault
  <2>2. ~StackFault(i)
    BY <2>1, <1>1 DEF Depth
  <2> QED
    BY <2>2, OneHandler DEF StackStep, Step
<1>3. PushCount(i) = 2 /\ 3 * (Depth + 2) <= ResetSP /\ TypeOK'
  BY <1>1 DEF PushCount, Vectored, Calls, Pushes, StackStep, Disciplined, IInv
<1>4. Words' = Words \o <<(PC + 2) % 16777216, PS>>
  BY <1>2, <1>3, TrapImplements DEF Abstract!Trap
<1> HIDE DEF Words
<1> QED
  BY <1>1, <1>4

\* IRET takes the flags from the top.
LEMMA FlagsTaken ==
  ASSUME NEW i \in ISA, IInv, StackStep(i), i.op = "IRET"
  PROVE  Depth >= 2 /\ PS' = Words[Depth] % 256
<1>1. Depth \in Nat /\ Len(Words) = Depth
  BY NextWords
<1>2. Depth >= 2
  BY DEF StackStep, Disciplined, PopCount, Calls, IsInt, Returns
<1>3. ~StackFault(i)
  <2> DEFINE sp == reg["SP"]
  <2>1. Holds(sp, Depth) /\ Holds(PopSP(sp), Depth - 1)
    BY <1>1, <1>2, Popping DEF IInv
  <2>2. Holds(PopSP(PopSP(sp)), Depth - 1 - 1)
    BY <1>1, <1>2, <2>1, Popping
  <2>3. PopSP(sp) >= 2 /\ PopSP(PopSP(sp)) >= 2
    BY <1>1, <1>2, <2>1, <2>2 DEF Holds, ResetSP
  <2> HIDE DEF sp
  <2>4. HitsHost(i) => PopSP(sp) < 2 \/ PopSP(PopSP(sp)) < 2
    BY DEF HitsHost, Pushes, Returns, Vectored, Calls, IsInt, sp
  <2> QED
    BY <2>1, <2>2, <2>3, <2>4 DEF StackFault, Holds
<1>4. IRET(i)
  BY <1>3, OneHandler DEF StackStep, Step
<1>5. Abstract!TrapReturn
  BY <1>2, <1>4, TrapReturnImplements
<1> HIDE DEF Words
<1> QED
  BY <1>1, <1>2, <1>5 DEF Abstract!TrapReturn, Abstract!Top

-----------------------------------------------------------------------------
LEMMA ShowsNext ==
  ASSUME NEW i \in ISA, IInv, FlagsShowRelation, BranchStep(i)
  PROVE  Shows(PS', rel')
<1>1. /\ TypeOK /\ Exec(i) /\ StackStep(i) /\ Recall(i) /\ PS \in Nat
      /\ \A r \in Reg : reg[r] \in Nat
      /\ i.r \in Reg /\ i.s \in Reg /\ i.a \in Nat
      /\ \A c \in Cells : mem[c] \in Nat
  BY Widths, Operands DEF IInv, TypeOK, BranchStep, StackStep, Step
<1>2. CASE i.op \in Comparisons
  <2>1. CMP(i)
    BY <1>1, <1>2, OneHandler
  <2>2. CASE i.op = "CMP11"
    <3>1. Compared(reg[i.r], reg[i.s]) /\ rel' = Relation(reg[i.r], reg[i.s])
      BY <1>1, <2>1, <2>2 DEF CMP, Recall
    <3> QED
      BY <1>1, <3>1, ComparedShows
  <2>3. CASE i.op = "CMP10"
    <3>1. Compared(reg[i.r], i.a) /\ rel' = Relation(reg[i.r], i.a)
      BY <1>1, <2>1, <2>3 DEF CMP, Recall
    <3> QED
      BY <1>1, <3>1, ComparedShows
  <2>4. CASE i.op = "CMPpi"
    <3>1. /\ reg[i.r] \in Cells
          /\ Compared(mem[reg[i.r]], i.a) /\ rel' = Relation(mem[reg[i.r]], i.a)
      BY <1>1, <2>1, <2>4 DEF CMP, Recall
    <3> QED
      BY <1>1, <3>1, ComparedShows
  <2> QED
    BY <1>2, <2>2, <2>3, <2>4 DEF Comparisons
<1>3. CASE i.op = "IRET"
  <2>1. rel' = tags[Depth]
    BY <1>1, <1>3 DEF Recall, Spends, Calls, IsInt
  <2>2. Depth >= 2 /\ PS' = Words[Depth] % 256 /\ Depth \in Nat /\ Words[Depth] \in Nat
    <3>1. Depth >= 2 /\ PS' = Words[Depth] % 256
      BY <1>1, <1>3, FlagsTaken
    <3> QED
      BY <3>1, WordsAre, Widths
  <2>3. Shows(Words[Depth], tags[Depth])
    BY <2>2 DEF FlagsShowRelation
  <2> QED
    BY <2>1, <2>2, <2>3, LowFlags, SameShows
<1>4. CASE Spends(i) \/ i.op = "LAF" \/ Calls(i, {INT_RESET})
  BY <1>1, <1>4 DEF Recall, Shows, Spends, Calls, IsInt
<1>5. CASE /\ i.op \notin Comparisons /\ i.op # "IRET"
           /\ ~(Spends(i) \/ i.op = "LAF" \/ Calls(i, {INT_RESET}))
  <2>1. rel' = rel /\ Shows(PS, rel)
    BY <1>1, <1>5 DEF Recall, Comparisons, FlagsShowRelation
  <2>2. SameFlags(PS', PS)
    <3>1. CASE PS' = PS
      BY <3>1 DEF SameFlags
    <3>2. CASE PS' # PS
      <4>1. FLAGS(i)
        BY <1>1, <1>5, <3>2, OthersKeep DEF CMP, Comparisons, IntReset, IRET
      <4> QED
        BY <1>1, <1>5, <3>2, <4>1, OtherFlags DEF FLAGS
    <3> QED
      BY <3>1, <3>2
  <2> QED
    BY <2>1, <2>2, SameShows
<1> QED
  BY <1>2, <1>3, <1>4, <1>5

LEMMA TagsNext ==
  ASSUME NEW i \in ISA, IInv, FlagsShowRelation, BranchStep(i), NEW k \in 1 .. Depth'
  PROVE  Shows(Words'[k], tags'[k])
<1>1. StackStep(i) /\ Mark(i) /\ Depth \in Nat /\ Depth' \in Nat
  BY NextWords DEF BranchStep
<1>2. tags'[k] = IF k <= Depth THEN tags[k]
                 ELSE IF Vectored(i) /\ k = Depth' THEN rel ELSE "none"
  BY <1>1 DEF Mark
<1>3. CASE k <= Depth
  <2>1. Words'[k] = Words[k] /\ Shows(Words[k], tags[k])
    BY <1>1, <1>3, PrefixKept DEF FlagsShowRelation
  <2> QED
    BY <1>2, <1>3, <2>1
<1>4. CASE ~(k <= Depth) /\ Vectored(i) /\ k = Depth'
  <2>1. Words'[k] = PS
    BY <1>1, <1>4, FlagsOnTop
  <2> QED
    BY <1>2, <1>4, <2>1 DEF FlagsShowRelation
<1>5. CASE ~(k <= Depth) /\ ~(Vectored(i) /\ k = Depth')
  BY <1>2, <1>5 DEF Shows
<1> QED
  BY <1>3, <1>4, <1>5

LEMMA BranchIInv == BranchSpec => [](IInv /\ FlagsShowRelation)
<1>1. BranchInit => IInv /\ FlagsShowRelation
  <2> SUFFICES ASSUME BranchInit PROVE IInv /\ FlagsShowRelation
    OBVIOUS
  <2>1. IInv /\ Depth = 0
    <3>1. Holds(ResetSP, 0)
      BY DEF Holds, ResetSP
    <3>2. reg["SP"] = ResetSP
      BY DEF BranchInit, Init, Reg
    <3> QED
      BY <3>1, <3>2, InitTypes, DepthOf DEF IInv, Depth, BranchInit
  <2> QED
    BY <2>1 DEF FlagsShowRelation, Shows, BranchInit
<1>2. IInv /\ FlagsShowRelation /\ [BranchNext]_hvars
        => (IInv /\ FlagsShowRelation)'
  <2> SUFFICES ASSUME IInv, FlagsShowRelation, [BranchNext]_hvars
               PROVE  (IInv /\ FlagsShowRelation)'
    OBVIOUS
  <2>1. ASSUME NEW i \in ISA, BranchStep(i)
        PROVE  (IInv /\ FlagsShowRelation)'
    <3>1. IInv'
      BY <2>1, StackStepIInv DEF BranchStep
    <3> QED
      BY <2>1, <3>1, ShowsNext, TagsNext DEF FlagsShowRelation
  <2>2. CASE UNCHANGED hvars
    BY <2>2 DEF hvars, vars, IInv, TypeOK, Holds, Depth, FlagsShowRelation, Words
  <2> QED
    BY <2>1, <2>2 DEF BranchNext
<1> QED
  BY <1>1, <1>2, PTL DEF BranchSpec

(* Between a comparison and the jump that spends it Z and N show the       *)
(* relation CMP found, and so do the flags every interrupt has put on the  *)
(* stack: no other instruction of the table disturbs them.                 *)
THEOREM FlagsShow == BranchSpec => []FlagsShowRelation
  BY BranchIInv, PTL

(* JL, JG, JME and JMNE go where the last comparison of their program says,*)
(* even when handlers that compare other values ran in between.            *)
THEOREM BranchesDecide == BranchSpec => JumpsDecide
<1> DEFINE Decides ==
      \A i \in ISA : BranchStep(i) /\ rel # "none" =>
        /\ i.op = "JL0"   => PC' = IF rel = "lt" THEN i.a ELSE PC + 4
        /\ i.op = "JG0"   => PC' = IF rel = "lt" THEN PC + 4 ELSE i.a
        /\ i.op = "JME0"  => PC' = IF rel = "eq" THEN i.a ELSE PC + 4
        /\ i.op = "JMNE0" => PC' = IF rel = "eq" THEN PC + 4 ELSE i.a
<1>1. IInv /\ FlagsShowRelation => Decides
  <2> SUFFICES ASSUME FlagsShowRelation, NEW i \in ISA, BranchStep(i), rel # "none"
               PROVE  /\ i.op = "JL0"   => PC' = IF rel = "lt" THEN i.a ELSE PC + 4
                      /\ i.op = "JG0"   => PC' = IF rel = "lt" THEN PC + 4 ELSE i.a
                      /\ i.op = "JME0"  => PC' = IF rel = "eq" THEN i.a ELSE PC + 4
                      /\ i.op = "JMNE0" => PC' = IF rel = "eq" THEN PC + 4 ELSE i.a
    OBVIOUS
  <2>1. (Bit(PS, FlagZ) <=> rel = "eq") /\ (Bit(PS, FlagN) <=> rel = "lt")
    BY DEF FlagsShowRelation, Shows
  <2>2. Exec(i)
    BY DEF BranchStep, StackStep, Step
  <2> QED
    BY <2>1, <2>2, OneHandler DEF JME0, JMNE0, JL0, JG0
<1>2. IInv /\ FlagsShowRelation => [Decides]_hvars
  BY <1>1
<1> HIDE DEF Decides
<1>3. BranchSpec => [][Decides]_hvars
  BY <1>2, BranchIInv, PTL
<1> QED
  BY <1>3 DEF Decides, JumpsDecide
=============================================================================
