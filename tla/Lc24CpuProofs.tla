---------------------------- MODULE Lc24CpuProofs -----------------------------
(***************************************************************************)
(* Theorems of the processor, for any instruction set, any programs, any   *)
(* images of memory and disk: whatever a program does, the registers keep  *)
(* 24 bits and the flags, every byte of memory and disk and the exit       *)
(* status keep eight.                                                      *)
(***************************************************************************)
EXTENDS Lc24Cpu, TLAPS

(* The widths, by their bounds.                                            *)
LEMMA Widths ==
  /\ W = 16777216
  /\ \A x : x \in Byte <=> x \in Nat /\ x <= 255
  /\ \A x : x \in Word <=> x \in Nat /\ x < 16777216
<1>1. 2^8 = 256 /\ 2^24 = 16777216
  OBVIOUS
<1> QED
  BY <1>1 DEF W, Word, Byte

(* A byte is a word, and the result of a wrapped operation is one.         *)
LEMMA Wraps ==
  /\ \A x \in Byte : x \in Word
  /\ \A x \in Int : x % W \in Word /\ x % 256 \in Byte /\ x % 65536 \in Word
BY Widths

(* The operands of an instruction.                                         *)
LEMMA Operands ==
  \A i \in ISA : i.r \in Reg /\ i.s \in Reg /\ i.a \in Word /\ i.n \in Byte
BY IsaAssumption DEF Instruction

(* Raising and lowering a flag keeps a byte a byte.                        *)
LEMMA FlagTypes ==
  \A ps \in Byte, f \in {FlagI, FlagZ, FlagN, FlagC} :
    Raise(ps, f) \in Byte /\ Lower(ps, f) \in Byte
<1> SUFFICES ASSUME NEW ps \in Byte, NEW f \in {FlagI, FlagZ, FlagN, FlagC}
             PROVE  Raise(ps, f) \in Byte /\ Lower(ps, f) \in Byte
  OBVIOUS
<1>1. ps \in Nat /\ ps <= 255
  BY Widths
<1>2. CASE f = 64
  BY <1>1, <1>2, Widths DEF Raise, Lower, Bit
<1>3. CASE f = 4
  BY <1>1, <1>3, Widths DEF Raise, Lower, Bit
<1>4. CASE f = 2
  BY <1>1, <1>4, Widths DEF Raise, Lower, Bit
<1>5. CASE f = 1
  BY <1>1, <1>5, Widths DEF Raise, Lower, Bit
<1> QED
  BY <1>2, <1>3, <1>4, <1>5 DEF FlagI, FlagZ, FlagN, FlagC

(* A byte of flags, or a word pushed for one, by its digits.              *)
ByteOf(ps, a, b, c, d, e, f) ==
  /\ a \in 0 .. 1 /\ b \in 0 .. 1 /\ c \in 0 .. 1 /\ e \in 0 .. 1
  /\ d \in 0 .. 7 /\ f \in Nat
  /\ ps = a + 2 * b + 4 * c + 8 * d + 64 * e + 128 * f

LEMMA ByteDigits ==
  \A ps \in Nat : \E a, b, c, d, e, f : ByteOf(ps, a, b, c, d, e, f)
<1> SUFFICES ASSUME NEW ps \in Nat
             PROVE  \E a, b, c, d, e, f : ByteOf(ps, a, b, c, d, e, f)
  OBVIOUS
<1> DEFINE p == ps \div 2
           q == p \div 2
           r == q \div 2
           s == r \div 8
<1>1. ps = 2 * p + (ps % 2) /\ ps % 2 \in 0 .. 1 /\ p \in Nat
  OBVIOUS
<1>2. p = 2 * q + (p % 2) /\ p % 2 \in 0 .. 1 /\ q \in Nat
  BY <1>1
<1>3. q = 2 * r + (q % 2) /\ q % 2 \in 0 .. 1 /\ r \in Nat
  BY <1>2
<1>4. r = 8 * s + (r % 8) /\ r % 8 \in 0 .. 7 /\ s \in Nat
  BY <1>3
<1>5. s = 2 * (s \div 2) + (s % 2) /\ s % 2 \in 0 .. 1 /\ s \div 2 \in Nat
  BY <1>4
<1> HIDE DEF p, q, r, s
<1>6. ByteOf(ps, ps % 2, p % 2, q % 2, r % 8, s % 2, s \div 2)
  BY <1>1, <1>2, <1>3, <1>4, <1>5 DEF ByteOf
<1> QED
  BY <1>6

LEMMA DigitFlags ==
  ASSUME NEW ps, NEW a, NEW b, NEW c, NEW d, NEW e, NEW f,
         ByteOf(ps, a, b, c, d, e, f)
  PROVE  /\ Bit(ps, FlagC) <=> a = 1
         /\ Bit(ps, FlagN) <=> b = 1
         /\ Bit(ps, FlagZ) <=> c = 1
         /\ Bit(ps, FlagI) <=> e = 1
<1> USE DEF ByteOf
<1>1. ps \div 1 = 2 * (b + 2 * c + 4 * d + 32 * e + 64 * f) + a
  OBVIOUS
<1>2. ps \div 2 = 2 * (c + 2 * d + 16 * e + 32 * f) + b
  OBVIOUS
<1>3. ps \div 4 = 2 * (d + 8 * e + 16 * f) + c
  OBVIOUS
<1>4. ps \div 64 = 2 * f + e
  OBVIOUS
<1>5. (ps \div 1) % 2 = a
  BY <1>1
<1>6. (ps \div 2) % 2 = b
  BY <1>2
<1>7. (ps \div 4) % 2 = c
  BY <1>3
<1>8. (ps \div 64) % 2 = e
  BY <1>4
<1> HIDE DEF ByteOf
<1> QED
  BY <1>5, <1>6, <1>7, <1>8 DEF Bit, FlagC, FlagN, FlagZ, FlagI

(* A comparison sets Z and N and leaves C and I.                           *)
LEMMA ComparedFlags ==
  ASSUME NEW x \in Nat, NEW y \in Nat, PS \in Nat, Compared(x, y)
  PROVE  /\ Bit(PS', FlagZ) <=> x = y
         /\ Bit(PS', FlagN) <=> x < y
         /\ Bit(PS', FlagC) <=> Bit(PS, FlagC)
         /\ Bit(PS', FlagI) <=> Bit(PS, FlagI)
<1>1. PICK a, b, c, d, e, f : ByteOf(PS, a, b, c, d, e, f)
  BY ByteDigits
<1> DEFINE z == IF x = y THEN 1 ELSE 0
           n == IF x < y THEN 1 ELSE 0
           qs == Put(PS, FlagZ, x = y)
<1>2. Bit(PS, FlagZ) <=> c = 1
  BY <1>1, DigitFlags
<1>3. ByteOf(qs, a, b, z, d, e, f)
  BY <1>1, <1>2 DEF Put, Raise, Lower, FlagZ, ByteOf
<1>4. Bit(qs, FlagN) <=> b = 1
  BY <1>3, DigitFlags
<1>5. PS' = Put(qs, FlagN, x < y)
  BY DEF Compared
<1> HIDE DEF qs
<1>6. ByteOf(PS', a, n, z, d, e, f)
  BY <1>3, <1>4, <1>5 DEF Put, Raise, Lower, FlagN, ByteOf
<1> QED
  BY <1>1, <1>6, DigitFlags

(* A comparison leaves a byte of flags.                                    *)
LEMMA ComparedType == \A x, y : PS \in Byte /\ Compared(x, y) => PS' \in Byte
<1>1. ASSUME NEW ps \in Byte, NEW f \in {FlagZ, FlagN}, NEW on
      PROVE  Put(ps, f, on) \in Byte
  BY FlagTypes DEF Put
<1> SUFFICES ASSUME NEW x, NEW y, PS \in Byte, Compared(x, y)
             PROVE  PS' \in Byte
  OBVIOUS
<1>2. Put(PS, FlagZ, x = y) \in Byte
  BY <1>1
<1>3. Put(Put(PS, FlagZ, x = y), FlagN, x < y) \in Byte
  BY <1>1, <1>2
<1> QED
  BY <1>3 DEF Compared

(* A number is the sum of its bytes: what Write takes apart Read24 puts    *)
(* together, in 24 bits.                                                   *)
LEMMA WordBytes ==
  \A v \in Nat : Digit(v, 0) + 256 * Digit(v, 1) + 65536 * Digit(v, 2) = v % W
<1> SUFFICES ASSUME NEW v \in Nat
             PROVE  Digit(v, 0) + 256 * Digit(v, 1) + 65536 * Digit(v, 2) = v % W
  OBVIOUS
<1> DEFINE q == v \div 256
           t == v \div 65536
<1>1. v = 256 * q + (v % 256) /\ q \in Nat /\ v % 256 \in 0 .. 255
  OBVIOUS
<1>2. q = 256 * (q \div 256) + (q % 256) /\ q \div 256 \in Nat /\ q % 256 \in 0 .. 255
  BY <1>1
<1>3. t = q \div 256
  BY <1>1, <1>2
<1>4. t = 256 * (t \div 256) + (t % 256) /\ t \div 256 \in Nat /\ t % 256 \in 0 .. 255
  OBVIOUS
<1>5. /\ Digit(v, 0) = v % 256 /\ Digit(v, 1) = q % 256 /\ Digit(v, 2) = t % 256
  BY DEF Digit
<1> HIDE DEF q, t
<1> DEFINE low == (v % 256) + 256 * (q % 256) + 65536 * (t % 256)
<1>6. v = 16777216 * (t \div 256) + low /\ low \in Nat /\ low < 16777216
  BY <1>1, <1>2, <1>3, <1>4
<1> HIDE DEF low
<1>7. v % 16777216 = low
  BY <1>4, <1>6
<1> QED
  BY <1>5, <1>7, Widths DEF low

(* Writing any number of bytes of any integer keeps memory a memory.       *)
LEMMA WriteType ==
  ASSUME NEW m \in [Cells -> Byte], NEW a, NEW k, NEW v \in Int
  PROVE  Write(m, a, k, v) \in [Cells -> Byte]
<1>1. ASSUME NEW j PROVE Digit(v, j) \in Byte
  <2>1. v \div 256 \in Int /\ v \div 65536 \in Int
    OBVIOUS
  <2> QED
    BY <2>1, Wraps DEF Digit
<1> QED
  BY <1>1 DEF Write

(* One, two or three bytes of memory make a word.                          *)
LEMMA ReadTypes ==
  ASSUME NEW m \in [Cells -> Byte], NEW a \in Int
  PROVE  /\ Has(a, 1) => m[a] \in Byte
         /\ Has(a, 2) => Read16(m, a) \in Word
         /\ Has(a, 3) => Read24(m, a) \in Word
<1>1. Has(a, 1) => a \in Cells
  BY DEF Has
<1>2. Has(a, 2) => a \in Cells /\ a + 1 \in Cells
  BY DEF Has
<1>3. Has(a, 3) => a \in Cells /\ a + 1 \in Cells /\ a + 2 \in Cells
  BY DEF Has
<1>4. \A c \in Cells : m[c] \in Nat /\ m[c] <= 255
  BY Widths
<1> QED
  BY <1>1, <1>2, <1>3, <1>4, Widths DEF Read16, Read24

(* The stack pointer wraps, a push writes a word and a pop reads one.      *)
LEMMA StackTypes ==
  ASSUME NEW m \in [Cells -> Byte], NEW s \in Word
  PROVE  /\ PushSP(s) \in Word /\ PopSP(s) \in Word
         /\ \A v \in Int : StackPush(m, s, v) \in [Cells -> Byte]
         /\ CanPop(s) => StackPop(m, s) \in Word
<1>1. s \in Int /\ s - 3 \in Int /\ s + 3 \in Int
  BY Widths
<1>2. PushSP(s) \in Word /\ PopSP(s) \in Word
  BY <1>1, Wraps DEF PushSP, PopSP
<1>3. PopSP(s) - 2 \in Int
  BY <1>2, Widths
<1> QED
  BY <1>2, <1>3, WriteType, ReadTypes DEF StackPush, StackPop, CanPop

(* Drawing, typing and debugging leave bytes in memory.                    *)
LEMMA ScribbleType ==
  \A S : mem \in [Cells -> Byte] /\ Scribble(S) => mem' \in [Cells -> Byte]
BY OutsideAssumption DEF Scribble

(* Whatever an operation computes is a word.                               *)
LEMMA ResultTypes ==
  \A op : \A x, y \in Word : Results(op, x, y) \subseteq Word
<1> SUFFICES ASSUME NEW op, NEW x \in Word, NEW y \in Word
             PROVE  Results(op, x, y) \subseteq Word
  OBVIOUS
<1>1. x \in Int /\ y \in Int /\ x + y \in Int /\ x - y \in Int
  BY Widths
<1>2. Times(x, y) \in Word
  <2>1. /\ x \div 4096 \in Int /\ x % 4096 \in Int
        /\ y \div 4096 \in Int /\ y % 4096 \in Int
    BY <1>1
  <2>2. \A p, q \in Int : p * q \in Int
    OBVIOUS
  <2> DEFINE high == (x \div 4096) * (y % 4096) + (x % 4096) * (y \div 4096)
  <2>3. high \in Int /\ (x % 4096) * (y % 4096) \in Int
    BY <2>1, <2>2
  <2> HIDE DEF high
  <2>4. (high % 4096) * 4096 + (x % 4096) * (y % 4096) \in Int
    BY <2>3
  <2> QED
    BY <2>4, Wraps DEF Times, high
<1>3. (x + y) % W \in Word /\ (x - y) % W \in Word
  BY <1>1, Wraps
<1> QED
  BY <1>2, <1>3, RegValsAssumption DEF Results

(* What every step works from: the registers and PC are numbers.           *)
LEMMA Numbers ==
  TypeOK => /\ \A r \in Reg : reg[r] \in Word /\ reg[r] \in Nat
            /\ PC \in Nat /\ PS \in Nat
            /\ "SP" \in Reg /\ "BP" \in Reg /\ "AC" \in Reg /\ "CN" \in Reg
            /\ "DC" \in Reg /\ "DT" \in Reg /\ "DI" \in Reg
BY Widths DEF TypeOK, Reg

(* What a step leaves of the machine, and what registers may be set to.    *)
LEMMA SetRegister ==
  \A r \in Reg, v \in Word :
    TypeOK => [reg EXCEPT ![r] = v] \in [Reg -> Word]
BY DEF TypeOK

LEMMA SetBoth ==
  \A f \in [Reg -> Word], r, s \in Reg, v \in Word :
    [f EXCEPT ![r] = v, ![s] = v] \in [Reg -> Word]
OBVIOUS

-----------------------------------------------------------------------------
(* Jumps and loops.                                                        *)
LEMMA ControlType == \A i \in ISA : TypeOK /\ Control(i) => TypeOK'
<1> SUFFICES ASSUME NEW i \in ISA, TypeOK, Control(i) PROVE TypeOK'
  OBVIOUS
<1> USE DEF rest
<1>1. i.a \in Nat /\ i.r \in Reg /\ PC + 4 \in Nat
  BY Operands, Numbers, Widths
<1>2. Lower(PS, FlagZ) \in Byte /\ Lower(PS, FlagN) \in Byte
  BY FlagTypes DEF TypeOK
<1>3. CASE JME0(i)
  BY <1>1, <1>2, <1>3 DEF JME0, TypeOK
<1>4. CASE JMNE0(i)
  BY <1>1, <1>4 DEF JMNE0, TypeOK
<1>5. CASE JL0(i)
  BY <1>1, <1>2, <1>5 DEF JL0, TypeOK
<1>6. CASE JG0(i)
  BY <1>1, <1>6 DEF JG0, TypeOK
<1>7. CASE Jump(i)
  <2>1. \A c \in Cells : mem[c] \in Nat
    BY Widths DEF TypeOK
  <2>2. PC' \in Nat
    BY <1>1, <1>7, <2>1, Numbers DEF Jump
  <2> QED
    BY <1>7, <2>2 DEF Jump, TypeOK
<1>8. CASE LOOP(i)
  <2>1. PC' \in Nat
    BY <1>1, <1>8 DEF LOOP
  <2>2. reg["CN"] # 0 => reg["CN"] - 1 \in Word
    BY Numbers, Widths
  <2>3. reg' \in [Reg -> Word]
    BY <1>8, <2>2, Numbers, SetRegister DEF LOOP, TypeOK
  <2> QED
    BY <1>8, <2>1, <2>3 DEF LOOP, TypeOK
<1> QED
  BY <1>3, <1>4, <1>5, <1>6, <1>7, <1>8 DEF Control

(* Pushes, pops, calls and returns.                                        *)
LEMMA StackType == \A i \in ISA : TypeOK /\ Stack(i) => TypeOK'
<1> SUFFICES ASSUME NEW i \in ISA, TypeOK, Stack(i) PROVE TypeOK'
  OBVIOUS
<1> USE DEF rest
<1> DEFINE sp == reg["SP"]
<1>1. /\ i.a \in Nat /\ i.r \in Reg
      /\ PC + 1 \in Nat /\ PC + 2 \in Nat /\ PC + 4 \in Nat
  BY Operands, Numbers, Widths
<1>2. /\ sp \in Word /\ PushSP(sp) \in Word /\ PopSP(sp) \in Word
      /\ PopSP(PopSP(sp)) \in Word
      /\ \A v \in Int : StackPush(mem, sp, v) \in [Cells -> Byte]
      /\ CanPop(sp) => StackPop(mem, sp) \in Word
      /\ CanPop(PopSP(sp)) => StackPop(mem, PopSP(sp)) \in Word
  BY Numbers, StackTypes DEF TypeOK
<1>3. \A v \in Word : [reg EXCEPT !["SP"] = v] \in [Reg -> Word]
  BY SetRegister, Numbers
<1>4. CASE PUSH(i)
  <2>1. Pushed(i) \in Int
    BY <1>1, <1>4, Numbers, Widths DEF PUSH, Pushed, Pushes, TypeOK
  <2>2. mem' \in [Cells -> Byte] /\ reg' \in [Reg -> Word]
    BY <1>2, <1>3, <1>4, <2>1 DEF PUSH
  <2>3. PC' \in Nat
    BY <1>1, <1>4 DEF PUSH, PushLen
  <2> QED
    BY <1>4, <2>2, <2>3 DEF PUSH, TypeOK
<1>5. CASE POP1(i)
  <2>1. reg' \in [Reg -> Word]
    BY <1>1, <1>2, <1>5 DEF POP1, TypeOK
  <2> QED
    BY <1>1, <1>5, <2>1 DEF POP1, TypeOK
<1>6. CASE COP1(i)
  <2> DEFINE popped == [reg EXCEPT !["SP"] = PopSP(@),
                                   ![i.r] = StackPop(mem, sp)]
  <2>1. popped \in [Reg -> Word]
    BY <1>1, <1>2, <1>6 DEF COP1, TypeOK
  <2>2. popped["SP"] \in Word
    BY <2>1, Numbers
  <2>3. (popped["SP"] - 2) % W \in Word
    BY <2>2, Widths, Wraps
  <2>4. reg' = [popped EXCEPT !["SP"] = (@ - 2) % W]
    BY <1>6 DEF COP1
  <2> HIDE DEF popped
  <2>5. reg' \in [Reg -> Word]
    BY <2>1, <2>3, <2>4, Numbers
  <2> QED
    BY <1>1, <1>6, <2>5 DEF COP1, TypeOK
<1>7. CASE CALL(i)
  <2>1. mem' \in [Cells -> Byte] /\ reg' \in [Reg -> Word]
    BY <1>1, <1>2, <1>3, <1>7 DEF CALL
  <2> QED
    BY <1>1, <1>7, <2>1 DEF CALL, TypeOK
<1>8. CASE Return(i)
  <2>1. CASE Returning(i)
    <3>1. PC' \in Word /\ reg' \in [Reg -> Word]
      BY <1>2, <1>3, <1>8, <2>1 DEF Return
    <3> QED
      BY <1>8, <3>1, Widths DEF Return, TypeOK
  <2>2. CASE ~Returning(i)
    BY <1>1, <1>8, <2>2 DEF Return, TypeOK
  <2> QED
    BY <2>1, <2>2
<1>9. CASE IRET(i)
  <2>1. PC' \in Nat /\ PS' \in Byte
    BY <1>2, <1>9, Widths, Wraps DEF IRET
  <2>2. reg' \in [Reg -> Word]
    BY <1>2, <1>3, <1>9 DEF IRET
  <2> QED
    BY <1>9, <2>1, <2>2 DEF IRET, TypeOK
<1>10. CASE StackFault(i)
  BY <1>10 DEF StackFault, TypeOK
<1> QED
  BY <1>4, <1>5, <1>6, <1>7, <1>8, <1>9, <1>10 DEF Stack

(* Arithmetic, comparisons and the flags.                                  *)
LEMMA ComputeType == \A i \in ISA : TypeOK /\ Compute(i) => TypeOK'
<1> SUFFICES ASSUME NEW i \in ISA, TypeOK, Compute(i) PROVE TypeOK'
  OBVIOUS
<1> USE DEF rest
<1>1. /\ i.a \in Word /\ i.a \in Nat /\ i.r \in Reg /\ i.s \in Reg
      /\ \A k \in 1 .. 5 : PC + k \in Nat
  BY Operands, Numbers, Widths
<1>2. /\ reg[i.r] \in Word /\ reg[i.s] \in Word
      /\ reg[i.r] \in Nat /\ reg[i.s] \in Nat
  BY <1>1, Numbers
<1>3. \A v \in Word : [reg EXCEPT ![i.r] = v] \in [Reg -> Word]
  BY <1>1, SetRegister
<1>4. CASE AluRR(i)
  <2>1. reg' \in [Reg -> Word]
    BY <1>2, <1>3, <1>4, ResultTypes DEF AluRR
  <2> QED
    BY <1>1, <1>4, <2>1 DEF AluRR, TypeOK
<1>5. CASE AluRI(i)
  <2>1. reg' \in [Reg -> Word]
    BY <1>1, <1>2, <1>3, <1>5, ResultTypes DEF AluRI
  <2> QED
    BY <1>1, <1>5, <2>1 DEF AluRI, TypeOK
<1>6. CASE DIV(i)
  <2>1. ASSUME NEW x \in Word, NEW y \in Word, y # 0
        PROVE  x % y \in Word /\ x \div y \in Word
    <3>1. x \in Nat /\ y \in Nat /\ y > 0
      BY <2>1, Widths
    <3>2. x % y \in Nat /\ x % y < y
      BY <3>1
    <3>3. x \div y \in Nat /\ x \div y <= x
      BY <3>1
    <3> QED
      BY <3>1, <3>2, <3>3, Widths
  <2>2. ASSUME NEW y \in Word, DivideBy(i, y) PROVE reg' \in [Reg -> Word]
    BY <1>1, <1>2, <2>1, <2>2 DEF DivideBy, TypeOK
  <2>3. reg' \in [Reg -> Word] /\ PC' \in Nat
    BY <1>1, <1>2, <1>6, <2>2 DEF DIV
  <2> QED
    BY <1>6, <2>3 DEF DIV, TypeOK
<1>7. CASE DivideByZero(i)
  BY <1>7 DEF DivideByZero, TypeOK
<1>8. CASE Step1(i)
  <2>1. /\ (reg[i.r] + 1) % W \in Word /\ (reg[i.r] - 1) % W \in Word
        /\ W - 1 - reg[i.r] \in Word
    BY <1>2, Widths, Wraps
  <2>2. reg' \in [Reg -> Word] /\ PC' \in Nat
    BY <1>1, <1>3, <1>8, <2>1 DEF Step1
  <2> QED
    BY <1>8, <2>2 DEF Step1, TypeOK
<1>9. CASE XCHG4(i)
  <2>1. reg[i.r] % 65536 \in Word
    BY <1>2, Wraps
  <2>2. reg' \in [Reg -> Word]
    BY <1>1, <1>2, <1>9, <2>1 DEF XCHG4, TypeOK
  <2> QED
    BY <1>1, <1>9, <2>2 DEF XCHG4, TypeOK
<1>10. CASE CMP(i)
  <2>1. PS' \in Byte
    BY <1>10, ComparedType DEF CMP, TypeOK
  <2> QED
    BY <1>1, <1>10, <2>1 DEF CMP, TypeOK
<1>11. CASE FLAGS(i)
  <2>1. /\ Raise(PS, FlagI) \in Byte /\ Lower(PS, FlagI) \in Byte
        /\ Lower(PS, FlagC) \in Byte /\ reg["AC"] % 256 \in Byte
    BY FlagTypes, Numbers, Wraps DEF TypeOK
  <2>2. 256 * Digit(reg["AC"], 1) + PS \in Word
    <3>1. Digit(reg["AC"], 1) \in Nat /\ Digit(reg["AC"], 1) <= 255
      BY Numbers DEF Digit
    <3> QED
      BY <3>1, Widths DEF TypeOK
  <2>3. PS' \in Byte /\ reg' \in [Reg -> Word]
    BY <1>11, <2>1, <2>2, Numbers, SetRegister DEF FLAGS, TypeOK
  <2> QED
    BY <1>1, <1>11, <2>3 DEF FLAGS, TypeOK
<1> QED
  BY <1>4, <1>5, <1>6, <1>7, <1>8, <1>9, <1>10, <1>11 DEF Compute

(* Loads, stores and the disk.                                             *)
LEMMA MemoryType == \A i \in ISA : TypeOK /\ Memory(i) => TypeOK'
<1> SUFFICES ASSUME NEW i \in ISA, TypeOK, Memory(i) PROVE TypeOK'
  OBVIOUS
<1> USE DEF rest
<1>1. /\ i.a \in Nat /\ i.n \in Nat /\ i.r \in Reg /\ i.s \in Reg
      /\ \A k \in 1 .. 5 : PC + k \in Nat
  BY Operands, Numbers, Widths
<1>2. \A v \in Nat : (v + Size(i)) % W \in Word
  BY Wraps DEF Size
<1>3. ASSUME NEW a \in Int, Has(a, Size(i))
      PROVE  Fetch(mem, a, Size(i)) \in Word
  BY <1>3, ReadTypes, Wraps DEF Fetch, Size, TypeOK
<1>4. CASE LOAD(i)
  <2>1. LoadAddr(i) \in Int
    BY <1>1, <1>4, Numbers DEF LOAD, Loads, LoadAddr
  <2>2. LoadDest(i) \in Reg
    BY <1>1, Numbers DEF LoadDest
  <2>3. reg' \in [Reg -> Word]
    BY <1>3, <1>4, <2>1, <2>2, SetRegister DEF LOAD
  <2>4. PC' \in Nat
    BY <1>1, <1>4 DEF LOAD, LoadLen
  <2> QED
    BY <1>4, <2>3, <2>4 DEF LOAD, TypeOK
<1>5. CASE STORE(i)
  <2>1. StoreVal(i) \in Int
    BY <1>1, Numbers DEF StoreVal
  <2>2. mem' \in [Cells -> Byte]
    BY <1>5, <2>1, WriteType DEF STORE, TypeOK
  <2>3. (reg["DT"] + 1) % W \in Word
    BY Numbers, Wraps
  <2>4. reg' \in [Reg -> Word]
    BY <1>5, <2>3, Numbers, SetRegister DEF STORE, TypeOK
  <2>5. PC' \in Nat
    BY <1>1, <1>5 DEF STORE, StoreLen
  <2> QED
    BY <1>5, <2>2, <2>4, <2>5 DEF STORE, TypeOK
<1>6. CASE WalkStore(i)
  <2>1. mem' \in [Cells -> Byte]
    BY <1>1, <1>6, Numbers, WriteType DEF WalkStore, TypeOK
  <2>2. reg' \in [Reg -> Word]
    BY <1>1, <1>2, <1>6, Numbers, SetRegister DEF WalkStore
  <2> QED
    BY <1>1, <1>6, <2>1, <2>2 DEF WalkStore, TypeOK
<1>7. CASE WalkLoad(i)
  <2>1. Fetch(mem, reg[i.r], Size(i)) \in Word
    BY <1>1, <1>3, <1>7, Numbers DEF WalkLoad
  <2>2. CASE i.op = "LWc"
    <3>1. (reg[i.r] + 2) % W \in Word
      BY <1>1, Numbers, Wraps
    <3>2. reg' = [reg EXCEPT ![i.r] = (@ + 2) % W,
                             ![i.s] = Fetch(mem, reg[i.r], Size(i))]
      BY <1>7, <2>2 DEF WalkLoad
    <3> QED
      BY <1>1, <1>7, <2>1, <3>1, <3>2 DEF WalkLoad, TypeOK
  <2>3. CASE i.op # "LWc"
    <3> DEFINE loaded == [reg EXCEPT ![i.s] = Fetch(mem, reg[i.r], Size(i))]
    <3>1. loaded \in [Reg -> Word]
      BY <1>1, <2>1, SetRegister
    <3>2. (loaded[i.r] + Size(i)) % W \in Word
      BY <1>1, <1>2, <3>1, Widths
    <3>3. reg' = [loaded EXCEPT ![i.r] = (@ + Size(i)) % W]
      BY <1>7, <2>3 DEF WalkLoad
    <3> HIDE DEF loaded
    <3>4. reg' \in [Reg -> Word]
      BY <1>1, <3>1, <3>2, <3>3
    <3> QED
      BY <1>1, <1>7, <3>4 DEF WalkLoad, TypeOK
  <2> QED
    BY <2>2, <2>3
<1>8. CASE Step1M(i)
  <2>1. i.a \in Cells /\ mem[i.a] \in Nat
    BY <1>8, Widths DEF Step1M, TypeOK
  <2>2. (mem[i.a] + 1) % 256 \in Int /\ (mem[i.a] - 1) % 256 \in Int
    BY <2>1
  <2>3. mem' \in [Cells -> Byte]
    BY <1>8, <2>2, WriteType DEF Step1M, TypeOK
  <2> QED
    BY <1>1, <1>8, <2>3 DEF Step1M, TypeOK
<1>9. CASE DISK(i)
  <2>1. reg[i.r] % 256 \in Byte
    BY <1>1, Numbers, Wraps
  <2>2. rom' \in [Disk -> Byte]
    BY <1>9, <2>1 DEF DISK, TypeOK
  <2>3. reg' \in [Reg -> Word] /\ PC' \in Nat
    BY <1>1, <1>9, Numbers, SetRegister, Wraps DEF DISK, TypeOK
  <2> QED
    BY <1>9, <2>2, <2>3 DEF DISK, TypeOK
<1> QED
  BY <1>4, <1>5, <1>6, <1>7, <1>8, <1>9 DEF Memory

(* The interrupts.                                                         *)
LEMMA InterruptType == \A i \in ISA : TypeOK /\ INT(i) => TypeOK'
<1> SUFFICES ASSUME NEW i \in ISA, TypeOK, INT(i) PROVE TypeOK'
  OBVIOUS
<1> USE DEF rest
<1> DEFINE sp == reg["SP"]
<1>1. PC + 2 \in Nat /\ PC + 2 \in Int /\ PS \in Int
  BY Numbers
<1>2. /\ sp \in Word /\ PushSP(sp) \in Word /\ PopSP(sp) \in Word
      /\ PushSP(PushSP(sp)) \in Word
      /\ \A v \in Int : StackPush(mem, sp, v) \in [Cells -> Byte]
      /\ CanPop(sp) => StackPop(mem, sp) \in Word
  BY Numbers, StackTypes DEF TypeOK
<1>3. \A r \in Reg, v \in Word : [reg EXCEPT ![r] = v] \in [Reg -> Word]
  BY SetRegister
<1>4. CASE IntMasked(i)
  BY <1>1, <1>4 DEF IntMasked, TypeOK
<1>5. CASE IntVector(i)
  <2> DEFINE pushed == StackPush(mem, sp, PC + 2)
  <2>1. pushed \in [Cells -> Byte]
    BY <1>1, <1>2
  <2>2. mem' = StackPush(pushed, PushSP(sp), PS)
    BY <1>5 DEF IntVector
  <2> HIDE DEF pushed
  <2>3. mem' \in [Cells -> Byte]
    BY <1>1, <1>2, <2>1, <2>2, StackTypes
  <2>4. Vector(i.n) \in Int /\ Has(Vector(i.n), 3)
    BY <1>5, Operands, Widths DEF IntVector, Vector
  <2>5. PC' \in Word
    BY <1>5, <2>3, <2>4, ReadTypes DEF IntVector
  <2>6. reg' \in [Reg -> Word]
    BY <1>2, <1>3, <1>5, Numbers DEF IntVector
  <2> QED
    BY <1>5, <2>3, <2>5, <2>6, Widths DEF IntVector, TypeOK
<1>6. CASE IntExit(i)
  <2>1. lc_errno' \in Byte
    BY <1>2, <1>6, Widths, Wraps DEF IntExit
  <2>2. reg' \in [Reg -> Word]
    BY <1>2, <1>3, <1>6, Numbers DEF IntExit
  <2> QED
    BY <1>6, <2>1, <2>2 DEF IntExit, TypeOK
<1>7. CASE IntRead(i)
  <2>1. \A z \in Outside \cup {255} : (IF z = 13 THEN 10 ELSE z) \in Int
    BY OutsideAssumption, Widths
  <2>2. mem' \in [Cells -> Byte]
    BY <1>2, <1>7, <2>1 DEF IntRead
  <2>3. reg' \in [Reg -> Word]
    BY <1>2, <1>3, <1>7, Numbers DEF IntRead
  <2> QED
    BY <1>1, <1>7, <2>2, <2>3 DEF IntRead, TypeOK
<1>8. CASE IntWrite(i)
  <2>1. reg' \in [Reg -> Word]
    BY <1>2, <1>3, <1>8, Numbers DEF IntWrite
  <2> QED
    BY <1>1, <1>8, <2>1 DEF IntWrite, TypeOK
<1>9. CASE IntReset(i)
  <2>1. ResetSP \in Word /\ FlagI \in Byte
    BY Widths DEF ResetSP, FlagI
  <2>2. reg' = [reg EXCEPT !["SP"] = ResetSP, !["BP"] = ResetSP]
    BY <1>9 DEF IntReset
  <2>3. reg \in [Reg -> Word]
    BY DEF TypeOK
  <2>4. reg' \in [Reg -> Word]
    BY <2>1, <2>2, <2>3, SetBoth, Numbers
  <2> QED
    BY <1>9, <2>1, <2>4 DEF IntReset, TypeOK
<1>10. CASE IntVideoWrite(i)
  <2>1. mem' \in [Cells -> Byte]
    BY <1>10, Numbers, WriteType DEF IntVideoWrite, TypeOK
  <2> QED
    BY <1>1, <1>10, <2>1 DEF IntVideoWrite, TypeOK
<1>11. CASE IntDraw(i)
  <2>1. mem' \in [Cells -> Byte]
    BY <1>11, ScribbleType DEF IntDraw, TypeOK
  <2>2. reg' \in [Reg -> Word]
    BY <1>3, <1>11, Numbers, OutsideAssumption, Wraps DEF IntDraw, TypeOK
  <2> QED
    BY <1>1, <1>11, <2>1, <2>2 DEF IntDraw, TypeOK
<1>12. CASE IntAsk(i)
  <2>1. \A lo, hi \in Outside : lo + 256 * hi \in Word
    BY OutsideAssumption, Widths
  <2>2. reg' \in [Reg -> Word]
    BY <1>3, <1>12, <2>1, Numbers DEF IntAsk
  <2> QED
    BY <1>1, <1>12, <2>2 DEF IntAsk, TypeOK
<1>13. CASE IntWait(i)
  <2>1. mem' \in [Cells -> Byte]
    BY <1>13, ScribbleType DEF IntWait, TypeOK
  <2>2. 0 \in Byte
    BY Widths
  <2> QED
    BY <1>1, <1>13, <2>1, <2>2 DEF IntWait, TypeOK
<1>14. CASE IntBeep(i)
  BY <1>14 DEF IntBeep, vars, TypeOK
<1>15. CASE IntIllegal(i)
  BY <1>15 DEF IntIllegal, TypeOK
<1> QED
  BY <1>4, <1>5, <1>6, <1>7, <1>8, <1>9, <1>10, <1>11, <1>12, <1>13, <1>14,
     <1>15 DEF INT

(* The processor's own instructions.                                       *)
LEMMA SystemType == \A i \in ISA : TypeOK /\ System(i) => TypeOK'
<1> SUFFICES ASSUME NEW i \in ISA, TypeOK, System(i) PROVE TypeOK'
  OBVIOUS
<1>1. PC + 1 \in Nat
  BY Numbers
<1>2. 0 \in Word /\ 28 \in Word /\ Drive \in Word /\ 1 \in Byte
  BY RomsAssumption, Widths
<1>3. CASE INT(i)
  BY <1>3, InterruptType
<1>4. CASE CPUID(i)
  <2>1. reg' \in [Reg -> Word]
    BY <1>2, <1>4, Numbers, SetRegister DEF CPUID, TypeOK
  <2> QED
    BY <1>1, <1>4, <2>1 DEF CPUID, TypeOK
<1>5. CASE HLT(i)
  BY <1>5 DEF HLT, TypeOK
<1>6. CASE HLT1(i)
  <2>1. CASE PC' = PC + 1 /\ run' = run /\ Scribble(Poked)
    BY <1>1, <1>6, <2>1, ScribbleType DEF HLT1, TypeOK
  <2>2. CASE run' = "exited" /\ UNCHANGED <<PC, mem>>
    BY <1>6, <2>2 DEF HLT1, TypeOK
  <2> QED
    BY <1>6, <2>1, <2>2 DEF HLT1
<1>7. CASE UNK(i)
  BY <1>2, <1>7 DEF UNK, TypeOK
<1> QED
  BY <1>3, <1>4, <1>5, <1>6, <1>7 DEF System

-----------------------------------------------------------------------------
(* The reset state has its types.                                          *)
LEMMA InitTypes == Init => TypeOK
<1> SUFFICES ASSUME Init PROVE TypeOK
  OBVIOUS
<1>1. ResetSP \in Word /\ 0 \in Word /\ FlagI \in Byte /\ 0 \in Byte
  BY Widths DEF ResetSP, FlagI
<1>2. mem \in [Cells -> Byte] /\ rom \in [Disk -> Byte]
  BY ImagesAssumption, RomsAssumption DEF Init
<1> QED
  BY <1>1, <1>2 DEF Init, TypeOK

(* Every instruction keeps them.                                           *)
LEMMA StepTypes == \A i \in ISA : TypeOK /\ Step(i) => TypeOK'
BY ControlType, StackType, ComputeType, MemoryType, SystemType
   DEF Step, Exec

(* Registers of 24 bits, flags, memory, disk and exit status of eight, for *)
(* every program, every image and every choice of the bounds: no           *)
(* instruction of the table and no interrupt stores a value that its       *)
(* place cannot hold.                                                      *)
THEOREM CpuTypes == Spec => []TypeOK
<1>1. TypeOK /\ UNCHANGED vars => TypeOK'
  BY DEF TypeOK, vars
<1>2. TypeOK /\ [Next]_vars => TypeOK'
  BY <1>1, StepTypes DEF Next
<1> QED
  BY <1>2, InitTypes, PTL DEF Spec
=============================================================================
