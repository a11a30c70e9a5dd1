------------------------------ MODULE HidProofs -------------------------------
(***************************************************************************)
(* The theorems of the keyboard and mouse ports.  What the ports show is   *)
(* old: the events that wait in the queue have happened already.  Read     *)
(* from any place of the queue, the next event of a key or a button says   *)
(* what it was at that place (the opposite of what the event brings), and  *)
(* where no event follows it is what it is now.  The ports show what was   *)
(* before the whole queue, and that is what hid_events() keeps true.       *)
(***************************************************************************)
EXTENDS Hid, TLAPS, WellFoundedInduction

\* The keys and the buttons, as an event names them.
Inputs == [type : {"key"}, id : Scancodes] \cup [type : {"button"}, id : Buttons]
Key(k) == [type |-> "key", id |-> k]
Button(b) == [type |-> "button", id |-> b]

Concerns(e, x) == /\ e.type = x.type /\ e.id = x.id
                  /\ x.type = "key" => ~e.repeat
IsDown(x) == \/ x.type = "key" /\ x.id \in held
             \/ x.type # "key" /\ x.id \in down

\* The first event of x after the first n.
IsNext(q, x, n, j) == /\ j \in n + 1 .. Len(q) /\ Concerns(q[j], x)
                      /\ \A i \in n + 1 .. j - 1 : ~Concerns(q[i], x)
\* Whether x was down after the first n events, when it now is or is not.
Was(q, now, x, n) ==
  \/ \E j \in n + 1 .. Len(q) : IsNext(q, x, n, j) /\ ~q[j].on
  \/ now /\ \A j \in n + 1 .. Len(q) : ~Concerns(q[j], x)

\* Whether x was down before the events that wait.
Before(x) == Was(queue, IsDown(x), x, 0)

\* Each event that waits brought what was so after it.
QueueTells ==
  \A x \in Inputs : \A j \in 1 .. Len(queue) :
    Concerns(queue[j], x) => (queue[j].on <=> Was(queue, IsDown(x), x, j))

FlagsTell ==
  /\ flags \div 32 = WheelBits(turned) \div 32
  /\ \A b \in Buttons : b <= 5 => (FlagBit(flags, b) <=> Before(Button(b)))

SlotsTell ==
  /\ \A i, j \in Slots : slot[i] = slot[j] /\ slot[i] # 0 => i = j
  /\ Shown \subseteq {k \in Scancodes : Before(Key(k))}
  /\ ~full => {k \in Scancodes : Before(Key(k))} \subseteq Shown

-----------------------------------------------------------------------------
(* A nonempty set of naturals has a least element, the one Min chooses.    *)
LEMMA MinIn ==
  ASSUME NEW S \in SUBSET Nat, S # {}
  PROVE  Min(S) \in S
<1>1. \E x \in S : \A y \in S : ~(<<y, x>> \in OpToRel(<, Nat))
  BY NatLessThanWellFounded, WFMin
<1>2. PICK x \in S : \A y \in S : ~(<<y, x>> \in OpToRel(<, Nat))
  BY <1>1
<1>3. \A y \in S : x <= y
<2> SUFFICES ASSUME NEW y \in S, ~(x <= y) PROVE FALSE
  OBVIOUS
<2>1. y \in Nat /\ x \in Nat /\ y < x
  OBVIOUS
<2>2. <<y, x>> \in OpToRel(<, Nat)
  BY <2>1 DEF OpToRel
<2> QED
  BY <1>2, <2>2
<1> QED
  BY <1>2, <1>3 DEF Min

-----------------------------------------------------------------------------
(* The event at the back of the queue and the one at its front.            *)

\* An event that is appended tells of now, and changes nothing of before.
LEMMA WasAppend ==
  ASSUME NEW q \in Seq(Events), NEW e \in Events, NEW x \in Inputs,
         NEW now \in BOOLEAN, NEW then \in BOOLEAN,
         Concerns(e, x) => (e.on <=> then) /\ (now <=> ~then),
         ~Concerns(e, x) => (now <=> then)
  PROVE  /\ \A n \in 0 .. Len(q) : Was(Append(q, e), then, x, n) <=> Was(q, now, x, n)
         /\ Was(Append(q, e), then, x, Len(q) + 1) <=> then
<1> DEFINE r == Append(q, e)
           l == Len(q) + 1
<1>1. /\ Len(q) \in Nat /\ Len(r) = l /\ r[l] = e
      /\ \A j \in 1 .. Len(q) : r[j] = q[j]
  OBVIOUS
<1>2. Was(r, then, x, l) <=> then
  BY <1>1 DEF Was
<1>3. ASSUME NEW n \in 0 .. Len(q)
      PROVE  Was(r, then, x, n) <=> Was(q, now, x, n)
  <2>1. \A j \in n + 1 .. Len(q) : IsNext(r, x, n, j) <=> IsNext(q, x, n, j)
    BY <1>1, <1>3 DEF IsNext
  <2>2. IsNext(r, x, n, l) <=> /\ Concerns(e, x)
                               /\ \A j \in n + 1 .. Len(q) : ~Concerns(q[j], x)
    BY <1>1, <1>3 DEF IsNext
  <2>3. ASSUME Was(q, now, x, n) PROVE Was(r, then, x, n)
    <3>1. CASE \E j \in n + 1 .. Len(q) : IsNext(q, x, n, j) /\ ~q[j].on
      BY <3>1, <2>1, <1>1, <1>3 DEF Was
    <3>2. CASE now /\ \A j \in n + 1 .. Len(q) : ~Concerns(q[j], x)
      <4>1. CASE Concerns(e, x)
        <5>1. IsNext(r, x, n, l) /\ ~r[l].on
          BY <4>1, <3>2, <2>2, <1>1
        <5> QED
          BY <5>1, <1>1, <1>3 DEF Was
      <4>2. CASE ~Concerns(e, x)
        BY <4>2, <3>2, <1>1, <1>3 DEF Was
      <4> QED
        BY <4>1, <4>2
    <3> QED
      BY <2>3, <3>1, <3>2 DEF Was
  <2>4. ASSUME Was(r, then, x, n) PROVE Was(q, now, x, n)
    <3>1. CASE \E j \in n + 1 .. Len(r) : IsNext(r, x, n, j) /\ ~r[j].on
      <4>1. PICK j \in n + 1 .. Len(r) : IsNext(r, x, n, j) /\ ~r[j].on
        BY <3>1
      <4>2. CASE j = l
        BY <4>1, <4>2, <2>2, <1>1, <1>3 DEF Was
      <4>3. CASE j \in n + 1 .. Len(q)
        BY <4>1, <4>3, <2>1, <1>1, <1>3 DEF Was
      <4> QED
        BY <4>1, <4>2, <4>3, <1>1, <1>3
    <3>2. CASE then /\ \A j \in n + 1 .. Len(r) : ~Concerns(r[j], x)
      BY <3>2, <1>1, <1>3 DEF Was
    <3> QED
      BY <2>4, <3>1, <3>2 DEF Was
  <2> QED
    BY <2>3, <2>4
<1> QED
  BY <1>2, <1>3

\* Taking the event at the front shifts the places of the others by one.
LEMMA WasTail ==
  ASSUME NEW q \in Seq(Events), q # << >>, NEW x \in Inputs, NEW now \in BOOLEAN,
         NEW n \in 0 .. Len(q) - 1
  PROVE  Was(Tail(q), now, x, n) <=> Was(q, now, x, n + 1)
<1> DEFINE r == Tail(q)
<1>1. /\ Len(q) \in Nat \ {0} /\ Len(r) = Len(q) - 1
      /\ \A j \in 1 .. Len(r) : r[j] = q[j + 1]
  OBVIOUS
<1>2. \A j \in n + 1 .. Len(r) : Concerns(r[j], x) <=> Concerns(q[j + 1], x)
  BY <1>1
<1>3. \A j \in n + 1 .. Len(r) : IsNext(r, x, n, j) <=> IsNext(q, x, n + 1, j + 1)
  <2> SUFFICES ASSUME NEW j \in n + 1 .. Len(r)
               PROVE  IsNext(r, x, n, j) <=> IsNext(q, x, n + 1, j + 1)
    OBVIOUS
  <2>1. (\A i \in n + 1 .. j - 1 : ~Concerns(r[i], x))
        <=> \A i \in n + 2 .. j : ~Concerns(q[i], x)
    <3>1. ASSUME \A i \in n + 1 .. j - 1 : ~Concerns(r[i], x), NEW i \in n + 2 .. j
          PROVE  ~Concerns(q[i], x)
      <4>1. i - 1 \in n + 1 .. j - 1 /\ i - 1 \in n + 1 .. Len(r) /\ (i - 1) + 1 = i
        BY <1>1
      <4> QED
        BY <3>1, <4>1, <1>2
    <3>2. ASSUME \A i \in n + 2 .. j : ~Concerns(q[i], x), NEW i \in n + 1 .. j - 1
          PROVE  ~Concerns(r[i], x)
      <4>1. i + 1 \in n + 2 .. j /\ i \in n + 1 .. Len(r)
        BY <1>1
      <4> QED
        BY <3>2, <4>1, <1>2
    <3> QED
      BY <3>1, <3>2
  <2> QED
    BY <2>1, <1>1, <1>2 DEF IsNext
<1>4. ASSUME Was(r, now, x, n) PROVE Was(q, now, x, n + 1)
  <2>1. CASE \E j \in n + 1 .. Len(r) : IsNext(r, x, n, j) /\ ~r[j].on
    <3>1. PICK j \in n + 1 .. Len(r) : IsNext(r, x, n, j) /\ ~r[j].on
      BY <2>1
    <3>2. j + 1 \in n + 2 .. Len(q) /\ IsNext(q, x, n + 1, j + 1) /\ ~q[j + 1].on
      BY <3>1, <1>1, <1>3
    <3> QED
      BY <3>2 DEF Was
  <2>2. CASE now /\ \A j \in n + 1 .. Len(r) : ~Concerns(r[j], x)
    <3>1. ASSUME NEW j \in n + 2 .. Len(q) PROVE ~Concerns(q[j], x)
      <4>1. j - 1 \in n + 1 .. Len(r) /\ (j - 1) + 1 = j
        BY <1>1
      <4> QED
        BY <4>1, <2>2, <1>2
    <3> QED
      BY <3>1, <2>2 DEF Was
  <2> QED
    BY <1>4, <2>1, <2>2 DEF Was
<1>5. ASSUME Was(q, now, x, n + 1) PROVE Was(r, now, x, n)
  <2>1. CASE \E j \in n + 2 .. Len(q) : IsNext(q, x, n + 1, j) /\ ~q[j].on
    <3>1. PICK j \in n + 2 .. Len(q) : IsNext(q, x, n + 1, j) /\ ~q[j].on
      BY <2>1
    <3>2. j - 1 \in n + 1 .. Len(r) /\ (j - 1) + 1 = j
      BY <1>1
    <3>3. IsNext(r, x, n, j - 1) /\ ~r[j - 1].on
      BY <3>1, <3>2, <1>1, <1>3
    <3> QED
      BY <3>2, <3>3 DEF Was
  <2>2. CASE now /\ \A j \in n + 2 .. Len(q) : ~Concerns(q[j], x)
    <3>1. ASSUME NEW j \in n + 1 .. Len(r) PROVE ~Concerns(r[j], x)
      <4>1. j + 1 \in n + 2 .. Len(q)
        BY <1>1
      <4> QED
        BY <4>1, <2>2, <1>2
    <3> QED
      BY <3>1, <2>2 DEF Was
  <2>3. (n + 1) + 1 = n + 2
    OBVIOUS
  <2> QED
    BY <1>5, <2>1, <2>2, <2>3 DEF Was
<1> QED
  BY <1>4, <1>5

\* What was so before the front of the queue.
LEMMA WasHead ==
  ASSUME NEW q \in Seq(Events), q # << >>, NEW x \in Inputs, NEW now \in BOOLEAN
  PROVE  /\ Concerns(q[1], x) => (Was(q, now, x, 0) <=> ~q[1].on)
         /\ ~Concerns(q[1], x) => (Was(q, now, x, 0) <=> Was(q, now, x, 1))
<1>1. Len(q) \in Nat \ {0}
  OBVIOUS
<1>2. ASSUME Concerns(q[1], x)
      PROVE  \A j \in 1 .. Len(q) : IsNext(q, x, 0, j) <=> j = 1
  BY <1>1, <1>2 DEF IsNext
<1>3. Concerns(q[1], x) => (Was(q, now, x, 0) <=> ~q[1].on)
  BY <1>1, <1>2 DEF Was
<1>4. ASSUME ~Concerns(q[1], x)
      PROVE  /\ \A j \in 2 .. Len(q) : IsNext(q, x, 0, j) <=> IsNext(q, x, 1, j)
             /\ ~IsNext(q, x, 0, 1)
  BY <1>1, <1>4 DEF IsNext
<1>5. ASSUME ~Concerns(q[1], x)
      PROVE  (\A j \in 1 .. Len(q) : ~Concerns(q[j], x))
             <=> \A j \in 2 .. Len(q) : ~Concerns(q[j], x)
  BY <1>1, <1>5
<1>6. ASSUME ~Concerns(q[1], x)
      PROVE  (\E j \in 1 .. Len(q) : IsNext(q, x, 0, j) /\ ~q[j].on)
             <=> \E j \in 2 .. Len(q) : IsNext(q, x, 1, j) /\ ~q[j].on
  BY <1>1, <1>4, <1>6
<1> QED
  BY <1>3, <1>5, <1>6 DEF Was

-----------------------------------------------------------------------------
(* The byte of the wheel and the buttons, as its digits.                   *)
LEMMA Powers == 2 ^ 0 = 1 /\ 2 ^ 1 = 2 /\ 2 ^ 2 = 4 /\ 2 ^ 3 = 8 /\ 2 ^ 4 = 16
  OBVIOUS


\* f has the digits a (of 1) to e (of 16), and h above them.
Digits(f, a, b, c, d, e, h) ==
  /\ a \in 0 .. 1 /\ b \in 0 .. 1 /\ c \in 0 .. 1 /\ d \in 0 .. 1 /\ e \in 0 .. 1
  /\ h \in 0 .. 7
  /\ f = a + 2 * b + 4 * c + 8 * d + 16 * e + 32 * h
Bits(f, a, b, c, d, e) ==
  /\ FlagBit(f, 1) <=> a = 1
  /\ FlagBit(f, 2) <=> b = 1
  /\ FlagBit(f, 3) <=> c = 1
  /\ FlagBit(f, 4) <=> d = 1
  /\ FlagBit(f, 5) <=> e = 1

LEMMA DigitsRead ==
  ASSUME NEW f, NEW a, NEW b, NEW c, NEW d, NEW e, NEW h,
         Digits(f, a, b, c, d, e, h)
  PROVE  f \in Byte /\ f \div 32 = h /\ Bits(f, a, b, c, d, e)
<1> USE DEF Digits
<1>0. f \in Byte
  BY DEF Byte
<1>1. f \div 32 = h
  OBVIOUS
<1>2. f \div 16 = 2 * h + e
  OBVIOUS
<1>3. f \div 8 = 4 * h + 2 * e + d
  OBVIOUS
<1>4. f \div 4 = 8 * h + 4 * e + 2 * d + c
  OBVIOUS
<1>5. f \div 2 = 16 * h + 8 * e + 4 * d + 2 * c + b
  OBVIOUS
<1>6. f \div 1 = 32 * h + 16 * e + 8 * d + 4 * c + 2 * b + a
  OBVIOUS
<1>7. (f \div 16) % 2 = e
  BY <1>2
<1>8. (f \div 8) % 2 = d
  BY <1>3
<1>9. (f \div 4) % 2 = c
  BY <1>4
<1>10. (f \div 2) % 2 = b
  BY <1>5
<1>11. (f \div 1) % 2 = a
  BY <1>6
<1>12. 1 - 1 = 0 /\ 2 - 1 = 1 /\ 3 - 1 = 2 /\ 4 - 1 = 3 /\ 5 - 1 = 4
  OBVIOUS
<1> HIDE DEF Digits
<1>13. Bits(f, a, b, c, d, e)
  BY <1>7, <1>8, <1>9, <1>10, <1>11, Powers, <1>12 DEF FlagBit, Bits
<1> QED
  BY <1>0, <1>1, <1>13

LEMMA DigitsExist ==
  ASSUME NEW f \in Byte
  PROVE  \E a, b, c, d, e, h : Digits(f, a, b, c, d, e, h)
<1>1. Digits(f, f % 2, (f \div 2) % 2, (f \div 4) % 2, (f \div 8) % 2,
             (f \div 16) % 2, f \div 32)
  BY DEF Digits, Byte
<1> QED
  BY <1>1

\* mouse_btn changes the one bit.
Sets(f, k, on, g) ==
  /\ f \in Byte /\ k \in 1 .. 5
  /\ g = IF FlagBit(f, k) = on THEN f
         ELSE IF on THEN f + 2 ^ (k - 1) ELSE f - 2 ^ (k - 1)
OneBit(f, k, on, g) ==
  /\ g \in Byte /\ g \div 32 = f \div 32
  /\ FlagBit(g, k) <=> on
  /\ \A c \in 1 .. 5 : c # k => (FlagBit(g, c) <=> FlagBit(f, c))
LEMMA ButtonBit ==
  ASSUME NEW f, NEW k, NEW on \in BOOLEAN, NEW g, Sets(f, k, on, g)
  PROVE  OneBit(f, k, on, g)
<1> DEFINE v == IF on THEN 1 ELSE 0
<1>0. v \in 0 .. 1 /\ (v = 1 <=> on)
  OBVIOUS
<1>1. PICK a, b, c, d, e, h : Digits(f, a, b, c, d, e, h)
  BY DigitsExist DEF Sets
<1>2. f \div 32 = h /\ Bits(f, a, b, c, d, e)
  BY <1>1, DigitsRead
<1>3. /\ FlagBit(f, k) /\ on => g = f
      /\ ~FlagBit(f, k) /\ ~on => g = f
      /\ ~FlagBit(f, k) /\ on => g = f + 2 ^ (k - 1)
      /\ FlagBit(f, k) /\ ~on => g = f - 2 ^ (k - 1)
      /\ k \in 1 .. 5
  BY DEF FlagBit, Sets
<1> HIDE DEF v
<1>4. CASE k = 1
  <2>1. 2 ^ (k - 1) = 1 /\ (FlagBit(f, k) <=> a = 1)
    BY <1>2, <1>4, Powers DEF Bits
  <2>2. Digits(g, v, b, c, d, e, h)
    BY <1>0, <1>1, <1>3, <2>1 DEF Digits
  <2>3. g \in Byte /\ g \div 32 = h /\ Bits(g, v, b, c, d, e)
    BY <2>2, DigitsRead
  <2> QED
    BY <2>3, <1>0, <1>2, <1>4 DEF Bits, OneBit
<1>5. CASE k = 2
  <2>1. 2 ^ (k - 1) = 2 /\ (FlagBit(f, k) <=> b = 1)
    BY <1>2, <1>5, Powers DEF Bits
  <2>2. Digits(g, a, v, c, d, e, h)
    BY <1>0, <1>1, <1>3, <2>1 DEF Digits
  <2>3. g \in Byte /\ g \div 32 = h /\ Bits(g, a, v, c, d, e)
    BY <2>2, DigitsRead
  <2> QED
    BY <2>3, <1>0, <1>2, <1>5 DEF Bits, OneBit
<1>6. CASE k = 3
  <2>1. 2 ^ (k - 1) = 4 /\ (FlagBit(f, k) <=> c = 1)
    BY <1>2, <1>6, Powers DEF Bits
  <2>2. Digits(g, a, b, v, d, e, h)
    BY <1>0, <1>1, <1>3, <2>1 DEF Digits
  <2>3. g \in Byte /\ g \div 32 = h /\ Bits(g, a, b, v, d, e)
    BY <2>2, DigitsRead
  <2> QED
    BY <2>3, <1>0, <1>2, <1>6 DEF Bits, OneBit
<1>7. CASE k = 4
  <2>1. 2 ^ (k - 1) = 8 /\ (FlagBit(f, k) <=> d = 1)
    BY <1>2, <1>7, Powers DEF Bits
  <2>2. Digits(g, a, b, c, v, e, h)
    BY <1>0, <1>1, <1>3, <2>1 DEF Digits
  <2>3. g \in Byte /\ g \div 32 = h /\ Bits(g, a, b, c, v, e)
    BY <2>2, DigitsRead
  <2> QED
    BY <2>3, <1>0, <1>2, <1>7 DEF Bits, OneBit
<1>8. CASE k = 5
  <2>1. 2 ^ (k - 1) = 16 /\ (FlagBit(f, k) <=> e = 1)
    BY <1>2, <1>8, Powers DEF Bits
  <2>2. Digits(g, a, b, c, d, v, h)
    BY <1>0, <1>1, <1>3, <2>1 DEF Digits
  <2>3. g \in Byte /\ g \div 32 = h /\ Bits(g, a, b, c, d, v)
    BY <2>2, DigitsRead
  <2> QED
    BY <2>3, <1>0, <1>2, <1>8 DEF Bits, OneBit
<1> QED
  BY <1>3, <1>4, <1>5, <1>6, <1>7, <1>8

\* scroll_mouse changes the bits above the buttons.
LEMMA WheelBitsOnly ==
  ASSUME NEW f \in Byte, NEW w \in {"up", "down", "none"}, NEW g,
         g = (f % 32) + WheelBits(w)
  PROVE  /\ g \in Byte /\ g \div 32 = WheelBits(w) \div 32
         /\ \A k \in 1 .. 5 : FlagBit(g, k) <=> FlagBit(f, k)
<1> DEFINE u == WheelBits(w) \div 32
<1>1. PICK a, b, c, d, e, h : Digits(f, a, b, c, d, e, h)
  BY DigitsExist
<1>2. u \in 0 .. 7 /\ WheelBits(w) = 32 * u
  BY DEF WheelBits
<1>3. f % 32 = a + 2 * b + 4 * c + 8 * d + 16 * e
  BY <1>1 DEF Digits
<1> HIDE DEF u
<1>4. Digits(g, a, b, c, d, e, u)
  BY <1>1, <1>2, <1>3 DEF Digits
<1>5. g \in Byte /\ g \div 32 = u /\ Bits(g, a, b, c, d, e)
  BY <1>4, DigitsRead
<1>6. Bits(f, a, b, c, d, e)
  BY <1>1, DigitsRead
<1>7. \A k \in 1 .. 5 : k = 1 \/ k = 2 \/ k = 3 \/ k = 4 \/ k = 5
  OBVIOUS
<1> QED
  BY <1>5, <1>6, <1>7 DEF Bits, u

-----------------------------------------------------------------------------
(* The ports keep their types.                                             *)
LEMMA InputsSmall ==
  /\ \A b \in Buttons : b \in Nat \ {0}
  /\ \A k \in Scancodes : k \in Nat \ {0}
  BY InputAssumption

LEMMA EventParts ==
  ASSUME NEW e \in Events
  PROVE  /\ e.type = "key" => /\ e.id \in Scancodes /\ e.on \in BOOLEAN
                              /\ e.repeat \in BOOLEAN
         /\ e.type = "button" => e.id \in Buttons /\ e.on \in BOOLEAN
         /\ e.type = "motion" => e.to \in Points
         /\ e.type = "wheel" => e.dir \in {"up", "down", "none"}
         /\ e.type \in {"key", "button", "motion", "wheel", "quit"}
  BY DEF Events

LEMMA KbdTypes ==
  ASSUME TypeOK, NEW k \in Nat, NEW on \in BOOLEAN, kbd_btn(k, on)
  PROVE  slot' \in [Slots -> Byte]
<1> DEFINE found == With(IF on THEN 0 ELSE k)
<1>1. slot \in [Slots -> Byte]
  BY DEF TypeOK
<1>2. found # {} => Min(found) \in Slots
  <2>1. found \in SUBSET Nat /\ found \subseteq Slots
    BY DEF With, Slots
  <2> QED
    BY <2>1, MinIn
<1>3. (IF on THEN k % 256 ELSE 0) \in Byte
  BY DEF Byte
<1> QED
  BY <1>1, <1>2, <1>3 DEF kbd_btn

LEMMA BtnTypes ==
  ASSUME TypeOK, NEW b \in Buttons, NEW on \in BOOLEAN, mouse_btn(b, on)
  PROVE  /\ flags' \in Byte /\ flags' \div 32 = flags \div 32
         /\ b \in 1 .. 5 => (FlagBit(flags', b) <=> on)
         /\ \A c \in 1 .. 5 : c # b => (FlagBit(flags', c) <=> FlagBit(flags, c))
<1>1. flags \in Byte
  BY DEF TypeOK
<1>1a. b \in Nat \ {0}
  BY InputsSmall, Zenon
<1>2. CASE b > 5
  BY <1>1, <1>1a, <1>2 DEF mouse_btn
<1>3. CASE ~(b > 5)
  <2>1. b \in 1 .. 5
    BY <1>1a, <1>3
  <2>2. Sets(flags, b, on, flags')
    BY <1>1, <1>3, <2>1 DEF mouse_btn, Sets, FlagBit
  <2>3. OneBit(flags, b, on, flags')
    BY <2>2, ButtonBit
  <2> QED
    BY <2>3, Zenon DEF OneBit
<1> QED
  BY <1>2, <1>3

LEMMA TypeStep == TypeOK /\ [Next]_vars => TypeOK'
<1> SUFFICES ASSUME TypeOK, [Next]_vars PROVE TypeOK'
  OBVIOUS
<1>1. ASSUME NEW e \in Events, Happens(e),
             held' \subseteq Scancodes, down' \subseteq Buttons
      PROVE  TypeOK'
  <2>1. queue' \in Seq(Events) /\ Len(queue') <= QueueMax
    BY <1>1, SlotsAssumption DEF Happens, TypeOK
  <2> QED
    BY <1>1, <2>1 DEF Happens, TypeOK, ports
<1>2. CASE Person
  <2>1. CASE PressKey
    BY <1>1, <2>1 DEF PressKey, KeyEvent, Events, TypeOK
  <2>2. CASE ReleaseKey
    BY <1>1, <2>2 DEF ReleaseKey, KeyEvent, Events, TypeOK
  <2>3. CASE RepeatKey
    BY <1>1, <2>3 DEF RepeatKey, KeyEvent, Events, TypeOK
  <2>4. CASE ClickButton
    <3>1. PICK b \in Buttons :
            /\ down' = IF b \in down THEN down \ {b} ELSE down \cup {b}
            /\ Happens([type |-> "button", id |-> b, on |-> b \in down'])
            /\ held' = held
      BY <2>4 DEF ClickButton
    <3>2. [type |-> "button", id |-> b, on |-> b \in down'] \in Events
      BY DEF Events
    <3>3. held' \subseteq Scancodes /\ down' \subseteq Buttons
      BY <3>1 DEF TypeOK
    <3> QED
      BY <1>1, <3>1, <3>2, <3>3
  <2>5. CASE MoveMouse
    BY <1>1, <2>5 DEF MoveMouse, Events, TypeOK
  <2>6. CASE TurnWheel
    BY <1>1, <2>6 DEF TurnWheel, Events, TypeOK
  <2>7. CASE CloseWindow
    BY <1>1, <2>7 DEF CloseWindow, Events, TypeOK
  <2> QED
    BY <1>2, <2>1, <2>2, <2>3, <2>4, <2>5, <2>6, <2>7 DEF Person
<1>3. CASE Enter
  <2>1. flags' \in Byte
    BY <1>3, WheelBitsOnly DEF Enter, scroll_mouse, TypeOK
  <2> QED
    BY <1>3, <2>1 DEF Enter, TypeOK
<1>4. CASE Return
  BY <1>4 DEF Return, TypeOK, ports
<1>5. CASE TakeEvent
  <2> DEFINE e == Head(queue)
  <2>1. e \in Events /\ queue # << >>
    BY <1>5 DEF TakeEvent, TypeOK
  <2> HIDE DEF e
  <2>2. ASSUME Take(e) PROVE queue' \in Seq(Events) /\ Len(queue') <= QueueMax
    <3>1. queue \in Seq(Events) /\ Len(queue) <= QueueMax /\ QueueMax \in Nat
      BY SlotsAssumption DEF TypeOK
    <3>2. /\ Tail(queue) \in Seq(Events)
          /\ Len(Tail(queue)) = Len(queue) - 1 /\ Len(queue) \in Nat
      BY <2>1, <3>1
    <3> QED
      BY <2>2, <3>1, <3>2 DEF Take
  <2>3. CASE TakeKey(e)
    <3>1. e.id \in Nat /\ e.on \in BOOLEAN /\ e.repeat \in BOOLEAN
      BY <2>1, <2>3, EventParts, InputsSmall DEF TakeKey
    <3>2. slot' \in [Slots -> Byte]
      BY <2>3, <3>1, KbdTypes DEF TakeKey, TypeOK
    <3> QED
      BY <2>2, <2>3, <3>1, <3>2 DEF TakeKey, Take, TypeOK
  <2>4. CASE TakeMouse(e)
    <3>1. CASE e.type = "button" /\ mouse_btn(e.id, e.on) /\ UNCHANGED <<mouse, turned>>
      <4>1. e.id \in Buttons /\ e.on \in BOOLEAN
        BY <2>1, <3>1, EventParts
      <4>2. flags' \in Byte
        BY <3>1, <4>1, BtnTypes
      <4> QED
        BY <2>2, <2>4, <3>1, <4>2 DEF TakeMouse, Take, TypeOK
    <3>2. CASE e.type = "wheel" /\ scroll_mouse(e.dir) /\ turned' = e.dir /\ mouse' = mouse
      <4>1. e.dir \in {"up", "down", "none"}
        BY <2>1, <3>2, EventParts
      <4>2. flags' \in Byte
        BY <3>2, <4>1, WheelBitsOnly DEF scroll_mouse, TypeOK
      <4> QED
        BY <2>2, <2>4, <3>2, <4>1, <4>2 DEF TakeMouse, Take, TypeOK
    <3>3. CASE e.type = "motion" /\ mouse' = e.to /\ UNCHANGED <<flags, turned>>
      <4>1. e.to \in Points
        BY <2>1, <3>3, EventParts
      <4> QED
        BY <2>2, <2>4, <3>3, <4>1 DEF TakeMouse, Take, TypeOK
    <3> QED
      BY <2>4, <3>1, <3>2, <3>3 DEF TakeMouse
  <2>5. CASE TakeQuit(e)
    BY <2>2, <2>5 DEF TakeQuit, Take, TypeOK, ports
  <2> QED
    BY <1>5, <2>3, <2>4, <2>5 DEF TakeEvent, e
<1>6. CASE UNCHANGED vars
  BY <1>6 DEF vars, ports, TypeOK
<1> QED
  BY <1>2, <1>3, <1>4, <1>5, <1>6 DEF Next, hid_events

LEMMA InitTypes == Init => TypeOK
<1> SUFFICES ASSUME Init PROVE TypeOK
  OBVIOUS
<1>1. queue \in Seq(Events) /\ Len(queue) <= QueueMax
  BY SlotsAssumption DEF Init
<1>2. slot \in [Slots -> Byte]
  BY DEF Init, Byte
<1>3. /\ held \subseteq Scancodes /\ down \subseteq Buttons
      /\ flags \in Byte /\ mouse \in Points
  BY DEF Init, Byte
<1> QED
  BY <1>1, <1>2, <1>3 DEF Init, TypeOK

(* The ports, the queue and the histories keep their types.                *)
THEOREM TypeCorrect == Spec => []TypeOK
  BY InitTypes, TypeStep, PTL DEF Spec

-----------------------------------------------------------------------------
(* What the person does is appended, what hid_events() takes is the front. *)

\* The event e says how the keys and the buttons change.
Brings(e) ==
  \A x \in Inputs :
    /\ Concerns(e, x) => (e.on <=> IsDown(x)') /\ (IsDown(x) <=> ~IsDown(x)')
    /\ ~Concerns(e, x) => (IsDown(x) <=> IsDown(x)')

LEMMA PersonBrings ==
  ASSUME TypeOK, Person
  PROVE  \E e \in Events : Happens(e) /\ Brings(e)
<1> USE DEF Brings, Concerns, IsDown, Inputs
<1>1. CASE PressKey
  <2>1. PICK k \in Scancodes \ held :
          held' = held \cup {k} /\ Happens(KeyEvent(k, TRUE, FALSE)) /\ down' = down
    BY <1>1 DEF PressKey
  <2>2. KeyEvent(k, TRUE, FALSE) \in Events
    BY DEF KeyEvent, Events
  <2>3. Brings(KeyEvent(k, TRUE, FALSE))
    BY <2>1 DEF KeyEvent
  <2> QED
    BY <2>1, <2>2, <2>3
<1>2. CASE ReleaseKey
  <2>1. PICK k \in held :
          held' = held \ {k} /\ Happens(KeyEvent(k, FALSE, FALSE)) /\ down' = down
    BY <1>2 DEF ReleaseKey
  <2>2. KeyEvent(k, FALSE, FALSE) \in Events
    BY <2>1 DEF KeyEvent, Events, TypeOK
  <2>3. Brings(KeyEvent(k, FALSE, FALSE))
    BY <2>1 DEF KeyEvent
  <2> QED
    BY <2>1, <2>2, <2>3
<1>3. CASE RepeatKey
  <2>1. PICK k \in held :
          Happens(KeyEvent(k, TRUE, TRUE)) /\ UNCHANGED <<held, down>>
    BY <1>3 DEF RepeatKey
  <2>2. KeyEvent(k, TRUE, TRUE) \in Events
    BY <2>1 DEF KeyEvent, Events, TypeOK
  <2>3. Brings(KeyEvent(k, TRUE, TRUE))
    BY <2>1 DEF KeyEvent
  <2> QED
    BY <2>1, <2>2, <2>3
<1>4. CASE ClickButton
  <2>1. PICK b \in Buttons :
          /\ down' = IF b \in down THEN down \ {b} ELSE down \cup {b}
          /\ Happens([type |-> "button", id |-> b, on |-> b \in down'])
          /\ held' = held
    BY <1>4 DEF ClickButton
  <2> DEFINE e == [type |-> "button", id |-> b, on |-> b \in down']
  <2>2. e \in Events
    BY DEF Events
  <2>3. e.type = "button" /\ e.id = b /\ (e.on <=> b \in down')
    OBVIOUS
  <2>4. (b \in down <=> b \notin down') /\ \A c \in Buttons : c # b => (c \in down <=> c \in down')
    BY <2>1
  <2> HIDE DEF e
  <2>5. Brings(e)
    BY <2>1, <2>3, <2>4
  <2> QED
    BY <2>1, <2>2, <2>5 DEF e
<1>5. CASE MoveMouse
  <2>1. PICK q \in Points :
          Happens([type |-> "motion", to |-> q]) /\ UNCHANGED <<held, down>>
    BY <1>5 DEF MoveMouse
  <2>2. [type |-> "motion", to |-> q] \in Events
    BY DEF Events
  <2>3. Brings([type |-> "motion", to |-> q])
    BY <2>1
  <2> QED
    BY <2>1, <2>2, <2>3
<1>6. CASE TurnWheel
  <2>1. PICK w \in {"up", "down", "none"} :
          Happens([type |-> "wheel", dir |-> w]) /\ UNCHANGED <<held, down>>
    BY <1>6 DEF TurnWheel
  <2>2. [type |-> "wheel", dir |-> w] \in Events
    BY DEF Events
  <2>3. Brings([type |-> "wheel", dir |-> w])
    BY <2>1
  <2> QED
    BY <2>1, <2>2, <2>3
<1>7. CASE CloseWindow
  <2>1. [type |-> "quit"] \in Events
    BY DEF Events
  <2>2. Brings([type |-> "quit"])
    BY <1>7 DEF CloseWindow
  <2> QED
    BY <1>7, <2>1, <2>2 DEF CloseWindow
<1> QED
  BY <1>1, <1>2, <1>3, <1>4, <1>5, <1>6, <1>7 DEF Person

LEMMA IsDownBoolean == \A x : IsDown(x) \in BOOLEAN /\ IsDown(x)' \in BOOLEAN
  BY DEF IsDown

\* What happens now changes nothing of what was so before the queue.
LEMMA HappensTells ==
  ASSUME TypeOK, QueueTells, NEW e \in Events, Happens(e), Brings(e)
  PROVE  QueueTells' /\ \A x \in Inputs : Before(x)' <=> Before(x)
<1> DEFINE l == Len(queue) + 1
<1>1. queue \in Seq(Events) /\ queue' = Append(queue, e) /\ Len(queue) \in Nat
  BY DEF TypeOK, Happens
<1>2. Len(queue') = l /\ queue'[l] = e /\ \A j \in 1 .. Len(queue) : queue'[j] = queue[j]
  BY <1>1
<1>3. ASSUME NEW x \in Inputs
      PROVE  /\ \A n \in 0 .. Len(queue) :
                  Was(queue', IsDown(x)', x, n) <=> Was(queue, IsDown(x), x, n)
             /\ Was(queue', IsDown(x)', x, l) <=> IsDown(x)'
  <2>1. /\ Concerns(e, x) => (e.on <=> IsDown(x)') /\ (IsDown(x) <=> ~IsDown(x)')
        /\ ~Concerns(e, x) => (IsDown(x) <=> IsDown(x)')
    BY <1>3 DEF Brings
  <2>2. IsDown(x) \in BOOLEAN /\ IsDown(x)' \in BOOLEAN
    BY IsDownBoolean
  <2> QED
    BY <1>1, <1>3, <2>1, <2>2, WasAppend
<1>4. \A x \in Inputs : Before(x)' <=> Before(x)
  BY <1>1, <1>3 DEF Before
<1>5. ASSUME NEW x \in Inputs, NEW j \in 1 .. Len(queue'), Concerns(queue'[j], x)
      PROVE  queue'[j].on <=> Was(queue', IsDown(x)', x, j)
  <2>1. CASE j = l
    BY <1>2, <1>3, <1>5, <2>1 DEF Brings
  <2>2. CASE j \in 1 .. Len(queue)
    BY <1>2, <1>3, <1>5, <2>2 DEF QueueTells
  <2> QED
    BY <1>1, <1>2, <2>1, <2>2
<1> QED
  BY <1>4, <1>5 DEF QueueTells

\* The event that is taken says what was so before it, and after it.
LEMMA TakeTells ==
  ASSUME TypeOK, QueueTells, NEW e, Take(e)
  PROVE  /\ QueueTells'
         /\ e \in Events
         /\ \A x \in Inputs :
              /\ Concerns(e, x) => (Before(x)' <=> e.on) /\ (Before(x) <=> ~e.on)
              /\ ~Concerns(e, x) => (Before(x)' <=> Before(x))
<1>1. /\ queue \in Seq(Events) /\ queue # << >> /\ queue' = Tail(queue)
      /\ Len(queue) \in Nat \ {0} /\ e = queue[1] /\ e \in Events
      /\ UNCHANGED <<held, down>>
  BY DEF TypeOK, Take
<1>2. /\ Len(queue') = Len(queue) - 1
      /\ \A j \in 1 .. Len(queue) - 1 : queue'[j] = queue[j + 1]
  BY <1>1
<1>3. \A x : IsDown(x)' = IsDown(x)
  BY <1>1 DEF IsDown
<1>4. ASSUME NEW x \in Inputs, NEW n \in 0 .. Len(queue) - 1
      PROVE  Was(queue', IsDown(x)', x, n) <=> Was(queue, IsDown(x), x, n + 1)
  BY <1>1, <1>3, WasTail, IsDownBoolean
<1>5. ASSUME NEW x \in Inputs
      PROVE  /\ Concerns(e, x) => (Before(x)' <=> e.on) /\ (Before(x) <=> ~e.on)
             /\ ~Concerns(e, x) => (Before(x)' <=> Before(x))
  <2>1. Before(x)' <=> Was(queue, IsDown(x), x, 1)
    <3>1. 0 \in 0 .. Len(queue) - 1 /\ 0 + 1 = 1
      BY <1>1
    <3> QED
      BY <1>4, <3>1 DEF Before
  <2>2. /\ Concerns(e, x) => (Before(x) <=> ~e.on)
        /\ ~Concerns(e, x) => (Before(x) <=> Was(queue, IsDown(x), x, 1))
    BY <1>1, WasHead, IsDownBoolean DEF Before
  <2>3. Concerns(e, x) => (e.on <=> Was(queue, IsDown(x), x, 1))
    BY <1>1 DEF QueueTells
  <2> QED
    BY <2>1, <2>2, <2>3
<1>6. ASSUME NEW x \in Inputs, NEW j \in 1 .. Len(queue'), Concerns(queue'[j], x)
      PROVE  queue'[j].on <=> Was(queue', IsDown(x)', x, j)
  <2>1. j + 1 \in 1 .. Len(queue) /\ queue'[j] = queue[j + 1] /\ j \in 0 .. Len(queue) - 1
    BY <1>1, <1>2
  <2> QED
    BY <1>4, <1>6, <2>1 DEF QueueTells
<1> QED
  BY <1>1, <1>5, <1>6 DEF QueueTells

-----------------------------------------------------------------------------
(* The byte of the mouse. *)

LEMMA FlagsStep ==
  ASSUME TypeOK, QueueTells, FlagsTell, [Next]_vars
  PROVE  QueueTells' /\ FlagsTell'
<1>0. flags \in Byte /\ turned \in {"up", "down", "none"}
  BY DEF TypeOK
<1>1. \A b \in Buttons : Button(b) \in Inputs
  BY DEF Button, Inputs
<1>2. \A b \in Buttons : b <= 5 => b \in 1 .. 5
  BY InputsSmall
<1>3. CASE Person
  <2>1. PICK e \in Events : Happens(e) /\ Brings(e)
    BY <1>3, PersonBrings
  <2>2. QueueTells' /\ \A b \in Buttons : Before(Button(b))' <=> Before(Button(b))
    BY <2>1, <1>1, HappensTells DEF Button
  <2>3. UNCHANGED <<flags, turned>>
    BY <2>1 DEF Happens, ports
  <2> QED
    BY <2>2, <2>3 DEF FlagsTell
<1>4. CASE UNCHANGED <<held, down, queue>>
  <2>1. QueueTells' /\ \A x : Before(x)' <=> Before(x)
    BY <1>4 DEF QueueTells, Before, IsDown
  <2>2. CASE UNCHANGED <<flags, turned>>
    BY <2>1, <2>2 DEF FlagsTell
  <2>3. CASE Enter
    <3>1. /\ flags' \div 32 = WheelBits(turned') \div 32
          /\ \A k \in 1 .. 5 : FlagBit(flags', k) <=> FlagBit(flags, k)
      BY <2>3, <1>0, WheelBitsOnly DEF Enter, scroll_mouse
    <3> QED
      BY <2>1, <3>1, <1>2 DEF FlagsTell
  <2> QED
    BY <1>3, <1>4, <2>2, <2>3
       DEF Next, hid_events, Return, ports, vars, TakeEvent, TakeKey, TakeMouse,
           TakeQuit, Take, TypeOK
<1>5. ASSUME NEW e, Take(e), TakeKey(e) \/ TakeMouse(e) \/ TakeQuit(e)
      PROVE  QueueTells' /\ FlagsTell'
  <2>1. /\ QueueTells' /\ e \in Events
        /\ \A b \in Buttons :
             /\ Concerns(e, Button(b)) =>
                  (Before(Button(b))' <=> e.on) /\ (Before(Button(b)) <=> ~e.on)
             /\ ~Concerns(e, Button(b)) => (Before(Button(b))' <=> Before(Button(b)))
    BY <1>1, <1>5, TakeTells DEF Button
  <2>2. \A b \in Buttons : Concerns(e, Button(b)) <=> e.type = "button" /\ e.id = b
    BY DEF Concerns, Button
  <2>3. CASE e.type = "button"
    <3>1. e.id \in Buttons /\ e.on \in BOOLEAN
      BY <2>1, <2>3, EventParts
    <3>2. mouse_btn(e.id, e.on) /\ turned' = turned
      BY <1>5, <2>3 DEF TakeKey, TakeMouse, TakeQuit
    <3>3. /\ flags' \div 32 = flags \div 32
          /\ e.id \in 1 .. 5 => (FlagBit(flags', e.id) <=> e.on)
          /\ \A c \in 1 .. 5 : c # e.id => (FlagBit(flags', c) <=> FlagBit(flags, c))
      BY <3>1, <3>2, BtnTypes
    <3>4. ASSUME NEW b \in Buttons, b <= 5
          PROVE  FlagBit(flags', b) <=> Before(Button(b))'
      <4>1. b \in 1 .. 5 /\ (FlagBit(flags, b) <=> Before(Button(b)))
        BY <3>4, <1>2 DEF FlagsTell
      <4>2. CASE b = e.id
        BY <4>1, <4>2, <2>1, <2>2, <2>3, <3>3
      <4>3. CASE b # e.id
        BY <4>1, <4>3, <2>1, <2>2, <3>3
      <4> QED
        BY <4>2, <4>3
    <3> QED
      BY <2>1, <3>2, <3>3, <3>4 DEF FlagsTell
  <2>4. CASE e.type # "button"
    <3>1. \A b \in Buttons : Before(Button(b))' <=> Before(Button(b))
      BY <2>1, <2>2, <2>4
    <3>2. CASE UNCHANGED <<flags, turned>>
      BY <2>1, <3>1, <3>2 DEF FlagsTell
    <3>3. CASE e.type = "wheel" /\ scroll_mouse(e.dir) /\ turned' = e.dir
      <4>1. e.dir \in {"up", "down", "none"}
        BY <2>1, <3>3, EventParts
      <4>2. /\ flags' \div 32 = WheelBits(turned') \div 32
            /\ \A k \in 1 .. 5 : FlagBit(flags', k) <=> FlagBit(flags, k)
        BY <3>3, <4>1, <1>0, WheelBitsOnly DEF scroll_mouse
      <4> QED
        BY <2>1, <3>1, <4>2, <1>2 DEF FlagsTell
    <3> QED
      BY <1>5, <2>4, <3>2, <3>3 DEF TakeKey, TakeMouse, TakeQuit, ports
  <2> QED
    BY <2>3, <2>4
<1>6. TakeEvent => \E e : Take(e) /\ (TakeKey(e) \/ TakeMouse(e) \/ TakeQuit(e))
  BY DEF TakeEvent, TakeKey, TakeMouse, TakeQuit
<1>7. Enter \/ Return \/ UNCHANGED vars => UNCHANGED <<held, down, queue>>
  BY DEF Enter, Return, vars
<1> QED
  BY <1>3, <1>4, <1>5, <1>6, <1>7 DEF Next, hid_events

-----------------------------------------------------------------------------
(* The slots of the keys. *)

LEMMA SlotsStep ==
  ASSUME Scancodes \subseteq Byte, TypeOK, QueueTells, SlotsTell, [Next]_vars
  PROVE  SlotsTell'
<1>0. slot \in [Slots -> Byte] /\ full \in BOOLEAN
  BY DEF TypeOK
<1>0a. \A k \in Scancodes : k \in Nat /\ k # 0 /\ k % 256 = k
  <2>1. \A k \in Byte : k \in Nat /\ k % 256 = k
    BY DEF Byte
  <2> QED
    BY <2>1, InputsSmall
<1>1. \A k \in Scancodes : Key(k) \in Inputs
  BY DEF Key, Inputs
<1>2. CASE Person
  <2>1. PICK e \in Events : Happens(e) /\ Brings(e)
    BY <1>2, PersonBrings
  <2>2. \A k \in Scancodes : Before(Key(k))' <=> Before(Key(k))
    BY <2>1, <1>1, HappensTells DEF Key
  <2>3. UNCHANGED <<slot, full>>
    BY <2>1 DEF Happens, ports
  <2> QED
    BY <2>2, <2>3 DEF SlotsTell, Shown
<1>3. CASE UNCHANGED <<held, down, queue, slot, full>>
  <2>1. \A x : Before(x)' <=> Before(x)
    BY <1>3 DEF Before, IsDown
  <2> QED
    BY <1>3, <2>1 DEF SlotsTell, Shown
<1>4. ASSUME NEW e, Take(e), TakeKey(e) \/ TakeMouse(e) \/ TakeQuit(e)
      PROVE  SlotsTell'
  <2>1. /\ e \in Events
        /\ \A k \in Scancodes :
             /\ Concerns(e, Key(k)) =>
                  (Before(Key(k))' <=> e.on) /\ (Before(Key(k)) <=> ~e.on)
             /\ ~Concerns(e, Key(k)) => (Before(Key(k))' <=> Before(Key(k)))
    BY <1>1, <1>4, TakeTells DEF Key
  <2>2. \A k \in Scancodes :
          Concerns(e, Key(k)) <=> e.type = "key" /\ ~e.repeat /\ e.id = k
    BY DEF Concerns, Key
  <2>3. CASE ~(e.type = "key" /\ ~e.repeat)
    <3>1. \A k \in Scancodes : Before(Key(k))' <=> Before(Key(k))
      BY <2>1, <2>2, <2>3
    <3>2. slot' = slot
      BY <1>4, <2>3 DEF TakeKey, TakeMouse, TakeQuit, ports
    <3>3. full' <=> full
      <4>1. TakeMouse(e) \/ TakeQuit(e) => (full' <=> full)
        BY DEF TakeMouse, TakeQuit
      <4>2. TakeKey(e) => (full' <=> full)
        BY <2>3, Zenon DEF TakeKey
      <4> QED
        BY <1>4, <4>1, <4>2
    <3> QED
      BY <3>1, <3>2, <3>3 DEF SlotsTell, Shown
  <2>4. CASE e.type = "key" /\ ~e.repeat
    <3> DEFINE k == e.id
               found == With(IF e.on THEN 0 ELSE k)
               j == Min(found)
    <3>1. k \in Scancodes /\ e.on \in BOOLEAN
      BY <2>1, <2>4, EventParts
    <3>2. /\ Before(Key(k))' <=> e.on
          /\ Before(Key(k)) <=> ~e.on
          /\ \A c \in Scancodes : c # k => (Before(Key(c))' <=> Before(Key(c)))
      BY <2>1, <2>2, <2>4, <3>1
    <3>3. /\ kbd_btn(k, e.on)
          /\ full' = (full \/ (e.on /\ With(0) = {}))
      BY <1>4, <2>4 DEF TakeKey, TakeMouse, TakeQuit
    <3>4. found # {} => j \in Slots /\ slot[j] = IF e.on THEN 0 ELSE k
      <4>1. found \in SUBSET Nat
        BY DEF With, Slots
      <4> QED
        BY <4>1, MinIn DEF With
    <3>5. /\ found = {} => slot' = slot
          /\ found # {} => slot' = [slot EXCEPT ![j] = IF e.on THEN k ELSE 0]
      BY <3>1, <3>3, <1>0, <1>0a DEF kbd_btn
    <3> HIDE DEF k, found, j
    <3>6. CASE e.on
      <4>1. \A i \in Slots : slot[i] # k
        BY <3>1, <3>2, <3>6, <1>0, <1>0a DEF SlotsTell, Shown
      <4>2. CASE found = {}
        <5>1. slot' = slot /\ full'
          BY <3>3, <3>5, <3>6, <4>2 DEF found
        <5> QED
          BY <5>1, <4>1, <3>1, <3>2, <3>6 DEF SlotsTell, Shown
      <4>3. CASE found # {}
        <5>1. /\ j \in Slots /\ slot[j] = 0 /\ slot' \in [Slots -> Byte \cup {k}]
              /\ slot'[j] = k /\ \A i \in Slots : i # j => slot'[i] = slot[i]
          BY <1>0, <3>4, <3>5, <3>6, <4>3
        <5>2. \A c : c \in Shown' <=> c \in Shown \/ c = k
          BY <5>1, <1>0, <1>0a, <3>1 DEF Shown
        <5>3. full' <=> full
          BY <3>3, <3>6, <4>3 DEF found
        <5>4. \A i, m \in Slots : slot'[i] = slot'[m] /\ slot'[i] # 0 => i = m
          BY <5>1, <4>1 DEF SlotsTell
        <5> QED
          BY <5>2, <5>3, <5>4, <3>1, <3>2, <3>6 DEF SlotsTell
      <4> QED
        BY <4>2, <4>3
    <3>7. CASE ~e.on
      <4>0. full' <=> full
        BY <3>3, <3>7
      <4>1. CASE found = {}
        <5>1. slot' = slot /\ k \notin Shown
          BY <3>5, <3>7, <4>1 DEF found, With, Shown
        <5> QED
          BY <5>1, <4>0, <3>1, <3>2, <3>7 DEF SlotsTell, Shown
      <4>2. CASE found # {}
        <5>1. /\ j \in Slots /\ slot[j] = k
              /\ slot'[j] = 0 /\ \A i \in Slots : i # j => slot'[i] = slot[i]
          BY <1>0, <3>4, <3>5, <3>7, <4>2
        <5>2. \A i \in Slots : i # j => slot[i] # k
          BY <5>1, <1>0, <1>0a, <3>1 DEF SlotsTell
        <5>3. \A c : c \in Shown' <=> c \in Shown /\ c # k
          BY <5>1, <5>2 DEF Shown
        <5>4. \A i, m \in Slots : slot'[i] = slot'[m] /\ slot'[i] # 0 => i = m
          BY <5>1 DEF SlotsTell
        <5> QED
          BY <5>3, <5>4, <4>0, <3>1, <3>2, <3>7 DEF SlotsTell
      <4> QED
        BY <4>1, <4>2
    <3> QED
      BY <3>6, <3>7
  <2> QED
    BY <2>3, <2>4
<1>5. TakeEvent => \E e : Take(e) /\ (TakeKey(e) \/ TakeMouse(e) \/ TakeQuit(e))
  BY DEF TakeEvent, TakeKey, TakeMouse, TakeQuit
<1>6. Enter \/ Return \/ UNCHANGED vars => UNCHANGED <<held, down, queue, slot, full>>
  BY DEF Enter, Return, vars, ports
<1> QED
  BY <1>2, <1>3, <1>4, <1>5, <1>6 DEF Next, hid_events

-----------------------------------------------------------------------------
\* With nothing in the queue, what was so before it is so now.
LEMMA NothingWaits ==
  ASSUME queue = << >>, NEW x
  PROVE  Before(x) <=> IsDown(x)
  BY DEF Before, Was

LEMMA HidStart == Init => QueueTells /\ FlagsTell /\ SlotsTell
<1> SUFFICES ASSUME Init PROVE QueueTells /\ FlagsTell /\ SlotsTell
  OBVIOUS
<1>1. queue = << >> /\ \A x : ~IsDown(x)
  BY DEF Init, IsDown
<1>2. \A x : ~Before(x)
  BY <1>1, NothingWaits
<1>3. QueueTells
  BY <1>1 DEF QueueTells
<1>4. FlagsTell
  <2>1. Digits(0, 0, 0, 0, 0, 0, 0)
    BY DEF Digits
  <2>2. Bits(0, 0, 0, 0, 0, 0)
    BY <2>1, DigitsRead
  <2>3. \A b \in Buttons : b <= 5 => b = 1 \/ b = 2 \/ b = 3 \/ b = 4 \/ b = 5
    BY InputsSmall
  <2>4. \A b \in Buttons : b <= 5 => ~FlagBit(0, b)
    BY <2>2, <2>3 DEF Bits
  <2> QED
    BY <1>2, <2>4 DEF Init, FlagsTell, WheelBits
<1>5. Shown = {}
  BY DEF Init, Shown
<1>6. SlotsTell
  BY <1>2, <1>5 DEF SlotsTell, Init
<1> QED
  BY <1>3, <1>4, <1>6

(* The byte the wheel and the buttons share (mouse_btn and scroll_mouse):  *)
(* the wheel's bits hold the last turn of this call and the buttons' bits  *)
(* what the buttons were before the events that wait, so that neither      *)
(* disturbs the other, for every queue and any buttons.                    *)
THEOREM FlagsShow == Spec => []FlagsShowMouse
<1> DEFINE I == TypeOK /\ QueueTells /\ FlagsTell
<1>1. Init => I
  <2>1. Init => TypeOK
    BY InitTypes
  <2> QED
    BY <2>1, HidStart
<1>2. I /\ [Next]_vars => I'
  BY TypeStep, FlagsStep
<1>3. I => FlagsShowMouse
  <2> SUFFICES ASSUME I PROVE FlagsShowMouse
    OBVIOUS
  <2>1. ASSUME UpToDate, NEW b \in Buttons
        PROVE  Before(Button(b)) <=> b \in down
    BY <2>1, NothingWaits DEF UpToDate, IsDown, Button
  <2> QED
    BY <2>1 DEF FlagsTell, FlagsShowMouse
<1> QED
  BY <1>1, <1>2, <1>3, PTL DEF Spec

(* The key slots (kbd_btn), when the scancodes fit a byte: no key has two  *)
(* slots, no key that is up has one, and every key that is down has one as *)
(* long as no press found the slots full.                                  *)
THEOREM SlotsShow ==
  ASSUME Scancodes \subseteq Byte
  PROVE  Spec => []SlotsShowKeys
<1> DEFINE I == TypeOK /\ QueueTells /\ FlagsTell /\ SlotsTell
<1>1. Init => I
  <2>1. Init => TypeOK
    BY InitTypes
  <2> QED
    BY <2>1, HidStart
<1>2. I /\ [Next]_vars => I'
  BY TypeStep, FlagsStep, SlotsStep
<1>3. I => SlotsShowKeys
  <2> SUFFICES ASSUME I PROVE SlotsShowKeys
    OBVIOUS
  <2>1. ASSUME UpToDate, NEW k \in Scancodes
        PROVE  Before(Key(k)) <=> k \in held
    BY <2>1, NothingWaits DEF UpToDate, IsDown, Key
  <2>2. held \subseteq Scancodes
    BY DEF TypeOK
  <2> QED
    BY <2>1, <2>2 DEF SlotsTell, SlotsShowKeys
<1> QED
  BY <1>1, <1>2, <1>3, PTL DEF Spec
=============================================================================
